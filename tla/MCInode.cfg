CONSTANTS
    Proc = {p1, p2}
    NINODES = 3
    NINODE = 3
    Name = {"x", "y"}
    Calls <- MCCalls
    MaxCalls = 1
    NoProc = NoProc
SPECIFICATION Spec
SYMMETRY Sym
INVARIANTS TableInv RefsCounted  LinksCounted

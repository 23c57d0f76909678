CONSTANTS
    Proc = {p1, p2}
    Buf = {b1, b2, b3}
    Block = {k1, k2, k3, k4}
    Value = {0, 1}
    NoBlock = NoBlock
    NoBuf = NoBuf
    NoProc = NoProc
    NUM = 4
    MaxPin = 1
SPECIFICATION Spec
SYMMETRY Sym
INVARIANTS CacheInv RefsCounted  DescOwned  
PROPERTIES BlockStoreSpec

SPECIFICATION Spec
CONSTANTS
    Proc = {p1, p2}
    initproc = p1
    NPAGES = 16
    PGSIZE = 2
    NVA = 3
    NPTE = 2
    Spare = {0, 2, 9}
    Images <- MCImages
INVARIANTS
    MemoryInv
    ImageWhole
    NoPanic
VIEW MCView

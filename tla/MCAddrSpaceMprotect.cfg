CONSTANTS
    p1 = p1
    p2 = p2
    Proc = {p1, p2}
    Init1 = p1
    NPage = 2
    ImagePages = {1}
    StackPages = {}
    HeapEnd = 3
    MmapPages = {}
    MaxStack = 2
    Frame = {f1, f2, f3}
    Val = {0, 1}
    Zero = 0
    MaxRef = 2
    MprotectAny = TRUE
    Mprots = {"R", "RW"}
    None = none
    FixedPages = {}
    Calls <- MprotectCalls
    Mmaps <- CowMmaps
SPECIFICATION AddrSpaceSpec
SYMMETRY FrameSymmetry
INVARIANT WritableUnshared
CHECK_DEADLOCK FALSE

CONSTANTS
    p1 = p1
    p2 = p2
    Proc = {p1, p2}
    Init1 = p1
    NPage = 3
    ImagePages = {}
    StackPages = {3}
    HeapEnd = 1
    MmapPages = {1, 2}
    MaxStack = 2
    Frame = {f1, f2, f3}
    Val = {0, 1}
    Zero = 0
    MaxRef = 2
    MprotectAny = FALSE
    Mprots = {"RW"}
    None = none
    FixedPages = {2}
    Calls <- MapCalls
    Mmaps <- MapMmaps
SPECIFICATION AddrSpaceSpec
SYMMETRY FrameSymmetry
INVARIANTS FramesHeld WritableUnshared
PROPERTY PrivateMemorySpec
CHECK_DEADLOCK FALSE

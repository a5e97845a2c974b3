SPECIFICATION MCSpec
CONSTANTS
    a1 = a1
    a2 = a2
    a3 = a3
    b1 = b1
    b2 = b2
    b3 = b3
    c1 = c1
    c2 = c2
    Parts = {"stacks", "mm", "clock"}
    StkTasks = {a1, a2, a3}
    StkCpus = {c1, c2}
    Stacks = {b1, b2, b3}
    NrCached = 2
    StkPages = 2
    NoStack = NoStack
    MmTasks = {a1, a2, a3}
    MmMem = {b1, b2, b3}
    NullMm = NullMm
    CkTasks = {a1, a2, a3}
    CkMms = {b1, b2, b3}
    NoSpace = NoSpace
    RootNs = RootNs
    TimeNs = {c1, c2}
SYMMETRY Symmetry
INVARIANTS
    StacksSound
    MmCountsExact
    ClocksRight
CHECK_DEADLOCK FALSE

SPECIFICATION MCSpec
CONSTANTS
    a1 = a1
    a2 = a2
    a3 = a3
    u1 = u1
    u2 = u2
    Parts = {"vtask"}
    Slots = {a1, a2, a3}
    Args <- MCArgs
    MaxTasks = 4
    Nobody = Nobody
    ShTasks = {a1, a2, a3}
    Objects = {1, 2, 3}
    NoObj = NoObj
    MaxBusy = 2
    CloneFlags <- MCCloneFlags
    UnshareFlags <- MCUnshareFlags
    VmaLists <- MCVmaLists
    Kids = {k1, k2}
    CommitLimit = 8
    VtTasks = {u1, u2}
    VtMms = {w1, w2}
    NullSpace = NullSpace
    VTASK = 2
    UserTop = 10
    AddrTop = 13
    Holes = {1, 4, 7}
    MoveTo = 9
    Offset <- MCOffset
    MaxTurns = 2
SYMMETRY Symmetry
INVARIANT InfoIsCurrent

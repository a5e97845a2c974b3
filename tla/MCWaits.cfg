SPECIFICATION MCSpec
CONSTANTS
    t1 = t1
    t2 = t2
    t3 = t3
    Parts = {"lock", "send", "vfork", "capture"}
    NoOne = NoOne
    LockTasks = {t1, t2, t3}
    Readers <- MCReaders
    FastLockers <- MCFast
    Cpus = {c1}
    RcvBuf = 1
    Senders = {p1, p2}
    SndBufs = {4, 6}
    NCompleting = 1
    SkbSize = 2
    VfTasks = {v1, v2, v3}
    VfFirst = v1
    Nobody = Nobody
    Limit = 3
    BufSizes = {0, 3, 5}
    CapLens = {1, 2, 4}
    MaxPackets = 4
INVARIANTS
    LockSound
    BacklogDelivered
    
PROPERTIES
    SendersServed
    LockProgress
    ParentReturns
    CaptureContract
CHECK_DEADLOCK FALSE

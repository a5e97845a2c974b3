SPECIFICATION MCSpec
CONSTANTS
    s1 = s1
    s2 = s2
    b1 = b1
    b2 = b2
    p1 = p1
    p2 = p2
    k1 = k1
    k2 = k2
    k3 = k3
    Parts = {"life", "options", "stamps", "registry", "recvmmsg", "sendmmsg",
             "msgcopy"}
    NoSk = NoSk
    Socks = {s1, s2}
    Skbs = {b1, b2}
    Kinds <- MCKinds
    TrueSize = 2
    MaxHolders = 1
    Width = 4
    WmemMax = 6
    RmemMax = 3
    MinSnd = 2
    MinRcv = 1
    UsecPerSec = 6
    HZ = 2
    MaxTimeout = 9
    TopPriority = 3
    U16Max = 5
    Devices = {1}
    OptVals <- MCOptVals
    MaxCalls = 2
    StampSocks = {p1, p2}
    MaxKey = 1
    MaxLost = 1
    TsChoices <- MCTsChoices
    Modules = {k1, k2, k3}
    Family <- MCFamily
    Creators = {t1}
    PCpus = {1, 2}
    InuseNr = 3
    MaxSocks = 1
    MaxDrift = 1
    Receivers = {r1, r2}
    Vlen = 3
    Addrs = {"a", "b"}
    MaxArrivals = 3
    MaxErrors = 2
    Storage = 2
    FastIov = 1
    MaxIov = 2
    CtlStack = 1
    CtlMax = 2
    NameLens <- MCNameLens
    IovLens = {1, 2, 3}
    CtlLens = {0, 1, 2, 3}
INVARIANTS
    LifeExact
    RegistrySound
    BatchesExact
    CopiesExact
PROPERTIES
    
    StampContract
CHECK_DEADLOCK FALSE

SPECIFICATION MCSpec
CONSTANTS
    t1 = t1
    t2 = t2
    f = f
    d = d
    e = e
    n = n
    Parts = {"sync", "rebind", "proc", "acpi", "gptfs", "fork"}
    NoDir = NoDir
    Absent = Absent
    Tasks = {t1, t2}
    Files = {f}
    Names = {n}
    NameOf <- MCNameOf
    Dirs = {d, e}
    MaxBlocks = 2
    MaxWrites = 2
    MaxCrashes = 1
    MaxText = 4
    Mounts = {o1}
    Modes = {1, 5}
    AllUGO = 4
    DefaultMode = 3
    Byte = 4
    HeaderLen = 3
    StringLen = 4
    CopyLen = 3
    MaxShows = 2
    Refused = Refused
    Texts <- MCTexts
    Sessions = {s1}
    MaxLen = 4
    MaxAnswer = 2
    NoData = NoData
    ForkTasks = {f1, t1, t2}
    FirstTask = f1
    MaxThreads = 3
    MaxForks = 2
    Events = {"signal", "kill", "namespace"}
    None = None
SYMMETRY Symmetry
INVARIANTS
    NoPartialFile
    SoloFlushExact
    
    TableShown
    TreeSound
    UnwindExact
    NoChildEscapes
PROPERTIES
    NoRegress
CHECK_DEADLOCK FALSE

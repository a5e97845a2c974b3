SPECIFICATION SchedSpec
CONSTANTS
    Tasks = {t1, t2, t3}
    Tables = {tb1}
    Keys <- MCKeys
    Values <- MCValues
    NBuckets = 2
    NoTable = NoTable
    NoTask = NoTask
    InitTask = t1
    InitTable = tb1
    NCPU = 2
INVARIANTS StallNeedsSleepingWriter
PROPERTIES CallsReturn
CHECK_DEADLOCK FALSE

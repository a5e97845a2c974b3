SPECIFICATION Spec
CONSTANTS
    Tasks = {t1, t2}
    Tables = {tb1, tb2}
    Keys <- MCKeys
    Values <- MCValues
    NBuckets = 2
    NoTable = NoTable
    NoTask = NoTask
    InitTask = t1
    InitTable = tb1
INVARIANTS
    LockDiscipline
    ChainsWellFormed
    ScanStillValid
PROPERTIES
    ImplementsMap

SPECIFICATION FairSpec
CONSTANTS
    Threads = {t1, t2}
    NoThread = nobody
    Tools <- ToolsAll
    BeginInterval = 1
    EndInterval = 3
    SignalValues = {1, 2}
    MaxBatch = 2
    MaxLaunches = 4
INVARIANT SinglesRunAlone
INVARIANT ReportsExact
INVARIANT IntervalRespected
INVARIANT NeverAborts
PROPERTY SubmissionsReturn
CHECK_DEADLOCK FALSE

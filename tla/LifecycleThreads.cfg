SPECIFICATION FairSpec
CONSTANTS
    Threads = {t1, t2}
    Nobody = nobody
    TimeTrace = TRUE
    Tables = {"hsa", "hipCompiler", "hipRuntime"}
INVARIANT NeededAlive
INVARIANT NothingIll
PROPERTY FinalizationEndsWithTrace
CHECK_DEADLOCK FALSE

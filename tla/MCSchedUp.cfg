CONSTANTS
    t1 = t1
    c0 = c0
    Thread = {t1, t2, t3}
    Cpu = {c0}
    Idle = Idle
    NoCpu = NoCpu
    Pinned <- Unpinned
    Priority = {1}
    DEFAULT_PRIORITY = 1
    QUANTUM = 1
    RealTimeThreads = {t1}
SPECIFICATION FairSpec
INVARIANTS
    IdleMeansNothingToDo
PROPERTY
    TimeSlicing
CHECK_DEADLOCK FALSE

CONSTANTS
    t1 = t1
    c0 = c0
    Thread = {t1, t2, t3}
    Cpu = {c0, c1}
    Idle = Idle
    NoCpu = NoCpu
    Pinned <- OnePinned
    Priority = {1, 2}
    DEFAULT_PRIORITY = 1
    QUANTUM = 1
    RealTimeThreads = {t1}
SPECIFICATION Spec
INVARIANTS
    RunQueuesConsistent
    OneCpuPerThread
    
    
SYMMETRY SymmetryOfOthers
CHECK_DEADLOCK FALSE

CONSTANTS
    Thread = {t1, t2, t3}
    Queue = {mq}
    NULL = null
    mwait = mq
    Timeouts = {"ZERO", "FINITE", "INFINITE_TIME"}
SPECIFICATION FairSpec
INVARIANTS
    IInv
    MutualExclusion
    NoLostWakeup
PROPERTIES
    NoBarging
    AcquireReturns
CHECK_DEADLOCK FALSE

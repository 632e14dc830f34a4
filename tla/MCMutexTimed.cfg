CONSTANTS
    Thread = {t1, t2, t3}
    Queue = {mq}
    NULL = null
    mwait = mq
    Timeouts = {"FINITE", "INFINITE_TIME"}
SPECIFICATION Spec
INVARIANT
    NoStrandedWaiter

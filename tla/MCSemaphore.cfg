CONSTANTS
    Thread = {p, t1, t2, t3}
    Queue = {sq}
    NULL = null
    swait = sq
    InitialCount = 1
    MaxAvail = 2
    Timeouts = {"ZERO", "FINITE", "INFINITE_TIME"}
    Poster = {p}
    Waiter = {t1, t2, t3}
SPECIFICATION FairSpec
INVARIANTS
    NoOverGrant
    CountAccountsForThreads
    NoLostWakeup
PROPERTY
    WaitReturns

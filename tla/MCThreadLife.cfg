CONSTANTS
    Main = {m1, m2, m3}
    Worker = {w1, w2}
    Thread = {m1, m2, m3, w1, w2}
    Queue = {w1, w2}
    NULL = null
    Timeouts = {"FINITE", "INFINITE_TIME"}
SPECIFICATION FairSpec
INVARIANTS
    NoUseAfterFree
    ThreadListSound
PROPERTIES
    DeadAreReclaimed
CHECK_DEADLOCK FALSE

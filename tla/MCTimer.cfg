CONSTANTS
    Timer = {a, b}
    Cpu = {c0, c1}
    None = None
    TIMES = 8
    MaxDelay = 2
    MaxPeriod = 1
    MaxLate = 1
    Serialized = TRUE
SPECIFICATION FairSpec
INVARIANTS
    
    OwedTimersAreQueued
PROPERTIES
    NeverEarly
    TimersFire

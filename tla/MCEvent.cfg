CONSTANTS
    Thread = {t1, t2, t3}
    Queue = {eq}
    NULL = null
    ewait = eq
    Flags = {"AUTOUNSIGNAL", "NONE"}
    Timeouts = {"ZERO", "FINITE", "INFINITE_TIME"}
SPECIFICATION FairSpec
INVARIANTS
    SignaledMeansNobodyWaits
    OneWaiterPerSignal
PROPERTIES
    NoSuccessAfterDestroy
    WaitReturns

CONSTANTS
    Thread = {r1, r2}
    Queue = {eq}
    NULL = null
    ewait = eq
    Writer = {irq}
    len_pow2 = 2
    Byte = {0, 1}
    ReadLen = {1, 3}
SPECIFICATION FairSpec
INVARIANTS
    EventTracksData
    PeekShowsContents
PROPERTIES
    ImplementsFifo
    DataReachesReader

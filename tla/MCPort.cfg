CONSTANTS
    Thread = {t1, t2}
    ReadPort = {p1, p2}
    group = g
    Queue = {p1, p2, g}
    NULL = null
    Packet = {a, b}
    PORT_BUFF_SIZE = 2
    MAX_PORT_GROUP_COUNT = 2
SPECIFICATION Spec
INVARIANTS
    NoSleeperWithData
    BuffersOwned
PROPERTIES
    UnicastIsQueue
SYMMETRY Symmetry

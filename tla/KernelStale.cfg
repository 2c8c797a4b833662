\* A receive with a timeout that accepts a message sent by sendrec().
CONSTANTS
    Proc = {p1, p2, p3}
    IDLE = IDLE
    NULL = NULL
    NPROCS = 4
    TICK = 1
    Delays = {1}
    Half = 8
    Irqs = {}
    OwnIrqs = {}
    SendTypes = {5}
    SendrecTypes = {5}
    Filters = {5}
    TimedFilters = {5}
    Buffers = {TRUE}
    Prios = {0}
SYMMETRY Perms
SPECIFICATION Spec
INVARIANTS
    AtMostOneQueue
CHECK_DEADLOCK FALSE

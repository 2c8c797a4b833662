\* Scheduling of interrupt handlers under fairness; no symmetry.  The system
\* may stop.
CONSTANTS
    Proc = {p1, p2, p3}
    IDLE = IDLE
    NULL = NULL
    NPROCS = 4
    TICK = 1
    Delays = {}
    Half = 8
    Irqs = {timer}
    OwnIrqs = {}
    SendTypes = {}
    SendrecTypes = {}
    Filters = {1}
    TimedFilters = {}
    Buffers = {FALSE}
    Prios = {0, 2}
SPECIFICATION FairSpec
PROPERTIES
    HandlerRuns
CHECK_DEADLOCK FALSE

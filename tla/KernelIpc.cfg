\* Three processes: with sends, calls and replies, or with timeouts, so that
\* two of them can have one when the third, at the priority of interrupt
\* handlers, calls tick().  The system may stop: all processes blocked or
\* dead, or a panic.
CONSTANTS
    Proc = {p1, p2, p3}
    IDLE = IDLE
    NULL = NULL
    NPROCS = 4
    TICK = 1
    Delays = {1, 2}
    Half = 8
    Irqs = {}
    OwnIrqs = {}
    SendTypes = {2, 5}
    SendrecTypes = {2, 5}
    Filters <- IpcFilters
    TimedFilters = {5}
    Buffers = {TRUE}
    Prios = {0}
SYMMETRY Perms
SPECIFICATION ProgramsSpec
INVARIANTS
    TypeOK
    QueuesMatchStates
    TimedOnlyWaiting
PROPERTIES
    CallGetsReply
    SendEndsByHandover
CHECK_DEADLOCK FALSE

\* Two processes with every kind of call; no receive with a timeout accepts
\* a call or an interrupt (Disciplined).  The system may stop: all
\* processes blocked or dead, or a panic.
CONSTANTS
    Proc = {p1, p2}
    IDLE = IDLE
    NULL = NULL
    NPROCS = 3
    TICK = 1
    Delays = {1, 2}
    Half = 8
    Irqs = {timer}
    OwnIrqs = {timer}
    SendTypes = {5}
    SendrecTypes = {2, 6}
    Filters <- DeviceFilters
    TimedFilters = {5}
    Buffers = {TRUE}
    Prios = {0, 3}
SYMMETRY Perms
SPECIFICATION Spec
INVARIANTS
    NoMissedMeeting
    AssertionsHold
    IdleOnlyWhenNothingToDo
PROPERTIES
    ReceivesWhatItAsked
    PromptDispatch
CHECK_DEADLOCK FALSE

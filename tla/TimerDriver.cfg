\* Three clients for two slots, with delays below and above a tick; and for
\* timer_micros() a driver that no interrupt preempts and a program of low
\* priority, with a period of three microseconds, one millisecond of three.
\* The task may panic for want of a slot, and then the system stops.
CONSTANTS
    Clients = {c1, c2, c3}
    MAX_TIMERS = 2
    TICK = 2
    Delays = {1, 3}
    Prompt = FALSE
    Lag = 4
    Callers = {"driver", "program"}
    prio <- MCPrio
    P_HANDLER = 0
    MS = 3
    EXPIRY = 1
    WORD_SIZE = 17
    Section = 2
    Long = 6
SYMMETRY Perms
SPECIFICATION BothSpec
INVARIANTS
    NoStandoff
    NoDrift
    PanicOnlyWhenFull
    MicrosAccurate
PROPERTIES
    NeverEarly
CHECK_DEADLOCK FALSE

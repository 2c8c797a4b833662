\* As in TimerDriver.cfg, with the answer of every caller claimed to be exact.
CONSTANTS
    Callers = {"driver", "program"}
    prio <- MCPrio
    P_HANDLER = 0
    MS = 3
    EXPIRY = 1
    WORD_SIZE = 17
    Section = 2
    Long = 6
SPECIFICATION MicrosSpec
INVARIANTS
    Exact

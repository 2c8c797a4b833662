\* Two clients, rings of two places, two characters in the UART.  The system
\* may stop, since a second reader makes the task panic.
CONSTANTS
    Clients = {c1, c2}
    NBUF = 2
    Lengths = {3}
    Fifo = 2
SPECIFICATION FairSpec
INVARIANTS
    TransmitterToken
    NothingForgotten
    EveryKeyAnnounced
    StuckOnlyByLongText
PROPERTIES
    PrintEnds
CHECK_DEADLOCK FALSE

\* Processes of every part are few; sizes are chosen so that limits are met.
\* The system may stop: a kernel that has panicked, numbers that were printed.
CONSTANTS
    Proc = {p1, p2, p3}
    NPROCS = 4
    TICK = 2
    Delays = {1, 3}
    Half = 12
    STATIC_END = 4
    STACK_LIMIT = 48
    DESC = 4
    PTABLE_SIZE = 3
    FRAME_WORDS = 2
    Sizes = {5, 12}
    IDLE_STACK = 8
    MAXUSE = 1
    Tasks = {"s", "t"}
    MAXTEXT = 3
    XRAM = 1
    DATA = 2
    BSS = 1
    FREE = 2
    BYTE = 8
    MAXCALLS = 2
    NBUF = 2
    Chars = {"a", "b"}
    WORD = 256
    NMAX = 5
    Writers = {"v", "w"}
    PRINT_NBUF = 2
    NPIECES = 2
    Pieces <- MCPieces
    Players = {"x", "y"}
    M = 17
    A = 3
SPECIFICATION PartsSpec
INVARIANTS
    Disjoint
    MemoryAsMeant
    InterruptsReachDrivers
    ConversionsCorrect
    PrintingCorrect
    RandomCorrect
PROPERTIES
    ImplementsCountdown
    StacksSafe
    FramesKept
    PrintingHarmless
    ImplementsConsole
CHECK_DEADLOCK FALSE

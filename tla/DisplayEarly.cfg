\* The constants of Drivers.cfg.
CONSTANTS
    Clients = {"c1", "c2"}
    MAX_TIMERS = 2
    TICK = 2
    Delays = {1, 3}
    Prompt = TRUE
    Lag = 4
    Masters = {"program", "other"}
    Program = "program"
    Chips = {"ACC1", "ACC2"}
    Transfers <- MCTransfers
    Stations = {"a", "b"}
    Groups = {"g1", "g2"}
    Samplers = {"s1", "s2"}
    AdcPads = {"PAD0", "PAD1", "PAD2", "PAD3", "PAD4", "PAD10", "PAD5"}
    Pictures <- MCPictures
    UrgentPictures <- MCUrgentPictures
    Dots <- MCDots
SPECIFICATION DriversSpec
INVARIANTS
    GlitchIsMomentary
CHECK_DEADLOCK FALSE

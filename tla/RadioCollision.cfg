\* Two clients, of whom one may receive while the other sends.  The radio may
\* hang and the task may panic.
CONSTANTS
    Stations = {"a", "b"}
    Groups = {"g1", "g2"}
SPECIFICATION RadioSpec
INVARIANTS
    AwaitsHold
CHECK_DEADLOCK FALSE

\* Two calls of irq_priority() before the drivers start.
SPECIFICATION InterruptsSpec
INVARIANTS
    PrioritySet
CHECK_DEADLOCK FALSE

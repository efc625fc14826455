SPECIFICATION Spec
CONSTANTS
    Nobody = Nobody
    NumExec = 2
    InitPriority <- MixedPriorities
    execExit = TRUE
    TimerTicks = 2
    AGING_TICK = 3
    MaxBurst = 2
    MaxWaits = 1
INVARIANT
    NoAssertionFails

SPECIFICATION Spec
CONSTANTS
    Nobody = Nobody
    w1 = w1
    manager = manager
    x1 = x1
    Workers <- OneWorker
    Switchers <- Manager
    Waiters <- None
    CallsFail = FALSE
    MaxFaults = 1
INVARIANTS
    FlagMatchesIOProcs

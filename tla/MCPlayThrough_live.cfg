SPECIFICATION Spec
CONSTANTS
    Nobody = Nobody
    w1 = w1
    manager = manager
    x1 = x1
    Workers <- OneWorker
    Switchers <- None
    Waiters <- OneWaiter
    CallsFail = TRUE
    MaxFaults = 1
PROPERTIES
    CallsReturn
    WaitersNotice
    RequestsHonoured

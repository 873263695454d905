SPECIFICATION Spec
CONSTANTS
    c1 = c1
    p1 = p1
    a1 = a1
    NonRTWorker = NonRTWorker
    NoTask = NoTask
    Callers <- OneCaller
    Producers <- OneProducer
    Destroyers <- Nobody
    AsyncTasks <- OneTask
    Preallocated <- Nobody
    MaxSignals = 1
INVARIANTS
    SyncTasksLive
    TasksOwnedOnce
PROPERTIES
    ServesInOrder
    SyncCallsReturn
    AsyncTasksServed

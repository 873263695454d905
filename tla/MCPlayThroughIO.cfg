SPECIFICATION AudioSpec
CHECK_DEADLOCK FALSE
CONSTANTS
    NoThread = NoThread
    MaxLogCalls <- MCMaxLogCalls
    mCapacityFrames <- MCCapacityFrames
    IOFrames <- MCIOFrames
    MaxTime <- MCMaxTime
    MaxRestarts <- MCMaxRestarts
    MaxAllocations <- MCMaxAllocations
INVARIANTS
    FetchFaithful
    MessagesIntact
    NothingLeftUnlogged

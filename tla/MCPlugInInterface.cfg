CONSTANTS
    main = main
    ui = ui
    s1 = s1
    s2 = s2
    player = player
    recorder = recorder
    kAudioObjectUnknown = kAudioObjectUnknown
    NullDeviceIO = NullDeviceIO
    Main = main
    Devices <- Both
    Rates <- TwoRates
    kSampleRateDefault = 44100
    Setters <- TwoSetters
    MaxRequests = 4
    MaxRequestsAsked = 2
    MaxAborts = 1
    IOClients <- TwoIOClients
    PassthroughHosts <- Player
    HalfTicksPerPeriod <- HalfTicks
    kLoopbackRingBufferFrameSize = 4
    IOBufferFrameSize = 2
    MaxHostTime = 5
    MaxSampleTime = 5
    MaxSessions = 2
    MaxInjected = 3
    MaxSessionsAsked = 0
SPECIFICATION DriverSpec
CONSTRAINT Bounds
CHECK_DEADLOCK FALSE
INVARIANTS
    Announced
    PendingRequested
    HonestAnswers
    ListsAnswered
    ReadsFaithful
PROPERTIES
    StampsSteady

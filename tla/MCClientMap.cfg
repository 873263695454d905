SPECIFICATION Spec
CONSTANTS
    k1 = k1
    k2 = k2
    app = app
    zoom = zoom
    appBundle = appBundle
    zoomBundle = zoomBundle
    noBundle = noBundle
    h1 = h1
    io1 = io1
    NonRTWorker = NonRTWorker
    RTWorker = RTWorker
    Nobody = Nobody
    Absent = Absent
    ClientIDs <- TwoClients
    PIDs <- TwoPIDs
    Bundles <- TwoBundles
    HostBundles <- OneHost
    PIDOf <- OneProcess
    BundleOf <- OneBundle
    HALThreads <- OneHALThread
    IOThreads <- OneIOThread
INVARIANTS
    MapsIdentical
    NoDanglingPointers
PROPERTIES
    ActsAsOneMap
    UpdatesComplete

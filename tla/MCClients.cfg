SPECIFICATION Spec
CONSTANTS
    k1 = k1
    k2 = k2
    k3 = k3
    app = app
    zoom = zoom
    appBundle = appBundle
    zoomBundle = zoomBundle
    noBundle = noBundle
    Absent = Absent
    NoID = NoID
    Unset = Unset
    ClientIDs <- ThreeClients
    PIDs <- AppAndZoom
    Bundles <- BothBundles
    HostBundles <- AppBundle
    PIDOf <- TwoOfApp
    BundleOf <- TwoOfAppBundle
    PlayerPIDs <- AppPID
    PlayerBundles <- AppBundle
    MaxTasks = 2
SYMMETRY SymmetryOfApp
INVARIANTS
    CountersExact
    DoingIOTracksHAL
    HostViewCurrent
    HostsRegistered
    MusicPlayerFlagged

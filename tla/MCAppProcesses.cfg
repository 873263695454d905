CONSTANTS
    p1 = p1
    p2 = p2
    p3 = p3
    Procs <- ThreeProcs
    Nobody = Nobody
    QuitPosts = 1
    ShowPosts = 1
    MaxEvents = 3
SPECIFICATION ProcessSpec
CHECK_DEADLOCK FALSE
PROPERTIES
    StealsWhenListening
    UIComesUp
    NeverLeftSilent

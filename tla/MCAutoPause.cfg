CONSTANTS
    spotify = spotify
    vlc = vlc
    Players <- TwoPlayers
    None = None
    MinChanged = 1
    MaxNotes = 2
    MaxRestarts = 1
    MaxTouches = 2
SPECIFICATION Spec
PROPERTIES
    UnpausesOwn
    MusicPauses
    MusicResumes

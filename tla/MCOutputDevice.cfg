SPECIFICATION Spec
CONSTANTS
    UIDs <- TwoDevices
    PreferredUIDs <- FirstOnly
    Pickers <- OnePicker
    MaxEvents = 2
    MaxUserActions = 2
CHECK_DEADLOCK FALSE
INVARIANTS
    InAgreement
    VolumeKept
    OutputConnected
PROPERTIES
    ChangesEnd

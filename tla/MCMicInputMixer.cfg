CONSTANTS
    builtIn = builtIn
    usb = usb
    Configs <- BothMics
    DemandThread = DemandThread
    ManagerThread = ManagerThread
    None = None
    MaxChanges = 2
    MaxBuffers = 2
SPECIFICATION Spec
CHECK_DEADLOCK FALSE
PROPERTIES
    DrainEnds

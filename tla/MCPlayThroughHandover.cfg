CONSTANTS
    c1 = c1
    c2 = c2
    c3 = c3
    Conns <- ThreeConns
    Proxy = Proxy
    NoConn = NoConn
    MaxRequests = 1
    MaxCrashes = 1
SPECIFICATION Spec
CHECK_DEADLOCK FALSE
INVARIANTS
    NoPlayAfterStop
PROPERTIES
    RequestsAnswered
    AppFindsHelper

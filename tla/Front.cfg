SPECIFICATION Spec
CONSTANTS
    Clients <- AllClients
    Origins <- AllOrigins
    MaxHead = 3
    MaxInject = 1
    Hasty = FALSE
INVARIANTS
    TypeOK
    BytesThreaded
    OnlyGrantedRouted
    CaptureFollowsWire
    EndsWithClient
CHECK_DEADLOCK FALSE

SPECIFICATION Spec
CONSTANTS
    Clients <- AllClients
    Origins <- AllOrigins
    MaxHead = 3
    MaxInject = 0
    Hasty = TRUE
INVARIANTS
    BytesThreaded
CHECK_DEADLOCK FALSE

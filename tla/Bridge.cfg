SPECIFICATION FairSpec
CONSTANTS
    c1 = c1
    c2 = c2
    None = None
    Sni = Sni
    Conns = {c1, c2}
    Ports = {1, 2, 3, 4}
INVARIANTS
    TypeOK
    OwnMetaUnlessClash
PROPERTIES
    EveryConnectionHandled
CONSTRAINT FreshPortsInOrder
CHECK_DEADLOCK FALSE

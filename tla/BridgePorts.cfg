SPECIFICATION Spec
CONSTANTS
    c1 = c1
    c2 = c2
    None = None
    Sni = Sni
    Conns = {c1, c2}
    Ports = {1, 2}
INVARIANTS
    OwnMetaWhileOpen
CHECK_DEADLOCK FALSE

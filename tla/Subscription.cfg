SPECIFICATION Spec
CONSTANTS
    n1 = n1
    p1 = p1
    p2 = p2
    None = None
    Node = {n1}
    Profile = {p1, p2}
    Protocols <- AllProtocols
    Keys = {1, 2}
    Psks = {1, 2}
    Subnets = {1, 2}
    Transports <- EveryTransport
    Hosts <- TwoHosts
    Ports = {0, 1}
    Drafts <- FirstDrafts
    MaxEdits = 2
    MaxRestarts = 1
SYMMETRY Symmetry
INVARIANTS
    TypeOK
    
CHECK_DEADLOCK FALSE

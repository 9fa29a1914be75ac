SPECIFICATION Spec
CONSTANTS
    a = a  b = b  c = c
    Hosts = {a, b}
    IpIds = {6, 7, 8}
    Ports <- TwoPorts
    EmptyPrint <- NoPrint
    ZeroPorts <- NoPorts
    PNA_MAXFRAGS = 2
    MaxFirsts = 4
    MaxLater = 2
CHECK_DEADLOCK FALSE
INVARIANTS
    TypeOK
    NoDuplicates
    RightPorts
    Retention

SPECIFICATION Spec
CONSTANTS
    Addresses = {1, 2, 3, 8, 9}
    PortNumbers = {0, 5, 6}
    IpIds = {1, 2, 3, 4}
    Frames <- SomeFrames
    Stray <- SomeHeaders
    domain <- ThreeDomains
    MAX_DOMAIN = 7
    PNA_MAX_CHECKS = 3
    PNA_MAXFRAGS = 2
    EmptyPrint <- NoPrint
    BigEndian = FALSE
    MaxFrames = 3
CHECK_DEADLOCK FALSE
INVARIANTS
    OneFlowPerConversation
    LocalEnd

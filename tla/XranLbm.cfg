SPECIFICATION Spec
CONSTANTS
    Ports = {p1}
    Ranges = {{p1}}
    LBRTimeOut = 1
    LBMPeriodicity = 2
    NumRetransmissions = 1
    IdModulus = 2
    NetMax = 2
INVARIANTS
    TypeOK
    LinkTrusted
    OutOfOrderMeansLoss
PROPERTIES
    DeadLinkNoticed
    Probed

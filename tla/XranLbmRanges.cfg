SPECIFICATION Spec
CONSTANTS
    Ports = {p1, p2}
    Ranges = {{p1}, {p2}}
    LBRTimeOut = 0
    LBMPeriodicity = 1
    NumRetransmissions = 0
    IdModulus = 2
    NetMax = 1
PROPERTIES
    Probed

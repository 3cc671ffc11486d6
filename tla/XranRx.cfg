SPECIFICATION Spec
CONSTANTS
    Mbufs = {m1, m2, m3}
    None = None
    N = 3
    Syms = {0, 2}
    BufLen = 3
    MaxPkt = 2
    SecSlots = 2
    SfnSlots = 6
    WrapSlots = 6
    Lb = 0
    Ub = 1
    Slack = 1
    MaxLate = 5
INVARIANTS
    TypeOK
    MbufHasOneOwner
    RecordsArePure
    PhyReadsItsSlot
    WindowExact
SYMMETRY MbufSymmetry

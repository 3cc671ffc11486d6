CONSTANTS
    m1 = m1
    m2 = m2
    m3 = m3
    Msgs = {m1, m2, m3}
    Size = 4
    Garbage = Garbage
    NoMsg = NoMsg
SPECIFICATION Spec
INVARIANTS TypeOK SlotExclusive NoTornRead
PROPERTY ImplementsFifo

CONSTANTS
    c1 = c1
    c2 = c2
    Ctx = {c1, c2}
    Senders = {c1}
    Wakers = {c2}
    Closers = {c1, c2}
    PutCap = 2
    GetCap = 2
    FifoLen = 1
    MaxSent = 4
    MaxWakeUps = 1
SPECIFICATION FairSpec
INVARIANTS TypeOK ExactlyOnce InOrderUntilOverrun TokensCoverWakeUps NoLostWakeUp
PROPERTY Delivered
CHECK_DEADLOCK FALSE

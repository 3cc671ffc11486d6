SPECIFICATION Spec
CONSTANTS
    Threads = {mac2phy, phy2mac}
    Elems = {e1, e2}
    MaxBatch = 1
    Null = Null
INVARIANTS ListedUntilSent
CHECK_DEADLOCK FALSE

SPECIFICATION FairSpec
CONSTANTS
    MaxLists = 12
INVARIANTS TypeOK NeverOverwritten InOrder
PROPERTIES AllProcessed
CHECK_DEADLOCK FALSE

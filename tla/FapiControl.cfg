SPECIFICATION FairSpec
CONSTANTS
    Phys = {0, 1}
    Lists <- MacLists
    MaxLists = 4
    MaxCareless = 1
INVARIANTS TypeOK HeaderFirst AgreesWithMac ActiveNamed ErrorAfterAllTries
PROPERTIES RequestNamesItsCarrier Answered
CHECK_DEADLOCK FALSE

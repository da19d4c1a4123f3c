SPECIFICATION FairSpec
CONSTANTS
    u1 = u1
    u2 = u2
    Uses <- MCUses
    Contents <- MCContentsOne
    NumPartitions = 1
    MaxLen = 2
INVARIANT
    AllMessagesScanned
CHECK_DEADLOCK FALSE

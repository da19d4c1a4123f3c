SPECIFICATION FairSpec
CONSTANTS
    u1 = u1
    u2 = u2
    Uses <- MCUses
    Contents <- MCContentsOne
    NumPartitions = 2
    MaxLen = 2
INVARIANTS
    TypeOK
    CompleteScan
    NoPhantomUse
PROPERTY
    ScanEnds
\* The scan returns, and nothing follows it.
CHECK_DEADLOCK FALSE

SPECIFICATION FairSpec
CONSTANTS
    k1 = k1
    k2 = k2
    k3 = k3
    Keys <- MCKeys
    Imports <- MCImports
    Manifests <- MCManifests
    MaxCrashes = 2
INVARIANTS
    TypeOK
    DoneMeansDeleted
PROPERTIES
    OnlyConsented
    PermanentAfterAllSoft
    HardRunsFinish

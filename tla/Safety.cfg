SPECIFICATION Spec
CONSTANTS
    a = a
    b = b
    q = q
    Subjects <- MCSubjects
    Versions <- MCVersions
    Ids <- MCIds
    KindOf <- MCKindOf
    Qualified <- MCQualified
    Scenarios <- MCScenarios
    Registrations <- MCRegistrations
    CallsMayFail = FALSE
INVARIANTS
    TypeOK
    ImportersAreCandidates
    EncryptionBlocks
    MigrationPathIntact
    RuleTargetsKept
    UnverifiedKept
    StatusHasCause
PROPERTY
    BlockedStaysBlocked
\* The analysis ends, and nothing follows it.
CHECK_DEADLOCK FALSE

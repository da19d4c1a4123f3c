SPECIFICATION Spec
CONSTANTS
    a = a
    b = b
    q = q
    Subjects <- MCSubjects
    Versions <- MCVersions
    Ids <- MCIds
    KindOf <- MCKindOf
    Qualified <- MCQualified
    Scenarios <- EncryptedScenarios
    Registrations <- MCRegistrations
    CallsMayFail = TRUE
INVARIANT
    EncryptionBlocks
CHECK_DEADLOCK FALSE

SPECIFICATION Spec
CONSTANTS
    a = a
    b = b
    q = q
    Subjects <- MCSubjects
    Versions <- MCVersions
    Ids <- MCIds
    KindOf <- MCKindOf
    Qualified <- MCQualified
    Scenarios <- UnverifiedScenarios
    Registrations <- MCRegistrations
    CallsMayFail = FALSE
INVARIANT
    UnverifiedImporterBlocks
CHECK_DEADLOCK FALSE

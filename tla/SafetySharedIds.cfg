SPECIFICATION Spec
CONSTANTS
    a = a
    b = b
    q = q
    Subjects <- MCSubjects
    Versions <- MCVersions
    Ids <- MCIds
    KindOf <- MCKindOf
    Qualified <- MCQualified
    Scenarios <- SharedScenarios
    Registrations <- MCRegistrations
    CallsMayFail = FALSE
INVARIANT
    ImportersAreCandidates
CHECK_DEADLOCK FALSE

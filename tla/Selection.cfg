SPECIFICATION Spec
CONSTANTS
    Dotted <- MCDotted
    Begins <- MCBegins
    Underscored <- MCUnderscored
    DefaultNames <- MCDefaultNames
    Runs <- MCRuns
    Creations <- MCCreations
INVARIANTS
    TypeOK
    VerifiedMeansScanned
    SameTopicFound
    UnverifiedForCause
    ContextKept
\* A scan ends, and nothing follows it.
CHECK_DEADLOCK FALSE

SPECIFICATION Spec
CONSTANTS
    Dotted <- MCDotted
    Begins <- MCBegins
    Underscored <- MCUnderscored
    DefaultNames <- MCDefaultNames
    Runs <- PrefixRuns
    Creations <- MCCreations
INVARIANT
    FailedTopicsBlock
\* A scan ends, and nothing follows it.
CHECK_DEADLOCK FALSE

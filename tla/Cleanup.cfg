SPECIFICATION Spec
CONSTANTS
    Dotted <- MCDotted
    Begins <- MCBegins
    Topics <- MCTopics
    Strategy = "topic-name"
    Platform = "cloud"
    Subjects <- MCSubjects
    Selected <- MCSubjects
    Versions = {1}
    Registered <- MCRegistered
    Messages <- MCMessages
    Qualified = {}
    MaxLog = 2
    MaxScans = 2
    MaxCrashes = 1
PROPERTY
    ImplementsPromise

SPECIFICATION Spec
CONSTANTS
    Dotted <- MCDotted
    Begins <- MCBegins
    Topics <- MCTopics
    Strategy = "topic-name"
    Platform = "cloud"
    Subjects <- MCSubjects
    Selected <- MCSubjects
    Versions = {1}
    Registered <- StringRegistered
    Messages <- StringMessages
    Qualified = {}
    MaxLog = 1
    MaxScans = 1
    MaxCrashes = 0
PROPERTY
    ImplementsPromise

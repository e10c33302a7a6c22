CONSTANTS
    Runs = {"r1", "r2"}
    NoKey = "nokey"
    Paths = {"k1", "k2"}
    Targets = {"h1", "h2"}
    Users = {"u1", "u2"}
    NoUser = "nouser"
    Account <- AccountMap
    Places <- SomePlaces
    Windows = {"h2"}
    Admins = {"u1", "u2"}
    Includes = {"h1"}
    Scenarios <- MixedScenarios
    MaxTries = 2
    MaxRecordEdits = 1
SPECIFICATION EnrollmentSpec
INVARIANTS
    KeyOnlyIsReachable
    SentIsAccepted
PROPERTIES
    SavedIsProved
CHECK_DEADLOCK FALSE

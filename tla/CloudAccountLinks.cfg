CONSTANTS
    i1 = i1
    i2 = i2
    l1 = l1
    Browser = browser
    NoLink = none
    Installs <- TwoInstalls
    Links <- OneLink
    PhraseOf <- Phrases
    DeviceLimit = 3
    LinkLimit = 1
    Commands <- LinkCommands
    MaxSessions = 4
    MaxVaults = 2
    MaxPasswords = 2
    MaxIds = 3
    MaxRevision = 2
    MaxFaults = 1
SYMMETRY Symmetry
SPECIFICATION Spec
INVARIANTS SessionKnowsVault
PROPERTIES EndedStaysEnded RevocationWins ApprovedOnce
CHECK_DEADLOCK FALSE

CONSTANTS
    i1 = i1
    i2 = i2
    l1 = l1
    Browser = browser
    NoLink = none
    Installs <- TwoInstalls
    Links <- OneLink
    PhraseOf <- Phrases
    DeviceLimit = 2
    LinkLimit = 1
    Commands <- VaultCommands
    MaxSessions = 3
    MaxVaults = 2
    MaxPasswords = 2
    MaxIds = 2
    MaxRevision = 2
    MaxFaults = 1
SYMMETRY Symmetry
SPECIFICATION Spec
INVARIANTS OneVault RecoverySaved
CHECK_DEADLOCK FALSE

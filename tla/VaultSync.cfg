SPECIFICATION FairSpec
CONSTANTS
    Ids = {1, 2}
    Metas = {m1}
    Aliases = {a1, a2}
    Credentials = {c1}
    Routes = {1, 2}
    HomeRoute <- OwnRoute
    FirstVaults <- DeviceConflict
    Kind <- MixedKind
    NoEntry = NoEntry
    NoConflict = NoConflict
    NoSnapshot = NoSnapshot
    Devices = {d1, d2}
    MaxEdits = 2
    MaxAborts = 1
INVARIANTS
    CommittedOnce
    NoFalseAlarm
    DraftKept
PROPERTIES
    ImplementsSharedVault
    MergeKeepsAdditions
    Converges

SPECIFICATION Spec
CONSTANTS
    Ids = {1}
    Metas = {m1}
    Aliases = {a1}
    Credentials = {c1}
    Routes = {1}
    HomeRoute <- OwnRoute
    FirstVaults <- EmptyVault
    Kind <- DeviceKind
    NoEntry = NoEntry
    NoConflict = NoConflict
    NoSnapshot = NoSnapshot
    Devices = {d1, d2}
    MaxEdits = 4
    MaxAborts = 1
SYMMETRY Symmetric
INVARIANTS
    TombstoneRespected

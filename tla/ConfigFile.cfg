SPECIFICATION Spec
CONSTANTS
    Procs = {p1, p2}
    a1 = a1
    a2 = a2
    a3 = a3
    h1 = h1
    h2 = h2
    e1 = e1
    e2 = e2
    Aliases = {a1, a2, a3}
    Hosts = {h1, h2}
    Entries = {e1, e2}
    None = None
    NoServer = NoServer
    Damaged = Damaged
    EntryServer <- TwoEntryServers
    EntryNames <- TwoEntryNames
    InitialFile <- TwoServers
    Kinds = {"add_quick", "add_wizard", "add_server", "edit", "edit_server", "menu", "project", "rm", "remove_server", "cleanup", "use", "probe", "pair", "publish"}
    MaxNow = 2
    MaxOps = 3
    MaxEdits = 1
PROPERTIES NoLostEdit RemovalIsSafe ActivityOfIdentity
CHECK_DEADLOCK FALSE

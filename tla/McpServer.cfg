SPECIFICATION Spec
CONSTANTS
    Links <- MCLinks
    Callers <- MCTransfers
    Transfers <- MCTransfers
    Versions <- MCVersions
    Scenes <- MCScenes
    None = None
    Nothing = Nothing
    Old = Old
    t1 = t1
    t2 = t2
    MaxVault = 2
    MaxChanges = 2
    MaxEdits = 1
PROPERTIES LateApprovalDiscarded TokenNeverDropped AgeEndsSession DestinationWhole

SPECIFICATION FairSpec
CONSTANTS
    Jobs = {j1}
    Agents = {p, q}
    NoAgent = NoAgent
    Outcomes = {"done", "installed_version_unknown"}
    ListedCodes = {"done", "interrupted"}
    QueueLimit = 1
    TotalLimit = 1
    MaxCreates = 1
    MaxAborts = 1
    MaxAccess = 1
INVARIANTS
    ExecutedOnce
    CancelledNeverRuns
    ReceiptTruthful
PROPERTIES
    VerdictFinal
    ReceiptArrives

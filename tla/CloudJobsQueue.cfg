SPECIFICATION Spec
CONSTANTS
    Jobs = {j1, j2, j3}
    Agents = {p}
    NoAgent = NoAgent
    Outcomes = {"done"}
    ListedCodes = {"done", "interrupted"}
    QueueLimit = 1
    TotalLimit = 2
    MaxCreates = 4
    MaxAborts = 0
    MaxAccess = 0
SYMMETRY Symmetric
INVARIANTS
    QueueBounded

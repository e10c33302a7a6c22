SPECIFICATION Spec
CONSTANTS
    s1 = s1
    Sessions = {s1}
    Host = Host
    InputCap = 1
    Inputs <- Typing
    Outputs <- Printing
    MaxEpoch = 2
    MaxFaults = 1
INVARIANTS NoOrphanShell InOrder
PROPERTIES LeftIsClosed RevokedIsSilent
CHECK_DEADLOCK FALSE

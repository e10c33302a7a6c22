SPECIFICATION FairSpec
CONSTANTS
    d1 = d1
    d2 = d2
    p1 = p1
    p2 = p2
    web = web
    bastion = bastion
    farm = farm
    ed = ed
    rsa = rsa
    other = other
    Dials = {d1, d2}
    Procs = {p1, p2}
    Placements <- OneOrTwo
    Hosts = {web, bastion, farm}
    NoHost = NoHost
    Keys = {ed, rsa, other}
    NoKey = NoKey
    Algorithm <- KeyAlgorithm
    Default <- LibraryOrder
    Backends <- Machines
    Pinned <- FirstLines
    Asked <- Pairs
INVARIANTS Released StrictRouteKept PinsStand KnownServerAccepted
PROPERTIES DialReturns
CHECK_DEADLOCK FALSE

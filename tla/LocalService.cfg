SPECIFICATION Spec
CONSTANTS
    Procs = {p1, p2}
    Targets = {t1}
    t1 = t1
    Paths = {f1}
    f1 = f1
    NoPath = NoPath
    KeyPath <- MCKeyPath
    Keys = {k1}
    Passwords = {}
    NoCredential = NoCredential
    Secrets = {s1}
    NoStore = NoStore
    NoProc = NoProc
    Handlers = {h1}
    Clients = {c1}
    Fallback = Fallback
SYMMETRY Symmetric
INVARIANTS SignedWhileOffered LoginWhileOffered
PROPERTIES Linearizable

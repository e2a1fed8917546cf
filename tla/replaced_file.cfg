SPECIFICATION ReplaceSpec
CONSTANTS
    f1 = f1  f2 = f2  a1 = a1  t1 = t1
    Fds = {f1, f2}
    Waiters = {a1}
    Tasks = {t1}
    None = None
    Edges <- ReadEdges
    MaxEvents = 1
    Uses <- ReadUses
    Split = {}
    Main = t1
    Faults = {}
INVARIANTS
    RegistrationAgrees

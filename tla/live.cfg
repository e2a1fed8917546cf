SPECIFICATION FairSpec
CONSTANTS
    f1 = f1  f2 = f2  a1 = a1  a2 = a2  t1 = t1  t2 = t2
    Fds = {f1, f2}
    Waiters = {a1, a2}
    Tasks = {t1, t2}
    None = None
    Edges <- ReadEdges
    MaxEvents = 1
    Uses <- ReaderUses
    Split = {}
    Main = t1
    Faults = {}
PROPERTIES
    ReadyOperationsComplete
    ImplementsFairReadyIo

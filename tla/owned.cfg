SPECIFICATION Spec
CONSTANTS
    f1 = f1  f2 = f2  a1 = a1  a2 = a2  t1 = t1  t2 = t2
    Fds = {f1, f2}
    Waiters = {a1, a2}
    Tasks = {t1, t2}
    None = None
    Edges <- SocketEdges
    MaxEvents = 1
    Uses <- OwnedUses
    Split = {a1}
    Main = t1
    Faults = {"signal"}
INVARIANTS
    TypeOK
    UnwindsWithoutAbort
    PointersPinned
    RegistrationAgrees
    NoLostWakeup
    SleepsOnlyWhenIdle
PROPERTIES
    ImplementsReadyIo

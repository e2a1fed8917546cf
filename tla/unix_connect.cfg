SPECIFICATION ConnectFairSpec
CONSTANTS
    f1 = f1  f2 = f2  a1 = a1  a2 = a2  a3 = a3  a4 = a4  t1 = t1  t2 = t2
    Fds = {f1}
    Waiters = {a3, a4}
    Tasks = {t1, t2}
    None = None
    Edges <- StreamEdges
    MaxEvents = 1
    Uses <- JustUnix
    Split = {}
    Main = t2
    Faults = {}
    TcpConnects = {}
    UnixConnects <- JustUnix
    StreamOf <- UnixStream
PROPERTIES
    AcceptedConnectsReturn

SPECIFICATION FairSpec
CONSTANTS
    q1 = q1  q2 = q2  p1 = p1  p2 = p2
    Queries = {q1, q2}
    Ports = {p1, p2}
    Capacity = 2
    MaxStrangers = 2
    Faults = {"loss", "duplicate", "error", "cancel"}
    None = None
INVARIANTS
    TypeOK
    OwnOrLateAnswer
    AnswerIsOnItsWay
PROPERTIES
    WaitsOnlyForLostPackets
CHECK_DEADLOCK FALSE

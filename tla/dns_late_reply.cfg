SPECIFICATION FairSpec
CONSTANTS
    q1 = q1  q2 = q2  p1 = p1  p2 = p2
    Queries = {q1, q2}
    Ports = {p1}
    Capacity = 2
    MaxStrangers = 0
    Faults = {"cancel"}
    None = None
INVARIANTS
    OwnAnswer
CHECK_DEADLOCK FALSE

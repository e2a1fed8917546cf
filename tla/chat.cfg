SPECIFICATION FairSpec
CONSTANTS
    c1 = c1  c2 = c2  c3 = c3  a = a  b = b
    Clients = {c1, c2, c3}
    Names = {a, b}
    Lines <- ToTwo
    MaxLines = 1
    Capacity = 1
    Faults = {"write", "accept"}
    None = None
INVARIANTS
    TypeOK
    NamesAreHeldOnce
    QueuesAreBounded
    ParkedAreServed
PROPERTIES
    LinesAreSent
    ConnectionsEnd
CHECK_DEADLOCK FALSE

SPECIFICATION MCSpec
CONSTANTS
    u1 = u1
    a1 = a1
    a2 = a2
    p1 = p1
    p2 = p2
    Users = {u1}
    Calls = {a1, a2}
    UserOf <- MCUserOf
    Publishers = {p1, p2}
    Nobody = Nobody
    Styles = {"chat", "messaging"}
    Capacity = 1
    MaxUpdates = 2
CHECK_DEADLOCK FALSE
INVARIANTS
    NeverOrphaned
    
PROPERTIES
    ImplementsCountedStreams
    CallsAreServed
    ClosedHandlersEnd
    PublishersFinish

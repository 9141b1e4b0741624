SPECIFICATION FairSpec
CONSTANTS
    n1 = n1
    n2 = n2
    k1 = k1
    NoThread = NoThread
    Notifiers = {n1, n2}
    Closers = {k1}
    Capacity = 2
    MaxEvents = 5
INVARIANTS
    NeverSendsOnClosed
PROPERTIES
    ImplementsBoundedStream
    ImplementsCountedStreams
    CallsReturn
    LossEndsTheHandler

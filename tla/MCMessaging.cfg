SPECIFICATION MCSpec
CONSTANTS
    k1 = k1
    c1 = c1
    c2 = c2
    u1 = u1
    u2 = u2
    Keys = {k1}
    Calls = {c1, c2}
    LastId = 3
    Backends = {"memory", "postgres"}
    Typists = {u1, u2}
    TypingCalls = {c1, c2}
    MaxNotices = 3
    Members = {u1, u2}
    Nobody = Nobody
    Puts = {c1, c2}
    MaxMessages = 3
    PageLimits = {1, 2}
    MaxUnread = 1
INVARIANTS
    
    WalksAreComplete
    UnreadIsWhatWasNotPaged
PROPERTIES
    OnlyStaleUpdatesMoveBack
    

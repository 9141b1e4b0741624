SPECIFICATION MCSpec
CONSTANTS
    u1 = u1
    u2 = u2
    k1 = k1
    k2 = k2
    r1 = r1
    r2 = r2
    r3 = r3
    c1 = c1
    c2 = c2
    c3 = c3
    m1 = m1
    b1 = b1
    b2 = b2
    o1 = o1
    o2 = o2
    e1 = e1
    v1 = v1
    v2 = v2
    q1 = q1
    q2 = q2
    x1 = x1
    x2 = x2
    d1 = d1
    t1 = t1
    t2 = t2
    p1 = p1
    Parts = {"profiles"}
    NoUser = NoUser
    NoBuyer = NoBuyer
    Nobody = Nobody
    AccountKeys = {k1, k2}
    Registers = {r1, r2, r3}
    Logins = {c1}
    Connections = 2
    Buyers = {b1, b2}
    Receipts = {e1}
    PurchaseCalls = {o1, o2}
    LastHalfWeek = 3
    MaxStops = 1
    Payers = {u1, u2}
    Tipped = {m1}
    Author <- MCAuthor
    Amounts = {1, 2}
    Notes = {c1, c2, c3}
    People = {v1, v2}
    XAccounts = {x1, x2}
    NoX = NoX
    ProfileCalls = {q1, q2}
    MaxProfileWrites = 3
    Owners = {u1, u2}
    Speakers = {u1}
    Installs = {d1}
    PushTypes = {"FCM_ANDROID", "FCM_APNS"}
    TokenValues = {t1, t2}
    NoToken = NoToken
    Deletes = {c1}
    Pushes = {p1}
    MaxAdds = 2
    MaxTokens = 1
SYMMETRY ProfileSymmetry
INVARIANTS
    MovedAccountIsRemoved

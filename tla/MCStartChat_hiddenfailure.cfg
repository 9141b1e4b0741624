SPECIFICATION Spec
CONSTANTS
    alice = alice
    bob = bob
    i1 = i1
    i2 = i2
    c1 = c1
    c2 = c2
    Users = {alice, bob}
    Guests <- MCGuests
    Intents = {i1}
    NoIntent = NoIntent
    PaidBy <- MCPaidBy
    Calls = {c1}
    Backends = {"memory"}
    MaxChats = 1
INVARIANTS
    OkMeansEveryoneIsIn

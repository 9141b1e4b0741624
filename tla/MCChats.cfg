SPECIFICATION MCSpec
CONSTANTS
    alice = alice
    bob = bob
    owner = owner
    i1 = i1
    i2 = i2
    c1 = c1
    c2 = c2
    m1 = m1
    m2 = m2
    Users = {alice, bob}
    Guests <- MCGuests
    Intents = {i1}
    NoIntent = NoIntent
    PaidBy <- MCPaidBy
    Calls = {c1, c2}
    Backends = {"memory", "postgres"}
    MaxChats = 2
    Setters = {c1, c2}
    MaxChanges = 2
    MaxPosts = 2
    Customers = {owner, bob, alice}
    Room = Room
    Direct = Direct
    RoomOwner = owner
    Posts = {m1, m2}
    Sender <- MCSender
    Tippable = {m1}
    NoPost = NoPost
    Quantities = {1, 2}
    StartGroupFee = 2
    Submissions = {i1, i2}
    Elsewhere = Elsewhere
    Fees = Fees
SYMMETRY MCSymmetry
INVARIANTS
    OneChatPerPair
    RoomsAreNumberedInOrder
    FulfilledMeansCreated
    
    AllowedMeansPaid

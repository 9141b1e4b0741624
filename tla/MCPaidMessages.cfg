SPECIFICATION MCSpec
CONSTANTS
    owner = owner
    alice = alice
    bob = bob
    c1 = c1
    c2 = c2
    s1 = s1
    s2 = s2
    fee = fee
    tip = tip
    NoIntent = NoIntent
    Users = {owner, alice, bob}
    Owner = owner
    Registered = {owner, alice}
    Calls = {c1, c2}
    Backends = {"memory", "postgres"}
    Sends = {s1, s2}
    Contents = {"text", "tip", "deleted", "review"}
    Intents = {fee, tip}
    Payment <- MCPayment
    MaxMessages = 2
SYMMETRY MCSymmetry
INVARIANTS
    FormerMembersHoldNothing
    OwnerInControl
    FulfilledMeansPosted
    PostedMeansSettled
    SpentPaymentBuysNothing
    OneAcceptedInMemory
    MutedStaysSilent
    ListenersAreFlagged
PROPERTIES
    OnlyStaleRejoinsUnmute

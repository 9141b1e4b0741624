SPECIFICATION RunningSpec
CONSTANTS
    owner = owner
    alice = alice
    bob = bob
    c1 = c1
    c2 = c2
    s1 = s1
    s2 = s2
    fee = fee
    tip = tip
    NoIntent = NoIntent
    Users = {owner, alice, bob}
    Owner = owner
    Registered = {owner, alice}
    Calls = {}
    Backends = {"postgres"}
    Sends = {s1, s2}
    Contents = {"text"}
    Intents = {fee}
    Payment <- MCPayment
    MaxMessages = 2
INVARIANTS
    OneAcceptedPerIntent

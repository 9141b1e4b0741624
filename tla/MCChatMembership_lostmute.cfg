SPECIFICATION MembershipSpec
CONSTANTS
    owner = owner
    alice = alice
    bob = bob
    c1 = c1
    c2 = c2
    Users = {owner, alice}
    Owner = owner
    Registered = {owner, alice}
    Calls = {c1, c2}
    Backends = {"postgres"}
PROPERTIES
    MuteIsPermanent

---------------------------- MODULE MCStartChat ----------------------------
(* A small instance of StartChat: alice paid for a chat and invites bob,    *)
(* and either of them starts the two-way chat.                             *)
EXTENDS StartChat

CONSTANTS alice, bob, i1, i2, c1, c2

MCGuests == {<<bob>>}
MCPaidBy == [i \in Intents |-> alice]
=============================================================================

-------------------------- MODULE MCChatMembership --------------------------
(* Small instances of ChatMembership: an owner and one or two others, of   *)
(* whom one is not registered, and one or two RPC slots.                   *)
EXTENDS ChatMembership

CONSTANTS owner, alice, bob, c1, c2
=============================================================================

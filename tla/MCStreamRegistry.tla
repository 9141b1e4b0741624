-------------------------- MODULE MCStreamRegistry --------------------------
(* A small instance of StreamRegistry: a user who opens a second stream.   *)
(* A flush fills the chat server's stream, so one update overruns it; the  *)
(* messaging server flushes nothing, so it takes two.                      *)
EXTENDS StreamRegistry

CONSTANTS u1, a1, a2, p1, p2

MCUserOf == [c \in Calls |-> u1]

(* Nothing tells the calls apart, or the publishers: a1 comes first, and   *)
(* p1 stores the first update.                                             *)
InOrder ==
    /\ call[a1] = "new" => call[a2] = "new"
    /\ version <= 1 => thread[p2] = Resting

MCNext == Next /\ InOrder' /\ (style = "chat" => version' <= 1)

MCSpec == Init /\ [][MCNext]_vars /\ Fairness
=============================================================================

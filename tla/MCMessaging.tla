----------------------------- MODULE MCMessaging -----------------------------
(***************************************************************************)
(* Three parts of the messaging server that share no state: the pointers,  *)
(* the typing notifications, and the messages as they are paged.  Any      *)
(* behaviour of the server interleaves one of each, so each is checked     *)
(* with the others at rest.                                                *)
(***************************************************************************)
EXTENDS ReadPointers, Typing, Paging

CONSTANTS k1, c1, c2, u1, u2
VARIABLE part

mcVars == <<vars, typingVars, pagingVars, part>>

MCInit ==
    /\ Init
    /\ TypingInit
    /\ PagingInit
    /\ part \in {"pointers", "typing", "paging"}
    \* one initial state is enough of a part that stays at rest
    /\ part # "pointers" => backend = "memory"
    /\ part # "typing" => \A c \in TypingCalls : notice[c].user = u1
    /\ part # "paging" => ~onPostgres

(* Nothing tells the members apart: the reader of the walks is u1.         *)
ReaderIsU1 == Walking => walk.reader = u1

MCNext ==
    \/ part = "pointers" /\ Next /\ UNCHANGED <<typingVars, pagingVars, part>>
    \/ part = "typing" /\ TypingNext /\ UNCHANGED <<vars, pagingVars, part>>
    \/ part = "paging" /\ PagingNext /\ ReaderIsU1' /\ UNCHANGED <<vars, typingVars, part>>

(* Type invariant of the three parts.                                      *)
TypesOK == TypeOK /\ TypingTypeOK /\ PagingTypeOK

MCFairness == part = "typing" => TypingFairness

MCSpec == MCInit /\ [][MCNext]_mcVars /\ MCFairness
=============================================================================

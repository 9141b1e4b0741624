------------------------------ MODULE MCUsers ------------------------------
(***************************************************************************)
(* What the server keeps about a user: the account, the purchase of it and *)
(* the airdrops, the activity feed, the profile and the push tokens.  They *)
(* share no state in these models, so each part is checked with the others *)
(* at rest.                                                                *)
(***************************************************************************)
EXTENDS Accounts, Purchases, TipFeed, Profiles, PushTokens, TLC

CONSTANTS u1, u2, k1, k2, r1, r2, r3, c1, c2, c3, m1, b1, b2, o1, o2, e1,
          v1, v2, q1, q2, x1, x2, d1, t1, t2, p1

CONSTANT Parts    \* the parts that are checked

MCAuthor == [m \in Tipped |-> u1]

(* Nothing tells buyers and their calls apart, or people, their calls and  *)
(* their X accounts.                                                       *)
BuyerSymmetry == Permutations(Buyers) \union Permutations(PurchaseCalls)
ProfileSymmetry ==
    Permutations(People) \union Permutations(ProfileCalls) \union Permutations(XAccounts)

VARIABLE part

mcVars == <<accountVars, purchaseVars, tipVars, profileVars, pushVars, part>>

MCInit ==
    /\ AccountInit
    /\ PurchaseInit
    /\ TipInit
    /\ ProfileInit
    /\ PushInit
    /\ part \in Parts
    \* one initial state is enough of a part that stays at rest
    /\ part # "accounts" => accountStore = "memory" /\ \A r \in Registers : register[r].key = k1
    /\ part # "purchases" => \A c \in PurchaseCalls : purchase[c].buyer = b1
    /\ part # "push" => /\ ~rowsOnPostgres
                        /\ \A c \in Deletes : delete[c].user = u1
                        /\ \A p \in Pushes : push[p].sender = u1

(* The bounds are used up and all is done: the model has no more to do.    *)
Over ==
    \/ part = "accounts" /\ \A r \in Registers : register[r].pc \in {"answered", "failed"}
    \/ part = "tips" /\ \A g \in Notes : note[g].pc \in {"done", "lost", "halfLost"}
    \/ part = "profiles" /\ AtRest /\ profileWrites = MaxProfileWrites

(* Nothing tells goroutines apart: they start in order.                    *)
NotesInOrder == \A i \in 1..2 : note[<<c1, c2, c3>>[i]].pc = "idle" => note[<<c1, c2, c3>>[i + 1]].pc = "idle"

MCNext ==
    \/ /\ part = "accounts" /\ AccountNext
       /\ UNCHANGED <<purchaseVars, tipVars, profileVars, pushVars, part>>
    \/ /\ part = "purchases" /\ PurchaseNext
       /\ UNCHANGED <<accountVars, tipVars, profileVars, pushVars, part>>
    \/ /\ part = "tips" /\ TipNext /\ NotesInOrder'
       /\ UNCHANGED <<accountVars, purchaseVars, profileVars, pushVars, part>>
    \/ /\ part = "profiles" /\ ProfileNext
       /\ UNCHANGED <<accountVars, purchaseVars, tipVars, pushVars, part>>
    \/ /\ part = "push" /\ PushNext
       /\ UNCHANGED <<accountVars, purchaseVars, tipVars, profileVars, part>>
    \/ Over /\ UNCHANGED mcVars

(* Type invariant of the five parts, with the bound on the number of       *)
(* connections, and no user with two X accounts or two welcome rows.       *)
TypesOK == AccountTypeOK /\ PurchaseTypeOK /\ TipTypeOK /\ ProfileTypeOK /\ PushTypeOK

MCSpec == MCInit /\ [][MCNext]_mcVars
=============================================================================

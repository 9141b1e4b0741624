---------------------------- MODULE KeyBindings ----------------------------
(***************************************************************************)
(* What the account server promises of public keys: Register takes effect  *)
(* at one moment between the request and the answer.  It finds the owner   *)
(* of the key, or makes its caller's account and binds the key to it, both *)
(* at once; an owner is never replaced, and a key that Login looks up has  *)
(* the owner Register has answered.  No statements, transactions, caches   *)
(* or restarts: Accounts implements this.                                  *)
(***************************************************************************)
CONSTANTS Keys,      \* public keys
          Requests,  \* Register requests, and the users they may become
          Nobody     \* no user

VARIABLES owner,     \* owner[k]: who a Login with k is told to be
          accounts,  \* the users there are
          asked,     \* asked[r]: the key of a request
          told       \* told[r]: the user that a request was answered

bindingVars == <<owner, accounts, asked, told>>

Init ==
    /\ owner = [k \in Keys |-> Nobody]
    /\ accounts = {}
    /\ asked \in [Requests -> Keys]
    /\ told = [r \in Requests |-> Nobody]

Create(r) ==
    /\ told[r] = Nobody /\ owner[asked[r]] = Nobody /\ r \notin accounts
    /\ owner' = [owner EXCEPT ![asked[r]] = r]
    /\ accounts' = accounts \union {r}
    /\ told' = [told EXCEPT ![r] = r]
    /\ UNCHANGED asked

Find(r) ==
    /\ told[r] = Nobody /\ owner[asked[r]] # Nobody
    /\ told' = [told EXCEPT ![r] = owner[asked[r]]]
    /\ UNCHANGED <<owner, accounts, asked>>

Next == \E r \in Requests : Create(r) \/ Find(r)

Spec == Init /\ [][Next]_bindingVars
=============================================================================

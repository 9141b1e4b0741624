------------------------------ MODULE Profiles ------------------------------
(***************************************************************************)
(* User profiles: display names, linked X accounts, and the cache in front *)
(* of the store.  A miss reads the name and the X account with two queries *)
(* and then fills the cache; a writer changes the store and then removes   *)
(* the entry of the user who called.  Every change is followed by a        *)
(* goroutine that reads the profile, through the cache, and tells it to    *)
(* the user's chats.                                                       *)
(*                                                                         *)
(* The steps are those of postgres; the memory store takes the same steps  *)
(* under one mutex.  The users are registered.                             *)
(***************************************************************************)
EXTENDS Naturals, Sequences, Functions

CONSTANTS People, Nobody,     \* users; no user
          XAccounts, NoX,     \* X accounts; no account
          ProfileCalls,       \* slots for profile RPCs in progress
          MaxProfileWrites    \* bound on the number of writing RPCs

ASSUME ProfileAssumption ==
    /\ Nobody \notin People
    /\ NoX \notin XAccounts
    /\ MaxProfileWrites \in Nat

VARIABLES
  name,       \* name[u]: the number of u's display name, 0 for none
  xOwner,     \* xOwner[x]: the user X account x is linked to
  cached,     \* cached[u]: the cache's entry of u, or Miss
  doubtful,   \* doubtful[u]: the entry of u was filled across a write of u,
              \* or u has lost an X account since
  request,    \* request[c]: the RPC in slot c
  told,       \* identity events on their way to the clients
  identity,   \* identity[u]: what the clients were last told of u
  misled,     \* misled[u]: that was old, or read from a doubtful entry,
              \* or nobody is going to tell that u has lost an X account
  profileWrites   \* number of writing RPCs so far

profileVars == <<name, xOwner, cached, doubtful, request, told, identity, misled, profileWrites>>

Names == 0..MaxProfileWrites

Profile  == [name: Names, x: XAccounts \union {NoX}]
NotFound == [name |-> 0, x |-> NoX]
Miss     == [name |-> 0, x |-> "miss"]

XOf(u) == IF \E x \in XAccounts : xOwner[x] = u
            THEN CHOOSE x \in XAccounts : xOwner[x] = u
            ELSE NoX

(* A user without a name has no profile, even with an X account.           *)
ProfileOf(u) == IF name[u] = 0 THEN NotFound ELSE [name |-> name[u], x |-> XOf(u)]

Identity == [user: People, profile: Profile, old: BOOLEAN]

(* audience: the users whose chats are still to be told, the first of them *)
(* being read; torn: the user who is read was written since.               *)
Request == [pc: {"idle", "check", "upsert", "remove", "tell", "readX", "fill"},
            user: People \union {Nobody}, x: XAccounts \union {NoX}, audience: Seq(People),
            reads: People \union {Nobody}, seen: Profile, torn: BOOLEAN]

NoRequest == [pc |-> "idle", user |-> Nobody, x |-> NoX, audience |-> <<>>,
              reads |-> Nobody, seen |-> NotFound, torn |-> FALSE]

ProfileInit ==
    /\ name = [u \in People |-> 0]
    /\ xOwner = [x \in XAccounts |-> Nobody]
    /\ cached = [u \in People |-> Miss]
    /\ doubtful = [u \in People |-> FALSE]
    /\ request = [c \in ProfileCalls |-> NoRequest]
    /\ told = {}
    /\ identity = [u \in People |-> NotFound]
    /\ misled = [u \in People |-> FALSE]
    /\ profileWrites = 0

(* The profiles of the users in U are written by c, which moves on to r:   *)
(* what others have read of them and not yet used is old.                  *)
Written(c, U, r) ==
    /\ request' = [k \in ProfileCalls |->
                      IF k = c THEN r
                      ELSE [request[k] EXCEPT !.torn = @ \/ request[k].reads \in U]]
    /\ told' = {[e EXCEPT !.old = @ \/ e.user \in U] : e \in told}

-----------------------------------------------------------------------------
(* Reading: a hit returns the entry and changes nothing.                   *)

(* r reads the profile of u: the entry is missing, and the name comes      *)
(* first.  A user without a name is an entry too.                          *)
Reading(r, u) == [r EXCEPT !.pc = IF name[u] = 0 THEN "fill" ELSE "readX",
                           !.reads = u, !.seen = [name |-> name[u], x |-> NoX], !.torn = FALSE]

GetProfile(c, u) ==
    /\ request[c].pc = "idle"
    /\ cached[u] = Miss
    /\ request' = [request EXCEPT ![c] = Reading(NoRequest, u)]
    /\ UNCHANGED <<name, xOwner, cached, doubtful, told, identity, misled, profileWrites>>

ReadX(c) ==
    /\ request[c].pc = "readX"
    /\ request' = [request EXCEPT ![c].pc = "fill", ![c].seen.x = XOf(request[c].reads)]
    /\ UNCHANGED <<name, xOwner, cached, doubtful, told, identity, misled, profileWrites>>

(* r has the profile p of the first of its audience, and tells it on; of a *)
(* user without a profile nothing is told.                                 *)
Publish(r, p, old) ==
    IF r.audience = <<>>
      THEN UNCHANGED <<told, misled>>
      ELSE LET u == Head(r.audience)
           IN IF p = NotFound
                THEN /\ misled' = [misled EXCEPT ![u] = @ \/ old]
                     /\ UNCHANGED told
                ELSE /\ told' = told \union {[user |-> u, profile |-> p, old |-> old]}
                     /\ UNCHANGED misled

AfterPublishing(r) ==
    IF Len(r.audience) <= 1
      THEN NoRequest
      ELSE [NoRequest EXCEPT !.pc = "tell", !.audience = Tail(r.audience)]

Fill(c) ==
    LET r == request[c]
    IN /\ r.pc = "fill"
       /\ cached' = [cached EXCEPT ![r.reads] = r.seen]
       /\ doubtful' = [doubtful EXCEPT ![r.reads] = r.torn]
       /\ Publish(r, r.seen, r.torn)
       /\ request' = [request EXCEPT ![c] = AfterPublishing(r)]
       /\ UNCHANGED <<name, xOwner, identity, profileWrites>>

(* The entry of u times out.                                               *)
Expire(u) ==
    /\ cached[u] # Miss
    /\ cached' = [cached EXCEPT ![u] = Miss]
    /\ doubtful' = [doubtful EXCEPT ![u] = FALSE]
    /\ UNCHANGED <<name, xOwner, request, told, identity, misled, profileWrites>>

-----------------------------------------------------------------------------
(* Writing.                                                                *)

Changed(u, audience) == [NoRequest EXCEPT !.pc = "remove", !.user = u, !.audience = audience]

SetDisplayName(c, u) ==
    /\ profileWrites < MaxProfileWrites
    /\ request[c].pc = "idle"
    /\ profileWrites' = profileWrites + 1
    /\ name' = [name EXCEPT ![u] = profileWrites + 1]
    /\ Written(c, {u}, Changed(u, <<u>>))
    /\ UNCHANGED <<xOwner, cached, doubtful, identity, misled>>

(* LinkSocialAccount looks up the user the account is linked to ...        *)
LinkSocialAccount(c, u, x) ==
    /\ profileWrites < MaxProfileWrites
    /\ request[c].pc = "idle"
    /\ profileWrites' = profileWrites + 1
    /\ request' = [request EXCEPT ![c] =
                      [NoRequest EXCEPT !.pc = "check", !.user = u, !.x = x,
                          !.audience = IF xOwner[x] = Nobody THEN <<u>> ELSE <<xOwner[x], u>>]]
    /\ UNCHANGED <<name, xOwner, cached, doubtful, told, identity, misled>>

(* ... then the account the caller has: a caller with another is refused.  *)
CheckLink(c) ==
    LET r == request[c]
    IN /\ r.pc = "check"
       /\ request' = [request EXCEPT ![c] = IF XOf(r.user) \in {NoX, r.x}
                                              THEN [r EXCEPT !.pc = "upsert"]
                                              ELSE NoRequest]
       /\ UNCHANGED <<name, xOwner, cached, doubtful, told, identity, misled, profileWrites>>

(* X account x is now u's.  The cache keeps the entry of the user who lost *)
(* it, and a user who got it only after the lookup is not told.            *)
MoveX(x, u, audience) ==
    LET loses(w) == w = xOwner[x] /\ w # u
    IN /\ xOwner' = [xOwner EXCEPT ![x] = u]
       /\ doubtful' = [w \in People |-> doubtful[w] \/ (loses(w) /\ cached[w] # Miss)]
       /\ misled' = [w \in People |-> misled[w] \/ (loses(w) /\ w \notin Range(audience))]

(* Mutant: the account a caller links is inserted beside the one it has.   *)
UpsertLinkUnguarded(c) ==
    LET r == request[c]
    IN /\ r.pc = "upsert"
       /\ MoveX(r.x, r.user, r.audience)
       /\ Written(c, {r.user, xOwner[r.x]}, Changed(r.user, r.audience))
       /\ UNCHANGED <<name, cached, identity, profileWrites>>

(* The upsert moves the row of the account to the caller; the unique index *)
(* on its user fails a caller who got another account in between.          *)
UpsertLink(c) ==
    LET r == request[c]
    IN /\ r.pc = "upsert"
       /\ \/ /\ XOf(r.user) \in {NoX, r.x}
             /\ MoveX(r.x, r.user, r.audience)
             /\ Written(c, {r.user, xOwner[r.x]}, Changed(r.user, r.audience))
          \/ /\ XOf(r.user) \notin {NoX, r.x}
             /\ request' = [request EXCEPT ![c] = NoRequest]
             /\ UNCHANGED <<xOwner, doubtful, told, misled>>
       /\ UNCHANGED <<name, cached, identity, profileWrites>>

UnlinkSocialAccount(c, u, x) ==
    /\ profileWrites < MaxProfileWrites
    /\ request[c].pc = "idle"
    /\ xOwner[x] = u
    /\ profileWrites' = profileWrites + 1
    /\ xOwner' = [xOwner EXCEPT ![x] = Nobody]
    /\ Written(c, {u}, Changed(u, <<u>>))
    /\ UNCHANGED <<name, cached, doubtful, identity, misled>>

(* Mutant: the entry stays.                                                *)
RemoveNothing(c) ==
    /\ request[c].pc = "remove"
    /\ request' = [request EXCEPT ![c].pc = "tell", ![c].user = Nobody]
    /\ UNCHANGED <<name, xOwner, cached, doubtful, told, identity, misled, profileWrites>>

(* The cache's wrapper of the three: remove the caller's entry, reply.     *)
RemoveEntry(c) ==
    /\ request[c].pc = "remove"
    /\ cached' = [cached EXCEPT ![request[c].user] = Miss]
    /\ doubtful' = [doubtful EXCEPT ![request[c].user] = FALSE]
    /\ request' = [request EXCEPT ![c].pc = "tell", ![c].user = Nobody]
    /\ UNCHANGED <<name, xOwner, told, identity, misled, profileWrites>>

(* OnProfileUpdated reads the profile as any other reader does.            *)
OnProfileUpdated(c) ==
    LET r == request[c]
        u == Head(r.audience)
    IN /\ r.pc = "tell"
       /\ \/ /\ cached[u] # Miss
             /\ Publish(r, cached[u], doubtful[u] \/ cached[u] # ProfileOf(u))
             /\ request' = [request EXCEPT ![c] = AfterPublishing(r)]
          \/ /\ cached[u] = Miss
             /\ request' = [request EXCEPT ![c] = Reading(r, u)]
             /\ UNCHANGED <<told, misled>>
       /\ UNCHANGED <<name, xOwner, cached, doubtful, identity, profileWrites>>

(* Mutant: an identity that reaches the clients behind a newer is dropped. *)
TellClientsOnce(e) ==
    /\ e \in told
    /\ told' = told \ {e}
    /\ identity' = IF identity[e.user] = NotFound
                     THEN [identity EXCEPT ![e.user] = e.profile] ELSE identity
    /\ misled' = [misled EXCEPT ![e.user] = e.old]
    /\ UNCHANGED <<name, xOwner, cached, doubtful, request, profileWrites>>

(* Identity events reach the clients in any order.                         *)
TellClients(e) ==
    /\ e \in told
    /\ told' = told \ {e}
    /\ identity' = [identity EXCEPT ![e.user] = e.profile]
    /\ misled' = [misled EXCEPT ![e.user] = e.old]
    /\ UNCHANGED <<name, xOwner, cached, doubtful, request, profileWrites>>

ProfileNext ==
    \/ \E c \in ProfileCalls, u \in People :
          \/ GetProfile(c, u)
          \/ SetDisplayName(c, u)
          \/ \E x \in XAccounts : LinkSocialAccount(c, u, x) \/ UnlinkSocialAccount(c, u, x)
    \/ \E c \in ProfileCalls :
          ReadX(c) \/ Fill(c) \/ CheckLink(c) \/ UpsertLink(c) \/ RemoveEntry(c) \/ OnProfileUpdated(c)
    \/ \E u \in People : Expire(u)
    \/ \E e \in told : TellClients(e)

ProfileSpec == ProfileInit /\ [][ProfileNext]_profileVars

-----------------------------------------------------------------------------
(* Every variable has its type, and no user has two X accounts.            *)
ProfileTypeOK ==
    /\ name \in [People -> Names]
    /\ xOwner \in [XAccounts -> People \union {Nobody}]
    /\ cached \in [People -> Profile \union {Miss}]
    /\ doubtful \in [People -> BOOLEAN]
    /\ request \in [ProfileCalls -> Request]
    /\ told \subseteq Identity
    /\ identity \in [People -> Profile]
    /\ misled \in [People -> BOOLEAN]
    /\ profileWrites \in Names
    /\ \A x, y \in XAccounts : xOwner[x] = xOwner[y] /\ xOwner[x] # Nobody => x = y

Invalidating(u) == \E c \in ProfileCalls : request[c].pc = "remove" /\ request[c].user = u

(* The cache shows what the store has, except while a write of the user is *)
(* about to remove the entry, or if the entry was filled by a reader that  *)
(* a write overtook, or if the user's X account was linked to another.     *)
OnlyDoubtfulEntriesAreStale ==
    \A u \in People :
        cached[u] # Miss /\ cached[u] # ProfileOf(u) => doubtful[u] \/ Invalidating(u)

AtRest == told = {} /\ \A c \in ProfileCalls : request[c].pc = "idle"

(* When all changes have been told, the clients know every profile as it   *)
(* is, except one whose last news was read before its last write, or from  *)
(* an entry that was stale, or whose X account was linked away from under  *)
(* a link that had looked its owner up before.                             *)
ClientsKnowTheProfile ==
    AtRest => \A u \in People : identity[u] = ProfileOf(u) \/ misled[u]

(* profile/tests/store.go has it of every store: linking an X account to a *)
(* second user removes the link from the first.  The cached store goes on  *)
(* showing it.                                                             *)
MovedAccountIsRemoved ==
    AtRest => \A u \in People : cached[u].x \in XAccounts => xOwner[cached[u].x] = u
=============================================================================

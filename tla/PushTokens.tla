----------------------------- MODULE PushTokens -----------------------------
(***************************************************************************)
(* Push tokens, and the pushes of one chat's messages.  A user has one row *)
(* per app install; tokens are deleted by type and value, whoever has      *)
(* them.  A handler of a message reads the members, then their tokens,     *)
(* sends one multicast, and leaves the tokens that FCM rejected to a       *)
(* goroutine that deletes them one by one.                                 *)
(***************************************************************************)
EXTENDS Naturals, FiniteSets

CONSTANTS Owners,        \* the users, all of them members of the chat
          Speakers,      \* those whose messages are pushed: a group's owner,
                         \* both users of a two-way chat
          Installs,      \* app installs, each user's numbered apart
          PushTypes,     \* token types
          TokenValues,   \* the tokens FCM gives out
          NoToken,
          Deletes,       \* slots for DeleteToken and DeleteTokens calls
          Pushes,        \* slots for messages being pushed
          MaxAdds,       \* bound on the number of AddToken calls
          MaxTokens      \* how many tokens a multicast takes, 500 in the code

ASSUME PushAssumption ==
    /\ Speakers \subseteq Owners
    /\ NoToken \notin [type: PushTypes, value: TokenValues]
    /\ MaxAdds \in Nat /\ MaxTokens \in Nat

VARIABLES
  rowsOnPostgres,  \* the token store in use
  tokens,       \* tokens[u][i]: the row of u's install i, or NoToken
  registered,   \* registered[u][i]: the token the install last registered
  deleted,      \* deleted[u][i]: values deleted for the install and not
                \* registered by it since
  dead,         \* values FCM has unregistered: the app is gone
  pushEnabled,  \* the members with IsPushEnabled
  delete,       \* the deleting calls
  push,         \* the messages being pushed
  adds          \* number of AddToken calls so far

pushVars == <<rowsOnPostgres, tokens, registered, deleted, dead, pushEnabled, delete, push, adds>>

Token == [type: PushTypes, value: TokenValues]
Rows  == [Owners -> [Installs -> Token \union {NoToken}]]

(* todo: the token the call has found for the install and has to delete;   *)
(* again: the install has registered a token since.                        *)
Deleting == [user: Owners, install: Installs, todo: SUBSET Token, again: BOOLEAN]

Push == [pc: {"idle", "members", "tokens", "send", "prune"}, sender: Owners,
         targets: SUBSET Owners, batch: SUBSET Token]

TokensOf(users) == {tokens[u][i] : u \in users, i \in Installs} \ {NoToken}

(* How many rows there are: a value that two rows share counts twice.      *)
NumTokens(users) ==
    Cardinality({r \in users \X Installs : tokens[r[1]][r[2]] # NoToken})

(* The stores' DeleteToken.                                                *)
DeletedEverywhere(t) ==
    [u \in Owners |-> [i \in Installs |-> IF tokens[u][i] = t THEN NoToken ELSE tokens[u][i]]]

PushInit ==
    /\ rowsOnPostgres \in BOOLEAN
    /\ tokens = [u \in Owners |-> [i \in Installs |-> NoToken]]
    /\ registered = tokens
    /\ deleted = [u \in Owners |-> [i \in Installs |-> {}]]
    /\ dead = {}
    /\ pushEnabled = Owners
    /\ delete \in [Deletes -> {d \in Deleting : d.todo = {} /\ ~d.again}]
    /\ push \in [Pushes -> {p \in Push : p.pc = "idle" /\ p.targets = {} /\ p.batch = {}}]
    /\ adds = 0

-----------------------------------------------------------------------------
(* Mutant: the memory store keeps the type, too.                           *)
StoredTokenTyped(u, i, t) == IF tokens[u][i] # NoToken
                               THEN [t EXCEPT !.type = tokens[u][i].type] ELSE t

(* The upsert of postgres updates the value of a row and not its type.     *)
StoredToken(u, i, t) ==
    IF rowsOnPostgres /\ tokens[u][i] # NoToken
      THEN [t EXCEPT !.type = tokens[u][i].type]
      ELSE t

AddToken(u, i, t) ==
    /\ adds < MaxAdds
    /\ adds' = adds + 1
    /\ tokens' = [tokens EXCEPT ![u][i] = StoredToken(u, i, t)]
    /\ registered' = [registered EXCEPT ![u][i] = t]
    /\ deleted' = [deleted EXCEPT ![u][i] = @ \ {t.value}]
    /\ delete' = [c \in Deletes |-> [delete[c] EXCEPT !.again =
                      @ \/ (delete[c].todo # {} /\ delete[c].user = u /\ delete[c].install = i)]]
    /\ UNCHANGED <<rowsOnPostgres, dead, pushEnabled, push>>

(* DeleteToken of a token the caller registered: one that the caller does  *)
(* not have is answered OK at once.                                        *)
DeleteToken(c, u, i) ==
    LET t == registered[u][i]
    IN /\ t # NoToken
       /\ delete[c].todo = {}
       /\ IF t \in TokensOf({u})
            THEN /\ delete' = [delete EXCEPT ![c] =
                                  [user |-> u, install |-> i, todo |-> {t}, again |-> FALSE]]
                 /\ UNCHANGED deleted
            ELSE /\ deleted' = [deleted EXCEPT ![u][i] = @ \union {t.value}]
                 /\ UNCHANGED delete
       /\ UNCHANGED <<rowsOnPostgres, tokens, registered, dead, pushEnabled, push, adds>>

(* DeleteTokens deletes what the caller's row of the install holds.        *)
DeleteTokens(c, u, i) ==
    /\ tokens[u][i] # NoToken
    /\ delete[c].todo = {}
    /\ delete' = [delete EXCEPT ![c] =
                     [user |-> u, install |-> i, todo |-> {tokens[u][i]}, again |-> FALSE]]
    /\ UNCHANGED <<rowsOnPostgres, tokens, registered, deleted, dead, pushEnabled, push, adds>>

DeleteRows(c) ==
    LET d == delete[c]
    IN \E t \in d.todo :
          /\ tokens' = DeletedEverywhere(t)
          /\ deleted' = IF d.again THEN deleted
                        ELSE [deleted EXCEPT ![d.user][d.install] = @ \union {t.value}]
          /\ delete' = [delete EXCEPT ![c].todo = {}, ![c].again = FALSE]
          /\ UNCHANGED <<rowsOnPostgres, registered, dead, pushEnabled, push, adds>>

(* External: an app is uninstalled, and FCM rejects its token from now on. *)
Uninstall(v) ==
    /\ v \notin dead
    /\ dead' = dead \union {v}
    /\ UNCHANGED <<rowsOnPostgres, tokens, registered, deleted, pushEnabled, delete, push, adds>>

-----------------------------------------------------------------------------
(* MuteChat and UnmuteChat.                                                *)
SetPushState(u) ==
    /\ pushEnabled' = IF u \in pushEnabled THEN pushEnabled \ {u} ELSE pushEnabled \union {u}
    /\ UNCHANGED <<rowsOnPostgres, tokens, registered, deleted, dead, delete, push, adds>>

(* A text or a reply is posted, by a speaker who has a profile.            *)
PostToPush(p, u) ==
    /\ push[p].pc = "idle"
    /\ push' = [push EXCEPT ![p].pc = "members", ![p].sender = u]
    /\ UNCHANGED <<rowsOnPostgres, tokens, registered, deleted, dead, pushEnabled, delete, adds>>

(* Back to rest, whatever the reason.                                      *)
Pushed(r) == [r EXCEPT !.pc = "idle", !.targets = {}, !.batch = {}]

ReadPushMembers(p) ==
    LET targets == pushEnabled \ {push[p].sender}
    IN /\ push[p].pc = "members"
       /\ push' = [push EXCEPT ![p] = IF targets = {}
                                        THEN Pushed(@)
                                        ELSE [@ EXCEPT !.targets = targets, !.pc = "tokens"]]
       /\ UNCHANGED <<rowsOnPostgres, tokens, registered, deleted, dead, pushEnabled, delete, adds>>

(* No tokens, or too many for one multicast: the push is dropped.          *)
GetTokensBatch(p) ==
    LET r == push[p]
    IN /\ r.pc = "tokens"
       /\ push' = [push EXCEPT ![p] = IF NumTokens(r.targets) \in 1..MaxTokens
                                        THEN [r EXCEPT !.batch = TokensOf(r.targets), !.pc = "send"]
                                        ELSE Pushed(r)]
       /\ UNCHANGED <<rowsOnPostgres, tokens, registered, deleted, dead, pushEnabled, delete, adds>>

(* Mutant: whatever failed is removed.                                     *)
SendPushesStrictly(p) ==
    LET r == push[p]
    IN /\ r.pc = "send"
       /\ push' = [push EXCEPT ![p] = [Pushed(r) EXCEPT !.pc = "prune", !.batch = r.batch]]
       /\ UNCHANGED <<rowsOnPostgres, tokens, registered, deleted, dead, pushEnabled, delete, adds>>

(* FCM answers for every token; only the unregistered ones are removed.    *)
SendPushes(p) ==
    LET r == push[p]
        rejected == {t \in r.batch : t.value \in dead}
    IN /\ r.pc = "send"
       /\ push' = [push EXCEPT ![p] = IF rejected = {}
                                        THEN Pushed(r)
                                        ELSE [Pushed(r) EXCEPT !.pc = "prune", !.batch = rejected]]
       /\ UNCHANGED <<rowsOnPostgres, tokens, registered, deleted, dead, pushEnabled, delete, adds>>

Prune(p) ==
    LET r == push[p]
    IN /\ r.pc = "prune"
       /\ \E t \in r.batch :
             /\ tokens' = DeletedEverywhere(t)
             /\ push' = [push EXCEPT ![p] = IF r.batch = {t}
                                              THEN Pushed(r)
                                              ELSE [r EXCEPT !.batch = r.batch \ {t}]]
       /\ UNCHANGED <<rowsOnPostgres, registered, deleted, dead, pushEnabled, delete, adds>>

PushNext ==
    \/ \E u \in Owners, i \in Installs :
          \/ \E t \in Token : AddToken(u, i, t)
          \/ \E c \in Deletes : DeleteToken(c, u, i) \/ DeleteTokens(c, u, i)
    \/ \E c \in Deletes : DeleteRows(c)
    \/ \E v \in TokenValues : Uninstall(v)
    \/ \E u \in Owners : SetPushState(u)
    \/ \E p \in Pushes : \/ \E u \in Speakers : PostToPush(p, u)
                         \/ ReadPushMembers(p) \/ GetTokensBatch(p) \/ SendPushes(p) \/ Prune(p)

PushSpec == PushInit /\ [][PushNext]_pushVars

-----------------------------------------------------------------------------
(* Every variable has its type, and a push that is over holds nothing.     *)
PushTypeOK ==
    /\ rowsOnPostgres \in BOOLEAN
    /\ tokens \in Rows
    /\ registered \in Rows
    /\ deleted \in [Owners -> [Installs -> SUBSET TokenValues]]
    /\ dead \subseteq TokenValues
    /\ pushEnabled \subseteq Owners
    /\ delete \in [Deletes -> Deleting]
    /\ push \in [Pushes -> Push]
    /\ adds \in 0..MaxAdds
    /\ \A p \in Pushes : push[p].pc = "idle" => push[p] = Pushed(push[p])

(* A token that a user deleted, with the type it was registered with, gets *)
(* no more pushes; except on postgres, where an install that changed its   *)
(* type has kept the old one, and the deletion finds nothing.              *)
OnlyStaleTypesSurviveDeletion ==
    \A u \in Owners, i \in Installs :
        tokens[u][i] # NoToken /\ tokens[u][i].value \in deleted[u][i]
            => rowsOnPostgres /\ tokens[u][i].type # registered[u][i].type

(* A row with a live token goes away only by a call that deletes this very *)
(* token; the goroutine that removes rejected tokens by value spares a     *)
(* token registered in between.                                            *)
OnlyDeletedLiveTokensGo ==
    [][\A u \in Owners, i \in Installs :
          tokens[u][i] # NoToken /\ tokens'[u][i] = NoToken /\ tokens[u][i].value \notin dead
              => \E c \in Deletes : tokens[u][i] \in delete[c].todo]_pushVars
=============================================================================

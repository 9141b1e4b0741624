------------------------------ MODULE Accounts ------------------------------
(***************************************************************************)
(* Accounts: a public key is bound to a user once, by the first Register   *)
(* that gets through, and everyone who registers or logs in with the key   *)
(* is told that user.  Register generates a user id first, so a call is    *)
(* also the user it may create.  AuthorizePublicKey and RevokePublicKey    *)
(* deny every request, and the cache refuses RemoveKey: a key is never     *)
(* taken away or given a second owner.                                     *)
(*                                                                         *)
(* The memory store binds in one step under its mutex.  Postgres looks the *)
(* key up, and then inserts the user and the key in a transaction that     *)
(* holds one of the pool's connections; a failed insert returns without a  *)
(* rollback and keeps the connection.                                      *)
(***************************************************************************)
EXTENDS Naturals, FiniteSets

CONSTANTS AccountKeys,    \* public keys
          Registers,      \* Register calls, and the users they generate
          NoUser,         \* no user
          Logins,         \* slots for Login and authorization
          Connections     \* size of the postgres pool

ASSUME AccountAssumption ==
    /\ AccountKeys # {}
    /\ NoUser \notin Registers
    /\ IsFiniteSet(Registers)
    /\ Connections \in Nat \ {0}

VARIABLES
  accountStore,   \* the store behind the cache
  users,          \* users with a row
  keyOwner,       \* keyOwner[k]: the user key k is bound to
  ownerCache,     \* ownerCache[k]: the cache's owner of k
  register,       \* register[r]: progress of a Register call, its key, the user it answers
  login,          \* login[l]: a lookup of a key's owner in progress
  leaked          \* Register calls that never gave back their connection

accountVars == <<accountStore, users, keyOwner, ownerCache, register, login, leaked>>

User == Registers \union {NoUser}

Registering == [pc: {"idle", "missing", "begun", "user", "key", "answered", "failed", "lost"},
                key: AccountKeys, user: User]

AccountInit ==
    /\ accountStore \in {"memory", "postgres"}
    /\ users = {}
    /\ keyOwner = [k \in AccountKeys |-> NoUser]
    /\ ownerCache = [k \in AccountKeys |-> NoUser]
    /\ register \in [Registers -> {[pc |-> "idle", key |-> k, user |-> NoUser] : k \in AccountKeys}]
    /\ login = [l \in Logins |-> [pc |-> "idle", key |-> CHOOSE k \in AccountKeys : TRUE, user |-> NoUser]]
    /\ leaked = {}

-----------------------------------------------------------------------------
(* Register                                                                *)

InTransaction == {r \in Registers : register[r].pc \in {"begun", "user", "key"}}

(* A statement needs a connection of the pool and waits for one.           *)
ConnectionFree == Cardinality(InTransaction) + Cardinality(leaked) < Connections

Answer(r, u) == register' = [register EXCEPT ![r].pc = "answered", ![r].user = u]

BindInMemory(r) ==
    /\ accountStore = "memory" /\ register[r].pc = "idle"
    /\ LET k == register[r].key
       IN IF keyOwner[k] # NoUser
            THEN Answer(r, keyOwner[k]) /\ UNCHANGED <<users, keyOwner>>
            ELSE /\ keyOwner' = [keyOwner EXCEPT ![k] = r]
                 /\ users' = users \union {r}
                 /\ Answer(r, r)
    /\ UNCHANGED <<accountStore, ownerCache, login, leaked>>

LookUpKey(r) ==
    /\ accountStore = "postgres" /\ register[r].pc = "idle" /\ ConnectionFree
    /\ LET u == keyOwner[register[r].key]
       IN IF u # NoUser THEN Answer(r, u)
                        ELSE register' = [register EXCEPT ![r].pc = "missing"]
    /\ UNCHANGED <<accountStore, users, keyOwner, ownerCache, login, leaked>>

BeginBind(r) ==
    /\ register[r].pc = "missing" /\ ConnectionFree
    /\ register' = [register EXCEPT ![r].pc = "begun"]
    /\ UNCHANGED <<accountStore, users, keyOwner, ownerCache, login, leaked>>

(* Mutant: the user is inserted outside the transaction.                   *)
InsertUserAtOnce(r) ==
    /\ register[r].pc = "begun"
    /\ users' = users \union {r}
    /\ register' = [register EXCEPT ![r].pc = "user"]
    /\ UNCHANGED <<accountStore, keyOwner, ownerCache, login, leaked>>

(* The generated id is new: the upsert of the user never conflicts.        *)
InsertUser(r) ==
    /\ register[r].pc = "begun"
    /\ register' = [register EXCEPT ![r].pc = "user"]
    /\ UNCHANGED <<accountStore, users, keyOwner, ownerCache, login, leaked>>

(* Mutant: an uncommitted insert of the key makes the insert fail at once. *)
InsertKeyImpatiently(r) ==
    LET taken == \/ keyOwner[register[r].key] # NoUser
                 \/ \E q \in Registers : register[q].pc = "key" /\ register[q].key = register[r].key
    IN /\ register[r].pc = "user"
       /\ register' = [register EXCEPT ![r].pc = IF taken THEN "failed" ELSE "key"]
       /\ leaked' = IF taken THEN leaked \union {r} ELSE leaked
       /\ UNCHANGED <<accountStore, users, keyOwner, ownerCache, login>>

(* The key is the primary key of its table: an insert waits for another    *)
(* transaction's uncommitted insert of it, and fails on a committed one.   *)
InsertKey(r) ==
    /\ register[r].pc = "user"
    /\ \A q \in Registers : register[q].pc = "key" => register[q].key # register[r].key
    /\ IF keyOwner[register[r].key] = NoUser
         THEN /\ register' = [register EXCEPT ![r].pc = "key"]
              /\ UNCHANGED leaked
         ELSE /\ register' = [register EXCEPT ![r].pc = "failed"]
              /\ leaked' = leaked \union {r}
    /\ UNCHANGED <<accountStore, users, keyOwner, ownerCache, login>>

CommitBind(r) ==
    /\ register[r].pc = "key"
    /\ users' = users \union {r}
    /\ keyOwner' = [keyOwner EXCEPT ![register[r].key] = r]
    /\ Answer(r, r)
    /\ UNCHANGED <<accountStore, ownerCache, login, leaked>>

-----------------------------------------------------------------------------
(* Login and authorization read the owner through the cache; only an owner *)
(* that was found is cached, and for good.                                 *)

ReadOwner(l, k) ==
    /\ login[l].pc = "idle"
    /\ ownerCache[k] = NoUser
    /\ accountStore = "postgres" => ConnectionFree
    /\ keyOwner[k] # NoUser
    /\ login' = [login EXCEPT ![l] = [pc |-> "fill", key |-> k, user |-> keyOwner[k]]]
    /\ UNCHANGED <<accountStore, users, keyOwner, ownerCache, register, leaked>>

FillOwner(l) ==
    /\ login[l].pc = "fill"
    /\ ownerCache' = [ownerCache EXCEPT ![login[l].key] = login[l].user]
    /\ login' = [login EXCEPT ![l].pc = "idle", ![l].user = NoUser]
    /\ UNCHANGED <<accountStore, users, keyOwner, register, leaked>>

(* The user a Login with k is answered, and an authorization compares      *)
(* with the user of the request; NoUser is DENIED.                         *)
OwnerOf(k) == IF ownerCache[k] # NoUser THEN ownerCache[k] ELSE keyOwner[k]

(* GetPaymentDestination and GetUserFlags read the keys of a user from the *)
(* store, past the cache; the destination is derived from the only key.    *)
GetPubKeys(u) == {k \in AccountKeys : keyOwner[k] = u}

(* The server stops: its calls are lost, their transactions rolled back,   *)
(* the cache is empty and the pool is new.  Postgres stays.                *)
Restart ==
    /\ accountStore = "postgres"
    /\ register' = [r \in Registers |->
                       IF register[r].pc \in {"idle", "answered", "failed"} THEN register[r]
                       ELSE [register[r] EXCEPT !.pc = "lost"]]
    /\ login' = [l \in Logins |-> [login[l] EXCEPT !.pc = "idle", !.user = NoUser]]
    /\ ownerCache' = [k \in AccountKeys |-> NoUser]
    /\ leaked' = {}
    /\ UNCHANGED <<accountStore, users, keyOwner>>

AccountNext ==
    \/ \E r \in Registers : \/ BindInMemory(r)
                            \/ LookUpKey(r)
                            \/ BeginBind(r)
                            \/ InsertUser(r)
                            \/ InsertKey(r)
                            \/ CommitBind(r)
    \/ \E l \in Logins : FillOwner(l) \/ \E k \in AccountKeys : ReadOwner(l, k)
    \/ Restart

AccountSpec == AccountInit /\ [][AccountNext]_accountVars

-----------------------------------------------------------------------------
(* Type invariant.                                                         *)
AccountTypeOK ==
    /\ accountStore \in {"memory", "postgres"}
    /\ users \subseteq Registers
    /\ keyOwner \in [AccountKeys -> User]
    /\ ownerCache \in [AccountKeys -> User]
    /\ register \in [Registers -> Registering]
    /\ login \in [Logins -> [pc: {"idle", "fill"}, key: AccountKeys, user: User]]
    /\ leaked \subseteq {r \in Registers : register[r].pc = "failed"}
    /\ Cardinality(InTransaction) + Cardinality(leaked) <= Connections

(* Every Register that is answered, before, after or against other calls   *)
(* with the same key, is answered the user the key stays bound to: the     *)
(* client never ends up with an account that is not its own.               *)
AnsweredIsBound ==
    \A r \in Registers :
        register[r].pc = "answered" => /\ register[r].user # NoUser
                                       /\ OwnerOf(register[r].key) = register[r].user

(* A user has exactly one key, as payment destinations and airdrops take   *)
(* for granted, and a key belongs to a user with a row; a lost race or a   *)
(* restart leaves neither half behind.                                     *)
OneKeyPerUser ==
    /\ \A u \in users : Cardinality(GetPubKeys(u)) = 1
    /\ \A k \in AccountKeys : keyOwner[k] # NoUser => keyOwner[k] \in users

(* The cache never expires, so what it holds has to stay true.             *)
CachedOwnerIsOwner ==
    \A k \in AccountKeys : ownerCache[k] # NoUser => ownerCache[k] = keyOwner[k]

(* Connections are lost only to races on one key, each to a call whose key *)
(* another call has bound: of n calls with a key at most n-1 lose one.     *)
LeaksAreLostRaces ==
    \A r \in leaked : keyOwner[register[r].key] \in Registers \ (leaked \union {r})

(* Accounts implements KeyBindings: however statements, lookups through    *)
(* the cache and restarts interleave, every Register that is answered took *)
(* effect at one moment, and a key and its account appear at once.         *)
Bindings == INSTANCE KeyBindings
    WITH Keys <- AccountKeys, Requests <- Registers, Nobody <- NoUser,
         owner <- [k \in AccountKeys |-> OwnerOf(k)],
         accounts <- users,
         asked <- [r \in Registers |-> register[r].key],
         told <- [r \in Registers |-> IF register[r].pc = "answered" THEN register[r].user ELSE NoUser]

ImplementsKeyBindings == Bindings!Spec
=============================================================================

--------------------------- MODULE AccountsProofs ---------------------------
(***************************************************************************)
(* Proofs about what the server keeps of a user's identity: the account    *)
(* (Accounts), the profile behind its cache (Profiles) and the push tokens *)
(* (PushTokens).                                                           *)
(***************************************************************************)
EXTENDS Accounts, Profiles, PushTokens, TLAPS, FiniteSetTheorems, SequenceTheorems

-----------------------------------------------------------------------------
(***************************************************************************)
(* Accounts, for any number of keys, registrations, lookups and            *)
(* connections, on both stores: a registration that is answered is         *)
(* answered the user its key stays bound to, a user has one key, what is   *)
(* cached for good is true for good, and a connection is lost only to a    *)
(* race that another call won.                                             *)
(***************************************************************************)

(* The type invariant, in two parts.                                       *)
Typed ==
    /\ accountStore \in {"memory", "postgres"}
    /\ users \subseteq Registers
    /\ keyOwner \in [AccountKeys -> User]
    /\ ownerCache \in [AccountKeys -> User]
    /\ register \in [Registers -> Registering]
    /\ login \in [Logins -> [pc: {"idle", "fill"}, key: AccountKeys, user: User]]
    /\ leaked \subseteq {r \in Registers : register[r].pc = "failed"}

Bounded == Cardinality(InTransaction) + Cardinality(leaked) <= Connections

(* A bound key leads to the call that bound it, and back.                  *)
BoundByAnswered ==
    \A k \in AccountKeys :
        keyOwner[k] # NoUser =>
            /\ keyOwner[k] \in users
            /\ register[keyOwner[k]].pc = "answered"
            /\ register[keyOwner[k]].key = k

AnsweredOwns ==
    \A r \in Registers :
        register[r].pc = "answered" =>
            register[r].user # NoUser /\ keyOwner[register[r].key] = register[r].user

UserOwns == \A u \in users : keyOwner[register[u].key] = u

(* What is inserted and not committed: the key is free, and no other       *)
(* transaction has inserted it.                                            *)
InsertedIsFree ==
    \A r \in Registers :
        register[r].pc = "key" =>
            /\ keyOwner[register[r].key] = NoUser
            /\ \A q \in Registers :
                  register[q].pc = "key" /\ register[q].key = register[r].key => q = r

FillIsOwner ==
    \A l \in Logins :
        login[l].pc = "fill" =>
            login[l].user # NoUser /\ keyOwner[login[l].key] = login[l].user

(* The memory store takes one step.                                        *)
BoundAtOnce ==
    accountStore = "memory" => \A r \in Registers : register[r].pc \in {"idle", "answered"}

LeakedLost == \A r \in leaked : keyOwner[register[r].key] # NoUser

AccountInv ==
    /\ Typed
    /\ Bounded
    /\ BoundByAnswered
    /\ AnsweredOwns
    /\ UserOwns
    /\ InsertedIsFree
    /\ BoundAtOnce
    /\ FillIsOwner
    /\ CachedOwnerIsOwner
    /\ LeakedLost

-----------------------------------------------------------------------------
(* Counting connections.                                                   *)
LEMMA Finite ==
    ASSUME Typed PROVE IsFiniteSet(InTransaction) /\ IsFiniteSet(leaked)
<1>1. InTransaction \subseteq Registers /\ leaked \subseteq Registers
  BY DEF Typed, InTransaction
<1> QED
  BY <1>1, AccountAssumption, FS_Subset

(* Fewer calls in a transaction, and no more that leaked.                  *)
LEMMA NoMoreConnections ==
    ASSUME Typed, Bounded, InTransaction' \subseteq InTransaction, leaked' \subseteq leaked
    PROVE  Bounded'
<1>1. /\ Cardinality(InTransaction') <= Cardinality(InTransaction)
      /\ Cardinality(leaked') <= Cardinality(leaked)
      /\ IsFiniteSet(InTransaction') /\ IsFiniteSet(leaked')
  BY Finite, FS_Subset
<1>2. /\ Cardinality(InTransaction) \in Nat /\ Cardinality(leaked) \in Nat
      /\ Cardinality(InTransaction') \in Nat /\ Cardinality(leaked') \in Nat
      /\ Connections \in Nat
  BY <1>1, Finite, FS_CardinalityType, AccountAssumption
<1> QED
  BY <1>1, <1>2 DEF Bounded

-----------------------------------------------------------------------------
(* Nothing is bound in the beginning.                                      *)
LEMMA AccountInitInv == AccountInit => AccountInv
<1> SUFFICES ASSUME AccountInit PROVE AccountInv
  OBVIOUS
<1>1. (CHOOSE k \in AccountKeys : TRUE) \in AccountKeys
  BY AccountAssumption
<1>2. \A r \in Registers : register[r] \in Registering /\ register[r].pc = "idle"
  BY DEF AccountInit, Registering, User
<1>3. Typed
  BY <1>1, <1>2 DEF AccountInit, Typed, User
<1>4. InTransaction = {} /\ leaked = {}
  BY <1>2 DEF AccountInit, InTransaction
<1>5. Bounded
  BY <1>4, FS_EmptySet, AccountAssumption DEF Bounded
<1> QED
  BY <1>2, <1>3, <1>5
     DEF AccountInit, AccountInv, BoundByAnswered, AnsweredOwns, UserOwns, InsertedIsFree, BoundAtOnce,
         FillIsOwner, CachedOwnerIsOwner, LeakedLost

(* A call moves and nothing else does: it was neither answered nor leaked, *)
(* and now it is answered, if at all, the owner of its key.                *)
LEMMA CallMoves ==
    ASSUME AccountInv, NEW r \in Registers, register[r].pc \notin {"answered", "failed"},
           NEW pc \in {"missing", "begun", "user", "key", "answered"}, NEW u \in User,
           register' = [register EXCEPT ![r].pc = pc, ![r].user = u],
           UNCHANGED <<accountStore, users, keyOwner, ownerCache, login, leaked>>,
           pc = "answered" => u # NoUser /\ keyOwner[register[r].key] = u,
           pc = "key" => /\ keyOwner[register[r].key] = NoUser
                         /\ \A q \in Registers :
                               register[q].pc = "key" => register[q].key # register[r].key,
           accountStore = "memory" => pc = "answered",
           Bounded'
    PROVE  AccountInv'
<1> DEFINE new == [register[r] EXCEPT !.pc = pc, !.user = u]
<1>1. Typed /\ register \in [Registers -> Registering] /\ register[r] \in Registering
  BY DEF AccountInv, Typed
<1>2. new \in Registering /\ new.pc = pc /\ new.user = u /\ new.key = register[r].key
  BY <1>1 DEF Registering
<1>3. register' = [register EXCEPT ![r] = new]
  BY <1>1
<1> HIDE DEF new
<1>4. register'[r] = new /\ \A q \in Registers : q # r => register'[q] = register[q]
  BY <1>1, <1>3
<1>5. r \notin leaked
  BY <1>1 DEF Typed
<1>6. Typed'
  BY <1>1, <1>2, <1>3, <1>4, <1>5 DEF Typed
<1>7. \A q \in Registers : register'[q].key = register[q].key
  BY <1>2, <1>4
<1>8. BoundByAnswered' /\ UserOwns' /\ LeakedLost'
  <2>1. BoundByAnswered'
    BY <1>1, <1>4, <1>7 DEF AccountInv, Typed, User, BoundByAnswered
  <2>2. UserOwns'
    BY <1>1, <1>7 DEF AccountInv, Typed, UserOwns
  <2>3. LeakedLost'
    BY <1>1, <1>7 DEF AccountInv, Typed, LeakedLost
  <2> QED
    BY <2>1, <2>2, <2>3
<1>9. AnsweredOwns' /\ InsertedIsFree'
  <2>1. ASSUME NEW q \in Registers, register'[q].pc = "answered"
        PROVE  register'[q].user # NoUser /\ keyOwner[register[q].key] = register'[q].user
    BY <1>2, <1>4, <2>1 DEF AccountInv, AnsweredOwns
  <2>2. AnsweredOwns'
    BY <1>7, <2>1 DEF AnsweredOwns
  <2>3. ASSUME NEW q \in Registers, register'[q].pc = "key"
        PROVE  /\ keyOwner[register[q].key] = NoUser
               /\ \A o \in Registers :
                     register'[o].pc = "key" /\ register[o].key = register[q].key => o = q
    <3>1. CASE q = r
      BY <1>2, <1>4, <2>3, <3>1
    <3>2. CASE q # r
      BY <1>2, <1>4, <2>3, <3>2 DEF AccountInv, InsertedIsFree
    <3> QED
      BY <3>1, <3>2
  <2>4. InsertedIsFree'
    <3> SUFFICES ASSUME NEW q \in Registers, register'[q].pc = "key"
                 PROVE  /\ keyOwner'[register'[q].key] = NoUser
                        /\ \A o \in Registers :
                              register'[o].pc = "key" /\ register'[o].key = register'[q].key
                                 => o = q
      BY DEF InsertedIsFree
    <3>1. keyOwner' = keyOwner
      OBVIOUS
    <3> QED
      BY <1>7, <2>3, <3>1
  <2> QED
    BY <2>2, <2>4
<1>10. FillIsOwner' /\ CachedOwnerIsOwner'
  BY DEF AccountInv, FillIsOwner, CachedOwnerIsOwner
<1>11. BoundAtOnce'
  BY <1>2, <1>4 DEF AccountInv, BoundAtOnce
<1> QED
  BY <1>6, <1>8, <1>9, <1>10, <1>11 DEF AccountInv

(* A free key is bound to the call.                                        *)
LEMMA CallBinds ==
    ASSUME AccountInv, NEW r \in Registers, register[r].pc \in {"idle", "key"},
           keyOwner[register[r].key] = NoUser,
           \A q \in Registers : register[q].pc = "key" /\ register[q].key = register[r].key => q = r,
           users' = users \union {r},
           keyOwner' = [keyOwner EXCEPT ![register[r].key] = r],
           register' = [register EXCEPT ![r].pc = "answered", ![r].user = r],
           UNCHANGED <<accountStore, ownerCache, login, leaked>>
    PROVE  AccountInv'
<1> DEFINE new == [register[r] EXCEPT !.pc = "answered", !.user = r]
           k == register[r].key
<1>0. UNCHANGED <<accountStore, ownerCache, login, leaked>> /\ users' = users \union {r}
  OBVIOUS
<1>1. Typed /\ Bounded /\ register \in [Registers -> Registering] /\ register[r] \in Registering
      /\ k \in AccountKeys /\ r # NoUser /\ r \in User
  BY AccountAssumption DEF AccountInv, Typed, Registering, User
<1>2. new \in Registering /\ new.pc = "answered" /\ new.user = r /\ new.key = k
  BY <1>1 DEF Registering
<1>3. register' = [register EXCEPT ![r] = new] /\ keyOwner' = [keyOwner EXCEPT ![k] = r]
  BY <1>1
<1>a. keyOwner[k] = NoUser
  OBVIOUS
<1>b. \A q \in Registers : register[q].pc = "key" /\ register[q].key = k => q = r
  OBVIOUS
<1> HIDE DEF new, k
<1>4. register'[r] = new /\ \A q \in Registers : q # r => register'[q] = register[q]
  BY <1>1, <1>3
<1>5. keyOwner'[k] = r /\ \A j \in AccountKeys : j # k => keyOwner'[j] = keyOwner[j]
  BY <1>1, <1>3 DEF Typed
<1>6. r \notin leaked
  BY <1>1 DEF Typed
<1>7. Typed'
  <2>1. users' \subseteq Registers /\ keyOwner' \in [AccountKeys -> User]
    <3>1. users' \subseteq Registers
      BY ONLY <1>0, <1>1 DEF Typed
    <3>2. keyOwner' \in [AccountKeys -> User]
      BY ONLY <1>1, <1>3 DEF Typed
    <3> QED
      BY <3>1, <3>2
  <2>2. register' \in [Registers -> Registering]
    BY <1>1, <1>2, <1>3
  <2>3. leaked' \subseteq {q \in Registers : register'[q].pc = "failed"}
    BY ONLY <1>0, <1>1, <1>4, <1>6 DEF Typed
  <2> QED
    BY ONLY <1>0, <1>1, <2>1, <2>2, <2>3 DEF Typed
<1>8. Bounded'
  <2>1. InTransaction' \subseteq InTransaction
    BY <1>2, <1>4 DEF InTransaction
  <2> QED
    BY <1>1, <2>1, NoMoreConnections
<1>9. \A q \in Registers : register'[q].key = register[q].key /\ register[q].key \in AccountKeys
  BY <1>1, <1>2, <1>4 DEF Registering
<1>10. BoundByAnswered'
  BY <1>1, <1>2, <1>4, <1>5 DEF AccountInv, Typed, User, BoundByAnswered
<1>11. AnsweredOwns'
  BY <1>1, <1>2, <1>4, <1>5, <1>9, <1>a DEF AccountInv, AnsweredOwns
<1>12. UserOwns'
  <2>1. \A u \in users : u \in Registers /\ register[u].key # k
    BY <1>1, <1>a, AccountAssumption DEF AccountInv, UserOwns, Typed
  <2>2. \A u \in users : keyOwner[register[u].key] = u
    BY DEF AccountInv, UserOwns
  <2>3. ASSUME NEW u \in users' PROVE keyOwner'[register'[u].key] = u
    <3>1. CASE u = r
      BY ONLY <1>2, <1>4, <1>5, <3>1
    <3>2. CASE u # r
      BY ONLY <1>0, <1>4, <1>5, <1>9, <2>1, <2>2, <2>3, <3>2
    <3> QED
      BY <3>1, <3>2
  <2> QED
    BY <2>3 DEF UserOwns
<1>13. InsertedIsFree'
  <2>1. ASSUME NEW q \in Registers, register'[q].pc = "key"
        PROVE  /\ keyOwner'[register[q].key] = NoUser
               /\ \A o \in Registers :
                     register'[o].pc = "key" /\ register[o].key = register[q].key => o = q
    <3>1. q # r /\ register[q].pc = "key" /\ register[q].key # k
      BY <1>2, <1>4, <1>b, <2>1
    <3>2. \A o \in Registers : register'[o].pc = "key" => register[o].pc = "key"
      BY <1>2, <1>4
    <3> QED
      BY <1>5, <1>9, <3>1, <3>2 DEF AccountInv, InsertedIsFree
  <2> QED
    BY ONLY <1>9, <2>1 DEF InsertedIsFree
<1>14. LeakedLost'
  BY <1>1, <1>4, <1>5, <1>6, <1>9 DEF AccountInv, LeakedLost, Typed
<1>15. FillIsOwner'
  <2>1. \A l \in Logins : login[l].key \in AccountKeys
    BY <1>1 DEF Typed
  <2> QED
    BY <1>5, <1>a, <2>1 DEF AccountInv, FillIsOwner
<1>16. CachedOwnerIsOwner'
  <2>1. ownerCache' = ownerCache
    OBVIOUS
  <2> QED
    BY <1>1, <1>5, <1>a, <2>1 DEF AccountInv, CachedOwnerIsOwner
<1>17. BoundAtOnce'
  BY <1>0, <1>2, <1>4 DEF AccountInv, BoundAtOnce
<1> QED
  BY <1>7, <1>8, <1>10, <1>11, <1>12, <1>13, <1>14, <1>15, <1>16, <1>17 DEF AccountInv

-----------------------------------------------------------------------------
(* One key, one step: Bind of the memory store.                            *)
LEMMA MemoryKeepsInv ==
    ASSUME AccountInv, NEW r \in Registers, BindInMemory(r) PROVE AccountInv'
<1> DEFINE k == register[r].key
<1>1. Typed /\ Bounded /\ k \in AccountKeys /\ keyOwner[k] \in User /\ register[r].pc = "idle"
  BY DEF AccountInv, Typed, Registering, BindInMemory
<1>2. CASE keyOwner[k] # NoUser
  <2>1. register' = [register EXCEPT ![r].pc = "answered", ![r].user = keyOwner[k]]
    BY <1>2 DEF BindInMemory, Answer
  <2>2. UNCHANGED <<accountStore, users, keyOwner, ownerCache, login, leaked>>
    BY <1>2 DEF BindInMemory
  <2>3. InTransaction' \subseteq InTransaction
    BY <1>1, <2>1 DEF InTransaction, Typed, Registering
  <2>4. Bounded'
    BY <1>1, <2>2, <2>3, NoMoreConnections
  <2> QED
    BY <1>1, <1>2, <2>1, <2>2, <2>4, CallMoves
<1>3. CASE keyOwner[k] = NoUser
  <2>1. /\ keyOwner' = [keyOwner EXCEPT ![k] = r]
        /\ users' = users \union {r}
        /\ register' = [register EXCEPT ![r].pc = "answered", ![r].user = r]
        /\ UNCHANGED <<accountStore, ownerCache, login, leaked>>
    BY <1>3 DEF BindInMemory, Answer
  <2>2. \A q \in Registers : register[q].pc # "key"
    BY DEF AccountInv, BoundAtOnce, BindInMemory
  <2> QED
    BY <1>1, <1>3, <2>1, <2>2, CallBinds
<1> QED
  BY <1>2, <1>3

(* The lookup: the key's owner is the answer, or the key is missing.       *)
LEMMA LookUpKeepsInv ==
    ASSUME AccountInv, NEW r \in Registers, LookUpKey(r) PROVE AccountInv'
<1> DEFINE k == register[r].key
<1>1. /\ Typed /\ Bounded /\ k \in AccountKeys /\ keyOwner[k] \in User
      /\ register[r].pc = "idle" /\ register[r].user \in User
      /\ UNCHANGED <<accountStore, users, keyOwner, ownerCache, login, leaked>>
      /\ accountStore = "postgres"
  BY DEF AccountInv, Typed, Registering, LookUpKey
<1>2. PICK pc \in {"missing", "answered"}, u \in User :
         /\ register' = [register EXCEPT ![r].pc = pc, ![r].user = u]
         /\ pc = "answered" => u # NoUser /\ keyOwner[k] = u
  <2>1. CASE keyOwner[k] # NoUser
    BY <1>1, <2>1 DEF LookUpKey, Answer
  <2>2. CASE keyOwner[k] = NoUser
    <3>1. register' = [register EXCEPT ![r].pc = "missing", ![r].user = register[r].user]
      BY <1>1, <2>2 DEF LookUpKey, Typed, Registering
    <3> QED
      BY <1>1, <3>1
  <2> QED
    BY <2>1, <2>2
<1>3. InTransaction' \subseteq InTransaction
  BY <1>1, <1>2 DEF InTransaction, Typed, Registering
<1>4. Bounded'
  BY <1>1, <1>3, NoMoreConnections
<1> QED
  BY <1>1, <1>2, <1>4, CallMoves

(* The steps of a transaction that only move on.                           *)
LEMMA TransactionKeepsInv ==
    ASSUME AccountInv, NEW r \in Registers,
           BeginBind(r) \/ InsertUser(r) \/ (InsertKey(r) /\ keyOwner[register[r].key] = NoUser)
    PROVE  AccountInv'
<1>1. /\ Typed /\ Bounded /\ register[r].user \in User
      /\ UNCHANGED <<accountStore, users, keyOwner, ownerCache, login, leaked>>
  BY DEF AccountInv, Typed, Registering, BeginBind, InsertUser, InsertKey
<1>2. accountStore # "memory" /\ register[r].pc \in {"missing", "begun", "user"}
  BY DEF AccountInv, BoundAtOnce, BeginBind, InsertUser, InsertKey
<1>3. CASE BeginBind(r)
  <2>1. register' = [register EXCEPT ![r].pc = "begun", ![r].user = register[r].user]
    BY <1>1, <1>3 DEF BeginBind, Typed, Registering
  <2>2. InTransaction' \subseteq InTransaction \union {r}
    BY <1>1, <2>1 DEF InTransaction, Typed, Registering
  <2>3. /\ IsFiniteSet(InTransaction) /\ IsFiniteSet(InTransaction \union {r})
        /\ Cardinality(InTransaction \union {r}) <= Cardinality(InTransaction) + 1
        /\ Cardinality(InTransaction') <= Cardinality(InTransaction \union {r})
    <3>1. IsFiniteSet(InTransaction)
      BY <1>1, Finite
    <3>2. /\ IsFiniteSet(InTransaction \union {r})
          /\ Cardinality(InTransaction \union {r}) =
                IF r \in InTransaction THEN Cardinality(InTransaction)
                ELSE Cardinality(InTransaction) + 1
      BY <3>1, FS_AddElement
    <3>3. Cardinality(InTransaction') <= Cardinality(InTransaction \union {r})
      BY <2>2, <3>2, FS_Subset
    <3>4. Cardinality(InTransaction) \in Nat
      BY <3>1, FS_CardinalityType
    <3> QED
      BY <3>1, <3>2, <3>3, <3>4
  <2>4. IsFiniteSet(InTransaction') /\ IsFiniteSet(leaked)
    BY <1>1, <2>2, <2>3, FS_Subset, Finite
  <2>5. /\ Cardinality(InTransaction) \in Nat /\ Cardinality(InTransaction') \in Nat
        /\ Cardinality(leaked) \in Nat /\ Connections \in Nat
        /\ Cardinality(InTransaction \union {r}) \in Nat
    BY <2>3, <2>4, FS_CardinalityType, AccountAssumption
  <2>6. Cardinality(InTransaction) + Cardinality(leaked) < Connections /\ leaked' = leaked
    BY <1>1, <1>3 DEF BeginBind, ConnectionFree
  <2>7. Bounded'
    BY <2>3, <2>5, <2>6 DEF Bounded
  <2> QED
    BY <1>1, <1>2, <2>1, <2>7, CallMoves
<1>4. CASE InsertUser(r)
  <2>1. register' = [register EXCEPT ![r].pc = "user", ![r].user = register[r].user]
    BY <1>1, <1>4 DEF InsertUser, Typed, Registering
  <2>2. InTransaction' \subseteq InTransaction
    BY <1>1, <1>4, <2>1 DEF InTransaction, Typed, Registering, InsertUser
  <2>3. Bounded'
    BY <1>1, <2>2, NoMoreConnections
  <2> QED
    BY <1>1, <1>2, <2>1, <2>3, CallMoves
<1>5. CASE InsertKey(r) /\ keyOwner[register[r].key] = NoUser
  <2>1. /\ register' = [register EXCEPT ![r].pc = "key", ![r].user = register[r].user]
        /\ register[r].pc = "user"
    BY <1>1, <1>5 DEF InsertKey, Typed, Registering
  <2>2. \A q \in Registers : register[q].pc = "key" => register[q].key # register[r].key
    BY <1>5 DEF InsertKey
  <2>3. InTransaction' \subseteq InTransaction
    BY <1>1, <2>1 DEF InTransaction, Typed, Registering
  <2>4. Bounded'
    BY <1>1, <2>3, NoMoreConnections
  <2> QED
    BY <1>1, <1>2, <1>5, <2>1, <2>2, <2>4, CallMoves
<1> QED
  BY <1>3, <1>4, <1>5

(* The insert that another call's key refuses: the transaction is given    *)
(* up, its connection is not given back.                                   *)
LEMMA RefusalKeepsInv ==
    ASSUME AccountInv, NEW r \in Registers, InsertKey(r), keyOwner[register[r].key] # NoUser
    PROVE  AccountInv'
<1> DEFINE new == [register[r] EXCEPT !.pc = "failed"]
<1>1. /\ Typed /\ Bounded /\ register \in [Registers -> Registering]
      /\ register[r] \in Registering /\ register[r].pc = "user"
      /\ UNCHANGED <<accountStore, users, keyOwner, ownerCache, login>>
      /\ leaked' = leaked \union {r}
      /\ keyOwner[register[r].key] # NoUser
  BY DEF AccountInv, Typed, InsertKey
<1>2. /\ new \in Registering /\ new.pc = "failed" /\ new.key = register[r].key
  BY <1>1 DEF Registering
<1>3. register' = [register EXCEPT ![r] = new]
  BY <1>1 DEF InsertKey
<1> HIDE DEF new
<1>4. register'[r] = new /\ \A q \in Registers : q # r => register'[q] = register[q]
  BY <1>1, <1>3
<1>5. \A q \in Registers : register'[q].key = register[q].key
  BY <1>2, <1>4
<1>6. Typed'
  <2>1. register' \in [Registers -> Registering]
    BY <1>1, <1>2, <1>3
  <2>2. leaked' \subseteq {q \in Registers : register'[q].pc = "failed"}
    BY ONLY <1>1, <1>2, <1>4 DEF Typed
  <2> QED
    BY ONLY <1>1, <2>1, <2>2 DEF Typed
<1>7. Bounded'
  <2>1. InTransaction' = InTransaction \ {r} /\ r \in InTransaction
    BY <1>1, <1>2, <1>4 DEF InTransaction
  <2>2. IsFiniteSet(InTransaction) /\ IsFiniteSet(leaked)
    BY <1>1, Finite
  <2>3. /\ Cardinality(InTransaction') = Cardinality(InTransaction) - 1
    BY <2>1, <2>2, FS_RemoveElement
  <2>4. Cardinality(leaked') <= Cardinality(leaked) + 1
    <3>1. Cardinality(leaked \union {r}) =
             IF r \in leaked THEN Cardinality(leaked) ELSE Cardinality(leaked) + 1
      BY <2>2, FS_AddElement
    <3>2. Cardinality(leaked) \in Nat
      BY <2>2, FS_CardinalityType
    <3> QED
      BY <1>1, <3>1, <3>2
  <2>5. /\ Cardinality(InTransaction) \in Nat /\ Cardinality(leaked) \in Nat
        /\ Cardinality(leaked') \in Nat /\ Connections \in Nat
    BY <1>1, <2>2, FS_CardinalityType, FS_AddElement, AccountAssumption
  <2> QED
    BY <1>1, <2>3, <2>4, <2>5 DEF Bounded
<1>8. BoundByAnswered'
  BY <1>1, <1>4, <1>5 DEF AccountInv, Typed, User, BoundByAnswered
<1>9. AnsweredOwns'
  BY <1>1, <1>2, <1>4, <1>5 DEF AccountInv, AnsweredOwns
<1>10. UserOwns'
  BY <1>1, <1>5 DEF AccountInv, Typed, UserOwns
<1>11. InsertedIsFree'
  <2>1. ASSUME NEW q \in Registers, register'[q].pc = "key"
        PROVE  /\ keyOwner[register[q].key] = NoUser
               /\ \A o \in Registers :
                     register'[o].pc = "key" /\ register[o].key = register[q].key => o = q
    BY <1>2, <1>4, <2>1 DEF AccountInv, InsertedIsFree
  <2> QED
    BY <1>1, <1>5, <2>1 DEF InsertedIsFree
<1>12. LeakedLost'
  BY <1>1, <1>5 DEF AccountInv, Typed, LeakedLost
<1>13. FillIsOwner' /\ CachedOwnerIsOwner'
  BY <1>1 DEF AccountInv, FillIsOwner, CachedOwnerIsOwner
<1>14. BoundAtOnce'
  BY <1>1 DEF AccountInv, BoundAtOnce
<1> QED
  BY <1>6, <1>7, <1>8, <1>9, <1>10, <1>11, <1>12, <1>13, <1>14 DEF AccountInv

(* The commit binds the key, which is still free.                          *)
LEMMA CommitKeepsInv ==
    ASSUME AccountInv, NEW r \in Registers, CommitBind(r) PROVE AccountInv'
<1>1. register[r].pc = "key"
  BY DEF CommitBind
<1>2. /\ keyOwner[register[r].key] = NoUser
      /\ \A q \in Registers :
            register[q].pc = "key" /\ register[q].key = register[r].key => q = r
  BY <1>1 DEF AccountInv, InsertedIsFree
<1>3. register' = [register EXCEPT ![r].pc = "answered", ![r].user = r]
  BY DEF CommitBind, Answer
<1> QED
  BY <1>1, <1>2, <1>3, CallBinds DEF CommitBind

-----------------------------------------------------------------------------
(* Reading a key's owner and caching it.                                   *)
LEMMA LoginKeepsInv ==
    ASSUME AccountInv, NEW l \in Logins,
           FillOwner(l) \/ \E k \in AccountKeys : ReadOwner(l, k)
    PROVE  AccountInv'
<1>1. Typed /\ Bounded /\ login[l].key \in AccountKeys /\ login[l].user \in User
  BY DEF AccountInv, Typed
<1>2. CASE FillOwner(l)
  <2>1. /\ UNCHANGED <<accountStore, users, keyOwner, register, leaked>>
        /\ login[l].user # NoUser /\ keyOwner[login[l].key] = login[l].user
    BY <1>2 DEF FillOwner, AccountInv, FillIsOwner
  <2>2. Typed' /\ Bounded'
    BY <1>1, <1>2, <2>1 DEF FillOwner, Typed, Bounded, InTransaction, User
  <2>3. CachedOwnerIsOwner'
    BY <1>1, <1>2, <2>1 DEF FillOwner, AccountInv, Typed, CachedOwnerIsOwner
  <2>4. FillIsOwner'
    BY <1>1, <1>2, <2>1 DEF FillOwner, AccountInv, Typed, FillIsOwner
  <2> QED
    BY <2>1, <2>2, <2>3, <2>4
       DEF AccountInv, BoundByAnswered, AnsweredOwns, UserOwns, InsertedIsFree, BoundAtOnce,
           LeakedLost
<1>3. ASSUME NEW k \in AccountKeys, ReadOwner(l, k) PROVE AccountInv'
  <2>1. /\ UNCHANGED <<accountStore, users, keyOwner, ownerCache, register, leaked>>
        /\ keyOwner[k] # NoUser /\ keyOwner[k] \in User
        /\ login' = [login EXCEPT ![l] = [pc |-> "fill", key |-> k, user |-> keyOwner[k]]]
    BY <1>1, <1>3 DEF ReadOwner, Typed
  <2>2. Typed' /\ Bounded'
    BY <1>1, <2>1 DEF Typed, Bounded, InTransaction
  <2>3. FillIsOwner'
    BY <1>1, <2>1 DEF AccountInv, Typed, FillIsOwner
  <2> QED
    BY <2>1, <2>2, <2>3
       DEF AccountInv, BoundByAnswered, AnsweredOwns, UserOwns, InsertedIsFree, BoundAtOnce,
           LeakedLost, CachedOwnerIsOwner
<1> QED
  BY <1>2, <1>3

(* A restart loses calls, the cache and the pool, and nothing that is      *)
(* committed.                                                              *)
LEMMA RestartKeepsInv ==
    ASSUME AccountInv, Restart PROVE AccountInv'
<1>1. /\ Typed /\ Bounded /\ register \in [Registers -> Registering]
      /\ UNCHANGED <<accountStore, users, keyOwner>> /\ leaked' = {}
      /\ accountStore = "postgres"
      /\ ownerCache' = [k \in AccountKeys |-> NoUser]
  BY DEF AccountInv, Typed, Restart
<1>2. \A r \in Registers :
         /\ register[r].pc \in {"idle", "answered", "failed"} => register'[r] = register[r]
         /\ register[r].pc \notin {"idle", "answered", "failed"} =>
               register'[r] = [register[r] EXCEPT !.pc = "lost"]
  BY DEF Restart
<1>3. \A r \in Registers :
         /\ register'[r] \in Registering
         /\ register'[r].key = register[r].key /\ register'[r].user = register[r].user
         /\ register'[r].pc \in {"idle", "answered", "failed", "lost"}
         /\ register'[r].pc = "answered" <=> register[r].pc = "answered"
  <2> TAKE r \in Registers
  <2>1. register[r] \in Registering
    BY <1>1
  <2>2. CASE register[r].pc \in {"idle", "answered", "failed"}
    BY <1>2, <2>1, <2>2
  <2>3. CASE register[r].pc \notin {"idle", "answered", "failed"}
    BY <1>2, <2>1, <2>3 DEF Registering
  <2> QED
    BY <2>2, <2>3
<1>4. register' \in [Registers -> Registering]
  BY <1>3 DEF Restart
<1>5. login' \in [Logins -> [pc: {"idle", "fill"}, key: AccountKeys, user: User]]
      /\ \A l \in Logins : login'[l].pc = "idle"
  <2> DEFINE Slot == [pc: {"idle", "fill"}, key: AccountKeys, user: User]
             cleared(l) == [login[l] EXCEPT !.pc = "idle", !.user = NoUser]
  <2>1. login \in [Logins -> Slot]
    BY <1>1 DEF Typed
  <2>2. login' = [l \in Logins |-> cleared(l)]
    BY DEF Restart
  <2>3. \A l \in Logins : cleared(l) \in Slot /\ cleared(l).pc = "idle"
    BY <2>1 DEF User
  <2> HIDE DEF cleared, Slot
  <2>4. login' \in [Logins -> Slot] /\ \A l \in Logins : login'[l].pc = "idle"
    BY <2>2, <2>3
  <2> QED
    BY <2>4 DEF Slot
<1>6. Typed'
  BY ONLY <1>1, <1>4, <1>5 DEF Typed, User
<1>7. InTransaction' = {}
  BY <1>3 DEF InTransaction
<1>8. Bounded'
  BY <1>1, <1>7, FS_EmptySet, AccountAssumption DEF Bounded
<1>9. BoundByAnswered' /\ AnsweredOwns' /\ UserOwns'
  <2>1. BoundByAnswered'
    BY <1>1, <1>3 DEF AccountInv, Typed, User, BoundByAnswered
  <2>2. AnsweredOwns'
    BY <1>1, <1>3 DEF AccountInv, AnsweredOwns
  <2>3. UserOwns'
    BY <1>1, <1>3 DEF AccountInv, Typed, UserOwns
  <2> QED
    BY <2>1, <2>2, <2>3
<1>10. InsertedIsFree' /\ FillIsOwner' /\ CachedOwnerIsOwner' /\ LeakedLost' /\ BoundAtOnce'
  BY <1>1, <1>3, <1>5 DEF InsertedIsFree, FillIsOwner, CachedOwnerIsOwner, LeakedLost, BoundAtOnce
<1> QED
  BY <1>6, <1>8, <1>9, <1>10 DEF AccountInv

(* Every step keeps the invariant.                                         *)
LEMMA AccountNextInv == AccountInv /\ [AccountNext]_accountVars => AccountInv'
<1> SUFFICES ASSUME AccountInv, [AccountNext]_accountVars PROVE AccountInv'
  OBVIOUS
<1>1. CASE UNCHANGED accountVars
  BY <1>1 DEF accountVars, AccountInv, Typed, Bounded, InTransaction, BoundByAnswered, AnsweredOwns,
              UserOwns, InsertedIsFree, BoundAtOnce, FillIsOwner, CachedOwnerIsOwner, LeakedLost
<1>2. ASSUME NEW r \in Registers, BindInMemory(r) \/ LookUpKey(r) PROVE AccountInv'
  BY <1>2, MemoryKeepsInv, LookUpKeepsInv
<1>3. ASSUME NEW r \in Registers,
             BeginBind(r) \/ InsertUser(r) \/ InsertKey(r) \/ CommitBind(r)
      PROVE  AccountInv'
  BY <1>3, TransactionKeepsInv, RefusalKeepsInv, CommitKeepsInv
<1>4. ASSUME NEW l \in Logins, FillOwner(l) \/ \E k \in AccountKeys : ReadOwner(l, k)
      PROVE  AccountInv'
  BY <1>4, LoginKeepsInv
<1> QED
  BY <1>1, <1>2, <1>3, <1>4, RestartKeepsInv DEF AccountNext

(* The inductive invariant holds of every behaviour.                       *)
THEOREM AccountInvariant == AccountSpec => []AccountInv
  BY AccountInitInv, AccountNextInv, PTL DEF AccountSpec

(* The stores, the calls and the pool keep their types; never are more     *)
(* connections taken than the pool has (account/postgres/model.go dbBind). *)
THEOREM AccountTypeCorrect == AccountSpec => []AccountTypeOK
<1>1. AccountInv => AccountTypeOK
  BY DEF AccountInv, Typed, Bounded, AccountTypeOK
<1> QED
  BY <1>1, AccountInvariant, PTL

(* Whatever registers at the same time, an answer names the user the key   *)
(* stays bound to (account/server.go Register).                            *)
THEOREM AnsweredAlwaysBound == AccountSpec => []AnsweredIsBound
<1>1. AccountInv => AnsweredIsBound
  <2> SUFFICES ASSUME AccountInv, NEW r \in Registers, register[r].pc = "answered"
               PROVE  /\ register[r].user # NoUser
                      /\ OwnerOf(register[r].key) = register[r].user
    BY DEF AnsweredIsBound
  <2>1. register[r].key \in AccountKeys
    BY DEF AccountInv, Typed, Registering
  <2>2. register[r].user # NoUser /\ keyOwner[register[r].key] = register[r].user
    BY DEF AccountInv, AnsweredOwns
  <2> QED
    BY <2>1, <2>2 DEF AccountInv, CachedOwnerIsOwner, OwnerOf
<1> QED
  BY <1>1, AccountInvariant, PTL

(* A user with a row has one key, and a key a user with a row.             *)
THEOREM OneKeyPerUserAlways == AccountSpec => []OneKeyPerUser
<1>1. ASSUME AccountInv, NEW u \in users PROVE Cardinality(GetPubKeys(u)) = 1
  <2>1. u \in Registers /\ register[u].key \in AccountKeys /\ u # NoUser
    BY <1>1, AccountAssumption DEF AccountInv, Typed, Registering
  <2>2. GetPubKeys(u) = {register[u].key}
    BY <1>1, <2>1 DEF AccountInv, UserOwns, BoundByAnswered, GetPubKeys
  <2> QED
    BY <2>2, FS_Singleton
<1>2. AccountInv => OneKeyPerUser
  BY <1>1 DEF AccountInv, BoundByAnswered, OneKeyPerUser
<1> QED
  BY <1>2, AccountInvariant, PTL

(* The cached owner of a key, which never expires, is its owner            *)
(* (account/cache/store.go GetUserId).                                     *)
THEOREM CachedOwnerAlwaysOwner == AccountSpec => []CachedOwnerIsOwner
<1>1. AccountInv => CachedOwnerIsOwner
  BY DEF AccountInv
<1> QED
  BY <1>1, AccountInvariant, PTL

(* Whoever loses a connection has lost its key to a call that has not.     *)
THEOREM LeaksAlwaysLostRaces == AccountSpec => []LeaksAreLostRaces
<1>1. AccountInv => LeaksAreLostRaces
  <2> SUFFICES ASSUME AccountInv, NEW r \in leaked
               PROVE  keyOwner[register[r].key] \in Registers \ (leaked \union {r})
    BY DEF LeaksAreLostRaces
  <2>1. /\ r \in Registers /\ register[r].pc = "failed" /\ register[r].key \in AccountKeys
        /\ \A q \in leaked : register[q].pc = "failed"
    BY DEF AccountInv, Typed, Registering
  <2>2. keyOwner[register[r].key] \in Registers
    BY <2>1 DEF AccountInv, Typed, User, LeakedLost
  <2>3. register[keyOwner[register[r].key]].pc = "answered"
    BY <2>1 DEF AccountInv, LeakedLost, BoundByAnswered
  <2> QED
    BY <2>1, <2>2, <2>3
<1> QED
  BY <1>1, AccountInvariant, PTL

-----------------------------------------------------------------------------
(* Accounts implements KeyBindings.                                        *)
LEMMA OwnersAreShown ==
    AccountInv => [k \in AccountKeys |-> OwnerOf(k)] = keyOwner
BY DEF AccountInv, Typed, CachedOwnerIsOwner, OwnerOf

LEMMA OwnersAreShownNext ==
    AccountInv' => [k \in AccountKeys |-> OwnerOf(k)]' = keyOwner'
<1>1. (AccountInv => [k \in AccountKeys |-> OwnerOf(k)] = keyOwner)'
  BY OwnersAreShown, PTL
<1> QED
  BY <1>1

(* The statements of a Register that take effect at once: the one that     *)
(* finds the owner, and the commit.                                        *)
LEMMA AccountStepRefines ==
    AccountInv /\ AccountInv' /\ [AccountNext]_accountVars
        => [Bindings!Next]_(Bindings!bindingVars)
<1> SUFFICES ASSUME AccountInv, AccountInv', [AccountNext]_accountVars
             PROVE  [Bindings!Next]_(Bindings!bindingVars)
  OBVIOUS
<1> DEFINE shown == [k \in AccountKeys |-> OwnerOf(k)]
           keysOf == [r \in Registers |-> register[r].key]
           answers == [r \in Registers |-> IF register[r].pc = "answered" THEN register[r].user ELSE NoUser]
<1>1. shown = keyOwner /\ shown' = keyOwner'
  BY OwnersAreShown, OwnersAreShownNext
<1>2. /\ register \in [Registers -> Registering] /\ keyOwner \in [AccountKeys -> User]
      /\ users \subseteq Registers
  BY DEF AccountInv, Typed
<1>3. ASSUME NEW r \in Registers, register[r].pc \notin {"answered"},
             NEW u \in Registers, keyOwner[register[r].key] = u,
             Answer(r, u), UNCHANGED <<keyOwner, users>>
      PROVE  Bindings!Find(r)
  <2>1. register[r].key \in AccountKeys /\ u # NoUser
    BY <1>2, AccountAssumption DEF Registering
  <2>2. keysOf' = keysOf /\ keysOf[r] = register[r].key
    BY <1>2, <1>3 DEF Answer, Registering
  <2>3. answers[r] = NoUser /\ answers' = [answers EXCEPT ![r] = u]
    BY <1>2, <1>3 DEF Answer, Registering
  <2> HIDE DEF shown, keysOf, answers
  <2>4. /\ answers[r] = NoUser /\ shown[keysOf[r]] # NoUser
        /\ answers' = [answers EXCEPT ![r] = shown[keysOf[r]]]
        /\ UNCHANGED <<shown, users, keysOf>>
    BY <1>1, <1>3, <2>1, <2>2, <2>3
  <2> QED
    BY <2>4 DEF Bindings!Find, shown, keysOf, answers
<1>4. ASSUME NEW r \in Registers, register[r].pc \notin {"answered"},
             keyOwner[register[r].key] = NoUser,
             Answer(r, r), keyOwner' = [keyOwner EXCEPT ![register[r].key] = r],
             users' = users \union {r}
      PROVE  Bindings!Create(r)
  <2>1. register[r].key \in AccountKeys /\ r # NoUser
    BY <1>2, AccountAssumption DEF Registering
  <2>2. keysOf' = keysOf /\ keysOf[r] = register[r].key
    BY <1>2, <1>4 DEF Answer, Registering
  <2>3. answers[r] = NoUser /\ answers' = [answers EXCEPT ![r] = r]
    BY <1>2, <1>4 DEF Answer, Registering
  <2>4. r \notin users
    BY <1>4, <2>1 DEF AccountInv, UserOwns
  <2> HIDE DEF shown, keysOf, answers
  <2>5. /\ answers[r] = NoUser /\ shown[keysOf[r]] = NoUser /\ r \notin users
        /\ shown' = [shown EXCEPT ![keysOf[r]] = r] /\ users' = users \union {r}
        /\ answers' = [answers EXCEPT ![r] = r] /\ keysOf' = keysOf
    BY <1>1, <1>4, <2>1, <2>2, <2>3, <2>4
  <2> QED
    BY <2>5 DEF Bindings!Create, shown, keysOf, answers
<1>5. ASSUME NEW r \in Registers,
             NEW pc \in {"missing", "begun", "user", "key", "failed"},
             register[r].pc # "answered",
             register' = [register EXCEPT ![r].pc = pc], UNCHANGED <<keyOwner, users>>
      PROVE  UNCHANGED Bindings!bindingVars
  <2>1. keysOf' = keysOf /\ answers' = answers
    BY <1>2, <1>5 DEF Registering
  <2> QED
    BY <1>1, <1>5, <2>1 DEF Bindings!bindingVars
<1>6. ASSUME UNCHANGED <<register, keyOwner, users>>
      PROVE  UNCHANGED Bindings!bindingVars
  <2>1. keysOf' = keysOf /\ answers' = answers
    BY <1>6
  <2> QED
    BY <1>1, <1>6, <2>1 DEF Bindings!bindingVars
<1>7. ASSUME NEW r \in Registers, BindInMemory(r)
      PROVE  Bindings!Find(r) \/ Bindings!Create(r)
  <2>1. keyOwner[register[r].key] \in User
    BY <1>2 DEF Registering
  <2>2. CASE keyOwner[register[r].key] # NoUser
    BY <1>3, <1>7, <2>1, <2>2 DEF BindInMemory, User
  <2>3. CASE keyOwner[register[r].key] = NoUser
    BY <1>4, <1>7, <2>3 DEF BindInMemory
  <2> QED
    BY <2>2, <2>3
<1>8. ASSUME NEW r \in Registers, LookUpKey(r)
      PROVE  Bindings!Find(r) \/ UNCHANGED Bindings!bindingVars
  <2>1. keyOwner[register[r].key] \in User
    BY <1>2 DEF Registering
  <2>2. CASE keyOwner[register[r].key] # NoUser
    BY <1>3, <1>8, <2>1, <2>2 DEF LookUpKey, User
  <2>3. CASE keyOwner[register[r].key] = NoUser
    BY <1>5, <1>8, <2>3 DEF LookUpKey
  <2> QED
    BY <2>2, <2>3
<1>9. ASSUME NEW r \in Registers, BeginBind(r) \/ InsertUser(r) \/ InsertKey(r)
      PROVE  UNCHANGED Bindings!bindingVars
  BY <1>5, <1>9 DEF BeginBind, InsertUser, InsertKey
<1>10. ASSUME NEW r \in Registers, CommitBind(r)
       PROVE  Bindings!Create(r)
  <2>1. keyOwner[register[r].key] = NoUser
    BY <1>10 DEF CommitBind, AccountInv, InsertedIsFree
  <2> QED
    BY <1>4, <1>10, <2>1 DEF CommitBind
<1>11. ASSUME NEW l \in Logins, FillOwner(l) \/ \E k \in AccountKeys : ReadOwner(l, k)
       PROVE  UNCHANGED Bindings!bindingVars
  BY <1>6, <1>11 DEF FillOwner, ReadOwner
<1>12. ASSUME Restart PROVE UNCHANGED Bindings!bindingVars
  <2>1. /\ register' = [r \in Registers |->
                          IF register[r].pc \in {"idle", "answered", "failed"} THEN register[r]
                          ELSE [register[r] EXCEPT !.pc = "lost"]]
        /\ UNCHANGED <<keyOwner, users>>
    BY <1>12 DEF Restart
  <2>2. keysOf' = keysOf /\ answers' = answers
    BY <1>2, <2>1 DEF Registering
  <2> QED
    BY <1>1, <2>1, <2>2 DEF Bindings!bindingVars
<1>13. CASE UNCHANGED accountVars
  BY <1>6, <1>13 DEF accountVars
<1> QED
  BY <1>7, <1>8, <1>9, <1>10, <1>11, <1>12, <1>13 DEF AccountNext, Bindings!Next

(* Register is atomic, and Login agrees with it, although it takes five    *)
(* statements, reads through a cache and may be stopped anywhere           *)
(* (account/server.go Register, Login; account/postgres/model.go dbBind).  *)
THEOREM AccountsImplementKeyBindings == AccountSpec => ImplementsKeyBindings
<1>1. AccountInit => Bindings!Init
  <2> SUFFICES ASSUME AccountInit PROVE Bindings!Init
    OBVIOUS
  <2>1. \A r \in Registers : register[r].key \in AccountKeys /\ register[r].pc = "idle"
    BY DEF AccountInit
  <2>2. [k \in AccountKeys |-> OwnerOf(k)] = [k \in AccountKeys |-> NoUser] /\ users = {}
    BY DEF AccountInit, OwnerOf
  <2>3. /\ [r \in Registers |-> register[r].key] \in [Registers -> AccountKeys]
        /\ [r \in Registers |-> IF register[r].pc = "answered" THEN register[r].user ELSE NoUser]
             = [r \in Registers |-> NoUser]
    BY <2>1
  <2> QED
    BY <2>2, <2>3 DEF Bindings!Init
<1> QED
  BY <1>1, AccountInvariant, AccountStepRefines, PTL
  DEF AccountSpec, ImplementsKeyBindings, Bindings!Spec

-----------------------------------------------------------------------------
(***************************************************************************)
(* Profiles, for any number of users, X accounts and requests: what the    *)
(* cache holds is the row, unless a read was torn or a fill came late, and *)
(* clients know the profile once everything is delivered.                  *)
(***************************************************************************)

(* What an RPC holds in each of its steps.                                 *)
LinkOf(r) ==
    /\ r.user \in People
    /\ r.x \in XAccounts
    /\ r.user \in Range(r.audience)

ShapeOf(r) ==
    /\ r.pc \in {"check", "upsert"} => LinkOf(r)
    /\ r.pc = "remove" => r.user \in People
    /\ r.pc \in {"remove", "tell"} => r.audience # <<>>
    /\ r.pc \in {"readX", "fill"} =>
          r.reads \in People /\ (r.audience # <<>> => Head(r.audience) = r.reads)

CallShapes == \A c \in ProfileCalls : ShapeOf(request[c])

(* A read that no write overtook has read what the store has.  Of a user   *)
(* without a name, no read finds a profile.                                *)
ReadOf(r) ==
    /\ r.pc = "readX" => /\ name[r.reads] # 0
                         /\ r.seen.name # 0
                         /\ ~r.torn => r.seen.name = name[r.reads]
    /\ r.pc = "fill" => /\ name[r.reads] = 0 => r.seen = NotFound
                        /\ ~r.torn => r.seen = ProfileOf(r.reads)

UntornReadsAreCurrent == \A c \in ProfileCalls : ReadOf(request[c])

(* Nobody has heard of a user without a name.                              *)
NamelessAreUnknown ==
    \A u \in People :
        name[u] = 0 =>
            /\ cached[u] \in {Miss, NotFound}
            /\ identity[u] = NotFound
            /\ \A e \in told : e.user # u

NewsIsCurrent == \A e \in told : ~e.old => e.profile = ProfileOf(e.user)

(* Something is on its way that will tell of u.                            *)
Pending(u) ==
    \/ \E e \in told : e.user = u
    \/ \E c \in ProfileCalls :
          /\ request[c].pc \in {"remove", "tell", "readX", "fill"}
          /\ u \in Range(request[c].audience)

ChangesAreTold ==
    \A u \in People : identity[u] = ProfileOf(u) \/ misled[u] \/ Pending(u)

ProfileInv ==
    /\ ProfileTypeOK
    /\ CallShapes
    /\ UntornReadsAreCurrent
    /\ NamelessAreUnknown
    /\ OnlyDoubtfulEntriesAreStale
    /\ NewsIsCurrent
    /\ ChangesAreTold

-----------------------------------------------------------------------------
(* The X account of a user, while no user has two.                         *)
XOfIsTheAccount ==
    \A u \in People : /\ XOf(u) \in XAccounts \union {NoX}
                      /\ \A x \in XAccounts : xOwner[x] = u <=> XOf(u) = x

LEMMA XOfIs == ProfileTypeOK => XOfIsTheAccount
<1> SUFFICES ASSUME ProfileTypeOK, NEW u \in People
             PROVE  /\ XOf(u) \in XAccounts \union {NoX}
                    /\ \A x \in XAccounts : xOwner[x] = u <=> XOf(u) = x
  BY DEF XOfIsTheAccount
<1>0. u # Nobody /\ \A x, y \in XAccounts : xOwner[x] = xOwner[y] /\ xOwner[x] # Nobody => x = y
  BY ProfileAssumption DEF ProfileTypeOK
<1>1. CASE \E x \in XAccounts : xOwner[x] = u
  <2>1. XOf(u) = CHOOSE x \in XAccounts : xOwner[x] = u
    BY <1>1 DEF XOf
  <2>2. XOf(u) \in XAccounts /\ xOwner[XOf(u)] = u
    BY <1>1, <2>1
  <2> QED
    BY <1>0, <2>2
<1>2. CASE ~\E x \in XAccounts : xOwner[x] = u
  <2>1. XOf(u) = NoX
    BY <1>2 DEF XOf
  <2> QED
    BY <1>2, <2>1, ProfileAssumption
<1> QED
  BY <1>1, <1>2

LEMMA XOfIsPrimed == ProfileTypeOK' => XOfIsTheAccount'
<1>1. (ProfileTypeOK => XOfIsTheAccount)'
  BY XOfIs, PTL
<1> QED
  BY <1>1

LEMMA ProfileOfType ==
    ASSUME ProfileTypeOK, NEW u \in People
    PROVE  ProfileOf(u) \in Profile
  BY XOfIs DEF XOfIsTheAccount, ProfileOf, Profile, NotFound, ProfileTypeOK, Names

(* The profile of a user whose name and X accounts a step leaves alone.    *)
LEMMA ProfileOfUnchanged ==
    ASSUME ProfileTypeOK, ProfileTypeOK', NEW u \in People, name'[u] = name[u],
           \A x \in XAccounts : xOwner[x] = u <=> xOwner'[x] = u
    PROVE  ProfileOf(u)' = ProfileOf(u)
<1>1. XOf(u) \in XAccounts \union {NoX} /\ \A x \in XAccounts : xOwner[x] = u <=> XOf(u) = x
  BY XOfIs DEF XOfIsTheAccount
<1>2. XOf(u)' \in XAccounts \union {NoX} /\ \A x \in XAccounts : xOwner'[x] = u <=> XOf(u)' = x
  BY XOfIsPrimed DEF XOfIsTheAccount
<1>3. XOf(u)' = XOf(u)
  BY <1>1, <1>2
<1> QED
  BY <1>3 DEF ProfileOf

-----------------------------------------------------------------------------
(* What a write does to the reads and the news of others.                  *)
Keeps(k) ==
    /\ request'[k].pc = request[k].pc
    /\ request'[k].user = request[k].user
    /\ request'[k].x = request[k].x
    /\ request'[k].audience = request[k].audience
    /\ request'[k].reads = request[k].reads
    /\ request'[k].seen = request[k].seen

LEMMA TornCall ==
    ASSUME NEW q \in Request, NEW b \in BOOLEAN, NEW t, t = [q EXCEPT !.torn = b]
    PROVE  /\ t \in Request
           /\ t.pc = q.pc /\ t.user = q.user /\ t.x = q.x /\ t.audience = q.audience
           /\ t.reads = q.reads /\ t.seen = q.seen /\ t.torn = b
  BY DEF Request

LEMMA AgedNews ==
    ASSUME NEW f \in Identity, NEW b \in BOOLEAN, NEW e, e = [f EXCEPT !.old = b]
    PROVE  e \in Identity /\ e.user = f.user /\ e.profile = f.profile /\ e.old = b
  BY DEF Identity

LEMMA WrittenCalls ==
    ASSUME ProfileTypeOK, NEW c \in ProfileCalls, NEW U, NEW r \in Request, Written(c, U, r)
    PROVE  /\ request' \in [ProfileCalls -> Request]
           /\ request'[c] = r
           /\ \A k \in ProfileCalls \ {c} :
                 Keeps(k) /\ (~request'[k].torn => ~request[k].torn /\ request[k].reads \notin U)
<1>1. request' = [k \in ProfileCalls |->
                      IF k = c THEN r
                      ELSE [request[k] EXCEPT !.torn = @ \/ request[k].reads \in U]]
  BY Zenon DEF Written
<1>2. ASSUME NEW k \in ProfileCalls \ {c}
      PROVE  /\ request'[k] \in Request
             /\ Keeps(k)
             /\ request'[k].torn = (request[k].torn \/ request[k].reads \in U)
  <2> DEFINE b == request[k].torn \/ request[k].reads \in U
  <2>1. request[k] \in Request /\ b \in BOOLEAN
    BY DEF ProfileTypeOK
  <2>2. request'[k] = [request[k] EXCEPT !.torn = b]
    BY <1>1, Zenon
  <2> HIDE DEF b
  <2>3. /\ request'[k] \in Request
        /\ Keeps(k)
        /\ request'[k].torn = b
    BY <2>1, <2>2, TornCall DEF Keeps
  <2> QED
    BY <2>3, Zenon DEF b
<1>3. request'[c] = r
  BY <1>1, Zenon
<1>4. request' \in [ProfileCalls -> Request]
  <2>1. request' = [k \in ProfileCalls |-> request'[k]]
    BY <1>1, Zenon
  <2>2. \A k \in ProfileCalls : request'[k] \in Request
    BY <1>2, <1>3, Zenon
  <2> QED
    BY <2>1, <2>2, Zenon
<1> QED
  BY <1>2, <1>3, <1>4, Zenon

LEMMA WrittenNews ==
    ASSUME ProfileTypeOK, NEW c \in ProfileCalls, NEW U, NEW r, Written(c, U, r)
    PROVE  /\ told' \subseteq Identity
           /\ \A e \in told' : \E f \in told : /\ e.user = f.user
                                               /\ e.profile = f.profile
                                               /\ ~e.old => ~f.old /\ f.user \notin U
           /\ \A f \in told : \E e \in told' : e.user = f.user
<1> DEFINE Aged(f) == [f EXCEPT !.old = @ \/ f.user \in U]
<1>1. told' = {Aged(f) : f \in told}
  BY Zenon DEF Written
<1>2. ASSUME NEW f \in told
      PROVE  /\ Aged(f) \in Identity /\ Aged(f).user = f.user /\ Aged(f).profile = f.profile
             /\ ~Aged(f).old => ~f.old /\ f.user \notin U
  <2> DEFINE b == f.old \/ f.user \in U
  <2>1. f \in Identity /\ b \in BOOLEAN
    BY DEF ProfileTypeOK
  <2>2. Aged(f) = [f EXCEPT !.old = b]
    BY Zenon
  <2> HIDE DEF b, Aged
  <2>3. Aged(f) \in Identity /\ Aged(f).user = f.user /\ Aged(f).profile = f.profile /\ Aged(f).old = b
    BY <2>1, <2>2, AgedNews, Zenon
  <2> QED
    BY <2>3, Zenon DEF b
<1> HIDE DEF Aged
<1>3. told' \subseteq Identity
  BY <1>1, <1>2, Zenon
<1>4. ASSUME NEW e \in told'
      PROVE  \E f \in told : e.user = f.user /\ e.profile = f.profile /\ (~e.old => ~f.old /\ f.user \notin U)
  <2>1. PICK f \in told : e = Aged(f)
    BY <1>1, Zenon
  <2> QED
    BY <2>1, <1>2, Zenon
<1>5. ASSUME NEW f \in told PROVE \E e \in told' : e.user = f.user
  BY <1>1, <1>2, Zenon
<1> QED
  BY <1>3, <1>4, <1>5, Zenon

-----------------------------------------------------------------------------
(* What the steps of a reader make of its call and of the news.            *)
LEMMA ReadingCall ==
    ASSUME ProfileTypeOK, NEW r \in Request, NEW u \in People
    PROVE  LET q == Reading(r, u)
           IN /\ q \in Request
              /\ q.pc \in {"readX", "fill"}
              /\ q.audience = r.audience
              /\ q.reads = u
              /\ q.pc = "readX" => q.seen.name = name[u] /\ name[u] # 0
              /\ q.pc = "fill" => q.seen = NotFound /\ name[u] = 0
<1>1. name[u] \in Names /\ Names \subseteq Nat
  BY ProfileAssumption DEF ProfileTypeOK, Names
<1>2. [name |-> name[u], x |-> NoX] \in Profile
  BY <1>1 DEF Profile
<1> QED
  BY <1>1, <1>2 DEF Reading, Request, NotFound

LEMMA NoRequestType ==
    /\ NoRequest \in Request
    /\ NoRequest.pc = "idle"
    /\ NoRequest.audience = <<>>
<1>1. NotFound \in Profile
  BY ProfileAssumption DEF NotFound, Profile, Names
<1> QED
  BY <1>1 DEF NoRequest, Request

LEMMA ChangedCall ==
    ASSUME NEW u \in People, NEW a \in Seq(People)
    PROVE  /\ Changed(u, a) \in Request
           /\ Changed(u, a).pc = "remove"
           /\ Changed(u, a).user = u
           /\ Changed(u, a).audience = a
  BY NoRequestType DEF Changed, NoRequest, Request

LEMMA HeadAndTail ==
    ASSUME NEW S, NEW s \in Seq(S), s # <<>>
    PROVE  /\ Head(s) \in S
           /\ Tail(s) \in Seq(S)
           /\ Len(s) \in Nat \ {0}
           /\ Len(Tail(s)) = Len(s) - 1
           /\ \A w \in Range(s) : w = Head(s) \/ w \in Range(Tail(s))
<1>1. Len(s) \in Nat \ {0} /\ Len(Tail(s)) = Len(s) - 1 /\ Tail(s) \in Seq(S) /\ Head(s) \in S
  OBVIOUS
<1>2. ASSUME NEW i \in DOMAIN s, i # 1 PROVE s[i] \in Range(Tail(s))
  <2>1. i - 1 \in DOMAIN Tail(s) /\ Tail(s)[i - 1] = s[i]
    BY <1>1, <1>2
  <2> QED
    BY <2>1 DEF Range
<1>3. 1 \in DOMAIN s => s[1] = Head(s)
  OBVIOUS
<1> QED
  BY <1>1, <1>2, <1>3 DEF Range

LEMMA AfterPublishingCall ==
    ASSUME NEW r \in Request, r.audience # <<>>
    PROVE  LET q == AfterPublishing(r)
           IN /\ q \in Request
              /\ q.pc \in {"idle", "tell"}
              /\ q.pc = "tell" => q.audience # <<>>
              /\ \A w \in Range(r.audience) :
                    w = Head(r.audience) \/ (q.pc = "tell" /\ w \in Range(q.audience))
<1> DEFINE a == r.audience
<1>1. a \in Seq(People) /\ a # <<>>
  BY DEF Request
<1> HIDE DEF a
<1>2. /\ Tail(a) \in Seq(People)
      /\ Len(a) \in Nat \ {0} /\ Len(Tail(a)) = Len(a) - 1
      /\ \A w \in Range(a) : w = Head(a) \/ w \in Range(Tail(a))
  BY <1>1, HeadAndTail
<1>3. CASE Len(a) <= 1
  <2>1. Len(Tail(a)) = 0
    BY <1>2, <1>3
  <2>2. \A i : i \notin DOMAIN Tail(a)
    <3>1. DOMAIN Tail(a) = 1..0
      BY <1>2, <2>1, LenProperties
    <3>2. 1..0 = {}
      OBVIOUS
    <3> QED
      BY <3>1, <3>2, Zenon
  <2>3. \A w : w \notin Range(Tail(a))
    BY <2>2, Zenon DEF Range
  <2> QED
    BY <1>2, <1>3, <2>3, NoRequestType DEF AfterPublishing, a
<1>4. CASE ~(Len(a) <= 1)
  <2>1. Tail(a) # <<>>
    BY <1>2, <1>4
  <2>2. AfterPublishing(r) = [NoRequest EXCEPT !.pc = "tell", !.audience = Tail(a)]
    BY <1>4 DEF AfterPublishing, a
  <2>3. /\ AfterPublishing(r) \in Request
        /\ AfterPublishing(r).pc = "tell"
        /\ AfterPublishing(r).audience = Tail(a)
    BY <1>2, <2>2, NoRequestType DEF NoRequest, Request
  <2> QED
    BY <1>2, <2>1, <2>3 DEF a
<1> QED
  BY <1>3, <1>4

LEMMA PublishedNews ==
    ASSUME ProfileTypeOK, NEW r \in Request, NEW p \in Profile, NEW old \in BOOLEAN, Publish(r, p, old)
    PROVE  /\ told' \subseteq Identity /\ told \subseteq told'
           /\ misled' \in [People -> BOOLEAN] /\ \A w \in People : misled[w] => misled'[w]
           /\ \A e \in told' \ told : /\ r.audience # <<>>
                                      /\ e.user = Head(r.audience) /\ e.profile = p
                                      /\ p # NotFound
                                      /\ ~e.old => ~old
           /\ r.audience # <<>> =>
                 \/ \E e \in told' : e.user = Head(r.audience)
                 \/ misled'[Head(r.audience)]
                 \/ ~old /\ p = NotFound
<1>1. CASE r.audience = <<>>
  BY <1>1 DEF Publish, ProfileTypeOK
<1>2. CASE r.audience # <<>>
  <2> DEFINE u == Head(r.audience)
  <2>1. u \in People
    BY <1>2, HeadAndTail DEF Request
  <2> HIDE DEF u
  <2>2. CASE p = NotFound
    <3> DEFINE b == misled[u] \/ old
    <3>1. told' = told /\ misled' = [misled EXCEPT ![u] = b]
      BY <1>2, <2>2, Zenon DEF Publish, u
    <3>2. misled \in [People -> BOOLEAN] /\ b \in BOOLEAN
      BY DEF ProfileTypeOK
    <3> HIDE DEF b
    <3>3. misled' \in [People -> BOOLEAN] /\ misled'[u] = b /\ \A w \in People \ {u} : misled'[w] = misled[w]
      BY <2>1, <3>1, <3>2
    <3>4. \A w \in People : misled[w] => misled'[w]
      BY <3>3, Zenon DEF b
    <3>5. misled'[u] \/ ~old
      BY <3>3, Zenon DEF b
    <3> QED
      BY <2>2, <3>1, <3>3, <3>4, <3>5, Zenon DEF u, ProfileTypeOK
  <2>3. CASE p # NotFound
    <3> DEFINE e == [user |-> u, profile |-> p, old |-> old]
    <3>1. told' = told \union {e} /\ misled' = misled
      BY <1>2, <2>3, Zenon DEF Publish, u
    <3>2. e \in Identity /\ e.user = u /\ e.profile = p /\ e.old = old
      BY <2>1 DEF Identity
    <3> HIDE DEF e
    <3> QED
      BY <1>2, <2>3, <3>1, <3>2, Zenon DEF u, ProfileTypeOK
  <2> QED
    BY <2>2, <2>3
<1> QED
  BY <1>1, <1>2

-----------------------------------------------------------------------------
(* What a moved X account changes.                                         *)
SameAccount(w) == \A y \in XAccounts : xOwner[y] = w <=> xOwner'[y] = w

LEMMA MovedAccount ==
    ASSUME ProfileTypeOK, NEW x \in XAccounts, NEW u \in People, NEW a,
           XOf(u) \in {NoX, x}, MoveX(x, u, a)
    PROVE  /\ xOwner' \in [XAccounts -> People \union {Nobody}]
           /\ \A y, z \in XAccounts : xOwner'[y] = xOwner'[z] /\ xOwner'[y] # Nobody => y = z
           /\ \A w \in People \ {u, xOwner[x]} : SameAccount(w)
           /\ doubtful' \in [People -> BOOLEAN]
           /\ misled' \in [People -> BOOLEAN]
           /\ \A w \in People : (doubtful[w] => doubtful'[w]) /\ (misled[w] => misled'[w])
           /\ xOwner[x] \in People \ {u} =>
                 /\ cached[xOwner[x]] # Miss => doubtful'[xOwner[x]]
                 /\ xOwner[x] \notin Range(a) => misled'[xOwner[x]]
<1>1. xOwner' = [xOwner EXCEPT ![x] = u] /\ xOwner \in [XAccounts -> People \union {Nobody}]
  BY DEF MoveX, ProfileTypeOK
<1>2. \A y \in XAccounts : xOwner[y] = u => y = x
  BY XOfIs, ProfileAssumption DEF XOfIsTheAccount
<1>3. \A y, z \in XAccounts : xOwner'[y] = xOwner'[z] /\ xOwner'[y] # Nobody => y = z
  BY <1>1, <1>2 DEF ProfileTypeOK
<1>4. \A w \in People \ {u, xOwner[x]} : SameAccount(w)
  BY <1>1 DEF SameAccount
<1>5. doubtful' = [w \in People |-> doubtful[w] \/ ((w = xOwner[x] /\ w # u) /\ cached[w] # Miss)]
  BY Zenon DEF MoveX
<1>6. misled' = [w \in People |-> misled[w] \/ ((w = xOwner[x] /\ w # u) /\ w \notin Range(a))]
  BY Zenon DEF MoveX
<1>7. doubtful \in [People -> BOOLEAN] /\ misled \in [People -> BOOLEAN]
  BY DEF ProfileTypeOK
<1>8. doubtful' \in [People -> BOOLEAN] /\ misled' \in [People -> BOOLEAN]
  BY <1>5, <1>6, <1>7
<1>9. \A w \in People : (doubtful[w] => doubtful'[w]) /\ (misled[w] => misled'[w])
  BY <1>5, <1>6, Zenon
<1>10. ASSUME xOwner[x] \in People \ {u}
       PROVE  /\ cached[xOwner[x]] # Miss => doubtful'[xOwner[x]]
              /\ xOwner[x] \notin Range(a) => misled'[xOwner[x]]
  BY <1>5, <1>6, <1>10, Zenon
<1> QED
  BY <1>1, <1>3, <1>4, <1>8, <1>9, <1>10

LEMMA OneCallMoves ==
    ASSUME ProfileTypeOK, NEW c \in ProfileCalls, NEW q \in Request,
           request' = [request EXCEPT ![c] = q]
    PROVE  /\ request' \in [ProfileCalls -> Request]
           /\ request'[c] = q
           /\ \A k \in ProfileCalls \ {c} : request'[k] = request[k]
  BY DEF ProfileTypeOK

(* A step that leaves the store alone leaves the profiles alone.           *)
LEMMA SameStore ==
    ASSUME UNCHANGED <<name, xOwner>>, NEW u
    PROVE  ProfileOf(u)' = ProfileOf(u)
  BY DEF ProfileOf, XOf

(* A step of a call that reads.                                            *)
LEMMA ReaderMoves ==
    ASSUME ProfileInv, UNCHANGED <<name, xOwner>>, NEW c \in ProfileCalls, NEW q \in Request,
           request' = [request EXCEPT ![c] = q], ShapeOf(q), ReadOf(q)
    PROVE  CallShapes' /\ UntornReadsAreCurrent'
<1>1. request'[c] = q /\ \A k \in ProfileCalls \ {c} : request'[k] = request[k]
  BY OneCallMoves DEF ProfileInv
<1>2. CallShapes'
  BY <1>1 DEF ProfileInv, CallShapes, ShapeOf, LinkOf
<1>3. ASSUME NEW k \in ProfileCalls PROVE ReadOf(request[k])'
  <2>1. ReadOf(request'[k])
    BY <1>1 DEF ProfileInv, UntornReadsAreCurrent
  <2> QED
    BY <2>1, SameStore DEF ReadOf
<1> QED
  BY <1>2, <1>3 DEF UntornReadsAreCurrent

(* A write of the users in U by call c, which reads nobody.                *)
LEMMA WriterMoves ==
    ASSUME ProfileInv, ProfileTypeOK', NEW c \in ProfileCalls, NEW U, NEW q \in Request,
           Written(c, U, q), ShapeOf(q), q.pc \notin {"readX", "fill"},
           \A u \in People \ U : name'[u] = name[u] /\ SameAccount(u),
           \A u \in People : name[u] # 0 => name'[u] # 0
    PROVE  CallShapes' /\ UntornReadsAreCurrent' /\ NewsIsCurrent'
<1>1. \A u \in People \ U : ProfileOf(u)' = ProfileOf(u)
  BY ProfileOfUnchanged DEF ProfileInv, SameAccount
<1>2. /\ request'[c] = q
      /\ \A k \in ProfileCalls \ {c} :
            Keeps(k) /\ (~request'[k].torn => ~request[k].torn /\ request[k].reads \notin U)
  BY WrittenCalls DEF ProfileInv
<1>3. CallShapes'
  BY <1>2 DEF ProfileInv, CallShapes, ShapeOf, LinkOf, Keeps
<1>4. ASSUME NEW k \in ProfileCalls PROVE ReadOf(request[k])'
  <2>1. CASE k = c
    BY <1>2, <2>1 DEF ReadOf
  <2>2. CASE k # c
    <3>1. Keeps(k) /\ (~request'[k].torn => ~request[k].torn /\ request[k].reads \notin U)
      BY <1>2, <2>2
    <3>2. ShapeOf(request[k]) /\ ReadOf(request[k])
      BY DEF ProfileInv, CallShapes, UntornReadsAreCurrent
    <3>3. CASE request[k].pc = "readX"
      BY <3>1, <3>2, <3>3 DEF Keeps, ShapeOf, ReadOf
    <3>4. CASE request[k].pc = "fill"
      BY <1>1, <3>1, <3>2, <3>4 DEF Keeps, ShapeOf, ReadOf
    <3>5. CASE request[k].pc \notin {"readX", "fill"}
      BY <3>1, <3>5 DEF Keeps, ReadOf
    <3> QED
      BY <3>3, <3>4, <3>5
  <2> QED
    BY <2>1, <2>2
<1>5. ASSUME NEW e \in told', ~e.old PROVE e.profile = ProfileOf(e.user)'
  <2>1. PICK f \in told : f.user = e.user /\ f.profile = e.profile /\ ~f.old /\ f.user \notin U
    BY <1>5, WrittenNews DEF ProfileInv
  <2>2. f.user \in People
    BY DEF ProfileInv, ProfileTypeOK, Identity
  <2> QED
    BY <1>1, <2>1, <2>2 DEF ProfileInv, NewsIsCurrent
<1> QED
  BY <1>3, <1>4, <1>5 DEF UntornReadsAreCurrent, NewsIsCurrent

-----------------------------------------------------------------------------
(* Every step keeps the invariant.                                         *)
LEMMA ProfileInitially == ProfileInit => ProfileInv
<1> SUFFICES ASSUME ProfileInit PROVE ProfileInv
  OBVIOUS
<1>1. NotFound \in Profile /\ 0 \in Names
  BY ProfileAssumption DEF NotFound, Profile, Names
<1>2. ProfileTypeOK
  BY <1>1, NoRequestType, ProfileAssumption DEF ProfileInit, ProfileTypeOK
<1>3. CallShapes /\ UntornReadsAreCurrent
  BY NoRequestType DEF ProfileInit, CallShapes, UntornReadsAreCurrent, ShapeOf, ReadOf
<1>4. NamelessAreUnknown /\ OnlyDoubtfulEntriesAreStale /\ NewsIsCurrent
  BY DEF ProfileInit, NamelessAreUnknown, OnlyDoubtfulEntriesAreStale, NewsIsCurrent
<1>5. ChangesAreTold
  BY DEF ProfileInit, ChangesAreTold, ProfileOf
<1> QED
  BY <1>2, <1>3, <1>4, <1>5 DEF ProfileInv

(* A step that only moves a call that nothing depends on.                  *)
LEMMA CallOnly ==
    ASSUME ProfileInv, NEW c \in ProfileCalls, NEW q \in Request,
           request' = [request EXCEPT ![c] = q], ShapeOf(q), ReadOf(q),
           UNCHANGED <<name, xOwner, cached, doubtful, told, identity, misled>>,
           profileWrites' \in Names,
           request[c].pc # "remove",
           \/ request[c].pc \in {"idle", "check", "upsert"}
           \/ /\ q.pc \in {"tell", "readX", "fill"}
              /\ q.audience = request[c].audience
    PROVE  ProfileInv'
<1>1. /\ request' \in [ProfileCalls -> Request]
      /\ request'[c] = q
      /\ \A k \in ProfileCalls \ {c} : request'[k] = request[k]
  BY OneCallMoves DEF ProfileInv
<1>2. ProfileTypeOK'
  BY <1>1 DEF ProfileInv, ProfileTypeOK
<1>3. CallShapes' /\ UntornReadsAreCurrent'
  BY ReaderMoves
<1>4. NamelessAreUnknown'
  BY DEF ProfileInv, NamelessAreUnknown
<1>5. \A u \in People : ProfileOf(u)' = ProfileOf(u)
  BY SameStore
<1>6. \A u \in People : Invalidating(u) => Invalidating(u)'
  BY <1>1 DEF Invalidating
<1>7. OnlyDoubtfulEntriesAreStale'
  BY <1>5, <1>6 DEF ProfileInv, OnlyDoubtfulEntriesAreStale
<1>8. NewsIsCurrent'
  BY SameStore DEF ProfileInv, NewsIsCurrent
<1>9. \A u \in People : Pending(u) => Pending(u)'
  BY <1>1 DEF Pending
<1>10. ChangesAreTold'
  BY <1>5, <1>9 DEF ProfileInv, ChangesAreTold
<1> QED
  BY <1>2, <1>3, <1>4, <1>7, <1>8, <1>10 DEF ProfileInv

LEMMA GetProfileKeeps ==
    ASSUME ProfileInv, NEW c \in ProfileCalls, NEW u \in People, GetProfile(c, u)
    PROVE  ProfileInv'
<1> DEFINE q == Reading(NoRequest, u)
<1>1. /\ q \in Request /\ q.pc \in {"readX", "fill"} /\ q.audience = <<>> /\ q.reads = u
      /\ q.pc = "readX" => q.seen.name = name[u] /\ name[u] # 0
      /\ q.pc = "fill" => q.seen = NotFound /\ name[u] = 0
  BY ReadingCall, NoRequestType DEF ProfileInv
<1>2. request' = [request EXCEPT ![c] = q] /\ request[c].pc = "idle"
  BY DEF GetProfile
<1> HIDE DEF q
<1>3. ShapeOf(q) /\ ReadOf(q)
  BY <1>1 DEF ShapeOf, ReadOf, ProfileOf
<1>4. UNCHANGED <<name, xOwner, cached, doubtful, told, identity, misled>> /\ profileWrites' \in Names
  BY DEF GetProfile, ProfileInv, ProfileTypeOK
<1> QED
  BY <1>1, <1>2, <1>3, <1>4, CallOnly

LEMMA ReadXKeeps ==
    ASSUME ProfileInv, NEW c \in ProfileCalls, ReadX(c)
    PROVE  ProfileInv'
<1> DEFINE r == request[c]
           q == [r EXCEPT !.pc = "fill", !.seen.x = XOf(r.reads)]
<1>1. r \in Request /\ r.pc = "readX" /\ ShapeOf(r) /\ ReadOf(r) /\ r.reads \in People
  BY DEF ReadX, ProfileInv, ProfileTypeOK, CallShapes, UntornReadsAreCurrent, ShapeOf
<1>2. request' = [request EXCEPT ![c] = q]
  BY DEF ReadX
<1>3. XOf(r.reads) \in XAccounts \union {NoX}
  BY <1>1, XOfIs DEF ProfileInv, XOfIsTheAccount
<1>4. /\ q \in Request /\ q.pc = "fill" /\ q.audience = r.audience /\ q.reads = r.reads
      /\ q.seen = [name |-> r.seen.name, x |-> XOf(r.reads)]
  BY <1>1, <1>3 DEF Request, Profile
<1>5. q.torn = r.torn
  BY <1>1 DEF Request
<1>6. UNCHANGED <<name, xOwner, cached, doubtful, told, identity, misled>> /\ profileWrites' \in Names
  BY DEF ReadX, ProfileInv, ProfileTypeOK
<1> HIDE DEF r, q
<1>7. ShapeOf(q)
  BY <1>1, <1>4 DEF ShapeOf
<1>8. ReadOf(q)
  BY <1>1, <1>4, <1>5 DEF ReadOf, ProfileOf
<1> QED
  BY <1>1, <1>2, <1>4, <1>6, <1>7, <1>8, CallOnly DEF r

LEMMA LinkSocialAccountKeeps ==
    ASSUME ProfileInv, NEW c \in ProfileCalls, NEW u \in People, NEW x \in XAccounts,
           LinkSocialAccount(c, u, x)
    PROVE  ProfileInv'
<1> DEFINE a == IF xOwner[x] = Nobody THEN <<u>> ELSE <<xOwner[x], u>>
           q == [NoRequest EXCEPT !.pc = "check", !.user = u, !.x = x, !.audience = a]
<1>1. request[c].pc = "idle" /\ request' = [request EXCEPT ![c] = q]
  BY DEF LinkSocialAccount
<1>2. a \in Seq(People) /\ u \in Range(a)
  <2>1. xOwner[x] \in People \union {Nobody}
    BY DEF ProfileInv, ProfileTypeOK
  <2>2. u \in Range(<<u>>)
    BY DEF Range
  <2>3. u \in Range(<<xOwner[x], u>>)
    <3>1. 2 \in DOMAIN <<xOwner[x], u>> /\ <<xOwner[x], u>>[2] = u
      OBVIOUS
    <3> QED
      BY <3>1 DEF Range
  <2> QED
    BY <2>1, <2>2, <2>3
<1> HIDE DEF a
<1>3. q \in Request /\ q.pc = "check" /\ q.user = u /\ q.x = x /\ q.audience = a
  BY <1>2, NoRequestType DEF NoRequest, Request
<1>4. UNCHANGED <<name, xOwner, cached, doubtful, told, identity, misled>> /\ profileWrites' \in Names
  BY ProfileAssumption DEF LinkSocialAccount, ProfileInv, ProfileTypeOK, Names
<1> HIDE DEF q
<1>5. ShapeOf(q) /\ ReadOf(q)
  BY <1>2, <1>3 DEF ShapeOf, LinkOf, ReadOf
<1> QED
  BY <1>1, <1>3, <1>4, <1>5, CallOnly

LEMMA CheckLinkKeeps ==
    ASSUME ProfileInv, NEW c \in ProfileCalls, CheckLink(c)
    PROVE  ProfileInv'
<1> DEFINE r == request[c]
           q == IF XOf(r.user) \in {NoX, r.x} THEN [r EXCEPT !.pc = "upsert"] ELSE NoRequest
<1>1. r \in Request /\ r.pc = "check" /\ LinkOf(r)
  BY DEF CheckLink, ProfileInv, ProfileTypeOK, CallShapes, ShapeOf
<1>2. request' = [request EXCEPT ![c] = q]
  BY DEF CheckLink
<1>3. q \in Request /\ ShapeOf(q) /\ ReadOf(q)
  BY <1>1, NoRequestType DEF Request, ShapeOf, LinkOf, ReadOf
<1>4. UNCHANGED <<name, xOwner, cached, doubtful, told, identity, misled>> /\ profileWrites' \in Names
  BY DEF CheckLink, ProfileInv, ProfileTypeOK
<1> HIDE DEF r, q
<1> QED
  BY <1>1, <1>2, <1>3, <1>4, CallOnly DEF r

LEMMA ExpireKeeps ==
    ASSUME ProfileInv, NEW u \in People, Expire(u)
    PROVE  ProfileInv'
<1>1. /\ cached' = [cached EXCEPT ![u] = Miss] /\ doubtful' = [doubtful EXCEPT ![u] = FALSE]
      /\ UNCHANGED <<name, xOwner, request, told, identity, misled, profileWrites>>
  BY DEF Expire
<1>2. ProfileTypeOK'
  BY <1>1 DEF ProfileInv, ProfileTypeOK
<1>3. CallShapes'
  BY <1>1 DEF ProfileInv, CallShapes, ShapeOf, LinkOf
<1>4. UntornReadsAreCurrent' /\ NewsIsCurrent'
  BY <1>1, SameStore DEF ProfileInv, UntornReadsAreCurrent, NewsIsCurrent, ReadOf
<1>5. NamelessAreUnknown'
  BY <1>1 DEF ProfileInv, ProfileTypeOK, NamelessAreUnknown
<1>6. OnlyDoubtfulEntriesAreStale'
  <2> SUFFICES ASSUME NEW w \in People, cached'[w] # Miss, cached'[w] # ProfileOf(w)'
               PROVE  doubtful'[w] \/ Invalidating(w)'
    BY DEF OnlyDoubtfulEntriesAreStale
  <2>1. w # u /\ cached'[w] = cached[w] /\ doubtful'[w] = doubtful[w]
    BY <1>1, Zenon DEF ProfileInv, ProfileTypeOK
  <2>2. doubtful[w] \/ Invalidating(w)
    BY <1>1, <2>1, SameStore DEF ProfileInv, OnlyDoubtfulEntriesAreStale
  <2>3. Invalidating(w)' <=> Invalidating(w)
    BY <1>1 DEF Invalidating
  <2> QED
    BY <2>1, <2>2, <2>3, Zenon
<1>7. ChangesAreTold'
  <2>1. \A w \in People : Pending(w)' <=> Pending(w)
    BY <1>1 DEF Pending
  <2> QED
    BY <1>1, <2>1, SameStore DEF ProfileInv, ChangesAreTold
<1> QED
  BY <1>2, <1>3, <1>4, <1>5, <1>6, <1>7 DEF ProfileInv

LEMMA RemoveEntryKeeps ==
    ASSUME ProfileInv, NEW c \in ProfileCalls, RemoveEntry(c)
    PROVE  ProfileInv'
<1> DEFINE u == request[c].user
           q == [request[c] EXCEPT !.pc = "tell", !.user = Nobody]
<1>1. /\ request[c] \in Request /\ request[c].pc = "remove"
      /\ u \in People /\ request[c].audience # <<>>
  BY DEF RemoveEntry, ProfileInv, ProfileTypeOK, CallShapes, ShapeOf
<1>2. q \in Request /\ q.pc = "tell" /\ q.audience = request[c].audience
  BY <1>1 DEF Request
<1>3. /\ cached' = [cached EXCEPT ![u] = Miss] /\ doubtful' = [doubtful EXCEPT ![u] = FALSE]
      /\ request' = [request EXCEPT ![c] = q]
      /\ UNCHANGED <<name, xOwner, told, identity, misled, profileWrites>>
  BY DEF RemoveEntry
<1> HIDE DEF u, q
<1>4. ShapeOf(q) /\ ReadOf(q)
  BY <1>1, <1>2 DEF ShapeOf, ReadOf
<1>5. /\ request' \in [ProfileCalls -> Request]
      /\ request'[c] = q
      /\ \A k \in ProfileCalls \ {c} : request'[k] = request[k]
  BY <1>2, <1>3, OneCallMoves DEF ProfileInv
<1>6. ProfileTypeOK'
  BY <1>1, <1>3, <1>5 DEF ProfileInv, ProfileTypeOK
<1>7. CallShapes' /\ UntornReadsAreCurrent'
  BY <1>2, <1>3, <1>4, ReaderMoves
<1>8. NewsIsCurrent'
  BY <1>3, SameStore DEF ProfileInv, NewsIsCurrent
<1>9. NamelessAreUnknown'
  BY <1>3 DEF ProfileInv, ProfileTypeOK, NamelessAreUnknown
<1>10. OnlyDoubtfulEntriesAreStale'
  <2> SUFFICES ASSUME NEW w \in People, cached'[w] # Miss, cached'[w] # ProfileOf(w)'
               PROVE  doubtful'[w] \/ Invalidating(w)'
    BY DEF OnlyDoubtfulEntriesAreStale
  <2>1. w # u /\ cached'[w] = cached[w] /\ doubtful'[w] = doubtful[w]
    BY <1>3, Zenon DEF ProfileInv, ProfileTypeOK
  <2>2. doubtful[w] \/ Invalidating(w)
    BY <1>3, <2>1, SameStore DEF ProfileInv, OnlyDoubtfulEntriesAreStale
  <2>3. Invalidating(w) => Invalidating(w)'
    BY <1>5, <2>1 DEF Invalidating, u
  <2> QED
    BY <2>1, <2>2, <2>3, Zenon
<1>11. ChangesAreTold'
  <2>1. \A w \in People : Pending(w) => Pending(w)'
    BY <1>1, <1>2, <1>3, <1>5 DEF Pending
  <2> QED
    BY <1>3, <2>1, SameStore DEF ProfileInv, ChangesAreTold
<1> QED
  BY <1>6, <1>7, <1>8, <1>9, <1>10, <1>11 DEF ProfileInv

LEMMA TellClientsKeeps ==
    ASSUME ProfileInv, NEW e \in told, TellClients(e)
    PROVE  ProfileInv'
<1> DEFINE u == e.user
           o == e.old
<1>1. e \in Identity /\ u \in People /\ e.profile \in Profile /\ o \in BOOLEAN
  BY DEF ProfileInv, ProfileTypeOK, Identity
<1>2. /\ told' = told \ {e}
      /\ identity' = [identity EXCEPT ![u] = e.profile] /\ misled' = [misled EXCEPT ![u] = o]
      /\ UNCHANGED <<name, xOwner, cached, doubtful, request, profileWrites>>
  BY DEF TellClients
<1>3. ProfileTypeOK'
  BY <1>1, <1>2 DEF ProfileInv, ProfileTypeOK
<1>4. CallShapes'
  BY <1>2 DEF ProfileInv, CallShapes, ShapeOf, LinkOf
<1>5. UntornReadsAreCurrent' /\ NewsIsCurrent'
  BY <1>2, SameStore DEF ProfileInv, UntornReadsAreCurrent, NewsIsCurrent, ReadOf
<1>6. NamelessAreUnknown'
  BY <1>1, <1>2 DEF ProfileInv, ProfileTypeOK, NamelessAreUnknown
<1>7. OnlyDoubtfulEntriesAreStale'
  <2>1. \A w : Invalidating(w)' <=> Invalidating(w)
    BY <1>2 DEF Invalidating
  <2> QED
    BY <1>2, <2>1, SameStore DEF ProfileInv, OnlyDoubtfulEntriesAreStale
<1>8. ChangesAreTold'
  <2> SUFFICES ASSUME NEW w \in People PROVE identity'[w] = ProfileOf(w)' \/ misled'[w] \/ Pending(w)'
    BY DEF ChangesAreTold
  <2>1. CASE w = u
    <3>1. identity'[w] = e.profile /\ misled'[w] = o
      BY <1>1, <1>2, <2>1, Zenon DEF ProfileInv, ProfileTypeOK
    <3>2. ~o => e.profile = ProfileOf(w)
      BY <2>1 DEF ProfileInv, NewsIsCurrent
    <3> QED
      BY <1>2, <3>1, <3>2, SameStore, Zenon
  <2>2. CASE w # u
    <3>1. identity'[w] = identity[w] /\ misled'[w] = misled[w]
      BY <1>2, <2>2, Zenon DEF ProfileInv, ProfileTypeOK
    <3>2. Pending(w) => Pending(w)'
      BY <1>2, <2>2 DEF Pending
    <3>3. identity[w] = ProfileOf(w) \/ misled[w] \/ Pending(w)
      BY DEF ProfileInv, ChangesAreTold
    <3> QED
      BY <1>2, <3>1, <3>2, <3>3, SameStore, Zenon
  <2> QED
    BY <2>1, <2>2
<1> QED
  BY <1>3, <1>4, <1>5, <1>6, <1>7, <1>8 DEF ProfileInv

(* A call that has a profile tells it on.                                  *)
LEMMA PublishingKeeps ==
    ASSUME ProfileInv, NEW c \in ProfileCalls, NEW p \in Profile, NEW old \in BOOLEAN,
           request[c].pc \in {"tell", "fill"},
           Publish(request[c], p, old),
           request' = [request EXCEPT ![c] = AfterPublishing(request[c])],
           request[c].audience # <<>> =>
              LET u == Head(request[c].audience)
              IN /\ ~old => p = ProfileOf(u)
                 /\ name[u] = 0 => p = NotFound,
           UNCHANGED <<name, xOwner, identity, profileWrites>>
    PROVE  /\ told' \subseteq Identity
           /\ misled' \in [People -> BOOLEAN]
           /\ request' \in [ProfileCalls -> Request]
           /\ CallShapes' /\ UntornReadsAreCurrent'
           /\ NewsIsCurrent'
           /\ \A u \in People : name'[u] = 0 => identity'[u] = NotFound /\ \A e \in told' : e.user # u
           /\ \A u \in People : Invalidating(u) => Invalidating(u)'
           /\ ChangesAreTold'
<1> DEFINE r == request[c]
           a == r.audience
           q == AfterPublishing(r)
<1>1. r \in Request /\ a \in Seq(People) /\ r.pc \in {"tell", "fill"}
  BY DEF ProfileInv, ProfileTypeOK, Request
<1>2. /\ told' \subseteq Identity /\ told \subseteq told'
      /\ misled' \in [People -> BOOLEAN] /\ \A w \in People : misled[w] => misled'[w]
      /\ \A e \in told' \ told : /\ a # <<>>
                                 /\ e.user = Head(a) /\ e.profile = p
                                 /\ p # NotFound
                                 /\ ~e.old => ~old
      /\ a # <<>> =>
            \/ \E e \in told' : e.user = Head(a)
            \/ misled'[Head(a)]
            \/ ~old /\ p = NotFound
  BY <1>1, PublishedNews DEF ProfileInv
<1>3. /\ q \in Request /\ q.pc \in {"idle", "tell"} /\ (q.pc = "tell" => q.audience # <<>>)
      /\ \A w \in Range(a) : w = Head(a) \/ (q.pc = "tell" /\ w \in Range(q.audience))
  <2>1. CASE a = <<>>
    <3>1. q = NoRequest
      BY <2>1 DEF AfterPublishing
    <3>2. \A w : w \notin Range(a)
      BY <2>1 DEF Range
    <3> QED
      BY <3>1, <3>2, NoRequestType
  <2>2. CASE a # <<>>
    BY <1>1, <2>2, AfterPublishingCall
  <2> QED
    BY <2>1, <2>2
<1>4. request' = [request EXCEPT ![c] = q]
  OBVIOUS
<1>5. a # <<>> => (~old => p = ProfileOf(Head(a))) /\ (name[Head(a)] = 0 => p = NotFound)
  OBVIOUS
<1>6. UNCHANGED <<name, xOwner, identity>>
  OBVIOUS
<1> HIDE DEF q, a
<1>7. /\ request' \in [ProfileCalls -> Request]
      /\ request'[c] = q
      /\ \A k \in ProfileCalls \ {c} : request'[k] = request[k]
  BY <1>3, <1>4, OneCallMoves DEF ProfileInv
<1>8. CallShapes' /\ UntornReadsAreCurrent'
  <2>1. ShapeOf(q) /\ ReadOf(q)
    BY <1>3 DEF ShapeOf, ReadOf
  <2> QED
    BY <1>3, <1>4, <1>6, <2>1, ReaderMoves
<1>9. NewsIsCurrent'
  <2> SUFFICES ASSUME NEW e \in told', ~e.old PROVE e.profile = ProfileOf(e.user)'
    BY DEF NewsIsCurrent
  <2>1. CASE e \in told
    BY <1>6, <2>1, SameStore DEF ProfileInv, NewsIsCurrent
  <2>2. CASE e \notin told
    BY <1>2, <1>5, <1>6, <2>2, SameStore
  <2> QED
    BY <2>1, <2>2
<1>10. ASSUME NEW u \in People, name'[u] = 0
       PROVE  identity'[u] = NotFound /\ \A e \in told' : e.user # u
  <2>1. identity'[u] = NotFound /\ \A e \in told : e.user # u
    BY <1>6, <1>10 DEF ProfileInv, NamelessAreUnknown
  <2>2. \A e \in told' \ told : e.user # u
    BY <1>2, <1>5, <1>6, <1>10
  <2> QED
    BY <2>1, <2>2
<1>11. \A u \in People : Invalidating(u) => Invalidating(u)'
  BY <1>1, <1>7 DEF Invalidating
<1>12. ChangesAreTold'
  <2> SUFFICES ASSUME NEW w \in People PROVE identity'[w] = ProfileOf(w)' \/ misled'[w] \/ Pending(w)'
    BY DEF ChangesAreTold
  <2>1. identity'[w] = identity[w] /\ ProfileOf(w)' = ProfileOf(w)
    BY <1>6, SameStore
  <2>2. identity[w] = ProfileOf(w) \/ misled[w] \/ Pending(w)
    BY DEF ProfileInv, ChangesAreTold
  <2>3. CASE Pending(w) /\ w \in Range(a) /\ w = Head(a) /\ a # <<>>
    <3>1. CASE \E e \in told' : e.user = w
      BY <3>1 DEF Pending
    <3>2. CASE misled'[w]
      BY <3>2, Zenon
    <3>3. CASE ~old /\ p = NotFound
      <4>1. ProfileOf(w) = NotFound
        BY <1>5, <2>3, <3>3
      <4>2. name[w] = 0
        BY <4>1, ProfileAssumption DEF ProfileOf, NotFound, ProfileInv, ProfileTypeOK, Names
      <4>3. identity[w] = NotFound
        BY <4>2 DEF ProfileInv, NamelessAreUnknown
      <4> QED
        BY <2>1, <4>1, <4>3
    <3> QED
      BY <1>2, <2>3, <3>1, <3>2, <3>3, Zenon
  <2>4. CASE Pending(w) /\ ~(w \in Range(a) /\ w = Head(a) /\ a # <<>>)
    <3>1. CASE \E e \in told : e.user = w
      BY <1>2, <3>1 DEF Pending
    <3>2. CASE \E k \in ProfileCalls : /\ request[k].pc \in {"remove", "tell", "readX", "fill"}
                                       /\ w \in Range(request[k].audience)
      <4>1. PICK k \in ProfileCalls : /\ request[k].pc \in {"remove", "tell", "readX", "fill"}
                                      /\ w \in Range(request[k].audience)
        BY <3>2
      <4>2. CASE k = c
        <5>1. w \in Range(a)
          BY <4>1, <4>2 DEF a
        <5>2. a # <<>>
          BY <5>1 DEF Range
        <5>3. q.pc = "tell" /\ w \in Range(q.audience)
          BY <1>3, <2>4, <5>1, <5>2
        <5> QED
          BY <1>7, <5>3 DEF Pending
      <4>3. CASE k # c
        BY <1>7, <4>1, <4>3 DEF Pending
      <4> QED
        BY <4>2, <4>3
    <3> QED
      BY <2>4, <3>1, <3>2 DEF Pending
  <2> QED
    BY <1>2, <2>1, <2>2, <2>3, <2>4, Zenon
<1> QED
  BY <1>2, <1>7, <1>8, <1>9, <1>10, <1>11, <1>12

LEMMA FillKeeps ==
    ASSUME ProfileInv, NEW c \in ProfileCalls, Fill(c)
    PROVE  ProfileInv'
<1> DEFINE r == request[c]
           o == r.torn
<1>1. /\ r \in Request /\ r.pc = "fill" /\ r.reads \in People /\ r.seen \in Profile /\ o \in BOOLEAN
      /\ name[r.reads] = 0 => r.seen = NotFound
      /\ ~o => r.seen = ProfileOf(r.reads)
      /\ r.audience # <<>> => Head(r.audience) = r.reads
  BY DEF Fill, ProfileInv, ProfileTypeOK, CallShapes, ShapeOf, UntornReadsAreCurrent, ReadOf, Request
<1>2. /\ cached' = [cached EXCEPT ![r.reads] = r.seen]
      /\ doubtful' = [doubtful EXCEPT ![r.reads] = o]
      /\ Publish(r, r.seen, o)
      /\ request' = [request EXCEPT ![c] = AfterPublishing(r)]
      /\ UNCHANGED <<name, xOwner, identity, profileWrites>>
  BY DEF Fill
<1> HIDE DEF o
<1>3. /\ told' \subseteq Identity
      /\ misled' \in [People -> BOOLEAN]
      /\ request' \in [ProfileCalls -> Request]
      /\ CallShapes' /\ UntornReadsAreCurrent'
      /\ NewsIsCurrent'
      /\ \A u \in People : name'[u] = 0 => identity'[u] = NotFound /\ \A e \in told' : e.user # u
      /\ \A u \in People : Invalidating(u) => Invalidating(u)'
      /\ ChangesAreTold'
  BY <1>1, <1>2, PublishingKeeps
<1>4. ProfileTypeOK'
  BY <1>1, <1>2, <1>3 DEF ProfileInv, ProfileTypeOK
<1>5. \A u \in People \ {r.reads} : cached'[u] = cached[u] /\ doubtful'[u] = doubtful[u]
  BY <1>1, <1>2, Zenon DEF ProfileInv, ProfileTypeOK
<1>6. cached'[r.reads] = r.seen /\ doubtful'[r.reads] = o
  BY <1>1, <1>2, Zenon DEF ProfileInv, ProfileTypeOK
<1>7. NamelessAreUnknown'
  <2> SUFFICES ASSUME NEW u \in People, name'[u] = 0 PROVE cached'[u] \in {Miss, NotFound}
    BY <1>3 DEF NamelessAreUnknown
  <2> QED
    BY <1>1, <1>2, <1>5, <1>6 DEF ProfileInv, NamelessAreUnknown
<1>8. OnlyDoubtfulEntriesAreStale'
  <2> SUFFICES ASSUME NEW u \in People, cached'[u] # Miss, cached'[u] # ProfileOf(u)'
               PROVE  doubtful'[u] \/ Invalidating(u)'
    BY DEF OnlyDoubtfulEntriesAreStale
  <2>1. ProfileOf(u)' = ProfileOf(u)
    BY <1>2, SameStore
  <2>2. CASE u = r.reads
    BY <1>1, <1>6, <2>1, <2>2, Zenon
  <2>3. CASE u # r.reads
    BY <1>3, <1>5, <2>1, <2>3, Zenon DEF ProfileInv, OnlyDoubtfulEntriesAreStale
  <2> QED
    BY <2>2, <2>3
<1> QED
  BY <1>3, <1>4, <1>7, <1>8 DEF ProfileInv

LEMMA OnProfileUpdatedKeeps ==
    ASSUME ProfileInv, NEW c \in ProfileCalls, OnProfileUpdated(c)
    PROVE  ProfileInv'
<1> DEFINE r == request[c]
           u == Head(r.audience)
<1>1. r \in Request /\ r.pc = "tell" /\ r.audience # <<>>
  BY DEF OnProfileUpdated, ProfileInv, ProfileTypeOK, CallShapes, ShapeOf
<1>2. u \in People
  BY <1>1, HeadAndTail DEF Request
<1>3. UNCHANGED <<name, xOwner, cached, doubtful, identity, profileWrites>>
  BY DEF OnProfileUpdated
<1>4. ASSUME cached[u] # Miss,
             Publish(r, cached[u], doubtful[u] \/ cached[u] # ProfileOf(u)),
             request' = [request EXCEPT ![c] = AfterPublishing(r)]
      PROVE  ProfileInv'
  <2> DEFINE p == cached[u]
             o == doubtful[u] \/ p # ProfileOf(u)
  <2>1. p \in Profile
    BY <1>2, <1>4 DEF ProfileInv, ProfileTypeOK
  <2>2. o \in BOOLEAN
    BY <1>2 DEF ProfileInv, ProfileTypeOK
  <2>3. (~o => p = ProfileOf(u)) /\ (name[u] = 0 => p = NotFound)
    BY <1>2, <1>4 DEF ProfileInv, NamelessAreUnknown
  <2>4. Publish(r, p, o)
    BY <1>4
  <2> HIDE DEF p, o
  <2>5. /\ told' \subseteq Identity
        /\ misled' \in [People -> BOOLEAN]
        /\ request' \in [ProfileCalls -> Request]
        /\ CallShapes' /\ UntornReadsAreCurrent'
        /\ NewsIsCurrent'
        /\ \A w \in People : name'[w] = 0 => identity'[w] = NotFound /\ \A e \in told' : e.user # w
        /\ \A w \in People : Invalidating(w) => Invalidating(w)'
        /\ ChangesAreTold'
    BY <1>1, <1>3, <1>4, <2>1, <2>2, <2>3, <2>4, PublishingKeeps
  <2>6. ProfileTypeOK'
    BY <1>3, <2>5 DEF ProfileInv, ProfileTypeOK
  <2>7. NamelessAreUnknown'
    BY <1>3, <2>5 DEF ProfileInv, NamelessAreUnknown
  <2>8. OnlyDoubtfulEntriesAreStale'
    BY <1>3, <2>5, SameStore DEF ProfileInv, OnlyDoubtfulEntriesAreStale
  <2> QED
    BY <2>5, <2>6, <2>7, <2>8 DEF ProfileInv
<1>5. ASSUME request' = [request EXCEPT ![c] = Reading(r, u)], UNCHANGED <<told, misled>>
      PROVE  ProfileInv'
  <2> DEFINE q == Reading(r, u)
  <2>1. /\ q \in Request /\ q.pc \in {"readX", "fill"} /\ q.audience = r.audience /\ q.reads = u
        /\ q.pc = "readX" => q.seen.name = name[u] /\ name[u] # 0
        /\ q.pc = "fill" => q.seen = NotFound /\ name[u] = 0
    BY <1>1, <1>2, ReadingCall DEF ProfileInv
  <2>2. request' = [request EXCEPT ![c] = q]
    BY <1>5
  <2> HIDE DEF q
  <2>3. ShapeOf(q) /\ ReadOf(q)
    BY <1>2, <2>1 DEF ShapeOf, ReadOf, ProfileOf
  <2>4. profileWrites' \in Names
    BY <1>3 DEF ProfileInv, ProfileTypeOK
  <2> QED
    BY <1>1, <1>3, <1>5, <2>1, <2>2, <2>3, <2>4, CallOnly
<1> QED
  BY <1>4, <1>5, Zenon DEF OnProfileUpdated

(* Nothing on its way is lost by a write, and the caller's audience will   *)
(* be told.                                                                *)
LEMMA WritePending ==
    ASSUME ProfileInv, NEW c \in ProfileCalls, NEW U, NEW q \in Request,
           request[c].pc \in {"idle", "upsert"}, Written(c, U, q), q.pc = "remove"
    PROVE  /\ \A w \in People : Pending(w) => Pending(w)'
           /\ \A w \in Range(q.audience) : Pending(w)'
           /\ \A w \in People : Invalidating(w) => Invalidating(w)'
           /\ Invalidating(q.user)'
<1>1. /\ request'[c] = q
      /\ \A k \in ProfileCalls \ {c} : Keeps(k)
  BY WrittenCalls DEF ProfileInv
<1>2. \A f \in told : \E e \in told' : e.user = f.user
  BY WrittenNews DEF ProfileInv
<1>3. ASSUME NEW w \in People, Pending(w) PROVE Pending(w)'
  <2>1. CASE \E f \in told : f.user = w
    BY <1>2, <2>1 DEF Pending
  <2>2. CASE \E k \in ProfileCalls : /\ request[k].pc \in {"remove", "tell", "readX", "fill"}
                                     /\ w \in Range(request[k].audience)
    <3>1. PICK k \in ProfileCalls : /\ request[k].pc \in {"remove", "tell", "readX", "fill"}
                                    /\ w \in Range(request[k].audience)
      BY <2>2
    <3>2. k # c
      BY <3>1
    <3>3. /\ request'[k].pc \in {"remove", "tell", "readX", "fill"}
          /\ w \in Range(request'[k].audience)
      BY <1>1, <3>1, <3>2 DEF Keeps
    <3> QED
      BY <3>3 DEF Pending
  <2> QED
    BY <1>3, <2>1, <2>2 DEF Pending
<1>4. \A w \in Range(q.audience) : Pending(w)'
  BY <1>1 DEF Pending
<1>5. \A w \in People : Invalidating(w) => Invalidating(w)'
  BY <1>1 DEF Invalidating, Keeps
<1>6. Invalidating(q.user)'
  BY <1>1 DEF Invalidating
<1> QED
  BY <1>3, <1>4, <1>5, <1>6

(* A write of the user u's own profile, which then removes its entry.      *)
LEMMA OwnWriteKeeps ==
    ASSUME ProfileInv, NEW c \in ProfileCalls, NEW u \in People, ProfileTypeOK',
           NEW a \in Seq(People), u \in Range(a),
           request[c].pc = "idle", Written(c, {u}, Changed(u, a)),
           \A w \in People \ {u} : name'[w] = name[w] /\ SameAccount(w),
           \A w \in People : name[w] # 0 => name'[w] # 0,
           UNCHANGED <<cached, doubtful, identity, misled>>
    PROVE  ProfileInv'
<1> DEFINE q == Changed(u, a)
<1>1. q \in Request /\ q.pc = "remove" /\ q.user = u /\ q.audience = a
  BY ChangedCall
<1>2. a # <<>>
  BY DEF Range
<1>3. Written(c, {u}, q)
  OBVIOUS
<1> HIDE DEF q
<1>4. ShapeOf(q)
  BY <1>1, <1>2 DEF ShapeOf
<1>5. CallShapes' /\ UntornReadsAreCurrent' /\ NewsIsCurrent'
  BY <1>1, <1>3, <1>4, WriterMoves
<1>6. /\ \A w \in People : Pending(w) => Pending(w)'
      /\ Pending(u)'
      /\ \A w \in People : Invalidating(w) => Invalidating(w)'
      /\ Invalidating(u)'
  BY <1>1, <1>2, <1>3, WritePending
<1>7. \A w \in People \ {u} : ProfileOf(w)' = ProfileOf(w)
  BY ProfileOfUnchanged DEF ProfileInv, SameAccount
<1>8. NamelessAreUnknown'
  <2> SUFFICES ASSUME NEW w \in People, name'[w] = 0
               PROVE  /\ cached'[w] \in {Miss, NotFound}
                      /\ identity'[w] = NotFound
                      /\ \A e \in told' : e.user # w
    BY DEF NamelessAreUnknown
  <2>1. \A e \in told' : \E f \in told : e.user = f.user
    BY <1>3, WrittenNews DEF ProfileInv
  <2> QED
    BY <2>1 DEF ProfileInv, NamelessAreUnknown
<1>9. OnlyDoubtfulEntriesAreStale'
  BY <1>6, <1>7 DEF ProfileInv, OnlyDoubtfulEntriesAreStale
<1>10. ChangesAreTold'
  BY <1>6, <1>7 DEF ProfileInv, ChangesAreTold
<1> QED
  BY <1>5, <1>8, <1>9, <1>10 DEF ProfileInv

LEMMA SetDisplayNameKeeps ==
    ASSUME ProfileInv, NEW c \in ProfileCalls, NEW u \in People, SetDisplayName(c, u)
    PROVE  ProfileInv'
<1>1. /\ request[c].pc = "idle" /\ Written(c, {u}, Changed(u, <<u>>))
      /\ name' = [name EXCEPT ![u] = profileWrites + 1]
      /\ profileWrites < MaxProfileWrites /\ profileWrites' = profileWrites + 1
      /\ UNCHANGED <<xOwner, cached, doubtful, identity, misled>>
  BY DEF SetDisplayName
<1>2. profileWrites + 1 \in Names /\ profileWrites + 1 # 0
  BY <1>1, ProfileAssumption DEF ProfileInv, ProfileTypeOK, Names
<1>3. name' \in [People -> Names] /\ name'[u] = profileWrites + 1 /\ \A w \in People \ {u} : name'[w] = name[w]
  BY <1>1, <1>2 DEF ProfileInv, ProfileTypeOK
<1>4. <<u>> \in Seq(People) /\ u \in Range(<<u>>)
  BY DEF Range
<1>5. request' \in [ProfileCalls -> Request] /\ told' \subseteq Identity
  <2>1. Changed(u, <<u>>) \in Request
    BY <1>4, ChangedCall
  <2> QED
    BY <1>1, <2>1, WrittenCalls, WrittenNews DEF ProfileInv
<1>6. ProfileTypeOK'
  BY <1>1, <1>2, <1>3, <1>5 DEF ProfileInv, ProfileTypeOK
<1>7. \A w \in People \ {u} : name'[w] = name[w] /\ SameAccount(w)
  BY <1>1, <1>3 DEF SameAccount
<1>8. \A w \in People : name[w] # 0 => name'[w] # 0
  BY <1>2, <1>3
<1> QED
  BY <1>1, <1>4, <1>6, <1>7, <1>8, OwnWriteKeeps

LEMMA UnlinkSocialAccountKeeps ==
    ASSUME ProfileInv, NEW c \in ProfileCalls, NEW u \in People, NEW x \in XAccounts,
           UnlinkSocialAccount(c, u, x)
    PROVE  ProfileInv'
<1>1. /\ request[c].pc = "idle" /\ Written(c, {u}, Changed(u, <<u>>))
      /\ xOwner[x] = u /\ xOwner' = [xOwner EXCEPT ![x] = Nobody]
      /\ profileWrites < MaxProfileWrites /\ profileWrites' = profileWrites + 1
      /\ UNCHANGED <<name, cached, doubtful, identity, misled>>
  BY DEF UnlinkSocialAccount
<1>2. profileWrites + 1 \in Names
  BY <1>1, ProfileAssumption DEF ProfileInv, ProfileTypeOK, Names
<1>3. /\ xOwner' \in [XAccounts -> People \union {Nobody}]
      /\ \A y, z \in XAccounts : xOwner'[y] = xOwner'[z] /\ xOwner'[y] # Nobody => y = z
  BY <1>1 DEF ProfileInv, ProfileTypeOK
<1>4. <<u>> \in Seq(People) /\ u \in Range(<<u>>)
  BY DEF Range
<1>5. request' \in [ProfileCalls -> Request] /\ told' \subseteq Identity
  <2>1. Changed(u, <<u>>) \in Request
    BY <1>4, ChangedCall
  <2> QED
    BY <1>1, <2>1, WrittenCalls, WrittenNews DEF ProfileInv
<1>6. ProfileTypeOK'
  BY <1>1, <1>2, <1>3, <1>5 DEF ProfileInv, ProfileTypeOK
<1>7. \A w \in People \ {u} : name'[w] = name[w] /\ SameAccount(w)
  BY <1>1, ProfileAssumption DEF SameAccount, ProfileInv, ProfileTypeOK
<1>8. \A w \in People : name[w] # 0 => name'[w] # 0
  BY <1>1
<1> QED
  BY <1>1, <1>4, <1>6, <1>7, <1>8, OwnWriteKeeps

LEMMA UpsertLinkKeeps ==
    ASSUME ProfileInv, NEW c \in ProfileCalls, UpsertLink(c)
    PROVE  ProfileInv'
<1> DEFINE r == request[c]
<1>0. /\ r \in Request /\ r.pc = "upsert" /\ r.user \in People /\ r.x \in XAccounts
      /\ r.audience \in Seq(People) /\ r.user \in Range(r.audience)
      /\ UNCHANGED <<name, cached, identity, profileWrites>>
  BY DEF UpsertLink, ProfileInv, ProfileTypeOK, CallShapes, ShapeOf, LinkOf, Request
<1> PICK u \in People, x \in XAccounts, a \in Seq(People), w0 \in {xOwner[r.x]} :
        u = r.user /\ x = r.x /\ a = r.audience /\ w0 = xOwner[x]
  BY <1>0
<1> DEFINE q == Changed(u, a)
<1>1. /\ r.pc = "upsert" /\ u \in Range(a)
      /\ UNCHANGED <<name, cached, identity, profileWrites>>
  BY <1>0
<1>2. ASSUME XOf(u) \in {NoX, x}, MoveX(x, u, a), Written(c, {u, w0}, q)
      PROVE  ProfileInv'
  <2>1. q \in Request /\ q.pc = "remove" /\ q.user = u /\ q.audience = a
    BY <1>1, ChangedCall
  <2>2. /\ xOwner' \in [XAccounts -> People \union {Nobody}]
        /\ \A y, z \in XAccounts : xOwner'[y] = xOwner'[z] /\ xOwner'[y] # Nobody => y = z
        /\ \A w \in People \ {u, w0} : SameAccount(w)
        /\ doubtful' \in [People -> BOOLEAN]
        /\ misled' \in [People -> BOOLEAN]
        /\ \A w \in People : (doubtful[w] => doubtful'[w]) /\ (misled[w] => misled'[w])
        /\ w0 \in People \ {u} =>
              /\ cached[w0] # Miss => doubtful'[w0]
              /\ w0 \notin Range(a) => misled'[w0]
    BY <1>1, <1>2, MovedAccount DEF ProfileInv
  <2>3. Written(c, {u, w0}, q)
    BY <1>2
  <2> HIDE DEF q
  <2>4. request' \in [ProfileCalls -> Request] /\ told' \subseteq Identity
    BY <2>1, <2>3, WrittenCalls, WrittenNews DEF ProfileInv
  <2>5. ProfileTypeOK'
    BY <1>1, <2>2, <2>4 DEF ProfileInv, ProfileTypeOK
  <2>6. ShapeOf(q)
    <3>1. a # <<>>
      BY <1>1 DEF Range
    <3> QED
      BY <1>1, <2>1, <3>1 DEF ShapeOf
  <2>7. CallShapes' /\ UntornReadsAreCurrent' /\ NewsIsCurrent'
    BY <1>1, <2>1, <2>2, <2>3, <2>5, <2>6, WriterMoves
  <2>8. /\ \A w \in People : Pending(w) => Pending(w)'
        /\ \A w \in Range(a) : Pending(w)'
        /\ \A w \in People : Invalidating(w) => Invalidating(w)'
        /\ Invalidating(u)'
    BY <1>1, <2>1, <2>3, WritePending
  <2>9. \A w \in People \ {u, w0} : ProfileOf(w)' = ProfileOf(w)
    BY <1>1, <2>2, <2>5, ProfileOfUnchanged DEF ProfileInv, SameAccount
  <2>10. NamelessAreUnknown'
    <3>1. \A e \in told' : \E f \in told : e.user = f.user
      BY <2>3, WrittenNews DEF ProfileInv
    <3> QED
      BY <1>1, <3>1 DEF ProfileInv, NamelessAreUnknown
  <2>11. OnlyDoubtfulEntriesAreStale'
    <3> SUFFICES ASSUME NEW w \in People, cached'[w] # Miss, cached'[w] # ProfileOf(w)'
                 PROVE  doubtful'[w] \/ Invalidating(w)'
      BY DEF OnlyDoubtfulEntriesAreStale
    <3>1. CASE w = u
      BY <2>8, <3>1, Zenon
    <3>2. CASE w = w0 /\ w # u
      BY <1>1, <2>2, <3>2
    <3>3. CASE w \notin {u, w0}
      BY <1>1, <2>2, <2>8, <2>9, <3>3 DEF ProfileInv, OnlyDoubtfulEntriesAreStale
    <3> QED
      BY <3>1, <3>2, <3>3
  <2>12. ChangesAreTold'
    <3> SUFFICES ASSUME NEW w \in People PROVE identity'[w] = ProfileOf(w)' \/ misled'[w] \/ Pending(w)'
      BY DEF ChangesAreTold
    <3>1. CASE w = u
      BY <1>1, <2>8, <3>1
    <3>2. CASE w = w0 /\ w # u
      BY <2>2, <2>8, <3>2
    <3>3. CASE w \notin {u, w0}
      BY <1>1, <2>2, <2>8, <2>9, <3>3 DEF ProfileInv, ChangesAreTold
    <3> QED
      BY <3>1, <3>2, <3>3
  <2> QED
    BY <2>5, <2>7, <2>10, <2>11, <2>12 DEF ProfileInv
<1>3. ASSUME request' = [request EXCEPT ![c] = NoRequest], UNCHANGED <<xOwner, doubtful, told, misled>>
      PROVE  ProfileInv'
  <2>1. ShapeOf(NoRequest) /\ ReadOf(NoRequest)
    BY NoRequestType DEF ShapeOf, ReadOf
  <2>2. profileWrites' \in Names
    BY <1>1 DEF ProfileInv, ProfileTypeOK
  <2> QED
    BY <1>1, <1>3, <2>1, <2>2, NoRequestType, CallOnly
<1> QED
  BY <1>2, <1>3 DEF UpsertLink

LEMMA ProfileStep == ProfileInv /\ [ProfileNext]_profileVars => ProfileInv'
<1> SUFFICES ASSUME ProfileInv, [ProfileNext]_profileVars PROVE ProfileInv'
  OBVIOUS
<1>1. CASE ProfileNext
  BY <1>1, GetProfileKeeps, SetDisplayNameKeeps, LinkSocialAccountKeeps, UnlinkSocialAccountKeeps,
     ReadXKeeps, FillKeeps, CheckLinkKeeps, UpsertLinkKeeps, RemoveEntryKeeps,
     OnProfileUpdatedKeeps, ExpireKeeps, TellClientsKeeps, Zenon DEF ProfileNext
<1>2. CASE UNCHANGED profileVars
  <2>1. /\ UNCHANGED <<name, xOwner, cached, doubtful, request, told, identity, misled, profileWrites>>
    BY <1>2 DEF profileVars
  <2>2. CallShapes' /\ UntornReadsAreCurrent' /\ NewsIsCurrent'
    BY <2>1, SameStore DEF ProfileInv, CallShapes, ShapeOf, LinkOf, UntornReadsAreCurrent, ReadOf,
                           NewsIsCurrent
  <2>3. ProfileTypeOK' /\ NamelessAreUnknown'
    BY <2>1 DEF ProfileInv, ProfileTypeOK, NamelessAreUnknown
  <2>4. \A u : Invalidating(u)' <=> Invalidating(u)
    BY <2>1 DEF Invalidating
  <2>5. \A u : Pending(u)' <=> Pending(u)
    BY <2>1 DEF Pending
  <2>6. OnlyDoubtfulEntriesAreStale' /\ ChangesAreTold'
    BY <2>1, <2>4, <2>5, SameStore DEF ProfileInv, OnlyDoubtfulEntriesAreStale, ChangesAreTold
  <2> QED
    BY <2>2, <2>3, <2>6 DEF ProfileInv
<1> QED
  BY <1>1, <1>2

(* However the reads, fills and invalidations of the cache interleave, the *)
(* whole invariant of the profiles holds (profile/cache/store.go,          *)
(* profile/server.go).                                                     *)
THEOREM ProfileInvariant == ProfileSpec => []ProfileInv
  BY ProfileInitially, ProfileStep, PTL DEF ProfileSpec

(* Every variable keeps its type, and no user ever has two X accounts: the *)
(* unique index of the postgres store (profile/postgres/model.go).         *)
THEOREM ProfilesTyped == ProfileSpec => []ProfileTypeOK
<1>1. ProfileInv => ProfileTypeOK
  BY DEF ProfileInv
<1> QED
  BY <1>1, ProfileInvariant, PTL

(* An entry of the cache is what the store has, unless its removal is      *)
(* under way, or a write overtook its fill, or its X account moved         *)
(* (profile/cache/store.go).                                               *)
THEOREM StaleEntriesAreDoubtful == ProfileSpec => []OnlyDoubtfulEntriesAreStale
<1>1. ProfileInv => OnlyDoubtfulEntriesAreStale
  BY DEF ProfileInv
<1> QED
  BY <1>1, ProfileInvariant, PTL

(* When nothing is on its way, the clients know every profile as it is, or *)
(* were misled about it (profile/server.go, chat/event.go                  *)
(* OnProfileUpdated).                                                      *)
THEOREM ClientsAlwaysKnowTheProfile == ProfileSpec => []ClientsKnowTheProfile
<1>1. ProfileInv => ClientsKnowTheProfile
  <2> SUFFICES ASSUME ProfileInv, AtRest, NEW u \in People
               PROVE  identity[u] = ProfileOf(u) \/ misled[u]
    BY DEF ClientsKnowTheProfile
  <2>1. ~Pending(u)
    BY DEF AtRest, Pending
  <2> QED
    BY <2>1 DEF ProfileInv, ChangesAreTold
<1> QED
  BY <1>1, ProfileInvariant, PTL

-----------------------------------------------------------------------------
(***************************************************************************)
(* PushTokens, for any users, installs and tokens, on both stores: a       *)
(* deleted token stays only with a type that it was not deleted for, and a *)
(* token in use goes only by being deleted.                                *)
(***************************************************************************)

(* A row has the value its install last registered; and its type, but for  *)
(* postgres, where the upsert leaves the type of an older registration.    *)
RowsAreRegistered ==
    \A u \in Owners, i \in Installs :
        tokens[u][i] # NoToken =>
            /\ registered[u][i] # NoToken
            /\ tokens[u][i].value = registered[u][i].value
            /\ rowsOnPostgres \/ tokens[u][i] = registered[u][i]

(* A call that deletes a token that was not registered anew deletes what   *)
(* the install has registered, or the row that it has.                     *)
DeletesWhatIsThere ==
    \A c \in Deletes, t \in Token :
        t \in delete[c].todo /\ ~delete[c].again =>
            \/ t = registered[delete[c].user][delete[c].install]
            \/ tokens[delete[c].user][delete[c].install] \in {NoToken, t}

(* A goroutine removes only what FCM rejected.                             *)
OnlyRejectedArePruned ==
    \A p \in Pushes : push[p].pc = "prune" => \A t \in push[p].batch : t.value \in dead

PushInv ==
    /\ PushTypeOK
    /\ RowsAreRegistered
    /\ DeletesWhatIsThere
    /\ OnlyRejectedArePruned
    /\ OnlyStaleTypesSurviveDeletion

-----------------------------------------------------------------------------
LEMMA NoTokenIsNone == NoToken \notin Token
  BY PushAssumption DEF Token

(* A row that changes by a deletion is gone, and the rest keep what holds  *)
(* of the rows.                                                            *)
LEMMA RowsGo ==
    ASSUME PushInv, NEW t \in Token, tokens' = DeletedEverywhere(t),
           UNCHANGED <<rowsOnPostgres, registered>>
    PROVE  /\ tokens' \in Rows
           /\ \A u \in Owners, i \in Installs :
                 tokens'[u][i] = IF tokens[u][i] = t THEN NoToken ELSE tokens[u][i]
           /\ RowsAreRegistered'
<1>1. tokens' = [u \in Owners |-> [i \in Installs |->
                     IF tokens[u][i] = t THEN NoToken ELSE tokens[u][i]]]
  BY DEF DeletedEverywhere
<1>2. \A u \in Owners, i \in Installs : tokens[u][i] \in Token \union {NoToken}
  BY DEF PushInv, PushTypeOK, Rows
<1>3. tokens' \in Rows
  BY <1>1, <1>2 DEF Rows
<1>4. \A u \in Owners, i \in Installs :
          tokens'[u][i] = IF tokens[u][i] = t THEN NoToken ELSE tokens[u][i]
  BY <1>1
<1>5. RowsAreRegistered'
  BY <1>4 DEF PushInv, RowsAreRegistered
<1> QED
  BY <1>3, <1>4, <1>5

LEMMA AddTokenKeeps ==
    ASSUME PushInv, NEW u \in Owners, NEW i \in Installs, NEW t \in Token, AddToken(u, i, t)
    PROVE  PushInv'
<1> DEFINE s == StoredToken(u, i, t)
<1>1. s \in Token /\ s.value = t.value /\ (rowsOnPostgres \/ s = t)
  <2>1. tokens[u][i] \in Token \union {NoToken}
    BY DEF PushInv, PushTypeOK, Rows
  <2> QED
    BY <2>1 DEF Token, StoredToken
<1>2. tokens' = [tokens EXCEPT ![u][i] = s] /\ registered' = [registered EXCEPT ![u][i] = t]
  BY DEF AddToken
<1>3. /\ deleted' = [deleted EXCEPT ![u][i] = @ \ {t.value}]
      /\ adds' = adds + 1 /\ adds < MaxAdds
      /\ UNCHANGED <<rowsOnPostgres, dead, pushEnabled, push>>
  BY DEF AddToken
<1> HIDE DEF s
<1>4. tokens' \in Rows /\ registered' \in Rows
  BY <1>1, <1>2 DEF PushInv, PushTypeOK, Rows
<1>5. deleted' \in [Owners -> [Installs -> SUBSET TokenValues]]
  BY <1>3 DEF PushInv, PushTypeOK
<1>6. adds' \in 0..MaxAdds
  BY <1>3, PushAssumption DEF PushInv, PushTypeOK
<1>7. \A v \in Owners, j \in Installs :
          /\ tokens'[v][j] = IF v = u /\ j = i THEN s ELSE tokens[v][j]
          /\ registered'[v][j] = IF v = u /\ j = i THEN t ELSE registered[v][j]
          /\ deleted'[v][j] = IF v = u /\ j = i THEN deleted[v][j] \ {t.value} ELSE deleted[v][j]
  BY <1>2, <1>3 DEF PushInv, PushTypeOK, Rows
<1>8. /\ delete' \in [Deletes -> Deleting]
      /\ \A c \in Deletes :
            /\ delete'[c].user = delete[c].user
            /\ delete'[c].install = delete[c].install
            /\ delete'[c].todo = delete[c].todo
            /\ delete[c].again => delete'[c].again
            /\ delete[c].todo # {} /\ delete[c].user = u /\ delete[c].install = i
                  => delete'[c].again
  <2> DEFINE b(c) == delete[c].again
                     \/ (delete[c].todo # {} /\ delete[c].user = u /\ delete[c].install = i)
  <2>1. \A c \in Deletes : b(c) \in BOOLEAN
    BY Zenon
  <2>2. delete' = [c \in Deletes |-> [delete[c] EXCEPT !.again = b(c)]]
    BY Zenon DEF AddToken
  <2>3. \A c \in Deletes : delete[c].again => b(c)
    BY Zenon
  <2>4. \A c \in Deletes : delete[c].todo # {} /\ delete[c].user = u /\ delete[c].install = i => b(c)
    BY Zenon
  <2> HIDE DEF b
  <2>5. \A c \in Deletes : delete[c] \in Deleting /\ delete'[c] = [delete[c] EXCEPT !.again = b(c)]
    BY <2>2 DEF PushInv, PushTypeOK
  <2>6. delete' \in [Deletes -> Deleting]
    BY <2>1, <2>2, <2>5 DEF Deleting
  <2>7. \A c \in Deletes : /\ delete'[c].user = delete[c].user
                           /\ delete'[c].install = delete[c].install
                           /\ delete'[c].todo = delete[c].todo
    BY <2>5 DEF Deleting
  <2>8. \A c \in Deletes : delete'[c].again = b(c)
    BY <2>5 DEF Deleting
  <2> QED
    BY <2>3, <2>4, <2>6, <2>7, <2>8, Zenon
<1>9. PushTypeOK'
  BY <1>3, <1>4, <1>5, <1>6, <1>8 DEF PushInv, PushTypeOK, Pushed
<1>10. RowsAreRegistered'
  <2> SUFFICES ASSUME NEW v \in Owners, NEW j \in Installs, tokens'[v][j] # NoToken
               PROVE  /\ registered'[v][j] # NoToken
                      /\ tokens'[v][j].value = registered'[v][j].value
                      /\ rowsOnPostgres \/ tokens'[v][j] = registered'[v][j]
    BY <1>3 DEF RowsAreRegistered
  <2>1. CASE v = u /\ j = i
    <3>1. tokens'[v][j] = s /\ registered'[v][j] = t
      BY <1>7, <2>1
    <3> QED
      BY <1>1, <3>1, NoTokenIsNone
  <2>2. CASE ~(v = u /\ j = i)
    <3>1. tokens'[v][j] = tokens[v][j] /\ registered'[v][j] = registered[v][j]
      BY <1>7, <2>2
    <3> QED
      BY <3>1 DEF PushInv, RowsAreRegistered
  <2> QED
    BY <2>1, <2>2
<1>11. OnlyRejectedArePruned'
  BY <1>3 DEF PushInv, OnlyRejectedArePruned
<1>12. OnlyStaleTypesSurviveDeletion'
  <2> SUFFICES ASSUME NEW v \in Owners, NEW j \in Installs,
                      tokens'[v][j] # NoToken, tokens'[v][j].value \in deleted'[v][j]
               PROVE  rowsOnPostgres /\ tokens'[v][j].type # registered'[v][j].type
    BY <1>3 DEF OnlyStaleTypesSurviveDeletion
  <2>1. ~(v = u /\ j = i)
    BY <1>1, <1>7
  <2>2. /\ tokens'[v][j] = tokens[v][j] /\ registered'[v][j] = registered[v][j]
        /\ deleted'[v][j] = deleted[v][j]
    BY <1>7, <2>1
  <2> QED
    BY <2>2 DEF PushInv, OnlyStaleTypesSurviveDeletion
<1>13. DeletesWhatIsThere'
  <2> SUFFICES ASSUME NEW c \in Deletes, NEW w \in Token, w \in delete'[c].todo, ~delete'[c].again
               PROVE  \/ w = registered'[delete'[c].user][delete'[c].install]
                      \/ tokens'[delete'[c].user][delete'[c].install] \in {NoToken, w}
    BY DEF DeletesWhatIsThere
  <2>1. ~(delete[c].user = u /\ delete[c].install = i) /\ ~delete[c].again /\ w \in delete[c].todo
    BY <1>8, Zenon
  <2>2. delete[c].user \in Owners /\ delete[c].install \in Installs
    BY DEF PushInv, PushTypeOK, Deleting
  <2>3. \/ w = registered[delete[c].user][delete[c].install]
        \/ tokens[delete[c].user][delete[c].install] \in {NoToken, w}
    BY <2>1, Zenon DEF PushInv, DeletesWhatIsThere
  <2>4. /\ registered'[delete[c].user][delete[c].install] = registered[delete[c].user][delete[c].install]
        /\ tokens'[delete[c].user][delete[c].install] = tokens[delete[c].user][delete[c].install]
    BY <1>7, <2>1, <2>2
  <2>5. delete'[c].user = delete[c].user /\ delete'[c].install = delete[c].install
    BY <1>8
  <2> QED
    BY <2>3, <2>4, <2>5
<1> QED
  BY <1>9, <1>10, <1>11, <1>12, <1>13 DEF PushInv

(* A call that starts on one token of an install.                          *)
LEMMA StartDeleting ==
    ASSUME PushInv, NEW c \in Deletes, NEW u \in Owners, NEW i \in Installs, NEW t \in Token,
           delete' = [delete EXCEPT ![c] =
                         [user |-> u, install |-> i, todo |-> {t}, again |-> FALSE]],
           t = registered[u][i] \/ t = tokens[u][i],
           UNCHANGED <<tokens, registered>>
    PROVE  delete' \in [Deletes -> Deleting] /\ DeletesWhatIsThere'
<1> DEFINE d == [user |-> u, install |-> i, todo |-> {t}, again |-> FALSE]
<1>1. d \in Deleting
  BY DEF Deleting
<1>2. \A e \in Deletes : delete'[e] = IF e = c THEN d ELSE delete[e]
  BY DEF PushInv, PushTypeOK
<1>3. delete' \in [Deletes -> Deleting]
  BY <1>1 DEF PushInv, PushTypeOK
<1>4. d.user = u /\ d.install = i /\ d.todo = {t}
  OBVIOUS
<1> HIDE DEF d
<1>5. DeletesWhatIsThere'
  BY <1>2, <1>4 DEF PushInv, DeletesWhatIsThere
<1> QED
  BY <1>3, <1>5

LEMMA DeleteTokenKeeps ==
    ASSUME PushInv, NEW c \in Deletes, NEW u \in Owners, NEW i \in Installs, DeleteToken(c, u, i)
    PROVE  PushInv'
<1> DEFINE t == registered[u][i]
<1>1. t \in Token /\ delete[c].todo = {}
  BY DEF DeleteToken, PushInv, PushTypeOK, Rows
<1>2. UNCHANGED <<rowsOnPostgres, tokens, registered, dead, pushEnabled, push, adds>>
  BY DEF DeleteToken
<1>3. RowsAreRegistered' /\ OnlyRejectedArePruned'
  BY <1>2 DEF PushInv, RowsAreRegistered, OnlyRejectedArePruned
<1>4. CASE t \in TokensOf({u})
  <2>1. /\ delete' = [delete EXCEPT ![c] =
                         [user |-> u, install |-> i, todo |-> {t}, again |-> FALSE]]
        /\ deleted' = deleted
    BY <1>4 DEF DeleteToken
  <2>2. delete' \in [Deletes -> Deleting] /\ DeletesWhatIsThere'
    BY <1>1, <1>2, <2>1, StartDeleting
  <2>3. PushTypeOK' /\ OnlyStaleTypesSurviveDeletion'
    BY <1>2, <2>1, <2>2 DEF PushInv, PushTypeOK, OnlyStaleTypesSurviveDeletion, Pushed
  <2> QED
    BY <1>3, <2>2, <2>3 DEF PushInv
<1>5. CASE t \notin TokensOf({u})
  <2>1. deleted' = [deleted EXCEPT ![u][i] = @ \union {t.value}] /\ delete' = delete
    BY <1>5 DEF DeleteToken
  <2>2. DeletesWhatIsThere'
    BY <1>2, <2>1 DEF PushInv, DeletesWhatIsThere
  <2>3. t.value \in TokenValues
    BY <1>1 DEF Token
  <2>4. deleted' \in [Owners -> [Installs -> SUBSET TokenValues]]
    BY <2>1, <2>3 DEF PushInv, PushTypeOK
  <2>5. PushTypeOK'
    BY <1>2, <2>1, <2>4 DEF PushInv, PushTypeOK, Pushed
  <2>6. tokens[u][i] # t
    BY <1>1, <1>5, NoTokenIsNone DEF TokensOf
  <2>7. OnlyStaleTypesSurviveDeletion'
    <3> SUFFICES ASSUME NEW v \in Owners, NEW j \in Installs,
                        tokens[v][j] # NoToken, tokens[v][j].value \in deleted'[v][j]
                 PROVE  rowsOnPostgres /\ tokens[v][j].type # registered[v][j].type
      BY <1>2 DEF OnlyStaleTypesSurviveDeletion
    <3>1. CASE tokens[v][j].value \in deleted[v][j]
      BY <3>1 DEF PushInv, OnlyStaleTypesSurviveDeletion
    <3>2. CASE tokens[v][j].value \notin deleted[v][j]
      <4>1. v = u /\ j = i
        BY <2>1, <3>2 DEF PushInv, PushTypeOK
      <4>2. /\ tokens[u][i].value = t.value
            /\ rowsOnPostgres \/ tokens[u][i] = t
        BY <4>1 DEF PushInv, RowsAreRegistered
      <4>3. tokens[u][i] \in Token
        BY <4>1 DEF PushInv, PushTypeOK, Rows
      <4>4. tokens[u][i].type # t.type
        BY <1>1, <2>6, <4>2, <4>3 DEF Token
      <4> QED
        BY <2>6, <4>1, <4>2, <4>4
    <3> QED
      BY <3>1, <3>2
  <2> QED
    BY <1>3, <2>2, <2>5, <2>7 DEF PushInv
<1> QED
  BY <1>4, <1>5

LEMMA DeleteTokensKeeps ==
    ASSUME PushInv, NEW c \in Deletes, NEW u \in Owners, NEW i \in Installs, DeleteTokens(c, u, i)
    PROVE  PushInv'
<1>1. tokens[u][i] \in Token
  BY DEF DeleteTokens, PushInv, PushTypeOK, Rows
<1>2. /\ UNCHANGED <<rowsOnPostgres, tokens, registered, deleted, dead, pushEnabled, push, adds>>
      /\ delete' = [delete EXCEPT ![c] =
                       [user |-> u, install |-> i, todo |-> {tokens[u][i]}, again |-> FALSE]]
  BY DEF DeleteTokens
<1>3. delete' \in [Deletes -> Deleting] /\ DeletesWhatIsThere'
  BY <1>1, <1>2, StartDeleting
<1>4. RowsAreRegistered' /\ OnlyRejectedArePruned' /\ OnlyStaleTypesSurviveDeletion'
  BY <1>2 DEF PushInv, RowsAreRegistered, OnlyRejectedArePruned, OnlyStaleTypesSurviveDeletion
<1>5. PushTypeOK'
  BY <1>2, <1>3 DEF PushInv, PushTypeOK, Pushed
<1> QED
  BY <1>3, <1>4, <1>5 DEF PushInv

LEMMA DeleteRowsKeeps ==
    ASSUME PushInv, NEW c \in Deletes, DeleteRows(c)
    PROVE  PushInv'
<1> DEFINE u == delete[c].user
           i == delete[c].install
<1>1. u \in Owners /\ i \in Installs /\ delete[c].todo \subseteq Token /\ delete[c] \in Deleting
  BY DEF PushInv, PushTypeOK, Deleting
<1>2. PICK t \in delete[c].todo :
          /\ tokens' = DeletedEverywhere(t)
          /\ deleted' = IF delete[c].again THEN deleted
                        ELSE [deleted EXCEPT ![u][i] = @ \union {t.value}]
          /\ delete' = [delete EXCEPT ![c].todo = {}, ![c].again = FALSE]
          /\ UNCHANGED <<rowsOnPostgres, registered, dead, pushEnabled, push, adds>>
  BY Zenon DEF DeleteRows
<1>3. t \in Token /\ t.value \in TokenValues
  BY <1>1 DEF Token
<1>4. /\ tokens' \in Rows
      /\ \A v \in Owners, j \in Installs :
            tokens'[v][j] = IF tokens[v][j] = t THEN NoToken ELSE tokens[v][j]
      /\ RowsAreRegistered'
  BY <1>2, <1>3, RowsGo
<1>5. /\ deleted' \in [Owners -> [Installs -> SUBSET TokenValues]]
      /\ \A v \in Owners, j \in Installs :
            \/ deleted'[v][j] = deleted[v][j]
            \/ /\ v = u /\ j = i /\ ~delete[c].again
               /\ deleted'[v][j] = deleted[v][j] \union {t.value}
  BY <1>1, <1>2, <1>3 DEF PushInv, PushTypeOK
<1>6. /\ delete' \in [Deletes -> Deleting]
      /\ \A e \in Deletes : delete'[e] = delete[e] \/ delete'[e].todo = {}
  BY <1>1, <1>2 DEF PushInv, PushTypeOK, Deleting
<1>7. PushTypeOK'
  BY <1>2, <1>4, <1>5, <1>6 DEF PushInv, PushTypeOK, Pushed
<1>8. OnlyRejectedArePruned'
  BY <1>2 DEF PushInv, OnlyRejectedArePruned
<1>9. DeletesWhatIsThere'
  <2> SUFFICES ASSUME NEW e \in Deletes, NEW w \in Token, w \in delete'[e].todo, ~delete'[e].again
               PROVE  \/ w = registered'[delete'[e].user][delete'[e].install]
                      \/ tokens'[delete'[e].user][delete'[e].install] \in {NoToken, w}
    BY DEF DeletesWhatIsThere
  <2>1. delete'[e] = delete[e] /\ delete[e].user \in Owners /\ delete[e].install \in Installs
    BY <1>6 DEF PushInv, PushTypeOK, Deleting
  <2>2. \/ w = registered[delete[e].user][delete[e].install]
        \/ tokens[delete[e].user][delete[e].install] \in {NoToken, w}
    BY <2>1, Zenon DEF PushInv, DeletesWhatIsThere
  <2> QED
    BY <1>2, <1>4, <2>1, <2>2
<1>10. OnlyStaleTypesSurviveDeletion'
  <2> SUFFICES ASSUME NEW v \in Owners, NEW j \in Installs,
                      tokens'[v][j] # NoToken, tokens'[v][j].value \in deleted'[v][j]
               PROVE  rowsOnPostgres /\ tokens'[v][j].type # registered[v][j].type
    BY <1>2 DEF OnlyStaleTypesSurviveDeletion
  <2>1. tokens'[v][j] = tokens[v][j] /\ tokens[v][j] # t /\ tokens[v][j] # NoToken
    BY <1>4
  <2>2. CASE tokens[v][j].value \in deleted[v][j]
    BY <2>1, <2>2 DEF PushInv, OnlyStaleTypesSurviveDeletion
  <2>3. CASE tokens[v][j].value \notin deleted[v][j]
    <3>1. v = u /\ j = i /\ ~delete[c].again
      BY <1>5, <2>1, <2>3
    <3>2. t = registered[u][i] \/ tokens[u][i] \in {NoToken, t}
      BY <1>2, <1>3, <3>1, Zenon DEF PushInv, DeletesWhatIsThere
    <3>3. t = registered[u][i]
      BY <2>1, <3>1, <3>2
    <3>4. /\ tokens[u][i].value = t.value
          /\ rowsOnPostgres \/ tokens[u][i] = t
      BY <2>1, <3>1, <3>3, <1>1 DEF PushInv, RowsAreRegistered
    <3>5. tokens[u][i] \in Token
      BY <2>1, <3>1, <1>1 DEF PushInv, PushTypeOK, Rows
    <3>6. tokens[u][i].type # t.type
      BY <1>3, <2>1, <3>1, <3>4, <3>5 DEF Token
    <3> QED
      BY <2>1, <3>1, <3>3, <3>4, <3>6
  <2> QED
    BY <2>2, <2>3
<1> QED
  BY <1>4, <1>7, <1>8, <1>9, <1>10 DEF PushInv

-----------------------------------------------------------------------------
(* Pushes change nothing of the tokens, until they prune them.             *)
LEMMA PushingKeeps ==
    ASSUME PushInv, NEW p \in Pushes, NEW r \in Push,
           push' = [push EXCEPT ![p] = r],
           r.pc = "idle" => r = Pushed(r),
           r.pc = "prune" => \A t \in r.batch : t.value \in dead,
           UNCHANGED <<rowsOnPostgres, tokens, registered, deleted, dead, pushEnabled, delete, adds>>
    PROVE  PushInv'
<1>1. \A q \in Pushes : push'[q] = IF q = p THEN r ELSE push[q]
  BY DEF PushInv, PushTypeOK
<1>2. push' \in [Pushes -> Push]
  BY DEF PushInv, PushTypeOK
<1>3. \A q \in Pushes : push'[q].pc = "idle" => push'[q] = Pushed(push'[q])
  BY <1>1 DEF PushInv, PushTypeOK
<1>4. PushTypeOK'
  BY <1>2, <1>3 DEF PushInv, PushTypeOK
<1>5. OnlyRejectedArePruned'
  BY <1>1 DEF PushInv, OnlyRejectedArePruned
<1>6. RowsAreRegistered' /\ DeletesWhatIsThere' /\ OnlyStaleTypesSurviveDeletion'
  BY DEF PushInv, RowsAreRegistered, DeletesWhatIsThere, OnlyStaleTypesSurviveDeletion
<1> QED
  BY <1>4, <1>5, <1>6 DEF PushInv

LEMMA PushedIsIdle ==
    ASSUME NEW r \in Push
    PROVE  Pushed(r) \in Push /\ Pushed(r).pc = "idle" /\ Pushed(Pushed(r)) = Pushed(r)
  BY DEF Push, Pushed

LEMMA TokensAreTokens ==
    ASSUME PushInv, NEW U \in SUBSET Owners
    PROVE  TokensOf(U) \subseteq Token
  BY DEF PushInv, PushTypeOK, TokensOf, Rows

LEMMA SendingKeeps ==
    ASSUME PushInv, NEW p \in Pushes,
           \/ \E u \in Speakers : PostToPush(p, u)
           \/ ReadPushMembers(p) \/ GetTokensBatch(p) \/ SendPushes(p)
    PROVE  PushInv'
<1> DEFINE r == push[p]
<1>1. /\ r \in Push /\ r.batch \subseteq Token /\ r.targets \subseteq Owners /\ r.sender \in Owners
      /\ push \in [Pushes -> Push]
      /\ Pushed(r) \in Push /\ Pushed(r).pc = "idle" /\ Pushed(Pushed(r)) = Pushed(r)
  BY PushedIsIdle DEF PushInv, PushTypeOK, Push
<1>2. ASSUME NEW u \in Speakers, PostToPush(p, u) PROVE PushInv'
  <2> DEFINE s == [r EXCEPT !.pc = "members", !.sender = u]
  <2>1. s \in Push /\ s.pc = "members"
    BY <1>1, PushAssumption DEF Push
  <2>2. push' = [push EXCEPT ![p] = s]
    BY <1>1, <1>2 DEF PostToPush
  <2> HIDE DEF s
  <2> QED
    BY <1>2, <2>1, <2>2, PushingKeeps DEF PostToPush
<1>3. CASE ReadPushMembers(p)
  <2> DEFINE targets == pushEnabled \ {r.sender}
             s == IF targets = {} THEN Pushed(r) ELSE [r EXCEPT !.targets = targets, !.pc = "tokens"]
  <2>1. s \in Push /\ (s.pc = "idle" => s = Pushed(s)) /\ s.pc # "prune"
    BY <1>1 DEF Push, PushInv, PushTypeOK
  <2>2. push' = [push EXCEPT ![p] = s]
    BY <1>1, <1>3 DEF ReadPushMembers
  <2> HIDE DEF s
  <2> QED
    BY <1>3, <2>1, <2>2, PushingKeeps DEF ReadPushMembers
<1>4. CASE GetTokensBatch(p)
  <2> DEFINE found == TokensOf(r.targets)
             few == NumTokens(r.targets) \in 1..MaxTokens
             s == IF few THEN [r EXCEPT !.batch = found, !.pc = "send"] ELSE Pushed(r)
  <2>1. found \subseteq Token
    BY <1>1, TokensAreTokens
  <2>2. push' = [push EXCEPT ![p] = s] /\ r.pc = "tokens"
    BY <1>4, Zenon DEF GetTokensBatch
  <2> HIDE DEF found, few
  <2>3. s \in Push /\ (s.pc = "idle" => s = Pushed(s)) /\ s.pc # "prune"
    BY <1>1, <2>1 DEF Push
  <2> HIDE DEF s
  <2> QED
    BY <1>4, <2>2, <2>3, PushingKeeps DEF GetTokensBatch
<1>5. CASE SendPushes(p)
  <2> DEFINE rejected == {t \in r.batch : t.value \in dead}
             s == IF rejected = {} THEN Pushed(r)
                  ELSE [Pushed(r) EXCEPT !.pc = "prune", !.batch = rejected]
  <2>1. push' = [push EXCEPT ![p] = s]
    BY <1>5, Zenon DEF SendPushes
  <2>2. rejected \subseteq Token /\ \A t \in rejected : t.value \in dead
    BY <1>1
  <2> HIDE DEF rejected
  <2>3. s \in Push /\ (s.pc = "idle" => s = Pushed(s)) /\ (s.pc = "prune" => s.batch = rejected)
    BY <1>1, <2>2 DEF Push
  <2> HIDE DEF s
  <2> QED
    BY <1>5, <2>1, <2>2, <2>3, PushingKeeps DEF SendPushes
<1> QED
  BY <1>2, <1>3, <1>4, <1>5

LEMMA PruneKeeps ==
    ASSUME PushInv, NEW p \in Pushes, Prune(p)
    PROVE  PushInv'
<1> DEFINE r == push[p]
<1>1. /\ r \in Push /\ r.batch \subseteq Token /\ r.pc = "prune"
      /\ Pushed(r) \in Push /\ Pushed(r).pc = "idle" /\ Pushed(Pushed(r)) = Pushed(r)
  BY PushedIsIdle DEF Prune, PushInv, PushTypeOK, Push
<1>2. PICK t \in r.batch :
          /\ tokens' = DeletedEverywhere(t)
          /\ push' = [push EXCEPT ![p] = IF r.batch = {t} THEN Pushed(r)
                                         ELSE [r EXCEPT !.batch = r.batch \ {t}]]
  BY Zenon DEF Prune
<1>3. UNCHANGED <<rowsOnPostgres, registered, deleted, dead, pushEnabled, delete, adds>>
  BY DEF Prune
<1>4. /\ tokens' \in Rows
      /\ \A u \in Owners, i \in Installs :
            tokens'[u][i] = IF tokens[u][i] = t THEN NoToken ELSE tokens[u][i]
      /\ RowsAreRegistered'
  BY <1>1, <1>2, <1>3, RowsGo
<1> DEFINE s == IF r.batch = {t} THEN Pushed(r) ELSE [r EXCEPT !.batch = r.batch \ {t}]
<1>5. s \in Push /\ (s.pc = "idle" => s = Pushed(s)) /\ (s.pc = "prune" => s.batch \subseteq r.batch)
  BY <1>1 DEF Push
<1>6. push' = [push EXCEPT ![p] = s]
  BY <1>2
<1> HIDE DEF s
<1>7. \A q \in Pushes : push'[q] = IF q = p THEN s ELSE push[q]
  BY <1>6 DEF PushInv, PushTypeOK
<1>8. push' \in [Pushes -> Push]
  BY <1>5, <1>6 DEF PushInv, PushTypeOK
<1>9. \A q \in Pushes : push'[q].pc = "idle" => push'[q] = Pushed(push'[q])
  BY <1>5, <1>7 DEF PushInv, PushTypeOK
<1>10. PushTypeOK'
  BY <1>3, <1>4, <1>8, <1>9 DEF PushInv, PushTypeOK
<1>11. OnlyRejectedArePruned'
  BY <1>1, <1>3, <1>5, <1>7 DEF PushInv, OnlyRejectedArePruned
<1>12. OnlyStaleTypesSurviveDeletion'
  BY <1>3, <1>4 DEF PushInv, OnlyStaleTypesSurviveDeletion
<1>13. DeletesWhatIsThere'
  <2> SUFFICES ASSUME NEW e \in Deletes, NEW w \in Token, w \in delete[e].todo, ~delete[e].again
               PROVE  \/ w = registered[delete[e].user][delete[e].install]
                      \/ tokens'[delete[e].user][delete[e].install] \in {NoToken, w}
    BY <1>3 DEF DeletesWhatIsThere
  <2>1. delete[e].user \in Owners /\ delete[e].install \in Installs
    BY DEF PushInv, PushTypeOK, Deleting
  <2>2. \/ w = registered[delete[e].user][delete[e].install]
        \/ tokens[delete[e].user][delete[e].install] \in {NoToken, w}
    BY Zenon DEF PushInv, DeletesWhatIsThere
  <2> QED
    BY <1>4, <2>1, <2>2
<1> QED
  BY <1>4, <1>10, <1>11, <1>12, <1>13 DEF PushInv

-----------------------------------------------------------------------------
(* Tokens, registrations and deletions stay in step, in any order of the   *)
(* calls and of the goroutines.                                            *)
THEOREM PushInvariant == PushSpec => []PushInv
<1>1. PushInit => PushInv
  <2> SUFFICES ASSUME PushInit PROVE PushInv
    OBVIOUS
  <2>1. tokens \in Rows /\ registered \in Rows
    BY DEF PushInit, Rows
  <2>2. delete \in [Deletes -> Deleting] /\ \A c \in Deletes : delete[c].todo = {}
    BY DEF PushInit, Deleting
  <2>3. push \in [Pushes -> Push] /\ \A p \in Pushes : push[p].pc = "idle" /\ push[p] = Pushed(push[p])
    BY DEF PushInit, Push, Pushed
  <2>4. PushTypeOK
    BY <2>1, <2>2, <2>3, PushAssumption DEF PushInit, PushTypeOK
  <2>5. RowsAreRegistered /\ OnlyStaleTypesSurviveDeletion
    BY DEF PushInit, RowsAreRegistered, OnlyStaleTypesSurviveDeletion
  <2>6. DeletesWhatIsThere /\ OnlyRejectedArePruned
    BY <2>2, <2>3 DEF DeletesWhatIsThere, OnlyRejectedArePruned
  <2> QED
    BY <2>4, <2>5, <2>6 DEF PushInv
<1>2. PushInv /\ [PushNext]_pushVars => PushInv'
  <2> SUFFICES ASSUME PushInv, [PushNext]_pushVars PROVE PushInv'
    OBVIOUS
  <2>1. ASSUME UNCHANGED <<rowsOnPostgres, tokens, registered, deleted, delete, push, adds>>,
               dead \subseteq dead', dead' \subseteq TokenValues, pushEnabled' \subseteq Owners
        PROVE  PushInv'
    <3>1. PushTypeOK'
      BY <2>1 DEF PushInv, PushTypeOK, Pushed
    <3>2. OnlyRejectedArePruned'
      BY <2>1 DEF PushInv, OnlyRejectedArePruned
    <3>3. RowsAreRegistered' /\ DeletesWhatIsThere' /\ OnlyStaleTypesSurviveDeletion'
      BY <2>1 DEF PushInv, RowsAreRegistered, DeletesWhatIsThere, OnlyStaleTypesSurviveDeletion
    <3> QED
      BY <3>1, <3>2, <3>3 DEF PushInv
  <2>2. ASSUME NEW v \in TokenValues, Uninstall(v) PROVE PushInv'
    BY <2>1, <2>2 DEF Uninstall, PushInv, PushTypeOK
  <2>3. ASSUME NEW u \in Owners, SetPushState(u) PROVE PushInv'
    BY <2>1, <2>3 DEF SetPushState, PushInv, PushTypeOK
  <2>4. CASE UNCHANGED pushVars
    BY <2>1, <2>4 DEF pushVars, PushInv, PushTypeOK
  <2> QED
    BY <2>2, <2>3, <2>4, AddTokenKeeps, DeleteTokenKeeps, DeleteTokensKeeps, DeleteRowsKeeps,
       SendingKeeps, PruneKeeps DEF PushNext
<1> QED
  BY <1>1, <1>2, PTL DEF PushSpec

(* Every variable keeps its type, and a push that is over holds nothing.   *)
THEOREM PushTyped == PushSpec => []PushTypeOK
<1>1. PushInv => PushTypeOK
  BY DEF PushInv
<1> QED
  BY <1>1, PushInvariant, PTL

(* Only a type that changed on postgres saves a token from the deletion    *)
(* its user asked for (push/server.go DeleteToken, push/postgres AddToken). *)
THEOREM OnlyStaleTypesEverSurvive == PushSpec => []OnlyStaleTypesSurviveDeletion
<1>1. PushInv => OnlyStaleTypesSurviveDeletion
  BY DEF PushInv
<1> QED
  BY <1>1, PushInvariant, PTL

(* No step takes away the row of a live token but the deletion of that     *)
(* token: not a registration, nor the removal of what FCM rejected.        *)
THEOREM LiveTokensGoOnlyByDeletion == PushSpec => OnlyDeletedLiveTokensGo
<1> DEFINE Go == \A u \in Owners, i \in Installs :
          tokens[u][i] # NoToken /\ tokens'[u][i] = NoToken /\ tokens[u][i].value \notin dead
              => \E c \in Deletes : tokens[u][i] \in delete[c].todo
<1>1. PushInv /\ [PushNext]_pushVars => Go \/ UNCHANGED pushVars
  <2> SUFFICES ASSUME PushInv, PushNext,
                      NEW u \in Owners, NEW i \in Installs,
                      tokens[u][i] # NoToken, tokens'[u][i] = NoToken, tokens[u][i].value \notin dead
               PROVE  \E c \in Deletes : tokens[u][i] \in delete[c].todo
    OBVIOUS
  <2>1. tokens' # tokens
    OBVIOUS
  <2>2. ASSUME NEW v \in Owners, NEW j \in Installs, NEW t \in Token, AddToken(v, j, t)
        PROVE  FALSE
    <3>1. StoredToken(v, j, t) \in Token
      <4>1. tokens[v][j] \in Token \union {NoToken}
        BY DEF PushInv, PushTypeOK, Rows
      <4> QED
        BY <4>1 DEF Token, StoredToken
    <3>2. tokens' = [tokens EXCEPT ![v][j] = StoredToken(v, j, t)]
      BY <2>2 DEF AddToken
    <3>3. tokens'[u][i] = tokens[u][i] \/ tokens'[u][i] = StoredToken(v, j, t)
      BY <3>2 DEF PushInv, PushTypeOK, Rows
    <3> QED
      BY <3>1, <3>3, NoTokenIsNone
  <2>3. ASSUME NEW t \in Token, tokens' = DeletedEverywhere(t) PROVE t = tokens[u][i]
    BY <2>3 DEF DeletedEverywhere
  <2>4. ASSUME NEW p \in Pushes, Prune(p) PROVE FALSE
    <3>1. PICK t \in push[p].batch : tokens' = DeletedEverywhere(t)
      BY <2>4, Zenon DEF Prune
    <3>2. t \in Token /\ t.value \in dead
      BY <2>4 DEF Prune, PushInv, PushTypeOK, Push, OnlyRejectedArePruned
    <3> QED
      BY <2>3, <3>1, <3>2
  <2>5. ASSUME NEW c \in Deletes, DeleteRows(c) PROVE tokens[u][i] \in delete[c].todo
    <3>1. PICK t \in delete[c].todo : tokens' = DeletedEverywhere(t)
      BY <2>5, Zenon DEF DeleteRows
    <3>2. t \in Token
      BY DEF PushInv, PushTypeOK, Deleting
    <3> QED
      BY <2>3, <3>1, <3>2
  <2>6. CASE \E c \in Deletes : DeleteRows(c)
    BY <2>5, <2>6
  <2>7. CASE ~\E c \in Deletes : DeleteRows(c)
    BY <2>1, <2>2, <2>4, <2>7 DEF PushNext, DeleteToken, DeleteTokens, Uninstall, SetPushState,
       PostToPush, ReadPushMembers, GetTokensBatch, SendPushes
  <2> QED
    BY <2>6, <2>7
<1> QED
  BY <1>1, PushInvariant, PTL DEF PushSpec, OnlyDeletedLiveTokensGo
=============================================================================

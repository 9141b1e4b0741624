-------------------------- MODULE MessagingProofs ---------------------------
(***************************************************************************)
(* Proofs about the messaging server beside the sending of messages: the   *)
(* pointers (ReadPointers), the typing notifications (Typing), the         *)
(* messages as they are paged and counted (Paging), and the type invariant *)
(* of the three together.                                                  *)
(***************************************************************************)
EXTENDS MCMessaging, TLAPS, FiniteSetTheorems, WellFoundedInduction

-----------------------------------------------------------------------------
(***************************************************************************)
(* ReadPointers, for any rows, any number of calls and both stores: type   *)
(* correctness, what can move a pointer back, and that the memory store    *)
(* has every pointer that was published.                                   *)
(***************************************************************************)

(* Only the postgres store has a call between its SELECT and its write,    *)
(* and such a call is there because the row it read was behind.            *)
BetweenInv ==
    \A c \in Calls :
        /\ call[c].pc \in {"insert", "update"} => backend = "postgres"
        /\ call[c].pc = "update" => call[c].seen < call[c].to

(* With the memory store a call that is about to publish has its pointer   *)
(* in the store.                                                           *)
StoredFirst ==
    backend = "memory" =>
        \A c \in Calls :
            call[c].pc = "publish" => call[c].to <= pointer[call[c].key]

PointerInv == TypeOK /\ BetweenInv /\ StoredFirst /\ PublishedIsStored

(* Initially nothing is set, nothing published and no call under way.      *)
LEMMA InitInv == Init => PointerInv
<1> SUFFICES ASSUME Init PROVE PointerInv
  OBVIOUS
<1> QED
  BY PointerAssumption
  DEF Init, PointerInv, TypeOK, BetweenInv, StoredFirst, PublishedIsStored, Call

(* The UPDATE that stores an older pointer than the one that is there.     *)
StaleUpdate(k) ==
    /\ backend = "postgres"
    /\ \E c \in Calls : /\ call[c].pc = "update"
                        /\ call[c].key = k
                        /\ call[c].seen < call[c].to
                        /\ call[c].to < pointer[k]

(* What every step of the module preserves, and what it does to a pointer. *)
Kept ==
    /\ PointerInv'
    /\ \A k \in Keys : pointer'[k] < pointer[k] => StaleUpdate(k)

(* What the SELECT of a call leaves it with.                               *)
LEMMA SelectedCall ==
    ASSUME TypeOK, NEW c \in Calls, SelectPointer(c)
    PROVE  \E pc \in {"idle", "insert", "update"}, seen \in 0..LastId :
              /\ call' = [call EXCEPT ![c] = [@ EXCEPT !.pc = pc, !.seen = seen]]
              /\ pc = "update" => seen < call[c].to
              /\ backend = "postgres"
              /\ UNCHANGED <<pointer, published>>
<1> DEFINE seen == pointer[call[c].key]
           pc == CASE seen = 0 -> "insert"
                   [] seen >= call[c].to -> "idle"
                   [] OTHER -> "update"
<1>1. seen \in 0..LastId
  BY DEF TypeOK, Call
<1>2. call[c].to \in 0..LastId
  BY DEF TypeOK, Call
<1>3. pc \in {"idle", "insert", "update"} /\ (pc = "update" => seen < call[c].to)
  BY <1>1, <1>2, PointerAssumption
<1>4. /\ call' = [call EXCEPT ![c] = [@ EXCEPT !.pc = pc, !.seen = seen]]
      /\ backend = "postgres" /\ UNCHANGED <<pointer, published>>
  BY DEF SelectPointer
<1> HIDE DEF pc, seen
<1> QED BY <1>1, <1>3, <1>4

(* Every step keeps the types, with either store.                          *)
LEMMA StepKeepsType == TypeOK /\ [Next]_vars => TypeOK'
<1> SUFFICES ASSUME TypeOK, [Next]_vars PROVE TypeOK'
  OBVIOUS
<1> USE PointerAssumption DEF TypeOK, Call, Ids
<1>1. CASE UNCHANGED vars
  BY <1>1 DEF vars
<1>2. ASSUME NEW c \in Calls, NEW k \in Keys, NEW id \in Ids,
             AdvancePointer(c, k, id), UNCHANGED backend
      PROVE  TypeOK'
  BY <1>2 DEF AdvancePointer, Idle
<1>3. ASSUME NEW c \in Calls, AdvanceInMemory(c), UNCHANGED backend PROVE TypeOK'
  BY <1>3 DEF AdvanceInMemory, Set, Goto
<1>4. ASSUME NEW c \in Calls, SelectPointer(c), UNCHANGED backend PROVE TypeOK'
  <2>1. PICK pc \in {"idle", "insert", "update"}, seen \in 0..LastId :
              /\ call' = [call EXCEPT ![c] = [@ EXCEPT !.pc = pc, !.seen = seen]]
              /\ pc = "update" => seen < call[c].to
              /\ backend = "postgres"
              /\ UNCHANGED <<pointer, published>>
    BY <1>4, SelectedCall
  <2> QED BY <1>4, <2>1
<1>5. ASSUME NEW c \in Calls, InsertPointer(c), UNCHANGED backend PROVE TypeOK'
  BY <1>5 DEF InsertPointer, Set, Goto
<1>6. ASSUME NEW c \in Calls, UpdatePointer(c), UNCHANGED backend PROVE TypeOK'
  BY <1>6 DEF UpdatePointer, Set, Goto
<1>7. ASSUME NEW c \in Calls, PublishPointer(c), UNCHANGED backend PROVE TypeOK'
  BY <1>7 DEF PublishPointer, Goto
<1>8. ASSUME NEW c \in Calls, Fail(c), UNCHANGED backend PROVE TypeOK'
  BY <1>8 DEF Fail, Goto
<1> QED BY <1>1, <1>2, <1>3, <1>4, <1>5, <1>6, <1>7, <1>8 DEF Next

(* Every step keeps the invariant, and only a stale UPDATE moves back.     *)
LEMMA StepKeepsInv == PointerInv /\ [Next]_vars => Kept
<1> SUFFICES ASSUME PointerInv, [Next]_vars PROVE Kept
  OBVIOUS
<1>0. TypeOK'
  BY StepKeepsType DEF PointerInv
<1> USE <1>0, PointerAssumption
    DEF PointerInv, TypeOK, Call, Ids, BetweenInv, StoredFirst, PublishedIsStored, Kept
<1>1. CASE UNCHANGED vars
  BY <1>1 DEF vars
<1>2. ASSUME NEW c \in Calls, NEW k \in Keys, NEW id \in Ids,
             AdvancePointer(c, k, id), UNCHANGED backend
      PROVE  Kept
  BY <1>2 DEF AdvancePointer, Idle
<1>3. ASSUME NEW c \in Calls, AdvanceInMemory(c), UNCHANGED backend PROVE Kept
  BY <1>3 DEF AdvanceInMemory, Set, Goto
<1>4. ASSUME NEW c \in Calls, SelectPointer(c), UNCHANGED backend PROVE Kept
  <2>1. PICK pc \in {"idle", "insert", "update"}, seen \in 0..LastId :
              /\ call' = [call EXCEPT ![c] = [@ EXCEPT !.pc = pc, !.seen = seen]]
              /\ pc = "update" => seen < call[c].to
              /\ backend = "postgres"
              /\ UNCHANGED <<pointer, published>>
    BY <1>4, SelectedCall
  <2>2. BetweenInv'
    BY <1>4, <2>1
  <2> QED BY <1>4, <2>1, <2>2
<1>5. ASSUME NEW c \in Calls, InsertPointer(c), UNCHANGED backend PROVE Kept
  BY <1>5 DEF InsertPointer, Set, Goto
<1>6. ASSUME NEW c \in Calls, UpdatePointer(c), UNCHANGED backend PROVE Kept
  BY <1>6 DEF UpdatePointer, Set, Goto, StaleUpdate
<1>7. ASSUME NEW c \in Calls, PublishPointer(c), UNCHANGED backend PROVE Kept
  BY <1>7 DEF PublishPointer, Goto
<1>8. ASSUME NEW c \in Calls, Fail(c), UNCHANGED backend PROVE Kept
  BY <1>8 DEF Fail, Goto
<1> QED BY <1>1, <1>2, <1>3, <1>4, <1>5, <1>6, <1>7, <1>8 DEF Next

(* The inductive invariant holds in every state.                           *)
LEMMA InvAlways == Spec => []PointerInv
<1>1. PointerInv /\ [Next]_vars => PointerInv'
  BY StepKeepsInv DEF Kept
<1> QED BY InitInv, <1>1, PTL DEF Spec

(* Every reachable state is well typed, with either store.                 *)
THEOREM PointersTypeCorrect == Spec => []TypeOK
<1>1. PointerInv => TypeOK
  BY DEF PointerInv
<1> QED BY <1>1, InvAlways, PTL

(* With the memory store nobody is ever told of a pointer that the store   *)
(* does not have.                                                          *)
THEOREM MemoryPublishesWhatIsStored == Spec => []PublishedIsStored
<1>1. PointerInv => PublishedIsStored
  BY DEF PointerInv
<1> QED BY <1>1, InvAlways, PTL

(* With the memory store no interleaving of AdvancePointer calls moves a   *)
(* pointer back, and with the postgres store only an UPDATE does whose     *)
(* call was overtaken after its SELECT.                                    *)
THEOREM OnlyStaleUpdatesEverMoveBack == Spec => OnlyStaleUpdatesMoveBack
<1>1. PointerInv /\ [Next]_vars
        => [\A k \in Keys : pointer'[k] < pointer[k] =>
              /\ backend = "postgres"
              /\ \E c \in Calls : /\ call[c].pc = "update"
                                  /\ call[c].key = k
                                  /\ call[c].seen < call[c].to
                                  /\ call[c].to < pointer[k]]_vars
  BY StepKeepsInv DEF Kept, StaleUpdate
<1> QED BY <1>1, InvAlways, PTL DEF Spec, OnlyStaleUpdatesMoveBack

-----------------------------------------------------------------------------
(***************************************************************************)
(* Typing, for any users and calls: as long as nobody else publishes of a  *)
(* user between the publication and the update, clients show what the map  *)
(* says.                                                                   *)
(***************************************************************************)

(* A call that has published of a user nobody else published of since is   *)
(* the only one between its publication and its update, and what it has    *)
(* published shows.                                                        *)
PublishedShows ==
    \A c \in TypingCalls :
        notice[c].pc = "update" /\ ~crossed[notice[c].user] =>
            /\ shown[notice[c].user] <=> notice[c].state # "stopped"
            /\ \A d \in TypingCalls :
                  notice[d].pc = "update" /\ notice[d].user = notice[c].user => d = c

(* A user who timed out in this scan no longer shows as typing.            *)
ExpiredAreHidden ==
    \A u \in worker.expired : ~crossed[u] /\ ~InProgress(u) => ~shown[u]

TypingInv ==
    /\ TypingTypeOK
    /\ PublishedShows
    /\ ExpiredAreHidden
    /\ IndicatorFollowsMap

LEMMA PublishTypingKeeps ==
    ASSUME TypingInv, NEW c \in TypingCalls, PublishTyping(c)
    PROVE  TypingInv'
<1> PICK u \in Typists : u = notice[c].user
  BY DEF TypingInv, TypingTypeOK, Notice
<1> PICK s \in States : s = notice[c].state
  BY DEF TypingInv, TypingTypeOK, Notice
<1> DEFINE b == InProgress(u)
           t == s # "stopped"
<1>1. /\ notice[c].pc = "publish"
      /\ shown' = [shown EXCEPT ![u] = t]
      /\ crossed' = [crossed EXCEPT ![u] = b]
      /\ notice' = [notice EXCEPT ![c].pc = "update"]
      /\ UNCHANGED <<entry, worker, notices>>
  BY DEF PublishTyping
<1>2. b \in BOOLEAN /\ t \in BOOLEAN
  BY DEF InProgress
<1>3. b <=> InProgress(u)
  OBVIOUS
<1>4. t <=> s # "stopped"
  OBVIOUS
<1> HIDE DEF b, t
<1>5. /\ notice' \in [TypingCalls -> Notice]
      /\ notice'[c].pc = "update" /\ notice'[c].user = u /\ notice'[c].state = s
      /\ \A d \in TypingCalls \ {c} : notice'[d] = notice[d]
  BY <1>1 DEF TypingInv, TypingTypeOK, Notice
<1>6. /\ shown' \in [Typists -> BOOLEAN] /\ crossed' \in [Typists -> BOOLEAN]
      /\ shown'[u] = t /\ crossed'[u] = b
      /\ \A v \in Typists \ {u} : shown'[v] = shown[v] /\ crossed'[v] = crossed[v]
  BY <1>1, <1>2 DEF TypingInv, TypingTypeOK
<1>7. \A v \in Typists : InProgress(v)' <=> v = u \/ InProgress(v)
  BY <1>1, <1>5 DEF InProgress
<1>8. TypingTypeOK'
  BY <1>1, <1>5, <1>6 DEF TypingInv, TypingTypeOK
<1>9. PublishedShows'
  <2> SUFFICES ASSUME NEW d \in TypingCalls, notice'[d].pc = "update", ~crossed'[notice'[d].user]
               PROVE  /\ shown'[notice'[d].user] <=> notice'[d].state # "stopped"
                      /\ \A k \in TypingCalls :
                            notice'[k].pc = "update" /\ notice'[k].user = notice'[d].user => k = d
    BY DEF PublishedShows
  <2>1. notice'[d].user \in Typists
    BY <1>5 DEF Notice
  <2>2. CASE notice'[d].user = u
    <3>1. ~b
      BY <1>6, <2>2, Zenon
    <3>2. \A k \in TypingCalls : notice'[k].pc = "update" /\ notice'[k].user = u => k = c
      BY <1>3, <1>5, <3>1 DEF InProgress
    <3>3. d = c
      BY <2>2, <3>2
    <3> QED
      BY <1>4, <1>5, <1>6, <3>2, <3>3, Zenon
  <2>3. CASE notice'[d].user # u
    <3>1. d # c /\ notice'[d] = notice[d]
      BY <1>5, <2>3
    <3>2. shown'[notice[d].user] = shown[notice[d].user] /\ ~crossed[notice[d].user]
      BY <1>6, <2>1, <2>3, <3>1, Zenon
    <3>3. /\ shown[notice[d].user] <=> notice[d].state # "stopped"
          /\ \A k \in TypingCalls : notice[k].pc = "update" /\ notice[k].user = notice[d].user => k = d
      BY <3>1, <3>2, Zenon DEF TypingInv, PublishedShows
    <3> QED
      BY <1>5, <2>3, <3>1, <3>2, <3>3, Zenon
  <2> QED
    BY <2>2, <2>3
<1>10. ExpiredAreHidden'
  <2> SUFFICES ASSUME NEW v \in worker.expired, ~crossed'[v], ~InProgress(v)' PROVE ~shown'[v]
    BY <1>1 DEF ExpiredAreHidden
  <2>1. v \in Typists
    BY DEF TypingInv, TypingTypeOK, Worker
  <2>2. v # u /\ ~InProgress(v)
    BY <1>7, <2>1, Zenon
  <2> QED
    BY <1>6, <2>1, <2>2, Zenon DEF TypingInv, ExpiredAreHidden
<1>11. IndicatorFollowsMap'
  <2> SUFFICES ASSUME NEW v \in Typists, ~crossed'[v], ~InProgress(v)', v \notin worker.expired
               PROVE  shown'[v] <=> entry[v] # "none"
    BY <1>1 DEF IndicatorFollowsMap
  <2>1. v # u /\ ~InProgress(v)
    BY <1>7, Zenon
  <2> QED
    BY <1>6, <2>1, Zenon DEF TypingInv, IndicatorFollowsMap
<1> QED
  BY <1>8, <1>9, <1>10, <1>11 DEF TypingInv

LEMMA UpdateTypingMapKeeps ==
    ASSUME TypingInv, NEW c \in TypingCalls, UpdateTypingMap(c)
    PROVE  TypingInv'
<1> PICK u \in Typists : u = notice[c].user
  BY DEF TypingInv, TypingTypeOK, Notice
<1> PICK s \in States : s = notice[c].state
  BY DEF TypingInv, TypingTypeOK, Notice
<1> DEFINE a == IF s = "stopped" THEN "none" ELSE "fresh"
<1>1. /\ notice[c].pc = "update" /\ worker.pc = "asleep"
      /\ entry' = [entry EXCEPT ![u] = a]
      /\ notice' = [notice EXCEPT ![c].pc = "idle"]
      /\ UNCHANGED <<shown, worker, crossed, notices>>
  BY DEF UpdateTypingMap
<1>2. worker.expired = {} /\ worker'.expired = {}
  BY <1>1 DEF TypingInv, TypingTypeOK, Asleep
<1>3. /\ notice' \in [TypingCalls -> Notice]
      /\ notice'[c].pc = "idle" /\ notice'[c].user = u
      /\ \A d \in TypingCalls \ {c} : notice'[d] = notice[d]
  BY <1>1 DEF TypingInv, TypingTypeOK, Notice
<1>4. /\ entry' \in [Typists -> {"none", "fresh", "old"}]
      /\ entry'[u] # "none" <=> s # "stopped"
      /\ \A v \in Typists \ {u} : entry'[v] = entry[v]
  BY <1>1 DEF TypingInv, TypingTypeOK
<1>5. TypingTypeOK'
  BY <1>1, <1>2, <1>3, <1>4 DEF TypingInv, TypingTypeOK
<1>6. PublishedShows'
  BY <1>1, <1>3, Zenon DEF TypingInv, PublishedShows
<1>7. ExpiredAreHidden'
  BY <1>2 DEF ExpiredAreHidden
<1>8. IndicatorFollowsMap'
  <2> SUFFICES ASSUME NEW v \in Typists, ~crossed[v], ~InProgress(v)'
               PROVE  shown[v] <=> entry'[v] # "none"
    BY <1>1 DEF IndicatorFollowsMap
  <2>1. CASE v = u
    BY <1>1, <1>4, <2>1, Zenon DEF TypingInv, PublishedShows
  <2>2. CASE v # u
    <3>1. ~InProgress(v)
      BY <1>3, <2>2 DEF InProgress
    <3> QED
      BY <1>2, <1>4, <2>2, <3>1, Zenon DEF TypingInv, IndicatorFollowsMap
  <2> QED
    BY <2>1, <2>2
<1> QED
  BY <1>5, <1>6, <1>7, <1>8 DEF TypingInv

LEMMA VisitTypistKeeps ==
    ASSUME TypingInv, NEW u \in Typists, VisitTypist(u)
    PROVE  TypingInv'
<1>1. u \in worker.todo /\ worker \in Worker /\ worker.pc = "scanning" /\ UNCHANGED <<entry, notice, notices>>
  BY DEF VisitTypist, TypingInv, TypingTypeOK, Asleep, Worker
<1>2. \A v : InProgress(v)' <=> InProgress(v)
  BY <1>1 DEF InProgress
<1>3. ASSUME entry[u] = "old",
             worker' = [worker EXCEPT !.todo = @ \ {u}, !.expired = @ \union {u}],
             shown' = [shown EXCEPT ![u] = FALSE],
             crossed' = [crossed EXCEPT ![u] = InProgress(u)]
      PROVE  TypingInv'
  <2> DEFINE b == InProgress(u)
  <2>1. b \in BOOLEAN
    BY DEF InProgress
  <2>2. crossed' = [crossed EXCEPT ![u] = b]
    BY <1>3
  <2>3. b <=> InProgress(u)
    OBVIOUS
  <2> HIDE DEF b
  <2>4. /\ shown' \in [Typists -> BOOLEAN] /\ crossed' \in [Typists -> BOOLEAN]
        /\ ~shown'[u] /\ crossed'[u] = b
        /\ \A v \in Typists \ {u} : shown'[v] = shown[v] /\ crossed'[v] = crossed[v]
    BY <1>3, <2>1, <2>2 DEF TypingInv, TypingTypeOK
  <2>5. /\ worker' \in Worker /\ worker'.pc = "scanning"
        /\ worker'.expired = worker.expired \union {u}
    BY <1>1, <1>3 DEF Worker
  <2>6. TypingTypeOK'
    BY <1>1, <1>3, <2>4, <2>5 DEF TypingInv, TypingTypeOK
  <2>7. PublishedShows'
    <3> SUFFICES ASSUME NEW d \in TypingCalls, notice[d].pc = "update", ~crossed'[notice[d].user]
                 PROVE  /\ shown'[notice[d].user] <=> notice[d].state # "stopped"
                        /\ \A k \in TypingCalls :
                              notice[k].pc = "update" /\ notice[k].user = notice[d].user => k = d
      BY <1>1 DEF PublishedShows
    <3>1. notice[d].user \in Typists
      BY DEF TypingInv, TypingTypeOK, Notice
    <3>2. notice[d].user # u
      BY <2>3, <2>4, Zenon DEF InProgress
    <3> QED
      BY <2>4, <3>1, <3>2, Zenon DEF TypingInv, PublishedShows
  <2>8. ExpiredAreHidden'
    <3> SUFFICES ASSUME NEW v \in worker.expired \union {u}, ~crossed'[v], ~InProgress(v)
                 PROVE  ~shown'[v]
      BY <1>2, <2>5 DEF ExpiredAreHidden
    <3>1. v \in Typists
      BY <1>1 DEF Worker
    <3> QED
      BY <2>4, <3>1, Zenon DEF TypingInv, ExpiredAreHidden
  <2>9. IndicatorFollowsMap'
    <3> SUFFICES ASSUME NEW v \in Typists \ {u}, ~crossed'[v], ~InProgress(v), v \notin worker.expired
                 PROVE  shown'[v] <=> entry[v] # "none"
      BY <1>1, <1>2, <2>5 DEF IndicatorFollowsMap
    <3> QED
      BY <2>4, Zenon DEF TypingInv, IndicatorFollowsMap
  <2> QED
    BY <2>6, <2>7, <2>8, <2>9 DEF TypingInv
<1>4. ASSUME worker' = [worker EXCEPT !.todo = @ \ {u}], UNCHANGED <<shown, crossed>>
      PROVE  TypingInv'
  <2>1. worker' \in Worker /\ worker'.pc = "scanning" /\ worker'.expired = worker.expired
    BY <1>1, <1>4 DEF Worker
  <2>2. TypingTypeOK'
    BY <1>1, <1>4, <2>1 DEF TypingInv, TypingTypeOK
  <2>3. PublishedShows' /\ ExpiredAreHidden' /\ IndicatorFollowsMap'
    BY <1>1, <1>2, <1>4, <2>1 DEF TypingInv, PublishedShows, ExpiredAreHidden, IndicatorFollowsMap
  <2> QED
    BY <2>2, <2>3 DEF TypingInv
<1> QED
  BY <1>3, <1>4 DEF VisitTypist

LEMMA EndScanKeeps ==
    ASSUME TypingInv, EndScan
    PROVE  TypingInv'
<1>1. /\ entry' = [u \in Typists |-> IF u \in worker.expired THEN "none" ELSE entry[u]]
      /\ worker' = Asleep
      /\ UNCHANGED <<shown, notice, crossed, notices>>
  BY DEF EndScan
<1>2. \A v : InProgress(v)' <=> InProgress(v)
  BY <1>1 DEF InProgress
<1>3. worker'.expired = {} /\ Asleep \in Worker
  BY <1>1 DEF Asleep, Worker
<1>4. TypingTypeOK'
  BY <1>1, <1>3 DEF TypingInv, TypingTypeOK
<1>5. PublishedShows' /\ ExpiredAreHidden'
  BY <1>1, <1>2, <1>3 DEF TypingInv, PublishedShows, ExpiredAreHidden
<1>6. IndicatorFollowsMap'
  BY <1>1, <1>2 DEF TypingInv, TypingTypeOK, ExpiredAreHidden, IndicatorFollowsMap
<1> QED
  BY <1>4, <1>5, <1>6 DEF TypingInv

(* What binds the map of typists and what clients show, however calls and  *)
(* timeouts interleave (messaging/server.go NotifyIsTyping, the timeout    *)
(* worker).                                                                *)
THEOREM TypingInvariant == TypingSpec => []TypingInv
<1>1. TypingInit => TypingInv
  BY TypingAssumption DEF TypingInit, TypingInv, TypingTypeOK, PublishedShows, ExpiredAreHidden,
     IndicatorFollowsMap, InProgress, Asleep, Worker, Notice
<1>2. TypingInv /\ [TypingNext]_typingVars => TypingInv'
  <2> SUFFICES ASSUME TypingInv, [TypingNext]_typingVars PROVE TypingInv'
    OBVIOUS
  <2>1. ASSUME NEW c \in TypingCalls, NEW u \in Typists, NEW s \in States, NotifyIsTyping(c, u, s)
        PROVE  TypingInv'
    <3>1. /\ notices < MaxNotices /\ notices' = notices + 1
          /\ notice[c].pc = "idle"
          /\ notice' = [notice EXCEPT ![c] = [pc |-> "publish", user |-> u, state |-> s]]
          /\ UNCHANGED <<entry, shown, worker, crossed>>
      BY <2>1 DEF NotifyIsTyping
    <3>2. notices' \in 0..MaxNotices
      BY <3>1, TypingAssumption DEF TypingInv, TypingTypeOK
    <3>3. /\ notice' \in [TypingCalls -> Notice] /\ notice'[c].pc = "publish"
          /\ \A d \in TypingCalls \ {c} : notice'[d] = notice[d]
      BY <3>1 DEF TypingInv, TypingTypeOK, Notice
    <3>4. \A v : InProgress(v)' <=> InProgress(v)
      BY <3>1, <3>3 DEF InProgress
    <3>5. TypingTypeOK'
      BY <3>1, <3>2, <3>3 DEF TypingInv, TypingTypeOK
    <3>6. PublishedShows'
      BY <3>1, <3>3, Zenon DEF TypingInv, PublishedShows
    <3>7. ExpiredAreHidden' /\ IndicatorFollowsMap'
      BY <3>1, <3>4 DEF TypingInv, ExpiredAreHidden, IndicatorFollowsMap
    <3> QED
      BY <3>5, <3>6, <3>7 DEF TypingInv
  <2>2. ASSUME NEW u \in Typists, GrowOld(u) PROVE TypingInv'
    <3>1. /\ entry[u] = "fresh" /\ entry' = [entry EXCEPT ![u] = "old"]
          /\ UNCHANGED <<shown, notice, worker, crossed, notices>>
      BY <2>2 DEF GrowOld
    <3>2. \A v : InProgress(v)' <=> InProgress(v)
      BY <3>1 DEF InProgress
    <3>3. TypingTypeOK'
      BY <3>1 DEF TypingInv, TypingTypeOK
    <3>4. PublishedShows' /\ ExpiredAreHidden' /\ IndicatorFollowsMap'
      BY <3>1, <3>2 DEF TypingInv, TypingTypeOK, PublishedShows, ExpiredAreHidden, IndicatorFollowsMap
    <3> QED
      BY <3>3, <3>4 DEF TypingInv
  <2>3. CASE StartScan
    <3>1. /\ worker.pc = "asleep"
          /\ worker' = [pc |-> "scanning", todo |-> {u \in Typists : entry[u] # "none"}, expired |-> {}]
          /\ UNCHANGED <<entry, shown, notice, crossed, notices>>
      BY <2>3 DEF StartScan
    <3>2. worker' \in Worker /\ worker'.pc = "scanning" /\ worker'.expired = {} /\ worker.expired = {}
      BY <3>1 DEF TypingInv, TypingTypeOK, Worker, Asleep
    <3>3. \A v : InProgress(v)' <=> InProgress(v)
      BY <3>1 DEF InProgress
    <3>4. TypingTypeOK'
      BY <3>1, <3>2 DEF TypingInv, TypingTypeOK
    <3>5. PublishedShows' /\ ExpiredAreHidden' /\ IndicatorFollowsMap'
      BY <3>1, <3>2, <3>3 DEF TypingInv, PublishedShows, ExpiredAreHidden, IndicatorFollowsMap
    <3> QED
      BY <3>4, <3>5 DEF TypingInv
  <2>4. CASE UNCHANGED typingVars
    BY <2>4 DEF typingVars, TypingInv, TypingTypeOK, PublishedShows, ExpiredAreHidden,
                IndicatorFollowsMap, InProgress
  <2> QED
    BY <2>1, <2>2, <2>3, <2>4, PublishTypingKeeps, UpdateTypingMapKeeps, VisitTypistKeeps, EndScanKeeps
       DEF TypingNext, WorkerStep
<1> QED
  BY <1>1, <1>2, PTL DEF TypingSpec

(* Every variable keeps its type, and the timeout worker brings nothing    *)
(* from one scan to the next.                                              *)
THEOREM TypingTyped == TypingSpec => []TypingTypeOK
<1>1. TypingInv => TypingTypeOK
  BY DEF TypingInv
<1> QED
  BY <1>1, TypingInvariant, PTL

(* When a call is over, clients show what the map says, unless another     *)
(* publication crossed it (messaging/server.go NotifyIsTyping).            *)
THEOREM IndicatorAlwaysFollowsMap == TypingSpec => []IndicatorFollowsMap
<1>1. TypingInv => IndicatorFollowsMap
  BY DEF TypingInv
<1> QED
  BY <1>1, TypingInvariant, PTL

-----------------------------------------------------------------------------
(***************************************************************************)
(* Paging, for any number of messages, members, inserts in progress and    *)
(* page sizes, on both stores: a walk holds every message once and leaves  *)
(* out only rows that were stored out of order, and the unread count is    *)
(* what it did not hold. Least and greatest rows exist because the order   *)
(* of the naturals is well-founded.                                        *)
(***************************************************************************)

LEMMA NatMin ==
    ASSUME NEW T \in SUBSET Nat, T # {}
    PROVE  \E x \in T : \A y \in T : x <= y
<1> DEFINE R == OpToRel(<, Nat)
<1>1. IsWellFoundedOn(R, Nat)
  BY NatLessThanWellFounded, Zenon
<1>2. \A x, y \in Nat : y < x => <<y, x>> \in R
  BY Zenon DEF OpToRel
<1> HIDE DEF R
<1>3. \E x \in T : \A y \in T : ~ <<y, x>> \in R
  BY <1>1, WFMin
<1>4. PICK x \in T : \A y \in T : ~ <<y, x>> \in R
  BY <1>3
<1>5. \A y \in T : ~(y < x)
  BY <1>2, <1>4
<1>6. \A y \in T : x <= y
  BY <1>5
<1> QED
  BY <1>4, <1>6

(* Among rows there is a first and a last one, in either order.            *)
LEMMA EndsOfRows ==
    ASSUME NEW S \in SUBSET Row, S # {}, NEW order \in {"ASC", "DESC"}
    PROVE  /\ \E m \in S : \A n \in S : ~Precedes(order, m, n)
           /\ \E m \in S : \A n \in S : ~Precedes(order, n, m)
<1>1. \A m \in S : m.id \in Nat /\ MaxMessages - m.id \in Nat
  BY PagingAssumption DEF Row, MessageIds
<1> DEFINE ids == {m.id : m \in S}
           above == {MaxMessages - m.id : m \in S}
<1>2. ids \in SUBSET Nat /\ ids # {} /\ above \in SUBSET Nat /\ above # {}
  BY <1>1
<1> HIDE DEF ids, above
<1>3. PICK x \in ids : \A y \in ids : x <= y
  BY <1>2, NatMin
<1>4. PICK z \in above : \A y \in above : z <= y
  BY <1>2, NatMin
<1>5. PICK least \in S : least.id = x
  BY <1>3 DEF ids
<1>6. PICK greatest \in S : MaxMessages - greatest.id = z
  BY <1>4 DEF above
<1>7. \A n \in S : least.id <= n.id
  BY <1>3, <1>5 DEF ids
<1>8. \A n \in S : n.id <= greatest.id
  <2> SUFFICES ASSUME NEW n \in S PROVE n.id <= greatest.id
    OBVIOUS
  <2>1. MaxMessages - greatest.id <= MaxMessages - n.id
    BY <1>4, <1>6 DEF above
  <2> QED
    BY <2>1, <1>1, PagingAssumption
<1>9. /\ \A n \in S : ~(n.id < least.id)
      /\ \A n \in S : ~(greatest.id < n.id)
  BY <1>1, <1>7, <1>8
<1> QED
  BY <1>9 DEF Precedes

-----------------------------------------------------------------------------
InFlight == {put[p] : p \in Puts} \ {NoPut}

(* Ids are used once, and in the order in which they were handed out.      *)
IdsAreUsedOnce ==
    /\ \A m, n \in messages \union InFlight : m.id = n.id => m = n
    /\ \A m \in messages \union InFlight : m.id < nextId

(* What a walk has passed.                                                 *)
WalkInv ==
    Walking =>
        /\ walk \in Walk
        /\ walk.before \subseteq messages /\ walk.seen \subseteq messages
        /\ walk.token = 0 => walk.seen = {}
        /\ walk.token # 0 => \E m \in messages : m.id = walk.token
        /\ \A m \in walk.seen : Passed(m)
        /\ walk.count = Cardinality(walk.seen)
        /\ \A m \in walk.before : Passed(m) \/ walk.done => m \in walk.seen
        /\ walk.order = "ASC" => \A m \in messages :
              Passed(m) /\ m \notin walk.seen => m \in late /\ onPostgres

PagingInv ==
    /\ messages \subseteq Row /\ IsFiniteSet(messages)
    /\ nextId \in 1..(MaxMessages + 1)
    /\ put \in [Puts -> Row \union {NoPut}]
    /\ late \subseteq messages
    /\ onPostgres \in BOOLEAN
    /\ onPostgres \/ \A p \in Puts : put[p] = NoPut
    /\ IdsAreUsedOnce
    /\ WalkInv

(* A page begins with the first row after the token and leaves none out.   *)
LEMMA PageFacts ==
    ASSUME PagingInv, NEW order \in {"ASC", "DESC"}, NEW token, NEW limit \in Nat \ {0}
    PROVE  /\ Page(order, token, limit) \subseteq AfterToken(order, token)
           /\ AfterToken(order, token) \subseteq messages
           /\ IsFiniteSet(Page(order, token, limit))
           /\ Page(order, token, limit) = {} => AfterToken(order, token) = {}
           /\ \A m \in AfterToken(order, token), n \in Page(order, token, limit) :
                 Precedes(order, m, n) => m \in Page(order, token, limit)
<1> DEFINE rows == AfterToken(order, token)
           before(m) == {n \in rows : Precedes(order, n, m)}
           page == Page(order, token, limit)
<1>1. rows \subseteq messages
  BY DEF AfterToken
<1>2. page = {m \in rows : Cardinality(before(m)) < limit}
  BY DEF Page
<1> HIDE DEF rows, page
<1>3. IsFiniteSet(rows) /\ rows \in SUBSET Row
  BY <1>1, FS_Subset DEF PagingInv
<1>4. page \subseteq rows /\ IsFiniteSet(page)
  BY <1>2, <1>3, FS_Subset
<1>5. ASSUME page = {} PROVE rows = {}
  <2> SUFFICES ASSUME rows # {} PROVE FALSE
    OBVIOUS
  <2>1. PICK first \in rows : \A n \in rows : ~Precedes(order, n, first)
    BY <1>3, EndsOfRows
  <2>2. before(first) = {}
    BY <2>1
  <2>3. Cardinality(before(first)) = 0
    BY <2>2, FS_EmptySet, Zenon
  <2>4. 0 < limit
    OBVIOUS
  <2> HIDE DEF before
  <2> QED
    BY <1>2, <1>5, <2>1, <2>3, <2>4
<1>6. ASSUME NEW m \in rows, NEW n \in page, Precedes(order, m, n) PROVE m \in page
  <2>1. n \in rows /\ Cardinality(before(n)) < limit
    BY <1>2
  <2>2. \A k \in rows : k.id \in Nat
    BY <1>3, PagingAssumption DEF Row, MessageIds
  <2>3. before(m) \subseteq before(n)
    BY <1>6, <2>1, <2>2 DEF Precedes
  <2>4. IsFiniteSet(before(n))
    BY <1>3, FS_Subset
  <2> HIDE DEF before
  <2>5. /\ Cardinality(before(m)) <= Cardinality(before(n))
        /\ Cardinality(before(m)) \in Nat /\ Cardinality(before(n)) \in Nat
    BY <2>3, <2>4, FS_Subset, FS_CardinalityType
  <2>6. Cardinality(before(m)) < limit
    BY <2>1, <2>5
  <2> QED
    BY <1>2, <2>6
<1> QED
  BY <1>1, <1>4, <1>5, <1>6 DEF rows, page

LEMMA LastOfPage ==
    ASSUME NEW page \in SUBSET Row, page # {}, NEW order \in {"ASC", "DESC"}
    PROVE  /\ LastOf(order, page) \in page
           /\ \A n \in page : ~Precedes(order, LastOf(order, page), n)
BY EndsOfRows DEF LastOf

LEMMA PagingBegins == PagingInit => PagingInv
<1> SUFFICES ASSUME PagingInit PROVE PagingInv
  OBVIOUS
<1>1. 1 \in 1..(MaxMessages + 1)
  BY PagingAssumption
<1>2. IsFiniteSet({})
  BY FS_EmptySet
<1>3. InFlight = {}
  BY DEF PagingInit, InFlight
<1> QED
  BY <1>1, <1>2, <1>3 DEF PagingInit, PagingInv, IdsAreUsedOnce, WalkInv, Walking

(* A row with an id of its own is stored: if it comes behind a row with a  *)
(* later id, it is among the late ones.                                    *)
LEMMA StoredRow ==
    ASSUME PagingInv, NEW row \in Row, messages' = messages \union {row},
           \A m \in messages : m.id = row.id => m = row,
           late' \in {late, late \union {row}},
           (\E m \in messages : m.id > row.id) => row \in late' /\ onPostgres,
           UNCHANGED <<walk, onPostgres>>
    PROVE  messages' \subseteq Row /\ IsFiniteSet(messages') /\ late' \subseteq messages' /\ WalkInv'
<1>1. messages' \subseteq Row /\ IsFiniteSet(messages') /\ late' \subseteq messages'
  BY FS_AddElement DEF PagingInv
<1>2. ASSUME Walking, walk.order = "ASC", Passed(row), row \notin walk.seen, row \notin messages
      PROVE  row \in late' /\ onPostgres
  <2>1. PICK m \in messages : m.id = walk.token
    BY <1>2 DEF PagingInv, WalkInv, Passed
  <2>2. m.id \in Nat /\ row.id \in Nat
    BY <2>1, PagingAssumption DEF PagingInv, Row, MessageIds
  <2>3. row.id <= m.id /\ row.id # m.id
    BY <1>2, <2>1 DEF Passed
  <2> QED
    BY <2>1, <2>2, <2>3
<1>3. WalkInv'
  <2> SUFFICES ASSUME Walking PROVE WalkInv'
    BY DEF WalkInv, Walking
  <2>1. /\ walk \in Walk
        /\ walk.before \subseteq messages' /\ walk.seen \subseteq messages'
        /\ walk.token = 0 => walk.seen = {}
        /\ walk.token # 0 => \E m \in messages' : m.id = walk.token
        /\ \A m \in walk.seen : Passed(m)
        /\ walk.count = Cardinality(walk.seen)
        /\ \A m \in walk.before : Passed(m) \/ walk.done => m \in walk.seen
    BY DEF PagingInv, WalkInv
  <2>2. walk.order = "ASC" => \A m \in messages' :
            Passed(m) /\ m \notin walk.seen => m \in late' /\ onPostgres
    BY <1>2 DEF PagingInv, WalkInv
  <2> QED
    BY <2>1, <2>2 DEF WalkInv, Walking, Passed
<1> QED
  BY <1>1, <1>3

LEMMA PutInMemoryKeeps ==
    ASSUME PagingInv, NEW m \in Row, PutInMemory(m)
    PROVE  PagingInv'
<1>1. /\ ~onPostgres /\ nextId <= MaxMessages /\ m.id = nextId
      /\ messages' = messages \union {m} /\ nextId' = nextId + 1
      /\ put' = put /\ late' = late /\ walk' = walk /\ onPostgres' = onPostgres
  BY DEF PutInMemory
<1>2. nextId \in Nat /\ nextId' \in 1..(MaxMessages + 1)
  BY <1>1, PagingAssumption DEF PagingInv
<1>3. \A n \in messages \union InFlight : n.id \in Nat /\ n.id < nextId
  BY PagingAssumption DEF PagingInv, IdsAreUsedOnce, InFlight, Row, MessageIds
<1>4. InFlight' = InFlight
  BY <1>1 DEF InFlight
<1>5. IdsAreUsedOnce'
  BY <1>1, <1>2, <1>3, <1>4 DEF PagingInv, IdsAreUsedOnce
<1>6. (\A n \in messages : n.id = m.id => n = m) /\ ~ \E n \in messages : n.id > m.id
  BY <1>1, <1>2, <1>3
<1>7. messages' \subseteq Row /\ IsFiniteSet(messages') /\ late' \subseteq messages' /\ WalkInv'
  BY <1>1, <1>6, StoredRow
<1> QED
  BY <1>1, <1>2, <1>5, <1>7 DEF PagingInv

LEMMA GenerateIdKeeps ==
    ASSUME PagingInv, NEW p \in Puts, NEW m \in Row, GenerateId(p, m)
    PROVE  PagingInv'
<1>1. /\ onPostgres /\ nextId <= MaxMessages /\ m.id = nextId
      /\ put' = [put EXCEPT ![p] = m] /\ nextId' = nextId + 1
      /\ messages' = messages /\ late' = late /\ walk' = walk /\ onPostgres' = onPostgres
  BY DEF GenerateId
<1>2. nextId \in Nat /\ nextId' \in 1..(MaxMessages + 1)
  BY <1>1, PagingAssumption DEF PagingInv
<1>3. \A n \in messages \union InFlight : n.id \in Nat /\ n.id < nextId
  BY PagingAssumption DEF PagingInv, IdsAreUsedOnce, InFlight, Row, MessageIds
<1>4. put' \in [Puts -> Row \union {NoPut}] /\ InFlight' \subseteq InFlight \union {m}
  BY <1>1 DEF PagingInv, InFlight
<1>5. IdsAreUsedOnce'
  BY <1>1, <1>2, <1>3, <1>4 DEF PagingInv, IdsAreUsedOnce
<1>6. WalkInv'
  BY <1>1 DEF PagingInv, WalkInv, Walking, Passed
<1> QED
  BY <1>1, <1>2, <1>4, <1>5, <1>6 DEF PagingInv

LEMMA InsertMessageKeeps ==
    ASSUME PagingInv, NEW p \in Puts, InsertMessage(p)
    PROVE  PagingInv'
<1> DEFINE row == put[p]
<1>1. /\ row # NoPut /\ put' = [put EXCEPT ![p] = NoPut] /\ nextId' = nextId
      /\ walk' = walk /\ onPostgres' = onPostgres
      /\ \/ /\ messages' = messages \union {row}
            /\ late' = IF \E m \in messages : m.id > row.id THEN late \union {row} ELSE late
         \/ messages' = messages /\ late' = late
  BY DEF InsertMessage
<1>2. row \in Row /\ row \in InFlight /\ onPostgres
  BY <1>1 DEF PagingInv, InFlight
<1>3. put' \in [Puts -> Row \union {NoPut}] /\ InFlight' \subseteq InFlight
  BY <1>1 DEF PagingInv, InFlight
<1> HIDE DEF row
<1>4. messages' \subseteq messages \union {row}
  BY <1>1
<1>5. IdsAreUsedOnce'
  BY <1>1, <1>2, <1>3, <1>4 DEF PagingInv, IdsAreUsedOnce
<1>6. messages' \subseteq Row /\ IsFiniteSet(messages') /\ late' \subseteq messages' /\ WalkInv'
  <2>1. CASE messages' = messages /\ late' = late
    BY <1>1, <2>1 DEF PagingInv, WalkInv, Walking, Passed
  <2>2. CASE /\ messages' = messages \union {row}
             /\ late' = IF \E m \in messages : m.id > row.id THEN late \union {row} ELSE late
    <3>1. \A m \in messages : m.id = row.id => m = row
      BY <1>2 DEF PagingInv, IdsAreUsedOnce
    <3>2. late' \in {late, late \union {row}}
      BY <2>2
    <3>3. (\E m \in messages : m.id > row.id) => row \in late' /\ onPostgres
      BY <1>2, <2>2
    <3> QED
      BY <1>1, <1>2, <2>2, <3>1, <3>2, <3>3, StoredRow
  <2> QED
    BY <1>1, <2>1, <2>2
<1> QED
  BY <1>1, <1>2, <1>3, <1>5, <1>6 DEF PagingInv

LEMMA StartWalkKeeps ==
    ASSUME PagingInv, NEW reader \in Members, NEW order \in {"ASC", "DESC"}, NEW limit \in PageLimits,
           StartWalk(reader, order, limit)
    PROVE  PagingInv'
<1> DEFINE new == [reader |-> reader, order |-> order, limit |-> limit, token |-> 0,
                   before |-> messages, seen |-> {}, count |-> 0, done |-> FALSE]
<1>1. walk' = new /\ messages' = messages /\ nextId' = nextId /\ put' = put /\ late' = late
      /\ onPostgres' = onPostgres
  BY DEF StartWalk
<1>2. /\ new \in Walk /\ new.before = messages /\ new.seen = {} /\ new.token = 0
      /\ new.count = 0 /\ new.done = FALSE
  BY PagingAssumption DEF Walk, PagingInv
<1> HIDE DEF new
<1>3. Cardinality({}) = 0
  BY FS_EmptySet
<1>4. WalkInv'
  BY <1>1, <1>2, <1>3 DEF WalkInv, Walking, Passed
<1>5. InFlight' = InFlight
  BY <1>1 DEF InFlight
<1>6. IdsAreUsedOnce'
  BY <1>1, <1>5 DEF PagingInv, IdsAreUsedOnce
<1> QED
  BY <1>1, <1>4, <1>6 DEF PagingInv

LEMMA GetNextPageKeeps ==
    ASSUME PagingInv, GetNextPage
    PROVE  PagingInv'
<1> DEFINE order == walk.order
           page == Page(order, walk.token, walk.limit)
           last == LastOf(order, page)
           token == IF page = {} THEN walk.token ELSE last.id
           seen == walk.seen \union page
           count == walk.count + Cardinality(page)
           done == page = {}
<1>1. /\ ~walk.done /\ messages' = messages /\ nextId' = nextId /\ put' = put /\ late' = late
      /\ onPostgres' = onPostgres
  BY DEF GetNextPage
<1>2. walk' = [walk EXCEPT !.token = token, !.seen = seen, !.count = count, !.done = done]
  BY Zenon DEF GetNextPage
<1>3. Walking
  <2>1. NoWalk.done
    BY DEF NoWalk
  <2> QED
    BY <1>1, <2>1 DEF Walking
<1>4. /\ walk \in Walk /\ walk.before \subseteq messages /\ walk.seen \subseteq messages
      /\ walk.token = 0 => walk.seen = {}
      /\ walk.token # 0 => \E m \in messages : m.id = walk.token
      /\ \A m \in walk.seen : Passed(m)
      /\ walk.count = Cardinality(walk.seen)
      /\ \A m \in walk.before : Passed(m) => m \in walk.seen
      /\ order = "ASC" => \A m \in messages : Passed(m) /\ m \notin walk.seen => m \in late /\ onPostgres
  BY <1>3 DEF PagingInv, WalkInv
<1>5. /\ order \in {"ASC", "DESC"} /\ walk.limit \in Nat \ {0} /\ walk.token \in 0..MaxMessages
      /\ walk.token \in Nat
  <2>1. walk.order \in {"ASC", "DESC"} /\ walk.limit \in PageLimits /\ walk.token \in 0..MaxMessages
    BY <1>4 DEF Walk
  <2>2. walk.limit \in Nat \ {0}
    BY <2>1, PagingAssumption
  <2>3. walk.token \in Nat
    BY <2>1, PagingAssumption
  <2> QED
    BY <2>1, <2>2, <2>3
<1>6. done \in BOOLEAN
  OBVIOUS
<1> HIDE DEF order
<1>7. /\ page \subseteq AfterToken(order, walk.token) /\ AfterToken(order, walk.token) \subseteq messages
      /\ IsFiniteSet(page)
      /\ page = {} => AfterToken(order, walk.token) = {}
      /\ \A m \in AfterToken(order, walk.token), n \in page : Precedes(order, m, n) => m \in page
  BY <1>5, PageFacts
<1> HIDE DEF page
<1>8. messages \subseteq Row /\ \A m \in messages : m.id \in Nat /\ m.id # 0 /\ m.id \in 1..MaxMessages
  BY PagingAssumption DEF PagingInv, Row, MessageIds
<1>9. page # {} => last \in page /\ \A n \in page : ~Precedes(order, last, n)
  BY <1>5, <1>7, <1>8, LastOfPage
<1> HIDE DEF last
<1>10. token \in 0..MaxMessages /\ seen \subseteq messages /\ seen \in SUBSET Row
  BY <1>4, <1>5, <1>7, <1>8, <1>9
<1>11. count \in Nat /\ count = Cardinality(seen)
  <2>1. walk.seen \intersect page = {}
    <3> SUFFICES ASSUME NEW m \in walk.seen, m \in AfterToken(order, walk.token) PROVE FALSE
      BY <1>7
    <3> QED
      BY <1>4, <1>5, <1>8 DEF AfterToken, Passed, order
  <2>2. IsFiniteSet(walk.seen)
    BY <1>4, FS_Subset DEF PagingInv
  <2>3. Cardinality(walk.seen \union page)
          = Cardinality(walk.seen) + Cardinality(page) - Cardinality(walk.seen \intersect page)
    BY <1>7, <2>2, FS_Union
  <2>4. Cardinality(walk.seen \intersect page) = 0
    BY <2>1, FS_EmptySet, Zenon
  <2>5. Cardinality(walk.seen) \in Nat /\ Cardinality(page) \in Nat
    BY <1>7, <2>2, FS_CardinalityType
  <2> QED
    BY <1>4, <2>3, <2>4, <2>5
<1>12. token # 0 => \E m \in messages : m.id = token
  BY <1>4, <1>7, <1>9
<1>13. token = 0 => seen = {}
  BY <1>4, <1>7, <1>8, <1>9
<1> DEFINE passed(m) == /\ token # 0
                        /\ IF order = "ASC" THEN m.id <= token ELSE m.id >= token
\* what it passes now is on the page, for the page leaves nothing out
<1>14. \A m \in messages : Passed(m) => passed(m)
  <2> SUFFICES ASSUME NEW m \in messages, Passed(m), page # {} PROVE passed(m)
    BY DEF Passed, order
  <2>1. last \in AfterToken(order, walk.token) /\ last \in messages
    BY <1>7, <1>9
  <2> QED
    BY <1>5, <1>8, <2>1 DEF Passed, AfterToken, order
<1>15. \A m \in seen : passed(m)
  <2>1. ASSUME NEW m \in page PROVE passed(m)
    <3>1. m \in messages /\ last \in messages /\ ~Precedes(order, last, m) /\ page # {}
      BY <1>7, <1>9, <2>1
    <3>2. m.id \in Nat /\ last.id \in Nat /\ last.id # 0
      BY <1>8, <3>1
    <3> QED
      BY <1>5, <3>1, <3>2 DEF Precedes
  <2> QED
    BY <1>4, <1>14, <2>1
<1>16. ASSUME NEW m \in messages, passed(m), ~Passed(m) PROVE m \in page
  <2>1. page # {}
    BY <1>16 DEF Passed, order
  <2>2. m \in AfterToken(order, walk.token)
    BY <1>5, <1>8, <1>16 DEF AfterToken, Passed, order
  <2>3. last \in messages /\ last \in page
    BY <1>7, <1>9, <2>1
  <2>4. m.id \in Nat /\ last.id \in Nat
    BY <1>8, <2>3
  <2>5. CASE m.id = last.id
    BY <2>3, <2>5 DEF PagingInv, IdsAreUsedOnce
  <2>6. CASE m.id # last.id
    <3>1. Precedes(order, m, last)
      BY <1>5, <1>16, <2>1, <2>4, <2>6 DEF Precedes
    <3> QED
      BY <1>7, <2>2, <2>3, <3>1
  <2> QED
    BY <2>5, <2>6
<1>17. ASSUME NEW m \in messages, done PROVE Passed(m)
  BY <1>5, <1>7, <1>8, <1>17 DEF AfterToken, Passed, order
<1>18. \A m \in walk.before : passed(m) \/ done => m \in seen
  BY <1>4, <1>16, <1>17
<1>19. order = "ASC" => \A m \in messages : passed(m) /\ m \notin seen => m \in late /\ onPostgres
  BY <1>4, <1>16
<1> HIDE DEF token, seen, count, done
<1>20. /\ walk' \in Walk /\ walk'.order = order /\ walk'.before = walk.before
       /\ walk'.token = token /\ walk'.seen = seen /\ walk'.count = count
  <2>1. seen \in SUBSET Row /\ count \in Nat /\ token \in 0..MaxMessages /\ done \in BOOLEAN
    BY <1>6, <1>10, <1>11
  <2> QED
    BY <1>2, <1>4, <2>1 DEF Walk, order
<1>21. walk'.done = done
  BY <1>2, <1>4 DEF Walk
<1>22. \A m : Passed(m)' <=> passed(m)
  BY <1>20 DEF Passed
<1>23. WalkInv'
  BY <1>1, <1>4, <1>10, <1>11, <1>12, <1>13, <1>15, <1>18, <1>19, <1>20, <1>21, <1>22 DEF WalkInv
<1>24. InFlight' = InFlight
  BY <1>1 DEF InFlight
<1>25. IdsAreUsedOnce'
  BY <1>1, <1>24 DEF PagingInv, IdsAreUsedOnce
<1> QED
  BY <1>1, <1>23, <1>25 DEF PagingInv

(* Rows stored in and out of order, while a member pages through them.     *)
THEOREM PagingInvariant == PagingSpec => []PagingInv
<1>1. PagingInv /\ [PagingNext]_pagingVars => PagingInv'
  <2>1. CASE UNCHANGED pagingVars
    BY <2>1 DEF pagingVars, PagingInv, IdsAreUsedOnce, InFlight, WalkInv, Walking, Passed
  <2> QED
    BY <2>1, PutInMemoryKeeps, GenerateIdKeeps, InsertMessageKeeps, StartWalkKeeps, GetNextPageKeeps
    DEF PagingNext
<1> QED
  BY <1>1, PagingBegins, PTL DEF PagingSpec

(* Every variable keeps its type, and no two messages have one id.         *)
THEOREM PagingTyped == PagingSpec => []PagingTypeOK
<1>1. PagingInv => PagingTypeOK
  BY DEF PagingInv, PagingTypeOK, IdsAreUsedOnce, InFlight, WalkInv
<1> QED
  BY <1>1, PagingInvariant, PTL

(* Walks of any length, over any number of messages, in pages of any size. *)
THEOREM WalksAlwaysComplete == PagingSpec => []WalksAreComplete
<1>1. PagingInv => WalksAreComplete
  BY DEF PagingInv, WalkInv, WalksAreComplete
<1> QED
  BY <1>1, PagingInvariant, PTL

LEMMA MinOfTwo ==
    ASSUME NEW a \in Nat, NEW b \in Nat
    PROVE  Min({a, b}) = IF a <= b THEN a ELSE b
BY DEF Min

(* Marking as read what a walk held leaves unread what it did not hold.    *)
THEOREM UnreadAlwaysWhatWasNotPaged == PagingSpec => []UnreadIsWhatWasNotPaged
<1>1. PagingInv => UnreadIsWhatWasNotPaged
  <2> SUFFICES ASSUME PagingInv, Walking, walk.order = "ASC"
               PROVE  UnreadIsWhatWasNotPaged
    BY DEF UnreadIsWhatWasNotPaged
  <2> DEFINE missing == {m \in messages \ walk.seen : m.sender # walk.reader /\ m.kind = "text"}
             counted == {m \in missing : ~(m \in late /\ Passed(m))}
             rows == UnreadRows(walk.reader, walk.token)
             unread == Cardinality(counted)
  <2>1. \A m \in messages : m.id \in Nat /\ m.id # 0
    BY PagingAssumption DEF PagingInv, Row, MessageIds
  <2>2. walk.token \in Nat
    BY PagingAssumption DEF PagingInv, WalkInv, Walk
  <2>3. \A m \in messages : Passed(m) <=> ~(m.id > walk.token)
    BY <2>1, <2>2 DEF Passed
  <2>4. /\ \A m \in walk.seen : Passed(m)
        /\ \A m \in messages : Passed(m) /\ m \notin walk.seen => m \in late
    BY DEF PagingInv, WalkInv
  <2>5. rows = counted
    BY <2>3, <2>4 DEF UnreadRows
  <2>6. IsFiniteSet(counted)
    BY FS_Subset DEF PagingInv
  <2>7. unread \in Nat
    BY <2>6, FS_CardinalityType
  <2> HIDE DEF rows, counted
  <2>8. Cardinality(rows) = unread
    BY <2>5, Zenon
  <2> HIDE DEF unread
  <2>9. GetUnreadCount(walk.reader, walk.token) = <<Min({unread, MaxUnread}), unread > MaxUnread>>
    <3>1. CountUnread(walk.reader, walk.token, MaxUnread + 1) = Min({unread, MaxUnread + 1})
      BY <2>8, Zenon DEF CountUnread, rows
    <3>2. MaxUnread \in Nat /\ MaxUnread + 1 \in Nat
      BY PagingAssumption
    <3>3. /\ Min({unread, MaxUnread + 1}) = IF unread <= MaxUnread + 1 THEN unread ELSE MaxUnread + 1
          /\ Min({unread, MaxUnread}) = IF unread <= MaxUnread THEN unread ELSE MaxUnread
      BY <2>7, <3>2, MinOfTwo
    <3>4. CASE unread > MaxUnread
      <4>1. CountUnread(walk.reader, walk.token, MaxUnread + 1) > MaxUnread
        BY <2>7, <3>1, <3>2, <3>3, <3>4
      <4>2. Min({unread, MaxUnread}) = MaxUnread
        BY <2>7, <3>2, <3>3, <3>4
      <4> QED
        BY <3>4, <4>1, <4>2, Zenon DEF GetUnreadCount
    <3>5. CASE ~(unread > MaxUnread)
      <4>1. ~(CountUnread(walk.reader, walk.token, MaxUnread + 1) > MaxUnread)
            /\ CountUnread(walk.reader, walk.token, MaxUnread + 1) = unread
        BY <2>7, <3>1, <3>2, <3>3, <3>5
      <4>2. Min({unread, MaxUnread}) = unread
        BY <2>7, <3>2, <3>3, <3>5
      <4>3. (unread > MaxUnread) = FALSE
        BY <3>5
      <4> QED
        BY <3>5, <4>1, <4>2, <4>3, Zenon DEF GetUnreadCount
    <3> QED
      BY <3>4, <3>5
  <2> QED
    BY <2>9 DEF UnreadIsWhatWasNotPaged, unread, counted
<1> QED
  BY <1>1, PagingInvariant, PTL

-----------------------------------------------------------------------------

(* The model that is checked is the three parts beside each other.         *)
LEMMA PartsOfMessaging == MCSpec => Spec /\ TypingSpec /\ PagingSpec
<1>1. MCInit => Init /\ TypingInit /\ PagingInit
  BY DEF MCInit
<1>2. [MCNext]_mcVars => [Next]_vars /\ [TypingNext]_typingVars /\ [PagingNext]_pagingVars
  BY DEF MCNext, mcVars
<1> QED
  BY <1>1, <1>2, PTL DEF MCSpec, Spec, TypingSpec, PagingSpec

(* Every variable of the messaging server keeps its type, whichever part   *)
(* moves, and no two messages have one id.                                 *)
THEOREM MessagingTypesCorrect == MCSpec => []TypesOK
<1>1. TypeOK /\ TypingTypeOK /\ PagingTypeOK => TypesOK
  BY DEF TypesOK
<1> QED
  BY <1>1, PartsOfMessaging, PointersTypeCorrect, TypingTyped, PagingTyped, PTL
=============================================================================

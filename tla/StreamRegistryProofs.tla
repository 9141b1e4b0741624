------------------------ MODULE StreamRegistryProofs ------------------------
(***************************************************************************)
(* Proofs about StreamRegistry, for any users, calls, publishers, buffer   *)
(* sizes and numbers of updates, for both servers: no handler waits on a   *)
(* stream that cannot be found, the registry keeps no stream of a call     *)
(* that is over, and a client that got its flush misses no update.         *)
(***************************************************************************)
EXTENDS MCStreamRegistry, TLAPS

(* What a thread may be at: a call's flushes its own stream, a publisher   *)
(* notifies one stream at a time.                                          *)
GoodThread(t, r) ==
    /\ r \in Thread
    /\ t \in Calls =>
          /\ r.pc \notin {"publish", "deliver"}
          /\ r.todo = {}
          /\ r.pc # "idle" => r.at = t
    /\ t \in Publishers =>
          /\ r.pc # "flush"
          /\ r.pc = "idle" => r = Resting
          /\ r.pc \in {"publish", "deliver"} => r.at = Nobody
          /\ r.pc \in {"lock", "select", "close"} => r.at \in Calls

GoodThreads == \A t \in Threads : GoodThread(t, thread[t])

(* A call that has no stream yet has not begun to flush.                   *)
NothingFlushedEarly ==
    \A c \in Calls :
        call[c] \in {"new", "replace"} => thread[c] = Resting /\ ~flushed[c]

(* A stream is replaced by the call that holds streamsMu for writing.      *)
ReplacerWrites ==
    \A c \in Calls :
        call[c] = "replace" => writer = c /\ registry[UserOf[c]] # Nobody

(* The registry keeps a user's own streams.                                *)
RegistryServes ==
    \A u \in Users :
        registry[u] # Nobody =>
            UserOf[registry[u]] = u /\ call[registry[u]] \in {"loop", "cleanup"}

Shape ==
    /\ TypeOK
    /\ GoodThreads
    /\ NothingFlushedEarly
    /\ ReplacerWrites
    /\ RegistryServes
    /\ NeverOrphaned

(* What is about to be flushed to a stream lacks only what the stream has  *)
(* and what is on its way.                                                 *)
FlushCovers ==
    \A c \in Calls :
        call[c] = "loop" /\ ~closed[c] /\ thread[c].pc \in {"lock", "select"} =>
            \A v \in 1..version :
                v \in thread[c].carries \/ v \in known[c] \/ OnItsWay(v, c)

RegistryInv == Shape /\ FlushCovers /\ NothingMissed

-----------------------------------------------------------------------------
(* A thread at rest is as it should be.                                    *)
LEMMA RestingIsGood ==
    /\ Resting \in Thread /\ Resting.pc = "idle" /\ Resting.todo = {}
    /\ Resting.carries = {} /\ Resting.at = Nobody
    /\ \A t \in Threads : GoodThread(t, Resting)
<1>1. /\ Resting \in Thread /\ Resting.pc = "idle" /\ Resting.todo = {}
      /\ Resting.carries = {} /\ Resting.at = Nobody
  BY DEF Resting, Thread
<1> QED
  BY <1>1 DEF GoodThread

(* In the beginning no call has a stream.                                  *)
LEMMA RegistryInitInv == Init => RegistryInv
<1> SUFFICES ASSUME Init PROVE RegistryInv
  OBVIOUS
<1>1. TypeOK
  <2>1. MaxUpdates \in Nat /\ Capacity \in Nat
    BY RegistryAssumption
  <2> QED
    BY <2>1, RestingIsGood DEF Init, TypeOK
<1>2. GoodThreads
  BY RestingIsGood DEF Init, GoodThreads
<1>3. \A c \in Calls : c \in Threads /\ thread[c] = Resting /\ call[c] = "new" /\ ~flushed[c]
  BY DEF Init, Threads
<1> QED
  BY <1>1, <1>2, <1>3
     DEF Init, RegistryInv, Shape, NothingFlushedEarly, ReplacerWrites, RegistryServes,
         NeverOrphaned, FlushCovers, NothingMissed

-----------------------------------------------------------------------------
(* A thread steps, and no call or registry does.                           *)
LEMMA ThreadStepKeepsShape ==
    ASSUME Shape, NEW t \in Threads, NEW r, GoodThread(t, r), Become(t, r),
           thread[t] # Resting \/ t \in Publishers,
           UNCHANGED <<style, writer, registry, call>>,
           TypeOK',
           \A c \in Calls : ~closed'[c] => ~closed[c],
           \A c \in Calls : c # t => flushed'[c] = flushed[c]
    PROVE  Shape'
<1>1. /\ thread \in [Threads -> Thread] /\ thread' = [thread EXCEPT ![t] = r]
      /\ Publishers \cap Calls = {}
  BY RegistryAssumption DEF Shape, TypeOK, Become
<1>2. thread'[t] = r /\ \A q \in Threads : q # t => thread'[q] = thread[q]
  BY <1>1
<1>3. GoodThreads'
  BY <1>2 DEF Shape, GoodThreads
<1>4. NothingFlushedEarly'
  BY <1>1, <1>2 DEF Shape, NothingFlushedEarly, Threads
<1>5. ReplacerWrites' /\ RegistryServes' /\ NeverOrphaned'
  BY DEF Shape, ReplacerWrites, RegistryServes, NeverOrphaned
<1> QED
  BY <1>3, <1>4, <1>5 DEF Shape

(* Notify of one stream.                                                   *)
LEMMA NotifyKeepsShape ==
    ASSUME Shape, NEW t \in Threads, NotifyStep(t)
    PROVE  Shape'
<1> DEFINE r == thread[t]
<1>1. /\ TypeOK /\ r \in Thread /\ GoodThread(t, r) /\ thread \in [Threads -> Thread]
      /\ r.pc \in {"lock", "select", "close"}
      /\ t \in Calls \/ t \in Publishers
      /\ Publishers \cap Calls = {}
  BY RegistryAssumption
     DEF Shape, TypeOK, GoodThreads, NotifyStep, Lock, SelectSend, SelectTimeout, Close, At, Threads
<1>2. r # Resting /\ r.at \in Calls
  BY <1>1, RestingIsGood DEF GoodThread
<1>3. Onward(t) \in Thread /\ GoodThread(t, Onward(t))
  <2>1. CASE t \in Calls
    BY <1>1, <2>1, RestingIsGood DEF Onward
  <2>2. CASE t \in Publishers
    <3> DEFINE n == [r EXCEPT !.pc = "deliver", !.at = Nobody]
    <3>1. Onward(t) = n
      BY <1>1, <2>2 DEF Onward
    <3>2. n \in Thread /\ n.pc = "deliver" /\ n.at = Nobody
      BY <1>1 DEF Thread
    <3> QED
      BY ONLY <1>1, <2>2, <3>1, <3>2 DEF GoodThread
  <2> QED
    BY <1>1, <2>1, <2>2
<1>4. ASSUME NEW pc \in {"select", "close"}
      PROVE  [r EXCEPT !.pc = pc] \in Thread /\ GoodThread(t, [r EXCEPT !.pc = pc])
  <2> DEFINE n == [r EXCEPT !.pc = pc]
  <2>1. n \in Thread /\ n.pc = pc /\ n.at = r.at /\ n.todo = r.todo
    BY <1>1 DEF Thread
  <2> QED
    BY <1>1, <1>2, <2>1 DEF GoodThread
<1>5. CASE Lock(t)
  <2>1. PICK n \in {Onward(t), [r EXCEPT !.pc = "select"]} : Become(t, n)
    BY <1>5 DEF Lock
  <2>2. n \in Thread /\ GoodThread(t, n)
    BY <1>3, <1>4, <2>1
  <2>3. TypeOK'
    BY <1>1, <1>2, <1>5, <2>1, <2>2 DEF TypeOK, Lock, Become, locks
  <2> QED
    BY <1>2, <1>5, <2>1, <2>2, <2>3, ThreadStepKeepsShape DEF Lock, locks
<1>6. CASE SelectSend(t)
  <2>1. /\ Become(t, Onward(t))
        /\ UNCHANGED <<style, writer, readers, registry, call, closed, version>>
        /\ buffered' = [buffered EXCEPT ![r.at] = @ + 1] /\ buffered[r.at] < Capacity
        /\ known' = [known EXCEPT ![r.at] = @ \cup r.carries]
        /\ flushed' = [flushed EXCEPT ![r.at] = @ \/ t = r.at]
        /\ mutex' = [mutex EXCEPT ![r.at] = Nobody]
    BY <1>6 DEF SelectSend, locks
  <2>2. buffered' \in [Calls -> 0..Capacity]
    <3>1. buffered[r.at] \in 0..Capacity /\ Capacity \in Nat
      BY <1>1, <1>2, RegistryAssumption DEF TypeOK
    <3>2. buffered[r.at] + 1 \in 0..Capacity
      BY <2>1, <3>1
    <3> QED
      BY <1>1, <2>1, <3>2 DEF TypeOK
  <2>3. /\ known' \in [Calls -> SUBSET (1..MaxUpdates)]
        /\ mutex' \in [Calls -> Threads \cup {Nobody}]
    BY <1>1, <2>1 DEF TypeOK, Thread
  <2>4. flushed' \in [Calls -> BOOLEAN]
    <3>1. (flushed[r.at] \/ t = r.at) \in BOOLEAN
      OBVIOUS
    <3> QED
      BY <1>1, <2>1, <3>1 DEF TypeOK
  <2>5. TypeOK'
    BY <1>1, <1>3, <2>1, <2>2, <2>3, <2>4 DEF TypeOK, Become
  <2>6. \A c \in Calls : c # t => flushed'[c] = flushed[c]
    <3> SUFFICES ASSUME NEW c \in Calls, c # t, c = r.at PROVE flushed'[c] = flushed[c]
      BY <1>1, <2>1 DEF TypeOK
    <3>1. flushed'[c] = (flushed[c] \/ t = c)
      BY <1>1, <2>1 DEF TypeOK
    <3> QED
      BY <1>1, <3>1 DEF TypeOK
  <2> QED
    BY <1>2, <1>3, <2>1, <2>5, <2>6, ThreadStepKeepsShape
<1>7. CASE SelectTimeout(t)
  <2>1. Become(t, [r EXCEPT !.pc = "close"])
    BY <1>7 DEF SelectTimeout
  <2>2. TypeOK'
    BY <1>1, <1>4, <1>7, <2>1 DEF TypeOK, SelectTimeout, Become, locks
  <2> QED
    BY <1>2, <1>4, <1>7, <2>1, <2>2, ThreadStepKeepsShape DEF SelectTimeout, locks
<1>8. CASE Close(t)
  <2>1. Become(t, Onward(t)) /\ closed' = [closed EXCEPT ![r.at] = TRUE]
    BY <1>8 DEF Close
  <2>2. TypeOK'
    <3>1. closed' \in [Calls -> BOOLEAN] /\ thread' \in [Threads -> Thread]
      BY <1>1, <1>3, <2>1 DEF TypeOK, Become
    <3>2. UNCHANGED <<style, writer, readers, registry, call, mutex, buffered, version,
                      known, flushed>>
      BY <1>8 DEF Close, locks
    <3> QED
      BY <1>1, <3>1, <3>2 DEF TypeOK
  <2>3. \A c \in Calls : ~closed'[c] => ~closed[c]
    BY <1>1, <2>1 DEF TypeOK
  <2> QED
    BY <1>2, <1>3, <1>8, <2>1, <2>2, <2>3, ThreadStepKeepsShape DEF Close, locks
<1> QED
  BY <1>5, <1>6, <1>7, <1>8 DEF NotifyStep

(* A publisher stores, publishes, looks a stream up, or is done.           *)
LEMMA PublisherKeepsShape ==
    ASSUME Shape, NEW p \in Publishers, PublisherStep(p)
    PROVE  Shape'
<1> DEFINE r == thread[p]
<1>1. /\ TypeOK /\ r \in Thread /\ GoodThread(p, r) /\ thread \in [Threads -> Thread]
      /\ p \in Threads /\ p \notin Calls /\ Nobody \notin Calls /\ MaxUpdates \in Nat
  BY RegistryAssumption DEF Shape, TypeOK, GoodThreads, Threads
<1>2. /\ UNCHANGED <<style, writer, registry, call, streams>>
      /\ UNCHANGED <<closed, mutex, buffered, known, flushed>>
  BY DEF PublisherStep, Store, Publish, Lookup, Delivered, locks, streams
<1>3. ASSUME NEW n, n \in Thread, GoodThread(p, n), Become(p, n),
             readers' \subseteq Publishers, version' \in 0..MaxUpdates
      PROVE  Shape'
  <2>1. thread' \in [Threads -> Thread]
    BY <1>1, <1>3 DEF Become
  <2>2. TypeOK'
    BY ONLY <1>1, <1>2, <1>3, <2>1 DEF TypeOK
  <2> QED
    BY <1>1, <1>2, <1>3, <2>2, ThreadStepKeepsShape
<1>4. CASE Store(p)
  <2> DEFINE n == [Resting EXCEPT !.pc = "publish", !.carries = {version + 1}]
  <2>1. version + 1 \in 1..MaxUpdates /\ version + 1 \in 0..MaxUpdates
    BY <1>1, <1>4 DEF TypeOK, Store
  <2>2. n \in Thread /\ n.pc = "publish" /\ n.at = Nobody
    BY <2>1, RestingIsGood DEF Thread
  <2>3. Become(p, n) /\ version' = version + 1 /\ readers' = readers
    BY <1>4 DEF Store, locks
  <2> HIDE DEF n
  <2>4. GoodThread(p, n)
    BY <1>1, <2>2 DEF GoodThread
  <2> QED
    BY <1>1, <1>3, <2>1, <2>2, <2>3, <2>4 DEF TypeOK
<1>5. CASE Publish(p)
  <2> DEFINE n == [r EXCEPT !.pc = "deliver", !.todo = Users]
  <2>1. n \in Thread /\ n.pc = "deliver" /\ n.at = r.at
    BY <1>1 DEF Thread
  <2>2. Become(p, n) /\ version' = version /\ readers' \subseteq Publishers
    BY <1>1, <1>5 DEF Publish, TypeOK
  <2>3. r.at = Nobody
    BY <1>1, <1>5 DEF Publish, At, GoodThread
  <2> HIDE DEF n
  <2>4. GoodThread(p, n)
    BY <1>1, <2>1, <2>3 DEF GoodThread
  <2> QED
    BY <1>1, <1>3, <2>1, <2>2, <2>4 DEF TypeOK
<1>6. ASSUME NEW u \in Users, Lookup(p, u) PROVE Shape'
  <2> DEFINE pc == IF registry[u] = Nobody THEN "deliver" ELSE "lock"
             n == [r EXCEPT !.todo = @ \ {u}, !.at = registry[u], !.pc = pc]
  <2>1. pc \in {"deliver", "lock"} /\ (pc = "deliver" => registry[u] = Nobody)
        /\ (pc = "lock" => registry[u] \in Calls) /\ registry[u] \in Calls \cup {Nobody}
    BY <1>1 DEF TypeOK
  <2>2. Become(p, n) /\ version' = version /\ readers' = readers
    BY <1>6 DEF Lookup, locks
  <2> HIDE DEF pc
  <2>3. n \in Thread /\ n.pc = pc /\ n.at = registry[u]
    BY <1>1, <2>1 DEF Thread
  <2> HIDE DEF n
  <2>4. GoodThread(p, n)
    BY <1>1, <2>1, <2>3 DEF GoodThread
  <2> QED
    BY <1>1, <1>3, <2>2, <2>3, <2>4 DEF TypeOK
<1>7. CASE Delivered(p)
  <2>1. Become(p, Resting) /\ version' = version /\ readers' \subseteq Publishers
    BY <1>1, <1>7 DEF Delivered, TypeOK
  <2> QED
    BY <1>1, <1>3, <2>1, RestingIsGood DEF TypeOK
<1> QED
  BY <1>4, <1>5, <1>6, <1>7 DEF PublisherStep

(* A stream is registered, maybe in another one's place.                   *)
LEMMA RegisteredKeepsShape ==
    ASSUME Shape, NEW c \in Calls, call[c] \in {"new", "replace"}, Registered(c),
           UNCHANGED <<style, readers, mutex, buffered, version>>,
           writer' = Nobody,
           \A e \in Calls : call[e] = "replace" => e = c,
           \/ registry[UserOf[c]] = Nobody /\ closed' = closed
           \/ /\ registry[UserOf[c]] # Nobody
              /\ closed' = [closed EXCEPT ![registry[UserOf[c]]] = TRUE]
    PROVE  Shape'
<1> DEFINE u == UserOf[c]
<1>1. /\ TypeOK /\ thread[c] = Resting /\ ~flushed[c] /\ c \in Threads /\ u \in Users
      /\ thread \in [Threads -> Thread] /\ Nobody \notin Calls /\ c # Nobody
  BY RegistryAssumption DEF Shape, TypeOK, NothingFlushedEarly, Threads
<1>2. registry' = [registry EXCEPT ![u] = c] /\ call' = [call EXCEPT ![c] = "loop"]
  BY DEF Registered
<1>3. /\ registry'[u] = c /\ \A w \in Users : w # u => registry'[w] = registry[w]
      /\ call'[c] = "loop" /\ \A e \in Calls : e # c => call'[e] = call[e]
  BY <1>1, <1>2 DEF TypeOK
<1>4. PICK n \in Thread :
         /\ GoodThread(c, n)
         /\ thread' = [thread EXCEPT ![c] = n]
  <2>1. CASE style = "chat"
    <3> DEFINE n == [thread[c] EXCEPT !.pc = "flush", !.at = c]
    <3>1. n \in Thread /\ n.pc = "flush" /\ n.at = c /\ n.todo = {}
      BY <1>1, RestingIsGood DEF Thread
    <3>2. thread' = [thread EXCEPT ![c] = n]
      BY <1>1, <2>1 DEF Registered
    <3> HIDE DEF n
    <3>3. GoodThread(c, n)
      BY <1>1, <3>1, RegistryAssumption DEF GoodThread
    <3> QED
      BY <3>1, <3>2, <3>3
  <2>2. CASE style # "chat"
    <3>1. thread' = [thread EXCEPT ![c] = Resting]
      BY <1>1, <2>2 DEF Registered
    <3> QED
      BY <1>1, <3>1, RestingIsGood
  <2> QED
    BY <2>1, <2>2
<1>5. thread'[c] = n /\ \A t \in Threads : t # c => thread'[t] = thread[t]
  BY <1>1, <1>4
<1>6. closed' \in [Calls -> BOOLEAN] /\ \A e \in Calls : ~closed'[e] => ~closed[e]
  BY <1>1 DEF TypeOK
<1>7. TypeOK'
  <2>1. known' \in [Calls -> SUBSET (1..MaxUpdates)] /\ flushed' \in [Calls -> BOOLEAN]
    <3>1. 1..version \subseteq 1..MaxUpdates
      BY <1>1, RegistryAssumption DEF TypeOK
    <3>2. CASE style = "chat"
      BY <1>1, <3>2 DEF Registered, TypeOK
    <3>3. CASE style # "chat"
      <4>1. known' = [known EXCEPT ![c] = 1..version] /\ flushed' = [flushed EXCEPT ![c] = TRUE]
        BY <3>3 DEF Registered
      <4> QED
        BY ONLY <1>1, <3>1, <4>1 DEF TypeOK
    <3> QED
      BY <3>2, <3>3
  <2>2. registry' \in [Users -> Calls \cup {Nobody}]
    BY <1>1, <1>2 DEF TypeOK
  <2>3. call' \in [Calls -> {"new", "replace", "loop", "cleanup", "done"}]
    BY <1>1, <1>2 DEF TypeOK
  <2>4. thread' \in [Threads -> Thread]
    BY <1>1, <1>4
  <2>5. UNCHANGED <<style, readers, mutex, buffered, version>> /\ writer' = Nobody
    OBVIOUS
  <2> QED
    BY ONLY <1>1, <1>6, <2>1, <2>2, <2>3, <2>4, <2>5 DEF TypeOK
<1>8. GoodThreads'
  BY <1>4, <1>5 DEF Shape, GoodThreads
<1>9. NothingFlushedEarly'
  <2> SUFFICES ASSUME NEW e \in Calls, e # c, call[e] \in {"new", "replace"}
               PROVE  thread'[e] = Resting /\ ~flushed'[e]
    BY <1>3 DEF NothingFlushedEarly
  <2>1. thread[e] = Resting /\ ~flushed[e] /\ e \in Threads
    BY DEF Shape, NothingFlushedEarly, Threads
  <2>2. flushed'[e] = flushed[e]
    BY <1>1 DEF Registered, TypeOK
  <2> QED
    BY <1>5, <2>1, <2>2
<1>10. ReplacerWrites'
  <2>1. \A e \in Calls : call'[e] # "replace"
    BY <1>3
  <2> QED
    BY ONLY <2>1 DEF ReplacerWrites
<1>11. RegistryServes'
  <2> SUFFICES ASSUME NEW w \in Users, registry'[w] # Nobody
               PROVE  UserOf[registry'[w]] = w /\ call'[registry'[w]] \in {"loop", "cleanup"}
    BY DEF RegistryServes
  <2>1. CASE w = u
    BY <1>3, <2>1
  <2>2. CASE w # u
    <3>1. registry'[w] = registry[w] /\ registry[w] \in Calls
      BY <1>1, <1>3, <2>2 DEF TypeOK
    <3>2. UserOf[registry[w]] = w /\ call[registry[w]] \in {"loop", "cleanup"}
      BY <3>1 DEF Shape, RegistryServes
    <3> QED
      BY <1>3, <2>2, <3>1, <3>2
  <2> QED
    BY <2>1, <2>2
<1>12. NeverOrphaned'
  <2> SUFFICES ASSUME NEW e \in Calls, e # c, call[e] = "loop", ~closed'[e]
               PROVE  registry'[UserOf[e]] = e
    BY <1>3 DEF NeverOrphaned
  <2>1. registry[UserOf[e]] = e /\ UserOf[e] \in Users
    BY <1>6, RegistryAssumption DEF Shape, NeverOrphaned
  <2>2. UserOf[e] # u
    <3> SUFFICES ASSUME UserOf[e] = u PROVE FALSE
      OBVIOUS
    <3>1. registry[u] = e /\ e # Nobody
      BY <1>1, <2>1
    <3>2. closed' = [closed EXCEPT ![e] = TRUE]
      BY <3>1
    <3> QED
      BY <1>1, <3>2 DEF TypeOK
  <2> QED
    BY <1>3, <2>1, <2>2
<1> QED
  BY <1>7, <1>8, <1>9, <1>10, <1>11, <1>12 DEF Shape

(* A streaming call.                                                       *)
LEMMA CallKeepsShape ==
    ASSUME Shape, NEW c \in Calls, CallStep(c)
    PROVE  Shape'
<1>1. /\ TypeOK /\ c \in Threads /\ UserOf[c] \in Users /\ Nobody \notin Calls
      /\ thread[c] \in Thread /\ GoodThread(c, thread[c])
  BY RegistryAssumption DEF Shape, TypeOK, GoodThreads, Threads
<1>2. Free => \A e \in Calls : call[e] # "replace"
  BY <1>1 DEF Free, Shape, ReplacerWrites
<1>3. CASE Open(c) /\ registry[UserOf[c]] = Nobody
  <2>1. /\ call[c] = "new" /\ Free /\ Registered(c)
        /\ UNCHANGED <<writer, style, readers, closed, mutex, buffered, version>>
    BY <1>3 DEF Open
  <2>2. writer' = Nobody
    BY <2>1 DEF Free
  <2> QED
    BY ONLY <1>2, <1>3, <2>1, <2>2, Shape, RegisteredKeepsShape
<1>4. CASE Open(c) /\ registry[UserOf[c]] # Nobody
  <2>1. /\ call[c] = "new" /\ Free /\ writer' = c
        /\ call' = [call EXCEPT ![c] = "replace"]
        /\ UNCHANGED <<style, readers, registry, closed, mutex, buffered, thread, version,
                       known, flushed>>
    BY <1>4 DEF Open
  <2>2. call'[c] = "replace" /\ \A e \in Calls : e # c => call'[e] = call[e]
    BY <1>1, <2>1 DEF TypeOK
  <2>3. TypeOK'
    <3>1. call' \in [Calls -> {"new", "replace", "loop", "cleanup", "done"}]
      BY <1>1, <2>1 DEF TypeOK
    <3> QED
      BY ONLY <1>1, <2>1, <3>1, c \in Calls DEF TypeOK
  <2>4. GoodThreads'
    BY <2>1 DEF Shape, GoodThreads
  <2>5. NothingFlushedEarly'
    BY <2>1, <2>2 DEF Shape, NothingFlushedEarly
  <2>6. ReplacerWrites'
    BY <1>2, <1>4, <2>1, <2>2 DEF ReplacerWrites
  <2>7. RegistryServes'
    BY <1>1, <2>1, <2>2 DEF Shape, RegistryServes
  <2>8. NeverOrphaned'
    BY <2>1, <2>2 DEF Shape, NeverOrphaned
  <2> QED
    BY <2>3, <2>4, <2>5, <2>6, <2>7, <2>8 DEF Shape
<1>5. CASE Replace(c)
  <2>1. /\ call[c] = "replace" /\ writer' = Nobody /\ Registered(c)
        /\ closed' = [closed EXCEPT ![registry[UserOf[c]]] = TRUE]
        /\ UNCHANGED <<style, readers, mutex, buffered, version>>
    BY <1>5 DEF Replace
  <2>2. /\ registry[UserOf[c]] # Nobody
        /\ \A e \in Calls : call[e] = "replace" => e = c
    BY <2>1 DEF Shape, ReplacerWrites
  <2> QED
    BY ONLY <2>1, <2>2, Shape, RegisteredKeepsShape
<1>6. CASE Forward(c)
  <2>1. /\ buffered' = [buffered EXCEPT ![c] = @ - 1] /\ buffered[c] > 0
        /\ UNCHANGED <<style, writer, readers, registry, call, closed, mutex, thread, version,
                       known, flushed>>
    BY <1>6 DEF Forward, locks
  <2>2. buffered' \in [Calls -> 0..Capacity]
    <3>1. buffered[c] \in 0..Capacity /\ Capacity \in Nat
      BY <1>1, RegistryAssumption DEF TypeOK
    <3>2. buffered[c] - 1 \in 0..Capacity
      BY <2>1, <3>1
    <3> QED
      BY <1>1, <2>1, <3>2 DEF TypeOK
  <2>3. TypeOK'
    BY ONLY <1>1, <2>1, <2>2 DEF TypeOK
  <2> QED
    BY <2>1, <2>3
       DEF Shape, GoodThreads, NothingFlushedEarly, ReplacerWrites, RegistryServes, NeverOrphaned
<1>7. CASE EndClosed(c) \/ Quit(c)
  <2>1. /\ call[c] = "loop" /\ call' = [call EXCEPT ![c] = "cleanup"]
        /\ UNCHANGED <<style, writer, readers, registry, closed, mutex, buffered, thread, version,
                       known, flushed>>
    BY <1>7 DEF EndClosed, Quit, End, locks, streams
  <2>2. call'[c] = "cleanup" /\ \A e \in Calls : e # c => call'[e] = call[e]
    BY <1>1, <2>1 DEF TypeOK
  <2>3. TypeOK'
    <3>1. call' \in [Calls -> {"new", "replace", "loop", "cleanup", "done"}]
      BY <1>1, <2>1 DEF TypeOK
    <3> QED
      BY ONLY <1>1, <2>1, <3>1 DEF TypeOK
  <2>4. GoodThreads' /\ NothingFlushedEarly' /\ ReplacerWrites' /\ NeverOrphaned'
    BY <2>1, <2>2 DEF Shape, GoodThreads, NothingFlushedEarly, ReplacerWrites, NeverOrphaned
  <2>5. RegistryServes'
    BY <1>1, <2>1, <2>2 DEF Shape, RegistryServes, TypeOK
  <2> QED
    BY <2>3, <2>4, <2>5 DEF Shape
<1>8. CASE Cleanup(c)
  <2> DEFINE u == UserOf[c]
             kept == IF registry[u] = c THEN Nobody ELSE registry[u]
  <2>1. /\ call[c] = "cleanup" /\ Free /\ call' = [call EXCEPT ![c] = "done"]
        /\ registry' = [registry EXCEPT ![u] = kept]
        /\ UNCHANGED <<style, writer, readers, closed, mutex, buffered, thread, version,
                       known, flushed>>
    BY <1>8 DEF Cleanup, locks, streams
  <2>2. call'[c] = "done" /\ \A e \in Calls : e # c => call'[e] = call[e]
    BY <1>1, <2>1 DEF TypeOK
  <2>a. kept \in Calls \cup {Nobody} /\ kept # c /\ (registry[u] # c => kept = registry[u])
        /\ (registry[u] = c => kept = Nobody)
    BY <1>1 DEF TypeOK
  <2> HIDE DEF kept
  <2>3. registry'[u] = kept /\ \A w \in Users : w # u => registry'[w] = registry[w]
    BY <1>1, <2>1 DEF TypeOK
  <2>4. TypeOK'
    <3>1. call' \in [Calls -> {"new", "replace", "loop", "cleanup", "done"}]
      BY <1>1, <2>1 DEF TypeOK
    <3>2. registry' \in [Users -> Calls \cup {Nobody}]
      BY <1>1, <2>1, <2>a DEF TypeOK
    <3> QED
      BY ONLY <1>1, <2>1, <3>1, <3>2 DEF TypeOK
  <2>5. GoodThreads' /\ NothingFlushedEarly'
    BY <2>1, <2>2 DEF Shape, GoodThreads, NothingFlushedEarly
  <2>6. ReplacerWrites'
    BY <1>2, <2>1, <2>2 DEF ReplacerWrites
  <2>7. RegistryServes'
    BY <1>1, <2>2, <2>3, <2>a DEF Shape, RegistryServes, TypeOK
  <2>8. NeverOrphaned'
    <3> SUFFICES ASSUME NEW e \in Calls, e # c, call[e] = "loop", ~closed[e]
                 PROVE  registry'[UserOf[e]] = e
      BY <2>1, <2>2 DEF NeverOrphaned
    <3>1. registry[UserOf[e]] = e /\ UserOf[e] \in Users
      BY RegistryAssumption DEF Shape, NeverOrphaned
    <3> QED
      BY <2>3, <2>a, <3>1
  <2> QED
    BY <2>4, <2>5, <2>6, <2>7, <2>8 DEF Shape
<1>9. CASE Flush(c)
  <2> DEFINE full == [thread[c] EXCEPT !.pc = "lock", !.carries = 1..version]
  <2>1. /\ At(c, "flush") /\ (Become(c, full) \/ Become(c, Resting))
        /\ UNCHANGED <<style, writer, readers, registry, call, closed, mutex, buffered, version,
                       known, flushed>>
    BY <1>9 DEF Flush, locks, streams
  <2>2. 1..version \subseteq 1..MaxUpdates
    BY <1>1, RegistryAssumption DEF TypeOK
  <2>3. full \in Thread /\ full.pc = "lock" /\ full.at = c /\ full.todo = {}
        /\ thread[c] # Resting
    BY <1>1, <2>1, <2>2, RestingIsGood DEF Thread, GoodThread, At
  <2> HIDE DEF full
  <2>4. GoodThread(c, full)
    BY <2>3, RegistryAssumption DEF GoodThread
  <2>5. PICK n \in Thread : Become(c, n) /\ GoodThread(c, n)
    BY <1>1, <2>1, <2>3, <2>4, RestingIsGood
  <2>6. TypeOK'
    <3>1. thread' \in [Threads -> Thread]
      BY <1>1, <2>5 DEF TypeOK, Become
    <3> QED
      BY ONLY <1>1, <2>1, <3>1 DEF TypeOK
  <2> QED
    BY <1>1, <2>1, <2>3, <2>5, <2>6, ThreadStepKeepsShape
<1> QED
  BY <1>3, <1>4, <1>5, <1>6, <1>7, <1>8, <1>9 DEF CallStep

-----------------------------------------------------------------------------
(* Publisher p has v to tell c.                                            *)
Bears(p, v, c) ==
    /\ v \in thread[p].carries
    /\ \/ At(p, "publish")
       \/ UserOf[c] \in thread[p].todo
       \/ thread[p].at = c

(* A bearer goes on with it until the stream has it or is closed.          *)
LEMMA BearerGoesOn ==
    ASSUME Shape, NEW p \in Publishers, NEW v, NEW c \in Calls, Bears(p, v, c),
           call[c] = "loop", ~closed[c],
           PublisherStep(p) \/ NotifyStep(p)
    PROVE  closed'[c] \/ v \in known'[c] \/ Bears(p, v, c)'
<1> DEFINE r == thread[p]
<1>1. /\ TypeOK /\ GoodThread(p, r) /\ p \in Threads /\ p \notin Calls
      /\ Nobody \notin Calls /\ UserOf[c] \in Users /\ registry[UserOf[c]] = c
      /\ thread \in [Threads -> Thread] /\ r \in Thread
      /\ c # Nobody
  BY RegistryAssumption DEF Shape, TypeOK, GoodThreads, Threads, NeverOrphaned
<1>2. r.pc # "idle"
  BY <1>1, RestingIsGood DEF GoodThread, Bears
<1>a. v \in r.carries /\ (r.pc = "publish" \/ UserOf[c] \in r.todo \/ r.at = c)
  BY DEF Bears, At
<1>b. ASSUME NEW n \in Thread, Become(p, n), v \in n.carries,
             UserOf[c] \in n.todo \/ n.at = c
      PROVE  Bears(p, v, c)'
  <2>1. thread'[p] = n
    BY <1>1, <1>b DEF Become
  <2> QED
    BY <1>b, <2>1 DEF Bears
<1>3. CASE Store(p)
  BY <1>2, <1>3 DEF Store, At
<1>4. CASE Publish(p)
  <2> DEFINE n == [r EXCEPT !.pc = "deliver", !.todo = Users]
  <2>1. n \in Thread /\ n.carries = r.carries /\ n.todo = Users
    BY <1>1 DEF Thread
  <2>2. Become(p, n)
    BY <1>4 DEF Publish
  <2> HIDE DEF n
  <2> QED
    BY <1>1, <1>a, <1>b, <2>1, <2>2
<1>5. ASSUME NEW u \in Users, Lookup(p, u) PROVE Bears(p, v, c)'
  <2> DEFINE pc == IF registry[u] = Nobody THEN "deliver" ELSE "lock"
             n == [r EXCEPT !.todo = @ \ {u}, !.at = registry[u], !.pc = pc]
  <2>1. pc \in {"deliver", "lock"} /\ registry[u] \in Calls \cup {Nobody}
    BY <1>1 DEF TypeOK
  <2>2. Become(p, n) /\ r.pc = "deliver"
    BY <1>5 DEF Lookup, At
  <2> HIDE DEF pc
  <2>3. n \in Thread /\ n.carries = r.carries /\ n.todo = r.todo \ {u} /\ n.at = registry[u]
    BY <1>1, <2>1 DEF Thread
  <2>4. UserOf[c] \in r.todo
    BY <1>1, <1>a, <2>2 DEF GoodThread
  <2> HIDE DEF n
  <2> QED
    BY <1>1, <1>a, <1>b, <2>2, <2>3, <2>4
<1>6. CASE Delivered(p)
  BY <1>1, <1>6, <1>a DEF Delivered, At, GoodThread
<1>7. ASSUME r.at # c, r.pc \in {"lock", "select", "close"}, Become(p, Onward(p))
      PROVE  Bears(p, v, c)'
  <2> DEFINE n == [r EXCEPT !.pc = "deliver", !.at = Nobody]
  <2>1. n \in Thread /\ n.carries = r.carries /\ n.todo = r.todo /\ Onward(p) = n
    BY <1>1 DEF Thread, Onward
  <2> HIDE DEF n
  <2> QED
    BY <1>7, <1>a, <1>b, <2>1
<1>8. ASSUME NEW pc \in {"select", "close"}, r.pc \in {"lock", "select"},
             Become(p, [r EXCEPT !.pc = pc])
      PROVE  Bears(p, v, c)'
  <2> DEFINE n == [r EXCEPT !.pc = pc]
  <2>1. n \in Thread /\ n.carries = r.carries /\ n.todo = r.todo /\ n.at = r.at
    BY <1>1 DEF Thread
  <2>2. Become(p, n)
    BY <1>8
  <2> HIDE DEF n
  <2>3. UserOf[c] \in n.todo \/ n.at = c
    BY <1>8, <1>a, <2>1
  <2> QED
    BY <1>a, <1>b, <2>1, <2>2, <2>3
<1>9. CASE Lock(p)
  BY <1>7, <1>8, <1>9 DEF Lock, At
<1>10. CASE SelectSend(p)
  <2>1. CASE r.at = c
    <3>1. known'[c] = known[c] \cup r.carries
      BY <1>1, <1>10, <2>1 DEF SelectSend, TypeOK
    <3> QED
      BY <1>a, <3>1
  <2>2. CASE r.at # c
    BY <1>7, <1>10, <2>2 DEF SelectSend, At
  <2> QED
    BY <2>1, <2>2
<1>11. CASE SelectTimeout(p)
  BY <1>8, <1>11 DEF SelectTimeout, At
<1>12. CASE Close(p)
  <2>1. CASE r.at = c
    BY <1>1, <1>12, <2>1 DEF Close, TypeOK
  <2>2. CASE r.at # c
    BY <1>7, <1>12, <2>2 DEF Close, At
  <2> QED
    BY <2>1, <2>2
<1> QED
  BY <1>3, <1>4, <1>5, <1>6, <1>9, <1>10, <1>11, <1>12 DEF PublisherStep, NotifyStep

(* Only a thread's own steps change it.                                    *)
LEMMA OthersRest ==
    ASSUME Shape, NEW t \in Threads, NEW n, Become(t, n), NEW q \in Threads, q # t
    PROVE  thread'[q] = thread[q]
  BY DEF Shape, TypeOK, Become

(* Which publisher, if any, a step is of.                                  *)
LEMMA StepLeavesPublisher ==
    ASSUME Shape, Next, NEW p \in Publishers, ~(PublisherStep(p) \/ NotifyStep(p))
    PROVE  thread'[p] = thread[p]
<1>1. p \in Threads /\ p \notin Calls /\ Publishers \subseteq Threads /\ Calls \subseteq Threads
      /\ thread \in [Threads -> Thread]
  BY RegistryAssumption DEF Threads, Shape, TypeOK
<1>2. ASSUME NEW c \in Calls, CallStep(c) PROVE thread'[p] = thread[p]
  <2>1. c # p /\ c \in Threads
    BY <1>1
  <2>2. ASSUME Registered(c) PROVE thread'[p] = thread[p]
    <3>1. \/ thread' = [thread EXCEPT ![c].pc = "flush", ![c].at = c]
          \/ thread' = thread
      BY <2>2 DEF Registered
    <3> QED
      BY <1>1, <2>1, <3>1
  <2>3. CASE Open(c)
    BY <2>2, <2>3 DEF Open
  <2>4. CASE Replace(c)
    BY <2>2, <2>4 DEF Replace
  <2>5. CASE Forward(c) \/ EndClosed(c) \/ Quit(c) \/ Cleanup(c)
    BY <2>5 DEF Forward, EndClosed, Quit, End, Cleanup
  <2>6. CASE Flush(c)
    BY <1>1, <2>1, <2>6, OthersRest DEF Flush
  <2> QED
    BY <1>2, <2>3, <2>4, <2>5, <2>6 DEF CallStep
<1>3. ASSUME NEW q \in Publishers, PublisherStep(q), q # p PROVE thread'[p] = thread[p]
  BY <1>1, <1>3, OthersRest DEF PublisherStep, Store, Publish, Lookup, Delivered
<1>4. ASSUME NEW t \in Threads, NotifyStep(t), t # p PROVE thread'[p] = thread[p]
  BY <1>1, <1>4, OthersRest DEF NotifyStep, Lock, SelectSend, SelectTimeout, Close
<1> QED
  BY <1>2, <1>3, <1>4 DEF Next

(* What is on its way arrives, or the stream is closed.                    *)
LEMMA OnItsWayOrThere ==
    ASSUME Shape, Next, NEW v, NEW c \in Calls, OnItsWay(v, c), call[c] = "loop", ~closed[c]
    PROVE  closed'[c] \/ v \in known'[c] \/ OnItsWay(v, c)'
<1>1. PICK p \in Publishers : Bears(p, v, c)
  BY DEF OnItsWay, Bears
<1>2. CASE PublisherStep(p) \/ NotifyStep(p)
  <2>1. closed'[c] \/ v \in known'[c] \/ Bears(p, v, c)'
    BY <1>1, <1>2, BearerGoesOn
  <2> QED
    BY <2>1 DEF OnItsWay, Bears
<1>3. CASE ~(PublisherStep(p) \/ NotifyStep(p))
  <2>1. thread'[p] = thread[p]
    BY <1>3, StepLeavesPublisher
  <2> QED
    BY <1>1, <2>1 DEF OnItsWay, Bears, At
<1> QED
  BY <1>2, <1>3

-----------------------------------------------------------------------------
(* How an open stream comes by what it knows: it starts with a flush to    *)
(* come or with everything, and from then on only gets more.               *)
Begins(c) ==
    /\ version' = version
    /\ \/ ~flushed'[c] /\ thread'[c].pc = "flush"
       \/ known'[c] = 1..version /\ thread'[c] = Resting

Grows(c) ==
    /\ known[c] \subseteq known'[c]
    /\ version' = version \/ (version' = version + 1 /\ OnItsWay(version, c)')
    /\ flushed'[c] =>
          flushed[c] \/ (thread[c].pc = "select" /\ thread[c].carries \subseteq known'[c])
    /\ thread'[c].pc \in {"lock", "select"} =>
          \/ thread[c].pc \in {"lock", "select"} /\ thread'[c].carries = thread[c].carries
          \/ thread'[c].carries = 1..version /\ version' = version

(* A stream no event reaches in this step.                                 *)
LEMMA NothingHappensTo ==
    ASSUME NEW c \in Calls,
           UNCHANGED <<known, version>>, flushed'[c] = flushed[c], thread'[c] = thread[c]
    PROVE  Grows(c)
  BY DEF Grows

(* What calls do to open streams.                                          *)
LEMMA CallsAndStreams ==
    ASSUME Shape, NEW c \in Calls, NEW e \in Calls, CallStep(e),
           call'[c] = "loop", ~closed'[c]
    PROVE  \/ Begins(c)
           \/ call[c] = "loop" /\ ~closed[c] /\ Grows(c)
<1>1. /\ TypeOK /\ c \in Threads /\ e \in Threads /\ thread \in [Threads -> Thread]
      /\ GoodThread(e, thread[e])
  BY DEF Shape, TypeOK, GoodThreads, Threads
<1>2. ASSUME Registered(e), call[e] \in {"new", "replace"}, UNCHANGED version,
             \/ closed' = closed
             \/ closed' = [closed EXCEPT ![registry[UserOf[e]]] = TRUE]
      PROVE  Begins(c) \/ (call[c] = "loop" /\ ~closed[c] /\ Grows(c))
  <2>1. CASE c = e
    <3>1. thread[c] = Resting /\ ~flushed[c]
      BY <1>2, <2>1 DEF Shape, NothingFlushedEarly
    <3>2. CASE style = "chat"
      <4>1. thread' = [thread EXCEPT ![c].pc = "flush", ![c].at = c] /\ flushed' = flushed
        BY <1>2, <2>1, <3>2 DEF Registered
      <4>2. thread'[c].pc = "flush"
        BY <1>1, <4>1 DEF Thread
      <4> QED
        BY <1>2, <3>1, <4>1, <4>2 DEF Begins
    <3>3. CASE style # "chat"
      <4>1. known' = [known EXCEPT ![c] = 1..version] /\ thread' = thread
        BY <1>2, <2>1, <3>3 DEF Registered
      <4>2. known'[c] = 1..version
        BY <1>1, <4>1 DEF TypeOK
      <4> QED
        BY <1>2, <3>1, <4>1, <4>2 DEF Begins
    <3> QED
      BY <3>2, <3>3
  <2>2. CASE c # e
    <3>1. call[c] = "loop" /\ ~closed[c]
      BY <1>1, <1>2, <2>2 DEF Registered, TypeOK
    <3>2. CASE style = "chat"
      <4>1. UNCHANGED <<known, flushed>>
            /\ thread' = [thread EXCEPT ![e].pc = "flush", ![e].at = e]
        BY <1>2, <3>2 DEF Registered
      <4>2. thread'[c] = thread[c]
        BY <1>1, <2>2, <4>1
      <4> QED
        BY <1>2, <3>1, <4>1, <4>2, NothingHappensTo
    <3>3. CASE style # "chat"
      <4>1. /\ known' = [known EXCEPT ![e] = 1..version] /\ thread' = thread
            /\ flushed' = [flushed EXCEPT ![e] = TRUE]
        BY <1>2, <3>3 DEF Registered
      <4>2. known'[c] = known[c] /\ flushed'[c] = flushed[c]
        BY <1>1, <2>2, <4>1 DEF TypeOK
      <4> QED
        BY <1>2, <3>1, <4>1, <4>2 DEF Grows
    <3> QED
      BY <3>2, <3>3
  <2> QED
    BY <2>1, <2>2
<1>3. CASE Open(e) /\ registry[UserOf[e]] = Nobody
  BY <1>2, <1>3 DEF Open
<1>4. CASE Replace(e)
  BY <1>2, <1>4 DEF Replace
<1>5. CASE Open(e) /\ registry[UserOf[e]] # Nobody
  <2>1. /\ call' = [call EXCEPT ![e] = "replace"]
        /\ UNCHANGED <<closed, thread, version, known, flushed>>
    BY <1>5 DEF Open
  <2>2. call[c] = "loop" /\ ~closed[c]
    BY <1>1, <2>1 DEF TypeOK
  <2> QED
    BY <2>1, <2>2, NothingHappensTo
<1>6. CASE Forward(e) \/ EndClosed(e) \/ Quit(e) \/ Cleanup(e)
  <2>1. UNCHANGED <<closed, thread, version, known, flushed>>
    BY <1>6 DEF Forward, EndClosed, Quit, End, Cleanup, streams
  <2>2. /\ \/ call' = call
           \/ call' = [call EXCEPT ![e] = "cleanup"]
           \/ call' = [call EXCEPT ![e] = "done"]
    BY <1>6 DEF Forward, EndClosed, Quit, End, Cleanup
  <2>3. call[c] = "loop" /\ ~closed[c]
    BY <1>1, <2>1, <2>2 DEF TypeOK
  <2> QED
    BY <2>1, <2>3, NothingHappensTo
<1>7. CASE Flush(e)
  <2> DEFINE full == [thread[e] EXCEPT !.pc = "lock", !.carries = 1..version]
  <2>1. UNCHANGED <<call, closed, version, known, flushed>>
        /\ (Become(e, full) \/ Become(e, Resting))
    BY <1>7 DEF Flush, streams
  <2>2. call[c] = "loop" /\ ~closed[c]
    BY <2>1
  <2>3. CASE c # e
    BY <1>1, <2>1, <2>2, <2>3, OthersRest, NothingHappensTo
  <2>4. CASE c = e
    <3>1. full.carries = 1..version
      BY <1>1 DEF Thread
    <3>2. thread'[c] = full \/ thread'[c] = Resting
      BY <1>1, <2>1, <2>4 DEF Become
    <3> HIDE DEF full
    <3> QED
      BY <2>1, <2>2, <3>1, <3>2, RestingIsGood DEF Grows
  <2> QED
    BY <2>3, <2>4
<1> QED
  BY <1>3, <1>4, <1>5, <1>6, <1>7 DEF CallStep

(* What publishers do to open streams.                                     *)
LEMMA PublishersAndStreams ==
    ASSUME Shape, NEW c \in Calls, NEW p \in Publishers, PublisherStep(p),
           call'[c] = "loop", ~closed'[c]
    PROVE  call[c] = "loop" /\ ~closed[c] /\ Grows(c)
<1>1. /\ TypeOK /\ c \in Threads /\ p \in Threads /\ c # p /\ thread \in [Threads -> Thread]
      /\ version \in Nat
  BY RegistryAssumption DEF Shape, TypeOK, Threads
<1>2. UNCHANGED <<call, closed, known, flushed>>
  BY DEF PublisherStep, Store, Publish, Lookup, Delivered, streams
<1>3. thread'[c] = thread[c]
  BY <1>1, OthersRest DEF PublisherStep, Store, Publish, Lookup, Delivered
<1>4. CASE Store(p)
  <2> DEFINE n == [Resting EXCEPT !.pc = "publish", !.carries = {version + 1}]
  <2>1. thread'[p] = n /\ version' = version + 1
    BY <1>1, <1>4 DEF Store, Become
  <2>2. n.pc = "publish" /\ n.carries = {version + 1}
    BY DEF Resting
  <2> HIDE DEF n
  <2>3. OnItsWay(version, c)'
    BY <2>1, <2>2 DEF OnItsWay, At
  <2> QED
    BY <1>2, <1>3, <2>1, <2>3 DEF Grows
<1>5. CASE ~Store(p)
  <2>1. version' = version
    BY <1>5 DEF PublisherStep, Publish, Lookup, Delivered
  <2> QED
    BY <1>2, <1>3, <2>1, NothingHappensTo
<1> QED
  BY <1>4, <1>5

(* What a notification does to open streams.                               *)
LEMMA NotificationsAndStreams ==
    ASSUME Shape, NEW c \in Calls, NEW t \in Threads, NotifyStep(t),
           call'[c] = "loop", ~closed'[c]
    PROVE  call[c] = "loop" /\ ~closed[c] /\ Grows(c)
<1> DEFINE r == thread[t]
<1>1. /\ TypeOK /\ c \in Threads /\ thread \in [Threads -> Thread] /\ r \in Thread
      /\ GoodThread(t, r) /\ r.pc \in {"lock", "select", "close"}
      /\ Publishers \cap Calls = {} /\ (t \in Calls \/ t \in Publishers)
  BY RegistryAssumption
     DEF Shape, TypeOK, GoodThreads, Threads, NotifyStep, Lock, SelectSend, SelectTimeout, Close, At
<1>2. r.at \in Calls /\ (t \in Calls => r.at = t)
  BY <1>1 DEF GoodThread
<1>3. /\ UNCHANGED <<call, version>> /\ (~closed'[c] => ~closed[c])
  <2>1. UNCHANGED <<call, version>>
        /\ (closed' = closed \/ closed' = [closed EXCEPT ![r.at] = TRUE])
    BY DEF NotifyStep, Lock, SelectSend, SelectTimeout, Close
  <2> QED
    BY <1>1, <2>1 DEF TypeOK
<1>4. CASE SelectSend(t)
  <2>1. /\ known' = [known EXCEPT ![r.at] = @ \cup r.carries]
        /\ flushed' = [flushed EXCEPT ![r.at] = @ \/ t = r.at]
        /\ r.pc = "select" /\ Become(t, Onward(t))
    BY <1>4 DEF SelectSend, At
  <2>2. known[c] \subseteq known'[c] /\ (c = r.at => r.carries \subseteq known'[c])
    BY <1>1, <2>1 DEF TypeOK
  <2>3. CASE t = c
    <3>1. thread'[c] = Resting
      BY <1>1, <2>1, <2>3 DEF Become, Onward
    <3>2. r.at = c /\ r = thread[c]
      BY <1>2, <2>3
    <3> QED
      BY <1>3, <2>1, <2>2, <3>1, <3>2, RestingIsGood DEF Grows
  <2>4. CASE t # c
    <3>1. thread'[c] = thread[c]
      BY <1>1, <2>1, <2>4, OthersRest
    <3>2. flushed'[c] => flushed[c]
      <4>1. CASE c = r.at
        <5>1. flushed'[c] = (flushed[c] \/ t = c)
          BY <1>1, <2>1, <4>1 DEF TypeOK
        <5> QED
          BY <2>4, <5>1
      <4>2. CASE c # r.at
        BY <1>1, <2>1, <4>2 DEF TypeOK
      <4> QED
        BY <4>1, <4>2
    <3> QED
      BY <1>3, <2>2, <3>1, <3>2 DEF Grows
  <2> QED
    BY <2>3, <2>4
<1>5. CASE Lock(t) \/ SelectTimeout(t) \/ Close(t)
  <2>1. UNCHANGED <<known, flushed>>
    BY <1>5 DEF Lock, SelectTimeout, Close
  <2>2. \/ Become(t, Onward(t))
        \/ r.pc = "lock" /\ Become(t, [r EXCEPT !.pc = "select"])
        \/ Become(t, [r EXCEPT !.pc = "close"])
    BY <1>5 DEF Lock, SelectTimeout, Close, At
  <2>3. CASE t # c
    <3>1. thread'[c] = thread[c]
      BY <1>1, <2>2, <2>3, OthersRest
    <3> QED
      BY <1>3, <2>1, <3>1, NothingHappensTo
  <2>4. CASE t = c
    <3>1. \/ thread'[c] = Resting
          \/ r.pc = "lock" /\ thread'[c] = [r EXCEPT !.pc = "select"]
          \/ thread'[c] = [r EXCEPT !.pc = "close"]
      BY <1>1, <2>2, <2>4 DEF Become, Onward
    <3>2. /\ [r EXCEPT !.pc = "select"].carries = r.carries
          /\ [r EXCEPT !.pc = "close"].pc = "close"
      BY <1>1 DEF Thread
    <3>3. thread'[c].pc \in {"lock", "select"} =>
             r.pc \in {"lock", "select"} /\ thread'[c].carries = r.carries
      BY <3>1, <3>2, RestingIsGood
    <3> QED
      BY <1>3, <2>1, <2>4, <3>3 DEF Grows
  <2> QED
    BY <2>3, <2>4
<1> QED
  BY <1>3, <1>4, <1>5 DEF NotifyStep

-----------------------------------------------------------------------------
(* An open stream in a step of any thread.                                 *)
LEMMA StepsAndStreams ==
    ASSUME Shape, Next, NEW c \in Calls, call'[c] = "loop", ~closed'[c]
    PROVE  \/ Begins(c)
           \/ call[c] = "loop" /\ ~closed[c] /\ Grows(c)
  BY CallsAndStreams, PublishersAndStreams, NotificationsAndStreams DEF Next

(* Nothing is missed by an open stream: what the store has was on its way  *)
(* or is new and on its way, or the flush that was read after the stream   *)
(* was registered has it.                                                  *)
LEMMA NothingGoesMissing ==
    ASSUME RegistryInv, Next
    PROVE  FlushCovers' /\ NothingMissed'
<1>1. ASSUME NEW c \in Calls, call'[c] = "loop", ~closed'[c],
             call[c] = "loop", ~closed[c], Grows(c), NEW v \in 1..version', NEW S,
             v \in 1..version => v \in S \/ OnItsWay(v, c)
      PROVE  v \in S \/ v \in known'[c] \/ OnItsWay(v, c)'
  <2>1. CASE v \in 1..version
    BY <1>1, <2>1, OnItsWayOrThere DEF RegistryInv
  <2>2. CASE v \notin 1..version
    <3>1. version \in Nat
      BY RegistryAssumption DEF RegistryInv, Shape, TypeOK
    <3>2. v = version' /\ OnItsWay(version, c)'
      BY <1>1, <2>2, <3>1 DEF Grows
    <3> QED
      BY <3>2 DEF OnItsWay
  <2> QED
    BY <2>1, <2>2
<1>2. ASSUME NEW c \in Calls, call'[c] = "loop", ~closed'[c],
             thread'[c].pc \in {"lock", "select"}, NEW v \in 1..version'
      PROVE  v \in thread'[c].carries \/ v \in known'[c] \/ OnItsWay(v, c)'
  <2>1. ~Begins(c)
    BY <1>2, RestingIsGood DEF Begins
  <2>2. call[c] = "loop" /\ ~closed[c] /\ Grows(c)
    BY <1>2, <2>1, StepsAndStreams DEF RegistryInv
  <2>3. CASE thread'[c].carries = 1..version /\ version' = version
    BY <1>2, <2>3
  <2>4. CASE thread[c].pc \in {"lock", "select"} /\ thread'[c].carries = thread[c].carries
    <3>1. v \in 1..version => v \in thread[c].carries \cup known[c] \/ OnItsWay(v, c)
      BY <2>2, <2>4 DEF RegistryInv, FlushCovers
    <3>2. known[c] \subseteq known'[c]
      BY <2>2 DEF Grows
    <3> QED
      BY <1>1, <1>2, <2>2, <2>4, <3>1, <3>2
  <2> QED
    BY <1>2, <2>2, <2>3, <2>4 DEF Grows
<1>3. ASSUME NEW c \in Calls, call'[c] = "loop", ~closed'[c], flushed'[c],
             NEW v \in 1..version'
      PROVE  v \in known'[c] \/ OnItsWay(v, c)'
  <2>1. CASE Begins(c)
    BY <1>3, <2>1 DEF Begins
  <2>2. CASE call[c] = "loop" /\ ~closed[c] /\ Grows(c)
    <3>1. CASE flushed[c]
      <4>1. v \in 1..version => v \in known[c] \/ OnItsWay(v, c)
        BY <2>2, <3>1 DEF RegistryInv, NothingMissed
      <4>2. known[c] \subseteq known'[c]
        BY <2>2 DEF Grows
      <4> QED
        BY <1>1, <1>3, <2>2, <4>1, <4>2
    <3>2. CASE thread[c].pc = "select" /\ thread[c].carries \subseteq known'[c]
      <4>1. v \in 1..version => v \in thread[c].carries \cup known[c] \/ OnItsWay(v, c)
        BY <2>2, <3>2 DEF RegistryInv, FlushCovers
      <4>2. known[c] \subseteq known'[c]
        BY <2>2 DEF Grows
      <4> QED
        BY <1>1, <1>3, <2>2, <3>2, <4>1, <4>2
    <3> QED
      BY <1>3, <2>2, <3>1, <3>2 DEF Grows
  <2> QED
    BY <1>3, <2>1, <2>2, StepsAndStreams DEF RegistryInv
<1> QED
  BY <1>2, <1>3 DEF FlushCovers, NothingMissed

(* Every step keeps the invariant.                                         *)
LEMMA RegistryNextInv == RegistryInv /\ [Next]_vars => RegistryInv'
<1> SUFFICES ASSUME RegistryInv, [Next]_vars PROVE RegistryInv'
  OBVIOUS
<1>1. CASE Next
  <2>1. Shape'
    BY <1>1, CallKeepsShape, PublisherKeepsShape, NotifyKeepsShape DEF Next, RegistryInv
  <2> QED
    BY <1>1, <2>1, NothingGoesMissing DEF RegistryInv
<1>2. CASE UNCHANGED vars
  BY <1>2 DEF vars, RegistryInv, Shape, TypeOK, GoodThreads, NothingFlushedEarly, ReplacerWrites,
              RegistryServes, NeverOrphaned, FlushCovers, NothingMissed, OnItsWay, At
<1> QED
  BY <1>1, <1>2

(* The inductive invariant holds of every behaviour.                       *)
THEOREM RegistryInvariant == Spec => []RegistryInv
  BY RegistryInitInv, RegistryNextInv, PTL DEF Spec

(* The behaviours that are checked are behaviours of the specification.    *)
LEMMA InstanceOfRegistry == MCSpec => Spec
<1>1. [MCNext]_vars => [Next]_vars
  BY DEF MCNext
<1> QED
  BY <1>1, PTL DEF MCSpec, Spec

(* Streams, threads and locks keep their types; no buffer overruns.        *)
THEOREM RegistryTypeCorrect == Spec => []TypeOK
<1>1. RegistryInv => TypeOK
  BY DEF RegistryInv, Shape
<1> QED
  BY <1>1, RegistryInvariant, PTL

(* A handler in its loop reads a stream that is registered or closed, who- *)
(* ever replaced it or cleaned up late (chat/server.go StreamChatEvents).  *)
THEOREM StreamsAreNeverOrphaned == Spec => []NeverOrphaned
<1>1. RegistryInv => NeverOrphaned
  BY DEF RegistryInv, Shape
<1> QED
  BY <1>1, RegistryInvariant, PTL

(* Streams of calls that ended are gone (the deferred cleanups).           *)
THEOREM NothingEverLeaks == Spec => []NothingLeaks
<1>1. RegistryInv => NothingLeaks
  BY DEF RegistryInv, Shape, RegistryServes, NothingLeaks
<1> QED
  BY <1>1, RegistryInvariant, PTL

(* A client that is connected and flushed has every update there is, or    *)
(* some publisher has it for the client (register before flush).           *)
THEOREM NothingIsEverMissed == Spec => []NothingMissed
<1>1. RegistryInv => NothingMissed
  BY DEF RegistryInv
<1> QED
  BY <1>1, RegistryInvariant, PTL

-----------------------------------------------------------------------------
(* A thread in the select of a stream holds its mutex and the stream is    *)
(* open: whoever would close it waits for the mutex.                       *)
WaitersHold ==
    \A t \in Threads :
        At(t, "select") => mutex[thread[t].at] = t /\ ~closed[thread[t].at]

(* A step of a call or of a publisher puts nobody into a select and takes  *)
(* nobody out of one.                                                      *)
LEMMA WaitersUndisturbed ==
    ASSUME Shape, WaitersHold, mutex' = mutex,
           \A t \in Threads : At(t, "select")' => thread'[t] = thread[t],
           \A c \in Calls : mutex[c] # Nobody => closed'[c] = closed[c]
    PROVE  WaitersHold'
<1> SUFFICES ASSUME NEW t \in Threads, At(t, "select")'
             PROVE  mutex[thread'[t].at] = t /\ ~closed'[thread'[t].at]
  BY DEF WaitersHold
<1>1. thread'[t] = thread[t] /\ At(t, "select")
  BY DEF At
<1>2. thread[t].at \in Calls /\ t # Nobody
  BY <1>1, RegistryAssumption DEF Shape, GoodThreads, GoodThread, Threads, At
<1> QED
  BY <1>1, <1>2 DEF WaitersHold

LEMMA CallKeepsWaiters ==
    ASSUME Shape, WaitersHold, NEW c \in Calls, CallStep(c)
    PROVE  WaitersHold'
<1>1. c \in Threads /\ thread \in [Threads -> Thread] /\ closed \in [Calls -> BOOLEAN]
  BY DEF Shape, TypeOK, Threads
<1>2. mutex' = mutex
  BY DEF CallStep, Open, Replace, Forward, EndClosed, Quit, End, Cleanup, Flush, streams, Become
<1>3. \A e \in Calls : mutex[e] # Nobody => closed'[e] = closed[e]
  <2>1. CASE Replace(c)
    BY <1>1, <2>1 DEF Replace
  <2>2. CASE closed' = closed
    BY <2>2
  <2> QED
    BY <2>1, <2>2 DEF CallStep, Open, Forward, EndClosed, Quit, End, Cleanup, Flush, streams
<1>4. ASSUME Registered(c), NEW t \in Threads, At(t, "select")' PROVE thread'[t] = thread[t]
  <2>1. CASE style = "chat"
    <3>1. thread' = [thread EXCEPT ![c] = [thread[c] EXCEPT !.pc = "flush", !.at = c]]
      BY <1>1, <1>4, <2>1 DEF Registered
    <3>2. thread[c] \in Thread
      BY <1>1 DEF Shape, TypeOK
    <3>3. thread'[c].pc = "flush"
      BY <1>1, <3>1, <3>2 DEF Thread
    <3> QED
      BY <1>1, <1>4, <3>1, <3>3 DEF At
  <2>2. CASE style # "chat"
    BY <1>4, <2>2 DEF Registered
  <2> QED
    BY <2>1, <2>2
<1>5. ASSUME Flush(c), NEW t \in Threads, At(t, "select")' PROVE thread'[t] = thread[t]
  <2>1. thread[c] \in Thread
    BY <1>1
  <2>2. [thread[c] EXCEPT !.pc = "lock", !.carries = 1..version].pc # "select"
    BY <2>1 DEF Thread
  <2>3. thread'[c].pc # "select" /\ \A q \in Threads \ {c} : thread'[q] = thread[q]
    BY <1>1, <1>5, <2>2, RestingIsGood DEF Flush, Become
  <2> QED
    BY <1>5, <2>3 DEF At
<1>6. CASE thread' = thread
  BY <1>2, <1>3, <1>6, WaitersUndisturbed
<1>7. CASE Registered(c) \/ Flush(c)
  BY <1>2, <1>3, <1>4, <1>5, <1>7, WaitersUndisturbed
<1> QED
  BY <1>6, <1>7 DEF CallStep, Open, Replace, Forward, EndClosed, Quit, End, Cleanup

LEMMA PublisherKeepsWaiters ==
    ASSUME Shape, WaitersHold, NEW p \in Publishers, PublisherStep(p)
    PROVE  WaitersHold'
<1>1. p \in Threads /\ thread \in [Threads -> Thread]
  BY DEF Shape, TypeOK, Threads
<1>2. mutex' = mutex /\ closed' = closed
  BY DEF PublisherStep, Store, Publish, Lookup, Delivered, streams
<1>3. ASSUME NEW r, Become(p, r), r.pc # "select" PROVE WaitersHold'
  BY <1>1, <1>2, <1>3, WaitersUndisturbed DEF Become, At
<1>4. CASE Store(p)
  BY <1>3, <1>4, RestingIsGood DEF Store, Thread
<1>5. CASE Publish(p)
  BY <1>1, <1>3, <1>5 DEF Publish, Thread
<1>6. ASSUME NEW u \in Users, Lookup(p, u) PROVE WaitersHold'
  BY <1>1, <1>3, <1>6 DEF Lookup, Thread
<1>7. CASE Delivered(p)
  BY <1>3, <1>7, RestingIsGood DEF Delivered
<1> QED
  BY <1>4, <1>5, <1>6, <1>7 DEF PublisherStep

LEMMA NotifyKeepsWaiters ==
    ASSUME Shape, WaitersHold, NEW t \in Threads, NotifyStep(t)
    PROVE  WaitersHold'
<1> DEFINE c == thread[t].at
<1>1. /\ c \in Calls /\ t # Nobody /\ thread[t] \in Thread
      /\ thread \in [Threads -> Thread] /\ mutex \in [Calls -> Threads \cup {Nobody}]
      /\ closed \in [Calls -> BOOLEAN]
  <2>1. thread[t].pc \in {"lock", "select", "close"}
    BY DEF NotifyStep, Lock, SelectSend, SelectTimeout, Close, At
  <2>2. GoodThread(t, thread[t]) /\ TypeOK
    BY DEF Shape, GoodThreads
  <2>3. (t \in Calls \/ t \in Publishers) /\ t # Nobody
    BY RegistryAssumption DEF Threads
  <2> QED
    BY <2>1, <2>2, <2>3 DEF GoodThread, TypeOK
<1>2. \A q \in Threads : At(q, "select") =>
         /\ thread[q].at \in Calls /\ q # Nobody
         /\ mutex[thread[q].at] = q /\ ~closed[thread[q].at]
  BY RegistryAssumption DEF WaitersHold, Shape, GoodThreads, GoodThread, Threads, At
<1>3. Onward(t).pc # "select"
  BY <1>1, RestingIsGood DEF Onward, Thread
<1>4. \A q \in Threads \ {t} : thread'[q] = thread[q]
  BY <1>1 DEF NotifyStep, Lock, SelectSend, SelectTimeout, Close, Become
<1>5. CASE Lock(t)
  <2>1. mutex[c] = Nobody /\ closed' = closed
    BY <1>5 DEF Lock
  <2>2. CASE closed[c]
    <3>1. thread'[t].pc # "select" /\ mutex' = mutex
      BY <1>1, <1>3, <1>5, <2>2 DEF Lock, Become
    <3> QED
      BY <1>2, <1>4, <2>1, <3>1 DEF WaitersHold, At
  <2>3. CASE ~closed[c]
    <3>1. mutex' = [mutex EXCEPT ![c] = t] /\ thread'[t].at = c
      BY <1>1, <1>5, <2>3 DEF Lock, Become, Thread
    <3> QED
      BY <1>1, <1>2, <1>4, <2>1, <2>3, <3>1 DEF WaitersHold, At
  <2> QED
    BY <2>2, <2>3
<1>6. CASE SelectSend(t)
  <2>1. /\ mutex' = [mutex EXCEPT ![c] = Nobody] /\ closed' = closed
        /\ thread'[t].pc # "select" /\ mutex[c] = t
    BY <1>1, <1>2, <1>3, <1>6 DEF SelectSend, Become
  <2> QED
    BY <1>1, <1>2, <1>4, <2>1 DEF WaitersHold, At
<1>7. CASE SelectTimeout(t)
  <2>1. /\ mutex' = [mutex EXCEPT ![c] = Nobody] /\ closed' = closed
        /\ thread'[t].pc # "select" /\ mutex[c] = t
    BY <1>1, <1>2, <1>7 DEF SelectTimeout, Become, Thread
  <2> QED
    BY <1>1, <1>2, <1>4, <2>1 DEF WaitersHold, At
<1>8. CASE Close(t)
  <2>1. /\ closed' = [closed EXCEPT ![c] = TRUE] /\ mutex' = mutex
        /\ thread'[t].pc # "select" /\ mutex[c] = Nobody
    BY <1>1, <1>3, <1>8 DEF Close, Become
  <2> QED
    BY <1>1, <1>2, <1>4, <2>1 DEF WaitersHold, At
<1> QED
  BY <1>5, <1>6, <1>7, <1>8 DEF NotifyStep

LEMMA WaitingNextInv == RegistryInv /\ WaitersHold /\ [Next]_vars => WaitersHold'
<1> SUFFICES ASSUME RegistryInv, WaitersHold, [Next]_vars PROVE WaitersHold'
  OBVIOUS
<1>1. CASE Next
  BY <1>1, CallKeepsWaiters, PublisherKeepsWaiters, NotifyKeepsWaiters DEF Next, RegistryInv
<1>2. CASE UNCHANGED vars
  BY <1>2 DEF vars, WaitersHold, At
<1> QED
  BY <1>1, <1>2

THEOREM WaitersAlwaysHold == Spec => []WaitersHold
<1>1. Init => WaitersHold
  BY RestingIsGood DEF Init, WaitersHold, At
<1> QED
  BY <1>1, WaitingNextInv, RegistryInvariant, PTL DEF Spec

-----------------------------------------------------------------------------
(* A step that changes no stream and lets no handler leave cannot be seen. *)
Left == {c \in Calls : call[c] \in {"cleanup", "done"}}

LEMMA CannotBeSeen ==
    ASSUME UNCHANGED <<buffered, mutex, closed>>, Left' = Left
    PROVE  UNCHANGED Counted!countedVars
  BY Zenon DEF Counted!countedVars, Left

(* What calls do to the streams.                                           *)
LEMMA CallRefines ==
    ASSUME Shape, NEW c \in Calls, CallStep(c)
    PROVE  Counted!Next \/ UNCHANGED Counted!countedVars
<1>1. call \in [Calls -> {"new", "replace", "loop", "cleanup", "done"}]
  BY DEF Shape, TypeOK
<1>2. CASE Open(c)
  <2>1. UNCHANGED <<buffered, mutex, closed>> /\ call[c] = "new"
    BY <1>2 DEF Open
  <2>2. call' = [call EXCEPT ![c] = "replace"] \/ call' = [call EXCEPT ![c] = "loop"]
    BY <1>2 DEF Open, Registered
  <2>3. Left' = Left
    BY <1>1, <2>1, <2>2 DEF Left
  <2> QED
    BY <2>1, <2>3, CannotBeSeen
<1>3. CASE Replace(c)
  <2> DEFINE existing == registry[UserOf[c]]
  <2>1. existing \in Calls
    BY <1>3, RegistryAssumption DEF Replace, Shape, TypeOK, ReplacerWrites
  <2>2. /\ mutex[existing] = Nobody /\ closed' = [closed EXCEPT ![existing] = TRUE]
        /\ UNCHANGED <<mutex, buffered>>
        /\ call[c] = "replace" /\ call' = [call EXCEPT ![c] = "loop"]
    BY <1>3 DEF Replace, Registered
  <2>3. Left' = Left
    BY <1>1, <2>2 DEF Left
  <2> HIDE DEF existing
  <2>4. Counted!Shut(existing)
    BY <2>2, <2>3 DEF Counted!Shut, Left
  <2> QED
    BY <2>1, <2>4 DEF Counted!Next
<1>4. CASE Forward(c)
  <2>1. c \notin Left /\ Left' = Left
    BY <1>4 DEF Forward, Left
  <2>2. Counted!Take(c)
    BY <1>4, <2>1 DEF Forward, Counted!Take, Left
  <2> QED
    BY <2>2 DEF Counted!Next
<1>5. CASE EndClosed(c) \/ Quit(c)
  <2>1. /\ UNCHANGED <<buffered, mutex, closed>>
        /\ call[c] = "loop" /\ call' = [call EXCEPT ![c] = "cleanup"]
    BY <1>5 DEF EndClosed, Quit, End, streams
  <2>2. c \notin Left /\ Left' = Left \cup {c}
    BY <1>1, <2>1 DEF Left
  <2>3. Counted!Leave(c)
    BY <2>1, <2>2 DEF Counted!Leave, Left
  <2> QED
    BY <2>3 DEF Counted!Next
<1>6. CASE Cleanup(c)
  <2>1. /\ UNCHANGED <<buffered, mutex, closed>>
        /\ call[c] = "cleanup" /\ call' = [call EXCEPT ![c] = "done"]
    BY <1>6 DEF Cleanup, streams
  <2>2. Left' = Left
    BY <1>1, <2>1 DEF Left
  <2> QED
    BY <2>1, <2>2, CannotBeSeen
<1>7. CASE Flush(c)
  <2>1. UNCHANGED <<buffered, mutex, closed, call>>
    BY <1>7 DEF Flush, streams
  <2> QED
    BY <2>1, CannotBeSeen DEF Left
<1> QED
  BY <1>2, <1>3, <1>4, <1>5, <1>6, <1>7 DEF CallStep

(* What notifications do to them.                                          *)
LEMMA NotifyRefines ==
    ASSUME Shape, WaitersHold, NEW t \in Threads, NotifyStep(t)
    PROVE  Counted!Next \/ UNCHANGED Counted!countedVars
<1> DEFINE c == thread[t].at
<1>1. thread[t].pc \in {"lock", "select", "close"} /\ call' = call
  BY DEF NotifyStep, Lock, SelectSend, SelectTimeout, Close, At
<1>2. c \in Calls /\ t # Nobody
  <2>1. GoodThread(t, thread[t])
    BY DEF Shape, GoodThreads
  <2> QED
    BY <1>1, <2>1, RegistryAssumption DEF GoodThread, Threads
<1>3. Left' = Left
  BY <1>1 DEF Left
<1>4. At(t, "select") => mutex[c] = t /\ ~closed[c]
  BY DEF WaitersHold
<1>5. CASE Lock(t)
  <2>1. CASE closed[c]
    BY <1>3, <1>5, <2>1, CannotBeSeen DEF Lock
  <2>2. CASE ~closed[c]
    <3>1. Counted!Enter(c, t)
      BY <1>3, <1>5, <2>2 DEF Lock, Counted!Enter, Left
    <3> QED
      BY <1>2, <3>1 DEF Counted!Next
  <2> QED
    BY <2>1, <2>2
<1>6. CASE SelectSend(t)
  <2>1. Counted!Put(c)
    BY <1>2, <1>3, <1>4, <1>6 DEF SelectSend, Counted!Put, Left
  <2> QED
    BY <1>2, <2>1 DEF Counted!Next
<1>7. CASE SelectTimeout(t)
  <2>1. Counted!TimeOut(c)
    BY <1>2, <1>3, <1>4, <1>7 DEF SelectTimeout, Counted!TimeOut, Left
  <2> QED
    BY <1>2, <2>1 DEF Counted!Next
<1>8. CASE Close(t)
  <2>1. Counted!Shut(c)
    BY <1>3, <1>8 DEF Close, Counted!Shut, Left
  <2> QED
    BY <1>2, <2>1 DEF Counted!Next
<1> QED
  BY <1>5, <1>6, <1>7, <1>8 DEF NotifyStep

LEMMA RegistryStepRefines ==
    RegistryInv /\ WaitersHold /\ [Next]_vars => [Counted!Next]_(Counted!countedVars)
<1> SUFFICES ASSUME RegistryInv, WaitersHold, [Next]_vars
             PROVE  [Counted!Next]_(Counted!countedVars)
  OBVIOUS
<1>1. ASSUME NEW p \in Publishers, PublisherStep(p) PROVE UNCHANGED Counted!countedVars
  <2>1. UNCHANGED <<buffered, mutex, closed, call>>
    BY <1>1 DEF PublisherStep, Store, Publish, Lookup, Delivered, streams
  <2> QED
    BY <2>1, CannotBeSeen DEF Left
<1>2. CASE UNCHANGED vars
  BY <1>2, CannotBeSeen DEF vars, Left
<1> QED
  BY <1>1, <1>2, CallRefines, NotifyRefines DEF Next, RegistryInv

(* Whoever looks up, replaces, notifies or cleans up, the streams of the   *)
(* registry are streams as CountedStreams describes them, and as           *)
(* EventStream implements them (EventStreamProofs): each step of the       *)
(* servers does to one stream what Notify, Close or its handler may do.    *)
THEOREM RegistryImplementsCountedStreams == Spec => ImplementsCountedStreams
<1>1. Init => Counted!Init
  BY DEF Init, Counted!Init
<1> QED
  BY <1>1, RegistryInvariant, WaitersAlwaysHold, RegistryStepRefines, PTL
     DEF Spec, ImplementsCountedStreams, Counted!Spec
=============================================================================

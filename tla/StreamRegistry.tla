--------------------------- MODULE StreamRegistry ---------------------------
(***************************************************************************)
(* The streams a server keeps for the users of one chat, and the events    *)
(* that reach them.  style says which server it is: "chat" looks a stream  *)
(* up under streamsMu and notifies it after letting go, and flushes the    *)
(* current state to a new stream; "messaging" notifies every stream of the *)
(* chat while it holds streamsMu for reading, and flushes nothing.  Every  *)
(* user is a member of the chat here.                                      *)
(*                                                                         *)
(* A stream is named by the RPC call that created it.  Its buffer is a     *)
(* count: EventStream shows that it is a FIFO, and both that they are      *)
(* streams as CountedStreams describes them.  Updates of the chat are      *)
(* numbered by the order in which they are stored.                         *)
(***************************************************************************)
EXTENDS Naturals

CONSTANTS Users,
          Calls,        \* streaming RPCs over the life of the server
          UserOf,       \* UserOf[c]: the user who makes call c
          Publishers,   \* goroutines the event bus starts, one per event
          Nobody,       \* no call, no thread
          Styles,       \* which servers to consider
          Capacity,     \* buffer size of a stream
          MaxUpdates    \* bound on the updates stored

ASSUME RegistryAssumption ==
    /\ UserOf \in [Calls -> Users]
    /\ Publishers \cap Calls = {}
    /\ Nobody \notin Calls \cup Publishers
    /\ Styles \subseteq {"chat", "messaging"}
    /\ Capacity \in Nat
    /\ MaxUpdates \in Nat

Threads == Publishers \cup Calls    \* thread c flushes the stream of call c

VARIABLES style,        \* which server keeps the streams, never changes
          writer,       \* the call that holds streamsMu for writing
          readers,      \* the threads that hold it for reading
          registry,     \* registry[u]: the stream kept for u
          call,         \* call[c]: where call c is
          closed,       \* closed[c]: stream c has been closed
          mutex,        \* mutex[c]: the thread in stream c's select
          buffered,     \* buffered[c]: how much stream c has buffered
          thread,       \* thread[t]: where t is, and what it carries
          version,      \* how many updates of the chat are stored
          known,        \* history: the updates put on stream c
          flushed       \* history: whether stream c had its flush

vars == <<style, writer, readers, registry, call, closed, mutex, buffered, thread,
          version, known, flushed>>

locks == <<style, writer, readers>>
streams == <<closed, mutex, buffered, known, flushed>>
-----------------------------------------------------------------------------
(* carries: the updates in the event; todo: the users still to be told;    *)
(* at: the stream that is being notified.                                  *)
Thread == [pc: {"idle", "publish", "flush", "deliver", "lock", "select", "close"},
           carries: SUBSET (1..MaxUpdates), todo: SUBSET Users,
           at: Calls \cup {Nobody}]

Resting == [pc |-> "idle", carries |-> {}, todo |-> {}, at |-> Nobody]

Init ==
    /\ style \in Styles
    /\ writer = Nobody /\ readers = {}
    /\ registry = [u \in Users |-> Nobody]
    /\ call = [c \in Calls |-> "new"]
    /\ closed = [c \in Calls |-> FALSE]
    /\ mutex = [c \in Calls |-> Nobody]
    /\ buffered = [c \in Calls |-> 0]
    /\ thread = [t \in Threads |-> Resting]
    /\ version = 0
    /\ known = [c \in Calls |-> {}]
    /\ flushed = [c \in Calls |-> FALSE]

Free == writer = Nobody /\ readers = {}

(* What a new stream starts from: a flush of its own, or what its client   *)
(* gets from GetMessages once the stream is there.                         *)
Registered(c) ==
    /\ registry' = [registry EXCEPT ![UserOf[c]] = c]
    /\ call' = [call EXCEPT ![c] = "loop"]
    /\ IF style = "chat"
       THEN /\ thread' = [thread EXCEPT ![c].pc = "flush", ![c].at = c]
            /\ UNCHANGED <<known, flushed>>
       ELSE /\ known' = [known EXCEPT ![c] = 1..version]
            /\ flushed' = [flushed EXCEPT ![c] = TRUE]
            /\ UNCHANGED thread

(* A streaming call, under streamsMu: an earlier stream of the user has to *)
(* be closed first, and that waits for the thread in its select.           *)
Open(c) ==
    /\ call[c] = "new"
    /\ Free
    /\ IF registry[UserOf[c]] = Nobody
       THEN Registered(c) /\ UNCHANGED writer
       ELSE /\ writer' = c
            /\ call' = [call EXCEPT ![c] = "replace"]
            /\ UNCHANGED <<registry, thread, known, flushed>>
    /\ UNCHANGED <<style, readers, closed, mutex, buffered, version>>

(* Mutant: the earlier stream is closed without its mutex.                 *)
ReplaceUnlocked(c) ==
    /\ call[c] = "replace"
    /\ closed' = [closed EXCEPT ![registry[UserOf[c]]] = TRUE]
    /\ Registered(c)
    /\ writer' = Nobody
    /\ UNCHANGED <<style, readers, mutex, buffered, version>>

Replace(c) ==
    LET existing == registry[UserOf[c]]
    IN /\ call[c] = "replace"
       /\ mutex[existing] = Nobody
       /\ closed' = [closed EXCEPT ![existing] = TRUE]
       /\ Registered(c)
       /\ writer' = Nobody
       /\ UNCHANGED <<style, readers, mutex, buffered, version>>

(* The handler's loop.                                                     *)
Forward(c) ==
    /\ call[c] = "loop"
    /\ buffered[c] > 0
    /\ buffered' = [buffered EXCEPT ![c] = @ - 1]
    /\ UNCHANGED <<locks, registry, call, closed, mutex, thread, version,
                   known, flushed>>

End(c, condition) ==
    /\ call[c] = "loop"
    /\ condition
    /\ call' = [call EXCEPT ![c] = "cleanup"]
    /\ UNCHANGED <<locks, registry, streams, thread, version>>

(* Mutant: the loop does not notice that its channel is closed.            *)
EndClosedUnnoticed(c) == End(c, FALSE)

EndClosed(c) == End(c, closed[c] /\ buffered[c] = 0)

(* The client is gone: a ping failed, no pong came, the context ended.     *)
Quit(c) == End(c, TRUE)

(* Mutant: the deferred cleanup removes whatever stream is there.          *)
CleanupAny(c) ==
    /\ call[c] = "cleanup"
    /\ Free
    /\ registry' = [registry EXCEPT ![UserOf[c]] = Nobody]
    /\ call' = [call EXCEPT ![c] = "done"]
    /\ UNCHANGED <<locks, streams, thread, version>>

Cleanup(c) ==
    /\ call[c] = "cleanup"
    /\ Free
    /\ registry' = [registry EXCEPT ![UserOf[c]] = IF @ = c THEN Nobody ELSE @]
    /\ call' = [call EXCEPT ![c] = "done"]
    /\ UNCHANGED <<locks, streams, thread, version>>
-----------------------------------------------------------------------------
Become(t, rest) == thread' = [thread EXCEPT ![t] = rest]

At(t, pc) == thread[t].pc = pc

(* An RPC stores an update, and then hands its event to the bus, which     *)
(* starts a goroutine: here, the thread that stored it.                    *)
Store(p) ==
    /\ At(p, "idle")
    /\ version < MaxUpdates
    /\ version' = version + 1
    /\ Become(p, [Resting EXCEPT !.pc = "publish", !.carries = {version + 1}])
    /\ UNCHANGED <<locks, registry, call, streams>>

(* OnChatEvent reads the members; handleChatUpdates takes the read lock.   *)
Publish(p) ==
    /\ At(p, "publish")
    /\ IF style = "messaging"
       THEN writer = Nobody /\ readers' = readers \cup {p}
       ELSE UNCHANGED readers
    /\ Become(p, [thread[p] EXCEPT !.pc = "deliver", !.todo = Users])
    /\ UNCHANGED <<style, writer, registry, call, streams, version>>

(* The next user's stream is looked up, under the read lock.               *)
Lookup(p, u) ==
    /\ At(p, "deliver")
    /\ u \in thread[p].todo
    /\ writer = Nobody
    /\ Become(p, [thread[p] EXCEPT !.todo = @ \ {u}, !.at = registry[u],
                      !.pc = IF registry[u] = Nobody THEN "deliver" ELSE "lock"])
    /\ UNCHANGED <<locks, registry, call, streams, version>>

(* Mutant: the read lock is not given back.                                *)
DeliveredLocked(p) ==
    /\ At(p, "deliver")
    /\ thread[p].todo = {}
    /\ Become(p, Resting)
    /\ UNCHANGED <<locks, registry, call, streams, version>>

(* Everyone was told.                                                      *)
Delivered(p) ==
    /\ At(p, "deliver")
    /\ thread[p].todo = {}
    /\ Become(p, Resting)
    /\ readers' = readers \ {p}
    /\ UNCHANGED <<style, writer, registry, call, streams, version>>

(* Mutant: the state was read before the stream was registered.            *)
FlushStale(c) ==
    /\ At(c, "flush")
    /\ \E seen \in 0..version :
          Become(c, [thread[c] EXCEPT !.pc = "lock", !.carries = 1..seen])
    /\ UNCHANGED <<locks, registry, call, streams, version>>

(* flushInitialState reads the chat, or fails and leaves it at that.       *)
Flush(c) ==
    /\ At(c, "flush")
    /\ \/ Become(c, [thread[c] EXCEPT !.pc = "lock", !.carries = 1..version])
       \/ Become(c, Resting)
    /\ UNCHANGED <<locks, registry, call, streams, version>>

(* After a notification, successful or not, a publisher goes on.           *)
Onward(t) == IF t \in Calls THEN Resting
             ELSE [thread[t] EXCEPT !.pc = "deliver", !.at = Nobody]

(* Notify of one stream, the steps of EventStream.                         *)
Lock(t) ==
    LET c == thread[t].at
    IN /\ At(t, "lock")
       /\ mutex[c] = Nobody
       /\ IF closed[c]
          THEN Become(t, Onward(t)) /\ UNCHANGED mutex
          ELSE /\ mutex' = [mutex EXCEPT ![c] = t]
               /\ Become(t, [thread[t] EXCEPT !.pc = "select"])
       /\ UNCHANGED <<locks, registry, call, closed, buffered, version, known, flushed>>

SelectSend(t) ==
    LET c == thread[t].at
    IN /\ At(t, "select")
       /\ buffered[c] < Capacity
       /\ buffered' = [buffered EXCEPT ![c] = @ + 1]
       /\ known' = [known EXCEPT ![c] = @ \cup thread[t].carries]
       /\ flushed' = [flushed EXCEPT ![c] = @ \/ t = c]
       /\ mutex' = [mutex EXCEPT ![c] = Nobody]
       /\ Become(t, Onward(t))
       /\ UNCHANGED <<locks, registry, call, closed, version>>

(* Mutant: Notify waits for room without a timeout.                        *)
SelectTimeoutNever(t) == FALSE

SelectTimeout(t) ==
    LET c == thread[t].at
    IN /\ At(t, "select")
       /\ buffered[c] >= Capacity
       /\ mutex' = [mutex EXCEPT ![c] = Nobody]
       /\ Become(t, [thread[t] EXCEPT !.pc = "close"])
       /\ UNCHANGED <<locks, registry, call, closed, buffered, version, known, flushed>>

Close(t) ==
    LET c == thread[t].at
    IN /\ At(t, "close")
       /\ mutex[c] = Nobody
       /\ closed' = [closed EXCEPT ![c] = TRUE]
       /\ Become(t, Onward(t))
       /\ UNCHANGED <<locks, registry, call, mutex, buffered, version, known, flushed>>
-----------------------------------------------------------------------------
NotifyStep(t) == Lock(t) \/ SelectSend(t) \/ SelectTimeout(t) \/ Close(t)

CallStep(c) ==
    Open(c) \/ Replace(c) \/ Forward(c) \/ EndClosed(c) \/ Quit(c)
    \/ Cleanup(c) \/ Flush(c)

PublisherStep(p) ==
    Store(p) \/ Publish(p) \/ (\E u \in Users : Lookup(p, u)) \/ Delivered(p)

Next ==
    \/ \E c \in Calls : CallStep(c)
    \/ \E p \in Publishers : PublisherStep(p)
    \/ \E t \in Threads : NotifyStep(t)

(* Every goroutine that can go on again and again does: neither sync.Mutex *)
(* nor RWMutex lets a waiter starve, timers fire, the handlers' Sends      *)
(* return or fail.  All the calls come in; no client has to quit, no RPC   *)
(* has to store anything.                                                  *)
Fairness ==
    /\ \A c \in Calls :
          /\ SF_vars(Open(c) \/ Replace(c) \/ Forward(c) \/ EndClosed(c) \/ Cleanup(c))
          /\ SF_vars(Flush(c) \/ NotifyStep(c))
    /\ \A p \in Publishers :
          SF_vars(Publish(p) \/ (\E u \in Users : Lookup(p, u)) \/ Delivered(p)
                  \/ NotifyStep(p))

Spec == Init /\ [][Next]_vars

FairSpec == Spec /\ Fairness
-----------------------------------------------------------------------------
TypeOK ==
    /\ style \in Styles
    /\ writer \in Calls \cup {Nobody}
    /\ readers \subseteq Publishers
    /\ registry \in [Users -> Calls \cup {Nobody}]
    /\ call \in [Calls -> {"new", "replace", "loop", "cleanup", "done"}]
    /\ closed \in [Calls -> BOOLEAN]
    /\ mutex \in [Calls -> Threads \cup {Nobody}]
    /\ buffered \in [Calls -> 0..Capacity]
    /\ thread \in [Threads -> Thread]
    /\ version \in 0..MaxUpdates
    /\ known \in [Calls -> SUBSET (1..MaxUpdates)]
    /\ flushed \in [Calls -> BOOLEAN]

(* No handler waits on a stream that nobody can find any more: a handler   *)
(* in its loop reads from the stream registered for its user, or from one  *)
(* that is closed.  A cleanup that comes late must not take away the       *)
(* stream of the call that came after it.                                  *)
NeverOrphaned ==
    \A c \in Calls :
        call[c] = "loop" /\ ~closed[c] => registry[UserOf[c]] = c

(* The registry holds no stream of a call that is over.                    *)
NothingLeaks ==
    \A u \in Users : registry[u] # Nobody => call[registry[u]] \in {"loop", "cleanup"}

(* A thread that is on its way to tell call c of update v, or to close its *)
(* stream because it could not.                                            *)
OnItsWay(v, c) ==
    \E p \in Publishers :
        /\ v \in thread[p].carries
        /\ \/ At(p, "publish")
           \/ UserOf[c] \in thread[p].todo
           \/ thread[p].at = c

(* A connected client that got its flush misses nothing: every update that *)
(* is stored was flushed to it, put on its stream, or is on its way.  This *)
(* is why the stream is registered before the state to flush is read.      *)
NothingMissed ==
    \A c \in Calls :
        call[c] = "loop" /\ ~closed[c] /\ flushed[c] =>
            \A v \in 1..version : v \in known[c] \/ OnItsWay(v, c)

(* The streams here implement CountedStreams, as EventStream does: whoever *)
(* looks a stream up, replaces it or is late, an event is put only on an   *)
(* open stream, under its mutex, and a stream closes only under its mutex. *)
Counted == INSTANCE CountedStreams
    WITH Streams <- Calls, size <- buffered, holder <- mutex, shut <- closed,
         left <- {c \in Calls : call[c] \in {"cleanup", "done"}}

ImplementsCountedStreams == Counted!Spec

(* Every streaming call gets its stream registered, however many events    *)
(* are being delivered to slow clients.                                    *)
CallsAreServed == \A c \in Calls : call[c] = "new" ~> call[c] = "loop"

(* The handler of a stream that was closed, because another one replaced   *)
(* it or its client is too slow, ends and cleans up.                       *)
ClosedHandlersEnd == \A c \in Calls : closed[c] ~> call[c] = "done"

(* Every event is delivered or given up on: no publisher hangs.            *)
PublishersFinish == \A p \in Publishers : ~At(p, "idle") ~> At(p, "idle")
=============================================================================

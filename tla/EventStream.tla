----------------------------- MODULE EventStream -----------------------------
(***************************************************************************)
(* One ProtoEventStream: a Go channel with a buffer, a mutex and a closed  *)
(* flag.  Notify holds the mutex while it blocks on the full channel; when *)
(* it times out it gives the mutex back before Close takes it again, and   *)
(* in between any other thread may get it.  Closers stand for the servers, *)
(* which close a stream when its user opens another one.                   *)
(*                                                                         *)
(* An event is a number given out when Notify is called; what the selector *)
(* filters out never reaches the mutex and is left out.                    *)
(***************************************************************************)
EXTENDS Naturals, Sequences

CONSTANTS Notifiers,    \* threads of the event bus that call Notify
          Closers,      \* threads that call Close
          NoThread,     \* nobody holds the mutex
          Capacity,     \* the channel's buffer size
          MaxEvents     \* bound on the number of Notify calls

Threads == Notifiers \cup Closers

ASSUME StreamAssumption ==
    /\ NoThread \notin Threads
    /\ Notifiers \cap Closers = {}
    /\ Capacity \in Nat
    /\ MaxEvents \in Nat

VARIABLES lock,         \* the thread that holds the mutex
          closed,       \* the closed flag; the channel is closed with it
          ch,           \* the events in the channel's buffer
          pc,           \* pc[t]: where thread t is
          event,        \* event[t]: the event that thread t is sending
          started,      \* how many times Notify was called
          handler,      \* the RPC handler that reads the channel
          accepted,     \* history: the events that were sent on the channel
          lost          \* history: the events that timed out

vars == <<lock, closed, ch, pc, event, started, handler, accepted, lost>>
-----------------------------------------------------------------------------
Init ==
    /\ lock = NoThread
    /\ closed = FALSE
    /\ ch = <<>>
    /\ pc = [t \in Threads |-> "idle"]
    /\ event = [t \in Threads |-> 0]
    /\ started = 0
    /\ handler = "reading"
    /\ accepted = {}
    /\ lost = {}

Goto(t, label) == pc' = [pc EXCEPT ![t] = label]

Notify(t) ==
    /\ pc[t] = "idle"
    /\ started < MaxEvents
    /\ started' = started + 1
    /\ event' = [event EXCEPT ![t] = started + 1]
    /\ Goto(t, "lock")
    /\ UNCHANGED <<lock, closed, ch, handler, accepted, lost>>

(* The mutex is taken and the flag looked at: an error, or on to the       *)
(* select, mutex in hand.                                                  *)
Lock(t) ==
    /\ pc[t] = "lock"
    /\ lock = NoThread
    /\ IF closed
       THEN Goto(t, "idle") /\ UNCHANGED lock
       ELSE Goto(t, "select") /\ lock' = t
    /\ UNCHANGED <<closed, ch, event, started, handler, accepted, lost>>

(* The select, which sends as soon as there is room ...                    *)
SelectSend(t) ==
    /\ pc[t] = "select"
    /\ Len(ch) < Capacity
    /\ ch' = Append(ch, event[t])
    /\ accepted' = accepted \cup {event[t]}
    /\ lock' = NoThread
    /\ Goto(t, "idle")
    /\ UNCHANGED <<closed, event, started, handler, lost>>

(* Mutant: a timed out event is dropped and the stream left open.          *)
SelectTimeoutDropping(t) ==
    /\ pc[t] = "select"
    /\ Len(ch) >= Capacity
    /\ lost' = lost \cup {event[t]}
    /\ lock' = NoThread
    /\ Goto(t, "idle")
    /\ UNCHANGED <<closed, ch, event, started, handler, accepted>>

(* Mutant: Notify returns at the timeout with the mutex still locked.      *)
SelectTimeoutLocked(t) ==
    /\ pc[t] = "select"
    /\ Len(ch) >= Capacity
    /\ lost' = lost \cup {event[t]}
    /\ Goto(t, "close")
    /\ UNCHANGED <<lock, closed, ch, event, started, handler, accepted>>

(* ... and otherwise gives up at the timeout and goes on to Close.         *)
SelectTimeout(t) ==
    /\ pc[t] = "select"
    /\ Len(ch) >= Capacity
    /\ lost' = lost \cup {event[t]}
    /\ lock' = NoThread
    /\ Goto(t, "close")
    /\ UNCHANGED <<closed, ch, event, started, handler, accepted>>

CallClose(t) ==
    /\ pc[t] = "idle"
    /\ Goto(t, "close")
    /\ UNCHANGED <<lock, closed, ch, event, started, handler, accepted, lost>>

(* Mutant: Close does not take the mutex.                                  *)
CloseUnlocked(t) ==
    /\ pc[t] = "close"
    /\ closed' = TRUE
    /\ Goto(t, "idle")
    /\ UNCHANGED <<lock, ch, event, started, handler, accepted, lost>>

(* Close in one step: nothing between its Lock and its Unlock can block.   *)
Close(t) ==
    /\ pc[t] = "close"
    /\ lock = NoThread
    /\ closed' = TRUE
    /\ Goto(t, "idle")
    /\ UNCHANGED <<lock, ch, event, started, handler, accepted, lost>>
-----------------------------------------------------------------------------
(* The handler's loop: forward what comes, end when the channel is closed  *)
(* and drained, or quit because the client is gone.                        *)
Receive ==
    /\ handler = "reading"
    /\ ch # <<>>
    /\ ch' = Tail(ch)
    /\ UNCHANGED <<lock, closed, pc, event, started, handler, accepted, lost>>

(* Mutant: the handler ends on the flag and leaves what is in the buffer.  *)
ReceiveClosedEarly ==
    /\ handler = "reading"
    /\ closed
    /\ handler' = "finished"
    /\ UNCHANGED <<lock, closed, ch, pc, event, started, accepted, lost>>

ReceiveClosed ==
    /\ handler = "reading"
    /\ closed
    /\ ch = <<>>
    /\ handler' = "finished"
    /\ UNCHANGED <<lock, closed, ch, pc, event, started, accepted, lost>>

Quit ==
    /\ handler = "reading"
    /\ handler' = "gone"
    /\ UNCHANGED <<lock, closed, ch, pc, event, started, accepted, lost>>

NotifierStep(t) == Notify(t) \/ Lock(t) \/ SelectSend(t) \/ SelectTimeout(t)

Next ==
    \/ \E t \in Notifiers : NotifierStep(t)
    \/ \E t \in Closers : CallClose(t)
    \/ \E t \in Threads : Close(t)
    \/ Receive \/ ReceiveClosed \/ Quit

(* Timers fire and a running goroutine goes on (WF).  sync.Mutex hands     *)
(* itself to a waiter that has starved, so waiting threads get it (SF).    *)
(* A handler that can read or end does: grpc's Send returns or fails.      *)
Fairness ==
    /\ \A t \in Notifiers : /\ WF_vars(SelectSend(t) \/ SelectTimeout(t))
                            /\ SF_vars(Lock(t))
    /\ \A t \in Threads : SF_vars(Close(t))
    /\ WF_vars(Receive \/ ReceiveClosed)

Spec == Init /\ [][Next]_vars

FairSpec == Spec /\ Fairness
-----------------------------------------------------------------------------
TypeOK ==
    /\ lock \in Notifiers \cup {NoThread}
    /\ closed \in BOOLEAN
    /\ ch \in Seq(1..MaxEvents) /\ Len(ch) <= Capacity
    /\ pc \in [Threads -> {"idle", "lock", "select", "close"}]
    /\ event \in [Threads -> 0..MaxEvents]
    /\ started \in 0..MaxEvents
    /\ handler \in {"reading", "finished", "gone"}
    /\ accepted \subseteq 1..MaxEvents
    /\ lost \subseteq 1..MaxEvents

(* A thread in Notify's select, however long it blocks there, never does   *)
(* so on a channel that has been closed: the send would panic and take the *)
(* whole server down.                                                      *)
NeverSendsOnClosed == \A t \in Notifiers : pc[t] = "select" => ~closed

(* A client never stays connected to a stream with a hole in it: once an   *)
(* event is lost the stream is closed, or the thread that lost it is on    *)
(* its way to close it.                                                    *)
LossClosesTheStream ==
    lost # {} => closed \/ \E t \in Notifiers : pc[t] = "close"

(* EventStream implements BoundedStream.                                   *)
Abstract == INSTANCE BoundedStream
    WITH Events <- 1..MaxEvents, queue <- ch, taken <- accepted,
         open <- ~closed, reader <- handler

ImplementsBoundedStream == Abstract!Spec

(* To a server that only counts what is buffered, EventStream is a stream  *)
(* of CountedStreams, with its mutex and its timeout.                      *)
Counted == INSTANCE CountedStreams
    WITH Streams <- {"it"}, Nobody <- NoThread, Threads <- Notifiers,
         size <- [s \in {"it"} |-> Len(ch)], holder <- [s \in {"it"} |-> lock],
         shut <- [s \in {"it"} |-> closed],
         left <- IF handler = "reading" THEN {} ELSE {"it"}

ImplementsCountedStreams == Counted!Spec

(* Every Notify and every Close returns, whatever the client does: the     *)
(* event bus and the registry lock behind it are never stuck for good.     *)
CallsReturn == \A t \in Threads : pc[t] # "idle" ~> pc[t] = "idle"

(* The client of a stream that lost an event gets told: its handler ends.  *)
LossEndsTheHandler == lost # {} ~> handler # "reading"
=============================================================================

-------------------------- MODULE EventStreamProofs --------------------------
(***************************************************************************)
(* EventStream never sends on its closed channel, never leaves a stream    *)
(* with a hole in it open, and implements BoundedStream, for any number of *)
(* threads, any buffer size and any number of events.                      *)
(***************************************************************************)
EXTENDS EventStream, TLAPS

(* Who blocks in the select holds the mutex: what Close relies on.         *)
SelectHoldsLock == \A t \in Notifiers : pc[t] = "select" => lock = t

(* Only a call to Notify has an event to send.                             *)
ClosersOnlyClose == \A t \in Closers : pc[t] \in {"idle", "close"}

Sending(t) == pc[t] \in {"lock", "select"}

(* The event of a Notify in progress has not been sent yet, and no other   *)
(* Notify in progress has the same.                                        *)
EventsAreFresh ==
    /\ accepted \subseteq 1..started
    /\ \A t \in Notifiers : Sending(t) =>
          /\ event[t] \in 1..started
          /\ event[t] \notin accepted
          /\ \A u \in Notifiers : u # t /\ Sending(u) => event[u] # event[t]

StreamInv ==
    /\ TypeOK
    /\ SelectHoldsLock
    /\ ClosersOnlyClose
    /\ EventsAreFresh
    /\ NeverSendsOnClosed
    /\ LossClosesTheStream
-----------------------------------------------------------------------------
(* A stream starts out open, unlocked and empty.                           *)
LEMMA InitStreamInv == Init => StreamInv
  <1> SUFFICES ASSUME Init PROVE StreamInv
    OBVIOUS
  <1> USE StreamAssumption DEF Init, Threads
  <1>1. TypeOK
    <2>1. ch \in Seq(1..MaxEvents) /\ Len(ch) <= Capacity
      OBVIOUS
    <2>2. pc \in [Threads -> {"idle", "lock", "select", "close"}]
      OBVIOUS
    <2>3. event \in [Threads -> 0..MaxEvents]
      OBVIOUS
    <2>4. closed \in BOOLEAN
      BY Zenon
    <2>5. lock \in Notifiers \cup {NoThread}
      BY Zenon
    <2>6. started \in 0..MaxEvents
      OBVIOUS
    <2>7. /\ handler \in {"reading", "finished", "gone"}
          /\ accepted \subseteq 1..MaxEvents /\ lost \subseteq 1..MaxEvents
      OBVIOUS
    <2> QED
      BY <2>1, <2>2, <2>3, <2>4, <2>5, <2>6, <2>7, Zenon DEF TypeOK
  <1>2. SelectHoldsLock /\ ClosersOnlyClose /\ NeverSendsOnClosed
    BY DEF SelectHoldsLock, ClosersOnlyClose, NeverSendsOnClosed
  <1>3. EventsAreFresh
    BY DEF EventsAreFresh, Sending
  <1>4. LossClosesTheStream
    BY DEF LossClosesTheStream
  <1> QED
    BY <1>1, <1>2, <1>3, <1>4 DEF StreamInv

(* Every step keeps every variable in its type.                            *)
LEMMA StepKeepsType == StreamInv /\ [Next]_vars => TypeOK'
  <1> SUFFICES ASSUME StreamInv, [Next]_vars PROVE TypeOK'
    OBVIOUS
  <1> USE StreamAssumption DEF StreamInv, TypeOK, Goto, Threads
  <1>1. ASSUME NEW t \in Notifiers, Notify(t) PROVE TypeOK'
    BY <1>1 DEF Notify
  <1>2. ASSUME NEW t \in Notifiers, Lock(t) PROVE TypeOK'
    BY <1>2 DEF Lock
  <1>3. ASSUME NEW t \in Notifiers, SelectSend(t) PROVE TypeOK'
    <2>1. event[t] \in 1..MaxEvents
      BY <1>3 DEF SelectSend, EventsAreFresh, Sending
    <2>2. ch' \in Seq(1..MaxEvents) /\ Len(ch') <= Capacity
      BY <1>3, <2>1 DEF SelectSend
    <2> QED
      BY <1>3, <2>1, <2>2 DEF SelectSend
  <1>4. ASSUME NEW t \in Notifiers, SelectTimeout(t) PROVE TypeOK'
    <2>1. event[t] \in 1..MaxEvents
      BY <1>4 DEF SelectTimeout, EventsAreFresh, Sending
    <2> QED
      BY <1>4, <2>1 DEF SelectTimeout
  <1>5. ASSUME NEW t \in Closers, CallClose(t) PROVE TypeOK'
    BY <1>5 DEF CallClose
  <1>6. ASSUME NEW t \in Threads, Close(t) PROVE TypeOK'
    BY <1>6 DEF Close
  <1>7. CASE Receive
    <2>1. Tail(ch) \in Seq(1..MaxEvents) /\ Len(Tail(ch)) <= Capacity
      BY <1>7 DEF Receive
    <2> QED
      BY <1>7, <2>1 DEF Receive
  <1>8. CASE ReceiveClosed
    BY <1>8 DEF ReceiveClosed
  <1>9. CASE Quit
    BY <1>9 DEF Quit
  <1>10. CASE UNCHANGED vars
    BY <1>10 DEF vars
  <1> QED
    BY <1>1, <1>2, <1>3, <1>4, <1>5, <1>6, <1>7, <1>8, <1>9, <1>10
       DEF Next, NotifierStep

(* The mutex: it is held from the look at the flag to the end of the       *)
(* select, so Close finds nobody in a select.                              *)
LEMMA StepKeepsLock ==
  StreamInv /\ [Next]_vars =>
      SelectHoldsLock' /\ ClosersOnlyClose' /\ NeverSendsOnClosed'
  <1> SUFFICES ASSUME StreamInv, [Next]_vars
               PROVE  SelectHoldsLock' /\ ClosersOnlyClose' /\ NeverSendsOnClosed'
    OBVIOUS
  <1> USE StreamAssumption
      DEF StreamInv, TypeOK, Goto, Threads, SelectHoldsLock, ClosersOnlyClose,
          NeverSendsOnClosed
  <1>1. ASSUME NEW t \in Notifiers, Notify(t)
        PROVE  SelectHoldsLock' /\ ClosersOnlyClose' /\ NeverSendsOnClosed'
    BY <1>1 DEF Notify
  <1>2. ASSUME NEW t \in Notifiers, Lock(t)
        PROVE  SelectHoldsLock' /\ ClosersOnlyClose' /\ NeverSendsOnClosed'
    BY <1>2 DEF Lock
  <1>3. ASSUME NEW t \in Notifiers, SelectSend(t)
        PROVE  SelectHoldsLock' /\ ClosersOnlyClose' /\ NeverSendsOnClosed'
    BY <1>3 DEF SelectSend
  <1>4. ASSUME NEW t \in Notifiers, SelectTimeout(t)
        PROVE  SelectHoldsLock' /\ ClosersOnlyClose' /\ NeverSendsOnClosed'
    BY <1>4 DEF SelectTimeout
  <1>5. ASSUME NEW t \in Closers, CallClose(t)
        PROVE  SelectHoldsLock' /\ ClosersOnlyClose' /\ NeverSendsOnClosed'
    BY <1>5 DEF CallClose
  <1>6. ASSUME NEW t \in Threads, Close(t)
        PROVE  SelectHoldsLock' /\ ClosersOnlyClose' /\ NeverSendsOnClosed'
    BY <1>6 DEF Close
  <1>7. CASE Receive \/ ReceiveClosed \/ Quit \/ UNCHANGED vars
    BY <1>7 DEF Receive, ReceiveClosed, Quit, vars
  <1> QED
    BY <1>1, <1>2, <1>3, <1>4, <1>5, <1>6, <1>7 DEF Next, NotifierStep

(* Numbers are given out once, and a number is sent when its Notify ends.  *)
LEMMA StepKeepsFresh == StreamInv /\ [Next]_vars => EventsAreFresh'
  <1> SUFFICES ASSUME StreamInv, [Next]_vars PROVE EventsAreFresh'
    OBVIOUS
  <1> USE StreamAssumption DEF StreamInv, TypeOK, Goto, Threads, EventsAreFresh, Sending
  <1>1. ASSUME NEW t \in Notifiers, Notify(t) PROVE EventsAreFresh'
    BY <1>1 DEF Notify
  <1>2. ASSUME NEW t \in Notifiers, Lock(t) PROVE EventsAreFresh'
    BY <1>2 DEF Lock
  <1>3. ASSUME NEW t \in Notifiers, SelectSend(t) PROVE EventsAreFresh'
    BY <1>3 DEF SelectSend
  <1>4. ASSUME NEW t \in Notifiers, SelectTimeout(t) PROVE EventsAreFresh'
    BY <1>4 DEF SelectTimeout
  <1>5. ASSUME NEW t \in Closers, CallClose(t) PROVE EventsAreFresh'
    BY <1>5 DEF CallClose
  <1>6. ASSUME NEW t \in Threads, Close(t) PROVE EventsAreFresh'
    BY <1>6 DEF Close
  <1>7. CASE Receive \/ ReceiveClosed \/ Quit \/ UNCHANGED vars
    BY <1>7 DEF Receive, ReceiveClosed, Quit, vars
  <1> QED
    BY <1>1, <1>2, <1>3, <1>4, <1>5, <1>6, <1>7 DEF Next, NotifierStep

(* A thread that lost an event stays on its way to Close until it closes.  *)
LEMMA StepKeepsLoss == StreamInv /\ [Next]_vars => LossClosesTheStream'
  <1> SUFFICES ASSUME StreamInv, [Next]_vars PROVE LossClosesTheStream'
    OBVIOUS
  <1> USE StreamAssumption
      DEF StreamInv, TypeOK, Goto, Threads, LossClosesTheStream
  <1>1. ASSUME NEW t \in Notifiers, Notify(t) PROVE LossClosesTheStream'
    BY <1>1 DEF Notify
  <1>2. ASSUME NEW t \in Notifiers, Lock(t) PROVE LossClosesTheStream'
    BY <1>2 DEF Lock
  <1>3. ASSUME NEW t \in Notifiers, SelectSend(t) PROVE LossClosesTheStream'
    BY <1>3 DEF SelectSend
  <1>4. ASSUME NEW t \in Notifiers, SelectTimeout(t) PROVE LossClosesTheStream'
    BY <1>4 DEF SelectTimeout
  <1>5. ASSUME NEW t \in Closers, CallClose(t) PROVE LossClosesTheStream'
    BY <1>5 DEF CallClose
  <1>6. ASSUME NEW t \in Threads, Close(t) PROVE LossClosesTheStream'
    BY <1>6 DEF Close
  <1>7. CASE Receive \/ ReceiveClosed \/ Quit \/ UNCHANGED vars
    BY <1>7 DEF Receive, ReceiveClosed, Quit, vars
  <1> QED
    BY <1>1, <1>2, <1>3, <1>4, <1>5, <1>6, <1>7 DEF Next, NotifierStep

(* StreamInv is an inductive invariant of the stream.                      *)
THEOREM StreamInvariant == Spec => []StreamInv
  <1>1. StreamInv /\ [Next]_vars => StreamInv'
    BY StepKeepsType, StepKeepsLock, StepKeepsFresh, StepKeepsLoss DEF StreamInv
  <1> QED
    BY InitStreamInv, <1>1, PTL DEF Spec

(* Every variable keeps its type, and the buffer its size.                 *)
THEOREM StreamTypeCorrect == Spec => []TypeOK
  <1>1. StreamInv => TypeOK
    BY DEF StreamInv
  <1> QED
    BY StreamInvariant, <1>1, PTL

(* Notify never blocks in its select on a channel that is closed, so its   *)
(* send never panics, whoever else notifies and closes.                    *)
THEOREM StreamNeverSendsOnClosed == Spec => []NeverSendsOnClosed
  <1>1. StreamInv => NeverSendsOnClosed
    BY DEF StreamInv
  <1> QED
    BY StreamInvariant, <1>1, PTL

(* A stream that lost an event is closed or about to be.                   *)
THEOREM StreamLossCloses == Spec => []LossClosesTheStream
  <1>1. StreamInv => LossClosesTheStream
    BY DEF StreamInv
  <1> QED
    BY StreamInvariant, <1>1, PTL
-----------------------------------------------------------------------------
(* Every step of the stream is a step of the bounded queue or none at all: *)
(* the mutex, the waiting and the timeout cannot be seen from outside.     *)
LEMMA StepRefines ==
  StreamInv /\ [Next]_vars => [Abstract!Next]_(Abstract!streamVars)
  <1> SUFFICES ASSUME StreamInv, [Next]_vars
               PROVE  [Abstract!Next]_(Abstract!streamVars)
    OBVIOUS
  <1> USE StreamAssumption DEF StreamInv, TypeOK, Threads, Abstract!streamVars
  <1>1. ASSUME NEW t \in Notifiers, Notify(t)
        PROVE  UNCHANGED Abstract!streamVars
    BY <1>1 DEF Notify
  <1>2. ASSUME NEW t \in Notifiers, Lock(t)
        PROVE  UNCHANGED Abstract!streamVars
    BY <1>2 DEF Lock
  <1>3. ASSUME NEW t \in Notifiers, SelectSend(t)
        PROVE  Abstract!Next
    <2>1. event[t] \in 1..MaxEvents /\ event[t] \notin accepted /\ ~closed
      BY <1>3 DEF SelectSend, EventsAreFresh, Sending, NeverSendsOnClosed
    <2>2. Abstract!Accept(event[t])
      BY <1>3, <2>1 DEF SelectSend, Abstract!Accept
    <2> QED
      BY <2>1, <2>2 DEF Abstract!Next
  <1>4. ASSUME NEW t \in Notifiers, SelectTimeout(t)
        PROVE  UNCHANGED Abstract!streamVars
    BY <1>4 DEF SelectTimeout
  <1>5. ASSUME NEW t \in Closers, CallClose(t)
        PROVE  UNCHANGED Abstract!streamVars
    BY <1>5 DEF CallClose
  <1>6. ASSUME NEW t \in Threads, Close(t)
        PROVE  Abstract!Shut \/ UNCHANGED Abstract!streamVars
    BY <1>6 DEF Close, Abstract!Shut
  <1>7. CASE Receive
    BY <1>7 DEF Receive, Abstract!Next, Abstract!Forward
  <1>8. CASE ReceiveClosed
    BY <1>8 DEF ReceiveClosed, Abstract!Next, Abstract!Finish
  <1>9. CASE Quit
    BY <1>9 DEF Quit, Abstract!Next, Abstract!GiveUp
  <1>10. CASE UNCHANGED vars
    BY <1>10 DEF vars
  <1> QED
    BY <1>1, <1>2, <1>3, <1>4, <1>5, <1>6, <1>7, <1>8, <1>9, <1>10
       DEF Next, NotifierStep, Abstract!Next

(* ProtoEventStream is a bounded FIFO that takes no event twice and none   *)
(* after it has closed, for every interleaving of Notify, Close and the    *)
(* handler.                                                                *)
THEOREM StreamImplementsBoundedStream == Spec => ImplementsBoundedStream
  <1>1. Init => Abstract!Init
    BY DEF Init, Abstract!Init
  <1> QED
    BY <1>1, StreamInvariant, StepRefines, PTL
       DEF Spec, ImplementsBoundedStream, Abstract!Spec
-----------------------------------------------------------------------------
(* So it is for a server that counts: every step enters a stream, puts an  *)
(* event on it, gives up, closes it, takes an event, leaves, or cannot be  *)
(* seen.                                                                   *)
LEMMA CountedStepRefines ==
  StreamInv /\ [Next]_vars => [Counted!Next]_(Counted!countedVars)
  <1> SUFFICES ASSUME StreamInv, [Next]_vars
               PROVE  [Counted!Next]_(Counted!countedVars)
    OBVIOUS
  <1> USE StreamAssumption DEF StreamInv, TypeOK, Threads
  <1> DEFINE it == "it"
  <1>1. ASSUME UNCHANGED <<ch, lock, closed, handler>>
        PROVE  UNCHANGED Counted!countedVars
    BY <1>1, Zenon DEF Counted!countedVars
  <1>2. ASSUME NEW t \in Notifiers, Notify(t)
        PROVE  UNCHANGED Counted!countedVars
    BY <1>1, <1>2 DEF Notify
  <1>3. ASSUME NEW t \in Notifiers, Lock(t)
        PROVE  Counted!Next \/ UNCHANGED Counted!countedVars
    <2>1. CASE closed
      BY <1>1, <1>3, <2>1 DEF Lock
    <2>2. CASE ~closed
      <3>1. Counted!Enter(it, t)
        BY <1>3, <2>2 DEF Lock, Counted!Enter
      <3> QED
        BY <3>1 DEF Counted!Next
    <2> QED
      BY <2>1, <2>2
  <1>4. ASSUME NEW t \in Notifiers, SelectSend(t)
        PROVE  Counted!Next
    <2>1. lock # NoThread /\ ~closed
      BY <1>4 DEF SelectSend, SelectHoldsLock, NeverSendsOnClosed
    <2>2. Len(ch') = Len(ch) + 1
      BY <1>4 DEF SelectSend
    <2>3. Counted!Put(it)
      BY <1>4, <2>1, <2>2 DEF SelectSend, Counted!Put
    <2> QED
      BY <2>3 DEF Counted!Next
  <1>5. ASSUME NEW t \in Notifiers, SelectTimeout(t)
        PROVE  Counted!Next
    <2>1. lock # NoThread
      BY <1>5 DEF SelectTimeout, SelectHoldsLock
    <2>2. Counted!TimeOut(it)
      BY <1>5, <2>1 DEF SelectTimeout, Counted!TimeOut
    <2> QED
      BY <2>2 DEF Counted!Next
  <1>6. ASSUME NEW t \in Closers, CallClose(t)
        PROVE  UNCHANGED Counted!countedVars
    BY <1>1, <1>6 DEF CallClose
  <1>7. ASSUME NEW t \in Threads, Close(t)
        PROVE  Counted!Next
    <2>1. Counted!Shut(it)
      BY <1>7 DEF Close, Counted!Shut
    <2> QED
      BY <2>1 DEF Counted!Next
  <1>8. CASE Receive
    <2>1. Len(ch) > 0 /\ Len(ch') = Len(ch) - 1
      BY <1>8 DEF Receive
    <2>2. Counted!Take(it)
      BY <1>8, <2>1 DEF Receive, Counted!Take
    <2> QED
      BY <2>2 DEF Counted!Next
  <1>9. CASE ReceiveClosed \/ Quit
    <2>1. Counted!Leave(it)
      BY <1>9 DEF ReceiveClosed, Quit, Counted!Leave
    <2> QED
      BY <2>1 DEF Counted!Next
  <1>10. CASE UNCHANGED vars
    BY <1>1, <1>10 DEF vars
  <1> QED
    BY <1>2, <1>3, <1>4, <1>5, <1>6, <1>7, <1>8, <1>9, <1>10 DEF Next, NotifierStep

(* ProtoEventStream is a stream as CountedStreams describes it: a thread   *)
(* that waits for room holds its mutex, and Close waits for that thread.   *)
THEOREM StreamImplementsCountedStreams == Spec => ImplementsCountedStreams
  <1>1. Init => Counted!Init
    BY DEF Init, Counted!Init
  <1> QED
    BY <1>1, StreamInvariant, CountedStepRefines, PTL
       DEF Spec, ImplementsCountedStreams, Counted!Spec
=============================================================================

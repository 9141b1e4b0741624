--------------------------- MODULE CountedStreams ---------------------------
(***************************************************************************)
(* What a server relies on when it keeps event streams and does not look   *)
(* at what is in them.  A stream is a count of events, a mutex that is     *)
(* held by a thread that waits for room, and a flag; it takes an event     *)
(* only from the thread that holds it, when there is room and never after  *)
(* it has closed, and it closes only when nobody waits in it.  EventStream *)
(* implements this for one stream, and the streams in StreamRegistry are   *)
(* such streams: so a count may stand there for the buffer.                *)
(***************************************************************************)
EXTENDS Naturals

CONSTANTS Streams,
          Threads,      \* those who notify the streams
          Nobody,       \* no thread
          Capacity      \* how many events a stream buffers

VARIABLES size,         \* size[s]: the events buffered in stream s
          holder,       \* holder[s]: the thread that waits for room in it
          shut,         \* shut[s]: whether it has closed
          left          \* the streams whose handler does not read any more

countedVars == <<size, holder, shut, left>>

Init == /\ size = [s \in Streams |-> 0]
        /\ holder = [s \in Streams |-> Nobody]
        /\ shut = [s \in Streams |-> FALSE]
        /\ left = {}

Enter(s, t) == /\ holder[s] = Nobody /\ ~shut[s]
               /\ holder' = [holder EXCEPT ![s] = t]
               /\ UNCHANGED <<size, shut, left>>

Put(s) == /\ holder[s] # Nobody /\ ~shut[s] /\ size[s] < Capacity
          /\ size' = [size EXCEPT ![s] = @ + 1]
          /\ holder' = [holder EXCEPT ![s] = Nobody]
          /\ UNCHANGED <<shut, left>>

(* The wait for room in a full stream ends at the timeout.                 *)
TimeOut(s) == /\ holder[s] # Nobody /\ size[s] >= Capacity
              /\ holder' = [holder EXCEPT ![s] = Nobody]
              /\ UNCHANGED <<size, shut, left>>

Shut(s) == /\ holder[s] = Nobody
           /\ shut' = [shut EXCEPT ![s] = TRUE]
           /\ UNCHANGED <<size, holder, left>>

Take(s) == /\ s \notin left /\ size[s] > 0
           /\ size' = [size EXCEPT ![s] = @ - 1]
           /\ UNCHANGED <<holder, shut, left>>

(* The handler leaves, drained or not.                                     *)
Leave(s) == /\ s \notin left
            /\ left' = left \cup {s}
            /\ UNCHANGED <<size, holder, shut>>

Next == \E s \in Streams :
            \/ \E t \in Threads : Enter(s, t)
            \/ Put(s) \/ TimeOut(s) \/ Shut(s) \/ Take(s) \/ Leave(s)

Spec == Init /\ [][Next]_countedVars
=============================================================================

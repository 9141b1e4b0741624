---------------------------- MODULE BoundedStream ----------------------------
(***************************************************************************)
(* What a ProtoEventStream promises the server that puts events on it and  *)
(* the handler that reads it: a FIFO of bounded size that closes once,     *)
(* takes every event at most once and none after it has closed, and ends   *)
(* for its reader only when it is closed and drained.  No locks, no        *)
(* threads, no timeouts: EventStream implements this.                      *)
(***************************************************************************)
EXTENDS Naturals, Sequences

CONSTANTS Events,     \* the events that may be put on the stream
          Capacity    \* how many the stream buffers

VARIABLES queue,      \* the events buffered, oldest first
          taken,      \* the events ever accepted
          open,       \* whether the stream accepts events
          reader      \* the handler that forwards them to its client

streamVars == <<queue, taken, open, reader>>

Init == /\ queue = <<>>
        /\ taken = {}
        /\ open = TRUE
        /\ reader = "reading"

Accept(e) == /\ open
             /\ e \notin taken
             /\ Len(queue) < Capacity
             /\ queue' = Append(queue, e)
             /\ taken' = taken \cup {e}
             /\ UNCHANGED <<open, reader>>

Shut == /\ open
        /\ open' = FALSE
        /\ UNCHANGED <<queue, taken, reader>>

Forward == /\ reader = "reading"
           /\ queue # <<>>
           /\ queue' = Tail(queue)
           /\ UNCHANGED <<taken, open, reader>>

Finish == /\ reader = "reading"
          /\ ~open
          /\ queue = <<>>
          /\ reader' = "finished"
          /\ UNCHANGED <<queue, taken, open>>

GiveUp == /\ reader = "reading"
          /\ reader' = "gone"
          /\ UNCHANGED <<queue, taken, open>>

Next == (\E e \in Events : Accept(e)) \/ Shut \/ Forward \/ Finish \/ GiveUp

Spec == Init /\ [][Next]_streamVars
=============================================================================

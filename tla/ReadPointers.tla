---------------------------- MODULE ReadPointers ----------------------------
(***************************************************************************)
(* The delivered and read pointers of chat members, and the AdvancePointer *)
(* RPC.  Message ids are ordered by their bytes; here they are numbers,    *)
(* and 0 is a pointer that was never set.  The memory store compares and   *)
(* sets under its mutex; the postgres store reads the row, compares, and  *)
(* then inserts or updates it, with nothing in between held.               *)
(***************************************************************************)
EXTENDS Naturals

CONSTANTS Keys,       \* (chat, user, pointer type), the rows' primary key
          Calls,      \* slots for RPCs in progress
          LastId,     \* message ids are 1..LastId
          Backends    \* the kinds of PointerStore the server may run on

ASSUME PointerAssumption ==
    /\ LastId \in Nat
    /\ Backends \subseteq {"memory", "postgres"}

VARIABLES pointer,    \* pointer[k]: the row of k, 0 when there is none
          call,       \* call[c]: the AdvancePointer in progress in slot c
          published,  \* published[k]: the last pointer update put on the bus
          backend     \* the store behind this server, chosen when it starts

vars == <<pointer, call, published, backend>>

Ids == 1..LastId

Call == [pc: {"idle", "select", "insert", "update", "publish"},
         key: Keys, to: 0..LastId, seen: 0..LastId]

Idle(c) == call[c].pc = "idle"
Goto(c, label) == call' = [call EXCEPT ![c].pc = label]
Set(k, id) == pointer' = [pointer EXCEPT ![k] = id]

Init ==
    /\ pointer = [k \in Keys |-> 0]
    /\ call \in [Calls -> {d \in Call : d.pc = "idle" /\ d.to = 0 /\ d.seen = 0}]
    /\ published = [k \in Keys |-> 0]
    /\ backend \in Backends

(* The request, past the membership check.                                 *)
AdvancePointer(c, k, id) ==
    /\ Idle(c)
    /\ call' = [call EXCEPT ![c] = [pc |-> "select", key |-> k, to |-> id, seen |-> 0]]
    /\ UNCHANGED <<pointer, published>>

AdvanceInMemory(c) ==
    LET k == call[c].key
        id == call[c].to
    IN /\ backend = "memory"
       /\ call[c].pc = "select"
       /\ \/ /\ pointer[k] < id
             /\ Set(k, id)
             /\ Goto(c, "publish")
          \/ /\ pointer[k] >= id
             /\ Goto(c, "idle")
             /\ UNCHANGED pointer
       /\ UNCHANGED published

(* Mutant: an existing row is updated without comparing.                   *)
SelectPointerOnly(c) ==
    /\ backend = "postgres"
    /\ call[c].pc = "select"
    /\ call' = [call EXCEPT ![c] =
                  [@ EXCEPT !.pc = IF pointer[call[c].key] = 0 THEN "insert" ELSE "update",
                            !.seen = pointer[call[c].key]]]
    /\ UNCHANGED <<pointer, published>>

SelectPointer(c) ==
    LET k == call[c].key
    IN /\ backend = "postgres"
       /\ call[c].pc = "select"
       /\ call' = [call EXCEPT ![c] =
                     [@ EXCEPT !.pc = CASE pointer[k] = 0 -> "insert"
                                        [] pointer[k] >= call[c].to -> "idle"
                                        [] OTHER -> "update",
                               !.seen = pointer[k]]]
       /\ UNCHANGED <<pointer, published>>

(* The INSERT fails on the primary key when the row is there by now.       *)
InsertPointer(c) ==
    LET k == call[c].key
    IN /\ call[c].pc = "insert"
       /\ IF pointer[k] = 0
          THEN Set(k, call[c].to) /\ Goto(c, "publish")
          ELSE UNCHANGED pointer /\ Goto(c, "idle")
       /\ UNCHANGED published

UpdatePointer(c) ==
    /\ call[c].pc = "update"
    /\ Set(call[c].key, call[c].to)
    /\ Goto(c, "publish")
    /\ UNCHANGED published

(* The pointer update goes to the event bus and the RPC is answered.       *)
PublishPointer(c) ==
    /\ call[c].pc = "publish"
    /\ published' = [published EXCEPT ![call[c].key] = call[c].to]
    /\ Goto(c, "idle")
    /\ UNCHANGED pointer

(* A store error, a cancelled request or a restart inside a call.          *)
Fail(c) ==
    /\ ~Idle(c)
    /\ Goto(c, "idle")
    /\ UNCHANGED <<pointer, published>>

Next ==
    /\ UNCHANGED backend
    /\ \E c \in Calls :
        \/ \E k \in Keys, id \in Ids : AdvancePointer(c, k, id)
        \/ AdvanceInMemory(c)
        \/ SelectPointer(c) \/ InsertPointer(c) \/ UpdatePointer(c)
        \/ PublishPointer(c) \/ Fail(c)

Spec == Init /\ [][Next]_vars
-----------------------------------------------------------------------------
TypeOK ==
    /\ pointer \in [Keys -> 0..LastId]
    /\ call \in [Calls -> Call]
    /\ published \in [Keys -> 0..LastId]
    /\ backend \in Backends

(* A pointer never moves back, whatever calls overlap: "If the existing    *)
(* pointer is already ahead of the new pointer, don't update"              *)
(* (messaging/postgres/store.go).                                          *)
NeverMovesBack == [][\A k \in Keys : pointer'[k] >= pointer[k]]_vars

(* What can move a pointer back is one thing only: the UPDATE of a call on *)
(* the postgres store that another call has overtaken since its SELECT.    *)
OnlyStaleUpdatesMoveBack ==
    [][\A k \in Keys : pointer'[k] < pointer[k] =>
          /\ backend = "postgres"
          /\ \E c \in Calls : /\ call[c].pc = "update"
                              /\ call[c].key = k
                              /\ call[c].seen < call[c].to
                              /\ call[c].to < pointer[k]]_vars

(* With the memory store nobody is told of a pointer the store does not    *)
(* have: the stored pointer is never behind one that was published.        *)
PublishedIsStored ==
    backend = "memory" => \A k \in Keys : published[k] <= pointer[k]
=============================================================================

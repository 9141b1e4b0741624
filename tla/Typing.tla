------------------------------- MODULE Typing -------------------------------
(***************************************************************************)
(* Typing notifications of one chat.  NotifyIsTyping publishes the state   *)
(* of a user and only then updates the map of users who are typing; a      *)
(* worker wakes up twice a second, and under the map's mutex publishes a   *)
(* timeout for every user it has not heard of for a minute.  The last      *)
(* thing published of a user is what the chat's clients show.              *)
(***************************************************************************)
EXTENDS Naturals

CONSTANTS Typists,      \* the users of the chat
          TypingCalls,  \* slots for NotifyIsTyping calls in progress
          MaxNotices    \* bound on the number of calls

ASSUME TypingAssumption == MaxNotices \in Nat

States == {"started", "still", "stopped"}     \* what a client may report

VARIABLES
  entry,     \* entry[u]: "none", or the age of u's entry in activelyTypingUsers
  shown,     \* shown[u]: the last notification published of u says it types
  notice,    \* notice[c]: the NotifyIsTyping call in slot c
  worker,    \* the timeout worker: what it has left to visit and to delete
  crossed,   \* crossed[u]: something else was published of u while its call ran
  notices    \* number of calls so far

typingVars == <<entry, shown, notice, worker, crossed, notices>>

Notice == [pc: {"idle", "publish", "update"}, user: Typists, state: States]
Worker == [pc: {"asleep", "scanning"}, todo: SUBSET Typists, expired: SUBSET Typists]

Asleep == [pc |-> "asleep", todo |-> {}, expired |-> {}]

(* A call of u that is published but not yet in the map.                   *)
InProgress(u) == \E c \in TypingCalls : notice[c].pc = "update" /\ notice[c].user = u

TypingInit ==
    /\ entry = [u \in Typists |-> "none"]
    /\ shown = [u \in Typists |-> FALSE]
    /\ notice \in [TypingCalls -> {n \in Notice : n.pc = "idle" /\ n.state = "stopped"}]
    /\ worker = Asleep
    /\ crossed = [u \in Typists |-> FALSE]
    /\ notices = 0

(* The request, past the membership check.                                 *)
NotifyIsTyping(c, u, s) ==
    /\ notices < MaxNotices
    /\ notice[c].pc = "idle"
    /\ notice' = [notice EXCEPT ![c] = [pc |-> "publish", user |-> u, state |-> s]]
    /\ notices' = notices + 1
    /\ UNCHANGED <<entry, shown, worker, crossed>>

PublishTyping(c) ==
    LET u == notice[c].user
    IN /\ notice[c].pc = "publish"
       /\ shown' = [shown EXCEPT ![u] = notice[c].state # "stopped"]
       /\ crossed' = [crossed EXCEPT ![u] = InProgress(u)]
       /\ notice' = [notice EXCEPT ![c].pc = "update"]
       /\ UNCHANGED <<entry, worker, notices>>

(* Mutant: a report that the user stopped leaves its entry in the map.     *)
UpdateTypingMapKeeping(c) ==
    LET u == notice[c].user
    IN /\ notice[c].pc = "update"
       /\ worker.pc = "asleep"
       /\ entry' = [entry EXCEPT ![u] = IF notice[c].state = "stopped" THEN @ ELSE "fresh"]
       /\ notice' = [notice EXCEPT ![c].pc = "idle"]
       /\ UNCHANGED <<shown, worker, crossed, notices>>

(* The update waits for the mutex that the worker holds while it scans.    *)
UpdateTypingMap(c) ==
    LET u == notice[c].user
    IN /\ notice[c].pc = "update"
       /\ worker.pc = "asleep"
       /\ entry' = [entry EXCEPT ![u] = IF notice[c].state = "stopped" THEN "none" ELSE "fresh"]
       /\ notice' = [notice EXCEPT ![c].pc = "idle"]
       /\ UNCHANGED <<shown, worker, crossed, notices>>

(* A minute goes by without word of u.                                     *)
GrowOld(u) ==
    /\ entry[u] = "fresh"
    /\ entry' = [entry EXCEPT ![u] = "old"]
    /\ UNCHANGED <<shown, notice, worker, crossed, notices>>

StartScan ==
    /\ worker.pc = "asleep"
    /\ worker' = [pc |-> "scanning", todo |-> {u \in Typists : entry[u] # "none"}, expired |-> {}]
    /\ UNCHANGED <<entry, shown, notice, crossed, notices>>

(* Mutant: an old entry is deleted without telling anyone.                 *)
VisitTypistSilently(u) ==
    /\ u \in worker.todo
    /\ worker' = [worker EXCEPT !.todo = @ \ {u},
                                !.expired = IF entry[u] = "old" THEN @ \union {u} ELSE @]
    /\ UNCHANGED <<entry, shown, notice, crossed, notices>>

(* An entry that grows old after its visit waits for the next scan.  A     *)
(* call that has published of u but cannot enter its news is overruled.    *)
VisitTypist(u) ==
    /\ u \in worker.todo
    /\ \/ /\ entry[u] = "old"
          /\ worker' = [worker EXCEPT !.todo = @ \ {u}, !.expired = @ \union {u}]
          /\ shown' = [shown EXCEPT ![u] = FALSE]
          /\ crossed' = [crossed EXCEPT ![u] = InProgress(u)]
       \/ /\ entry[u] # "old"
          /\ worker' = [worker EXCEPT !.todo = @ \ {u}]
          /\ UNCHANGED <<shown, crossed>>
    /\ UNCHANGED <<entry, notice, notices>>

EndScan ==
    /\ worker.pc = "scanning"
    /\ worker.todo = {}
    /\ entry' = [u \in Typists |-> IF u \in worker.expired THEN "none" ELSE entry[u]]
    /\ worker' = Asleep
    /\ UNCHANGED <<shown, notice, crossed, notices>>

WorkerStep == StartScan \/ (\E u \in Typists : VisitTypist(u)) \/ EndScan

TypingNext ==
    \/ \E c \in TypingCalls, u \in Typists, s \in States : NotifyIsTyping(c, u, s)
    \/ \E c \in TypingCalls : PublishTyping(c) \/ UpdateTypingMap(c)
    \/ \E u \in Typists : GrowOld(u)
    \/ WorkerStep

TypingSpec == TypingInit /\ [][TypingNext]_typingVars

(* Timeouts are scheduled as the code's are: calls run to their end, the   *)
(* mutex is handed over even though the worker takes it again and again,   *)
(* time passes, and the worker keeps waking up.                            *)
TypingFairness ==
    /\ \A c \in TypingCalls : WF_typingVars(PublishTyping(c)) /\ SF_typingVars(UpdateTypingMap(c))
    /\ \A u \in Typists : WF_typingVars(GrowOld(u))
    /\ WF_typingVars(WorkerStep)

TypingFairSpec == TypingSpec /\ TypingFairness

-----------------------------------------------------------------------------
(* Every variable has its type; the worker carries nothing from one scan   *)
(* to the next, and holds entries only of users who were in the map.       *)
TypingTypeOK ==
    /\ entry \in [Typists -> {"none", "fresh", "old"}]
    /\ shown \in [Typists -> BOOLEAN]
    /\ notice \in [TypingCalls -> Notice]
    /\ worker \in Worker
    /\ crossed \in [Typists -> BOOLEAN]
    /\ notices \in 0..MaxNotices
    /\ worker.pc = "asleep" => worker = Asleep
    /\ \A u \in worker.expired : entry[u] = "old"

(* What clients were last told of a user and what the map says of the user *)
(* agree as soon as the call that told them is over, except when another   *)
(* call of the same user or a timeout was published while a call was       *)
(* between its publication and its update of the map.                      *)
IndicatorFollowsMap ==
    \A u \in Typists :
        ~crossed[u] /\ ~InProgress(u) /\ u \notin worker.expired
            => (shown[u] <=> entry[u] # "none")

(* When the calls have stopped, nobody is shown typing forever: the worker *)
(* times out everyone whose last calls did not cross one another.          *)
TypingEnds == \A u \in Typists : <>[](~shown[u] \/ crossed[u])
=============================================================================

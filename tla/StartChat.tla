------------------------------ MODULE StartChat ------------------------------
(***************************************************************************)
(* StartChat: a payment is checked, the chat is created and numbered, the  *)
(* payment is marked as fulfilled, and the members are added one by one,   *)
(* with no transaction around the steps.  While the members are added, a   *)
(* goroutine that reports the payment assigns its own result to the        *)
(* handler's err variable: whichever assignment comes last is the one the  *)
(* loop looks at.                                                          *)
(*                                                                         *)
(* A chat is its position in chats.  The id of a group chat is random and  *)
(* never collides; the id of a two-way chat is a function of the two       *)
(* users.  Members added here and lost later are ChatMembership's concern. *)
(***************************************************************************)
EXTENDS Naturals, Sequences

CONSTANTS Users,
          Guests,       \* the lists of users that clients invite
          Intents,      \* the payment intents that exist
          NoIntent,     \* two-way chats are not paid for
          PaidBy,       \* PaidBy[i]: the user in intent i's metadata
          Calls,        \* slots for StartChat calls in progress
          Backends,     \* the kinds of stores the server may run on
          MaxChats      \* bound on the number of chats

ASSUME StartAssumption ==
    /\ Guests \subseteq Seq(Users)
    /\ NoIntent \notin Intents
    /\ PaidBy \in [Intents -> Users]
    /\ Backends \subseteq {"memory", "postgres"}
    /\ MaxChats \in Nat

VARIABLES chats,        \* the chats in the order of their creation
          fulfilled,    \* the intents the intent store has as fulfilled
          call,         \* call[c]: the StartChat in slot c
          answered,     \* history: the calls answered OK
          backend       \* the stores behind this server, chosen when it starts

vars == <<chats, fulfilled, call, answered, backend>>
-----------------------------------------------------------------------------
(* pair: the users of a two-way chat, {} for a group.                      *)
Chat == [pair: SUBSET Users, room: Nat, members: SUBSET Users,
         intent: Intents \cup {NoIntent}]

(* A call that was answered OK: for which chat, and who was to be added.   *)
Answer == [chat: Nat, invited: Seq(Users)]

Pcs == {"idle", "lookup", "max", "insert", "mark", "markInsert", "add", "check"}

(* invited: who is to be added, a group's caller last; added: how many of  *)
(* them were; err: the variable; notifying: whether the goroutine that     *)
(* also assigns err is still running.                                      *)
Call == [pc: Pcs, pair: SUBSET Users, invited: Seq(Users), added: Nat,
         intent: Intents \cup {NoIntent}, chat: Nat, room: Nat,
         err: BOOLEAN, notifying: BOOLEAN]

Begin(pair, invited, i) ==
    [pc |-> "lookup", pair |-> pair, invited |-> invited, added |-> 0,
     intent |-> i, chat |-> 0, room |-> 0, err |-> FALSE, notifying |-> FALSE]

NoCall == [Begin({}, <<>>, NoIntent) EXCEPT !.pc = "idle"]

Return(c) == call' = [call EXCEPT ![c] = NoCall]

Init ==
    /\ chats = <<>>
    /\ fulfilled = {}
    /\ call = [c \in Calls |-> NoCall]
    /\ answered = {}
    /\ backend \in Backends

(* What the stores' unique keys see.                                       *)
Rooms == {chats[k].room : k \in DOMAIN chats}
TwoWayChats(pair) == {k \in DOMAIN chats : pair # {} /\ chats[k].pair = pair}

LargestRoom == IF Rooms = {} THEN 0
               ELSE CHOOSE r \in Rooms : \A other \in Rooms : other <= r
-----------------------------------------------------------------------------
(* Mutant: the payment is consumed before there is a chat.                 *)
StartGroupMarksFirst(c, u, guests, i) ==
    /\ call[c].pc = "idle"
    /\ i \notin fulfilled
    /\ PaidBy[i] = u
    /\ fulfilled' = fulfilled \cup {i}
    /\ call' = [call EXCEPT ![c] = Begin({}, Append(guests, u), i)]
    /\ UNCHANGED <<chats, answered>>

(* The request up to CreateChat: the intent is not fulfilled and names the *)
(* caller, and the moderation of the name did not flag it.                 *)
StartGroup(c, u, guests, i) ==
    /\ call[c].pc = "idle"
    /\ i \notin fulfilled
    /\ PaidBy[i] = u
    /\ call' = [call EXCEPT ![c] = Begin({}, Append(guests, u), i)]
    /\ UNCHANGED <<chats, fulfilled, answered>>

StartTwoWay(c, u, other) ==
    /\ call[c].pc = "idle"
    /\ call' = [call EXCEPT ![c] = Begin({u, other}, <<u, other>>, NoIntent)]
    /\ UNCHANGED <<chats, fulfilled, answered>>

(* An existing two-way chat is not an error: its members are added again.  *)
FoundExisting(c) ==
    \E k \in TwoWayChats(call[c].pair) :
        call' = [call EXCEPT ![c].pc = "add", ![c].chat = k]

(* The chat as it is stored, and what comes next.                          *)
Create(c, room) ==
    LET d == call[c]
    IN /\ Len(chats) < MaxChats
       /\ chats' = Append(chats, [pair |-> d.pair, room |-> room, members |-> {},
                                  intent |-> d.intent])
       /\ call' = [call EXCEPT ![c].pc = IF d.intent = NoIntent THEN "add" ELSE "mark",
                               ![c].chat = Len(chats) + 1]

(* Mutant: a chat that exists is created once more.                        *)
CreateInMemoryAnew(c) ==
    /\ backend = "memory"
    /\ call[c].pc = "lookup"
    /\ Create(c, Len(chats) + 1)
    /\ UNCHANGED <<fulfilled, answered>>

(* CreateChat of the memory store, one critical section; nextRoom grows    *)
(* with the chats.                                                         *)
CreateInMemory(c) ==
    /\ backend = "memory"
    /\ call[c].pc = "lookup"
    /\ IF TwoWayChats(call[c].pair) # {}
       THEN FoundExisting(c) /\ UNCHANGED chats
       ELSE Create(c, Len(chats) + 1)
    /\ UNCHANGED <<fulfilled, answered>>

(* CreateChat in postgres: does the id exist; which room number is the     *)
(* largest; insert the next, which the unique keys on the id and on the    *)
(* room number may refuse.                                                 *)
LookupChat(c) ==
    /\ backend = "postgres"
    /\ call[c].pc = "lookup"
    /\ IF TwoWayChats(call[c].pair) # {}
       THEN FoundExisting(c)
       ELSE call' = [call EXCEPT ![c].pc = "max"]
    /\ UNCHANGED <<chats, fulfilled, answered>>

ReadLargestRoom(c) ==
    /\ call[c].pc = "max"
    /\ call' = [call EXCEPT ![c].pc = "insert", ![c].room = LargestRoom + 1]
    /\ UNCHANGED <<chats, fulfilled, answered>>

(* Mutant: nothing keeps a room number or an id from being used twice.     *)
InsertUnguarded(c) ==
    /\ call[c].pc = "insert"
    /\ Create(c, call[c].room)
    /\ UNCHANGED <<fulfilled, answered>>

InsertChat(c) ==
    /\ call[c].pc = "insert"
    /\ IF call[c].room \in Rooms \/ TwoWayChats(call[c].pair) # {}
       THEN Return(c) /\ UNCHANGED chats
       ELSE Create(c, call[c].room)
    /\ UNCHANGED <<fulfilled, answered>>
-----------------------------------------------------------------------------
(* MarkFulfilled, and the goroutine that reports the payment.  The call is *)
(* DENIED, its chat remaining, when the intent is fulfilled by now.        *)
Fulfil(c) ==
    /\ fulfilled' = fulfilled \cup {call[c].intent}
    /\ call' = [call EXCEPT ![c].pc = "add", ![c].notifying = TRUE]

MarkInMemory(c) ==
    /\ backend = "memory"
    /\ call[c].pc = "mark"
    /\ IF call[c].intent \in fulfilled
       THEN Return(c) /\ UNCHANGED fulfilled
       ELSE Fulfil(c)
    /\ UNCHANGED <<chats, answered>>

MarkSelect(c) ==
    /\ backend = "postgres"
    /\ call[c].pc = "mark"
    /\ IF call[c].intent \in fulfilled
       THEN Return(c)
       ELSE call' = [call EXCEPT ![c].pc = "markInsert"]
    /\ UNCHANGED <<chats, fulfilled, answered>>

MarkInsert(c) ==
    /\ call[c].pc = "markInsert"
    /\ Fulfil(c)
    /\ UNCHANGED <<chats, answered>>

(* The goroutine is done: err is what SendNotification returned.           *)
NotifyDone(c) ==
    /\ call[c].notifying
    /\ \E failed \in BOOLEAN :
          call' = [call EXCEPT ![c].err = failed, ![c].notifying = FALSE]
    /\ UNCHANGED <<chats, fulfilled, answered>>

(* One AddMember, which may fail, and the assignment of err.               *)
AddMember(c) ==
    LET d == call[c]
    IN /\ d.pc = "add"
       /\ \E failed \in BOOLEAN :
             /\ chats' = IF failed THEN chats
                         ELSE [chats EXCEPT ![d.chat].members =
                                   @ \cup {d.invited[d.added + 1]}]
             /\ call' = [call EXCEPT ![c].pc = "check", ![c].err = failed]
       /\ UNCHANGED <<fulfilled, answered>>

(* err is looked at: an error ends the call, and the last member the loop. *)
CheckError(c) ==
    LET d == call[c]
    IN /\ d.pc = "check"
       /\ \/ d.err /\ Return(c) /\ UNCHANGED answered
          \/ /\ ~d.err
             /\ d.added + 1 < Len(d.invited)
             /\ call' = [call EXCEPT ![c].pc = "add", ![c].added = @ + 1]
             /\ UNCHANGED answered
          \/ /\ ~d.err
             /\ d.added + 1 = Len(d.invited)
             /\ answered' = answered \cup {[chat |-> d.chat, invited |-> d.invited]}
             /\ Return(c)
       /\ UNCHANGED <<chats, fulfilled>>

(* A store error, a cancelled request or a restart inside a call.          *)
Fail(c) ==
    /\ call[c].pc # "idle"
    /\ Return(c)
    /\ UNCHANGED <<chats, fulfilled, answered>>

Next ==
    /\ UNCHANGED backend
    /\ \E c \in Calls :
        \/ \E u \in Users, guests \in Guests, i \in Intents : StartGroup(c, u, guests, i)
        \/ \E u, other \in Users : StartTwoWay(c, u, other)
        \/ CreateInMemory(c) \/ LookupChat(c) \/ ReadLargestRoom(c) \/ InsertChat(c)
        \/ MarkInMemory(c) \/ MarkSelect(c) \/ MarkInsert(c) \/ NotifyDone(c)
        \/ AddMember(c) \/ CheckError(c) \/ Fail(c)

Spec == Init /\ [][Next]_vars
-----------------------------------------------------------------------------
TypeOK ==
    /\ chats \in Seq(Chat)
    /\ fulfilled \subseteq Intents
    /\ call \in [Calls -> Call]
    /\ answered \subseteq Answer
    /\ backend \in Backends

(* Rooms are numbered 1, 2, 3, ... in the order of their creation: no      *)
(* number is given twice and none is skipped, although the next number is  *)
(* read in one statement and used in another.                              *)
RoomsAreNumberedInOrder == \A k \in DOMAIN chats : chats[k].room = k

(* Two users share one two-way chat, whoever starts it and however often.  *)
OneChatPerPair ==
    \A k, m \in DOMAIN chats :
        chats[k].pair # {} /\ chats[k].pair = chats[m].pair => k = m

(* A payment is consumed only for a chat that exists.                      *)
FulfilledMeansCreated ==
    fulfilled \subseteq {chats[k].intent : k \in DOMAIN chats}

(* With the memory store, of all the calls that come with the same payment *)
(* one is answered OK.                                                     *)
OneChatPerPayment ==
    backend = "memory" => \A a, b \in answered :
        /\ chats[a.chat].intent # NoIntent
        /\ chats[a.chat].intent = chats[b.chat].intent
        => a.chat = b.chat

Everyone(a) == {a.invited[n] : n \in DOMAIN a.invited}

(* Who is told that the two-way chat is there finds both users in it, also *)
(* when an earlier call created the chat and failed halfway.               *)
OkMeansBothAreIn ==
    \A a \in answered :
        chats[a.chat].pair # {} => Everyone(a) \subseteq chats[a.chat].members

(* Who is told that the group was created finds every invited user and the *)
(* owner in it (chat/tests/server.go, "Start Group").                      *)
OkMeansEveryoneIsIn ==
    \A a \in answered :
        chats[a.chat].pair = {} => Everyone(a) \subseteq chats[a.chat].members
=============================================================================

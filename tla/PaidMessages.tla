---------------------------- MODULE PaidMessages ----------------------------
(***************************************************************************)
(* SendMessage in one group chat, running beside the membership RPCs of    *)
(* ChatMembership: the authorizer reads the chat, the member row and the   *)
(* payment intent one after the other, the message is stored, and only     *)
(* then is the intent marked as fulfilled.  Nothing holds a lock or a      *)
(* transaction across these steps.                                         *)
(*                                                                         *)
(* A message is identified by its position in messages.  Whether a payment *)
(* names this chat, this user and the tipped message and amount is what    *)
(* Payment says of an intent; "other" stands for missing or invalid        *)
(* metadata and for payments made for another chat.                        *)
(***************************************************************************)
EXTENDS ChatMembership, Sequences

CONSTANTS Sends,        \* slots for SendMessage calls in progress
          Contents,     \* the content types that clients send
          Intents,      \* the payment intents that exist
          NoIntent,     \* the request carries no payment
          Payment,      \* Payment[i]: what intent i was paid for
          MaxMessages   \* bound on the number of messages stored

AllContents == {"text", "reply", "reaction", "tip", "deleted", "review"}

Payments == [for: {"listener", "tip", "other"}, user: Users, ref: Nat]

ASSUME MessagingAssumption ==
    /\ Contents \subseteq AllContents
    /\ NoIntent \notin Intents
    /\ Payment \in [Intents -> Payments]
    /\ MaxMessages \in Nat

VARIABLES open,         \* the chat's open status
          messages,     \* the stored messages, in the order of their ids
          fulfilled,    \* the intents the intent store has as fulfilled
          send,         \* send[s]: the SendMessage call occupying slot s
          accepted,     \* history: how often an intent was answered OK
          unsettled     \* history: intents whose call died after storing

messagingVars == <<open, messages, fulfilled, send, accepted, unsettled>>
vars == <<membershipVars, messagingVars>>
-----------------------------------------------------------------------------
(* paid: whether the authorizer asked for the payment that came with it.   *)
Message == [kind: AllContents, sender: Users, offStage: BOOLEAN,
            intent: Intents \cup {NoIntent}, paid: BOOLEAN]

(* A SendMessage call: the request, what its authorizer has read (open,    *)
(* paying), and for the properties whether the sender was muted and the    *)
(* intent fulfilled when the call came in.                                 *)
Send == [pc: {"idle", "member", "intent", "put", "mark", "markInsert"},
         user: Users, kind: AllContents, ref: Nat,
         intent: Intents \cup {NoIntent}, open: BOOLEAN, paying: BOOLEAN,
         wasMuted: BOOLEAN, wasSpent: BOOLEAN]

NoSend == [pc |-> "idle", user |-> Owner, kind |-> "text", ref |-> 0,
           intent |-> NoIntent, open |-> FALSE, paying |-> FALSE,
           wasMuted |-> FALSE, wasSpent |-> FALSE]

UserContent(kind) == kind \in {"text", "reply"}

(* The content types that refer to a message may refer to.                 *)
ReferenceAllowed(u, kind, ref) ==
    \/ kind = "text"
    \/ /\ kind \in {"reply", "reaction", "tip"}
       /\ UserContent(messages[ref].kind)
    \/ /\ kind = "deleted"
       /\ messages[ref].kind \in {"text", "reply", "reaction"}
       /\ u = Owner \/ messages[ref].sender = u
    \/ /\ kind = "review"
       /\ messages[ref].offStage
       /\ UserContent(messages[ref].kind)
       /\ u = Owner

(* The payment metadata a tip and a listener's message must come with.     *)
TipPaid(u, ref, i) ==
    /\ i # NoIntent
    /\ Payment[i] = [for |-> "tip", user |-> u, ref |-> ref]

ListenerPaid(u, i) ==
    /\ i # NoIntent
    /\ Payment[i].for = "listener"
    /\ Payment[i].user = u

(* Listeners pay for text and replies; the owner and speakers do not.      *)
NeedsListenerPayment(u, kind) ==
    UserContent(kind) /\ u # Owner /\ ~member[u].send

(* Mutant: the authorizer does not look at the mute.                       *)
AuthorizedIfMuted(d) ==
    /\ IsMember(d.user)
    /\ ReferenceAllowed(d.user, d.kind, d.ref)
    /\ d.kind = "tip" => TipPaid(d.user, d.ref, d.intent)
    /\ UserContent(d.kind) /\ d.user # Owner => d.open
    /\ NeedsListenerPayment(d.user, d.kind) => ListenerPaid(d.user, d.intent)

(* CanSendMessage for a request whose sender's row has just been read and  *)
(* whose chat was read before it, up to the look at the intent store.      *)
Authorized(d) ==
    /\ IsMember(d.user)
    /\ ~member[d.user].muted
    /\ ReferenceAllowed(d.user, d.kind, d.ref)
    /\ d.kind = "tip" => TipPaid(d.user, d.ref, d.intent)
    /\ UserContent(d.kind) /\ d.user # Owner => d.open
    /\ NeedsListenerPayment(d.user, d.kind) => ListenerPaid(d.user, d.intent)
-----------------------------------------------------------------------------
MessagingInit ==
    /\ open = TRUE
    /\ messages = <<>>
    /\ fulfilled = {}
    /\ send = [s \in Sends |-> NoSend]
    /\ accepted = [i \in Intents |-> 0]
    /\ unsettled = {}

EndSend(s) == send' = [send EXCEPT ![s] = NoSend]

(* OpenChat and CloseChat read the status, return when it is as asked, and *)
(* write it otherwise.  A write that comes late sets a status that is      *)
(* already there or acts like a call made at that moment, so one step does.*)
SetOpenStatus(isOpen) ==
    /\ open # isOpen
    /\ open' = isOpen
    /\ UNCHANGED <<membershipVars, messages, fulfilled, send, accepted, unsettled>>

(* SendMessage comes in and its authorizer reads the chat metadata.        *)
BeginSend(s, u, kind, ref, i) ==
    /\ send[s].pc = "idle"
    /\ u \in Registered
    /\ send' = [send EXCEPT ![s] =
                  [pc |-> "member", user |-> u, kind |-> kind, ref |-> ref,
                   intent |-> i, open |-> open, paying |-> FALSE,
                   wasMuted |-> member[u].muted, wasSpent |-> i \in fulfilled]]
    /\ UNCHANGED <<membershipVars, open, messages, fulfilled, accepted, unsettled>>

(* The authorizer reads the member row and decides, except for the intent. *)
ReadMember(s) ==
    /\ send[s].pc = "member"
    /\ LET d == send[s]
           paying == d.kind = "tip" \/ NeedsListenerPayment(d.user, d.kind)
       IN \/ /\ ~Authorized(d)
             /\ EndSend(s)
          \/ /\ Authorized(d)
             /\ send' = [send EXCEPT ![s].pc = IF paying THEN "intent" ELSE "put",
                                     ![s].paying = paying]
    /\ UNCHANGED <<membershipVars, open, messages, fulfilled, accepted, unsettled>>

(* Mutant: the authorizer does not ask whether the intent is fulfilled.    *)
CheckIntentNever(s) ==
    /\ send[s].pc = "intent"
    /\ send' = [send EXCEPT ![s].pc = "put"]
    /\ UNCHANGED <<membershipVars, open, messages, fulfilled, accepted, unsettled>>

(* Mutant: the intent is marked before the message is stored.              *)
CheckIntentMarksFirst(s) ==
    /\ send[s].pc = "intent"
    /\ send[s].intent \notin fulfilled
    /\ send' = [send EXCEPT ![s].pc = "put"]
    /\ fulfilled' = fulfilled \cup {send[s].intent}
    /\ UNCHANGED <<membershipVars, open, messages, accepted, unsettled>>

CheckIntent(s) ==
    /\ send[s].pc = "intent"
    /\ \/ /\ send[s].intent \in fulfilled
          /\ EndSend(s)
       \/ /\ send[s].intent \notin fulfilled
          /\ send' = [send EXCEPT ![s].pc = "put"]
    /\ UNCHANGED <<membershipVars, open, messages, fulfilled, accepted, unsettled>>

(* Mutant: only tips have their intent marked.                             *)
PutMessageMarksTips(s) ==
    /\ send[s].pc = "put"
    /\ Len(messages) < MaxMessages
    /\ LET d == send[s]
       IN /\ messages' = Append(messages,
                [kind |-> d.kind, sender |-> d.user, intent |-> d.intent,
                 paid |-> d.paying,
                 offStage |-> d.intent # NoIntent /\ UserContent(d.kind)])
          /\ IF d.kind # "tip"
             THEN EndSend(s)
             ELSE send' = [send EXCEPT ![s].pc = "mark"]
    /\ UNCHANGED <<membershipVars, open, fulfilled, accepted, unsettled>>

(* Mutant: the flag says what the sender is when the message is stored.    *)
PutMessageFlagsListeners(s) ==
    /\ send[s].pc = "put"
    /\ Len(messages) < MaxMessages
    /\ LET d == send[s]
       IN /\ messages' = Append(messages,
                [kind |-> d.kind, sender |-> d.user, intent |-> d.intent,
                 paid |-> d.paying,
                 offStage |-> NeedsListenerPayment(d.user, d.kind)])
          /\ IF d.intent = NoIntent
             THEN EndSend(s)
             ELSE send' = [send EXCEPT ![s].pc = "mark"]
    /\ UNCHANGED <<membershipVars, open, fulfilled, accepted, unsettled>>

(* Send: the message is stored and handed to the event bus.  User content  *)
(* that comes with a payment is taken to be sent from off stage.           *)
PutMessage(s) ==
    /\ send[s].pc = "put"
    /\ Len(messages) < MaxMessages
    /\ LET d == send[s]
       IN /\ messages' = Append(messages,
                [kind |-> d.kind, sender |-> d.user, intent |-> d.intent,
                 paid |-> d.paying,
                 offStage |-> d.intent # NoIntent /\ UserContent(d.kind)])
          /\ IF d.intent = NoIntent
             THEN EndSend(s)
             ELSE send' = [send EXCEPT ![s].pc = "mark"]
    /\ UNCHANGED <<membershipVars, open, fulfilled, accepted, unsettled>>

(* MarkFulfilled.  The call is answered DENIED when the intent turns out   *)
(* to be fulfilled already, although its message stands.                   *)
Fulfil(s) ==
    /\ fulfilled' = fulfilled \cup {send[s].intent}
    /\ accepted' = [accepted EXCEPT ![send[s].intent] = @ + 1]
    /\ EndSend(s)

(* Mutant: marking a fulfilled intent once more succeeds.                  *)
MarkInMemoryAgain(s) ==
    /\ backend = "memory"
    /\ send[s].pc = "mark"
    /\ Fulfil(s)
    /\ UNCHANGED <<membershipVars, open, messages, unsettled>>

MarkInMemory(s) ==
    /\ backend = "memory"
    /\ send[s].pc = "mark"
    /\ \/ /\ send[s].intent \in fulfilled
          /\ EndSend(s)
          /\ UNCHANGED <<fulfilled, accepted>>
       \/ /\ send[s].intent \notin fulfilled
          /\ Fulfil(s)
    /\ UNCHANGED <<membershipVars, open, messages, unsettled>>

(* In postgres MarkFulfilled is a SELECT and then an INSERT that does      *)
(* nothing, and reports success, when the row is there by now.             *)
MarkSelect(s) ==
    /\ backend = "postgres"
    /\ send[s].pc = "mark"
    /\ IF send[s].intent \in fulfilled
       THEN EndSend(s)
       ELSE send' = [send EXCEPT ![s].pc = "markInsert"]
    /\ UNCHANGED <<membershipVars, open, messages, fulfilled, accepted, unsettled>>

MarkInsert(s) ==
    /\ send[s].pc = "markInsert"
    /\ Fulfil(s)
    /\ UNCHANGED <<membershipVars, open, messages, unsettled>>

(* A store error, a cancelled request or a restart inside a call.          *)
FailSend(s) ==
    /\ send[s].pc # "idle"
    /\ EndSend(s)
    /\ unsettled' = IF send[s].pc \in {"mark", "markInsert"}
                    THEN unsettled \cup {send[s].intent} ELSE unsettled
    /\ UNCHANGED <<membershipVars, open, messages, fulfilled, accepted>>

SendNext(s) ==
    \/ \E u \in Users, kind \in Contents, i \in Intents \cup {NoIntent} :
          \E ref \in IF kind = "text" THEN {0} ELSE DOMAIN messages :
             BeginSend(s, u, kind, ref, i)
    \/ ReadMember(s) \/ CheckIntent(s) \/ PutMessage(s)
    \/ MarkInMemory(s) \/ MarkSelect(s) \/ MarkInsert(s)
    \/ FailSend(s)

Next ==
    \/ MembershipNext /\ UNCHANGED messagingVars
    \/ \E isOpen \in BOOLEAN : SetOpenStatus(isOpen)
    \/ \E s \in Sends : SendNext(s)

Spec == MembershipInit /\ MessagingInit /\ [][Next]_vars
-----------------------------------------------------------------------------
MessagingTypeOK ==
    /\ TypeOK
    /\ open \in BOOLEAN
    /\ messages \in Seq(Message)
    /\ fulfilled \subseteq Intents
    /\ send \in [Sends -> Send]
    /\ accepted \in [Intents -> Nat]
    /\ unsettled \subseteq Intents

Posted == {messages[n].intent : n \in DOMAIN messages}

(* No payment is consumed for nothing: an intent is fulfilled only once a  *)
(* message it came with is stored, whatever overlaps and wherever a call   *)
(* dies.                                                                   *)
FulfilledMeansPosted == fulfilled \subseteq Posted

(* No message is free: the intent a stored message came with is fulfilled, *)
(* or a call is about to mark it, or the call that should have died.       *)
PostedMeansSettled ==
    \A i \in Posted \ {NoIntent} :
        \/ i \in fulfilled \cup unsettled
        \/ \E s \in Sends : /\ send[s].intent = i
                            /\ send[s].pc \in {"mark", "markInsert"}

(* A payment that was fulfilled when a call came in does not buy that call *)
(* a message: only calls that overlap can share a payment.                 *)
SpentPaymentBuysNothing ==
    \A s \in Sends :
        send[s].pc = "put" /\ send[s].paying => ~send[s].wasSpent

(* Of all the calls that come with the same payment one is answered OK.    *)
(* The others get the ErrAlreadyFulfilled that intent/tests/store.go       *)
(* demands of a second MarkFulfilled.                                      *)
OneAcceptedPerIntent == \A i \in Intents : accepted[i] <= 1

(* The memory store keeps that promise, its MarkFulfilled being one        *)
(* critical section.                                                       *)
OneAcceptedInMemory == backend = "memory" => OneAcceptedPerIntent

(* Once a mute is stored no call that comes in later gets its message      *)
(* stored; only calls that were already past the check do.  On postgres    *)
(* the mute itself may be lost (MuteIsPermanent), and so may the silence.  *)
MutedStaysSilent ==
    backend = "memory" => \A s \in Sends :
        send[s].pc \in {"intent", "put", "mark", "markInsert"} => ~send[s].wasMuted

(* Nobody passes for a speaker: user content that its sender, a listener,  *)
(* had to pay for is stored as sent from off stage, and so is open to the  *)
(* owner's review, even when a promotion is stored before the message is.  *)
ListenersAreFlagged ==
    \A n \in DOMAIN messages :
        UserContent(messages[n].kind) /\ messages[n].paid => messages[n].offStage
=============================================================================

------------------------- MODULE PaidMessagesProofs -------------------------
(***************************************************************************)
(* Proofs about PaidMessages, for any users, payments, number of calls and *)
(* both stores: a message and the payment it came with agree, whatever     *)
(* overlaps and wherever a call dies.  The member rows bring the invariant *)
(* that ChatMembershipProofs proves of them.                               *)
(***************************************************************************)
EXTENDS MCPaidMessages, ChatMembershipProofs

(* What the authorizer has made sure of by the time a call is where it is. *)
AuthorizedSend(d) ==
    /\ d.pc \in {"intent", "mark", "markInsert"} => d.intent # NoIntent
    /\ d.pc # "idle" /\ d.paying => d.intent # NoIntent
    /\ d.pc = "intent" => d.paying
    /\ d.pc = "markInsert" => backend = "postgres"

(* What was spent when a call came in is still spent, so the call does not *)
(* get past the authorizer with it.                                        *)
SpentSend(d) ==
    /\ d.pc # "idle" /\ d.wasSpent => d.intent \in fulfilled
    /\ d.pc = "put" /\ d.paying => ~d.wasSpent

(* With the memory store a mute lasts, so the call is still at the check.  *)
MutedSend(d) ==
    backend = "memory" /\ d.wasMuted /\ d.pc # "idle" =>
        member[d.user].muted /\ d.pc = "member"

SendInv ==
    \A s \in Sends :
        /\ AuthorizedSend(send[s])
        /\ SpentSend(send[s])
        /\ MutedSend(send[s])
        /\ send[s].pc \in {"mark", "markInsert"} => send[s].intent \in Posted

(* With the memory store an intent is answered OK as it becomes fulfilled. *)
AcceptedInv ==
    backend = "memory" =>
        \A i \in Intents : accepted[i] <= 1 /\ (accepted[i] = 1 => i \in fulfilled)

PaidInv ==
    /\ MembershipInv
    /\ MessagingTypeOK
    /\ SendInv
    /\ AcceptedInv
    /\ FulfilledMeansPosted
    /\ PostedMeansSettled
    /\ ListenersAreFlagged

(* An idle slot of SendMessage is a call record like any other. *)
LEMMA NoSendType == NoSend \in Send
  BY MembershipAssumption DEF NoSend, Send, AllContents

(* The invariant holds in any sound group where no message has been sent   *)
(* and no payment is fulfilled.                                            *)
LEMMA PaidInitInv == MembershipInv /\ MessagingInit => PaidInv
<1> SUFFICES ASSUME MembershipInv, MessagingInit PROVE PaidInv
  OBVIOUS
<1>1. MessagingTypeOK
  BY NoSendType DEF MembershipInv, MessagingInit, MessagingTypeOK
<1>2. SendInv /\ AcceptedInv
  BY DEF MessagingInit, SendInv, AuthorizedSend, SpentSend, MutedSend, NoSend, AcceptedInv
<1>3. Posted = {}
  BY DEF MessagingInit, Posted
<1>4. FulfilledMeansPosted /\ PostedMeansSettled /\ ListenersAreFlagged
  BY <1>3 DEF MessagingInit, FulfilledMeansPosted, PostedMeansSettled, ListenersAreFlagged
<1> QED
  BY <1>1, <1>2, <1>4 DEF PaidInv

(* A room that has been running for a while is such a group.               *)
LEMMA RunningInitInv == RunningInit => MembershipInv
<1> SUFFICES ASSUME RunningInit PROVE MembershipInv
  OBVIOUS
<1> USE MembershipAssumption
<1>1. /\ member \in [Users -> {NoRow, NewRow(TRUE, TRUE), NewRow(FALSE, FALSE)}]
      /\ \A u \in Users : member[u].mod <=> u = Owner
      /\ call = [c \in Calls |-> NoCall] /\ backend \in Backends
  BY DEF RunningInit
<1>2. TypeOK
  <2>1. {NoRow, NewRow(TRUE, TRUE), NewRow(FALSE, FALSE)} \subseteq Row
    <3>1. NoRow \in Row
      BY DEF NoRow, Row
    <3>2. NewRow(TRUE, TRUE) \in Row /\ NewRow(FALSE, FALSE) \in Row
      BY NewRowType
    <3> QED
      BY <3>1, <3>2
  <2>2. NoCall \in Call
    BY DEF NoCall, NothingSeen, Call, Pc
  <2> QED
    BY <1>1, <2>1, <2>2 DEF TypeOK
<1>3. CallInv
  BY <1>1 DEF CallInv, NoCall, NothingSeen
<1>4. RowInv
  BY <1>1 DEF RowInv, FormerMembersHoldNothing, OwnerInControl, NoMuteWithoutRow, IsMember,
              NewRow, NoRow
<1> QED
  BY <1>2, <1>3, <1>4 DEF MembershipInv

(* Nobody's mute is taken back by a step on the memory store.              *)
LEMMA MemoryKeepsMutes ==
    ASSUME MembershipInv, [MembershipNext]_membershipVars, backend = "memory",
           NEW u \in Users, member[u].muted
    PROVE  member'[u].muted
  BY StepKeepsMutes DEF StaleRejoin

(* A membership RPC takes its step beside the sends.                       *)
LEMMA MembershipKeepsPaidInv ==
    ASSUME PaidInv, MembershipNext, UNCHANGED messagingVars
    PROVE  PaidInv'
<1>1. MembershipInv' /\ backend' = backend
  BY NextKeepsInv DEF PaidInv, MembershipNext
<1>2. /\ messages' = messages /\ send' = send /\ fulfilled' = fulfilled
      /\ accepted' = accepted /\ unsettled' = unsettled /\ open' = open
      /\ Posted' = Posted
  BY DEF messagingVars, Posted
<1>3. MessagingTypeOK'
  BY <1>1, <1>2 DEF PaidInv, MessagingTypeOK, MembershipInv
<1>4. ASSUME NEW s \in Sends PROVE MutedSend(send[s])'
  <2>1. send[s].user \in Users /\ MutedSend(send[s])
    BY DEF PaidInv, MessagingTypeOK, SendInv, Send
  <2> QED
    BY <1>1, <1>2, <2>1, MemoryKeepsMutes DEF MutedSend, PaidInv
<1>5. SendInv'
  BY <1>1, <1>2, <1>4 DEF PaidInv, SendInv, AuthorizedSend, SpentSend
<1>6. AcceptedInv' /\ FulfilledMeansPosted' /\ PostedMeansSettled' /\ ListenersAreFlagged'
  BY <1>1, <1>2
     DEF PaidInv, AcceptedInv, FulfilledMeansPosted, PostedMeansSettled, ListenersAreFlagged
<1> QED
  BY <1>1, <1>3, <1>5, <1>6 DEF PaidInv

-----------------------------------------------------------------------------
(* A step of a send leaves the member rows and the membership RPCs alone.  *)
LEMMA RowsUntouched ==
    ASSUME PaidInv, UNCHANGED membershipVars
    PROVE  /\ MembershipInv' /\ TypeOK'
           /\ member' = member /\ backend' = backend
<1>1. MembershipInv /\ [MembershipNext]_membershipVars
  BY DEF PaidInv
<1> QED
  BY <1>1, NextKeepsInv DEF MembershipInv, membershipVars

(* Only the slot of the call whose step it is changes.                     *)
LEMMA OneSendChanges ==
    ASSUME PaidInv, NEW s \in Sends, NEW d \in Send,
           send' = [send EXCEPT ![s] = d],
           UNCHANGED <<membershipVars, open, messages, accepted, unsettled>>,
           fulfilled' = fulfilled,
           AuthorizedSend(d), SpentSend(d), MutedSend(d),
           d.pc \in {"mark", "markInsert"} =>
              d.intent \in Posted /\ d.intent = send[s].intent,
           send[s].pc \in {"mark", "markInsert"} => d.pc \in {"mark", "markInsert"}
               \/ send[s].intent \in fulfilled \cup unsettled
    PROVE  PaidInv'
<1>1. MembershipInv' /\ TypeOK' /\ member' = member /\ backend' = backend
  BY RowsUntouched
<1>2. /\ Posted' = Posted
      /\ \A t \in Sends : t # s => send'[t] = send[t]
      /\ send'[s] = d
  BY DEF Posted, PaidInv, MessagingTypeOK
<1>3. MessagingTypeOK'
  BY <1>1 DEF PaidInv, MessagingTypeOK
<1>4. SendInv'
  BY <1>1, <1>2 DEF PaidInv, SendInv, AuthorizedSend, SpentSend, MutedSend
<1>5. PostedMeansSettled'
  BY <1>1, <1>2 DEF PaidInv, PostedMeansSettled
<1>6. AcceptedInv' /\ FulfilledMeansPosted' /\ ListenersAreFlagged'
  BY <1>1, <1>2 DEF PaidInv, AcceptedInv, FulfilledMeansPosted, ListenersAreFlagged
<1> QED
  BY <1>1, <1>3, <1>4, <1>5, <1>6 DEF PaidInv

(* A slot that is given back holds nothing that could do harm.             *)
LEMMA NoSendGood ==
    NoSend \in Send /\ AuthorizedSend(NoSend) /\ SpentSend(NoSend) /\ MutedSend(NoSend)
  BY NoSendType DEF NoSend, AuthorizedSend, SpentSend, MutedSend

(* The steps before the message is stored.                                 *)
LEMMA AuthorizingKeepsPaidInv ==
    ASSUME PaidInv, NEW s \in Sends,
           \/ ReadMember(s) \/ CheckIntent(s)
           \/ MarkSelect(s) /\ send[s].intent \notin fulfilled
    PROVE  PaidInv'
<1> DEFINE d == send[s]
<1>1. /\ d \in Send /\ AuthorizedSend(d) /\ SpentSend(d) /\ MutedSend(d)
      /\ d.pc \in {"mark", "markInsert"} => d.intent \in Posted
      /\ send \in [Sends -> Send]
  BY DEF PaidInv, SendInv, MessagingTypeOK
<1>2. CASE send' = [send EXCEPT ![s] = NoSend] /\ d.pc \notin {"mark", "markInsert"}
  BY <1>2, NoSendGood, OneSendChanges DEF ReadMember, CheckIntent, MarkSelect, NoSend
<1>3. CASE ReadMember(s) /\ Authorized(d)
  <2> DEFINE paying == d.kind = "tip" \/ NeedsListenerPayment(d.user, d.kind)
             new == [d EXCEPT !.pc = IF paying THEN "intent" ELSE "put", !.paying = paying]
  <2>1. paying \in BOOLEAN
    BY DEF NeedsListenerPayment, UserContent
  <2>2. send' = [send EXCEPT ![s] = new] /\ d.pc = "member"
    BY <1>3 DEF ReadMember
  <2>3. paying => d.intent # NoIntent
    BY <1>3 DEF Authorized, TipPaid, ListenerPaid
  <2>4. ~member[d.user].muted
    BY <1>3 DEF Authorized
  <2>5. new \in Send
    BY <1>1, <2>1 DEF Send
  <2>6. AuthorizedSend(new) /\ SpentSend(new) /\ MutedSend(new)
    BY <1>1, <2>2, <2>3, <2>4 DEF AuthorizedSend, SpentSend, MutedSend, Send
  <2>7. new.pc \notin {"mark", "markInsert"} /\ new.intent = d.intent
    BY <1>1 DEF Send
  <2> HIDE DEF new
  <2> QED
    BY <1>3, <2>2, <2>5, <2>6, <2>7, OneSendChanges DEF ReadMember
<1>4. CASE CheckIntent(s) /\ d.intent \notin fulfilled
  <2> DEFINE new == [d EXCEPT !.pc = "put"]
  <2>1. send' = [send EXCEPT ![s] = new] /\ d.pc = "intent"
    BY <1>4 DEF CheckIntent
  <2>2. new \in Send
    BY <1>1 DEF Send
  <2>3. AuthorizedSend(new) /\ SpentSend(new) /\ MutedSend(new)
    BY <1>1, <1>4, <2>1 DEF AuthorizedSend, SpentSend, MutedSend, Send
  <2>4. new.pc \notin {"mark", "markInsert"} /\ new.intent = d.intent
    BY <1>1 DEF Send
  <2> HIDE DEF new
  <2> QED
    BY <1>4, <2>1, <2>2, <2>3, <2>4, OneSendChanges DEF CheckIntent
<1>5. CASE MarkSelect(s) /\ d.intent \notin fulfilled
  <2> DEFINE new == [d EXCEPT !.pc = "markInsert"]
  <2>1. send' = [send EXCEPT ![s] = new] /\ d.pc = "mark" /\ backend = "postgres"
    BY <1>5 DEF MarkSelect
  <2>2. new \in Send
    BY <1>1 DEF Send
  <2>3. AuthorizedSend(new) /\ SpentSend(new) /\ MutedSend(new)
    BY <1>1, <2>1 DEF AuthorizedSend, SpentSend, MutedSend, Send
  <2>4. new.pc = "markInsert" /\ new.intent = d.intent
    BY <1>1 DEF Send
  <2> HIDE DEF new
  <2> QED
    BY <1>1, <1>5, <2>1, <2>2, <2>3, <2>4, OneSendChanges DEF MarkSelect
<1> QED
  BY <1>2, <1>3, <1>4, <1>5 DEF ReadMember, CheckIntent, EndSend

-----------------------------------------------------------------------------
(* A call comes in: what it finds spent is spent, and a muted sender is    *)
(* not past the check.                                                     *)
LEMMA BeginKeepsPaidInv ==
    ASSUME PaidInv, NEW s \in Sends, NEW u \in Users, NEW kind \in Contents,
           NEW i \in Intents \cup {NoIntent}, NEW ref \in Nat,
           BeginSend(s, u, kind, ref, i)
    PROVE  PaidInv'
<1> DEFINE new == [pc |-> "member", user |-> u, kind |-> kind, ref |-> ref,
                   intent |-> i, open |-> open, paying |-> FALSE,
                   wasMuted |-> member[u].muted, wasSpent |-> i \in fulfilled]
<1>1. member[u] \in Row /\ open \in BOOLEAN
  BY DEF PaidInv, MessagingTypeOK, TypeOK
<1>2. new \in Send
  BY <1>1, MessagingAssumption DEF Send, Row
<1>3. AuthorizedSend(new) /\ SpentSend(new) /\ MutedSend(new)
  BY DEF AuthorizedSend, SpentSend, MutedSend
<1>4. send' = [send EXCEPT ![s] = new] /\ send[s].pc = "idle"
  BY DEF BeginSend
<1>5. new.pc = "member"
  OBVIOUS
<1> HIDE DEF new
<1> QED
  BY <1>2, <1>3, <1>4, <1>5, OneSendChanges DEF BeginSend

(* Storing the message: now there is one for the payment, and it is either *)
(* about to be marked or was not paid for.                                 *)
LEMMA PutKeepsPaidInv ==
    ASSUME PaidInv, NEW s \in Sends, PutMessage(s)
    PROVE  PaidInv'
<1> DEFINE d == send[s]
           new == [kind |-> d.kind, sender |-> d.user, intent |-> d.intent,
                   paid |-> d.paying,
                   offStage |-> d.intent # NoIntent /\ UserContent(d.kind)]
           after == IF d.intent = NoIntent THEN NoSend ELSE [d EXCEPT !.pc = "mark"]
<1>1. MembershipInv' /\ TypeOK' /\ member' = member /\ backend' = backend
  BY RowsUntouched DEF PutMessage
<1>2. /\ d \in Send /\ AuthorizedSend(d) /\ SpentSend(d) /\ MutedSend(d)
      /\ send \in [Sends -> Send] /\ messages \in Seq(Message)
  BY DEF PaidInv, SendInv, MessagingTypeOK
<1>3. /\ d.pc = "put" /\ messages' = Append(messages, new)
      /\ fulfilled' = fulfilled /\ accepted' = accepted
      /\ unsettled' = unsettled /\ open' = open
  BY DEF PutMessage
<1>4. send' = [send EXCEPT ![s] = after]
  BY <1>2 DEF PutMessage, EndSend
<1>5. new \in Message
  BY <1>2 DEF Send, Message, UserContent
<1>6. after \in Send
  BY <1>2, NoSendType DEF Send
<1>7. /\ AuthorizedSend(after) /\ SpentSend(after) /\ MutedSend(after)
      /\ after.pc \in {"mark", "markInsert"} => after.intent = d.intent
      /\ d.intent # NoIntent => after.pc = "mark" /\ after.intent = d.intent
  BY <1>2, <1>3, NoSendGood DEF AuthorizedSend, SpentSend, MutedSend, Send, NoSend
<1> HIDE DEF after, new
<1>8. Posted' = Posted \cup {d.intent}
  <2>1. /\ DOMAIN messages' = DOMAIN messages \cup {Len(messages) + 1}
        /\ \A n \in DOMAIN messages : messages'[n] = messages[n]
        /\ messages'[Len(messages) + 1] = new
    BY <1>2, <1>3, <1>5
  <2>2. new.intent = d.intent
    BY DEF new
  <2> QED
    BY <2>1, <2>2 DEF Posted
<1>9. MessagingTypeOK'
  BY <1>1, <1>2, <1>3, <1>4, <1>5, <1>6 DEF PaidInv, MessagingTypeOK
<1>10. SendInv'
  BY <1>1, <1>2, <1>3, <1>4, <1>7, <1>8
     DEF PaidInv, SendInv, AuthorizedSend, SpentSend, MutedSend
<1>11. PostedMeansSettled'
  <2> SUFFICES ASSUME NEW i \in Posted' \ {NoIntent}
               PROVE  \/ i \in fulfilled' \cup unsettled'
                      \/ \E t \in Sends : /\ send'[t].intent = i
                                          /\ send'[t].pc \in {"mark", "markInsert"}
    BY DEF PostedMeansSettled
  <2>1. CASE i = d.intent
    BY <1>2, <1>4, <1>6, <1>7, <2>1
  <2>2. CASE i \in Posted
    BY <1>2, <1>3, <1>4, <2>2 DEF PaidInv, PostedMeansSettled
  <2> QED
    BY <1>8, <2>1, <2>2
<1>12. ListenersAreFlagged'
  <2>1. UserContent(new.kind) /\ new.paid => new.offStage
    BY <1>2, <1>3 DEF new, AuthorizedSend
  <2>2. \A n \in DOMAIN messages' :
           \/ n \in DOMAIN messages /\ messages'[n] = messages[n]
           \/ messages'[n] = new
    BY <1>2, <1>3, <1>5
  <2> QED
    BY <2>1, <2>2 DEF PaidInv, ListenersAreFlagged
<1>13. AcceptedInv' /\ FulfilledMeansPosted'
  BY <1>1, <1>3, <1>8 DEF PaidInv, AcceptedInv, FulfilledMeansPosted
<1> QED
  BY <1>1, <1>9, <1>10, <1>11, <1>12, <1>13 DEF PaidInv

(* The intent becomes fulfilled, which in memory it was not before.        *)
LEMMA FulfilKeepsPaidInv ==
    ASSUME PaidInv, NEW s \in Sends, send[s].pc \in {"mark", "markInsert"}, Fulfil(s),
           backend = "memory" => send[s].intent \notin fulfilled,
           UNCHANGED <<membershipVars, open, messages, unsettled>>
    PROVE  PaidInv'
<1> DEFINE i == send[s].intent
<1>1. MembershipInv' /\ TypeOK' /\ member' = member /\ backend' = backend
  BY RowsUntouched
<1>2. /\ send[s] \in Send /\ i \in Intents /\ i \in Posted
      /\ send' = [send EXCEPT ![s] = NoSend]
      /\ fulfilled' = fulfilled \cup {i}
      /\ accepted' = [accepted EXCEPT ![i] = @ + 1]
      /\ Posted' = Posted
  BY DEF PaidInv, SendInv, AuthorizedSend, MessagingTypeOK, Send, Fulfil, EndSend, Posted
<1>3. MessagingTypeOK'
  BY <1>1, <1>2, NoSendType DEF PaidInv, MessagingTypeOK
<1>4. SendInv'
  <2>1. \A t \in Sends : send'[t] = IF t = s THEN NoSend ELSE send[t]
    BY <1>2 DEF PaidInv, MessagingTypeOK
  <2>2. \A t \in Sends \ {s} : SpentSend(send[t])'
    <3> SUFFICES ASSUME NEW t \in Sends \ {s} PROVE SpentSend(send[t])'
      OBVIOUS
    <3> QED
      BY <1>2, <2>1 DEF PaidInv, SendInv, SpentSend
  <2> QED
    BY <1>1, <1>2, <2>1, <2>2 DEF PaidInv, SendInv, AuthorizedSend, SpentSend, MutedSend, NoSend
<1>5. AcceptedInv'
  BY <1>1, <1>2 DEF PaidInv, AcceptedInv, MessagingTypeOK
<1>6. FulfilledMeansPosted'
  BY <1>2 DEF PaidInv, FulfilledMeansPosted
<1>7. PostedMeansSettled'
  BY <1>2 DEF PaidInv, PostedMeansSettled, MessagingTypeOK
<1>8. ListenersAreFlagged'
  BY DEF PaidInv, ListenersAreFlagged
<1> QED
  BY <1>1, <1>3, <1>4, <1>5, <1>6, <1>7, <1>8 DEF PaidInv

(* A call that dies: its intent is unsettled if its message is stored.     *)
LEMMA FailKeepsPaidInv ==
    ASSUME PaidInv, NEW s \in Sends, FailSend(s)
    PROVE  PaidInv'
<1>1. MembershipInv' /\ TypeOK' /\ member' = member /\ backend' = backend
  BY RowsUntouched DEF FailSend
<1>2. /\ send[s] \in Send
      /\ send' = [send EXCEPT ![s] = NoSend] /\ Posted' = Posted
      /\ unsettled' = IF send[s].pc \in {"mark", "markInsert"}
                      THEN unsettled \cup {send[s].intent} ELSE unsettled
      /\ send[s].pc \in {"mark", "markInsert"} => send[s].intent \in Intents
      /\ UNCHANGED <<open, messages, fulfilled, accepted>>
  BY DEF PaidInv, SendInv, AuthorizedSend, MessagingTypeOK, Send, FailSend, EndSend, Posted
<1>3. MessagingTypeOK'
  BY <1>1, <1>2, NoSendType DEF PaidInv, MessagingTypeOK
<1>4. SendInv'
  BY <1>1, <1>2 DEF PaidInv, MessagingTypeOK, SendInv, AuthorizedSend, SpentSend, MutedSend,
                    NoSend
<1>5. PostedMeansSettled'
  BY <1>2 DEF PaidInv, PostedMeansSettled, MessagingTypeOK
<1>6. AcceptedInv' /\ FulfilledMeansPosted' /\ ListenersAreFlagged'
  BY <1>1, <1>2 DEF PaidInv, AcceptedInv, FulfilledMeansPosted, ListenersAreFlagged
<1> QED
  BY <1>1, <1>3, <1>4, <1>5, <1>6 DEF PaidInv

(* The mark, on either store.                                              *)
LEMMA MarkKeepsPaidInv ==
    ASSUME PaidInv, NEW s \in Sends, MarkInMemory(s) \/ MarkSelect(s) \/ MarkInsert(s)
    PROVE  PaidInv'
<1>1. AuthorizedSend(send[s])
  BY DEF PaidInv, SendInv
<1>2. CASE EndSend(s) /\ send[s].intent \in fulfilled /\ fulfilled' = fulfilled
           /\ UNCHANGED <<membershipVars, open, messages, accepted, unsettled>>
  BY <1>2, NoSendGood, OneSendChanges DEF EndSend, NoSend
<1>3. CASE /\ send[s].pc \in {"mark", "markInsert"} /\ Fulfil(s)
           /\ backend = "memory" => send[s].intent \notin fulfilled
           /\ UNCHANGED <<membershipVars, open, messages, unsettled>>
  BY <1>3, FulfilKeepsPaidInv
<1>4. CASE MarkSelect(s) /\ send[s].intent \notin fulfilled
  BY <1>4, AuthorizingKeepsPaidInv
<1>5. CASE MarkInMemory(s)
  BY <1>2, <1>3, <1>5 DEF MarkInMemory
<1>6. CASE MarkSelect(s) /\ send[s].intent \in fulfilled
  BY <1>2, <1>6 DEF MarkSelect
<1>7. CASE MarkInsert(s)
  BY <1>1, <1>3, <1>7 DEF MarkInsert, AuthorizedSend
<1> QED
  BY <1>4, <1>5, <1>6, <1>7

(* Opening and closing the room touches nothing the invariant speaks of.   *)
LEMMA OpeningKeepsPaidInv ==
    ASSUME PaidInv, NEW isOpen \in BOOLEAN, SetOpenStatus(isOpen)
    PROVE  PaidInv'
<1>1. MembershipInv' /\ TypeOK' /\ member' = member /\ backend' = backend
  BY RowsUntouched DEF SetOpenStatus
<1>2. /\ UNCHANGED <<messages, fulfilled, send, accepted, unsettled>>
      /\ open' \in BOOLEAN /\ Posted' = Posted
  BY DEF SetOpenStatus, Posted
<1> QED
  BY <1>1, <1>2 DEF PaidInv, MessagingTypeOK, SendInv, AuthorizedSend, SpentSend, MutedSend,
                    AcceptedInv, FulfilledMeansPosted, PostedMeansSettled, ListenersAreFlagged

(* The invariant is inductive.                                             *)
LEMMA NextKeepsPaidInv == PaidInv /\ [Next]_vars => PaidInv'
<1> SUFFICES ASSUME PaidInv, [Next]_vars PROVE PaidInv'
  OBVIOUS
<1>1. CASE MembershipNext /\ UNCHANGED messagingVars
  BY <1>1, MembershipKeepsPaidInv
<1>2. CASE \E isOpen \in BOOLEAN : SetOpenStatus(isOpen)
  BY <1>2, OpeningKeepsPaidInv
<1>3. ASSUME NEW s \in Sends, SendNext(s) PROVE PaidInv'
  <2>1. ASSUME NEW u \in Users, NEW kind \in Contents, NEW i \in Intents \cup {NoIntent},
               NEW ref \in IF kind = "text" THEN {0} ELSE DOMAIN messages,
               BeginSend(s, u, kind, ref, i)
        PROVE  PaidInv'
    <3>1. ref \in Nat
      BY DEF PaidInv, MessagingTypeOK
    <3> QED
      BY <2>1, <3>1, BeginKeepsPaidInv
  <2> QED
    BY <1>3, <2>1, AuthorizingKeepsPaidInv, PutKeepsPaidInv, MarkKeepsPaidInv, FailKeepsPaidInv
       DEF SendNext
<1>4. CASE UNCHANGED vars
  <2>1. MembershipInv' /\ TypeOK' /\ member' = member /\ backend' = backend
    BY <1>4, RowsUntouched DEF vars
  <2>2. UNCHANGED messagingVars /\ Posted' = Posted
    BY <1>4 DEF vars, messagingVars, Posted
  <2> QED
    BY <2>1, <2>2
       DEF PaidInv, MessagingTypeOK, SendInv, AuthorizedSend, SpentSend, MutedSend, messagingVars,
           AcceptedInv, FulfilledMeansPosted, PostedMeansSettled, ListenersAreFlagged
<1> QED
  BY <1>1, <1>2, <1>3, <1>4 DEF Next

(* Messages, payments and the calls in progress agree in every state.      *)
THEOREM PaidInvariant == Spec => []PaidInv
<1>1. MembershipInit /\ MessagingInit => PaidInv
  BY InitInv, PaidInitInv
<1> QED
  BY <1>1, NextKeepsPaidInv, PTL DEF Spec

(* Sends and payments never touch a member row or a membership RPC, so the *)
(* rooms of this module are rooms of ChatMembership and all that is proved *)
(* there holds of them.                                                    *)
LEMMA StepsOfMembership == [Next]_vars => [MembershipNext]_membershipVars
<1>1. ASSUME NEW s \in Sends, SendNext(s) PROVE UNCHANGED membershipVars
  BY <1>1 DEF SendNext, BeginSend, ReadMember, CheckIntent, PutMessage, MarkInMemory,
              MarkSelect, MarkInsert, FailSend
<1>2. ASSUME NEW isOpen \in BOOLEAN, SetOpenStatus(isOpen) PROVE UNCHANGED membershipVars
  BY <1>2 DEF SetOpenStatus
<1> QED
  BY <1>1, <1>2 DEF Next, vars

THEOREM PaidMessagesImplementMembership == Spec => MembershipSpec
  BY StepsOfMembership, PTL DEF Spec, MembershipSpec

(* The scenarios that are checked begin in states of the invariant, those  *)
(* of a running room included, and their steps are steps of the            *)
(* specification: what is proved of it holds in them, too.                 *)
LEMMA StepsOfScenarios == [MCNext]_<<vars, scenario>> => [Next]_vars
  BY DEF MCNext, Next, vars

THEOREM ScenariosInvariant == MCSpec => []PaidInv
<1>1. MCInit => PaidInv
  <2>1. RunningInit => PaidInv
    BY RunningInitInv, PaidInitInv DEF RunningInit
  <2>2. AlongsideInit \/ MembersInit => PaidInv
    BY InitInv, PaidInitInv DEF AlongsideInit, MembersInit
  <2> QED
    BY <2>1, <2>2 DEF MCInit
<1> QED
  BY <1>1, StepsOfScenarios, NextKeepsPaidInv, PTL DEF MCSpec

(* So do the rooms of the run that looks for a payment accepted twice.     *)
THEOREM RunningInvariant == RunningSpec => []PaidInv
<1>1. RunningInit => PaidInv
  BY RunningInitInv, PaidInitInv DEF RunningInit
<1>2. [RunningNext]_<<vars, scenario>> => [Next]_vars
  BY DEF RunningNext
<1> QED
  BY <1>1, <1>2, NextKeepsPaidInv, PTL DEF RunningSpec

(* In the scenarios, too, no step but a stale rejoin takes back a mute.    *)
THEOREM ScenariosUnmuteByStaleRejoins == MCSpec => OnlyStaleRejoinsUnmute
<1>1. PaidInv => MembershipInv
  BY DEF PaidInv
<1> QED
  BY <1>1, ScenariosInvariant, StepsOfScenarios, StepsOfMembership, UnmuteStep, PTL
     DEF MCSpec, OnlyStaleRejoinsUnmute

(* Messages and calls are well typed, on both stores.                      *)
THEOREM MessagingTypeCorrect == Spec => []MessagingTypeOK
<1>1. PaidInv => MessagingTypeOK
  BY DEF PaidInv
<1> QED
  BY <1>1, PaidInvariant, PTL

(* No payment is consumed without a message, on either store and wherever  *)
(* a call dies.                                                            *)
THEOREM FulfilledAlwaysPosted == Spec => []FulfilledMeansPosted
<1>1. PaidInv => FulfilledMeansPosted
  BY DEF PaidInv
<1> QED
  BY <1>1, PaidInvariant, PTL

(* No message is free, but for calls under way or dead before the mark.    *)
THEOREM PostedAlwaysSettled == Spec => []PostedMeansSettled
<1>1. PaidInv => PostedMeansSettled
  BY DEF PaidInv
<1> QED
  BY <1>1, PaidInvariant, PTL

(* No call gets a message for a payment that was spent before it came in.  *)
THEOREM SpentPaymentNeverBuys == Spec => []SpentPaymentBuysNothing
<1>1. PaidInv => SpentPaymentBuysNothing
  BY DEF PaidInv, SendInv, SpentSend, SpentPaymentBuysNothing
<1> QED
  BY <1>1, PaidInvariant, PTL

(* With the memory store one call per payment is answered OK.              *)
THEOREM MemoryAcceptsOnce == Spec => []OneAcceptedInMemory
<1>1. PaidInv => OneAcceptedInMemory
  BY DEF PaidInv, AcceptedInv, OneAcceptedInMemory, OneAcceptedPerIntent
<1> QED
  BY <1>1, PaidInvariant, PTL

(* With the memory store a muted member's later calls are not served; this *)
(* rests on ChatMembershipProofs, by which no membership RPC takes a mute  *)
(* back.                                                                   *)
THEOREM MutedAlwaysSilent == Spec => []MutedStaysSilent
<1>1. PaidInv => MutedStaysSilent
  BY DEF PaidInv, SendInv, MutedSend, MutedStaysSilent
<1> QED
  BY <1>1, PaidInvariant, PTL

(* A listener's message is flagged, whenever a promotion is stored.        *)
THEOREM ListenersAlwaysFlagged == Spec => []ListenersAreFlagged
<1>1. PaidInv => ListenersAreFlagged
  BY DEF PaidInv
<1> QED
  BY <1>1, PaidInvariant, PTL
=============================================================================

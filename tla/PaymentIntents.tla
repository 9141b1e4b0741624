--------------------------- MODULE PaymentIntents ---------------------------
(***************************************************************************)
(* What a payment intent is good for.  When a client submits a payment the *)
(* Code server asks a handler of this repository to validate it against    *)
(* the metadata it carries; much later a request presents the intent, and  *)
(* the authorizer looks only at that metadata and trusts the handler for   *)
(* the rest.  In between the chat's messaging fee may change.              *)
(*                                                                         *)
(* Accounts and users are one: a key owns one user for good.               *)
(***************************************************************************)
EXTENDS Naturals

CONSTANTS Customers,     \* users
          Elsewhere,     \* an account without a user
          Fees,          \* the account that fees go to
          Room,          \* a group chat
          Direct,        \* a two-way chat, without an owner or a fee
          RoomOwner,     \* the owner of Room
          Posts,         \* messages in Room
          Sender,        \* Sender[m]: the user who sent m
          Tippable,      \* the messages with text or a reply in them
          NoPost,
          Quantities,    \* amounts of a payment, and of a fee
          StartGroupFee,
          Submissions    \* payment intents

ASSUME IntentAssumption ==
    /\ RoomOwner \in Customers
    /\ Sender \in [Posts -> Customers]
    /\ Tippable \subseteq Posts
    /\ NoPost \notin Posts
    /\ Room # Direct
    /\ Quantities \subseteq Nat \ {0} /\ StartGroupFee \in Quantities
    /\ Elsewhere \notin Customers /\ Fees \notin Customers

VARIABLES
  fee,        \* the messaging fee of Room
  paid,       \* paid[i]: the payment that went through with intent i
  feeThen     \* feeThen[i]: the fee of Room when it did

intentVars == <<fee, paid, feeThen>>

Accounts == Customers \union {Elsewhere, Fees}

(* A payment, and the metadata its initiator attached to it.               *)
Intent == [public: BOOLEAN, kin: BOOLEAN, payer: Accounts \ {Fees}, paidTo: Accounts, quantity: Quantities,
           for: {"listener", "tip", "group"}, chat: {Room, Direct}, user: Customers,
           post: Posts \union {NoPost}]

NotPaid == [for |-> "nothing"]

(* Fields that the kind of metadata does not have are given one value.     *)
WellFormed(p) ==
    /\ p.for = "group" => p.chat = Room
    /\ p.for = "tip" <=> p.post # NoPost

-----------------------------------------------------------------------------
(* Validation, when a payment is submitted                                 *)

(* FlipchatAntispamGuard: payments are public.                             *)
AllowSendPayment(p) == p.public

(* Mutant: anyone may pay for a message of anyone.                         *)
ValidListenerPaymentForAnyone(p) ==
    /\ {p.payer, p.paidTo} \subseteq Customers
    /\ p.chat = Room
    /\ p.public /\ p.kin
    /\ p.quantity = fee
    /\ p.paidTo = RoomOwner /\ p.payer # RoomOwner

(* SendMessageAsListenerIntentHandler: only a group has a fee and an owner. *)
ValidListenerPayment(p) ==
    /\ {p.payer, p.paidTo} \subseteq Customers
    /\ p.chat = Room
    /\ p.public /\ p.kin
    /\ p.quantity = fee
    /\ p.user = p.payer
    /\ p.paidTo = RoomOwner /\ p.payer # RoomOwner

(* SendTipMessagePaymentIntentHandler.                                     *)
ValidTip(p) ==
    /\ p.public /\ p.kin
    /\ p.user = p.payer
    /\ p.paidTo \in Customers \ {p.payer}
    /\ p.chat = Room /\ p.post \in Tippable   \* the message is found in its chat
    /\ p.paidTo = Sender[p.post]

(* StartGroupChatPaymentIntentHandler.                                     *)
ValidGroupPayment(p) ==
    /\ p.public /\ p.kin
    /\ p.quantity = StartGroupFee
    /\ p.paidTo = Fees
    /\ p.user = p.payer

Validate(p) ==
    \/ p.for = "listener" /\ ValidListenerPayment(p)
    \/ p.for = "tip" /\ ValidTip(p)
    \/ p.for = "group" /\ ValidGroupPayment(p)

IntentInit ==
    /\ fee \in Quantities
    /\ paid = [i \in Submissions |-> NotPaid]
    /\ feeThen = [i \in Submissions |-> fee]

(* The Code server has the payment validated, and carries it out.          *)
SubmitIntent(i, p) ==
    /\ paid[i] = NotPaid
    /\ AllowSendPayment(p) /\ Validate(p)
    /\ paid' = [paid EXCEPT ![i] = p]
    /\ feeThen' = [feeThen EXCEPT ![i] = fee]
    /\ UNCHANGED fee

SetMessagingFee(q) ==
    /\ fee' = q
    /\ UNCHANGED <<paid, feeThen>>

IntentNext ==
    \/ \E i \in Submissions, p \in Intent : WellFormed(p) /\ SubmitIntent(i, p)
    \/ \E q \in Quantities \ {fee} : SetMessagingFee(q)

IntentSpec == IntentInit /\ [][IntentNext]_intentVars

-----------------------------------------------------------------------------
(* The payment checks of the requests; a request whose intent carries      *)
(* metadata of another type, or none, has "invalid payment metadata".      *)

(* CanSendMessage, text or reply of a listener.                            *)
PaysForMessage(i, u, chat) ==
    /\ paid[i].for = "listener"
    /\ paid[i].chat = chat /\ paid[i].user = u

(* CanSendMessage, a tip of m that claims an amount.                       *)
PaysForTip(i, u, chat, m, amount) ==
    /\ paid[i].for = "tip"
    /\ paid[i].chat = chat /\ paid[i].post = m /\ paid[i].user = u
    /\ paid[i].quantity = amount

(* StartChat, a group.                                                     *)
PaysForGroup(i, u) == paid[i].for = "group" /\ paid[i].user = u

-----------------------------------------------------------------------------
(* Type invariant; every payment that went through was well formed.        *)
IntentTypeOK ==
    /\ fee \in Quantities
    /\ feeThen \in [Submissions -> Quantities]
    /\ \A i \in Submissions : paid[i] = NotPaid \/ (paid[i] \in Intent /\ WellFormed(paid[i]))

(* Whatever a request is let through for was paid by the user who sends    *)
(* it, to the one it is owed to, and as much as was asked when it was paid *)
(* (a listener's fee to the room's owner, a group's to the fee account) or *)
(* as it shows (a tip, to the sender of the message, who is another user). *)
AllowedMeansPaid ==
    \A i \in Submissions, u \in Customers, chat \in {Room, Direct} :
        /\ PaysForMessage(i, u, chat) =>
              /\ chat = Room /\ u # RoomOwner
              /\ paid[i].payer = u /\ paid[i].paidTo = RoomOwner /\ paid[i].quantity = feeThen[i]
        /\ PaysForGroup(i, u) =>
              paid[i].payer = u /\ paid[i].paidTo = Fees /\ paid[i].quantity = StartGroupFee
        /\ \A m \in Posts, amount \in Quantities : PaysForTip(i, u, chat, m, amount) =>
              /\ paid[i].payer = u /\ paid[i].quantity = amount
              /\ paid[i].paidTo = Sender[m] /\ u # Sender[m] /\ m \in Tippable
=============================================================================

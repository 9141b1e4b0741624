------------------------------ MODULE TipFeed ------------------------------
(***************************************************************************)
(* What SendMessage does after it has answered: for every message that was *)
(* paid for, a goroutine notes the payment on the activity feed of the     *)
(* payer, and a tip then on that of the author of the tipped message.      *)
(* Goroutines of many tips run at once, and none survives a restart.       *)
(***************************************************************************)
EXTENDS ActivityFeed

CONSTANTS Payers,         \* users who pay for messages
          Tipped,         \* messages that are tipped
          Author,         \* Author[m]: the user who sent m
          Amounts,        \* amounts of a payment
          Notes           \* goroutines, and the paid messages they are for

ASSUME TipAssumption ==
    /\ Payers # {}
    /\ Amounts # {} /\ Amounts \subseteq Nat
    /\ IsFiniteSet(Notes)

VARIABLES
  tipFeed,    \* rows of the activity feed
  note,       \* note[g]: progress of a goroutine
  time        \* number of payments so far

tipVars == <<tipFeed, note, time>>

Note == [pc: {"idle", "listener", "tip", "received", "done", "lost", "halfLost"},
         user: Payers, about: Tipped \union Notes, amount: Amounts, ts: 0..Cardinality(Notes)]

TipInit ==
    /\ tipFeed = {}
    /\ note = [g \in Notes |-> [pc |-> "idle", user |-> CHOOSE u \in Payers : TRUE, about |-> g,
                                amount |-> CHOOSE a \in Amounts : TRUE, ts |-> 0]]
    /\ time = 0

(* A text or reply of u was paid for as a listener, a tip of m by anyone:  *)
(* the intent was marked and the answer is on its way.                     *)
Pay(g, u, about, a) ==
    /\ note[g].pc = "idle"
    /\ time' = time + 1
    /\ note' = [note EXCEPT ![g] = [pc |-> IF about = g THEN "listener" ELSE "tip", user |-> u,
                                    about |-> about, amount |-> a, ts |-> time + 1]]
    /\ UNCHANGED tipFeed

Save(g, type, user, pc) ==
    /\ tipFeed' = SaveNotification(tipFeed, NotificationID(type, user, note[g].about),
                                   note[g].amount, note[g].ts)
    /\ note' = [note EXCEPT ![g].pc = pc]
    /\ UNCHANGED time

NoteListenerMessage(g) == note[g].pc = "listener" /\ Save(g, "listener", note[g].user, "done")
NoteSentTip(g)         == note[g].pc = "tip" /\ Save(g, "sendTip", note[g].user, "received")
NoteReceivedTip(g)     == note[g].pc = "received" /\ Save(g, "receivedTip", Author[note[g].about], "done")

(* The server stops with the goroutine on its way.                         *)
Lose(g) ==
    /\ note[g].pc \in {"listener", "tip", "received"}
    /\ note' = [note EXCEPT ![g].pc = IF @ = "received" THEN "halfLost" ELSE "lost"]
    /\ UNCHANGED <<tipFeed, time>>

TipNext ==
    \E g \in Notes : \/ \E u \in Payers, about \in Tipped \union {g}, a \in Amounts : Pay(g, u, about, a)
                     \/ NoteListenerMessage(g)
                     \/ NoteSentTip(g)
                     \/ NoteReceivedTip(g)
                     \/ Lose(g)

TipSpec == TipInit /\ [][TipNext]_tipVars

-----------------------------------------------------------------------------
(* Type invariant; no two rows of the feed have one id.                    *)
TipTypeOK ==
    /\ note \in [Notes -> Note]
    /\ time \in 0..Cardinality(Notes)
    /\ \A n1, n2 \in tipFeed : n1.id = n2.id => n1 = n2

(* A sum of naturals: the size of a union of disjoint sets of those sizes. *)
SumOf(f) == Cardinality(UNION {{x} \X (1..f[x]) : x \in DOMAIN f})

Total(rows, type, m) ==
    SumOf([n \in {r \in rows : r.id.type = type /\ r.id.seed = m} |-> n.count])

(* Notes are not tips: what a goroutine notes of its own message.          *)
Paid(m, pcs) ==
    SumOf([g \in {h \in Notes : note[h].about = m /\ h # m /\ note[h].pc \in pcs} |-> note[g].amount])

(* What the feeds of payers and authors say of a message adds up to the    *)
(* tips it got, in any order of the goroutines, but for those that were    *)
(* lost before, or between, the two rows.                                  *)
TotalsAreTips ==
    \A m \in Tipped :
        /\ Total(tipFeed, "sendTip", m) = Paid(m, {"received", "done", "halfLost"})
        /\ \A page \in LatestNotifications(tipFeed, Author[m], Cardinality(tipFeed)) :
              Total(page, "receivedTip", m) = Paid(m, {"done"})
=============================================================================

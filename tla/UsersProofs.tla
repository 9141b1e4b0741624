---------------------------- MODULE UsersProofs -----------------------------
(***************************************************************************)
(* Proofs about what a user pays and gets: purchases and airdrops          *)
(* (Purchases), the tips on the activity feed (TipFeed), and the type      *)
(* invariant of everything that is kept about a user.                      *)
(***************************************************************************)
EXTENDS AccountsProofs, MCUsers

-----------------------------------------------------------------------------
(***************************************************************************)
(* Purchases, for any number of users, purchases, airdrops and weeks:      *)
(* whoever paid becomes a registered user that is due an airdrop unless a  *)
(* stop or a failure explains it, and airdrops are a week apart.           *)
(***************************************************************************)

(* The rows of a feed are told apart by their ids.                         *)
Rowed(F) ==
    /\ \A n \in F : n = [id |-> n.id, count |-> n.count, ts |-> n.ts]
    /\ \A n1, n2 \in F : n1.id = n2.id => n1 = n2

(* A row is saved once: the upsert finds it by its id, and changes neither *)
(* that nor another row's.                                                 *)
LEMMA SaveKeepsRows ==
    ASSUME NEW F, NEW id, NEW count, NEW ts, Rowed(F)
    PROVE  /\ Rowed(SaveNotification(F, id, count, ts))
           /\ \A n \in F : \E m \in SaveNotification(F, id, count, ts) : m.id = n.id
           /\ \E m \in SaveNotification(F, id, count, ts) : m.id = id
<1> DEFINE G == SaveNotification(F, id, count, ts)
           row == [id |-> id, count |-> count, ts |-> ts]
           grown(n) == IF n.id = id THEN [n EXCEPT !.count = n.count + count] ELSE n
<1>1. CASE \A n \in F : n.id # id
  <2>1. G = F \union {row}
    BY <1>1 DEF SaveNotification
  <2>2. row.id = id /\ row = [id |-> row.id, count |-> row.count, ts |-> row.ts]
    OBVIOUS
  <2> HIDE DEF row
  <2> QED
    BY <1>1, <2>1, <2>2 DEF Rowed
<1>2. CASE (\E n \in F : n.id = id) /\ UpdatesCount(id)
  <2>1. G = {grown(n) : n \in F}
    BY <1>2 DEF SaveNotification
  <2>2. \A n \in F : /\ grown(n).id = n.id
                     /\ grown(n) = [id |-> grown(n).id, count |-> grown(n).count, ts |-> grown(n).ts]
    BY DEF Rowed
  <2> HIDE DEF grown
  <2> QED
    BY <1>2, <2>1, <2>2 DEF Rowed
<1>3. CASE (\E n \in F : n.id = id) /\ ~UpdatesCount(id)
  <2>1. G = F
    BY <1>3 DEF SaveNotification
  <2> QED
    BY <1>3, <2>1
<1> QED
  BY <1>1, <1>2, <1>3

-----------------------------------------------------------------------------
(* What a call has already granted when it is at a statement, and what the *)
(* cache may say of it.                                                    *)
GrantsInOrder ==
    /\ \A c \in PurchaseCalls :
          /\ purchase[c].pc \in {"notify", "create"} => purchase[c].buyer \in registeredUsers
          /\ purchase[c].pc = "create" => \E n \in feed : n.id = WelcomeID(purchase[c].buyer)
    /\ \A u \in Buyers : registeredCache[u] # "no" /\ (registeredCache[u] = "yes" => u \in registeredUsers)

(* How often a user may have been paid in excess.                          *)
Excuses(u) == stops + setBacks[u]

(* Whoever was paid once for each excuse, and once more, is next due in a  *)
(* later week, or the worker is about to see to that.                      *)
PaidUsersAreSet ==
    \A u \in Buyers, w \in Weeks :
        dropped[u][w] > Excuses(u) =>
            \/ nextAirdrop[u] > w
            \/ airdrop.pc \in {"paid", "lookup"} /\ u \in airdrop.users /\ w <= Week(now)
            \/ airdrop.pc = "store" /\ u \in airdrop.users /\ w < airdrop.next

OwnersAreUnpaid ==
    airdrop.pc = "owners" =>
        \A u \in airdrop.users, w \in Weeks : w >= Week(now) => dropped[u][w] <= Excuses(u)

PaidWithExcuse == \A u \in Buyers, w \in Weeks : dropped[u][w] <= 1 + Excuses(u)

(* One of the calls of u began before the week w.                          *)
BoughtBefore(calls, u, w) ==
    \E c \in PurchaseCalls : calls[c].pc # "idle" /\ calls[c].buyer = u /\ calls[c].week < w

(* No airdrop is due in the week of the purchase.                          *)
DueAfterPurchase ==
    /\ \A u \in registeredUsers : BoughtBefore(purchase, u, nextAirdrop[u])
    /\ \A c \in PurchaseCalls : purchase[c].pc = "flag" =>
          BoughtBefore(purchase, purchase[c].buyer, nextAirdrop[purchase[c].buyer])
    /\ airdrop.pc \in {"owners", "paid", "lookup"} =>
          \A u \in airdrop.users : BoughtBefore(purchase, u, Week(now))
    /\ airdrop.pc = "store" => \A u \in airdrop.users : BoughtBefore(purchase, u, airdrop.next)

PaidAfterPurchase == \A u \in Buyers, w \in Weeks : dropped[u][w] > 0 => BoughtBefore(purchase, u, w)

(* The types, with those of the variables that only count.                 *)
Counted ==
    /\ now \in 0..LastHalfWeek
    /\ registeredUsers \subseteq Buyers /\ eligible \subseteq Buyers
    /\ registeredCache \in [Buyers -> {"unknown", "yes", "no"}]
    /\ nextAirdrop \in [Buyers -> 0..(Week(LastHalfWeek) + 1)]
    /\ purchasedBy \in [Receipts -> Buyers \union {NoBuyer}]
    /\ purchase \in [PurchaseCalls -> Purchase]
    /\ airdrop \in Airdrop /\ (airdrop.pc = "idle" <=> airdrop.users = {})
    /\ dropped \in [Buyers -> [Weeks -> Nat]]
    /\ setBacks \in [Buyers -> Nat]
    /\ stops \in Nat
    /\ Rowed(feed)

(* What concerns the airdrops, and what the purchases.                     *)
AirdropInv == PaidUsersAreSet /\ OwnersAreUnpaid /\ PaidWithExcuse
              /\ DueAfterPurchase /\ PaidAfterPurchase

GrantInv == GrantsInOrder /\ PurchasesAreHonoured

PurchaseInv == Counted /\ GrantInv /\ AirdropInv

-----------------------------------------------------------------------------
LEMMA WeeksGoUp ==
    /\ \A t \in 0..LastHalfWeek : Week(t) \in Weeks /\ Week(t) \in Nat
    /\ \A s, t \in 0..LastHalfWeek : s <= t => Week(s) <= Week(t)
    /\ \A w \in Weeks : w \in Nat /\ w \in 0..(Week(LastHalfWeek) + 1)
                        /\ w + 1 \in 0..(Week(LastHalfWeek) + 1)
    /\ 0 \in Weeks /\ 0 \in 0..(Week(LastHalfWeek) + 1)
    /\ Week(LastHalfWeek) \in Nat
  BY PurchaseAssumption DEF Week, Weeks

LEMMA CallTyped ==
    ASSUME Counted, NEW c \in PurchaseCalls
    PROVE  /\ purchase[c].buyer \in Buyers /\ purchase[c].receipt \in Receipts
           /\ purchase[c].week \in Weeks /\ purchase[c].week \in Nat
  BY WeeksGoUp DEF Counted, Purchase

(* A call that goes on is the same call of the same buyer.                 *)
CallIsAt(c, pc, w) == purchase' = [purchase EXCEPT ![c].pc = pc, ![c].week = w]

LEMMA CallGoesOn ==
    ASSUME Counted, NEW c \in PurchaseCalls,
           NEW pc \in {"next", "flag", "notify", "create", "ok", "denied", "failed", "died"},
           NEW w \in Weeks, w = purchase[c].week \/ purchase[c].pc = "idle",
           CallIsAt(c, pc, w)
    PROVE  /\ purchase' \in [PurchaseCalls -> Purchase]
           /\ purchase'[c].pc = pc /\ purchase'[c].week = w
           /\ \A d \in PurchaseCalls : /\ purchase'[d].buyer = purchase[d].buyer
                                       /\ purchase'[d].receipt = purchase[d].receipt
                                       /\ d # c => purchase'[d] = purchase[d]
           /\ \A u, v : BoughtBefore(purchase, u, v) => BoughtBefore(purchase', u, v)
<1>1. purchase[c] \in Purchase /\ purchase' = [purchase EXCEPT ![c] = [purchase[c] EXCEPT !.pc = pc, !.week = w]]
  BY DEF Counted, CallIsAt
<1> DEFINE q == [purchase[c] EXCEPT !.pc = pc, !.week = w]
<1>2. /\ q \in Purchase /\ q.pc = pc /\ q.week = w /\ q.buyer = purchase[c].buyer
      /\ q.receipt = purchase[c].receipt
  BY <1>1 DEF Purchase
<1>3. purchase' = [purchase EXCEPT ![c] = q]
  BY <1>1
<1> HIDE DEF q
<1>4. purchase' \in [PurchaseCalls -> Purchase]
      /\ \A d \in PurchaseCalls : purchase'[d] = IF d = c THEN q ELSE purchase[d]
  BY <1>2, <1>3 DEF Counted
<1>5. ASSUME NEW u, NEW v, BoughtBefore(purchase, u, v) PROVE BoughtBefore(purchase', u, v)
  <2>1. PICK d \in PurchaseCalls : purchase[d].pc # "idle" /\ purchase[d].buyer = u /\ purchase[d].week < v
    BY <1>5 DEF BoughtBefore
  <2>2. purchase'[d].pc # "idle" /\ purchase'[d].buyer = u /\ purchase'[d].week < v
    BY <1>2, <1>4, <2>1
  <2> QED
    BY <2>2 DEF BoughtBefore
<1> QED
  BY <1>2, <1>4, <1>5

LEMMA GoToGoesOn ==
    ASSUME Counted, NEW c \in PurchaseCalls,
           NEW pc \in {"next", "flag", "notify", "create", "ok", "denied", "failed", "died"},
           GoTo(c, pc)
    PROVE  /\ purchase' \in [PurchaseCalls -> Purchase]
           /\ purchase'[c].pc = pc /\ purchase'[c].week = purchase[c].week
           /\ \A d \in PurchaseCalls : /\ purchase'[d].buyer = purchase[d].buyer
                                       /\ purchase'[d].receipt = purchase[d].receipt
                                       /\ d # c => purchase'[d] = purchase[d]
           /\ \A u, v : BoughtBefore(purchase, u, v) => BoughtBefore(purchase', u, v)
<1>1. purchase[c] \in Purchase /\ purchase[c].week \in Weeks
  BY CallTyped DEF Counted
<1>2. [purchase[c] EXCEPT !.pc = pc] = [purchase[c] EXCEPT !.pc = pc, !.week = purchase[c].week]
  BY <1>1 DEF Purchase
<1>3. purchase' = [purchase EXCEPT ![c].pc = pc, ![c].week = purchase[c].week]
  BY <1>1, <1>2 DEF GoTo, Counted
<1>4. CallIsAt(c, pc, purchase[c].week)
  BY <1>3 DEF CallIsAt
<1> QED
  BY <1>1, <1>4, CallGoesOn

(* A step of a call that leaves the airdrops alone.                        *)
LEMMA AirdropsUndisturbed ==
    ASSUME Counted, AirdropInv,
           UNCHANGED <<now, nextAirdrop, airdrop, dropped, stops, setBacks>>,
           \A u, v : BoughtBefore(purchase, u, v) => BoughtBefore(purchase', u, v),
           \A u \in registeredUsers' : BoughtBefore(purchase', u, nextAirdrop[u]),
           \A c \in PurchaseCalls : purchase'[c].pc = "flag" =>
               BoughtBefore(purchase', purchase'[c].buyer, nextAirdrop[purchase'[c].buyer])
    PROVE  AirdropInv'
<1>1. PaidUsersAreSet' /\ OwnersAreUnpaid' /\ PaidWithExcuse'
  BY DEF AirdropInv, PaidUsersAreSet, OwnersAreUnpaid, PaidWithExcuse, Excuses
<1>2. PaidAfterPurchase'
  BY DEF AirdropInv, PaidAfterPurchase
<1>3. DueAfterPurchase'
  BY DEF AirdropInv, DueAfterPurchase
<1> QED
  BY <1>1, <1>2, <1>3 DEF AirdropInv

(* A step of the worker, which has nothing to do with what is granted.     *)
LEMMA GrantsUndisturbed ==
    ASSUME GrantInv, UNCHANGED <<registeredUsers, registeredCache, purchasedBy, purchase>>,
           \A n \in feed : \E m \in feed' : m.id = n.id
    PROVE  GrantInv'
<1>1. GrantsInOrder'
  BY DEF GrantInv, GrantsInOrder, WelcomeID
<1>2. StoredMeansGranted'
  BY DEF GrantInv, PurchasesAreHonoured, StoredMeansGranted, WelcomeID
<1>3. OkMeansRegistered' /\ FreeAccountsAreAccountedFor'
  BY DEF GrantInv, PurchasesAreHonoured, OkMeansRegistered, FreeAccountsAreAccountedFor, IsRegistered
<1> QED
  BY <1>1, <1>2, <1>3 DEF GrantInv, PurchasesAreHonoured

(* The same for a step of a call c, from its old pc to the new one, that   *)
(* sets no flag and stores no purchase.                                    *)
LEMMA GrantsGoOn ==
    ASSUME Counted, GrantInv, NEW c \in PurchaseCalls,
           UNCHANGED <<registeredUsers, registeredCache, purchasedBy>>,
           \A n \in feed : \E m \in feed' : m.id = n.id,
           \A d \in PurchaseCalls : /\ purchase'[d].buyer = purchase[d].buyer
                                    /\ purchase'[d].receipt = purchase[d].receipt
                                    /\ d # c => purchase'[d] = purchase[d],
           purchase'[c].pc # "notify",
           purchase'[c].pc = "create" =>
               /\ purchase[c].buyer \in registeredUsers
               /\ \E n \in feed' : n.id = WelcomeID(purchase[c].buyer),
           purchase'[c].pc = "ok" => purchasedBy[purchase[c].receipt] = purchase[c].buyer,
           purchase[c].pc \in {"notify", "create", "died", "failed"} =>
               purchase'[c].pc \in {"create", "died", "failed"}
    PROVE  GrantInv'
<1>1. \A d \in PurchaseCalls : purchase[d].buyer \in Buyers
  BY CallTyped
<1>2. GrantsInOrder'
  BY DEF GrantInv, GrantsInOrder, WelcomeID
<1>3. StoredMeansGranted'
  BY DEF GrantInv, PurchasesAreHonoured, StoredMeansGranted, WelcomeID
<1>4. OkMeansRegistered'
  <2> SUFFICES ASSUME NEW d \in PurchaseCalls, purchase'[d].pc = "ok"
               PROVE  /\ purchasedBy[purchase[d].receipt] = purchase[d].buyer
                      /\ IsRegistered(purchase[d].buyer)
    BY DEF OkMeansRegistered, IsRegistered
  <2>1. purchasedBy[purchase[d].receipt] = purchase[d].buyer
    BY DEF GrantInv, PurchasesAreHonoured, OkMeansRegistered
  <2>2. purchase[d].buyer \in registeredUsers
    BY <1>1, <2>1, CallTyped, PurchaseAssumption DEF GrantInv, PurchasesAreHonoured, StoredMeansGranted
  <2> QED
    BY <1>1, <2>1, <2>2 DEF GrantInv, GrantsInOrder, IsRegistered, Counted
<1>5. FreeAccountsAreAccountedFor'
  <2> SUFFICES ASSUME NEW u \in registeredUsers
               PROVE  \E d \in PurchaseCalls :
                          /\ purchase'[d].buyer = u
                          /\ \/ purchasedBy[purchase'[d].receipt] = u
                             \/ purchase'[d].pc \in {"notify", "create", "died", "failed"}
    BY DEF FreeAccountsAreAccountedFor
  <2>1. PICK d \in PurchaseCalls :
            /\ purchase[d].buyer = u
            /\ \/ purchasedBy[purchase[d].receipt] = u
               \/ purchase[d].pc \in {"notify", "create", "died", "failed"}
    BY DEF GrantInv, PurchasesAreHonoured, FreeAccountsAreAccountedFor
  <2> QED
    BY <2>1
<1> QED
  BY <1>2, <1>3, <1>4, <1>5 DEF GrantInv, PurchasesAreHonoured

-----------------------------------------------------------------------------
LEMMA CheckReceiptKeeps ==
    ASSUME PurchaseInv, NEW c \in PurchaseCalls, CheckReceipt(c)
    PROVE  PurchaseInv'
<1> DEFINE owner == purchasedBy[purchase[c].receipt]
           pc == IF owner = NoBuyer THEN "next"
                 ELSE IF owner = purchase[c].buyer THEN "ok" ELSE "denied"
<1>1. UNCHANGED <<now, registeredUsers, registeredCache, nextAirdrop, eligible, purchasedBy,
                  airdrop, dropped, feed, stops, setBacks>>
  BY DEF CheckReceipt
<1>2. /\ purchase' = [purchase EXCEPT ![c].pc = pc, ![c].week = Week(now)]
      /\ purchase[c].pc = "idle"
  BY DEF CheckReceipt
<1>3. pc \in {"next", "ok", "denied"} /\ (pc = "ok" => owner = purchase[c].buyer)
  OBVIOUS
<1> HIDE DEF pc
<1>4. Counted /\ GrantInv /\ AirdropInv /\ Week(now) \in Weeks
  BY WeeksGoUp DEF PurchaseInv, Counted
<1>5. /\ purchase' \in [PurchaseCalls -> Purchase]
      /\ purchase'[c].pc = pc
      /\ \A d \in PurchaseCalls : /\ purchase'[d].buyer = purchase[d].buyer
                                  /\ purchase'[d].receipt = purchase[d].receipt
                                  /\ d # c => purchase'[d] = purchase[d]
      /\ \A u, v : BoughtBefore(purchase, u, v) => BoughtBefore(purchase', u, v)
  BY <1>2, <1>3, <1>4, CallGoesOn DEF CallIsAt
<1>6. Counted'
  BY <1>1, <1>4, <1>5 DEF Counted
<1>7. GrantInv'
  BY <1>1, <1>2, <1>3, <1>4, <1>5, GrantsGoOn
<1>8. AirdropInv'
  <2>1. \A d \in PurchaseCalls : purchase'[d].pc = "flag" => purchase[d].pc = "flag"
    BY <1>3, <1>5
  <2> QED
    BY <1>1, <1>4, <1>5, <2>1, AirdropsUndisturbed DEF AirdropInv, DueAfterPurchase
<1> QED
  BY <1>6, <1>7, <1>8 DEF PurchaseInv

(* A next airdrop that is set back is an excuse.                           *)
LEMMA SetBackIsAnExcuse ==
    ASSUME Counted, NEW U, NEW w \in 0..(Week(LastHalfWeek) + 1), BatchSetNextAirdrop(U, w),
           stops' = stops
    PROVE  /\ nextAirdrop' \in [Buyers -> 0..(Week(LastHalfWeek) + 1)]
           /\ setBacks' \in [Buyers -> Nat]
           /\ \A u \in Buyers : /\ nextAirdrop'[u] = IF u \in U THEN w ELSE nextAirdrop[u]
                                /\ Excuses(u)' >= Excuses(u) /\ Excuses(u) \in Nat /\ Excuses(u)' \in Nat
                                /\ \/ nextAirdrop'[u] >= nextAirdrop[u]
                                   \/ Excuses(u)' = Excuses(u) + 1
<1>1. /\ nextAirdrop' = [u \in Buyers |-> IF u \in U THEN w ELSE nextAirdrop[u]]
      /\ setBacks' = [u \in Buyers |-> IF u \in U /\ w < nextAirdrop[u] THEN setBacks[u] + 1
                                       ELSE setBacks[u]]
  BY DEF BatchSetNextAirdrop
<1>2. \A u \in Buyers : nextAirdrop[u] \in Nat /\ setBacks[u] \in Nat /\ stops \in Nat /\ w \in Nat
  BY WeeksGoUp DEF Counted
<1>3. nextAirdrop' \in [Buyers -> 0..(Week(LastHalfWeek) + 1)] /\ setBacks' \in [Buyers -> Nat]
  BY <1>1, <1>2 DEF Counted
<1>4. \A u \in Buyers : /\ nextAirdrop'[u] = IF u \in U THEN w ELSE nextAirdrop[u]
                        /\ setBacks'[u] = IF u \in U /\ w < nextAirdrop[u] THEN setBacks[u] + 1
                                          ELSE setBacks[u]
  BY <1>1
<1> QED
  BY <1>2, <1>3, <1>4 DEF Excuses

LEMMA PaidNumbers ==
    ASSUME Counted
    PROVE  \A u \in Buyers, w \in Weeks :
              /\ dropped[u][w] \in Nat /\ Excuses(u) \in Nat
              /\ nextAirdrop[u] \in Nat /\ w \in Nat /\ Week(now) \in Nat /\ airdrop.next \in Nat
  BY WeeksGoUp DEF Counted, Excuses, Airdrop

(* New excuses, and a next airdrop that is set: the same was paid.         *)
LEMMA PaidStaysPaid ==
    ASSUME Counted, AirdropInv, NEW U, NEW w \in 0..(Week(LastHalfWeek) + 1),
           BatchSetNextAirdrop(U, w), UNCHANGED <<now, dropped, stops>>
    PROVE  /\ PaidWithExcuse'
           /\ \A u \in Buyers, v \in Weeks : /\ dropped[u][v] > Excuses(u)' => dropped[u][v] > Excuses(u)
                                             /\ dropped[u][v] <= Excuses(u) => dropped[u][v] <= Excuses(u)'
           /\ \A u \in Buyers, v \in Weeks :
                 dropped[u][v] > Excuses(u)' /\ nextAirdrop[u] > v => nextAirdrop'[u] > v
<1>1. \A u \in Buyers : /\ nextAirdrop'[u] \in Nat
                        /\ Excuses(u)' >= Excuses(u) /\ Excuses(u)' \in Nat
                        /\ \/ nextAirdrop'[u] >= nextAirdrop[u]
                           \/ Excuses(u)' = Excuses(u) + 1
  BY SetBackIsAnExcuse, WeeksGoUp
<1>2. \A u \in Buyers, v \in Weeks : dropped[u][v] <= 1 + Excuses(u)
  BY DEF AirdropInv, PaidWithExcuse
<1>3. ASSUME NEW u \in Buyers, NEW v \in Weeks
      PROVE  /\ dropped[u][v] <= 1 + Excuses(u)'
             /\ dropped[u][v] > Excuses(u)' => dropped[u][v] > Excuses(u)
             /\ dropped[u][v] <= Excuses(u) => dropped[u][v] <= Excuses(u)'
             /\ dropped[u][v] > Excuses(u)' /\ nextAirdrop[u] > v => nextAirdrop'[u] > v
  BY <1>1, <1>2, PaidNumbers
<1>4. PaidWithExcuse'
  BY <1>3 DEF PaidWithExcuse
<1> QED
  BY <1>3, <1>4

LEMMA SetNextAirdropKeeps ==
    ASSUME PurchaseInv, NEW c \in PurchaseCalls, SetNextAirdrop(c)
    PROVE  PurchaseInv'
<1> DEFINE b == purchase[c].buyer
           n == purchase[c].week + 1
<1>1. /\ UNCHANGED <<now, registeredUsers, registeredCache, eligible, purchasedBy, airdrop, dropped, feed, stops>>
      /\ GoTo(c, "flag") /\ purchase[c].pc = "next"
      /\ BatchSetNextAirdrop({b}, n)
  BY DEF SetNextAirdrop
<1>2. Counted /\ GrantInv /\ AirdropInv
  BY DEF PurchaseInv
<1>3. b \in Buyers /\ n \in 0..(Week(LastHalfWeek) + 1) /\ purchase[c].week \in Nat
  BY <1>2, CallTyped, WeeksGoUp
<1>4. /\ purchase' \in [PurchaseCalls -> Purchase]
      /\ purchase'[c].pc = "flag" /\ purchase'[c].week = purchase[c].week
      /\ \A d \in PurchaseCalls : /\ purchase'[d].buyer = purchase[d].buyer
                                  /\ purchase'[d].receipt = purchase[d].receipt
                                  /\ d # c => purchase'[d] = purchase[d]
      /\ \A u, v : BoughtBefore(purchase, u, v) => BoughtBefore(purchase', u, v)
  BY <1>1, <1>2, GoToGoesOn
<1>5. /\ nextAirdrop' \in [Buyers -> 0..(Week(LastHalfWeek) + 1)]
      /\ setBacks' \in [Buyers -> Nat]
      /\ \A u \in Buyers : nextAirdrop'[u] = IF u = b THEN n ELSE nextAirdrop[u]
  BY <1>1, <1>2, <1>3, SetBackIsAnExcuse
<1>6. Counted'
  BY <1>1, <1>2, <1>4, <1>5 DEF Counted
<1>7. GrantInv'
  BY <1>1, <1>2, <1>4, GrantsGoOn
<1>8. BoughtBefore(purchase', b, n)
  BY <1>3, <1>4 DEF BoughtBefore
<1>9. /\ PaidWithExcuse'
      /\ \A u \in Buyers, v \in Weeks : /\ dropped[u][v] > Excuses(u)' => dropped[u][v] > Excuses(u)
                                        /\ dropped[u][v] <= Excuses(u) => dropped[u][v] <= Excuses(u)'
      /\ \A u \in Buyers, v \in Weeks :
            dropped[u][v] > Excuses(u)' /\ nextAirdrop[u] > v => nextAirdrop'[u] > v
  BY <1>1, <1>2, <1>3, PaidStaysPaid
<1>10. PaidUsersAreSet'
  BY <1>1, <1>2, <1>9 DEF AirdropInv, PaidUsersAreSet
<1>11. OwnersAreUnpaid'
  BY <1>1, <1>2, <1>9 DEF AirdropInv, OwnersAreUnpaid, Counted, Airdrop
<1>12. PaidAfterPurchase'
  BY <1>1, <1>2, <1>4 DEF AirdropInv, PaidAfterPurchase
<1>13. DueAfterPurchase'
  <2>1. \A u \in Buyers : BoughtBefore(purchase, u, nextAirdrop[u]) => BoughtBefore(purchase', u, nextAirdrop'[u])
    BY <1>4, <1>5, <1>8
  <2>2. \A u \in registeredUsers : u \in Buyers /\ BoughtBefore(purchase, u, nextAirdrop[u])
    BY <1>2 DEF Counted, AirdropInv, DueAfterPurchase
  <2>3. ASSUME NEW d \in PurchaseCalls, purchase'[d].pc = "flag"
        PROVE  BoughtBefore(purchase', purchase'[d].buyer, nextAirdrop'[purchase'[d].buyer])
    <3>1. CASE d = c
      BY <1>3, <1>4, <1>5, <1>8, <3>1
    <3>2. CASE d # c
      <4>1. purchase[d].buyer \in Buyers /\ purchase'[d] = purchase[d]
        BY <1>2, <1>4, <3>2, CallTyped
      <4>2. BoughtBefore(purchase, purchase[d].buyer, nextAirdrop[purchase[d].buyer])
        BY <1>2, <2>3, <4>1 DEF AirdropInv, DueAfterPurchase
      <4> QED
        BY <2>1, <4>1, <4>2
    <3> QED
      BY <3>1, <3>2
  <2>4. /\ airdrop.pc \in {"owners", "paid", "lookup"} => \A u \in airdrop.users : BoughtBefore(purchase', u, Week(now))
        /\ airdrop.pc = "store" => \A u \in airdrop.users : BoughtBefore(purchase', u, airdrop.next)
    BY <1>1, <1>2, <1>4 DEF AirdropInv, DueAfterPurchase
  <2> QED
    BY <1>1, <2>1, <2>2, <2>3, <2>4 DEF DueAfterPurchase
<1> QED
  BY <1>6, <1>7, <1>9, <1>10, <1>11, <1>12, <1>13 DEF PurchaseInv, AirdropInv

LEMMA SetRegistrationFlagKeeps ==
    ASSUME PurchaseInv, NEW c \in PurchaseCalls, SetRegistrationFlag(c)
    PROVE  PurchaseInv'
<1> DEFINE b == purchase[c].buyer
<1>1. /\ UNCHANGED <<now, registeredCache, nextAirdrop, eligible, purchasedBy, airdrop, dropped,
                     feed, stops, setBacks>>
      /\ GoTo(c, "notify") /\ purchase[c].pc = "flag"
      /\ registeredUsers' = registeredUsers \union {b}
  BY DEF SetRegistrationFlag
<1>2. Counted /\ GrantInv /\ AirdropInv
  BY DEF PurchaseInv
<1>3. b \in Buyers /\ \A d \in PurchaseCalls : purchase[d].buyer \in Buyers
  BY <1>2, CallTyped
<1>4. /\ purchase' \in [PurchaseCalls -> Purchase]
      /\ purchase'[c].pc = "notify"
      /\ \A d \in PurchaseCalls : /\ purchase'[d].buyer = purchase[d].buyer
                                  /\ purchase'[d].receipt = purchase[d].receipt
                                  /\ d # c => purchase'[d] = purchase[d]
      /\ \A u, v : BoughtBefore(purchase, u, v) => BoughtBefore(purchase', u, v)
  BY <1>1, <1>2, GoToGoesOn
<1>5. Counted'
  BY <1>1, <1>2, <1>3, <1>4 DEF Counted
<1>6. GrantsInOrder'
  BY <1>1, <1>2, <1>4 DEF GrantInv, GrantsInOrder, WelcomeID
<1>7. StoredMeansGranted'
  BY <1>1, <1>2 DEF GrantInv, PurchasesAreHonoured, StoredMeansGranted, WelcomeID
<1>8. OkMeansRegistered'
  <2> SUFFICES ASSUME NEW d \in PurchaseCalls, purchase'[d].pc = "ok"
               PROVE  /\ purchasedBy'[purchase'[d].receipt] = purchase'[d].buyer
                      /\ IsRegistered(purchase[d].buyer)'
    BY <1>4 DEF OkMeansRegistered, IsRegistered
  <2>1. purchase'[d] = purchase[d] /\ purchase[d].pc = "ok"
    BY <1>4
  <2>2. /\ purchasedBy[purchase[d].receipt] = purchase[d].buyer
        /\ IsRegistered(purchase[d].buyer)
    BY <1>2, <2>1 DEF GrantInv, PurchasesAreHonoured, OkMeansRegistered
  <2> QED
    BY <1>1, <2>1, <2>2 DEF IsRegistered
<1>9. FreeAccountsAreAccountedFor'
  <2> SUFFICES ASSUME NEW u \in registeredUsers'
               PROVE  \E d \in PurchaseCalls :
                          /\ purchase'[d].buyer = u
                          /\ \/ purchasedBy'[purchase'[d].receipt] = u
                             \/ purchase'[d].pc \in {"notify", "create", "died", "failed"}
    BY DEF FreeAccountsAreAccountedFor
  <2>1. CASE u = b
    BY <1>4, <2>1
  <2>2. CASE u # b
    <3>1. PICK d \in PurchaseCalls :
              /\ purchase[d].buyer = u
              /\ \/ purchasedBy[purchase[d].receipt] = u
                 \/ purchase[d].pc \in {"notify", "create", "died", "failed"}
      BY <1>1, <1>2, <2>2 DEF GrantInv, PurchasesAreHonoured, FreeAccountsAreAccountedFor
    <3> QED
      BY <1>1, <1>4, <2>2, <3>1
  <2> QED
    BY <2>1, <2>2
<1>10. AirdropInv'
  <2>1. \A d \in PurchaseCalls : purchase'[d].pc = "flag" => purchase[d].pc = "flag"
    BY <1>4
  <2>2. \A u \in registeredUsers' : BoughtBefore(purchase, u, nextAirdrop[u])
    BY <1>1, <1>2 DEF AirdropInv, DueAfterPurchase
  <2>3. \A d \in PurchaseCalls : purchase'[d].pc = "flag" =>
            BoughtBefore(purchase', purchase'[d].buyer, nextAirdrop[purchase'[d].buyer])
    BY <1>2, <1>4, <2>1 DEF AirdropInv, DueAfterPurchase
  <2> QED
    BY <1>1, <1>2, <1>4, <2>2, <2>3, AirdropsUndisturbed
<1> QED
  BY <1>5, <1>6, <1>7, <1>8, <1>9, <1>10 DEF PurchaseInv, GrantInv, PurchasesAreHonoured

(* The last two steps of a call, or its end.                               *)
LEMMA AirdropsDoNotMind ==
    ASSUME Counted, AirdropInv, NEW c \in PurchaseCalls,
           UNCHANGED <<now, registeredUsers, nextAirdrop, airdrop, dropped, stops, setBacks>>,
           purchase'[c].pc # "flag",
           \A d \in PurchaseCalls : d # c => purchase'[d] = purchase[d],
           \A u, v : BoughtBefore(purchase, u, v) => BoughtBefore(purchase', u, v)
    PROVE  AirdropInv'
<1>1. \A d \in PurchaseCalls : purchase'[d].pc = "flag" => purchase'[d] = purchase[d]
  OBVIOUS
<1>2. \A u \in registeredUsers' : BoughtBefore(purchase', u, nextAirdrop[u])
  BY DEF AirdropInv, DueAfterPurchase
<1>3. \A d \in PurchaseCalls : purchase'[d].pc = "flag" =>
          BoughtBefore(purchase', purchase'[d].buyer, nextAirdrop[purchase'[d].buyer])
  BY <1>1 DEF AirdropInv, DueAfterPurchase
<1> QED
  BY <1>2, <1>3, AirdropsUndisturbed

LEMMA NotifyWelcomeKeeps ==
    ASSUME PurchaseInv, NEW c \in PurchaseCalls, NotifyWelcome(c)
    PROVE  PurchaseInv'
<1> DEFINE id == WelcomeID(purchase[c].buyer)
<1>1. /\ UNCHANGED <<now, registeredUsers, registeredCache, nextAirdrop, eligible, purchasedBy, airdrop,
                     dropped, stops, setBacks>>
      /\ GoTo(c, "create") /\ purchase[c].pc = "notify"
      /\ feed' = SaveNotification(feed, id, 1000, now)
  BY DEF NotifyWelcome
<1>2. Counted /\ GrantInv /\ AirdropInv
  BY DEF PurchaseInv
<1>3. /\ purchase' \in [PurchaseCalls -> Purchase]
      /\ purchase'[c].pc = "create"
      /\ \A d \in PurchaseCalls : /\ purchase'[d].buyer = purchase[d].buyer
                                  /\ purchase'[d].receipt = purchase[d].receipt
                                  /\ d # c => purchase'[d] = purchase[d]
      /\ \A u, v : BoughtBefore(purchase, u, v) => BoughtBefore(purchase', u, v)
  BY <1>1, <1>2, GoToGoesOn
<1>4. Rowed(feed') /\ (\A n \in feed : \E m \in feed' : m.id = n.id) /\ \E m \in feed' : m.id = id
  BY <1>1, <1>2, SaveKeepsRows DEF Counted
<1>5. Counted'
  BY <1>1, <1>2, <1>3, <1>4 DEF Counted
<1>6. purchase[c].buyer \in registeredUsers
  BY <1>1, <1>2 DEF GrantInv, GrantsInOrder
<1>7. GrantInv'
  BY <1>1, <1>2, <1>3, <1>4, <1>6, GrantsGoOn
<1>8. AirdropInv'
  BY <1>1, <1>2, <1>3, AirdropsDoNotMind
<1> QED
  BY <1>5, <1>7, <1>8 DEF PurchaseInv

LEMMA DieKeeps ==
    ASSUME PurchaseInv, NEW c \in PurchaseCalls, Die(c)
    PROVE  PurchaseInv'
<1>1. /\ UNCHANGED <<now, registeredUsers, registeredCache, nextAirdrop, eligible, purchasedBy, airdrop,
                     dropped, feed, stops, setBacks>>
      /\ GoTo(c, "died")
  BY DEF Die
<1>2. Counted /\ GrantInv /\ AirdropInv
  BY DEF PurchaseInv
<1>3. /\ purchase' \in [PurchaseCalls -> Purchase]
      /\ purchase'[c].pc = "died"
      /\ \A d \in PurchaseCalls : /\ purchase'[d].buyer = purchase[d].buyer
                                  /\ purchase'[d].receipt = purchase[d].receipt
                                  /\ d # c => purchase'[d] = purchase[d]
      /\ \A u, v : BoughtBefore(purchase, u, v) => BoughtBefore(purchase', u, v)
  BY <1>1, <1>2, GoToGoesOn
<1>4. Counted'
  BY <1>1, <1>2, <1>3 DEF Counted
<1>5. GrantInv'
  BY <1>1, <1>2, <1>3, GrantsGoOn
<1>6. AirdropInv'
  BY <1>1, <1>2, <1>3, AirdropsDoNotMind
<1> QED
  BY <1>4, <1>5, <1>6 DEF PurchaseInv

LEMMA CreatePurchaseKeeps ==
    ASSUME PurchaseInv, NEW c \in PurchaseCalls, CreatePurchase(c)
    PROVE  PurchaseInv'
<1> DEFINE r == purchase[c].receipt
           b == purchase[c].buyer
<1>1. /\ UNCHANGED <<now, registeredUsers, registeredCache, nextAirdrop, eligible, airdrop, dropped,
                     feed, stops, setBacks>>
      /\ purchase[c].pc = "create"
      /\ \/ purchasedBy[r] = NoBuyer /\ purchasedBy' = [purchasedBy EXCEPT ![r] = b] /\ GoTo(c, "ok")
         \/ purchasedBy[r] # NoBuyer /\ purchasedBy' = purchasedBy /\ GoTo(c, "failed")
  BY DEF CreatePurchase
<1>2. Counted /\ GrantInv /\ AirdropInv
  BY DEF PurchaseInv
<1>3. /\ b \in Buyers /\ r \in Receipts /\ b # NoBuyer
      /\ b \in registeredUsers /\ \E n \in feed : n.id = WelcomeID(b)
  BY <1>1, <1>2, CallTyped, PurchaseAssumption DEF GrantInv, GrantsInOrder
<1>4. /\ purchase' \in [PurchaseCalls -> Purchase]
      /\ purchase'[c].pc \in {"ok", "failed"}
      /\ purchase'[c].pc = "ok" <=> purchasedBy[r] = NoBuyer
      /\ \A d \in PurchaseCalls : /\ purchase'[d].buyer = purchase[d].buyer
                                  /\ purchase'[d].receipt = purchase[d].receipt
                                  /\ d # c => purchase'[d] = purchase[d]
      /\ \A u, v : BoughtBefore(purchase, u, v) => BoughtBefore(purchase', u, v)
  <2>1. CASE purchasedBy[r] = NoBuyer /\ GoTo(c, "ok")
    BY <1>2, <2>1, GoToGoesOn
  <2>2. CASE purchasedBy[r] # NoBuyer /\ GoTo(c, "failed")
    BY <1>2, <2>2, GoToGoesOn
  <2> QED
    BY <1>1, <2>1, <2>2
<1>5. AirdropInv'
  BY <1>1, <1>2, <1>4, AirdropsDoNotMind
<1>6. CASE purchasedBy[r] # NoBuyer
  <2>1. purchasedBy' = purchasedBy /\ purchase'[c].pc = "failed"
    BY <1>1, <1>4, <1>6
  <2>2. Counted'
    BY <1>1, <1>2, <1>4, <2>1 DEF Counted
  <2>3. GrantInv'
    BY <1>1, <1>2, <1>4, <2>1, GrantsGoOn
  <2> QED
    BY <1>5, <2>2, <2>3 DEF PurchaseInv
<1>7. CASE purchasedBy[r] = NoBuyer
  <2>1. /\ purchasedBy' = [purchasedBy EXCEPT ![r] = b] /\ purchase'[c].pc = "ok"
        /\ purchasedBy' \in [Receipts -> Buyers \union {NoBuyer}]
        /\ \A q \in Receipts : purchasedBy'[q] = IF q = r THEN b ELSE purchasedBy[q]
    BY <1>1, <1>2, <1>3, <1>4, <1>7 DEF Counted
  <2>2. Counted'
    BY <1>1, <1>2, <1>4, <2>1 DEF Counted
  <2>3. GrantsInOrder'
    BY <1>1, <1>2, <1>4, <2>1 DEF GrantInv, GrantsInOrder, WelcomeID
  <2>4. StoredMeansGranted'
    BY <1>1, <1>2, <1>3, <2>1 DEF GrantInv, PurchasesAreHonoured, StoredMeansGranted, WelcomeID
  <2>5. OkMeansRegistered'
    <3> SUFFICES ASSUME NEW d \in PurchaseCalls, purchase'[d].pc = "ok"
                 PROVE  /\ purchasedBy'[purchase[d].receipt] = purchase[d].buyer
                        /\ IsRegistered(purchase[d].buyer)
      BY <1>1, <1>4 DEF OkMeansRegistered, IsRegistered
    <3>1. CASE d = c
      BY <1>2, <1>3, <2>1, <3>1 DEF GrantInv, GrantsInOrder, IsRegistered, Counted
    <3>2. CASE d # c
      <4>1. /\ purchasedBy[purchase[d].receipt] = purchase[d].buyer
            /\ IsRegistered(purchase[d].buyer)
        BY <1>2, <1>4, <3>2 DEF GrantInv, PurchasesAreHonoured, OkMeansRegistered
      <4>2. purchase[d].receipt \in Receipts /\ purchase[d].buyer # NoBuyer
        BY <1>2, CallTyped, PurchaseAssumption
      <4> QED
        BY <1>7, <2>1, <4>1, <4>2
    <3> QED
      BY <3>1, <3>2
  <2>6. FreeAccountsAreAccountedFor'
    <3> SUFFICES ASSUME NEW u \in registeredUsers
                 PROVE  \E d \in PurchaseCalls :
                            /\ purchase[d].buyer = u
                            /\ \/ purchasedBy'[purchase[d].receipt] = u
                               \/ purchase'[d].pc \in {"notify", "create", "died", "failed"}
      BY <1>1, <1>4 DEF FreeAccountsAreAccountedFor
    <3>1. PICK d \in PurchaseCalls :
              /\ purchase[d].buyer = u
              /\ \/ purchasedBy[purchase[d].receipt] = u
                 \/ purchase[d].pc \in {"notify", "create", "died", "failed"}
      BY <1>2 DEF GrantInv, PurchasesAreHonoured, FreeAccountsAreAccountedFor
    <3>2. purchase[d].receipt \in Receipts /\ purchase[d].buyer # NoBuyer
      BY <1>2, CallTyped, PurchaseAssumption
    <3>3. CASE d = c
      BY <2>1, <3>1, <3>2, <3>3
    <3>4. CASE d # c
      BY <1>4, <1>7, <2>1, <3>1, <3>2, <3>4
    <3> QED
      BY <3>3, <3>4
  <2> QED
    BY <1>5, <2>2, <2>3, <2>4, <2>5, <2>6 DEF PurchaseInv, GrantInv, PurchasesAreHonoured
<1> QED
  BY <1>6, <1>7

LEMMA CacheRegisteredKeeps ==
    ASSUME PurchaseInv, NEW u \in Buyers, CacheRegistered(u)
    PROVE  PurchaseInv'
<1>1. /\ UNCHANGED <<now, registeredUsers, nextAirdrop, eligible, purchasedBy, purchase, airdrop,
                     dropped, feed, stops, setBacks>>
      /\ registeredCache' = [registeredCache EXCEPT ![u] = "yes"]
      /\ u \in registeredUsers
  BY DEF CacheRegistered
<1>2. Counted /\ GrantInv /\ AirdropInv
  BY DEF PurchaseInv
<1>3. /\ registeredCache' \in [Buyers -> {"unknown", "yes", "no"}]
      /\ \A v \in Buyers : registeredCache'[v] = IF v = u THEN "yes" ELSE registeredCache[v]
  BY <1>1, <1>2 DEF Counted
<1>4. Counted'
  BY <1>1, <1>2, <1>3 DEF Counted
<1>5. GrantsInOrder'
  BY <1>1, <1>2, <1>3 DEF GrantInv, GrantsInOrder, WelcomeID
<1>6. StoredMeansGranted' /\ FreeAccountsAreAccountedFor'
  BY <1>1, <1>2 DEF GrantInv, PurchasesAreHonoured, StoredMeansGranted,
     FreeAccountsAreAccountedFor, WelcomeID
<1>7. OkMeansRegistered'
  <2> SUFFICES ASSUME NEW c \in PurchaseCalls, purchase[c].pc = "ok"
               PROVE  /\ purchasedBy[purchase[c].receipt] = purchase[c].buyer
                      /\ IsRegistered(purchase[c].buyer)'
    BY <1>1 DEF OkMeansRegistered, IsRegistered
  <2>1. /\ purchasedBy[purchase[c].receipt] = purchase[c].buyer
        /\ IsRegistered(purchase[c].buyer) /\ purchase[c].buyer \in Buyers
    BY <1>2, CallTyped DEF GrantInv, PurchasesAreHonoured, OkMeansRegistered
  <2> QED
    BY <1>1, <1>3, <2>1 DEF IsRegistered
<1>8. AirdropInv'
  BY <1>1, <1>2, AirdropsUndisturbed DEF AirdropInv, DueAfterPurchase
<1> QED
  BY <1>4, <1>5, <1>6, <1>7, <1>8 DEF PurchaseInv, GrantInv, PurchasesAreHonoured

LEMMA ExtendAirdropEligibilityKeeps ==
    ASSUME PurchaseInv, NEW u \in Buyers, ExtendAirdropEligibility(u)
    PROVE  PurchaseInv'
<1>1. /\ UNCHANGED <<now, registeredUsers, registeredCache, nextAirdrop, purchasedBy, purchase, airdrop,
                     dropped, feed, stops, setBacks>>
      /\ eligible' = eligible \union {u}
  BY DEF ExtendAirdropEligibility
<1>2. Counted /\ GrantInv /\ AirdropInv
  BY DEF PurchaseInv
<1>3. Counted' /\ GrantInv'
  BY <1>1, <1>2, GrantsUndisturbed DEF Counted
<1>4. AirdropInv'
  BY <1>1, <1>2, AirdropsUndisturbed DEF AirdropInv, DueAfterPurchase
<1> QED
  BY <1>3, <1>4 DEF PurchaseInv

-----------------------------------------------------------------------------
LEMMA GetOwnersToAirdropNowKeeps ==
    ASSUME PurchaseInv, GetOwnersToAirdropNow
    PROVE  PurchaseInv'
<1>1. /\ UNCHANGED <<now, registeredUsers, registeredCache, nextAirdrop, eligible, purchasedBy, purchase,
                     dropped, feed, stops, setBacks>>
      /\ airdrop.pc = "idle" /\ Due # {}
      /\ airdrop' = [airdrop EXCEPT !.pc = "owners", !.users = Due]
  BY DEF GetOwnersToAirdropNow
<1>2. Counted /\ GrantInv /\ AirdropInv
  BY DEF PurchaseInv
<1>3. Due \subseteq Buyers
  BY <1>2 DEF Counted, Due
<1>4. airdrop' \in Airdrop /\ airdrop'.pc = "owners" /\ airdrop'.users = Due
  BY <1>1, <1>2, <1>3 DEF Counted, Airdrop
<1>5. Counted' /\ GrantInv'
  BY <1>1, <1>2, <1>4, GrantsUndisturbed DEF Counted
<1>6. \A u \in Due : u \in registeredUsers /\ u \in Buyers /\ nextAirdrop[u] <= Week(now)
  BY <1>3 DEF Due
<1>7. PaidUsersAreSet' /\ PaidWithExcuse' /\ PaidAfterPurchase'
  BY <1>1, <1>2, <1>4 DEF AirdropInv, PaidUsersAreSet, PaidWithExcuse, PaidAfterPurchase, Excuses
<1>8. OwnersAreUnpaid'
  <2> SUFFICES ASSUME NEW u \in Due, NEW w \in Weeks, w >= Week(now)
               PROVE  dropped[u][w] <= Excuses(u)
    BY <1>1, <1>4 DEF OwnersAreUnpaid, Excuses
  <2>1. ~(dropped[u][w] > Excuses(u)) \/ nextAirdrop[u] > w
    BY <1>1, <1>2, <1>6 DEF AirdropInv, PaidUsersAreSet
  <2> QED
    BY <1>2, <1>6, <2>1, PaidNumbers
<1>9. DueAfterPurchase'
  <2>1. ASSUME NEW u \in Due PROVE BoughtBefore(purchase, u, Week(now))
    <3>1. PICK c \in PurchaseCalls : /\ purchase[c].pc # "idle" /\ purchase[c].buyer = u
                                     /\ purchase[c].week < nextAirdrop[u]
      BY <1>2, <1>6 DEF AirdropInv, DueAfterPurchase, BoughtBefore
    <3>2. purchase[c].week \in Nat /\ nextAirdrop[u] \in Nat /\ Week(now) \in Nat
      BY <1>2, <1>6, CallTyped, WeeksGoUp DEF Counted
    <3>3. purchase[c].week < Week(now)
      BY <1>6, <3>1, <3>2
    <3> QED
      BY <3>1, <3>3 DEF BoughtBefore
  <2> QED
    BY <1>1, <1>2, <1>4, <2>1 DEF AirdropInv, DueAfterPurchase
<1> QED
  BY <1>5, <1>7, <1>8, <1>9 DEF PurchaseInv, AirdropInv

LEMMA TransferKeeps ==
    ASSUME PurchaseInv, Transfer
    PROVE  PurchaseInv'
<1>1. /\ UNCHANGED <<now, registeredUsers, registeredCache, nextAirdrop, eligible, purchasedBy, purchase,
                     feed, stops, setBacks>>
      /\ airdrop.pc = "owners"
      /\ airdrop' = [airdrop EXCEPT !.pc = "paid"]
      /\ dropped' = [u \in Buyers |-> [dropped[u] EXCEPT
                          ![Week(now)] = IF u \in airdrop.users THEN dropped[u][Week(now)] + 1
                                         ELSE dropped[u][Week(now)]]]
  BY DEF Transfer
<1>2. Counted /\ GrantInv /\ AirdropInv
  BY DEF PurchaseInv
<1>3. Week(now) \in Weeks /\ Week(now) \in Nat
  BY <1>2, WeeksGoUp DEF Counted
<1>4. /\ airdrop' \in Airdrop /\ airdrop'.pc = "paid" /\ airdrop'.users = airdrop.users
      /\ airdrop.users \subseteq Buyers /\ airdrop.users # {}
  BY <1>1, <1>2 DEF Counted, Airdrop
<1>5. /\ dropped' \in [Buyers -> [Weeks -> Nat]]
      /\ \A u \in Buyers, w \in Weeks :
            dropped'[u][w] = IF u \in airdrop.users /\ w = Week(now) THEN dropped[u][w] + 1
                             ELSE dropped[u][w]
  BY <1>1, <1>2, <1>3 DEF Counted
<1>6. Counted' /\ GrantInv'
  BY <1>1, <1>2, <1>4, <1>5, GrantsUndisturbed DEF Counted
<1>7. PaidWithExcuse'
  <2> SUFFICES ASSUME NEW u \in Buyers, NEW w \in Weeks PROVE dropped'[u][w] <= 1 + Excuses(u)
    BY <1>1 DEF PaidWithExcuse, Excuses
  <2>1. CASE u \in airdrop.users /\ w = Week(now)
    <3>1. dropped[u][w] <= Excuses(u)
      BY <1>1, <1>2, <1>3, <2>1 DEF AirdropInv, OwnersAreUnpaid
    <3> QED
      BY <1>2, <1>5, <2>1, <3>1, PaidNumbers
  <2>2. CASE ~(u \in airdrop.users /\ w = Week(now))
    BY <1>2, <1>5, <2>2 DEF AirdropInv, PaidWithExcuse
  <2> QED
    BY <2>1, <2>2
<1>8. PaidUsersAreSet'
  <2> SUFFICES ASSUME NEW u \in Buyers, NEW w \in Weeks, dropped'[u][w] > Excuses(u)
               PROVE  nextAirdrop[u] > w \/ (u \in airdrop.users /\ w <= Week(now))
    BY <1>1, <1>4 DEF PaidUsersAreSet, Excuses
  <2>1. CASE u \in airdrop.users /\ w = Week(now)
    BY <1>3, <2>1
  <2>2. CASE ~(u \in airdrop.users /\ w = Week(now))
    BY <1>1, <1>2, <1>5, <2>2 DEF AirdropInv, PaidUsersAreSet
  <2> QED
    BY <2>1, <2>2
<1>9. OwnersAreUnpaid'
  BY <1>4 DEF OwnersAreUnpaid
<1>10. DueAfterPurchase'
  BY <1>1, <1>2, <1>4 DEF AirdropInv, DueAfterPurchase
<1>11. PaidAfterPurchase'
  <2> SUFFICES ASSUME NEW u \in Buyers, NEW w \in Weeks, dropped'[u][w] > 0
               PROVE  BoughtBefore(purchase, u, w)
    BY <1>1 DEF PaidAfterPurchase
  <2>1. CASE u \in airdrop.users /\ w = Week(now)
    BY <1>1, <1>2, <2>1 DEF AirdropInv, DueAfterPurchase
  <2>2. CASE ~(u \in airdrop.users /\ w = Week(now))
    BY <1>2, <1>5, <2>2 DEF AirdropInv, PaidAfterPurchase
  <2> QED
    BY <2>1, <2>2
<1> QED
  BY <1>6, <1>7, <1>8, <1>9, <1>10, <1>11 DEF PurchaseInv, AirdropInv

LEMMA OnSuccessKeeps ==
    ASSUME PurchaseInv, OnSuccess
    PROVE  PurchaseInv'
<1>1. /\ UNCHANGED <<now, registeredUsers, registeredCache, nextAirdrop, eligible, purchasedBy, purchase,
                     dropped, feed, stops, setBacks>>
      /\ airdrop.pc = "paid"
      /\ airdrop' = [airdrop EXCEPT !.pc = "lookup", !.ts = now]
  BY DEF OnSuccess
<1>2. Counted /\ GrantInv /\ AirdropInv
  BY DEF PurchaseInv
<1>3. /\ airdrop' \in Airdrop /\ airdrop'.pc = "lookup" /\ airdrop'.users = airdrop.users
      /\ airdrop.users # {}
  BY <1>1, <1>2 DEF Counted, Airdrop
<1>4. Counted' /\ GrantInv'
  BY <1>1, <1>2, <1>3, GrantsUndisturbed DEF Counted
<1>5. PaidUsersAreSet' /\ PaidWithExcuse' /\ PaidAfterPurchase' /\ OwnersAreUnpaid' /\ DueAfterPurchase'
  BY <1>1, <1>2, <1>3 DEF AirdropInv, PaidUsersAreSet, PaidWithExcuse, PaidAfterPurchase,
     OwnersAreUnpaid, DueAfterPurchase, Excuses
<1> QED
  BY <1>4, <1>5 DEF PurchaseInv, AirdropInv

LEMMA LookUpOwnersKeeps ==
    ASSUME PurchaseInv, LookUpOwners
    PROVE  PurchaseInv'
<1>1. /\ UNCHANGED <<now, registeredUsers, registeredCache, nextAirdrop, eligible, purchasedBy, purchase,
                     dropped, feed, stops, setBacks>>
      /\ airdrop.pc = "lookup"
      /\ airdrop' = [airdrop EXCEPT !.pc = "store", !.next = NextAirdropTime(now)]
  BY DEF LookUpOwners
<1>2. Counted /\ GrantInv /\ AirdropInv
  BY DEF PurchaseInv
<1>3. NextAirdropTime(now) = Week(now) + 1 /\ Week(now) \in Nat
      /\ NextAirdropTime(now) \in 0..(Week(LastHalfWeek) + 1)
  BY <1>2, WeeksGoUp DEF Counted, NextAirdropTime
<1>4. /\ airdrop' \in Airdrop /\ airdrop'.pc = "store" /\ airdrop'.users = airdrop.users
      /\ airdrop.users # {} /\ airdrop'.next = Week(now) + 1
  BY <1>1, <1>2, <1>3 DEF Counted, Airdrop
<1>5. Counted' /\ GrantInv'
  BY <1>1, <1>2, <1>4, GrantsUndisturbed DEF Counted
<1>6. PaidWithExcuse' /\ PaidAfterPurchase' /\ OwnersAreUnpaid'
  BY <1>1, <1>2, <1>4 DEF AirdropInv, PaidWithExcuse, PaidAfterPurchase, OwnersAreUnpaid, Excuses
<1>7. PaidUsersAreSet'
  <2> SUFFICES ASSUME NEW u \in Buyers, NEW w \in Weeks, dropped[u][w] > Excuses(u)
               PROVE  nextAirdrop[u] > w \/ (u \in airdrop.users /\ w < Week(now) + 1)
    BY <1>1, <1>4 DEF PaidUsersAreSet, Excuses
  <2>1. nextAirdrop[u] > w \/ (u \in airdrop.users /\ w <= Week(now))
    BY <1>1, <1>2 DEF AirdropInv, PaidUsersAreSet
  <2> QED
    BY <1>2, <2>1, PaidNumbers
<1>8. DueAfterPurchase'
  <2>1. ASSUME NEW u \in airdrop.users PROVE BoughtBefore(purchase, u, Week(now) + 1)
    <3>1. PICK c \in PurchaseCalls : /\ purchase[c].pc # "idle" /\ purchase[c].buyer = u
                                     /\ purchase[c].week < Week(now)
      BY <1>1, <1>2 DEF AirdropInv, DueAfterPurchase, BoughtBefore
    <3>2. purchase[c].week \in Nat
      BY <1>2, CallTyped
    <3>3. purchase[c].week < Week(now) + 1
      BY <1>3, <3>1, <3>2
    <3> QED
      BY <3>1, <3>3 DEF BoughtBefore
  <2> QED
    BY <1>1, <1>2, <1>4, <2>1 DEF AirdropInv, DueAfterPurchase
<1> QED
  BY <1>5, <1>6, <1>7, <1>8 DEF PurchaseInv, AirdropInv

LEMMA StoreNextAirdropKeeps ==
    ASSUME PurchaseInv, StoreNextAirdrop
    PROVE  PurchaseInv'
<1> DEFINE U == airdrop.users
           n == airdrop.next
<1>1. /\ UNCHANGED <<now, registeredUsers, registeredCache, eligible, purchasedBy, purchase, dropped, feed, stops>>
      /\ airdrop.pc = "store"
      /\ airdrop' = [airdrop EXCEPT !.pc = "notify"]
      /\ BatchSetNextAirdrop(U, n)
  BY DEF StoreNextAirdrop
<1>2. Counted /\ GrantInv /\ AirdropInv
  BY DEF PurchaseInv
<1>3. /\ airdrop' \in Airdrop /\ airdrop'.pc = "notify" /\ airdrop'.users = U
      /\ U # {} /\ n \in 0..(Week(LastHalfWeek) + 1)
  BY <1>1, <1>2 DEF Counted, Airdrop
<1>4. /\ nextAirdrop' \in [Buyers -> 0..(Week(LastHalfWeek) + 1)]
      /\ setBacks' \in [Buyers -> Nat]
      /\ \A u \in Buyers : nextAirdrop'[u] = IF u \in U THEN n ELSE nextAirdrop[u]
  BY <1>1, <1>2, <1>3, SetBackIsAnExcuse
<1>5. Counted' /\ GrantInv'
  BY <1>1, <1>2, <1>3, <1>4, GrantsUndisturbed DEF Counted
<1>6. /\ PaidWithExcuse'
      /\ \A u \in Buyers, v \in Weeks : dropped[u][v] > Excuses(u)' => dropped[u][v] > Excuses(u)
      /\ \A u \in Buyers, v \in Weeks :
            dropped[u][v] > Excuses(u)' /\ nextAirdrop[u] > v => nextAirdrop'[u] > v
  BY <1>1, <1>2, <1>3, PaidStaysPaid
<1>7. PaidUsersAreSet'
  <2> SUFFICES ASSUME NEW u \in Buyers, NEW w \in Weeks, dropped[u][w] > Excuses(u)'
               PROVE  nextAirdrop'[u] > w
    BY <1>1 DEF PaidUsersAreSet
  <2>1. nextAirdrop[u] > w \/ (u \in U /\ w < n)
    BY <1>1, <1>2, <1>6 DEF AirdropInv, PaidUsersAreSet
  <2>2. CASE nextAirdrop[u] > w
    BY <1>6, <2>2
  <2>3. CASE u \in U /\ w < n
    BY <1>2, <1>4, <2>3, PaidNumbers
  <2> QED
    BY <2>1, <2>2, <2>3
<1>8. OwnersAreUnpaid' /\ PaidAfterPurchase'
  BY <1>1, <1>2, <1>3 DEF AirdropInv, OwnersAreUnpaid, PaidAfterPurchase
<1>9. DueAfterPurchase'
  <2>1. \A u \in U : BoughtBefore(purchase, u, n)
    BY <1>1, <1>2 DEF AirdropInv, DueAfterPurchase
  <2>2. \A u \in Buyers : BoughtBefore(purchase, u, nextAirdrop[u]) => BoughtBefore(purchase, u, nextAirdrop'[u])
    BY <1>4, <2>1
  <2>3. \A c \in PurchaseCalls : purchase[c].buyer \in Buyers
    BY <1>2, CallTyped
  <2> QED
    BY <1>1, <1>2, <1>3, <2>2, <2>3 DEF AirdropInv, DueAfterPurchase, Counted
<1> QED
  BY <1>5, <1>6, <1>7, <1>8, <1>9 DEF PurchaseInv, AirdropInv

LEMMA NotifyBonusesKeeps ==
    ASSUME PurchaseInv, NotifyBonuses
    PROVE  PurchaseInv'
<1>1. /\ UNCHANGED <<now, registeredUsers, registeredCache, nextAirdrop, eligible, purchasedBy, purchase,
                     dropped, stops, setBacks>>
      /\ airdrop.pc = "notify"
  BY DEF NotifyBonuses
<1>2. PICK u \in airdrop.users :
          /\ feed' = SaveNotification(feed, WeeklyID(u, airdrop.ts), 100, airdrop.ts)
          /\ airdrop' = IF airdrop.users = {u} THEN NoRun
                        ELSE [airdrop EXCEPT !.users = airdrop.users \ {u}]
  BY Zenon DEF NotifyBonuses
<1>3. Counted /\ GrantInv /\ AirdropInv
  BY DEF PurchaseInv
<1>4. /\ airdrop' \in Airdrop /\ airdrop'.pc \in {"idle", "notify"}
      /\ airdrop'.pc = "idle" <=> airdrop'.users = {}
  <2>1. NoRun \in Airdrop /\ NoRun.pc = "idle" /\ NoRun.users = {}
    BY WeeksGoUp, PurchaseAssumption DEF NoRun, Airdrop
  <2>2. CASE airdrop.users = {u}
    BY <1>2, <2>1, <2>2
  <2>3. CASE airdrop.users # {u}
    <3>1. airdrop' = [airdrop EXCEPT !.users = airdrop.users \ {u}]
      BY <1>2, <2>3
    <3>2. airdrop.users \ {u} # {} /\ airdrop.users \subseteq Buyers
      BY <1>3, <2>3 DEF Counted, Airdrop
    <3> QED
      BY <1>1, <1>3, <3>1, <3>2 DEF Counted, Airdrop
  <2> QED
    BY <2>2, <2>3
<1>5. Rowed(feed') /\ \A n \in feed : \E m \in feed' : m.id = n.id
  BY <1>2, <1>3, SaveKeepsRows DEF Counted
<1>6. Counted' /\ GrantInv'
  BY <1>1, <1>3, <1>4, <1>5, GrantsUndisturbed DEF Counted
<1>7. PaidUsersAreSet' /\ PaidWithExcuse' /\ PaidAfterPurchase' /\ OwnersAreUnpaid' /\ DueAfterPurchase'
  BY <1>1, <1>3, <1>4 DEF AirdropInv, PaidUsersAreSet, PaidWithExcuse, PaidAfterPurchase,
     OwnersAreUnpaid, DueAfterPurchase, Excuses
<1> QED
  BY <1>6, <1>7 DEF PurchaseInv, AirdropInv

(* A stop is an excuse for everyone.                                       *)
LEMMA StopAirdropKeeps ==
    ASSUME PurchaseInv, StopAirdrop
    PROVE  PurchaseInv'
<1>1. /\ UNCHANGED <<now, registeredUsers, registeredCache, nextAirdrop, eligible, purchasedBy, purchase,
                     dropped, feed, setBacks>>
      /\ airdrop' = NoRun /\ stops' = stops + 1
  BY DEF StopAirdrop
<1>2. Counted /\ GrantInv /\ AirdropInv
  BY DEF PurchaseInv
<1>3. NoRun \in Airdrop /\ NoRun.pc = "idle" /\ NoRun.users = {}
  BY WeeksGoUp, PurchaseAssumption DEF NoRun, Airdrop
<1>4. Counted' /\ GrantInv'
  BY <1>1, <1>2, <1>3, GrantsUndisturbed DEF Counted
<1>5. ASSUME NEW u \in Buyers, NEW w \in Weeks
      PROVE  dropped[u][w] <= 1 + Excuses(u)' /\ ~(dropped[u][w] > Excuses(u)')
  <2>1. dropped[u][w] <= 1 + Excuses(u)
    BY <1>2 DEF AirdropInv, PaidWithExcuse
  <2>2. Excuses(u)' = Excuses(u) + 1
    BY <1>1, <1>2 DEF Excuses, Counted
  <2>3. dropped[u][w] \in Nat /\ Excuses(u) \in Nat
    BY <1>2, PaidNumbers
  <2> QED
    BY <2>1, <2>2, <2>3
<1>6. PaidUsersAreSet' /\ PaidWithExcuse'
  BY <1>1, <1>5 DEF PaidUsersAreSet, PaidWithExcuse
<1>7. PaidAfterPurchase' /\ OwnersAreUnpaid' /\ DueAfterPurchase'
  BY <1>1, <1>2, <1>3 DEF AirdropInv, PaidAfterPurchase, OwnersAreUnpaid, DueAfterPurchase
<1> QED
  BY <1>4, <1>6, <1>7 DEF PurchaseInv, AirdropInv

(* Time goes by, and weeks only up.                                        *)
LEMMA TickKeeps ==
    ASSUME PurchaseInv, Tick
    PROVE  PurchaseInv'
<1>1. /\ UNCHANGED <<registeredUsers, registeredCache, nextAirdrop, eligible, purchasedBy, purchase,
                     airdrop, dropped, feed, stops, setBacks>>
      /\ now < LastHalfWeek /\ now' = now + 1
  BY DEF Tick
<1>2. Counted /\ GrantInv /\ AirdropInv
  BY DEF PurchaseInv
<1>3. now \in 0..LastHalfWeek /\ now' \in 0..LastHalfWeek /\ now <= now'
  BY <1>1, <1>2, PurchaseAssumption DEF Counted
<1>4. Week(now) \in Nat /\ Week(now') \in Nat /\ Week(now) <= Week(now')
  BY <1>3, WeeksGoUp
<1>5. Counted' /\ GrantInv'
  BY <1>1, <1>2, <1>3, GrantsUndisturbed DEF Counted
<1>6. PaidWithExcuse' /\ PaidAfterPurchase'
  BY <1>1, <1>2 DEF AirdropInv, PaidWithExcuse, PaidAfterPurchase, Excuses
<1>7. PaidUsersAreSet'
  <2> SUFFICES ASSUME NEW u \in Buyers, NEW w \in Weeks, dropped[u][w] > Excuses(u)
               PROVE  \/ nextAirdrop[u] > w
                      \/ airdrop.pc \in {"paid", "lookup"} /\ u \in airdrop.users /\ w <= Week(now')
                      \/ airdrop.pc = "store" /\ u \in airdrop.users /\ w < airdrop.next
    BY <1>1 DEF PaidUsersAreSet, Excuses
  <2>1. \/ nextAirdrop[u] > w
        \/ airdrop.pc \in {"paid", "lookup"} /\ u \in airdrop.users /\ w <= Week(now)
        \/ airdrop.pc = "store" /\ u \in airdrop.users /\ w < airdrop.next
    BY <1>2 DEF AirdropInv, PaidUsersAreSet
  <2>2. w \in Nat
    BY WeeksGoUp
  <2>3. w <= Week(now) => w <= Week(now')
    BY <1>4, <2>2
  <2> QED
    BY <2>1, <2>3
<1>8. OwnersAreUnpaid'
  <2> SUFFICES ASSUME airdrop.pc = "owners", NEW u \in airdrop.users, NEW w \in Weeks, w >= Week(now')
               PROVE  dropped[u][w] <= Excuses(u)
    BY <1>1 DEF OwnersAreUnpaid, Excuses
  <2>1. w \in Nat
    BY WeeksGoUp
  <2>2. w >= Week(now)
    BY <1>4, <2>1
  <2> QED
    BY <1>2, <2>2 DEF AirdropInv, OwnersAreUnpaid
<1>9. DueAfterPurchase'
  <2>1. ASSUME NEW u, BoughtBefore(purchase, u, Week(now)) PROVE BoughtBefore(purchase, u, Week(now'))
    <3>1. PICK c \in PurchaseCalls : /\ purchase[c].pc # "idle" /\ purchase[c].buyer = u
                                     /\ purchase[c].week < Week(now)
      BY <2>1 DEF BoughtBefore
    <3>2. purchase[c].week \in Nat
      BY <1>2, CallTyped
    <3>3. purchase[c].week < Week(now')
      BY <1>4, <3>1, <3>2
    <3> QED
      BY <3>1, <3>3 DEF BoughtBefore
  <2> QED
    BY <1>1, <1>2, <2>1 DEF AirdropInv, DueAfterPurchase
<1> QED
  BY <1>5, <1>6, <1>7, <1>8, <1>9 DEF PurchaseInv, AirdropInv

-----------------------------------------------------------------------------
(* Purchases and airdrops, with all that may stop halfway or cross over.   *)
THEOREM PurchaseInvariant == PurchaseSpec => []PurchaseInv
<1>1. PurchaseInit => PurchaseInv
  <2> SUFFICES ASSUME PurchaseInit PROVE PurchaseInv
    OBVIOUS
  <2>1. airdrop \in Airdrop /\ airdrop.pc = "idle" /\ airdrop.users = {}
    BY WeeksGoUp, PurchaseAssumption DEF PurchaseInit, NoRun, Airdrop
  <2>2. purchase \in [PurchaseCalls -> Purchase] /\ \A c \in PurchaseCalls : purchase[c].pc = "idle"
    BY WeeksGoUp DEF PurchaseInit, Purchase
  <2>3. Counted
    BY <2>1, <2>2, WeeksGoUp, PurchaseAssumption DEF PurchaseInit, Counted, Rowed
  <2>4. GrantInv
    BY <2>2 DEF PurchaseInit, GrantInv, GrantsInOrder, PurchasesAreHonoured, StoredMeansGranted,
       OkMeansRegistered, FreeAccountsAreAccountedFor
  <2>5. \A u \in Buyers, w \in Weeks : dropped[u][w] = 0 /\ Excuses(u) = 0
    BY DEF PurchaseInit, Excuses
  <2>6. AirdropInv
    BY <2>1, <2>2, <2>5 DEF PurchaseInit, AirdropInv, PaidUsersAreSet, OwnersAreUnpaid, PaidWithExcuse,
       DueAfterPurchase, PaidAfterPurchase
  <2> QED
    BY <2>3, <2>4, <2>6 DEF PurchaseInv
<1>2. PurchaseInv /\ [PurchaseNext]_purchaseVars => PurchaseInv'
  <2> SUFFICES ASSUME PurchaseInv, [PurchaseNext]_purchaseVars PROVE PurchaseInv'
    OBVIOUS
  <2>1. CASE UNCHANGED purchaseVars
    <3>1. Counted /\ GrantInv /\ AirdropInv
      BY DEF PurchaseInv
    <3>2. Counted' /\ GrantInv'
      BY <2>1, <3>1, GrantsUndisturbed DEF Counted, purchaseVars
    <3>3. AirdropInv'
      BY <2>1, <3>1, AirdropsUndisturbed DEF AirdropInv, DueAfterPurchase, purchaseVars
    <3> QED
      BY <3>2, <3>3 DEF PurchaseInv
  <2> QED
    BY <2>1, CheckReceiptKeeps, SetNextAirdropKeeps, SetRegistrationFlagKeeps, NotifyWelcomeKeeps,
       CreatePurchaseKeeps, DieKeeps, CacheRegisteredKeeps, ExtendAirdropEligibilityKeeps,
       GetOwnersToAirdropNowKeeps, TransferKeeps, OnSuccessKeeps, LookUpOwnersKeeps,
       StoreNextAirdropKeeps, NotifyBonusesKeeps, StopAirdropKeeps, TickKeeps DEF PurchaseNext
<1> QED
  BY <1>1, <1>2, PTL DEF PurchaseSpec

(* Every variable keeps its type, and no user has two welcome rows.        *)
THEOREM PurchasesTyped == PurchaseSpec => []PurchaseTypeOK
<1>1. PurchaseInv => PurchaseTypeOK
  <2> SUFFICES ASSUME PurchaseInv PROVE PurchaseTypeOK
    OBVIOUS
  <2>1. ASSUME NEW u \in Buyers PROVE Cardinality({n \in feed : n.id = WelcomeID(u)}) <= 1
    <3> DEFINE rows == {n \in feed : n.id = WelcomeID(u)}
    <3>1. CASE rows = {}
      BY <3>1, FS_EmptySet
    <3>2. CASE rows # {}
      <4>1. PICK n : n \in rows
        BY <3>2
      <4>2. rows = {n}
        BY <4>1 DEF PurchaseInv, Counted, Rowed
      <4>3. Cardinality({n}) = 1
        BY FS_Singleton
      <4>4. Cardinality(rows) = 1
        BY <4>2, <4>3, Zenon
      <4> QED
        BY <4>4
    <3> QED
      BY <3>1, <3>2
  <2> QED
    BY <2>1 DEF PurchaseInv, Counted, PurchaseTypeOK
<1> QED
  BY <1>1, PurchaseInvariant, PTL

(* A stored purchase was granted in full, whoever was told OK is           *)
(* registered, and every account without a purchase has its reason         *)
(* (iap/server.go OnPurchaseCompleted).                                    *)
THEOREM PurchasesAlwaysHonoured == PurchaseSpec => []PurchasesAreHonoured
<1>1. PurchaseInv => PurchasesAreHonoured
  BY DEF PurchaseInv, GrantInv
<1> QED
  BY <1>1, PurchaseInvariant, PTL

(* One airdrop a week but for the stops and set backs, none in the week of *)
(* the purchase (airdrop/integration.go).                                  *)
THEOREM AirdropsAlwaysWeekly == PurchaseSpec => []AirdropsAreWeekly
<1>1. PurchaseInv => AirdropsAreWeekly
  <2> SUFFICES ASSUME PurchaseInv, NEW u \in Buyers, NEW w \in Weeks
               PROVE  /\ dropped[u][w] <= 1 + stops + setBacks[u]
                      /\ dropped[u][w] > 0 => BoughtBefore(purchase, u, w)
    BY DEF AirdropsAreWeekly, BoughtBefore
  <2>1. dropped[u][w] <= 1 + Excuses(u)
    BY DEF PurchaseInv, AirdropInv, PaidWithExcuse
  <2>2. 1 + Excuses(u) = 1 + stops + setBacks[u]
    BY DEF PurchaseInv, Counted, Excuses
  <2> QED
    BY <2>1, <2>2 DEF PurchaseInv, AirdropInv, PaidAfterPurchase
<1> QED
  BY <1>1, PurchaseInvariant, PTL

-----------------------------------------------------------------------------
(***************************************************************************)
(* TipFeed, for any payers, authors, amounts and number of goroutines: the *)
(* rows of the feed add up to what was paid. A sum is the size of a union  *)
(* of disjoint sets, so that no induction is needed.                       *)
(***************************************************************************)

-----------------------------------------------------------------------------
(* One stack of units for every x; the sum counts the units.               *)
Units(f) == UNION {{x} \X (1..f[x]) : x \in DOMAIN f}

LEMMA StackSize ==
    ASSUME NEW x, NEW k \in Nat
    PROVE  IsFiniteSet({x} \X (1..k)) /\ Cardinality({x} \X (1..k)) = k
<1>1. IsFiniteSet({x}) /\ Cardinality({x}) = 1
  BY FS_Singleton
<1>2. IsFiniteSet(1..k) /\ Cardinality(1..k) = k
  BY FS_Interval
<1>3. /\ IsFiniteSet({x} \X (1..k))
      /\ Cardinality({x} \X (1..k)) = Cardinality({x}) * Cardinality(1..k)
  BY <1>1, <1>2, FS_Product
<1> QED
  BY <1>1, <1>2, <1>3

LEMMA UnitsFinite ==
    ASSUME NEW S, IsFiniteSet(S), NEW f \in [S -> Nat]
    PROVE  IsFiniteSet(Units(f)) /\ SumOf(f) = Cardinality(Units(f)) /\ SumOf(f) \in Nat
<1> DEFINE stack == [x \in S |-> {x} \X (1..f[x])]
           stacks == {{x} \X (1..f[x]) : x \in S}
<1>1. stack \in Surjection(S, stacks)
  BY DEF Surjection
<1>2. IsFiniteSet(stacks)
  BY <1>1, FS_Surjection
<1>3. \A T \in stacks : IsFiniteSet(T)
  <2>1. \A x \in S : IsFiniteSet({x} \X (1..f[x]))
    BY StackSize
  <2> QED
    BY <2>1
<1>4. IsFiniteSet(UNION stacks)
  BY <1>2, <1>3, FS_UNION
<1>5. Units(f) = UNION stacks
  BY DEF Units
<1>6. SumOf(f) = Cardinality(Units(f))
  BY DEF SumOf, Units
<1>7. IsFiniteSet(Units(f))
  BY <1>4, <1>5, Zenon
<1> QED
  BY <1>6, <1>7, FS_CardinalityType

LEMMA SumOfNothing ==
    ASSUME NEW f, DOMAIN f = {}
    PROVE  SumOf(f) = 0
<1>1. UNION {{x} \X (1..f[x]) : x \in DOMAIN f} = {}
  OBVIOUS
<1>2. Cardinality({}) = 0
  BY FS_EmptySet
<1> QED
  BY <1>1, <1>2, Zenon DEF SumOf

(* A sum is that without one of its terms, and the term.                   *)
LEMMA SumSplits ==
    ASSUME NEW S, IsFiniteSet(S), NEW f \in [S -> Nat], NEW x \in S
    PROVE  SumOf(f) = SumOf([y \in S \ {x} |-> f[y]]) + f[x]
<1> DEFINE g == [y \in S \ {x} |-> f[y]]
           U == Units(g)
           V == {x} \X (1..f[x])
<1>1. IsFiniteSet(S \ {x}) /\ g \in [S \ {x} -> Nat]
  BY FS_RemoveElement
<1>2. IsFiniteSet(U) /\ SumOf(g) = Cardinality(U) /\ SumOf(g) \in Nat
  BY <1>1, UnitsFinite
<1>3. IsFiniteSet(V) /\ Cardinality(V) = f[x]
  BY StackSize
<1>4. Units(f) = U \union V
  BY DEF Units
<1>5. U \intersect V = {}
  BY DEF Units
<1>6. SumOf(f) = Cardinality(Units(f))
  BY UnitsFinite
<1> HIDE DEF U, V
<1>7. Cardinality(U \union V) = Cardinality(U) + Cardinality(V) - Cardinality(U \intersect V)
  BY <1>2, <1>3, FS_Union
<1>8. Cardinality(U \intersect V) = 0
  BY <1>5, FS_EmptySet, Zenon
<1>9. Cardinality(Units(f)) = Cardinality(U \union V)
  BY <1>4, Zenon
<1> QED
  BY <1>2, <1>3, <1>6, <1>7, <1>8, <1>9

(* Another term, or a term that is larger.                                 *)
LEMMA SumGetsATerm ==
    ASSUME NEW S, IsFiniteSet(S), NEW f \in [S -> Nat],
           NEW T, NEW g \in [T -> Nat], NEW x \in T, T \ {x} = S,
           \A y \in S : g[y] = f[y]
    PROVE  SumOf(g) = SumOf(f) + g[x]
<1>1. T = S \union {x}
  OBVIOUS
<1>2. IsFiniteSet(S \union {x})
  BY FS_AddElement
<1>3. IsFiniteSet(T)
  BY <1>1, <1>2, Zenon
<1>4. SumOf(g) = SumOf([y \in T \ {x} |-> g[y]]) + g[x]
  BY <1>3, SumSplits
<1>5. [y \in T \ {x} |-> g[y]] = f
  OBVIOUS
<1> QED
  BY <1>4, <1>5, Zenon

LEMMA SumGrowsByATerm ==
    ASSUME NEW S, IsFiniteSet(S), NEW f \in [S -> Nat], NEW x \in S,
           NEW T, NEW g \in [T -> Nat], NEW z \in T, T \ {z} = S \ {x},
           \A y \in S \ {x} : g[y] = f[y],
           NEW a \in Nat, g[z] = f[x] + a
    PROVE  SumOf(g) = SumOf(f) + a
<1> DEFINE R == S \ {x}
           h == [y \in R |-> f[y]]
<1>1. IsFiniteSet(R) /\ h \in [R -> Nat]
  BY FS_RemoveElement
<1>2. T \ {z} = R /\ S \ {x} = R /\ (\A y \in R : g[y] = h[y]) /\ \A y \in R : f[y] = h[y]
  OBVIOUS
<1> HIDE DEF R, h
<1>3. SumOf(g) = SumOf(h) + g[z]
  BY <1>1, <1>2, SumGetsATerm
<1>4. SumOf(f) = SumOf(h) + f[x]
  BY <1>1, <1>2, SumGetsATerm
<1>5. SumOf(h) \in Nat
  BY <1>1, UnitsFinite
<1>6. f[x] \in Nat
  OBVIOUS
<1> QED
  BY <1>3, <1>4, <1>5, <1>6

-----------------------------------------------------------------------------
(* What the rows with an id of K count.                                    *)
Counts(F, K) == SumOf([n \in {r \in F : r.id \in K} |-> n.count])

LEMMA SavedOnceMore ==
    ASSUME NEW F, Rowed(F), IsFiniteSet(F), \A n \in F : n.count \in Nat,
           NEW id, UpdatesCount(id), NEW a \in Nat, NEW ts, NEW K, id \in K
    PROVE  Counts(SaveNotification(F, id, a, ts), K) = Counts(F, K) + a
<1> DEFINE G == SaveNotification(F, id, a, ts)
           S == {r \in F : r.id \in K}
           T == {r \in G : r.id \in K}
           f == [n \in S |-> n.count]
           g == [n \in T |-> n.count]
<1>1. IsFiniteSet(S) /\ f \in [S -> Nat]
  BY FS_Subset
<1>2. CASE \A n \in F : n.id # id
  <2> DEFINE row == [id |-> id, count |-> a, ts |-> ts]
  <2>1. G = F \union {row}
    BY <1>2 DEF SaveNotification
  <2>2. row.id = id /\ row.count = a
    OBVIOUS
  <2> HIDE DEF row, G
  <2>3. row \in T /\ T \ {row} = S
    BY <1>2, <2>1, <2>2
  <2>4. g \in [T -> Nat] /\ g[row] = a /\ \A y \in S : g[y] = f[y]
    BY <2>1, <2>2, <2>3
  <2> HIDE DEF S, T, f, g
  <2>5. SumOf(g) = SumOf(f) + a
    BY <1>1, <2>3, <2>4, SumGetsATerm
  <2> QED
    BY <2>5 DEF Counts, f, g, S, T, G
<1>3. CASE \E n \in F : n.id = id
  <2>1. PICK old \in F : old.id = id
    BY <1>3
  <2> DEFINE row == [old EXCEPT !.count = old.count + a]
             grown(n) == IF n.id = id THEN [n EXCEPT !.count = n.count + a] ELSE n
  <2>2. G = {grown(n) : n \in F}
    BY <2>1 DEF SaveNotification
  <2>3. row.id = id /\ row.count = old.count + a
    BY <2>1 DEF Rowed
  <2>4. \A n \in F : grown(n) = IF n = old THEN row ELSE n
    BY <2>1 DEF Rowed
  <2>5. G = (F \ {old}) \union {row}
    <3> HIDE DEF grown, row, G
    <3> QED
      BY <2>1, <2>2, <2>4
  <2> HIDE DEF row, G
  <2>6. old \in S /\ row \in T /\ T \ {row} = S \ {old}
    BY <2>1, <2>3, <2>5 DEF Rowed
  <2>7. g \in [T -> Nat] /\ g[row] = f[old] + a /\ \A y \in S \ {old} : g[y] = f[y]
    BY <2>1, <2>3, <2>5, <2>6
  <2> HIDE DEF S, T, f, g
  <2>8. SumOf(g) = SumOf(f) + a
    BY <1>1, <2>6, <2>7, SumGrowsByATerm
  <2> QED
    BY <2>8 DEF Counts, f, g, S, T, G
<1> QED
  BY <1>2, <1>3

LEMMA SavedElsewhere ==
    ASSUME NEW F, Rowed(F), NEW id, NEW a, NEW ts, NEW K, id \notin K
    PROVE  Counts(SaveNotification(F, id, a, ts), K) = Counts(F, K)
<1> DEFINE G == SaveNotification(F, id, a, ts)
           grown(n) == IF n.id = id THEN [n EXCEPT !.count = n.count + a] ELSE n
<1>1. {r \in G : r.id \in K} = {r \in F : r.id \in K}
  <2>1. CASE \A n \in F : n.id # id
    <3> DEFINE row == [id |-> id, count |-> a, ts |-> ts]
    <3>1. G = F \union {row} /\ row.id = id
      BY <2>1 DEF SaveNotification
    <3> HIDE DEF G, row
    <3> QED
      BY <3>1
  <2>2. CASE (\E n \in F : n.id = id) /\ UpdatesCount(id)
    <3>1. G = {grown(n) : n \in F}
      BY <2>2 DEF SaveNotification
    <3>2. \A n \in F : grown(n).id = n.id /\ (n.id # id => grown(n) = n)
      BY DEF Rowed
    <3> HIDE DEF G, grown
    <3> QED
      BY <3>1, <3>2
  <2>3. CASE (\E n \in F : n.id = id) /\ ~UpdatesCount(id)
    BY <2>3 DEF SaveNotification
  <2> QED
    BY <2>1, <2>2, <2>3
<1> HIDE DEF G
<1>2. Counts(G, K) = Counts(F, K)
  BY <1>1, Zenon DEF Counts
<1> QED
  BY <1>2 DEF G

(* Rows are saved one at a time, with counts.                              *)
LEMMA SavedIsCounted ==
    ASSUME NEW F, Rowed(F), IsFiniteSet(F), \A n \in F : n.count \in Nat,
           NEW id, NEW a \in Nat, NEW ts
    PROVE  /\ IsFiniteSet(SaveNotification(F, id, a, ts))
           /\ \A n \in SaveNotification(F, id, a, ts) : n.count \in Nat
<1> DEFINE G == SaveNotification(F, id, a, ts)
           grown(n) == IF n.id = id THEN [n EXCEPT !.count = n.count + a] ELSE n
<1>1. CASE \A n \in F : n.id # id
  <2> DEFINE row == [id |-> id, count |-> a, ts |-> ts]
  <2>1. G = F \union {row} /\ row.count = a
    BY <1>1 DEF SaveNotification
  <2> HIDE DEF G, row
  <2>2. IsFiniteSet(G) /\ \A n \in G : n.count \in Nat
    BY <2>1, FS_AddElement
  <2> QED
    BY <2>2 DEF G
<1>2. CASE (\E n \in F : n.id = id) /\ UpdatesCount(id)
  <2>1. G = {grown(n) : n \in F}
    BY <1>2 DEF SaveNotification
  <2>2. \A n \in F : grown(n).count \in Nat
    BY DEF Rowed
  <2> DEFINE h == [n \in F |-> grown(n)]
  <2> HIDE DEF grown
  <2>3. h \in Surjection(F, {grown(n) : n \in F})
    BY DEF Surjection
  <2>4. IsFiniteSet({grown(n) : n \in F})
    BY <2>3, FS_Surjection
  <2> HIDE DEF G
  <2>5. IsFiniteSet(G) /\ \A n \in G : n.count \in Nat
    BY <2>1, <2>2, <2>4
  <2> QED
    BY <2>5 DEF G
<1>3. CASE (\E n \in F : n.id = id) /\ ~UpdatesCount(id)
  BY <1>3 DEF SaveNotification
<1> QED
  BY <1>1, <1>2, <1>3

-----------------------------------------------------------------------------
(* The feed of the payments: every goroutine notes one payment, so time,   *)
(* the number of payments, does not pass that of the goroutines.           *)

Unpaid == {g \in Notes : note[g].pc = "idle"}

(* A tip is of another message than the one it is sent with; a listener's  *)
(* message is noted as itself.                                             *)
NotesAreTips ==
    \A g \in Notes : /\ note[g].pc = "listener" => note[g].about = g
                     /\ note[g].pc \in {"tip", "received"} => note[g].about # g

(* The ids of the rows that tell of tips of m, and of those of a user.     *)
IdsOf(X, type, m) == {x.id : x \in {r \in X : r.id.type = type /\ r.id.seed = m}}
RowsOf(F, u) == {n \in F : n.id.user = u}

FeedCounts == IsFiniteSet(tipFeed) /\ \A n \in tipFeed : n.count \in Nat

SentAddsUp ==
    \A m \in Tipped : Total(tipFeed, "sendTip", m) = Paid(m, {"received", "done", "halfLost"})

ReceivedAddsUp ==
    \A m \in Tipped :
        Total(RowsOf(tipFeed, Author[m]), "receivedTip", m) = Paid(m, {"done"})

TipInv ==
    /\ note \in [Notes -> Note]
    /\ time \in Nat
    /\ time + Cardinality(Unpaid) <= Cardinality(Notes)
    /\ Rowed(tipFeed)
    /\ NotesAreTips
    /\ FeedCounts
    /\ SentAddsUp
    /\ ReceivedAddsUp

LEMMA UnpaidAreCounted ==
    /\ IsFiniteSet(Unpaid) /\ Cardinality(Unpaid) \in Nat /\ Cardinality(Notes) \in Nat
    /\ Unpaid \subseteq Notes
<1>1. Unpaid \subseteq Notes
  BY DEF Unpaid
<1>2. IsFiniteSet(Unpaid)
  BY <1>1, TipAssumption, FS_Subset
<1> QED
  BY <1>1, <1>2, TipAssumption, FS_CardinalityType

(* What the notes with one of pcs paid for m.                              *)
PaidFor(m, pcs) == {h \in Notes : note[h].about = m /\ h # m /\ note[h].pc \in pcs}

LEMMA PaidSums ==
    ASSUME TipInv, NEW m, NEW pcs
    PROVE  /\ IsFiniteSet(PaidFor(m, pcs))
           /\ [g \in PaidFor(m, pcs) |-> note[g].amount] \in [PaidFor(m, pcs) -> Nat]
           /\ Paid(m, pcs) = SumOf([g \in PaidFor(m, pcs) |-> note[g].amount])
<1>1. PaidFor(m, pcs) \subseteq Notes
  BY DEF PaidFor
<1>2. \A g \in Notes : note[g].amount \in Nat
  BY TipAssumption DEF TipInv, Note
<1> QED
  BY <1>1, <1>2, TipAssumption, FS_Subset DEF PaidFor, Paid

LEMMA PaidStays ==
    ASSUME NEW m, NEW pcs, PaidFor(m, pcs)' = PaidFor(m, pcs),
           \A h \in PaidFor(m, pcs) : note'[h].amount = note[h].amount
    PROVE  Paid(m, pcs)' = Paid(m, pcs)
<1> DEFINE P == PaidFor(m, pcs)
           Q == PaidFor(m, pcs)'
<1>1. Paid(m, pcs) = SumOf([g \in P |-> note[g].amount])
  BY Zenon DEF Paid, PaidFor
<1>2. Paid(m, pcs)' = SumOf([g \in Q |-> note'[g].amount])
  BY Zenon DEF Paid, PaidFor
<1>3. Q = P /\ \A h \in P : note'[h].amount = note[h].amount
  OBVIOUS
<1> HIDE DEF P, Q
<1>4. [g \in P |-> note[g].amount] = [g \in Q |-> note'[g].amount]
  BY <1>3
<1> QED
  BY <1>1, <1>2, <1>4, Zenon

LEMMA PaidJoins ==
    ASSUME TipInv, NEW m, NEW pcs, NEW g \in Notes, g \notin PaidFor(m, pcs),
           PaidFor(m, pcs)' = PaidFor(m, pcs) \union {g},
           \A h \in Notes : note'[h].amount = note[h].amount
    PROVE  Paid(m, pcs)' = Paid(m, pcs) + note[g].amount
<1> DEFINE P == PaidFor(m, pcs)
           Q == PaidFor(m, pcs)'
           e == [h \in P |-> note[h].amount]
           f == [h \in Q |-> note'[h].amount]
<1>1. IsFiniteSet(P) /\ e \in [P -> Nat] /\ Paid(m, pcs) = SumOf(e)
  BY PaidSums
<1>2. Paid(m, pcs)' = SumOf(f)
  BY Zenon DEF Paid, PaidFor
<1>3. g \in Q /\ Q \ {g} = P /\ P \subseteq Notes /\ Q \subseteq Notes
  BY DEF PaidFor
<1>4. \A h \in Notes : note'[h].amount = note[h].amount /\ note[h].amount \in Nat
  BY TipAssumption DEF TipInv, Note
<1> HIDE DEF P, Q
<1>5. f \in [Q -> Nat] /\ (\A h \in P : f[h] = e[h]) /\ f[g] = note[g].amount
  BY <1>3, <1>4
<1> HIDE DEF e, f
<1>6. SumOf(f) = SumOf(e) + f[g]
  BY <1>1, <1>3, <1>5, SumGetsATerm
<1> QED
  BY <1>1, <1>2, <1>5, <1>6, Zenon

LEMMA TotalIsCounts ==
    ASSUME NEW F, NEW X, F \subseteq X, NEW type, NEW m
    PROVE  Total(F, type, m) = Counts(F, IdsOf(X, type, m))
<1> DEFINE K == IdsOf(X, type, m)
<1>1. {r \in F : r.id.type = type /\ r.id.seed = m} = {r \in F : r.id \in K}
  BY DEF IdsOf
<1> HIDE DEF K
<1>2. Total(F, type, m) = Counts(F, K)
  BY <1>1, Zenon DEF Total, Counts
<1> QED
  BY <1>2 DEF K

LEMMA UserTotalIsCounts ==
    ASSUME NEW F, NEW X, F \subseteq X, NEW type, NEW m, NEW u
    PROVE  Total(RowsOf(F, u), type, m) = Counts(F, IdsOf(RowsOf(X, u), type, m))
<1> DEFINE K == IdsOf(RowsOf(X, u), type, m)
<1>1. {r \in RowsOf(F, u) : r.id.type = type /\ r.id.seed = m} = {r \in F : r.id \in K}
  BY DEF IdsOf, RowsOf
<1> HIDE DEF K
<1>2. Total(RowsOf(F, u), type, m) = Counts(F, K)
  BY <1>1, Zenon DEF Total, Counts
<1> QED
  BY <1>2 DEF K

(* The sets of goroutines that make up the two sums.                       *)
Sent == {"received", "done", "halfLost"}

LEMMA PayKeeps ==
    ASSUME TipInv, NEW g \in Notes, NEW u \in Payers, NEW about \in Tipped \union {g},
           NEW a \in Amounts, Pay(g, u, about, a)
    PROVE  TipInv'
<1> DEFINE n == [pc |-> IF about = g THEN "listener" ELSE "tip", user |-> u,
                 about |-> about, amount |-> a, ts |-> time + 1]
<1>1. /\ note[g].pc = "idle" /\ time' = time + 1 /\ tipFeed' = tipFeed
      /\ note' = [note EXCEPT ![g] = n]
  BY DEF Pay
<1>2. g \in Unpaid
  BY <1>1 DEF Unpaid
<1>3. Unpaid' = Unpaid \ {g}
  BY <1>1 DEF TipInv, Unpaid
<1>4. Cardinality(Unpaid \ {g}) = Cardinality(Unpaid) - 1
  BY <1>2, UnpaidAreCounted, FS_RemoveElement
<1>5. Cardinality(Unpaid') = Cardinality(Unpaid \ {g})
  BY <1>3, Zenon
<1>6. Cardinality(Unpaid \ {g}) \in Nat
  <2>1. IsFiniteSet(Unpaid \ {g})
    BY UnpaidAreCounted, FS_RemoveElement
  <2> QED
    BY <2>1, FS_CardinalityType, Zenon
<1>7. time' + Cardinality(Unpaid') <= Cardinality(Notes)
  BY <1>1, <1>4, <1>5, UnpaidAreCounted DEF TipInv
<1>8. time' \in 0..Cardinality(Notes)
  BY <1>1, <1>4, <1>6, UnpaidAreCounted DEF TipInv
<1>9. /\ n \in Note /\ n.about = about
      /\ n.pc = IF about = g THEN "listener" ELSE "tip"
  BY <1>1, <1>8 DEF Note
<1> HIDE DEF n
<1>10. note' \in [Notes -> Note] /\ \A h \in Notes : note'[h] = IF h = g THEN n ELSE note[h]
  BY <1>1, <1>9 DEF TipInv
<1>11. NotesAreTips'
  BY <1>9, <1>10 DEF TipInv, NotesAreTips
<1>12. ASSUME NEW m, NEW pcs \in SUBSET Sent PROVE Paid(m, pcs)' = Paid(m, pcs)
  <2>1. PaidFor(m, pcs)' = PaidFor(m, pcs)
    BY <1>1, <1>9, <1>10 DEF PaidFor, Sent
  <2>2. \A h \in PaidFor(m, pcs) : note'[h].amount = note[h].amount
    BY <1>1, <1>10 DEF PaidFor, Sent
  <2> QED
    BY <2>1, <2>2, PaidStays
<1>13. SentAddsUp' /\ ReceivedAddsUp'
  BY <1>1, <1>12 DEF TipInv, SentAddsUp, ReceivedAddsUp, Sent
<1>14. Rowed(tipFeed') /\ FeedCounts'
  BY <1>1 DEF TipInv, FeedCounts
<1> QED
  BY <1>1, <1>7, <1>10, <1>11, <1>13, <1>14 DEF TipInv

(* A goroutine goes on from one step to the next.                          *)
NoteIsAt(g, pc) == note' = [note EXCEPT ![g].pc = pc] /\ time' = time

LEMMA NoteGoesOn ==
    ASSUME TipInv, NEW g \in Notes,
           NEW pc \in {"received", "done", "lost", "halfLost"},
           note[g].pc # "idle", pc = "received" => note[g].pc = "tip",
           NoteIsAt(g, pc)
    PROVE  /\ note' \in [Notes -> Note]
           /\ time' \in Nat
           /\ time' + Cardinality(Unpaid)' <= Cardinality(Notes)
           /\ NotesAreTips'
           /\ \A h \in Notes : /\ note'[h].pc = IF h = g THEN pc ELSE note[h].pc
                               /\ note'[h].about = note[h].about
                               /\ note'[h].amount = note[h].amount
           /\ \A m, pcs : (pc \in pcs <=> note[g].pc \in pcs) \/ note[g].about # m \/ g = m
                  => Paid(m, pcs)' = Paid(m, pcs)
           /\ \A m, pcs : pc \in pcs /\ note[g].pc \notin pcs /\ note[g].about = m /\ g # m
                  => Paid(m, pcs)' = Paid(m, pcs) + note[g].amount
<1>1. note' \in [Notes -> Note]
  BY DEF TipInv, Note, NoteIsAt
<1>2. \A h \in Notes : /\ note'[h].pc = IF h = g THEN pc ELSE note[h].pc
                       /\ note'[h].about = note[h].about
                       /\ note'[h].amount = note[h].amount
  BY DEF TipInv, Note, NoteIsAt
<1>3. Unpaid' = Unpaid
  BY <1>2 DEF Unpaid
<1>4. Cardinality(Unpaid)' = Cardinality(Unpaid)
  BY <1>3, Zenon
<1>5. NotesAreTips'
  BY <1>2 DEF TipInv, NotesAreTips
<1>6. ASSUME NEW m, NEW pcs, (pc \in pcs <=> note[g].pc \in pcs) \/ note[g].about # m \/ g = m
      PROVE  Paid(m, pcs)' = Paid(m, pcs)
  <2>1. PaidFor(m, pcs)' = PaidFor(m, pcs)
    BY <1>2, <1>6 DEF PaidFor
  <2>2. \A h \in PaidFor(m, pcs) : note'[h].amount = note[h].amount
    BY <1>2 DEF PaidFor
  <2> QED
    BY <2>1, <2>2, PaidStays
<1>7. ASSUME NEW m, NEW pcs, pc \in pcs, note[g].pc \notin pcs, note[g].about = m, g # m
      PROVE  Paid(m, pcs)' = Paid(m, pcs) + note[g].amount
  <2>1. PaidFor(m, pcs)' = PaidFor(m, pcs) \union {g} /\ g \notin PaidFor(m, pcs)
    BY <1>2, <1>7 DEF PaidFor
  <2> QED
    BY <1>2, <2>1, PaidJoins
<1> QED
  <2>1. time' = time
    BY DEF NoteIsAt
  <2> QED
    BY <1>1, <1>2, <1>4, <1>5, <1>6, <1>7, <2>1 DEF TipInv

(* What saving a row of a type, for a user, adds to the totals of the      *)
(* tips of m.                                                              *)
LEMMA TotalsAfterSave ==
    ASSUME TipInv, NEW type, NEW user, NEW about, NEW a \in Nat, NEW ts,
           tipFeed' = SaveNotification(tipFeed, NotificationID(type, user, about), a, ts),
           NEW m, NEW t \in {"sendTip", "receivedTip"}
    PROVE  /\ Total(tipFeed', t, m)
                = IF type = t /\ about = m THEN Total(tipFeed, t, m) + a ELSE Total(tipFeed, t, m)
           /\ \A u : Total(RowsOf(tipFeed', u), t, m)
                = IF type = t /\ about = m /\ user = u THEN Total(RowsOf(tipFeed, u), t, m) + a
                                                      ELSE Total(RowsOf(tipFeed, u), t, m)
<1> DEFINE id == NotificationID(type, user, about)
           X == tipFeed \union tipFeed'
<1>1. id.type = type /\ id.user = user /\ id.seed = about
  BY DEF NotificationID
<1>2. \E n \in X : n.id = id
  BY SaveKeepsRows DEF TipInv
<1>3. tipFeed \subseteq X /\ tipFeed' \subseteq X
  OBVIOUS
<1>4. type = t => UpdatesCount(id)
  BY <1>1 DEF UpdatesCount
<1> HIDE DEF id, X
<1>5. ASSUME NEW S, id \in S, type = t PROVE Counts(tipFeed', S) = Counts(tipFeed, S) + a
  BY <1>4, <1>5, SavedOnceMore DEF TipInv, FeedCounts, id
<1>6. ASSUME NEW S, id \notin S PROVE Counts(tipFeed', S) = Counts(tipFeed, S)
  BY <1>6, SavedElsewhere DEF TipInv, id
<1>7. Total(tipFeed', t, m)
          = IF type = t /\ about = m THEN Total(tipFeed, t, m) + a ELSE Total(tipFeed, t, m)
  <2> DEFINE K == IdsOf(X, t, m)
  <2>1. id \in K <=> type = t /\ about = m
    BY <1>1, <1>2 DEF IdsOf
  <2> HIDE DEF K
  <2>2. Total(tipFeed, t, m) = Counts(tipFeed, K) /\ Total(tipFeed', t, m) = Counts(tipFeed', K)
    BY <1>3, TotalIsCounts DEF K
  <2> QED
    BY <1>5, <1>6, <2>1, <2>2, Zenon
<1>8. ASSUME NEW u
      PROVE  Total(RowsOf(tipFeed', u), t, m)
                = IF type = t /\ about = m /\ user = u THEN Total(RowsOf(tipFeed, u), t, m) + a
                                                      ELSE Total(RowsOf(tipFeed, u), t, m)
  <2> DEFINE K == IdsOf(RowsOf(X, u), t, m)
  <2>1. id \in K <=> type = t /\ about = m /\ user = u
    BY <1>1, <1>2 DEF IdsOf, RowsOf
  <2> HIDE DEF K
  <2>2. /\ Total(RowsOf(tipFeed, u), t, m) = Counts(tipFeed, K)
        /\ Total(RowsOf(tipFeed', u), t, m) = Counts(tipFeed', K)
    BY <1>3, UserTotalIsCounts DEF K
  <2> QED
    BY <1>5, <1>6, <2>1, <2>2, Zenon
<1> QED
  BY <1>7, <1>8

(* One of the rows of a payment is saved, by a goroutine that goes on.     *)
LEMMA SaveKeeps ==
    ASSUME TipInv, NEW g \in Notes,
           NEW type \in {"listener", "sendTip", "receivedTip"}, NEW user,
           NEW pc \in {"received", "done"}, Save(g, type, user, pc),
           \/ type = "listener" /\ note[g].pc = "listener" /\ pc = "done"
           \/ type = "sendTip" /\ note[g].pc = "tip" /\ pc = "received"
           \/ /\ type = "receivedTip" /\ note[g].pc = "received" /\ pc = "done"
              /\ user = Author[note[g].about]
    PROVE  TipInv'
<1> DEFINE a == note[g].amount
           about == note[g].about
<1>1. /\ tipFeed' = SaveNotification(tipFeed, NotificationID(type, user, about), a, note[g].ts)
      /\ note' = [note EXCEPT ![g].pc = pc] /\ time' = time
  BY DEF Save
<1>2. a \in Nat
  BY TipAssumption DEF TipInv, Note
<1>3. about = g <=> type = "listener"
  BY DEF TipInv, NotesAreTips
<1> HIDE DEF a, about
<1>4. Rowed(tipFeed') /\ IsFiniteSet(tipFeed') /\ \A n \in tipFeed' : n.count \in Nat
  BY <1>1, <1>2, SaveKeepsRows, SavedIsCounted DEF TipInv, FeedCounts
<1>5. /\ pc \in {"received", "done", "lost", "halfLost"} /\ note[g].pc # "idle"
      /\ pc = "received" => note[g].pc = "tip"
  OBVIOUS
<1>6. /\ note' \in [Notes -> Note] /\ time' \in Nat /\ NotesAreTips'
      /\ time' + Cardinality(Unpaid)' <= Cardinality(Notes)
      /\ \A m, pcs : (pc \in pcs <=> note[g].pc \in pcs) \/ note[g].about # m \/ g = m
             => Paid(m, pcs)' = Paid(m, pcs)
      /\ \A m, pcs : pc \in pcs /\ note[g].pc \notin pcs /\ note[g].about = m /\ g # m
             => Paid(m, pcs)' = Paid(m, pcs) + note[g].amount
  <2>1. NoteIsAt(g, pc)
    BY <1>1 DEF NoteIsAt
  <2> QED
    BY <1>5, <2>1, NoteGoesOn
<1>7. ASSUME NEW m \in Tipped
      PROVE  Total(tipFeed', "sendTip", m) = Paid(m, {"received", "done", "halfLost"})'
  <2>1. Total(tipFeed, "sendTip", m) = Paid(m, {"received", "done", "halfLost"})
    BY <1>7 DEF TipInv, SentAddsUp
  <2>2. Total(tipFeed', "sendTip", m)
          = IF type = "sendTip" /\ about = m THEN Total(tipFeed, "sendTip", m) + a
                                             ELSE Total(tipFeed, "sendTip", m)
    BY <1>1, <1>2, TotalsAfterSave
  <2>3. Paid(m, {"received", "done", "halfLost"})'
          = IF type = "sendTip" /\ about = m
              THEN Paid(m, {"received", "done", "halfLost"}) + a
              ELSE Paid(m, {"received", "done", "halfLost"})
    <3>1. CASE type = "sendTip" /\ about = m
      BY <1>3, <1>6, <3>1 DEF a, about
    <3>2. CASE ~(type = "sendTip" /\ about = m)
      BY <1>3, <1>6, <3>2 DEF about
    <3> QED
      BY <3>1, <3>2
  <2> QED
    BY <2>1, <2>2, <2>3
<1>8. ASSUME NEW m \in Tipped
      PROVE  Total(RowsOf(tipFeed', Author[m]), "receivedTip", m) = Paid(m, {"done"})'
  <2>1. Total(RowsOf(tipFeed, Author[m]), "receivedTip", m) = Paid(m, {"done"})
    BY <1>8 DEF TipInv, ReceivedAddsUp
  <2>2. Total(RowsOf(tipFeed', Author[m]), "receivedTip", m)
          = IF type = "receivedTip" /\ about = m /\ user = Author[m]
              THEN Total(RowsOf(tipFeed, Author[m]), "receivedTip", m) + a
              ELSE Total(RowsOf(tipFeed, Author[m]), "receivedTip", m)
    BY <1>1, <1>2, TotalsAfterSave
  <2>3. type = "receivedTip" => user = Author[about]
    BY DEF about
  <2>4. Paid(m, {"done"})' = IF type = "receivedTip" /\ about = m
                               THEN Paid(m, {"done"}) + a ELSE Paid(m, {"done"})
    <3>1. CASE type = "receivedTip" /\ about = m
      BY <1>3, <1>6, <3>1 DEF a, about
    <3>2. CASE ~(type = "receivedTip" /\ about = m)
      BY <1>3, <1>6, <3>2 DEF about
    <3> QED
      BY <3>1, <3>2
  <2> QED
    BY <2>1, <2>2, <2>3, <2>4
<1> QED
  BY <1>4, <1>6, <1>7, <1>8 DEF TipInv, FeedCounts, SentAddsUp, ReceivedAddsUp

LEMMA LoseKeeps ==
    ASSUME TipInv, NEW g \in Notes, Lose(g)
    PROVE  TipInv'
<1> DEFINE pc == IF note[g].pc = "received" THEN "halfLost" ELSE "lost"
<1>1. /\ note' = [note EXCEPT ![g].pc = pc] /\ time' = time /\ tipFeed' = tipFeed
      /\ note[g].pc \in {"listener", "tip", "received"}
      /\ pc \in {"received", "done", "lost", "halfLost"} /\ note[g].pc # "idle"
      /\ pc # "received" /\ pc # "done"
      /\ pc = "halfLost" <=> note[g].pc = "received"
  BY DEF Lose
<1> HIDE DEF pc
<1>2. /\ note' \in [Notes -> Note] /\ time' \in Nat /\ NotesAreTips'
      /\ time' + Cardinality(Unpaid)' <= Cardinality(Notes)
      /\ \A m, pcs : (pc \in pcs <=> note[g].pc \in pcs) \/ note[g].about # m \/ g = m
             => Paid(m, pcs)' = Paid(m, pcs)
  BY <1>1, NoteGoesOn DEF NoteIsAt
<1>3. \A m : /\ Paid(m, {"received", "done", "halfLost"})' = Paid(m, {"received", "done", "halfLost"})
             /\ Paid(m, {"done"})' = Paid(m, {"done"})
  BY <1>1, <1>2
<1>4. Rowed(tipFeed)' /\ FeedCounts'
  BY <1>1 DEF TipInv, Rowed, FeedCounts
<1>5. SentAddsUp' /\ ReceivedAddsUp'
  BY <1>1, <1>3 DEF TipInv, SentAddsUp, ReceivedAddsUp
<1> QED
  BY <1>2, <1>4, <1>5 DEF TipInv

(* Payments that are noted in any order, or lost.                          *)
THEOREM TipInvariant == TipSpec => []TipInv
<1>1. TipInit => TipInv
  <2> SUFFICES ASSUME TipInit PROVE TipInv
    OBVIOUS
  <2> DEFINE u0 == CHOOSE u \in Payers : TRUE
             a0 == CHOOSE a \in Amounts : TRUE
  <2>1. u0 \in Payers /\ a0 \in Amounts
    BY TipAssumption
  <2>2. note = [g \in Notes |-> [pc |-> "idle", user |-> u0, about |-> g, amount |-> a0, ts |-> 0]]
        /\ time = 0 /\ tipFeed = {}
    BY DEF TipInit
  <2> HIDE DEF u0, a0
  <2>3. note \in [Notes -> Note] /\ NotesAreTips
    BY <2>1, <2>2, UnpaidAreCounted DEF Note, NotesAreTips
  <2>4. Unpaid = Notes
    BY <2>2 DEF Unpaid
  <2>5. Cardinality(Unpaid) = Cardinality(Notes)
    BY <2>4, Zenon
  <2>6. ASSUME NEW m, NEW type, NEW F, F = {} PROVE Total(F, type, m) = 0
    <3>1. DOMAIN [n \in {r \in F : r.id.type = type /\ r.id.seed = m} |-> n.count] = {}
      BY <2>6
    <3> QED
      BY <3>1, SumOfNothing DEF Total
  <2>7. ASSUME NEW m, NEW pcs, "idle" \notin pcs PROVE Paid(m, pcs) = 0
    <3>1. DOMAIN [g \in {h \in Notes : note[h].about = m /\ h # m /\ note[h].pc \in pcs}
                    |-> note[g].amount] = {}
      BY <2>2, <2>7
    <3> QED
      BY <3>1, SumOfNothing DEF Paid
  <2>8. \A u : RowsOf(tipFeed, u) = {}
    BY <2>2 DEF RowsOf
  <2>9. SentAddsUp /\ ReceivedAddsUp
    BY <2>2, <2>6, <2>7, <2>8 DEF SentAddsUp, ReceivedAddsUp
  <2>10. Rowed(tipFeed) /\ FeedCounts
    BY <2>2, FS_EmptySet DEF Rowed, FeedCounts
  <2> QED
    BY <2>2, <2>3, <2>5, <2>9, <2>10, UnpaidAreCounted DEF TipInv
<1>2. TipInv /\ [TipNext]_tipVars => TipInv'
  <2> SUFFICES ASSUME TipInv, [TipNext]_tipVars PROVE TipInv'
    OBVIOUS
  <2>1. ASSUME NEW g \in Notes, NoteListenerMessage(g) \/ NoteSentTip(g) \/ NoteReceivedTip(g)
        PROVE  TipInv'
    BY <2>1, SaveKeeps DEF NoteListenerMessage, NoteSentTip, NoteReceivedTip
  <2>2. CASE UNCHANGED tipVars
    <3>1. \A m, pcs : Paid(m, pcs)' = Paid(m, pcs)
      BY <2>2 DEF tipVars, Paid
    <3> QED
      BY <2>2, <3>1 DEF tipVars, TipInv, Unpaid, NotesAreTips, Rowed, FeedCounts, SentAddsUp, ReceivedAddsUp
  <2> QED
    BY <2>1, <2>2, PayKeeps, LoseKeeps DEF TipNext
<1> QED
  BY <1>1, <1>2, PTL DEF TipSpec

(* Every variable keeps its type, and no two rows of the feed have one id. *)
THEOREM TipsTyped == TipSpec => []TipTypeOK
<1>1. TipInv => TipTypeOK
  BY UnpaidAreCounted DEF TipInv, TipTypeOK, Rowed
<1> QED
  BY <1>1, TipInvariant, PTL

(* Whatever the order of the goroutines, and however a page is chosen      *)
(* among rows of one time, the feeds add up to the tips that were noted.   *)
THEOREM TotalsAlwaysTips == TipSpec => []TotalsAreTips
<1>1. TipInv => TotalsAreTips
  <2> SUFFICES ASSUME TipInv, NEW m \in Tipped,
                      NEW page \in LatestNotifications(tipFeed, Author[m], Cardinality(tipFeed))
               PROVE  Total(page, "receivedTip", m) = Paid(m, {"done"})
    BY DEF TotalsAreTips, TipInv, SentAddsUp
  <2> DEFINE rows == RowsOf(tipFeed, Author[m])
  <2>1. page \subseteq rows
    BY DEF LatestNotifications, RowsOf
  <2>2. Cardinality(page) = IF Cardinality(tipFeed) < Cardinality(rows) THEN Cardinality(tipFeed)
                                                                       ELSE Cardinality(rows)
    BY DEF LatestNotifications, RowsOf
  <2>3. rows \subseteq tipFeed
    BY DEF RowsOf
  <2> HIDE DEF rows
  <2>4. /\ IsFiniteSet(rows) /\ Cardinality(rows) <= Cardinality(tipFeed)
        /\ Cardinality(rows) \in Nat /\ Cardinality(tipFeed) \in Nat
    BY <2>3, FS_Subset, FS_CardinalityType DEF TipInv, FeedCounts
  <2>5. Cardinality(page) = Cardinality(rows)
    BY <2>2, <2>4
  <2>6. page = rows
    BY <2>1, <2>4, <2>5, FS_Subset
  <2> QED
    BY <2>6 DEF TipInv, ReceivedAddsUp, rows
<1> QED
  BY <1>1, TipInvariant, PTL

-----------------------------------------------------------------------------

(* The model that is checked is the five parts beside each other.          *)
LEMMA PartsOfUsers ==
    MCSpec => AccountSpec /\ PurchaseSpec /\ TipSpec /\ ProfileSpec /\ PushSpec
<1>1. MCInit => AccountInit /\ PurchaseInit /\ TipInit /\ ProfileInit /\ PushInit
  BY DEF MCInit
<1>2. [MCNext]_mcVars => /\ [AccountNext]_accountVars
                         /\ [PurchaseNext]_purchaseVars
                         /\ [TipNext]_tipVars
                         /\ [ProfileNext]_profileVars
                         /\ [PushNext]_pushVars
  BY DEF MCNext, mcVars
<1> QED
  BY <1>1, <1>2, PTL DEF MCSpec, AccountSpec, PurchaseSpec, TipSpec, ProfileSpec, PushSpec

(* Every variable of what is kept about a user keeps its type, whichever   *)
(* part moves: no more connections than there are, no user with two X      *)
(* accounts, no notification with two rows.                                *)
THEOREM UsersTypesCorrect == MCSpec => []TypesOK
<1>1. AccountTypeOK /\ PurchaseTypeOK /\ TipTypeOK /\ ProfileTypeOK /\ PushTypeOK => TypesOK
  BY DEF TypesOK
<1> QED
  BY <1>1, PartsOfUsers, AccountTypeCorrect, PurchasesTyped, TipsTyped, ProfilesTyped, PushTyped, PTL
=============================================================================

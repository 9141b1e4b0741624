----------------------------- MODULE Purchases -----------------------------
(***************************************************************************)
(* Buying an account and the weekly airdrop.  OnPurchaseCompleted looks    *)
(* the receipt up, pushes the buyer's next airdrop past the current week,  *)
(* sets the registration flag, notes the welcome bonus and stores the      *)
(* purchase last, each with a statement of its own.  A worker outside this *)
(* repository asks for the owners to airdrop now, pays them and reports    *)
(* the success.  Neither is a transaction, and either may stop between two *)
(* steps.                                                                  *)
(*                                                                         *)
(* Time goes by in half weeks: airdrops fall due at the even ones (Friday  *)
(* 16:00), and ISO weeks, which number the notifications, begin at the odd *)
(* ones.  Buyers have a key, receipts are valid.                           *)
(***************************************************************************)
EXTENDS ActivityFeed

CONSTANTS Buyers, NoBuyer,    \* users; no user
          Receipts,          \* identifiers of valid receipts
          PurchaseCalls,     \* OnPurchaseCompleted calls
          LastHalfWeek,      \* bound on the time
          MaxStops           \* bound on the stops of the airdrop worker

ASSUME PurchaseAssumption ==
    /\ NoBuyer \notin Buyers
    /\ LastHalfWeek \in Nat
    /\ MaxStops \in Nat

VARIABLES
  now,           \* half weeks since the first airdrop
  registeredUsers,    \* users whose registration flag is set
  registeredCache,   \* registeredCache[u]: the account cache's entry of u
  nextAirdrop,   \* nextAirdrop[u]: the week from which u is due
  eligible,      \* users who streamed within the last three months
  purchasedBy,   \* purchasedBy[r]: the user of the stored purchase of r
  purchase,      \* purchase[c]: progress of a call
  airdrop,       \* the run of the airdrop worker in progress
  dropped,       \* dropped[u][w]: airdrops paid to u in week w
  feed,          \* rows of the activity feed
  stops,         \* stops of the airdrop worker
  setBacks       \* setBacks[u]: times the next airdrop of u was set to an earlier week

purchaseVars == <<now, registeredUsers, registeredCache, nextAirdrop, eligible, purchasedBy,
                  purchase, airdrop, dropped, feed, stops, setBacks>>

Week(t)    == t \div 2
ISOWeek(t) == (t + 1) \div 2

Weeks == 0..Week(LastHalfWeek)

(* GetNextAirdropTime: the first airdrop after t.                          *)
NextAirdropTime(t) == Week(t) + 1

Purchase == [pc: {"idle", "next", "flag", "notify", "create", "ok", "denied", "failed", "died"},
             buyer: Buyers, receipt: Receipts, week: Weeks]

(* ts: the time noted for the bonuses; next: the week of the next airdrop. *)
Airdrop == [pc: {"idle", "owners", "paid", "lookup", "store", "notify"}, users: SUBSET Buyers,
            ts: 0..LastHalfWeek, next: 0..(Week(LastHalfWeek) + 1)]

NoRun == [pc |-> "idle", users |-> {}, ts |-> 0, next |-> 0]

PurchaseInit ==
    /\ now = 0
    /\ registeredUsers = {}
    /\ registeredCache = [u \in Buyers |-> "unknown"]
    /\ nextAirdrop = [u \in Buyers |-> 0]   \* Bind: NOW()
    /\ eligible = {}
    /\ purchasedBy = [r \in Receipts |-> NoBuyer]
    /\ purchase \in [PurchaseCalls -> [pc: {"idle"}, buyer: Buyers, receipt: Receipts, week: {0}]]
    /\ airdrop = NoRun
    /\ dropped = [u \in Buyers |-> [w \in Weeks |-> 0]]
    /\ feed = {}
    /\ stops = 0
    /\ setBacks = [u \in Buyers |-> 0]

-----------------------------------------------------------------------------
(* OnPurchaseCompleted                                                     *)

GoTo(c, pc) == purchase' = [purchase EXCEPT ![c].pc = pc]

(* The time of the next airdrop is computed right after the lookup.        *)
CheckReceipt(c) ==
    LET owner == purchasedBy[purchase[c].receipt]
    IN /\ purchase[c].pc = "idle"
       /\ purchase' = [purchase EXCEPT
             ![c].pc = IF owner = NoBuyer THEN "next"
                       ELSE IF owner = purchase[c].buyer THEN "ok" ELSE "denied",
             ![c].week = Week(now)]
       /\ UNCHANGED <<now, registeredUsers, registeredCache, nextAirdrop, eligible, purchasedBy,
                      airdrop, dropped, feed, stops, setBacks>>

(* The next airdrop of each user in U becomes w.                           *)
BatchSetNextAirdrop(U, w) ==
    /\ nextAirdrop' = [u \in Buyers |-> IF u \in U THEN w ELSE nextAirdrop[u]]
    /\ setBacks' = [u \in Buyers |-> IF u \in U /\ w < nextAirdrop[u] THEN setBacks[u] + 1
                                     ELSE setBacks[u]]

SetNextAirdrop(c) ==
    /\ purchase[c].pc = "next"
    /\ BatchSetNextAirdrop({purchase[c].buyer}, purchase[c].week + 1)
    /\ GoTo(c, "flag")
    /\ UNCHANGED <<now, registeredUsers, registeredCache, eligible, purchasedBy, airdrop, dropped, feed, stops>>

SetRegistrationFlag(c) ==
    /\ purchase[c].pc = "flag"
    /\ registeredUsers' = registeredUsers \union {purchase[c].buyer}
    /\ GoTo(c, "notify")
    /\ UNCHANGED <<now, registeredCache, nextAirdrop, eligible, purchasedBy, airdrop, dropped,
                   feed, stops, setBacks>>

WelcomeID(u) == NotificationID("welcome", u, 0)
WeeklyID(u, t) == NotificationID("weekly", u, ISOWeek(t))

NotifyWelcome(c) ==
    /\ purchase[c].pc = "notify"
    /\ feed' = SaveNotification(feed, WelcomeID(purchase[c].buyer), 1000, now)
    /\ GoTo(c, "create")
    /\ UNCHANGED <<now, registeredUsers, registeredCache, nextAirdrop, eligible, purchasedBy, airdrop,
                   dropped, stops, setBacks>>

(* Mutant: a purchase of the receipt is replaced.                          *)
CreatePurchaseOver(c) ==
    /\ purchase[c].pc = "create"
    /\ purchasedBy' = [purchasedBy EXCEPT ![purchase[c].receipt] = purchase[c].buyer]
    /\ GoTo(c, "ok")
    /\ UNCHANGED <<now, registeredUsers, registeredCache, nextAirdrop, eligible, airdrop, dropped,
                   feed, stops, setBacks>>

(* The receipt is the key of the purchase: ErrExists is an internal error. *)
CreatePurchase(c) ==
    LET r == purchase[c].receipt
    IN /\ purchase[c].pc = "create"
       /\ IF purchasedBy[r] = NoBuyer
            THEN purchasedBy' = [purchasedBy EXCEPT ![r] = purchase[c].buyer] /\ GoTo(c, "ok")
            ELSE UNCHANGED purchasedBy /\ GoTo(c, "failed")
       /\ UNCHANGED <<now, registeredUsers, registeredCache, nextAirdrop, eligible, airdrop, dropped,
                      feed, stops, setBacks>>

(* The process stops, or the client is gone and its statements cancelled.  *)
Die(c) ==
    /\ purchase[c].pc \in {"next", "flag", "notify", "create"}
    /\ GoTo(c, "died")
    /\ UNCHANGED <<now, registeredUsers, registeredCache, nextAirdrop, eligible, purchasedBy, airdrop,
                   dropped, feed, stops, setBacks>>

-----------------------------------------------------------------------------
(* The registration flag as everyone else reads it.                        *)

IsRegistered(u) == IF registeredCache[u] = "unknown" THEN u \in registeredUsers
                                                     ELSE registeredCache[u] = "yes"

(* A miss reads the store; only a positive answer is kept.                 *)
CacheRegistered(u) ==
    /\ registeredCache[u] = "unknown"
    /\ u \in registeredUsers
    /\ registeredCache' = [registeredCache EXCEPT ![u] = "yes"]
    /\ UNCHANGED <<now, registeredUsers, nextAirdrop, eligible, purchasedBy, purchase, airdrop, dropped,
                   feed, stops, setBacks>>

-----------------------------------------------------------------------------
(* Airdrops                                                                *)

(* Opening the chat event stream makes u eligible for three months.        *)
ExtendAirdropEligibility(u) ==
    /\ eligible' = eligible \union {u}
    /\ UNCHANGED <<now, registeredUsers, registeredCache, nextAirdrop, purchasedBy, purchase, airdrop,
                   dropped, feed, stops, setBacks>>

(* GetUsersToAirdrop, of all users the store knows.                        *)
Due == {u \in registeredUsers \intersect eligible : nextAirdrop[u] <= Week(now)}

GetOwnersToAirdropNow ==
    /\ airdrop.pc = "idle"
    /\ Due # {}
    /\ airdrop' = [airdrop EXCEPT !.pc = "owners", !.users = Due]
    /\ UNCHANGED <<now, registeredUsers, registeredCache, nextAirdrop, eligible, purchasedBy, purchase,
                   dropped, feed, stops, setBacks>>

(* The worker pays the owners it was given.                                *)
Transfer ==
    /\ airdrop.pc = "owners"
    /\ dropped' = [u \in Buyers |-> [dropped[u] EXCEPT
                        ![Week(now)] = IF u \in airdrop.users THEN @ + 1 ELSE @]]
    /\ airdrop' = [airdrop EXCEPT !.pc = "paid"]
    /\ UNCHANGED <<now, registeredUsers, registeredCache, nextAirdrop, eligible, purchasedBy, purchase,
                   feed, stops, setBacks>>

(* OnSuccess reads the clock for the notifications ...                     *)
OnSuccess ==
    /\ airdrop.pc = "paid"
    /\ airdrop' = [airdrop EXCEPT !.pc = "lookup", !.ts = now]
    /\ UNCHANGED <<now, registeredUsers, registeredCache, nextAirdrop, eligible, purchasedBy, purchase,
                   dropped, feed, stops, setBacks>>

(* ... and, once the users of the owners are looked up, for the next one.  *)
LookUpOwners ==
    /\ airdrop.pc = "lookup"
    /\ airdrop' = [airdrop EXCEPT !.pc = "store", !.next = NextAirdropTime(now)]
    /\ UNCHANGED <<now, registeredUsers, registeredCache, nextAirdrop, eligible, purchasedBy, purchase,
                   dropped, feed, stops, setBacks>>

(* Mutant: the owners stay due for the week they were paid in.             *)
StoreNextAirdropEarly ==
    /\ airdrop.pc = "store"
    /\ BatchSetNextAirdrop(airdrop.users, airdrop.next - 1)
    /\ airdrop' = [airdrop EXCEPT !.pc = "notify"]
    /\ UNCHANGED <<now, registeredUsers, registeredCache, eligible, purchasedBy, purchase, dropped, feed, stops>>

StoreNextAirdrop ==
    /\ airdrop.pc = "store"
    /\ BatchSetNextAirdrop(airdrop.users, airdrop.next)
    /\ airdrop' = [airdrop EXCEPT !.pc = "notify"]
    /\ UNCHANGED <<now, registeredUsers, registeredCache, eligible, purchasedBy, purchase, dropped, feed, stops>>

NotifyBonuses ==
    /\ airdrop.pc = "notify"
    /\ \E u \in airdrop.users :
          /\ feed' = SaveNotification(feed, WeeklyID(u, airdrop.ts), 100, airdrop.ts)
          /\ airdrop' = IF airdrop.users = {u} THEN NoRun
                        ELSE [airdrop EXCEPT !.users = @ \ {u}]
    /\ UNCHANGED <<now, registeredUsers, registeredCache, nextAirdrop, eligible, purchasedBy, purchase,
                   dropped, stops, setBacks>>

(* The worker stops, or a statement of OnSuccess fails.                    *)
StopAirdrop ==
    /\ airdrop.pc # "idle"
    /\ stops < MaxStops
    /\ airdrop' = NoRun
    /\ stops' = stops + 1
    /\ UNCHANGED <<now, registeredUsers, registeredCache, nextAirdrop, eligible, purchasedBy, purchase,
                   dropped, feed, setBacks>>

Tick ==
    /\ now < LastHalfWeek
    /\ now' = now + 1
    /\ UNCHANGED <<registeredUsers, registeredCache, nextAirdrop, eligible, purchasedBy, purchase,
                   airdrop, dropped, feed, stops, setBacks>>

PurchaseNext ==
    \/ \E c \in PurchaseCalls : \/ CheckReceipt(c)
                                \/ SetNextAirdrop(c)
                                \/ SetRegistrationFlag(c)
                                \/ NotifyWelcome(c)
                                \/ CreatePurchase(c)
                                \/ Die(c)
    \/ \E u \in Buyers : CacheRegistered(u) \/ ExtendAirdropEligibility(u)
    \/ GetOwnersToAirdropNow
    \/ Transfer
    \/ OnSuccess
    \/ LookUpOwners
    \/ StoreNextAirdrop
    \/ NotifyBonuses
    \/ StopAirdrop
    \/ Tick

PurchaseSpec == PurchaseInit /\ [][PurchaseNext]_purchaseVars

-----------------------------------------------------------------------------
(* Type invariant; a user has one welcome row.                             *)
PurchaseTypeOK ==
    /\ now \in 0..LastHalfWeek
    /\ registeredUsers \subseteq Buyers /\ eligible \subseteq Buyers
    /\ registeredCache \in [Buyers -> {"unknown", "yes", "no"}]
    /\ nextAirdrop \in [Buyers -> 0..(Week(LastHalfWeek) + 1)]
    /\ purchasedBy \in [Receipts -> Buyers \union {NoBuyer}]
    /\ purchase \in [PurchaseCalls -> Purchase]
    /\ airdrop \in Airdrop /\ (airdrop.pc = "idle" <=> airdrop.users = {})
    /\ \A u \in Buyers : Cardinality({n \in feed : n.id = WelcomeID(u)}) <= 1

(* A purchase is stored last, and means that all it promises was done: its *)
(* user is registered and has the welcome bonus on the feed.               *)
StoredMeansGranted ==
    \A r \in Receipts : purchasedBy[r] # NoBuyer =>
        /\ purchasedBy[r] \in registeredUsers
        /\ \E n \in feed : n.id = WelcomeID(purchasedBy[r])

(* A caller told OK owns the purchase, and is registered for whoever asks, *)
(* through the cache, too: the flag a client waits for is never hidden.    *)
OkMeansRegistered ==
    \A c \in PurchaseCalls : purchase[c].pc = "ok" =>
        /\ purchasedBy[purchase[c].receipt] = purchase[c].buyer
        /\ IsRegistered(purchase[c].buyer)

(* Nobody is registered for free but by a call that died before it stored  *)
(* the purchase, is about to, or lost the receipt to another that ran at   *)
(* the same time.                                                          *)
FreeAccountsAreAccountedFor ==
    \A u \in registeredUsers : \E c \in PurchaseCalls :
        /\ purchase[c].buyer = u
        /\ \/ purchasedBy[purchase[c].receipt] = u
           \/ purchase[c].pc \in {"notify", "create", "died", "failed"}

(* Purchases are four statements without a transaction, and any of them    *)
(* may be the last: still, stored purchases, answers and accounts agree.   *)
PurchasesAreHonoured == StoredMeansGranted /\ OkMeansRegistered /\ FreeAccountsAreAccountedFor

(* A user is paid once a week, and once more for every run of the worker   *)
(* that stopped after paying, or next airdrop that was computed earlier    *)
(* than the one it replaced; and not in the week of the purchase, for a    *)
(* new account has had its welcome bonus.                                  *)
AirdropsAreWeekly ==
    \A u \in Buyers, w \in Weeks :
        /\ dropped[u][w] <= 1 + stops + setBacks[u]
        /\ dropped[u][w] > 0 =>
              \E c \in PurchaseCalls :
                  purchase[c].pc # "idle" /\ purchase[c].buyer = u /\ purchase[c].week < w
=============================================================================

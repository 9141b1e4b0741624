---------------------------- MODULE ActivityFeed ----------------------------
(***************************************************************************)
(* The activity feed's store, as operators on the set of its rows.  The id *)
(* of a notification is a hash of its type, its user and a seed, so saving *)
(* the same event once more finds the row of the first time; the row keeps *)
(* its time, and the totals of tips grow.  The memory store does under its *)
(* mutex what postgres does in one upsert.                                 *)
(***************************************************************************)
EXTENDS Naturals, FiniteSets, FiniteSetsExt

(* GetNotificationID: equal ids have equal types, users and seeds.         *)
NotificationID(type, user, seed) == [type |-> type, user |-> user, seed |-> seed]

UpdatesCount(id) == id.type \in {"sendTip", "receivedTip"}

(* Mutant: the upsert sets the count.                                      *)
SaveNotificationOver(feed, id, count, ts) ==
    {n \in feed : n.id # id} \union {[id |-> id, count |-> count, ts |-> ts]}

(* SaveNotification in feed; a promotion has an id but no store takes it.  *)
SaveNotification(feed, id, count, ts) ==
    LET existing == {n \in feed : n.id = id}
    IN IF existing = {} THEN feed \union {[id |-> id, count |-> count, ts |-> ts]}
       ELSE IF UpdatesCount(id)
         THEN {IF n.id = id THEN [n EXCEPT !.count = @ + count] ELSE n : n \in feed}
       ELSE feed

(* The limit latest notifications of a user; among equal times any may     *)
(* come first, the caller gets one of these pages.                         *)
LatestNotifications(feed, user, limit) ==
    LET rows == {n \in feed : n.id.user = user}
    IN {page \in SUBSET rows :
          /\ Cardinality(page) = IF limit < Cardinality(rows) THEN limit ELSE Cardinality(rows)
          /\ \A n \in page, out \in rows \ page : n.ts >= out.ts}
=============================================================================

--------------------------- MODULE MCPaidMessages ---------------------------
(* Small instances of PaidMessages.  One run looks at three scenarios:     *)
(* "sends" are two overlapping SendMessage calls in a room that has been   *)
(* running and stays open, "alongside" is one SendMessage beside a         *)
(* membership RPC, and "members" are two membership RPCs, of three users   *)
(* one of whom is not registered.  The room of the last two is as          *)
(* StartChat leaves it.  Pushes, which no part of SendMessage looks at,    *)
(* are turned off in "members" only.                                       *)
EXTENDS PaidMessages, TLC

CONSTANTS owner, alice, bob, c1, c2, s1, s2, fee, tip

VARIABLE scenario

(* alice paid a listener's fee, and the owner paid a tip for message 1.    *)
MCPayment ==
    [i \in Intents |->
        IF i = tip THEN [for |-> "tip", user |-> owner, ref |-> 1]
        ELSE [for |-> "listener", user |-> alice, ref |-> 0]]

(* A room that has been running for a while: the owner is in it and        *)
(* speaks, the others joined as listeners or are not members.              *)
RunningInit ==
    /\ member \in [Users -> {NoRow, NewRow(TRUE, TRUE), NewRow(FALSE, FALSE)}]
    /\ \A u \in Users : member[u].mod <=> u = Owner
    /\ member[bob] = NoRow
    /\ call = [c \in Calls |-> NoCall]
    /\ backend \in Backends
    /\ MessagingInit
    /\ scenario = "sends"

Rest == UNCHANGED scenario

RunningNext == Next /\ Rest

RunningSpec == RunningInit /\ [][RunningNext]_<<vars, scenario>>

AlongsideInit ==
    /\ MembershipInit /\ backend = "memory" /\ member[bob] = NoRow
    /\ MessagingInit
    /\ scenario = "alongside"

MembersInit ==
    /\ MembershipInit
    /\ MessagingInit
    /\ scenario = "members"

TextsAndTips == \A s \in Sends : send[s].kind \in {"text", "tip"}

OneOfEach ==
    /\ \A s, t \in Sends : send[s] = NoSend \/ send[t] = NoSend \/ s = t
    /\ \A s \in Sends : send[s].kind # "tip" /\ send[s].intent # tip
    /\ Idle(c2) /\ call[c1].pc # "setPush" /\ call[c1].who # bob
    /\ Len(messages) <= 1

(* Nothing tells the slots for sends apart.                                *)
MCSymmetry == Permutations(Sends)

MCInit == RunningInit \/ AlongsideInit \/ MembersInit

MCNext ==
    \/ scenario = "sends" /\ (\E s \in Sends : SendNext(s)) /\ TextsAndTips' /\ Rest
    \/ scenario = "alongside" /\ Next /\ OneOfEach' /\ Rest
    \/ scenario = "members" /\ MembershipNext /\ UNCHANGED messagingVars /\ Rest

MCSpec == MCInit /\ [][MCNext]_<<vars, scenario>>
=============================================================================

------------------------------ MODULE MCChats ------------------------------
(***************************************************************************)
(* Chats before and beside their messages: how they are started, how their *)
(* settings change and are shown, and what payments for them are good for. *)
(* The three share no state in these models, so each part is checked with  *)
(* the others at rest.                                                     *)
(***************************************************************************)
EXTENDS StartChat, ChatSettings, PaymentIntents, TLC

CONSTANTS alice, bob, owner, i1, i2, c1, c2, m1, m2

MCGuests == {<<bob>>}
MCPaidBy == [i \in Intents |-> alice]
MCSender == [m \in Posts |-> IF m = m1 THEN owner ELSE bob]

(* Nothing tells the calls apart, which are the setters, too.              *)
MCSymmetry == Permutations(Calls)

VARIABLE part

mcVars == <<vars, settingsVars, intentVars, part>>

MCInit ==
    /\ Init
    /\ SettingsInit
    /\ IntentInit
    /\ part \in {"start", "settings", "payments"}
    \* one initial state is enough of a part that stays at rest
    /\ part # "start" => backend = "memory"
    /\ part # "settings" => ~onPostgres /\ metadata["fee"].value = "low"
    /\ part # "payments" => fee = StartGroupFee

(* The bounds are used up and all is done: the model has no more to do.    *)
SettingsOver == Quiet /\ changes = MaxChanges /\ writes["activity"] = MaxPosts

MCNext ==
    \/ part = "start" /\ Next /\ UNCHANGED <<settingsVars, intentVars, part>>
    \/ part = "settings" /\ SettingsNext /\ UNCHANGED <<vars, intentVars, part>>
    \/ part = "settings" /\ SettingsOver /\ UNCHANGED mcVars
    \/ part = "payments" /\ IntentNext /\ UNCHANGED <<vars, settingsVars, part>>

(* Type invariant of the parts, whose payments are well formed.            *)
TypesOK == TypeOK /\ SettingsTypeOK /\ IntentTypeOK

MCSpec == MCInit /\ [][MCNext]_mcVars
=============================================================================

----------------------- MODULE ChatMembershipProofs -----------------------
(* Proofs about ChatMembership, for any users, any number of RPCs in       *)
(* progress and both stores.                                               *)
EXTENDS ChatMembership, TLAPS

(* What the steps in progress may still write.  The owner is never the     *)
(* target of a promotion, a demotion or a mute, and no AddMember has read  *)
(* a mute of the owner; only the postgres store has a second AddMember     *)
(* step.                                                                   *)
CallInv ==
    \A c \in Calls :
        /\ call[c].pc \in {"setSend", "setMute"} => call[c].who # Owner
        /\ call[c].pc = "setMute" => call[c].value = TRUE
        /\ call[c].pc = "addWrite" => backend = "postgres"
        /\ call[c].who = Owner => call[c].seen.muted = FALSE

(* There is no mute on a row that is not there.                            *)
NoMuteWithoutRow ==
    \A u \in Users : member[u].status = "absent" => ~member[u].muted

(* A row that was removed has kept only its mute, and nobody has ever      *)
(* muted the owner.                                                        *)
RowInv ==
    /\ FormerMembersHoldNothing
    /\ OwnerInControl
    /\ member[Owner].muted = FALSE
    /\ NoMuteWithoutRow

MembershipInv == TypeOK /\ CallInv /\ RowInv

(* The facts about the pieces of a row that the steps below rest on.       *)
LEMMA NewRowType ==
    ASSUME NEW mod \in BOOLEAN, NEW send \in BOOLEAN
    PROVE  NewRow(mod, send) \in Row
  BY DEF NewRow, Row

(* What JoinChat asks for is a row.                                        *)
LEMMA JoinRowType == ASSUME NEW u \in Users PROVE JoinRow(u) \in Row
  BY NewRowType DEF JoinRow

(* The group as StartChat leaves it, wherever its loop stopped.            *)
LEMMA InitInv == MembershipInit => MembershipInv
<1> SUFFICES ASSUME MembershipInit PROVE MembershipInv
  OBVIOUS
<1> USE MembershipAssumption
<1>1. PICK added \in SUBSET Users :
        member = [u \in Users |-> IF u \in added THEN NewRow(u = Owner, TRUE)
                                                 ELSE NoRow]
  BY DEF MembershipInit
<1>2. TypeOK
  <2>1. NoRow \in Row
    BY DEF NoRow, Row
  <2>3. \A u \in Users : member[u] = NewRow(u = Owner, TRUE) \/ member[u] = NoRow
    BY <1>1
  <2>4. \A u \in Users : NewRow(u = Owner, TRUE) \in Row
    BY NewRowType
  <2>5. member \in [Users -> Row]
    <3>1. \A u \in Users : member[u] \in Row
      BY <2>1, <2>3, <2>4, Zenon
    <3> QED
      BY <1>1, <3>1
  <2>2. NoCall \in Call
    BY DEF NoCall, NothingSeen, Call, Pc
  <2> QED
    BY <2>2, <2>5 DEF MembershipInit, TypeOK
<1>3. CallInv
  BY DEF MembershipInit, CallInv, NoCall, NothingSeen
<1>4. RowInv
  BY <1>1 DEF RowInv, FormerMembersHoldNothing, OwnerInControl, NoMuteWithoutRow, IsMember,
              NewRow, NoRow
<1> QED
  BY <1>2, <1>3, <1>4 DEF MembershipInv
-----------------------------------------------------------------------------
(* The invariant, one call and one row at a time.                          *)
GoodCall(p) ==
    /\ p.pc \in {"setSend", "setMute"} => p.who # Owner
    /\ p.pc = "setMute" => p.value = TRUE
    /\ p.pc = "addWrite" => backend = "postgres"
    /\ p.who = Owner => p.seen.muted = FALSE

GoodRow(u, row) ==
    /\ row.status # "active" => /\ ~row.send /\ ~row.mod
                                /\ row.status = "left" => row.push
    /\ u = Owner => row.muted = FALSE
    /\ row.status = "absent" => ~row.muted
    /\ (u = Owner /\ row.status = "active") => row.mod /\ row.send
    /\ u # Owner => ~row.mod

(* The invariant is a statement about each call and each row apart.        *)
LEMMA InvByParts ==
    MembershipInv <=> /\ TypeOK
                      /\ \A c \in Calls : GoodCall(call[c])
                      /\ \A u \in Users : GoodRow(u, member[u])
  BY MembershipAssumption
     DEF MembershipInv, CallInv, RowInv, FormerMembersHoldNothing, TypeOK,
         OwnerInControl, NoMuteWithoutRow, IsMember, GoodCall, GoodRow, Row

(* The same for the next state.                                            *)
LEMMA InvByPartsNext ==
    ASSUME UNCHANGED backend
    PROVE  MembershipInv' <=> /\ TypeOK'
                              /\ \A c \in Calls : GoodCall(call'[c])
                              /\ \A u \in Users : GoodRow(u, member'[u])
  BY MembershipAssumption
     DEF MembershipInv, CallInv, RowInv, FormerMembersHoldNothing, TypeOK,
         OwnerInControl, NoMuteWithoutRow, IsMember, GoodCall, GoodRow, Row

(* What the setters write keeps a good row good, if it may be written to   *)
(* that user's row at all.                                                 *)
LEMMA UpdatedGood ==
    ASSUME NEW u \in Users, NEW row \in Row, GoodRow(u, row),
           NEW field \in {"send", "muted", "push"}, NEW value \in BOOLEAN,
           field # "push" => u # Owner
    PROVE  Updated(row, field, value) \in Row /\ GoodRow(u, Updated(row, field, value))
<1>1. CASE row.status # "active"
  BY <1>1 DEF Updated
<1>2. CASE row.status = "active" /\ field = "send"
  BY <1>2 DEF Updated, Row, GoodRow
<1>3. CASE row.status = "active" /\ field = "muted"
  BY <1>3 DEF Updated, Row, GoodRow
<1>4. CASE row.status = "active" /\ field = "push"
  BY <1>4 DEF Updated, Row, GoodRow
<1> QED
  BY <1>1, <1>2, <1>3, <1>4

(* A slot that is given back holds nothing that could do harm.             *)
LEMMA NoCallGood == NoCall \in Call /\ GoodCall(NoCall)
  BY MembershipAssumption DEF NoCall, NothingSeen, Call, Pc, GoodCall

(* Replacing one call by a good one, and one row by a good one, keeps the  *)
(* invariant.                                                              *)
LEMMA StepKeepsInv ==
    ASSUME MembershipInv,
           NEW c \in Calls, NEW p \in Call, GoodCall(p),
           NEW u \in Users, NEW row \in Row, GoodRow(u, row),
           call' = [call EXCEPT ![c] = p] \/ UNCHANGED call,
           member' = [member EXCEPT ![u] = row] \/ UNCHANGED member,
           UNCHANGED backend
    PROVE  MembershipInv'
<1>1. TypeOK'
  BY DEF MembershipInv, TypeOK
<1>2. \A d \in Calls : GoodCall(call'[d])
  BY InvByParts DEF TypeOK
<1>3. \A v \in Users : GoodRow(v, member'[v])
  BY InvByParts DEF TypeOK
<1> QED
  BY <1>1, <1>2, <1>3, InvByPartsNext

(* The steps that only open a call.                                        *)
LEMMA OpenKeepsInv ==
    ASSUME MembershipInv, NEW c \in Calls, NEW p \in Call, GoodCall(p),
           call' = [call EXCEPT ![c] = p], UNCHANGED <<member, backend>>
    PROVE  MembershipInv'
<1>1. member[Owner] \in Row /\ GoodRow(Owner, member[Owner])
  BY MembershipAssumption, InvByParts DEF TypeOK
<1> QED
  BY <1>1, StepKeepsInv, MembershipAssumption

(* A write that passed its checks is one the invariant allows.             *)
LEMMA PendingGood ==
    ASSUME NEW pc \in Pc, NEW u \in Users, NEW value \in BOOLEAN,
           pc # "addWrite",
           pc \in {"setSend", "setMute"} => u # Owner,
           pc = "setMute" => value = TRUE
    PROVE  Pending(pc, u, value) \in Call /\ GoodCall(Pending(pc, u, value))
  BY DEF Pending, Call, NothingSeen, GoodCall

(* Every request that comes in keeps the invariant.                        *)
LEMMA RequestKeepsInv ==
    ASSUME MembershipInv, NEW c \in Calls, Request(c), UNCHANGED backend
    PROVE  MembershipInv'
<1> USE DEF Pc
<1>1. CASE \E u \in Users : JoinChat(c, u)
  <2>1. PICK u \in Users : JoinChat(c, u)
    BY <1>1
  <2>2. Pending("add", u, FALSE) \in Call /\ GoodCall(Pending("add", u, FALSE))
    BY PendingGood
  <2> QED
    BY <2>1, <2>2, OpenKeepsInv DEF JoinChat
<1>2. CASE \E u \in Users : LeaveChat(c, u)
  <2>1. PICK u \in Users : LeaveChat(c, u)
    BY <1>2
  <2>2. member[u] \in Row /\ GoodRow(u, member[u])
    BY InvByParts DEF TypeOK
  <2>3. RemovedRow(member[u]) \in Row
    BY <2>2 DEF RemovedRow, Row
  <2>4. GoodRow(u, RemovedRow(member[u]))
    BY <2>2 DEF GoodRow, RemovedRow, Row
  <2>5. member' = [member EXCEPT ![u] = RemovedRow(member[u])] /\ UNCHANGED call
    BY <2>1 DEF LeaveChat
  <2> QED
    BY <2>3, <2>4, <2>5, NoCallGood, StepKeepsInv
<1>3. CASE \E u \in Users : MuteChat(c, u) \/ UnmuteChat(c, u)
  <2>1. PICK u \in Users : MuteChat(c, u) \/ UnmuteChat(c, u)
    BY <1>3
  <2>2. \A value \in BOOLEAN : /\ Pending("setPush", u, value) \in Call
                               /\ GoodCall(Pending("setPush", u, value))
    BY PendingGood
  <2> QED
    BY <2>1, <2>2, OpenKeepsInv DEF MuteChat, UnmuteChat
<1>4. CASE \E by, u \in Users : \/ PromoteUser(c, by, u)
                                \/ DemoteUser(c, by, u)
                                \/ MuteUser(c, by, u)
  <2>1. PICK by \in Users, u \in Users :
           PromoteUser(c, by, u) \/ DemoteUser(c, by, u) \/ MuteUser(c, by, u)
    BY <1>4
  <2>2. u # Owner
    BY <2>1 DEF PromoteUser, DemoteUser, MuteUser
  <2>3. \A value \in BOOLEAN : /\ Pending("setSend", u, value) \in Call
                               /\ GoodCall(Pending("setSend", u, value))
    BY <2>2, PendingGood
  <2>4. Pending("setMute", u, TRUE) \in Call /\ GoodCall(Pending("setMute", u, TRUE))
    BY <2>2, PendingGood
  <2> QED
    BY <2>1, <2>3, <2>4, OpenKeepsInv DEF PromoteUser, DemoteUser, MuteUser
<1> QED
  BY <1>1, <1>2, <1>3, <1>4 DEF Request

(* Every later step of a call keeps the invariant, on both stores.         *)
LEMMA ServeKeepsInv ==
    ASSUME MembershipInv, NEW c \in Calls, Serve(c), UNCHANGED backend
    PROVE  MembershipInv'
<1> DEFINE u == call[c].who
           row == member[u]
<1>1. /\ call[c] \in Call /\ GoodCall(call[c])
      /\ u \in Users /\ row \in Row /\ GoodRow(u, row)
  BY InvByParts DEF TypeOK, Call
<1>2. ASSUME NEW new \in Row, GoodRow(u, new),
             member' = [member EXCEPT ![u] = new], Return(c)
      PROVE  MembershipInv'
  BY <1>1, <1>2, NoCallGood, StepKeepsInv DEF Return
<1>3. ASSUME NEW new \in Call, GoodCall(new), UNCHANGED member,
             call' = [call EXCEPT ![c] = new]
      PROVE  MembershipInv'
  BY <1>3, OpenKeepsInv
<1>4. JoinRow(u) \in Row /\ GoodRow(u, JoinRow(u))
  BY <1>1, JoinRowType DEF GoodRow, JoinRow, NewRow
<1>5. CASE AddInMemory(c)
  <2>1. MemoryAdded(row, JoinRow(u)) \in Row /\ GoodRow(u, MemoryAdded(row, JoinRow(u)))
    BY <1>1 DEF MemoryAdded, GoodRow, JoinRow, NewRow, Row
  <2> QED
    BY <1>2, <1>5, <2>1 DEF AddInMemory
<1>6. CASE AddSelect(c)
  <2>1. CASE row.status = "active"
    BY <1>3, <1>6, <2>1, NoCallGood DEF AddSelect, Return
  <2>2. CASE row.status # "active"
    <3> DEFINE new == [call[c] EXCEPT !.pc = "addWrite",
                                      !.seen = [status |-> row.status,
                                                muted |-> row.muted]]
    <3>1. new \in Call
      BY <1>1, <2>2 DEF Call, Pc, Row
    <3>2. GoodCall(new)
      BY <1>1, <1>6, MembershipAssumption DEF GoodCall, GoodRow, AddSelect, Call
    <3>3. call' = [call EXCEPT ![c] = new] /\ UNCHANGED member
      BY <1>1, <1>6, <2>2 DEF AddSelect, Call, TypeOK, MembershipInv
    <3> QED
      BY <1>3, <3>1, <3>2, <3>3
  <2> QED
    BY <2>1, <2>2
<1>7. CASE AddWrite(c)
  <2> DEFINE rejoined == [JoinRow(u) EXCEPT !.muted = call[c].seen.muted]
             inserted == IF row.status = "absent" THEN JoinRow(u) ELSE row
  <2>1. rejoined \in Row /\ GoodRow(u, rejoined)
    BY <1>1 DEF GoodRow, GoodCall, JoinRow, NewRow, Row, Call
  <2>2. inserted \in Row /\ GoodRow(u, inserted)
    BY <1>1, <1>4
  <2>3. Return(c)
    BY <1>7 DEF AddWrite
  <2>4. CASE member' = [member EXCEPT ![u] = rejoined]
    BY <1>2, <2>1, <2>3, <2>4
  <2>5. CASE member' = [member EXCEPT ![u] = inserted]
    BY <1>2, <2>2, <2>3, <2>5
  <2> QED
    BY <1>7, <2>4, <2>5 DEF AddWrite
<1>8. CASE SetSendPermission(c)
  <2>1. u # Owner
    BY <1>1, <1>8 DEF SetSendPermission, SetField, GoodCall
  <2>2. /\ Updated(row, "send", call[c].value) \in Row
        /\ GoodRow(u, Updated(row, "send", call[c].value))
    BY <1>1, <2>1, UpdatedGood DEF Call
  <2> QED
    BY <1>2, <1>8, <2>2 DEF SetSendPermission, SetField
<1>9. CASE SetMuteState(c)
  <2>1. u # Owner
    BY <1>1, <1>9 DEF SetMuteState, SetField, GoodCall
  <2>2. /\ Updated(row, "muted", call[c].value) \in Row
        /\ GoodRow(u, Updated(row, "muted", call[c].value))
    BY <1>1, <2>1, UpdatedGood DEF Call
  <2> QED
    BY <1>2, <1>9, <2>2 DEF SetMuteState, SetField
<1>10. CASE SetPushState(c)
  <2>1. /\ Updated(row, "push", call[c].value) \in Row
        /\ GoodRow(u, Updated(row, "push", call[c].value))
    BY <1>1, UpdatedGood DEF Call
  <2> QED
    BY <1>2, <1>10, <2>1 DEF SetPushState, SetField
<1>11. CASE Abandon(c)
  BY <1>3, <1>11, NoCallGood DEF Abandon, Return
<1> QED
  BY <1>5, <1>6, <1>7, <1>8, <1>9, <1>10, <1>11 DEF Serve

(* The invariant is inductive.                                             *)
LEMMA NextKeepsInv == MembershipInv /\ [MembershipNext]_membershipVars => MembershipInv'
<1> SUFFICES ASSUME MembershipInv, [MembershipNext]_membershipVars
             PROVE  MembershipInv'
  OBVIOUS
<1>1. CASE MembershipNext
  BY <1>1, RequestKeepsInv, ServeKeepsInv DEF MembershipNext
<1>2. CASE UNCHANGED membershipVars
  BY <1>2, InvByParts, InvByPartsNext DEF membershipVars, TypeOK
<1> QED
  BY <1>1, <1>2

(* The inductive invariant of the member table and of the RPCs in progress *)
(* holds in every state, whichever store is behind the server.             *)
THEOREM MembershipInvariant == MembershipSpec => []MembershipInv
  BY InitInv, NextKeepsInv, PTL DEF MembershipSpec

(* Type correctness of the member table and the RPCs in progress.          *)
THEOREM MembershipTypeCorrect == MembershipSpec => []TypeOK
<1>1. MembershipInv => TypeOK
  BY DEF MembershipInv
<1> QED
  BY <1>1, MembershipInvariant, PTL

(* Overlapping LeaveChat, PromoteUser, MuteChat and JoinChat calls never   *)
(* leave a permission on the row of somebody who is not a member.          *)
THEOREM FormerMembersHoldNothingAlways ==
    MembershipSpec => []FormerMembersHoldNothing
<1>1. MembershipInv => FormerMembersHoldNothing
  BY DEF MembershipInv, RowInv
<1> QED
  BY <1>1, MembershipInvariant, PTL

(* No interleaving of the membership RPCs takes the room from its owner or *)
(* makes anybody else a moderator.                                         *)
THEOREM OwnerStaysInControl == MembershipSpec => []OwnerInControl
<1>1. MembershipInv => OwnerInControl
  BY DEF MembershipInv, RowInv
<1> QED
  BY <1>1, MembershipInvariant, PTL

-----------------------------------------------------------------------------
(* The one step that can take a mute back.                                 *)
StaleRejoin(v) ==
    /\ backend = "postgres"
    /\ \E c \in Calls : /\ call[c].pc = "addWrite"
                        /\ call[c].who = v
                        /\ ~call[c].seen.muted

(* The setters clear no mute: the only pending SetMuteState calls set it.  *)
LEMMA SetterKeepsMutes ==
    ASSUME MembershipInv, NEW c \in Calls, NEW v \in Users, member[v].muted,
           \/ SetSendPermission(c) \/ SetMuteState(c) \/ SetPushState(c)
    PROVE  member'[v].muted
<1> DEFINE u == call[c].who
<1>1. /\ call[c] \in Call /\ GoodCall(call[c])
      /\ member[v] \in Row /\ member \in [Users -> Row]
  BY InvByParts DEF TypeOK
<1>2. ASSUME NEW field \in {"send", "muted", "push"},
             field = "muted" => call[c].value = TRUE,
             member' = [member EXCEPT ![u] = Updated(@, field, call[c].value)]
      PROVE  member'[v].muted
  <2>1. CASE v # u
    BY <1>1, <1>2, <2>1
  <2>2. CASE v = u /\ field = "muted"
    BY <1>1, <1>2, <2>2 DEF Updated, Row
  <2>3. CASE v = u /\ field # "muted"
    BY <1>1, <1>2, <2>3 DEF Updated, Row
  <2> QED
    BY <2>1, <2>2, <2>3
<1>3. CASE SetSendPermission(c)
  BY <1>2, <1>3 DEF SetSendPermission, SetField
<1>4. CASE SetPushState(c)
  BY <1>2, <1>4 DEF SetPushState, SetField
<1>5. CASE SetMuteState(c)
  <2>1. call[c].value = TRUE
    BY <1>1, <1>5 DEF SetMuteState, SetField, GoodCall
  <2> QED
    BY <1>2, <1>5, <2>1 DEF SetMuteState, SetField
<1> QED
  BY <1>3, <1>4, <1>5

(* The second statement of AddMember clears a mute only when the first one *)
(* did not read it.                                                        *)
LEMMA AddWriteKeepsSeenMutes ==
    ASSUME MembershipInv, NEW c \in Calls, AddWrite(c),
           NEW v \in Users, member[v].muted, ~member'[v].muted
    PROVE  StaleRejoin(v)
<1> DEFINE u == call[c].who
<1>1. /\ call[c] \in Call /\ GoodCall(call[c])
      /\ member[v] \in Row /\ GoodRow(v, member[v])
      /\ member \in [Users -> Row] /\ u \in Users
  BY InvByParts DEF TypeOK, Call
<1>2. call[c].pc = "addWrite" /\ backend = "postgres"
  BY <1>1 DEF AddWrite, GoodCall
<1>3. v = u
  BY <1>1 DEF AddWrite
<1>4. CASE call[c].seen.status = "left"
  <2>1. member'[v] = [JoinRow(u) EXCEPT !.muted = call[c].seen.muted]
    BY <1>1, <1>3, <1>4 DEF AddWrite
  <2>2. ~call[c].seen.muted
    BY <2>1 DEF JoinRow, NewRow
  <2> QED
    BY <1>2, <1>3, <2>2 DEF StaleRejoin
<1>5. CASE call[c].seen.status = "absent"
  <2>1. member[v].status # "absent"
    BY <1>1 DEF GoodRow
  <2>2. member'[v] = member[v]
    BY <1>1, <1>3, <1>5, <2>1 DEF AddWrite
  <2> QED
    BY <2>2
<1> QED
  BY <1>4, <1>5 DEF AddWrite

(* Every step of the server keeps all mutes, or is that one step.          *)
LEMMA StepKeepsMutes ==
    ASSUME MembershipInv, [MembershipNext]_membershipVars,
           NEW v \in Users, member[v].muted, ~member'[v].muted
    PROVE  StaleRejoin(v)
<1>1. member[v] \in Row /\ member \in [Users -> Row]
  BY DEF MembershipInv, TypeOK
<1>2. CASE UNCHANGED membershipVars
  BY <1>2 DEF membershipVars
<1>3. ASSUME NEW c \in Calls, Request(c) PROVE FALSE
  <2>1. CASE UNCHANGED member
    BY <2>1
  <2>2. ASSUME NEW u \in Users, LeaveChat(c, u) PROVE FALSE
    BY <1>1, <2>2 DEF LeaveChat, RemovedRow, Row
  <2> QED
    BY <1>3, <2>1, <2>2 DEF Request, JoinChat, MuteChat, UnmuteChat,
                            PromoteUser, DemoteUser, MuteUser
<1>4. ASSUME NEW c \in Calls, Serve(c) PROVE StaleRejoin(v)
  <2>1. CASE AddInMemory(c)
    BY <1>1, <2>1 DEF AddInMemory, MemoryAdded, JoinRow, NewRow
  <2>2. CASE AddWrite(c)
    BY <2>2, AddWriteKeepsSeenMutes
  <2>3. CASE SetSendPermission(c) \/ SetMuteState(c) \/ SetPushState(c)
    BY <2>3, SetterKeepsMutes
  <2>4. CASE AddSelect(c) \/ Abandon(c)
    BY <2>4 DEF AddSelect, Abandon
  <2> QED
    BY <1>4, <2>1, <2>2, <2>3, <2>4 DEF Serve
<1> QED
  BY <1>2, <1>3, <1>4 DEF MembershipNext

(* As a step that the action property speaks of.                           *)
LEMMA UnmuteStep ==
    MembershipInv /\ [MembershipNext]_membershipVars
        => [\A u \in Users :
              (member[u].muted /\ ~member'[u].muted) =>
                 /\ backend = "postgres"
                 /\ \E c \in Calls : /\ call[c].pc = "addWrite"
                                     /\ call[c].who = u
                                     /\ ~call[c].seen.muted]_membershipVars
  BY StepKeepsMutes DEF StaleRejoin

(* With the memory store mutes are permanent.  With the postgres store all *)
(* that takes one back is a JoinChat whose AddMember read the row before   *)
(* the mute was set.                                                       *)
THEOREM OnlyStaleRejoinsEverUnmute == MembershipSpec => OnlyStaleRejoinsUnmute
  BY UnmuteStep, MembershipInvariant, PTL DEF MembershipSpec, OnlyStaleRejoinsUnmute

=============================================================================

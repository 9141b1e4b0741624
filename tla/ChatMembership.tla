--------------------------- MODULE ChatMembership ---------------------------
(***************************************************************************)
(* The members of one group chat: the rows that chat.Store keeps and the   *)
(* RPC handlers of chat.Server that read and change them.  A handler that  *)
(* reads a row, decides, and writes later is two steps here, because the   *)
(* code takes no lock and no transaction around them.  The server runs on  *)
(* one backend: "memory" does each store call under its mutex, "postgres"  *)
(* does AddMember as a SELECT followed by an INSERT or an UPDATE.          *)
(*                                                                         *)
(* Events and announcements the handlers publish after their write are not *)
(* state of this module.  The room, its owner and its type never change.   *)
(***************************************************************************)
EXTENDS Naturals, FiniteSets

CONSTANTS Users,        \* the users that may be members
          Owner,        \* the owner recorded in the chat metadata
          Registered,   \* the users whose account is registered
          Calls,        \* slots for RPCs in progress at the same time
          Backends      \* the kinds of chat.Store the server may run on

ASSUME MembershipAssumption ==
    /\ Owner \in Users
    /\ Registered \subseteq Users
    /\ Backends \subseteq {"memory", "postgres"}

VARIABLES member,   \* member[u]: the row of u, "absent" when there is none
          call,     \* call[c]: the RPC occupying slot c
          backend   \* the store behind this server, chosen when it starts

membershipVars == <<member, call, backend>>
-----------------------------------------------------------------------------
(* Rows of the members table.  "left" is a row with isSoftDeleted set.     *)
Row == [status: {"absent", "active", "left"},
        muted: BOOLEAN, push: BOOLEAN, mod: BOOLEAN, send: BOOLEAN]

NoRow == [status |-> "absent", muted |-> FALSE, push |-> FALSE,
          mod |-> FALSE, send |-> FALSE]

IsMember(u) == member[u].status = "active"

(* The row a first AddMember creates: push is on whatever the caller says. *)
NewRow(mod, send) == [status |-> "active", muted |-> FALSE, push |-> TRUE,
                      mod |-> mod, send |-> send]

(* The permissions JoinChat asks for: the owner comes back with both,      *)
(* everyone else is a spectator.                                           *)
JoinRow(u) == NewRow(u = Owner, u = Owner)

(* RemoveMember: the row stays, soft deleted.  Only the mute outlives it.  *)
(* Postgres skips a row that left before, which has these values already.  *)
RemovedRow(row) ==
    IF row.status = "absent" THEN row
    ELSE [row EXCEPT !.status = "left", !.push = TRUE,
                     !.mod = FALSE, !.send = FALSE]

(* AddMember of the memory store, one critical section: an existing row,   *)
(* active or not, takes the new permissions and keeps its mute.            *)
MemoryAdded(row, new) == [new EXCEPT !.muted = row.muted \/ new.muted]

(* Mutant: the setters do not look at isSoftDeleted.                       *)
UpdatedEvenIfLeft(row, field, value) ==
    IF row.status # "absent" THEN [row EXCEPT ![field] = value] ELSE row

(* The three setters.  Their WHERE clause skips soft deleted rows, as the  *)
(* memory store does, so a row that left meanwhile is not touched.         *)
Updated(row, field, value) ==
    IF row.status = "active" THEN [row EXCEPT ![field] = value] ELSE row
-----------------------------------------------------------------------------
(* An RPC in progress: the write it is about to do, on whom, and what its  *)
(* AddMember has read.                                                     *)
Pc == {"idle", "add", "addWrite", "setSend", "setMute", "setPush"}

Call == [pc: Pc, who: Users, value: BOOLEAN,
         seen: [status: {"absent", "left"}, muted: BOOLEAN]]

NothingSeen == [status |-> "absent", muted |-> FALSE]

NoCall == [pc |-> "idle", who |-> Owner, value |-> FALSE, seen |-> NothingSeen]

Pending(pc, u, value) ==
    [pc |-> pc, who |-> u, value |-> value, seen |-> NothingSeen]

Idle(c) == call[c].pc = "idle"

Return(c) == call' = [call EXCEPT ![c] = NoCall]

(* The group as StartChat leaves it.  Its loop adds the invited users and  *)
(* then the owner, one AddMember after the other, and stops at the first   *)
(* that fails: any set of users may have made it.                          *)
MembershipInit ==
    /\ \E added \in SUBSET Users :
          member = [u \in Users |-> IF u \in added THEN NewRow(u = Owner, TRUE)
                                                  ELSE NoRow]
    /\ call = [c \in Calls |-> NoCall]
    /\ backend \in Backends
-----------------------------------------------------------------------------
(* JoinChat up to the store call.  Nothing it checks can change later: who *)
(* owns the chat, and whether the request is for a spectator.              *)
JoinChat(c, u) ==
    /\ Idle(c)
    /\ call' = [call EXCEPT ![c] = Pending("add", u, FALSE)]
    /\ UNCHANGED member

AddInMemory(c) ==
    /\ backend = "memory"
    /\ call[c].pc = "add"
    /\ LET u == call[c].who
       IN member' = [member EXCEPT ![u] = MemoryAdded(@, JoinRow(u))]
    /\ Return(c)

(* dbAdd, first statement.  An active row ends the call without a write.   *)
AddSelect(c) ==
    /\ backend = "postgres"
    /\ call[c].pc = "add"
    /\ LET row == member[call[c].who]
       IN IF row.status = "active"
          THEN Return(c)
          ELSE call' = [call EXCEPT ![c].pc = "addWrite",
                                    ![c].seen = [status |-> row.status,
                                                 muted |-> row.muted]]
    /\ UNCHANGED member

(* Mutant: the second statement forgets the mute that the first one read.  *)
AddWriteUnmuted(c) ==
    /\ call[c].pc = "addWrite"
    /\ LET u == call[c].who
       IN member' = [member EXCEPT
                       ![u] = IF call[c].seen.status = "left" \/ @.status = "absent"
                              THEN JoinRow(u) ELSE @]
    /\ Return(c)

(* dbAdd, second statement.  The INSERT fails on the primary key when some *)
(* other call inserted the row first.  The UPDATE does not look at the row *)
(* again: it writes the mute that the SELECT returned.                     *)
AddWrite(c) ==
    /\ call[c].pc = "addWrite"
    /\ LET u == call[c].who
           seen == call[c].seen
       IN  \/ /\ seen.status = "left"
              /\ member' = [member EXCEPT
                              ![u] = [JoinRow(u) EXCEPT !.muted = seen.muted]]
           \/ /\ seen.status = "absent"
              /\ member' = [member EXCEPT
                              ![u] = IF @.status = "absent" THEN JoinRow(u) ELSE @]
    /\ Return(c)

LeaveChat(c, u) ==
    /\ Idle(c)
    /\ member' = [member EXCEPT ![u] = RemovedRow(@)]
    /\ UNCHANGED call

(* PromoteUser and DemoteUser: all checks, ending just before the write.   *)
(* Every early return leaves the state alone.                              *)
PromoteUser(c, by, u) ==
    /\ Idle(c)
    /\ by # u
    /\ by = Owner
    /\ IsMember(u)
    /\ u \in Registered
    /\ ~member[u].send
    /\ call' = [call EXCEPT ![c] = Pending("setSend", u, TRUE)]
    /\ UNCHANGED member

(* Mutant: the owner may be demoted.                                       *)
DemoteAnyone(c, by, u) ==
    /\ Idle(c)
    /\ by = Owner
    /\ IsMember(u)
    /\ member[u].send
    /\ call' = [call EXCEPT ![c] = Pending("setSend", u, FALSE)]
    /\ UNCHANGED member

DemoteUser(c, by, u) ==
    /\ Idle(c)
    /\ by # u
    /\ by = Owner
    /\ IsMember(u)
    /\ member[u].send
    /\ call' = [call EXCEPT ![c] = Pending("setSend", u, FALSE)]
    /\ UNCHANGED member

MuteUser(c, by, u) ==
    /\ Idle(c)
    /\ by # u
    /\ by = Owner
    /\ IsMember(u)
    /\ ~member[u].muted
    /\ call' = [call EXCEPT ![c] = Pending("setMute", u, TRUE)]
    /\ UNCHANGED member

(* MuteChat and UnmuteChat: turning pushes off and on for oneself.         *)
MuteChat(c, u) ==
    /\ Idle(c)
    /\ IsMember(u)
    /\ call' = [call EXCEPT ![c] = Pending("setPush", u, FALSE)]
    /\ UNCHANGED member

UnmuteChat(c, u) ==
    /\ Idle(c)
    /\ IsMember(u)
    /\ call' = [call EXCEPT ![c] = Pending("setPush", u, TRUE)]
    /\ UNCHANGED member

SetField(c, pc, field) ==
    /\ call[c].pc = pc
    /\ member' = [member EXCEPT
                    ![call[c].who] = Updated(@, field, call[c].value)]
    /\ Return(c)

SetSendPermission(c) == SetField(c, "setSend", "send")
SetMuteState(c) == SetField(c, "setMute", "muted")
SetPushState(c) == SetField(c, "setPush", "push")

(* A store error, a cancelled request or a restart between two steps.      *)
Abandon(c) ==
    /\ ~Idle(c)
    /\ Return(c)
    /\ UNCHANGED member

Serve(c) ==
    \/ AddInMemory(c) \/ AddSelect(c) \/ AddWrite(c)
    \/ SetSendPermission(c) \/ SetMuteState(c) \/ SetPushState(c)
    \/ Abandon(c)

Request(c) ==
    \/ \E u \in Users : JoinChat(c, u) \/ LeaveChat(c, u)
                        \/ MuteChat(c, u) \/ UnmuteChat(c, u)
    \/ \E by, u \in Users : PromoteUser(c, by, u) \/ DemoteUser(c, by, u)
                            \/ MuteUser(c, by, u)

MembershipNext ==
    /\ \E c \in Calls : Serve(c) \/ Request(c)
    /\ UNCHANGED backend

MembershipSpec == MembershipInit /\ [][MembershipNext]_membershipVars
-----------------------------------------------------------------------------
TypeOK ==
    /\ member \in [Users -> Row]
    /\ call \in [Calls -> Call]
    /\ backend \in Backends

(* Whatever RPCs overlap, a user who is not a member keeps no permission,  *)
(* and a soft deleted row has pushes back at their default: a setter that  *)
(* checked the row before it was removed must not write to it afterwards.  *)
FormerMembersHoldNothing ==
    \A u \in Users : ~IsMember(u) =>
        /\ ~member[u].send /\ ~member[u].mod
        /\ member[u].status = "left" => member[u].push

(* The owner cannot lose control of the room: whenever the owner is a      *)
(* member the owner moderates, may speak and is not muted, through any     *)
(* sequence of leaving, rejoining, promotions, demotions and mutes, and    *)
(* nobody else ever moderates.                                             *)
OwnerInControl ==
    /\ IsMember(Owner) =>
          member[Owner].mod /\ member[Owner].send /\ ~member[Owner].muted
    /\ \A u \in Users \ {Owner} : ~member[u].mod

(* A mute is permanent: no RPC takes it back, not even leaving and joining *)
(* again (chat/tests/server.go names the behaviour, AddMember carries the  *)
(* old mute into the new row).                                             *)
MuteIsPermanent ==
    [][\A u \in Users : member[u].muted => member'[u].muted]_membershipVars

(* What can take a mute back is one thing only: a JoinChat on the postgres *)
(* store whose AddMember read the row before the mute was set.  Leaving,   *)
(* joining afterwards, promotions and the memory store never do.           *)
OnlyStaleRejoinsUnmute ==
    [][\A u \in Users :
          (member[u].muted /\ ~member'[u].muted) =>
             /\ backend = "postgres"
             /\ \E c \in Calls : /\ call[c].pc = "addWrite"
                                 /\ call[c].who = u
                                 /\ ~call[c].seen.muted]_membershipVars

=============================================================================

---------------------------- MODULE ChatSettings ----------------------------
(***************************************************************************)
(* The settings of one group chat (name, description, messaging fee, open  *)
(* status), its last activity, and what the chat stream of one member      *)
(* shows of them.  A setter reads the metadata, stores a value that        *)
(* differs, and publishes it; every event is handled by a goroutine of its *)
(* own; a new stream is registered first and then flushed with the         *)
(* metadata that the flush reads.  Every stored value has the number of    *)
(* the write that stored it.                                               *)
(***************************************************************************)
EXTENDS Naturals

CONSTANTS Setters,      \* slots for setter calls in progress
          MaxChanges,   \* bound on the number of setter calls
          MaxPosts      \* bound on the number of messages

ASSUME SettingsAssumption == MaxChanges \in Nat /\ MaxPosts \in Nat

Settings == {"name", "description", "fee", "open"}
Fields   == Settings \union {"activity"}

(* "unset" is no name, no description, no fee, closed, never active.       *)
Values == {"unset", "low", "high"}

(* What a request may ask for: a fee is an amount, open status a switch.   *)
Requestable(f) ==
    CASE f = "fee"  -> {"low", "high"}
      [] f = "open" -> {"unset", "high"}
      [] OTHER      -> Values

VARIABLES
  onPostgres,   \* the chat store in use
  metadata,     \* the chat's row
  writes,       \* number of writes so far, and of messages sent, per field
  setter,       \* the setter calls
  wire,         \* published events that are not yet handled
  chatStream,   \* the member's stream: "none", "registered", "read" or "flushed"
  snapshot,     \* the metadata that the flush has read
  view,         \* what the stream last delivered of each field
  newest,       \* the highest write number the stream delivered of each field
  overtaken,    \* an older state of the field was delivered after a newer one
  changes       \* number of setter calls so far

settingsVars == <<onPostgres, metadata, writes, setter, wire, chatStream, snapshot,
                  view, newest, overtaken, changes>>

Stored == [value: Values, write: 0..(MaxChanges + MaxPosts)]
Event  == [field: Fields, stored: Stored]
Setter == [pc: {"idle", "store", "publish"}, event: Event]

Nothing(f) == [field |-> f, stored |-> [value |-> "unset", write |-> 0]]
NoSetter   == [pc |-> "idle", event |-> Nothing("name")]

SettingsInit ==
    /\ onPostgres \in BOOLEAN
    /\ \E fee \in {"unset", "low"} :
          metadata = [f \in Fields |-> [value |-> IF f = "fee" THEN fee ELSE "unset", write |-> 0]]
    /\ writes = [f \in Fields |-> 0]
    /\ setter = [c \in Setters |-> NoSetter]
    /\ wire = {}
    /\ chatStream = "none"
    /\ snapshot = metadata
    /\ view = metadata
    /\ newest = [f \in Fields |-> 0]
    /\ overtaken = [f \in Fields |-> FALSE]
    /\ changes = 0

-----------------------------------------------------------------------------
(* SetDisplayName, SetDescription, SetMessagingFee, OpenChat and CloseChat *)
(* by the owner.  A value that is stored already is answered OK at once; a *)
(* chat without a fee cannot be given one.                                 *)
RequestSetting(c, f, v) ==
    /\ changes < MaxChanges
    /\ setter[c].pc = "idle"
    /\ v # metadata[f].value
    /\ f = "fee" => metadata[f].value # "unset"
    /\ setter' = [setter EXCEPT ![c] =
                     [pc |-> "store", event |-> [Nothing(f) EXCEPT !.stored.value = v]]]
    /\ changes' = changes + 1
    /\ UNCHANGED <<onPostgres, metadata, writes, wire, chatStream, snapshot, view, newest, overtaken>>

(* A name the moderation refuses, or a store that fails.                   *)
RefuseSetting(c) ==
    /\ setter[c].pc = "store"
    /\ setter' = [setter EXCEPT ![c] = NoSetter]
    /\ UNCHANGED <<onPostgres, metadata, writes, wire, chatStream, snapshot, view, newest,
                   overtaken, changes>>

StoreSetting(c) ==
    LET f == setter[c].event.field
        e == [setter[c].event EXCEPT !.stored.write = writes[f] + 1]
    IN /\ setter[c].pc = "store"
       /\ metadata' = [metadata EXCEPT ![f] = e.stored]
       /\ writes' = [writes EXCEPT ![f] = @ + 1]
       /\ setter' = [setter EXCEPT ![c] = [pc |-> "publish", event |-> e]]
       /\ UNCHANGED <<onPostgres, wire, chatStream, snapshot, view, newest, overtaken, changes>>

(* For a name and a fee this is the end of a goroutine that first sends an *)
(* announcement, and runs on after the reply.                              *)
PublishSetting(c) ==
    /\ setter[c].pc = "publish"
    /\ wire' = wire \union {setter[c].event}
    /\ setter' = [setter EXCEPT ![c] = NoSetter]
    /\ UNCHANGED <<onPostgres, metadata, writes, chatStream, snapshot, view, newest,
                   overtaken, changes>>

(* A message with user content is stored and published; its number stands  *)
(* for its timestamp.                                                      *)
PostMessage ==
    LET sent == [value |-> "high", write |-> writes["activity"] + 1]
    IN /\ writes["activity"] < MaxPosts
       /\ writes' = [writes EXCEPT !["activity"] = @ + 1]
       /\ wire' = wire \union {[field |-> "activity", stored |-> sent]}
       /\ UNCHANGED <<onPostgres, metadata, setter, chatStream, snapshot, view, newest,
                      overtaken, changes>>

-----------------------------------------------------------------------------
(* Memory keeps the later timestamp, postgres the one that is stored last. *)
AdvanceLastChatActivity(stored) ==
    IF onPostgres \/ stored.write >= metadata["activity"].write
      THEN [metadata EXCEPT !["activity"] = stored]
      ELSE metadata

(* What the stream delivers of the fields in F is now what shows.          *)
Show(F, seen) ==
    /\ view' = [f \in Fields |-> IF f \in F THEN seen[f] ELSE view[f]]
    /\ newest' = [f \in Fields |->
                     IF f \in F /\ seen[f].write > newest[f] THEN seen[f].write ELSE newest[f]]
    /\ overtaken' = [f \in Fields |-> overtaken[f] \/ (f \in F /\ seen[f].write < newest[f])]

(* Mutant: a stream is looked up only once it has been flushed.            *)
OnChatEventFlushed(e) ==
    /\ e \in wire
    /\ wire' = wire \ {e}
    /\ metadata' = IF e.field = "activity" THEN AdvanceLastChatActivity(e.stored) ELSE metadata
    /\ IF chatStream = "flushed"
         THEN Show({e.field}, [f \in Fields |-> e.stored])
         ELSE UNCHANGED <<view, newest, overtaken>>
    /\ UNCHANGED <<onPostgres, writes, setter, chatStream, snapshot, changes>>

(* An event of the member's chat, to the stream if there is one.  When the *)
(* handler finds the stream but is slow to notify it, it is handled later. *)
OnChatEvent(e) ==
    /\ e \in wire
    /\ wire' = wire \ {e}
    /\ metadata' = IF e.field = "activity" THEN AdvanceLastChatActivity(e.stored) ELSE metadata
    /\ IF chatStream # "none"
         THEN Show({e.field}, [f \in Fields |-> e.stored])
         ELSE UNCHANGED <<view, newest, overtaken>>
    /\ UNCHANGED <<onPostgres, writes, setter, chatStream, snapshot, changes>>

(* StreamChatEvents registers the stream, then starts the flush.           *)
RegisterStream ==
    /\ chatStream = "none"
    /\ chatStream' = "registered"
    /\ UNCHANGED <<onPostgres, metadata, writes, setter, wire, snapshot, view, newest,
                   overtaken, changes>>

(* flushInitialState reads the metadata ...                                *)
ReadMetadata ==
    /\ chatStream = "registered"
    /\ chatStream' = "read"
    /\ snapshot' = metadata
    /\ UNCHANGED <<onPostgres, metadata, writes, setter, wire, view, newest, overtaken, changes>>

(* ... and notifies the stream of all of it.                               *)
FlushMetadata ==
    /\ chatStream = "read"
    /\ chatStream' = "flushed"
    /\ Show(Fields, snapshot)
    /\ UNCHANGED <<onPostgres, metadata, writes, setter, wire, snapshot, changes>>

SettingsNext ==
    \/ \E c \in Setters, f \in Settings : \E v \in Requestable(f) : RequestSetting(c, f, v)
    \/ \E c \in Setters : RefuseSetting(c) \/ StoreSetting(c) \/ PublishSetting(c)
    \/ PostMessage
    \/ \E e \in wire : OnChatEvent(e)
    \/ RegisterStream
    \/ ReadMetadata
    \/ FlushMetadata

SettingsSpec == SettingsInit /\ [][SettingsNext]_settingsVars

-----------------------------------------------------------------------------
(* Every variable has its type; nothing stored or shown has a number that  *)
(* was not given out.                                                      *)
SettingsTypeOK ==
    /\ onPostgres \in BOOLEAN
    /\ metadata \in [Fields -> Stored]
    /\ writes \in [Fields -> 0..(MaxChanges + MaxPosts)]
    /\ setter \in [Setters -> Setter]
    /\ wire \subseteq Event
    /\ chatStream \in {"none", "registered", "read", "flushed"}
    /\ snapshot \in [Fields -> Stored]
    /\ view \in [Fields -> Stored]
    /\ newest \in [Fields -> 0..(MaxChanges + MaxPosts)]
    /\ overtaken \in [Fields -> BOOLEAN]
    /\ changes \in 0..MaxChanges
    /\ \A f \in Fields : metadata[f].write <= writes[f] /\ newest[f] <= writes[f]

Quiet == wire = {} /\ chatStream = "flushed" /\ \A c \in Setters : setter[c].pc = "idle"

(* Registering the stream before the flush reads leaves no gap: when       *)
(* everything has been handled, the stream has delivered every field at    *)
(* least as new as the row, and still shows it, except a field of which an *)
(* older event, or the flush, came in behind a newer one; and the row has  *)
(* the last write of every field, in whatever order the handlers of two    *)
(* messages advanced its activity, unless that was on postgres.            *)
QuietStreamIsCurrent ==
    Quiet => \A f \in Fields :
                /\ newest[f] >= metadata[f].write
                /\ view[f].write >= metadata[f].write \/ overtaken[f]
                /\ metadata[f].write = writes[f] \/ (onPostgres /\ f = "activity")
=============================================================================

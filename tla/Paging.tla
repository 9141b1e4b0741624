------------------------------- MODULE Paging -------------------------------
(***************************************************************************)
(* The messages of one chat as they are stored, read page by page and      *)
(* counted as unread.  Message ids are UUIDs of version 7: a process hands *)
(* them out in increasing order, and pages and unread counts go by them.   *)
(* The memory store makes the id and stores the message under one lock;    *)
(* the postgres store makes the id first and inserts the row afterwards.   *)
(***************************************************************************)
EXTENDS FiniteSetsExt, FiniteSets, Integers

CONSTANTS Members,       \* users who send and read
          Nobody,        \* the sender of an announcement
          Puts,          \* slots for inserts in progress
          MaxMessages,   \* bound on the number of messages
          PageLimits,    \* the page sizes a client asks for
          MaxUnread      \* MaxUnreadCount

ASSUME PagingAssumption ==
    /\ Nobody \notin Members
    /\ MaxMessages \in Nat /\ MaxUnread \in Nat /\ PageLimits \subseteq Nat \ {0}

VARIABLES messages,   \* the rows of the chat
          nextId,     \* the next id that MustGenerateMessageID returns
          put,        \* put[p]: a message with an id that is not stored yet
          late,       \* rows that were stored after a row with a later id
          walk,       \* a member reading all messages, a page at a time
          onPostgres  \* which MessageStore the server runs on

pagingVars == <<messages, nextId, put, late, walk, onPostgres>>

MessageIds == 1..MaxMessages
Row == [id: MessageIds, sender: Members, kind: {"text", "reaction"}]
         \union [id: MessageIds, sender: {Nobody}, kind: {"announcement"}]
NoPut == [id |-> 0]
NoWalk == [done |-> TRUE]

(* before: the rows there were when the walk began; seen, count: the rows  *)
(* the pages held, and how many that was with repetitions.                 *)
Walk == [reader: Members, order: {"ASC", "DESC"}, limit: PageLimits, token: 0..MaxMessages,
         before: SUBSET Row, seen: SUBSET Row, count: Nat, done: BOOLEAN]

Precedes(order, m, n) == IF order = "ASC" THEN m.id < n.id ELSE m.id > n.id

(* The rows that the stores keep: without a token, all of them.            *)
AfterToken(order, token) ==
    {m \in messages : \/ token = 0
                      \/ order = "ASC" /\ m.id > token
                      \/ order = "DESC" /\ m.id < token}

(* The first limit of them in the order: the memory store cuts its list,   *)
(* kept sorted by id, or the reverse of it; postgres has ORDER BY, LIMIT.  *)
Page(order, token, limit) ==
    LET rows == AfterToken(order, token)
    IN {m \in rows : Cardinality({n \in rows : Precedes(order, n, m)}) < limit}

LastOf(order, page) == CHOOSE m \in page : \A n \in page : ~Precedes(order, m, n)

(* Texts and replies of others after the read pointer, at most limit.      *)
UnreadRows(reader, read) ==
    {m \in messages : m.sender # reader /\ m.kind = "text" /\ m.id > read}

CountUnread(reader, read, limit) == Min({Cardinality(UnreadRows(reader, read)), limit})

(* Mutant: one row too few is asked for to tell that there are more.       *)
GetUnreadCountOfMax(reader, read) ==
    LET unread == CountUnread(reader, read, MaxUnread)
    IN IF unread > MaxUnread THEN <<MaxUnread, TRUE>> ELSE <<unread, FALSE>>

GetUnreadCount(reader, read) ==
    LET unread == CountUnread(reader, read, MaxUnread + 1)
    IN IF unread > MaxUnread THEN <<MaxUnread, TRUE>> ELSE <<unread, FALSE>>

PagingInit ==
    /\ messages = {}
    /\ nextId = 1
    /\ put = [p \in Puts |-> NoPut]
    /\ late = {}
    /\ walk = NoWalk
    /\ onPostgres \in BOOLEAN

(* Under the lock: id, append, sort.                                       *)
PutInMemory(m) ==
    /\ ~onPostgres
    /\ nextId <= MaxMessages
    /\ m.id = nextId
    /\ messages' = messages \union {m}
    /\ nextId' = nextId + 1
    /\ UNCHANGED <<put, late, walk, onPostgres>>

GenerateId(p, m) ==
    /\ onPostgres
    /\ nextId <= MaxMessages
    /\ put[p] = NoPut
    /\ m.id = nextId
    /\ put' = [put EXCEPT ![p] = m]
    /\ nextId' = nextId + 1
    /\ UNCHANGED <<messages, late, walk, onPostgres>>

(* The row, or an error of the INSERT: the id is then never used.          *)
InsertMessage(p) ==
    /\ put[p] # NoPut
    /\ put' = [put EXCEPT ![p] = NoPut]
    /\ \/ /\ messages' = messages \union {put[p]}
          /\ late' = IF \E m \in messages : m.id > put[p].id THEN late \union {put[p]} ELSE late
       \/ UNCHANGED <<messages, late>>
    /\ UNCHANGED <<nextId, walk, onPostgres>>

StartWalk(reader, order, limit) ==
    /\ walk.done
    /\ walk' = [reader |-> reader, order |-> order, limit |-> limit, token |-> 0,
                before |-> messages, seen |-> {}, count |-> 0, done |-> FALSE]
    /\ UNCHANGED <<messages, nextId, put, late, onPostgres>>

(* Mutant: the next page begins behind the message after the last one.     *)
GetNextPagePast ==
    /\ ~walk.done
    /\ LET page == Page(walk.order, walk.token, walk.limit)
       IN walk' = [walk EXCEPT !.token = IF page = {} THEN walk.token
                                         ELSE Min({LastOf(walk.order, page).id + 1, MaxMessages}),
                               !.seen = walk.seen \union page,
                               !.count = walk.count + Cardinality(page),
                               !.done = page = {}]
    /\ UNCHANGED <<messages, nextId, put, late, onPostgres>>

(* GetMessages with the id of the last message as the paging token.        *)
GetNextPage ==
    /\ ~walk.done
    /\ LET page == Page(walk.order, walk.token, walk.limit)
       IN walk' = [walk EXCEPT !.token = IF page = {} THEN walk.token
                                         ELSE LastOf(walk.order, page).id,
                               !.seen = walk.seen \union page,
                               !.count = walk.count + Cardinality(page),
                               !.done = page = {}]
    /\ UNCHANGED <<messages, nextId, put, late, onPostgres>>

PagingNext ==
    \/ \E m \in Row : PutInMemory(m) \/ \E p \in Puts : GenerateId(p, m)
    \/ \E p \in Puts : InsertMessage(p)
    \/ \E r \in Members, o \in {"ASC", "DESC"}, l \in PageLimits : StartWalk(r, o, l)
    \/ GetNextPage

PagingSpec == PagingInit /\ [][PagingNext]_pagingVars

-----------------------------------------------------------------------------
Walking == walk # NoWalk

(* What a walk has passed: everything up to its token, from its end.       *)
Passed(m) == /\ walk.token # 0
             /\ IF walk.order = "ASC" THEN m.id <= walk.token ELSE m.id >= walk.token

(* Types; a message in flight is not stored, and ids are used once.        *)
PagingTypeOK ==
    /\ messages \subseteq Row
    /\ nextId \in 1..(MaxMessages + 1)
    /\ put \in [Puts -> Row \union {NoPut}]
    /\ late \subseteq messages
    /\ Walking => walk \in Walk
    /\ onPostgres \in BOOLEAN
    /\ \A m, n \in messages \union ({put[p] : p \in Puts} \ {NoPut}) : m.id = n.id => m = n

(* A walk holds each message once, however messages are stored meanwhile,  *)
(* and whichever way it goes it has passed nothing that was there when it  *)
(* began without holding it.  An ascending walk may be used to catch up:   *)
(* what it has passed and not held was stored after a message with a later *)
(* id, which only the postgres store does.                                 *)
WalksAreComplete ==
    Walking => /\ walk.count = Cardinality(walk.seen)
               /\ \A m \in walk.before : Passed(m) \/ walk.done => m \in walk.seen
               /\ walk.order = "ASC" => \A m \in messages :
                     Passed(m) /\ m \notin walk.seen => m \in late /\ onPostgres

(* A reader who marks as read what an ascending walk held is told exactly  *)
(* how many texts of others it has not held, up to MaxUnread, and whether  *)
(* there are more; the late rows it skipped are the ones never counted.    *)
UnreadIsWhatWasNotPaged ==
    Walking /\ walk.order = "ASC"
        => LET missing == {m \in messages \ walk.seen : m.sender # walk.reader /\ m.kind = "text"}
               counted == {m \in missing : ~(m \in late /\ Passed(m))}
               unread == Cardinality(counted)
           IN GetUnreadCount(walk.reader, walk.token)
                = <<Min({unread, MaxUnread}), unread > MaxUnread>>
=============================================================================

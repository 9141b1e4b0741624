---------------------------- MODULE ChatsProofs -----------------------------
(***************************************************************************)
(* Proofs about chats before and beside their messages: how they are       *)
(* started (StartChat), how their settings change and are shown            *)
(* (ChatSettings), what payments for them are good for (PaymentIntents),   *)
(* and the type invariant of the three together.                           *)
(***************************************************************************)
EXTENDS MCChats, TLAPS, FiniteSetTheorems

-----------------------------------------------------------------------------
(***************************************************************************)
(* StartChat, for any users, invitations, payments and number of calls, on *)
(* both stores: rooms are numbered in order, a pair shares one chat, a     *)
(* payment is spent on one chat, and whoever is told that a two-way chat   *)
(* is there finds both in it.                                              *)
(***************************************************************************)

(* A call that has its chat: it is the one it asked for, and the members   *)
(* up to the current one are in it.  Of a two-way chat no goroutine        *)
(* reports anything, so that err says what AddMember returned.             *)
HasChat(d) ==
    /\ d.chat \in DOMAIN chats
    /\ chats[d.chat].pair = d.pair
    /\ chats[d.chat].intent = d.intent
    /\ d.pair # {} =>
          /\ ~d.notifying
          /\ \A n \in 1..d.added : d.invited[n] \in chats[d.chat].members
          /\ d.pc = "check" /\ ~d.err => d.invited[d.added + 1] \in chats[d.chat].members

GoodCall(d) ==
    /\ d.pc \in {"mark", "markInsert", "add", "check"} => HasChat(d)
    /\ d.pc \in {"mark", "markInsert"} => d.intent # NoIntent
    /\ d.pc = "markInsert" => backend = "postgres"
    /\ d.pc = "insert" => d.room \in 1..(Len(chats) + 1)
    /\ d.pair # {} => d.intent = NoIntent
    /\ d.pc # "idle" => d.added + 1 \in DOMAIN d.invited
    /\ ~(d.pc \in {"add", "check"}) => ~d.notifying /\ d.added = 0

(* A two-way chat is not paid for.                                         *)
GoodChats == \A k \in DOMAIN chats : chats[k].pair # {} => chats[k].intent = NoIntent

GoodAnswers == \A a \in answered : a.chat \in DOMAIN chats

Claims(c) == call[c].pc \in {"add", "check"} /\ call[c].intent # NoIntent

(* With the memory store a payment that is spent belongs to one call in    *)
(* progress, or to the chat of one that was answered.                      *)
OneClaim ==
    backend = "memory" =>
        /\ \A a \in answered : chats[a.chat].intent \in fulfilled \cup {NoIntent}
        /\ \A c \in Calls : Claims(c) =>
              /\ call[c].intent \in fulfilled
              /\ \A a \in answered :
                    chats[a.chat].intent = call[c].intent => a.chat = call[c].chat
        /\ \A c, d \in Calls :
              Claims(c) /\ Claims(d) /\ call[c].intent = call[d].intent => c = d

StartInv ==
    /\ TypeOK
    /\ \A c \in Calls : GoodCall(call[c])
    /\ GoodChats
    /\ GoodAnswers
    /\ OneClaim
    /\ RoomsAreNumberedInOrder
    /\ OneChatPerPair
    /\ FulfilledMeansCreated
    /\ OneChatPerPayment
    /\ OkMeansBothAreIn

-----------------------------------------------------------------------------
(* A call as it begins, and the empty slot.                                *)
LEMMA BeginType ==
    ASSUME NEW pair \in SUBSET Users, NEW invited \in Seq(Users), NEW i \in Intents \cup {NoIntent}
    PROVE  Begin(pair, invited, i) \in Call
  BY DEF Begin, Call, Pcs

(* A slot nobody uses is as it should be.                                  *)
LEMMA NoCallGood == NoCall \in Call /\ GoodCall(NoCall) /\ NoCall.pc = "idle"
<1>0. {} \in SUBSET Users /\ <<>> \in Seq(Users) /\ NoIntent \in Intents \cup {NoIntent}
  OBVIOUS
<1>1. Begin({}, <<>>, NoIntent) \in Call
  BY <1>0, BeginType
<1> QED
  BY <1>1 DEF NoCall, Call, Pcs, GoodCall, Begin

(* Nothing is there in the beginning.                                      *)
LEMMA InitInv == Init => StartInv
<1> SUFFICES ASSUME Init PROVE StartInv
  OBVIOUS
<1>1. TypeOK
  BY NoCallGood DEF Init, TypeOK
<1>2. \A c \in Calls : GoodCall(call[c]) /\ call[c].pc = "idle"
  BY NoCallGood DEF Init
<1> QED
  BY <1>1, <1>2
     DEF Init, StartInv, GoodChats, GoodAnswers, OneClaim, Claims, RoomsAreNumberedInOrder,
         OneChatPerPair, FulfilledMeansCreated, OneChatPerPayment, OkMeansBothAreIn

-----------------------------------------------------------------------------
(* Chats are only added to, at the end, and to their members.              *)
ChatsGrow ==
    /\ DOMAIN chats \subseteq DOMAIN chats'
    /\ Len(chats) <= Len(chats')
    /\ \A k \in DOMAIN chats :
          /\ chats'[k].pair = chats[k].pair
          /\ chats'[k].room = chats[k].room
          /\ chats'[k].intent = chats[k].intent
          /\ chats[k].members \subseteq chats'[k].members

(* The calls that do not step stay good when chats grow.                   *)
LEMMA GrowthKeepsCalls ==
    ASSUME StartInv, ChatsGrow, UNCHANGED backend, NEW c \in Calls,
           \A e \in Calls \ {c} : call'[e] = call[e],
           GoodCall(call[c])'
    PROVE  \A e \in Calls : GoodCall(call[e])'
<1> SUFFICES ASSUME NEW e \in Calls, e # c PROVE GoodCall(call[e])'
  OBVIOUS
<1> DEFINE d == call[e]
<1>1. d \in Call /\ GoodCall(d) /\ call'[e] = d /\ TypeOK
  BY DEF StartInv, TypeOK
<1>2. HasChat(d) => HasChat(call[e])'
  BY <1>1 DEF HasChat, ChatsGrow, TypeOK, Chat, Call
<1>3. Len(chats) \in Nat /\ Len(chats') >= Len(chats) /\ Len(chats) + 1 \in Nat
  BY <1>1 DEF TypeOK, ChatsGrow
<1>4. d.pc = "insert" => d.room \in 1..(Len(chats') + 1)
  BY <1>1, <1>3 DEF GoodCall, ChatsGrow
<1> QED
  BY <1>1, <1>2, <1>4 DEF GoodCall

(* Chats that stay as they are have grown by nothing.                      *)
LEMMA SameChatsGrow ==
    ASSUME TypeOK, UNCHANGED chats PROVE ChatsGrow
  BY DEF ChatsGrow, TypeOK

(* What one call does with the chats and payments as they are.             *)
LEMMA OneCallChanges ==
    ASSUME StartInv, NEW c \in Calls, NEW d \in Call,
           call' = [call EXCEPT ![c] = d],
           UNCHANGED <<chats, fulfilled, answered, backend>>,
           GoodCall(d),
           d.pc \in {"add", "check"} /\ d.intent # NoIntent =>
              Claims(c) /\ d.intent = call[c].intent /\ d.chat = call[c].chat
    PROVE  StartInv'
<1>1. TypeOK'
  BY DEF StartInv, TypeOK
<1>2. /\ \A e \in Calls : call'[e] = IF e = c THEN d ELSE call[e]
      /\ \A e \in Calls : call[e] \in Call
  BY DEF StartInv, TypeOK
<1>3. \A e \in Calls : GoodCall(call[e])'
  BY <1>2 DEF StartInv, GoodCall, HasChat
<1>4. OneClaim'
  <2>1. \A e \in Calls : Claims(e)' =>
           /\ Claims(e)
           /\ call'[e].intent = call[e].intent /\ call'[e].chat = call[e].chat
    BY <1>2 DEF Claims
  <2> QED
    BY <2>1 DEF StartInv, OneClaim
<1>5. /\ GoodChats' /\ GoodAnswers' /\ RoomsAreNumberedInOrder' /\ OneChatPerPair'
      /\ FulfilledMeansCreated' /\ OneChatPerPayment' /\ OkMeansBothAreIn'
  BY DEF StartInv, GoodChats, GoodAnswers, RoomsAreNumberedInOrder, OneChatPerPair,
         FulfilledMeansCreated, OneChatPerPayment, OkMeansBothAreIn
<1> QED
  BY <1>1, <1>3, <1>4, <1>5 DEF StartInv

(* A call that returns, with whatever answer, leaves chats and payments alone. *)
LEMMA ReturnKeepsInv ==
    ASSUME StartInv, NEW c \in Calls, Return(c),
           UNCHANGED <<chats, fulfilled, answered, backend>>
    PROVE  StartInv'
  BY NoCallGood, OneCallChanges DEF Return

(* A call comes in.                                                        *)
LEMMA StartKeepsInv ==
    ASSUME StartInv, NEW c \in Calls, UNCHANGED backend,
           \/ \E u \in Users, guests \in Guests, i \in Intents : StartGroup(c, u, guests, i)
           \/ \E u, other \in Users : StartTwoWay(c, u, other)
    PROVE  StartInv'
<1>1. ASSUME NEW pair \in SUBSET Users, NEW invited \in Seq(Users),
             NEW i \in Intents \cup {NoIntent}, pair # {} => i = NoIntent,
             invited # <<>>, call' = [call EXCEPT ![c] = Begin(pair, invited, i)],
             UNCHANGED <<chats, fulfilled, answered>>
      PROVE  StartInv'
  <2>1. Begin(pair, invited, i) \in Call
    BY BeginType
  <2>2. GoodCall(Begin(pair, invited, i)) /\ Begin(pair, invited, i).pc = "lookup"
    BY <1>1 DEF GoodCall, Begin
  <2> QED
    BY <1>1, <2>1, <2>2, OneCallChanges
<1>2. ASSUME NEW u \in Users, NEW guests \in Guests, NEW i \in Intents, StartGroup(c, u, guests, i)
      PROVE  StartInv'
  <2>1. guests \in Seq(Users) /\ Append(guests, u) \in Seq(Users) /\ Append(guests, u) # <<>>
    BY StartAssumption
  <2> QED
    BY <1>1, <1>2, <2>1 DEF StartGroup
<1>3. ASSUME NEW u \in Users, NEW other \in Users, StartTwoWay(c, u, other)
      PROVE  StartInv'
  <2>1. <<u, other>> \in Seq(Users) /\ <<u, other>> # <<>>
    OBVIOUS
  <2> QED
    BY <1>1, <1>3, <2>1 DEF StartTwoWay
<1> QED
  BY <1>2, <1>3

-----------------------------------------------------------------------------
(* The rooms are 1 to the number of chats, so the largest is that number.  *)
LEMMA LargestIsLast == TypeOK /\ RoomsAreNumberedInOrder => LargestRoom = Len(chats)
<1> SUFFICES ASSUME TypeOK, RoomsAreNumberedInOrder PROVE LargestRoom = Len(chats)
  OBVIOUS
<1>1. Rooms = 1..Len(chats) /\ Len(chats) \in Nat
  BY DEF TypeOK, RoomsAreNumberedInOrder, Rooms
<1>2. CASE Len(chats) = 0
  BY <1>1, <1>2 DEF LargestRoom
<1>3. CASE Len(chats) # 0
  <2>1. Len(chats) \in Rooms /\ \A other \in Rooms : other <= Len(chats)
    BY <1>1, <1>3
  <2>2. \A r \in Rooms : (\A other \in Rooms : other <= r) => r = Len(chats)
    BY <1>1, <2>1
  <2> QED
    BY <2>1, <2>2 DEF LargestRoom
<1> QED
  BY <1>2, <1>3

(* The chat with the next number, of a pair that has none.                 *)
LEMMA CreateKeepsInv ==
    ASSUME StartInv, NEW c \in Calls, call[c].pc \in {"lookup", "insert"},
           TwoWayChats(call[c].pair) = {}, Create(c, Len(chats) + 1),
           UNCHANGED <<fulfilled, answered, backend>>
    PROVE  StartInv'
<1> DEFINE d == call[c]
           last == Len(chats) + 1
           pc == IF d.intent = NoIntent THEN "add" ELSE "mark"
           chat == [pair |-> d.pair, room |-> last, members |-> {}, intent |-> d.intent]
           new == [d EXCEPT !.pc = pc, !.chat = last]
<1>1. /\ d \in Call /\ GoodCall(d) /\ chats \in Seq(Chat) /\ Len(chats) \in Nat
      /\ call \in [Calls -> Call]
  BY DEF StartInv, TypeOK
<1>2. last \in Nat /\ last = Len(chats) + 1 /\ pc \in {"add", "mark"}
      /\ (pc = "mark" => d.intent # NoIntent) /\ (pc = "add" => d.intent = NoIntent)
  BY <1>1
<1>3. chats' = Append(chats, chat) /\ call' = [call EXCEPT ![c] = new]
  BY <1>1 DEF Create
<1> HIDE DEF last, pc
<1>a. chat \in Chat /\ chat.pair = d.pair /\ chat.room = last /\ chat.intent = d.intent
      /\ chat.members = {}
  BY <1>1, <1>2 DEF Chat, Call
<1>6. /\ new \in Call /\ new.pc = pc /\ new.chat = last /\ new.pair = d.pair
      /\ new.intent = d.intent /\ new.added = d.added /\ new.notifying = d.notifying
      /\ new.invited = d.invited
  BY <1>1, <1>2 DEF Call, Pcs
<1> HIDE DEF chat, new
<1>4. /\ chats' \in Seq(Chat) /\ Len(chats') = last
      /\ DOMAIN chats' = DOMAIN chats \cup {last}
      /\ \A k \in DOMAIN chats : chats'[k] = chats[k]
      /\ chats'[last] = chat
      /\ last \notin DOMAIN chats
  BY <1>1, <1>2, <1>3, <1>a
<1>5. ChatsGrow
  BY <1>1, <1>2, <1>4 DEF ChatsGrow
<1>7. TypeOK'
  BY <1>1, <1>3, <1>4, <1>6 DEF StartInv, TypeOK
<1>8. /\ d.added = 0 /\ ~d.notifying
      /\ d.pair # {} => d.intent = NoIntent
      /\ 1 \in DOMAIN d.invited
  BY <1>1 DEF GoodCall
<1>b. call'[c] = new /\ \A e \in Calls \ {c} : call'[e] = call[e]
  BY <1>1, <1>3
<1>c. HasChat(call[c])'
  BY <1>a, <1>b, <1>2, <1>4, <1>6, <1>8 DEF HasChat
<1>9. GoodCall(call[c])'
  BY <1>b, <1>c, <1>2, <1>6, <1>8 DEF GoodCall
<1>10. \A e \in Calls : GoodCall(call[e])'
  BY <1>5, <1>b, <1>9, GrowthKeepsCalls
<1>11. GoodChats' /\ GoodAnswers'
  BY <1>a, <1>4, <1>8 DEF StartInv, GoodChats, GoodAnswers
<1>12. OneClaim'
  <2>1. \A e \in Calls : Claims(e)' =>
           /\ Claims(e)
           /\ call'[e].intent = call[e].intent /\ call'[e].chat = call[e].chat
    BY <1>b, <1>2, <1>6 DEF Claims
  <2>2. \A a \in answered : chats'[a.chat] = chats[a.chat]
    BY <1>4 DEF StartInv, GoodAnswers
  <2> QED
    BY <2>1, <2>2 DEF StartInv, OneClaim
<1>13. RoomsAreNumberedInOrder'
  BY <1>a, <1>1, <1>2, <1>4 DEF StartInv, RoomsAreNumberedInOrder
<1>14. OneChatPerPair'
  BY <1>a, <1>1, <1>2, <1>4 DEF StartInv, OneChatPerPair, TwoWayChats
<1>15. FulfilledMeansCreated'
  BY <1>a, <1>1, <1>2, <1>4 DEF StartInv, FulfilledMeansCreated
<1>16. OneChatPerPayment' /\ OkMeansBothAreIn'
  BY <1>a, <1>1, <1>2, <1>4 DEF StartInv, OneChatPerPayment, OkMeansBothAreIn, GoodAnswers, Everyone
<1> QED
  BY <1>7, <1>10, <1>11, <1>12, <1>13, <1>14, <1>15, <1>16 DEF StartInv

(* The chat that is there is taken: it is not paid for.                    *)
LEMMA FoundKeepsInv ==
    ASSUME StartInv, NEW c \in Calls, call[c].pc = "lookup", FoundExisting(c),
           UNCHANGED <<chats, fulfilled, answered, backend>>
    PROVE  StartInv'
<1> DEFINE d == call[c]
<1>1. PICK k \in TwoWayChats(d.pair) :
         call' = [call EXCEPT ![c].pc = "add", ![c].chat = k]
  BY DEF FoundExisting
<1> DEFINE new == [d EXCEPT !.pc = "add", !.chat = k]
<1>2. d \in Call /\ GoodCall(d) /\ call \in [Calls -> Call] /\ chats \in Seq(Chat)
  BY DEF StartInv, TypeOK
<1>3. k \in DOMAIN chats /\ chats[k].pair = d.pair /\ d.pair # {} /\ k \in Nat
  BY <1>2 DEF TwoWayChats
<1>4. new \in Call /\ new.pc = "add"
  BY <1>2, <1>3 DEF Call, Pcs
<1>5. d.intent = NoIntent /\ chats[k].intent = NoIntent /\ d.added = 0 /\ ~d.notifying
      /\ 1 \in DOMAIN d.invited
  BY <1>2, <1>3 DEF GoodCall, StartInv, GoodChats
<1>6. GoodCall(new)
  BY <1>2, <1>3, <1>5 DEF GoodCall, HasChat, Call
<1>7. call' = [call EXCEPT ![c] = new]
  BY <1>1, <1>2
<1>8. new.intent = NoIntent
  BY <1>2, <1>5 DEF Call
<1> HIDE DEF new
<1> QED
  BY <1>4, <1>6, <1>7, <1>8, OneCallChanges

(* CreateChat, on either store.                                            *)
LEMMA CreationKeepsInv ==
    ASSUME StartInv, NEW c \in Calls, UNCHANGED backend,
           CreateInMemory(c) \/ LookupChat(c) \/ ReadLargestRoom(c) \/ InsertChat(c)
    PROVE  StartInv'
<1> DEFINE d == call[c]
<1>1. d \in Call /\ GoodCall(d) /\ call \in [Calls -> Call] /\ Len(chats) \in Nat
  BY DEF StartInv, TypeOK
<1>2. CASE CreateInMemory(c)
  BY <1>2, FoundKeepsInv, CreateKeepsInv DEF CreateInMemory
<1>3. CASE LookupChat(c) /\ TwoWayChats(d.pair) # {}
  BY <1>3, FoundKeepsInv DEF LookupChat
<1>4. CASE LookupChat(c) /\ TwoWayChats(d.pair) = {}
  <2> DEFINE new == [d EXCEPT !.pc = "max"]
  <2>1. new \in Call /\ new.pc = "max"
    BY <1>1 DEF Call, Pcs
  <2>2. GoodCall(new)
    BY <1>1, <1>4 DEF GoodCall, Call, LookupChat
  <2>3. call' = [call EXCEPT ![c] = new]
    BY <1>1, <1>4 DEF LookupChat
  <2> HIDE DEF new
  <2> QED
    BY <1>4, <2>1, <2>2, <2>3, OneCallChanges DEF LookupChat
<1>5. CASE ReadLargestRoom(c)
  <2> DEFINE room == LargestRoom + 1
             new == [d EXCEPT !.pc = "insert", !.room = room]
  <2>1. room = Len(chats) + 1 /\ room \in Nat
    BY <1>1, LargestIsLast DEF StartInv
  <2>4. call' = [call EXCEPT ![c] = new] /\ d.pc = "max"
    BY <1>1, <1>5 DEF ReadLargestRoom
  <2> HIDE DEF room
  <2>2. new \in Call /\ new.pc = "insert" /\ new.room = room
    BY <1>1, <2>1 DEF Call, Pcs
  <2>3. GoodCall(new)
    BY <1>1, <2>1, <2>2, <2>4 DEF GoodCall, Call
  <2> HIDE DEF new
  <2> QED
    BY <1>5, <2>2, <2>3, <2>4, OneCallChanges DEF ReadLargestRoom
<1>6. CASE InsertChat(c) /\ (d.room \in Rooms \/ TwoWayChats(d.pair) # {})
  BY <1>6, ReturnKeepsInv DEF InsertChat
<1>7. CASE InsertChat(c) /\ ~(d.room \in Rooms \/ TwoWayChats(d.pair) # {})
  <2>1. Rooms = 1..Len(chats)
    BY DEF StartInv, TypeOK, RoomsAreNumberedInOrder, Rooms
  <2>2. d.room = Len(chats) + 1
    BY <1>1, <1>7, <2>1 DEF GoodCall, InsertChat
  <2> QED
    BY <1>7, <2>2, CreateKeepsInv DEF InsertChat
<1> QED
  BY <1>2, <1>3, <1>4, <1>5, <1>6, <1>7

-----------------------------------------------------------------------------
(* MarkFulfilled: the payment was not spent, so nobody who was answered    *)
(* came with it, nor does another call have it marked.                     *)
LEMMA FulfilKeepsInv ==
    ASSUME StartInv, NEW c \in Calls, call[c].pc \in {"mark", "markInsert"},
           Fulfil(c), UNCHANGED <<chats, answered, backend>>,
           backend = "memory" => call[c].intent \notin fulfilled
    PROVE  StartInv'
<1> DEFINE d == call[c]
           new == [d EXCEPT !.pc = "add", !.notifying = TRUE]
<1>1. /\ d \in Call /\ GoodCall(d) /\ call \in [Calls -> Call] /\ TypeOK
      /\ HasChat(d) /\ d.intent # NoIntent /\ d.intent \in Intents
  BY DEF StartInv, TypeOK, GoodCall, Call
<1>2. call' = [call EXCEPT ![c] = new] /\ fulfilled' = fulfilled \cup {d.intent}
  BY <1>1 DEF Fulfil
<1>3. /\ new \in Call /\ new.pc = "add" /\ new.chat = d.chat /\ new.pair = d.pair
      /\ new.intent = d.intent /\ new.added = d.added /\ new.invited = d.invited
  BY <1>1 DEF Call, Pcs
<1> HIDE DEF new
<1>4. call'[c] = new /\ \A e \in Calls \ {c} : call'[e] = call[e]
  BY <1>1, <1>2
<1>5. TypeOK'
  BY <1>1, <1>2, <1>3 DEF TypeOK
<1>6. d.pair = {} /\ d.added + 1 \in DOMAIN d.invited
  BY <1>1 DEF GoodCall
<1>7. HasChat(call[c])'
  BY <1>1, <1>3, <1>4, <1>6 DEF HasChat
<1>8. GoodCall(call[c])'
  BY <1>3, <1>4, <1>6, <1>7 DEF GoodCall
<1>9. \A e \in Calls : GoodCall(call[e])'
  BY <1>1, <1>4, <1>8, GrowthKeepsCalls, SameChatsGrow
<1>10. OneClaim'
  <2> SUFFICES ASSUME backend = "memory" PROVE OneClaim'
    BY DEF OneClaim
  <2>1. /\ \A a \in answered : chats[a.chat].intent # d.intent
        /\ \A e \in Calls : Claims(e) => call[e].intent # d.intent
    BY <1>1 DEF StartInv, OneClaim
  <2>2. \A e \in Calls \ {c} : Claims(e)' <=> Claims(e)
    BY <1>4 DEF Claims
  <2> QED
    BY <2>1, <2>2, <1>2, <1>3, <1>4 DEF StartInv, OneClaim
<1>11. FulfilledMeansCreated'
  BY <1>1, <1>2 DEF StartInv, FulfilledMeansCreated, HasChat
<1>12. /\ GoodChats' /\ GoodAnswers' /\ RoomsAreNumberedInOrder' /\ OneChatPerPair'
       /\ OneChatPerPayment' /\ OkMeansBothAreIn'
  BY DEF StartInv, GoodChats, GoodAnswers, RoomsAreNumberedInOrder, OneChatPerPair,
         OneChatPerPayment, OkMeansBothAreIn
<1> QED
  BY <1>5, <1>9, <1>10, <1>11, <1>12 DEF StartInv

(* The three ways in which a call marks its payment.                       *)
LEMMA MarkKeepsInv ==
    ASSUME StartInv, NEW c \in Calls, UNCHANGED backend,
           MarkInMemory(c) \/ MarkSelect(c) \/ MarkInsert(c)
    PROVE  StartInv'
<1> DEFINE d == call[c]
<1>1. d \in Call /\ GoodCall(d) /\ call \in [Calls -> Call]
  BY DEF StartInv, TypeOK
<1>2. CASE MarkInMemory(c)
  BY <1>2, ReturnKeepsInv, FulfilKeepsInv DEF MarkInMemory
<1>3. CASE MarkSelect(c) /\ d.intent \in fulfilled
  BY <1>3, ReturnKeepsInv DEF MarkSelect
<1>4. CASE MarkSelect(c) /\ d.intent \notin fulfilled
  <2> DEFINE new == [d EXCEPT !.pc = "markInsert"]
  <2>1. /\ new \in Call /\ new.pc = "markInsert" /\ new.chat = d.chat /\ new.pair = d.pair
        /\ new.intent = d.intent /\ new.added = d.added /\ new.invited = d.invited
        /\ new.notifying = d.notifying
    BY <1>1 DEF Call, Pcs
  <2>2. d.pc = "mark" /\ backend = "postgres" /\ call' = [call EXCEPT ![c] = new]
    BY <1>1, <1>4 DEF MarkSelect
  <2> HIDE DEF new
  <2>3. GoodCall(new)
    BY <1>1, <2>1, <2>2 DEF GoodCall, HasChat
  <2> QED
    BY <1>4, <2>1, <2>2, <2>3, OneCallChanges DEF MarkSelect
<1>5. CASE MarkInsert(c)
  BY <1>1, <1>5, FulfilKeepsInv DEF MarkInsert, GoodCall
<1> QED
  BY <1>2, <1>3, <1>4, <1>5

(* The goroutine that assigns err: only in calls for groups is there one.  *)
LEMMA NotifyKeepsInv ==
    ASSUME StartInv, NEW c \in Calls, UNCHANGED backend, NotifyDone(c)
    PROVE  StartInv'
<1> DEFINE d == call[c]
<1>1. d \in Call /\ GoodCall(d) /\ call \in [Calls -> Call]
  BY DEF StartInv, TypeOK
<1>2. PICK failed \in BOOLEAN :
         call' = [call EXCEPT ![c].err = failed, ![c].notifying = FALSE]
  BY DEF NotifyDone
<1> DEFINE new == [d EXCEPT !.err = failed, !.notifying = FALSE]
<1>3. /\ new \in Call /\ new.pc = d.pc /\ new.chat = d.chat /\ new.pair = d.pair
      /\ new.intent = d.intent /\ new.added = d.added /\ new.invited = d.invited
      /\ new.room = d.room /\ ~new.notifying
  BY <1>1 DEF Call
<1>4. call' = [call EXCEPT ![c] = new]
  BY <1>1, <1>2
<1> HIDE DEF new
<1>5. d.pc \in {"add", "check"} /\ d.pair = {}
  BY <1>1 DEF GoodCall, HasChat, NotifyDone
<1>6. GoodCall(new)
  BY <1>1, <1>3, <1>5 DEF GoodCall, HasChat
<1> QED
  BY <1>3, <1>4, <1>6, OneCallChanges DEF NotifyDone, Claims

-----------------------------------------------------------------------------
(* A member more in the call's chat.                                       *)
LEMMA MemberJoins ==
    ASSUME StartInv, NEW c \in Calls, call[c].pc = "add", NEW u \in Users,
           chats' = [chats EXCEPT ![call[c].chat].members = @ \cup {u}]
    PROVE  /\ chats' \in Seq(Chat)
           /\ Len(chats') = Len(chats)
           /\ DOMAIN chats' = DOMAIN chats
           /\ ChatsGrow
           /\ u \in chats'[call[c].chat].members
<1> DEFINE k == call[c].chat
           chat == [chats[k] EXCEPT !.members = @ \cup {u}]
<1>1. k \in DOMAIN chats /\ chats \in Seq(Chat) /\ chats[k] \in Chat
  BY DEF StartInv, TypeOK, GoodCall, HasChat
<1>2. /\ chat \in Chat /\ chat.pair = chats[k].pair /\ chat.room = chats[k].room
      /\ chat.intent = chats[k].intent /\ chat.members = chats[k].members \cup {u}
  BY <1>1 DEF Chat
<1>3. chats' = [chats EXCEPT ![k] = chat]
  BY <1>1
<1> HIDE DEF chat, k
<1>4. chats' \in Seq(Chat) /\ Len(chats') = Len(chats) /\ DOMAIN chats' = DOMAIN chats
  <2>1. Len(chats) \in Nat /\ chats \in [1..Len(chats) -> Chat] /\ DOMAIN chats = 1..Len(chats)
    BY <1>1
  <2>2. chats' \in [1..Len(chats) -> Chat]
    BY <1>1, <1>2, <1>3, <2>1
  <2> QED
    BY <2>1, <2>2
<1>5. chats'[k] = chat /\ \A n \in DOMAIN chats : n # k => chats'[n] = chats[n]
  BY <1>1, <1>3
<1>6. ChatsGrow
  BY <1>1, <1>2, <1>4, <1>5 DEF ChatsGrow
<1> QED
  BY <1>2, <1>4, <1>5, <1>6 DEF k

(* Members are all that changes of the chats.                              *)
LEMMA MembersKeepInv ==
    ASSUME StartInv, ChatsGrow, TypeOK', Len(chats') = Len(chats),
           DOMAIN chats' = DOMAIN chats,
           UNCHANGED <<fulfilled, answered, backend>>,
           \A e \in Calls : GoodCall(call[e])',
           \A e \in Calls : Claims(e)' =>
               /\ Claims(e)
               /\ call'[e].intent = call[e].intent /\ call'[e].chat = call[e].chat
    PROVE  StartInv'
<1>1. \A k \in DOMAIN chats : /\ chats'[k].pair = chats[k].pair
                              /\ chats'[k].room = chats[k].room
                              /\ chats'[k].intent = chats[k].intent
                              /\ chats[k].members \subseteq chats'[k].members
  BY DEF ChatsGrow
<1>2. \A a \in answered : a.chat \in DOMAIN chats
  BY DEF StartInv, GoodAnswers
<1>3. OneClaim'
  BY <1>1, <1>2 DEF StartInv, OneClaim
<1>4. GoodChats' /\ GoodAnswers' /\ RoomsAreNumberedInOrder' /\ OneChatPerPair'
  BY <1>1, <1>2
     DEF StartInv, GoodChats, GoodAnswers, RoomsAreNumberedInOrder, OneChatPerPair
<1>5. FulfilledMeansCreated'
  BY <1>1 DEF StartInv, FulfilledMeansCreated
<1>6. OneChatPerPayment'
  BY <1>1, <1>2 DEF StartInv, OneChatPerPayment
<1>7. OkMeansBothAreIn'
  <2> SUFFICES ASSUME NEW a \in answered, chats'[a.chat].pair # {}
               PROVE  Everyone(a) \subseteq chats'[a.chat].members
    BY DEF OkMeansBothAreIn
  <2> QED
    BY <1>1, <1>2 DEF StartInv, OkMeansBothAreIn
<1> QED
  BY <1>3, <1>4, <1>5, <1>6, <1>7 DEF StartInv

(* AddMember: it fails and leaves the chats, or the next user is in.       *)
LEMMA AddKeepsInv ==
    ASSUME StartInv, NEW c \in Calls, UNCHANGED backend, AddMember(c)
    PROVE  StartInv'
<1> DEFINE d == call[c]
           next == d.invited[d.added + 1]
<1>1. /\ d \in Call /\ GoodCall(d) /\ call \in [Calls -> Call] /\ HasChat(d) /\ TypeOK
      /\ d.pc = "add"
  BY DEF StartInv, TypeOK, GoodCall, AddMember
<1>2. PICK failed \in BOOLEAN :
         /\ chats' = IF failed THEN chats
                     ELSE [chats EXCEPT ![d.chat].members = @ \cup {next}]
         /\ call' = [call EXCEPT ![c].pc = "check", ![c].err = failed]
  BY DEF AddMember
<1>3. next \in Users /\ d.added + 1 \in DOMAIN d.invited
  BY <1>1 DEF GoodCall, Call
<1>4. /\ chats' \in Seq(Chat) /\ Len(chats') = Len(chats) /\ DOMAIN chats' = DOMAIN chats
      /\ ChatsGrow /\ (~failed => next \in chats'[d.chat].members)
  <2>1. CASE failed
    BY <1>1, <1>2, <2>1, SameChatsGrow DEF TypeOK
  <2>2. CASE ~failed
    BY <1>1, <1>2, <1>3, <2>2, MemberJoins
  <2> QED
    BY <2>1, <2>2
<1> DEFINE new == [d EXCEPT !.pc = "check", !.err = failed]
<1>5. /\ new \in Call /\ new.pc = "check" /\ new.chat = d.chat /\ new.pair = d.pair
      /\ new.intent = d.intent /\ new.added = d.added /\ new.invited = d.invited
      /\ new.notifying = d.notifying /\ new.err = failed
  BY <1>1 DEF Call, Pcs
<1>6. call'[c] = new /\ \A e \in Calls \ {c} : call'[e] = call[e]
  BY <1>1, <1>2
<1>7. call' = [call EXCEPT ![c] = new]
  BY <1>1, <1>2
<1> HIDE DEF new
<1>8. TypeOK'
  BY <1>1, <1>4, <1>5, <1>7 DEF TypeOK, AddMember
<1>9. HasChat(call[c])'
  <2>1. \A n \in 1..d.added : d.pair # {} => d.invited[n] \in chats'[d.chat].members
    BY <1>1, <1>4 DEF HasChat, ChatsGrow
  <2>2. /\ d.chat \in DOMAIN chats'
        /\ chats'[d.chat].pair = d.pair /\ chats'[d.chat].intent = d.intent
    BY <1>1, <1>4 DEF HasChat, ChatsGrow
  <2>3. d.pair # {} => ~d.notifying
    BY <1>1 DEF HasChat
  <2> QED
    BY <1>4, <1>5, <1>6, <2>1, <2>2, <2>3 DEF HasChat
<1>10. GoodCall(call[c])'
  BY <1>1, <1>5, <1>6, <1>9 DEF GoodCall
<1>11. \A e \in Calls : GoodCall(call[e])'
  BY <1>4, <1>6, <1>10, GrowthKeepsCalls
<1>12. \A e \in Calls : Claims(e)' =>
          /\ Claims(e)
          /\ call'[e].intent = call[e].intent /\ call'[e].chat = call[e].chat
  BY <1>1, <1>5, <1>6 DEF Claims
<1> QED
  BY <1>4, <1>8, <1>11, <1>12, MembersKeepInv DEF AddMember

(* The last member is in and the call is answered OK.  No other call has   *)
(* claimed this payment, so whoever was answered with it was for this      *)
(* chat; and of a pair both were added.                                    *)
LEMMA AnswerKeepsInv ==
    ASSUME StartInv, NEW c \in Calls, call[c].pc = "check", ~call[c].err,
           call[c].added + 1 = Len(call[c].invited),
           answered' = answered \cup {[chat |-> call[c].chat, invited |-> call[c].invited]},
           Return(c), UNCHANGED <<chats, fulfilled, backend>>
    PROVE  StartInv'
<1> DEFINE d == call[c]
           a == [chat |-> d.chat, invited |-> d.invited]
<1>1. /\ d \in Call /\ GoodCall(d) /\ call \in [Calls -> Call] /\ HasChat(d) /\ TypeOK
      /\ NoCall \in Call /\ GoodCall(NoCall) /\ NoCall.pc = "idle"
  BY NoCallGood DEF StartInv, TypeOK, GoodCall
<1>2. call'[c] = NoCall /\ \A e \in Calls \ {c} : call'[e] = call[e]
  BY <1>1 DEF Return
<1>3. a \in Answer /\ a.chat = d.chat /\ a.invited = d.invited /\ answered' = answered \cup {a}
  BY <1>1 DEF Call, Answer
<1> HIDE DEF a
<1>4. TypeOK'
  BY <1>1, <1>3 DEF TypeOK, Return
<1>5. GoodCall(call[c])'
  BY <1>1, <1>2 DEF GoodCall
<1>6. \A e \in Calls : GoodCall(call[e])'
  BY <1>1, <1>2, <1>5, GrowthKeepsCalls, SameChatsGrow
<1>7. d.chat \in DOMAIN chats /\ chats[d.chat].intent = d.intent /\ chats[d.chat].pair = d.pair
  BY <1>1 DEF HasChat
<1>8. OneClaim' /\ OneChatPerPayment'
  <2> SUFFICES ASSUME backend = "memory" PROVE OneClaim' /\ OneChatPerPayment'
    BY DEF OneClaim, OneChatPerPayment
  <2>1. \A e \in Calls : Claims(e)' => e # c /\ Claims(e) /\ call'[e] = call[e]
    BY <1>1, <1>2 DEF Claims
  <2>2. d.intent # NoIntent => Claims(c)
    BY DEF Claims
  <2>3. OneClaim'
    <3>1. \A b \in answered' : chats[b.chat].intent \in fulfilled \cup {NoIntent}
      BY <1>3, <1>7, <2>2 DEF StartInv, OneClaim
    <3>2. ASSUME NEW e \in Calls, Claims(e)', NEW b \in answered',
                 chats[b.chat].intent = call[e].intent
          PROVE  b.chat = call[e].chat
      <4>1. e # c /\ Claims(e) /\ call[e].intent # NoIntent
        BY <2>1, <3>2 DEF Claims
      <4>2. b # a
        BY <1>3, <1>7, <2>2, <3>2, <4>1 DEF StartInv, OneClaim
      <4> QED
        BY <1>3, <3>2, <4>1, <4>2 DEF StartInv, OneClaim
    <3>3. \A e \in Calls : Claims(e)' => call[e].intent \in fulfilled
      BY <2>1 DEF StartInv, OneClaim
    <3>4. \A e, f \in Calls :
             Claims(e)' /\ Claims(f)' /\ call[e].intent = call[f].intent => e = f
      BY <2>1 DEF StartInv, OneClaim
    <3>5. \A e \in Calls : Claims(e)' => call'[e] = call[e]
      BY <2>1
    <3> QED
      BY <3>1, <3>2, <3>3, <3>4, <3>5 DEF OneClaim
  <2>4. OneChatPerPayment'
    BY <1>3, <1>7, <2>2 DEF StartInv, OneClaim, OneChatPerPayment
  <2> QED
    BY <2>3, <2>4
<1>9. OkMeansBothAreIn'
  <2>1. d.pair # {} => \A n \in DOMAIN d.invited : d.invited[n] \in chats[d.chat].members
    <3> SUFFICES ASSUME d.pair # {}, NEW n \in DOMAIN d.invited
                 PROVE  d.invited[n] \in chats[d.chat].members
      OBVIOUS
    <3>1. d.invited \in Seq(Users) /\ d.added \in Nat
      BY <1>1 DEF Call
    <3>2. n \in 1..d.added \/ n = d.added + 1
      BY <3>1
    <3> QED
      BY <1>1, <3>2 DEF HasChat
  <2> QED
    BY <1>3, <1>7, <2>1 DEF StartInv, OkMeansBothAreIn, Everyone
<1>10. GoodAnswers'
  BY <1>3, <1>7 DEF StartInv, GoodAnswers
<1>11. /\ GoodChats' /\ RoomsAreNumberedInOrder' /\ OneChatPerPair' /\ FulfilledMeansCreated'
  BY DEF StartInv, GoodChats, RoomsAreNumberedInOrder, OneChatPerPair, FulfilledMeansCreated
<1> QED
  BY <1>4, <1>6, <1>8, <1>9, <1>10, <1>11 DEF StartInv

(* err is looked at.                                                       *)
LEMMA CheckKeepsInv ==
    ASSUME StartInv, NEW c \in Calls, UNCHANGED backend, CheckError(c)
    PROVE  StartInv'
<1> DEFINE d == call[c]
<1>1. /\ d \in Call /\ GoodCall(d) /\ call \in [Calls -> Call] /\ HasChat(d) /\ TypeOK
      /\ d.pc = "check"
  BY DEF StartInv, TypeOK, GoodCall, CheckError
<1>2. CASE d.err /\ Return(c) /\ UNCHANGED answered
  BY <1>2, ReturnKeepsInv DEF CheckError
<1>3. CASE /\ ~d.err
           /\ d.added + 1 < Len(d.invited)
           /\ call' = [call EXCEPT ![c].pc = "add", ![c].added = @ + 1]
           /\ UNCHANGED answered
  <2> DEFINE more == d.added + 1
             new == [d EXCEPT !.pc = "add", !.added = more]
  <2>1. more \in Nat /\ more = d.added + 1 /\ more + 1 \in DOMAIN d.invited
    BY <1>1, <1>3 DEF Call
  <2>2. call' = [call EXCEPT ![c] = new]
    BY <1>1, <1>3
  <2> HIDE DEF more
  <2>3. /\ new \in Call /\ new.pc = "add" /\ new.chat = d.chat /\ new.pair = d.pair
        /\ new.intent = d.intent /\ new.added = more /\ new.invited = d.invited
        /\ new.notifying = d.notifying
    BY <1>1, <2>1 DEF Call, Pcs
  <2> HIDE DEF new
  <2>4. d.pair # {} => \A n \in 1..more : d.invited[n] \in chats[d.chat].members
    BY <1>1, <1>3, <2>1 DEF HasChat, Call
  <2>5. HasChat(new)
    BY <1>1, <2>3, <2>4 DEF HasChat
  <2>6. GoodCall(new)
    BY <1>1, <2>1, <2>3, <2>5 DEF GoodCall
  <2>7. d.intent # NoIntent => Claims(c)
    BY <1>1 DEF Claims
  <2> QED
    BY <1>3, <2>2, <2>3, <2>6, <2>7, OneCallChanges DEF CheckError
<1>4. CASE /\ ~d.err
           /\ d.added + 1 = Len(d.invited)
           /\ answered' = answered \cup {[chat |-> d.chat, invited |-> d.invited]}
           /\ Return(c)
  BY <1>1, <1>4, AnswerKeepsInv DEF CheckError
<1> QED
  BY <1>2, <1>3, <1>4 DEF CheckError

(* A call that fails gives its slot up.                                    *)
LEMMA FailKeepsInv ==
    ASSUME StartInv, NEW c \in Calls, UNCHANGED backend, Fail(c)
    PROVE  StartInv'
  BY ReturnKeepsInv DEF Fail

(* Every step of StartChat keeps the invariant: one lemma above per action. *)
LEMMA NextKeepsInv == StartInv /\ [Next]_vars => StartInv'
<1> SUFFICES ASSUME StartInv, [Next]_vars PROVE StartInv'
  OBVIOUS
<1>1. CASE UNCHANGED vars
  BY <1>1 DEF vars, StartInv, TypeOK, GoodCall, HasChat, GoodChats, GoodAnswers, OneClaim, Claims,
              RoomsAreNumberedInOrder, OneChatPerPair, TwoWayChats, FulfilledMeansCreated,
              OneChatPerPayment, OkMeansBothAreIn
<1>2. ASSUME NEW c \in Calls, UNCHANGED backend,
             \/ \E u \in Users, guests \in Guests, i \in Intents : StartGroup(c, u, guests, i)
             \/ \E u, other \in Users : StartTwoWay(c, u, other)
      PROVE  StartInv'
  BY <1>2, StartKeepsInv
<1>3. ASSUME NEW c \in Calls, UNCHANGED backend,
             CreateInMemory(c) \/ LookupChat(c) \/ ReadLargestRoom(c) \/ InsertChat(c)
      PROVE  StartInv'
  BY <1>3, CreationKeepsInv
<1>4. ASSUME NEW c \in Calls, UNCHANGED backend,
             MarkInMemory(c) \/ MarkSelect(c) \/ MarkInsert(c) \/ NotifyDone(c)
      PROVE  StartInv'
  BY <1>4, MarkKeepsInv, NotifyKeepsInv
<1>5. ASSUME NEW c \in Calls, UNCHANGED backend, AddMember(c) \/ CheckError(c) \/ Fail(c)
      PROVE  StartInv'
  BY <1>5, AddKeepsInv, CheckKeepsInv, FailKeepsInv
<1> QED
  BY <1>1, <1>2, <1>3, <1>4, <1>5 DEF Next

(* The inductive invariant holds of every behaviour of StartChat.          *)
THEOREM StartInvariant == Spec => []StartInv
<1>1. Init => StartInv
  BY InitInv
<1>2. StartInv /\ [Next]_vars => StartInv'
  BY NextKeepsInv
<1> QED
  BY <1>1, <1>2, PTL DEF Spec

(* Chats, payments and calls keep their types (chat/server.go StartChat).  *)
THEOREM StartTypeCorrect == Spec => []TypeOK
<1>1. StartInv => TypeOK
  BY DEF StartInv
<1> QED
  BY <1>1, StartInvariant, PTL

(* Room numbers follow the order of creation, however many calls read the  *)
(* largest one at once (dbPutChat's MAX and the unique key).               *)
THEOREM RoomsAlwaysInOrder == Spec => []RoomsAreNumberedInOrder
<1>1. StartInv => RoomsAreNumberedInOrder
  BY DEF StartInv
<1> QED
  BY <1>1, StartInvariant, PTL

(* However many calls start a chat of two users, there is one.             *)
THEOREM PairsShareOneChat == Spec => []OneChatPerPair
<1>1. StartInv => OneChatPerPair
  BY DEF StartInv
<1> QED
  BY <1>1, StartInvariant, PTL

(* No payment is consumed without a chat to show for it.                   *)
THEOREM FulfilledAlwaysCreated == Spec => []FulfilledMeansCreated
<1>1. StartInv => FulfilledMeansCreated
  BY DEF StartInv
<1> QED
  BY <1>1, StartInvariant, PTL

(* With the memory store two calls with one payment are never both         *)
(* answered OK for chats of their own.                                     *)
THEOREM PaymentsBuyOneChat == Spec => []OneChatPerPayment
<1>1. StartInv => OneChatPerPayment
  BY DEF StartInv
<1> QED
  BY <1>1, StartInvariant, PTL

(* OK for a two-way chat means that both users are members.                *)
THEOREM OkAlwaysMeansBothAreIn == Spec => []OkMeansBothAreIn
<1>1. StartInv => OkMeansBothAreIn
  BY DEF StartInv
<1> QED
  BY <1>1, StartInvariant, PTL

-----------------------------------------------------------------------------
(***************************************************************************)
(* ChatSettings, for any number of members, changes and posts, on both     *)
(* stores: a stream with nothing on its way to it shows what is stored,    *)
(* because whatever it lacks is on its way.                                *)
(***************************************************************************)

Numbers == 0..(MaxChanges + MaxPosts)

(* The numbers of the writes are given out in order, to no more calls than *)
(* the bounds allow, and nothing carries one that was not given out.       *)
Storing(f) == {c \in Setters : setter[c].pc = "store" /\ setter[c].event.field = f}

NumbersInOrder ==
    /\ \A f \in Settings :
          IsFiniteSet(Storing(f)) /\ writes[f] + Cardinality(Storing(f)) <= changes
    /\ writes["activity"] <= MaxPosts
    /\ \A f \in Fields : snapshot[f].write <= writes[f]
    /\ \A e \in wire : e.stored.write <= writes[e.field]
    /\ \A c \in Setters : /\ setter[c].event.field \in Settings
                          /\ setter[c].event.stored.write <= writes[setter[c].event.field]

(* The row has the last write of a setting; that of the activity, on the   *)
(* memory store, or it is about to be handled.                             *)
RowHasTheLastWrite ==
    /\ \A f \in Settings : metadata[f].write = writes[f]
    /\ onPostgres
       \/ metadata["activity"].write = writes["activity"]
       \/ \E e \in wire : e.field = "activity" /\ e.stored.write = writes["activity"]

(* What the row has of f is on its way to the stream.                      *)
OnItsWay(f) ==
    \/ chatStream \in {"none", "registered"}
    \/ chatStream = "read" /\ snapshot[f].write >= metadata[f].write
    \/ \E e \in wire : e.field = f /\ e.stored.write >= metadata[f].write
    \/ \E c \in Setters : /\ setter[c].pc = "publish"
                          /\ setter[c].event.field = f
                          /\ setter[c].event.stored.write >= metadata[f].write

StreamIsTold == \A f \in Fields : newest[f] >= metadata[f].write \/ OnItsWay(f)

StreamShowsTheNewest == \A f \in Fields : view[f].write = newest[f] \/ overtaken[f]

SettingsInv ==
    /\ SettingsTypeOK
    /\ NumbersInOrder
    /\ RowHasTheLastWrite
    /\ StreamIsTold
    /\ StreamShowsTheNewest

-----------------------------------------------------------------------------
LEMMA NumbersAreNat == /\ Numbers \subseteq Nat /\ 0 \in Numbers
                       /\ MaxChanges \in Nat /\ MaxPosts \in Nat
                       /\ \A n \in Nat : n <= MaxChanges + MaxPosts => n \in Numbers
  BY SettingsAssumption DEF Numbers

(* What is delivered shows as the newest, or is noticed to be older.       *)
LEMMA Shown ==
    ASSUME SettingsTypeOK, StreamShowsTheNewest, NEW F, NEW seen \in [Fields -> Stored], Show(F, seen)
    PROVE  /\ view' \in [Fields -> Stored]
           /\ newest' \in [Fields -> Numbers]
           /\ overtaken' \in [Fields -> BOOLEAN]
           /\ StreamShowsTheNewest'
           /\ \A f \in Fields : /\ newest'[f] >= newest[f]
                                /\ newest'[f] = newest[f] \/ (f \in F /\ newest'[f] = seen[f].write)
                                /\ f \in F => newest'[f] >= seen[f].write
<1>1. /\ view' = [f \in Fields |-> IF f \in F THEN seen[f] ELSE view[f]]
      /\ newest' = [f \in Fields |->
                       IF f \in F /\ seen[f].write > newest[f] THEN seen[f].write ELSE newest[f]]
      /\ overtaken' = [f \in Fields |-> overtaken[f] \/ (f \in F /\ seen[f].write < newest[f])]
  BY Zenon DEF Show
<1>2. \A f \in Fields : seen[f] \in Stored /\ seen[f].write \in Numbers /\ newest[f] \in Numbers
  BY DEF SettingsTypeOK, Stored, Numbers
<1>3. view' \in [Fields -> Stored] /\ newest' \in [Fields -> Numbers]
  BY <1>1, <1>2 DEF SettingsTypeOK
<1>4. overtaken' \in [Fields -> BOOLEAN]
  BY <1>1, Zenon DEF SettingsTypeOK
<1>5. ASSUME NEW f \in Fields
      PROVE  /\ newest'[f] >= newest[f]
             /\ newest'[f] = newest[f] \/ (f \in F /\ newest'[f] = seen[f].write)
             /\ f \in F => newest'[f] >= seen[f].write
  <2>1. newest'[f] = IF f \in F /\ seen[f].write > newest[f] THEN seen[f].write ELSE newest[f]
    BY <1>1, Zenon
  <2>2. seen[f].write \in Nat /\ newest[f] \in Nat
    BY <1>2, NumbersAreNat
  <2> QED
    BY <2>1, <2>2
<1>6. ASSUME NEW f \in Fields
      PROVE  view'[f].write = newest'[f] \/ overtaken'[f]
  <2>1. overtaken'[f] <=> overtaken[f] \/ (f \in F /\ seen[f].write < newest[f])
    BY <1>1, Zenon
  <2>2. CASE f \in F /\ seen[f].write < newest[f]
    BY <2>1, <2>2, Zenon
  <2>3. CASE f \in F /\ ~(seen[f].write < newest[f])
    <3>1. view'[f] = seen[f]
      BY <1>1, <2>3, Zenon
    <3>2. newest'[f] = IF f \in F /\ seen[f].write > newest[f] THEN seen[f].write ELSE newest[f]
      BY <1>1, Zenon
    <3>3. seen[f].write \in Nat /\ newest[f] \in Nat
      BY <1>2, NumbersAreNat
    <3>4. newest'[f] = seen[f].write
      BY <2>3, <3>2, <3>3
    <3> QED
      BY <3>1, <3>4, Zenon
  <2>4. CASE f \notin F
    <3>1. view'[f] = view[f] /\ newest'[f] = newest[f]
      BY <1>1, <2>4
    <3> QED
      BY <2>1, <3>1, Zenon DEF StreamShowsTheNewest
  <2> QED
    BY <2>2, <2>3, <2>4
<1> QED
  BY <1>3, <1>4, <1>5, <1>6 DEF StreamShowsTheNewest

LEMMA SetterType ==
    ASSUME SettingsTypeOK, NEW c \in Setters
    PROVE  /\ setter[c] \in Setter /\ setter[c].event \in Event
           /\ setter[c].event.field \in Fields /\ setter[c].event.stored \in Stored
           /\ setter[c].event.stored.value \in Values /\ setter[c].event.stored.write \in Numbers
  BY DEF SettingsTypeOK, Setter, Event, Stored, Numbers

LEMMA NoSetterType == NoSetter \in Setter /\ NoSetter.pc = "idle" /\ NoSetter.event.field = "name"
                      /\ NoSetter.event.stored.write = 0
  BY NumbersAreNat DEF NoSetter, Nothing, Setter, Event, Stored, Fields, Settings, Values, Numbers

(* A step that changes neither the row nor what the stream has seen.       *)
LEMMA StreamUntouched ==
    ASSUME SettingsInv, UNCHANGED <<metadata, view, newest, overtaken>>,
           \A f \in Fields : OnItsWay(f) => OnItsWay(f)'
    PROVE  StreamIsTold' /\ StreamShowsTheNewest'
  BY DEF SettingsInv, StreamIsTold, StreamShowsTheNewest

LEMMA RequestSettingKeeps ==
    ASSUME SettingsInv, NEW c \in Setters, NEW f \in Settings, NEW v \in Requestable(f),
           RequestSetting(c, f, v)
    PROVE  SettingsInv'
<1> DEFINE n == [pc |-> "store", event |-> [Nothing(f) EXCEPT !.stored.value = v]]
<1>1. /\ changes < MaxChanges /\ changes' = changes + 1
      /\ setter[c].pc = "idle" /\ setter' = [setter EXCEPT ![c] = n]
      /\ UNCHANGED <<onPostgres, metadata, writes, wire, chatStream, snapshot, view, newest, overtaken>>
  BY DEF RequestSetting
<1>2. v \in Values /\ f \in Fields
  BY DEF Requestable, Values, Settings, Fields
<1>3. n \in Setter /\ n.pc = "store" /\ n.event.field = f /\ n.event.stored.write = 0
  BY <1>2, NumbersAreNat DEF Nothing, Setter, Event, Stored, Numbers, Values
<1> HIDE DEF n
<1>4. /\ setter' \in [Setters -> Setter]
      /\ setter'[c] = n
      /\ \A k \in Setters \ {c} : setter'[k] = setter[k]
  BY <1>1, <1>3 DEF SettingsInv, SettingsTypeOK
<1>5. changes' \in 0..MaxChanges /\ changes \in Nat
  BY <1>1, SettingsAssumption DEF SettingsInv, SettingsTypeOK
<1>6. SettingsTypeOK'
  BY <1>1, <1>4, <1>5 DEF SettingsInv, SettingsTypeOK
<1>7. \A g \in Settings : Storing(g)' = IF g = f THEN Storing(g) \union {c} ELSE Storing(g)
  BY <1>1, <1>3, <1>4 DEF Storing
<1>8. \A g \in Settings : c \notin Storing(g) /\ IsFiniteSet(Storing(g))
  BY <1>1 DEF Storing, SettingsInv, NumbersInOrder
<1>9. ASSUME NEW g \in Settings
      PROVE  IsFiniteSet(Storing(g)') /\ writes'[g] + Cardinality(Storing(g)') <= changes'
  <2>1. Cardinality(Storing(g)) \in Nat /\ writes[g] \in Nat /\ writes[g] + Cardinality(Storing(g)) <= changes
    BY <1>8, FS_CardinalityType, NumbersAreNat
       DEF SettingsInv, SettingsTypeOK, NumbersInOrder, Numbers, Fields
  <2>2. /\ IsFiniteSet(Storing(g) \union {c})
        /\ Cardinality(Storing(g) \union {c}) = Cardinality(Storing(g)) + 1
    BY <1>8, FS_AddElement
  <2>3. CASE g = f
    <3>1. Storing(g)' = Storing(g) \union {c}
      BY <1>7, <2>3, Zenon
    <3>2. IsFiniteSet(Storing(g)') /\ Cardinality(Storing(g)') = Cardinality(Storing(g)) + 1
      BY <2>2, <3>1, Zenon
    <3> QED
      BY <1>1, <1>5, <2>1, <3>2
  <2>4. CASE g # f
    <3>1. Storing(g)' = Storing(g)
      BY <1>7, <2>4, Zenon
    <3>2. IsFiniteSet(Storing(g)') /\ Cardinality(Storing(g)') = Cardinality(Storing(g))
      BY <1>8, <3>1, Zenon
    <3> QED
      BY <1>1, <1>5, <2>1, <3>2
  <2> QED
    BY <2>3, <2>4
<1>10. NumbersInOrder'
  <2>1. \A g \in Fields : writes[g] \in Nat
    BY NumbersAreNat DEF SettingsInv, SettingsTypeOK, Numbers
  <2>2. \A k \in Setters : /\ setter'[k].event.field \in Settings
                           /\ setter'[k].event.stored.write <= writes[setter'[k].event.field]
    BY <1>2, <1>3, <1>4, <2>1 DEF SettingsInv, NumbersInOrder
  <2> QED
    BY <1>1, <1>9, <2>2 DEF SettingsInv, NumbersInOrder
<1>11. RowHasTheLastWrite'
  BY <1>1 DEF SettingsInv, RowHasTheLastWrite
<1>12. \A g \in Fields : OnItsWay(g) => OnItsWay(g)'
  BY <1>1, <1>4 DEF OnItsWay
<1> QED
  BY <1>1, <1>6, <1>10, <1>11, <1>12, StreamUntouched DEF SettingsInv

LEMMA RefuseSettingKeeps ==
    ASSUME SettingsInv, NEW c \in Setters, RefuseSetting(c)
    PROVE  SettingsInv'
<1>1. /\ setter[c].pc = "store" /\ setter' = [setter EXCEPT ![c] = NoSetter]
      /\ UNCHANGED <<onPostgres, metadata, writes, wire, chatStream, snapshot, view, newest,
                     overtaken, changes>>
  BY DEF RefuseSetting
<1>2. /\ setter' \in [Setters -> Setter]
      /\ setter'[c] = NoSetter
      /\ \A k \in Setters \ {c} : setter'[k] = setter[k]
  BY <1>1, NoSetterType DEF SettingsInv, SettingsTypeOK
<1>3. SettingsTypeOK'
  BY <1>1, <1>2 DEF SettingsInv, SettingsTypeOK
<1>4. \A g \in Settings : Storing(g)' = Storing(g) \ {c}
  BY <1>2, NoSetterType DEF Storing
<1>5. ASSUME NEW g \in Settings
      PROVE  IsFiniteSet(Storing(g)') /\ writes'[g] + Cardinality(Storing(g)') <= changes'
  <2>1. IsFiniteSet(Storing(g)) /\ writes[g] \in Nat /\ changes \in Nat
        /\ writes[g] + Cardinality(Storing(g)) <= changes
    BY NumbersAreNat DEF SettingsInv, SettingsTypeOK, NumbersInOrder, Numbers, Fields
  <2>2. /\ Cardinality(Storing(g)) \in Nat /\ IsFiniteSet(Storing(g) \ {c})
        /\ Cardinality(Storing(g) \ {c}) \in Nat
        /\ Cardinality(Storing(g) \ {c}) <= Cardinality(Storing(g))
    BY <2>1, FS_CardinalityType, FS_Subset
  <2> QED
    BY <1>1, <1>4, <2>1, <2>2
<1>6. NumbersInOrder'
  <2>1. "name" \in Settings /\ writes["name"] \in Nat
    BY NumbersAreNat DEF SettingsInv, SettingsTypeOK, Numbers, Settings, Fields
  <2>2. \A k \in Setters : /\ setter'[k].event.field \in Settings
                           /\ setter'[k].event.stored.write <= writes[setter'[k].event.field]
    BY <1>2, <2>1, NoSetterType DEF SettingsInv, NumbersInOrder
  <2> QED
    BY <1>1, <1>5, <2>2 DEF SettingsInv, NumbersInOrder
<1>7. RowHasTheLastWrite'
  BY <1>1 DEF SettingsInv, RowHasTheLastWrite
<1>8. \A g \in Fields : OnItsWay(g) => OnItsWay(g)'
  BY <1>1, <1>2 DEF OnItsWay
<1> QED
  BY <1>1, <1>3, <1>6, <1>7, <1>8, StreamUntouched DEF SettingsInv

LEMMA StoreSettingKeeps ==
    ASSUME SettingsInv, NEW c \in Setters, StoreSetting(c)
    PROVE  SettingsInv'
<1> PICK f \in Settings : f = setter[c].event.field
  BY DEF SettingsInv, NumbersInOrder
<1> PICK w : w = writes[f] + 1
  OBVIOUS
<1> DEFINE e == [setter[c].event EXCEPT !.stored.write = w]
<1>1. /\ setter[c].pc = "store"
      /\ metadata' = [metadata EXCEPT ![f] = e.stored]
      /\ writes' = [writes EXCEPT ![f] = w]
      /\ setter' = [setter EXCEPT ![c] = [pc |-> "publish", event |-> e]]
      /\ UNCHANGED <<onPostgres, wire, chatStream, snapshot, view, newest, overtaken, changes>>
  BY DEF StoreSetting
<1>2. f \in Fields /\ f # "activity" /\ \A g \in Fields : g \in Settings \/ g = "activity"
  BY DEF Settings, Fields
<1>3. IsFiniteSet(Storing(f)) /\ c \in Storing(f)
  BY <1>1 DEF Storing, SettingsInv, NumbersInOrder
<1>4. /\ Cardinality(Storing(f)) \in Nat
      /\ IsFiniteSet(Storing(f) \ {c}) /\ Cardinality(Storing(f) \ {c}) = Cardinality(Storing(f)) - 1
  BY <1>3, FS_CardinalityType, FS_RemoveElement
<1>5. w \in Numbers /\ writes[f] \in Nat /\ w + Cardinality(Storing(f) \ {c}) <= changes
  <2>1. writes[f] \in Nat /\ changes \in 0..MaxChanges /\ writes[f] + Cardinality(Storing(f)) <= changes
    BY <1>2, NumbersAreNat DEF SettingsInv, SettingsTypeOK, NumbersInOrder, Numbers
  <2>2. Cardinality(Storing(f)) - 1 \in Nat
    BY <1>4, FS_CardinalityType
  <2>3. w \in Nat /\ w <= MaxChanges + MaxPosts
    BY <1>4, <2>1, <2>2, NumbersAreNat
  <2> QED
    BY <1>4, <2>1, <2>3, NumbersAreNat
<1>6. e \in Event /\ e.field = f /\ e.stored \in Stored /\ e.stored.write = w
  <2>1. setter[c].event \in Event /\ w \in 0..(MaxChanges + MaxPosts)
    BY <1>5, SetterType DEF SettingsInv, Numbers
  <2> QED
    BY <2>1 DEF Event, Stored
<1> HIDE DEF e
<1>7. /\ metadata' \in [Fields -> Stored] /\ metadata'[f].write = w
      /\ \A g \in Fields \ {f} : metadata'[g] = metadata[g]
  BY <1>1, <1>2, <1>6 DEF SettingsInv, SettingsTypeOK
<1>8. /\ writes' \in [Fields -> Numbers] /\ writes'[f] = w
      /\ \A g \in Fields \ {f} : writes'[g] = writes[g]
  BY <1>1, <1>2, <1>5 DEF SettingsInv, SettingsTypeOK, Numbers
<1>9. /\ setter' \in [Setters -> Setter]
      /\ setter'[c].pc = "publish" /\ setter'[c].event = e
      /\ \A k \in Setters \ {c} : setter'[k] = setter[k]
  BY <1>1, <1>6 DEF SettingsInv, SettingsTypeOK, Setter
<1>10. \A g \in Fields : writes[g] \in Nat /\ writes'[g] \in Nat /\ writes[g] <= writes'[g]
  BY <1>5, <1>8, NumbersAreNat DEF SettingsInv, SettingsTypeOK, Numbers
<1>11. SettingsTypeOK'
  <2>1. \A g \in Fields : metadata'[g].write <= writes'[g] /\ newest[g] <= writes'[g]
    <3>1. \A g \in Fields : metadata[g].write \in Nat /\ newest[g] \in Nat
                            /\ metadata[g].write <= writes[g] /\ newest[g] <= writes[g]
      BY NumbersAreNat DEF SettingsInv, SettingsTypeOK, Stored, Numbers
    <3> QED
      BY <1>7, <1>8, <1>10, <3>1, <1>5, NumbersAreNat
  <2> QED
    BY <1>1, <1>7, <1>8, <1>9, <2>1 DEF SettingsInv, SettingsTypeOK, Numbers
<1>12. NumbersInOrder'
  <2>1. \A g \in Settings : Storing(g)' = Storing(g) \ {c}
    BY <1>9 DEF Storing
  <2>2. \A g \in Settings \ {f} : c \notin Storing(g)
    BY DEF Storing
  <2>3. ASSUME NEW g \in Settings
        PROVE  IsFiniteSet(Storing(g)') /\ writes'[g] + Cardinality(Storing(g)') <= changes'
    <3>1. CASE g = f
      BY <1>1, <1>4, <1>5, <1>8, <2>1, <3>1
    <3>2. CASE g # f
      <4>1. Storing(g)' = Storing(g) /\ writes'[g] = writes[g]
        BY <1>8, <2>1, <2>2, <3>2 DEF Fields
      <4> QED
        BY <1>1, <4>1 DEF SettingsInv, NumbersInOrder
    <3> QED
      BY <3>1, <3>2
  <2>4. \A g \in Fields : snapshot[g].write \in Nat /\ snapshot[g].write <= writes[g]
    BY NumbersAreNat DEF SettingsInv, SettingsTypeOK, NumbersInOrder, Stored, Numbers
  <2>5. \A d \in wire : d.field \in Fields /\ d.stored.write \in Nat /\ d.stored.write <= writes[d.field]
    BY NumbersAreNat DEF SettingsInv, SettingsTypeOK, NumbersInOrder, Event, Stored, Numbers
  <2>6. \A k \in Setters : /\ setter[k].event.field \in Settings /\ setter[k].event.stored.write \in Nat
                           /\ setter[k].event.stored.write <= writes[setter[k].event.field]
    BY NumbersAreNat, SetterType DEF SettingsInv, NumbersInOrder
  <2>7. /\ \A g \in Fields : snapshot[g].write <= writes'[g]
        /\ \A d \in wire : d.stored.write <= writes'[d.field]
    BY <1>10, <2>4, <2>5
  <2>8. \A k \in Setters : /\ setter'[k].event.field \in Settings
                           /\ setter'[k].event.stored.write <= writes'[setter'[k].event.field]
    <3> SUFFICES ASSUME NEW k \in Setters
                 PROVE  /\ setter'[k].event.field \in Settings
                        /\ setter'[k].event.stored.write <= writes'[setter'[k].event.field]
      OBVIOUS
    <3>1. CASE k = c
      BY <1>5, <1>6, <1>8, <1>9, <3>1, NumbersAreNat
    <3>2. CASE k # c
      BY <1>9, <1>10, <2>6, <3>2 DEF Fields
    <3> QED
      BY <3>1, <3>2
  <2>9. writes'["activity"] <= MaxPosts
    BY <1>2, <1>8 DEF SettingsInv, NumbersInOrder, Fields
  <2> QED
    BY <1>1, <2>3, <2>7, <2>8, <2>9 DEF NumbersInOrder
<1>13. RowHasTheLastWrite'
  BY <1>1, <1>2, <1>7, <1>8 DEF SettingsInv, RowHasTheLastWrite, Fields
<1>14. StreamIsTold'
  <2> SUFFICES ASSUME NEW g \in Fields PROVE newest[g] >= metadata'[g].write \/ OnItsWay(g)'
    BY <1>1 DEF StreamIsTold
  <2>1. CASE g = f
    BY <1>5, <1>6, <1>7, <1>9, <2>1, NumbersAreNat DEF OnItsWay
  <2>2. CASE g # f
    <3>1. metadata'[g] = metadata[g]
      BY <1>7, <2>2
    <3>2. OnItsWay(g) => OnItsWay(g)'
      BY <1>1, <1>9, <3>1 DEF OnItsWay
    <3> QED
      BY <3>1, <3>2 DEF SettingsInv, StreamIsTold
  <2> QED
    BY <2>1, <2>2
<1>15. StreamShowsTheNewest'
  BY <1>1 DEF SettingsInv, StreamShowsTheNewest
<1> QED
  BY <1>11, <1>12, <1>13, <1>14, <1>15 DEF SettingsInv

(* Calls and numbers, of a step that neither stores nor starts or ends a   *)
(* call before its store.                                                  *)
LEMMA NumbersKept ==
    ASSUME SettingsInv, UNCHANGED <<writes, changes>>,
           \A f \in Settings : Storing(f)' = Storing(f),
           \A f \in Fields : snapshot'[f].write <= writes[f],
           \A e \in wire' : e.stored.write <= writes[e.field],
           \A c \in Setters : /\ setter'[c].event.field \in Settings
                              /\ setter'[c].event.stored.write <= writes[setter'[c].event.field]
    PROVE  NumbersInOrder'
  BY DEF SettingsInv, NumbersInOrder

LEMMA PublishSettingKeeps ==
    ASSUME SettingsInv, NEW c \in Setters, PublishSetting(c)
    PROVE  SettingsInv'
<1> PICK e \in Event : e = setter[c].event
  BY SetterType DEF SettingsInv
<1>1. /\ setter[c].pc = "publish"
      /\ wire' = wire \union {e}
      /\ setter' = [setter EXCEPT ![c] = NoSetter]
      /\ UNCHANGED <<onPostgres, metadata, writes, chatStream, snapshot, view, newest, overtaken, changes>>
  BY DEF PublishSetting
<1>2. /\ setter' \in [Setters -> Setter]
      /\ setter'[c] = NoSetter
      /\ \A k \in Setters \ {c} : setter'[k] = setter[k]
  BY <1>1, NoSetterType DEF SettingsInv, SettingsTypeOK
<1>3. SettingsTypeOK'
  BY <1>1, <1>2 DEF SettingsInv, SettingsTypeOK
<1>4. NumbersInOrder'
  <2>1. \A f \in Settings : Storing(f)' = Storing(f)
    BY <1>1, <1>2, NoSetterType DEF Storing
  <2>2. "name" \in Settings /\ writes["name"] \in Nat
    BY NumbersAreNat DEF SettingsInv, SettingsTypeOK, Numbers, Settings, Fields
  <2>3. \A k \in Setters : /\ setter'[k].event.field \in Settings
                           /\ setter'[k].event.stored.write <= writes[setter'[k].event.field]
    BY <1>2, <2>2, NoSetterType DEF SettingsInv, NumbersInOrder
  <2>4. \A d \in wire' : d.stored.write <= writes[d.field]
    BY <1>1 DEF SettingsInv, NumbersInOrder
  <2>5. \A f \in Fields : snapshot'[f].write <= writes[f]
    BY <1>1 DEF SettingsInv, NumbersInOrder
  <2> QED
    BY <1>1, <2>1, <2>3, <2>4, <2>5, NumbersKept
<1>5. RowHasTheLastWrite'
  BY <1>1 DEF SettingsInv, RowHasTheLastWrite
<1>6. \A f \in Fields : OnItsWay(f) => OnItsWay(f)'
  BY <1>1, <1>2 DEF OnItsWay
<1> QED
  BY <1>1, <1>3, <1>4, <1>5, <1>6, StreamUntouched DEF SettingsInv

LEMMA PostMessageKeeps ==
    ASSUME SettingsInv, PostMessage
    PROVE  SettingsInv'
<1> PICK w : w = writes["activity"] + 1
  OBVIOUS
<1> DEFINE e == [field |-> "activity", stored |-> [value |-> "high", write |-> w]]
<1>1. /\ writes["activity"] < MaxPosts
      /\ writes' = [writes EXCEPT !["activity"] = w]
      /\ wire' = wire \union {e}
      /\ UNCHANGED <<onPostgres, metadata, setter, chatStream, snapshot, view, newest, overtaken, changes>>
  BY DEF PostMessage
<1>2. "activity" \in Fields /\ "activity" \notin Settings /\ Fields = Settings \union {"activity"}
  BY DEF Fields, Settings
<1>3. writes["activity"] \in Nat /\ w \in Numbers /\ w <= MaxPosts
  BY <1>1, <1>2, NumbersAreNat DEF SettingsInv, SettingsTypeOK, Numbers
<1>4. e \in Event /\ e.field = "activity" /\ e.stored.write = w
  BY <1>2, <1>3 DEF Event, Stored, Values, Numbers
<1> HIDE DEF e
<1>5. /\ writes' \in [Fields -> Numbers] /\ writes'["activity"] = w
      /\ \A g \in Settings : writes'[g] = writes[g]
  BY <1>1, <1>2, <1>3 DEF SettingsInv, SettingsTypeOK, Numbers
<1>6. \A g \in Fields : writes[g] \in Nat /\ writes'[g] \in Nat /\ writes[g] <= writes'[g]
  BY <1>2, <1>3, <1>5, NumbersAreNat DEF SettingsInv, SettingsTypeOK, Numbers
<1>7. SettingsTypeOK'
  <2>1. \A g \in Fields : metadata[g].write \in Nat /\ newest[g] \in Nat
                          /\ metadata[g].write <= writes[g] /\ newest[g] <= writes[g]
    BY NumbersAreNat DEF SettingsInv, SettingsTypeOK, Stored, Numbers
  <2>2. \A g \in Fields : metadata[g].write <= writes'[g] /\ newest[g] <= writes'[g]
    BY <1>6, <2>1
  <2> QED
    BY <1>1, <1>4, <1>5, <2>2 DEF SettingsInv, SettingsTypeOK, Numbers
<1>8. NumbersInOrder'
  <2>1. \A g \in Settings : Storing(g)' = Storing(g)
    BY <1>1 DEF Storing
  <2>2. \A g \in Fields : snapshot[g].write \in Nat /\ snapshot[g].write <= writes[g]
    BY NumbersAreNat DEF SettingsInv, SettingsTypeOK, NumbersInOrder, Stored, Numbers
  <2>3. \A d \in wire : d.field \in Fields /\ d.stored.write \in Nat /\ d.stored.write <= writes[d.field]
    BY NumbersAreNat DEF SettingsInv, SettingsTypeOK, NumbersInOrder, Event, Stored, Numbers
  <2>4. \A g \in Fields : snapshot[g].write <= writes'[g]
    BY <1>6, <2>2
  <2>5. \A d \in wire' : d.stored.write <= writes'[d.field]
    <3>1. \A d \in wire : d.stored.write <= writes'[d.field]
      BY <1>6, <2>3
    <3>2. e.stored.write <= writes'[e.field]
      BY <1>3, <1>4, <1>5, NumbersAreNat
    <3> QED
      BY <1>1, <3>1, <3>2
  <2>6. \A g \in Settings : IsFiniteSet(Storing(g)) /\ writes'[g] + Cardinality(Storing(g)) <= changes
    BY <1>5 DEF SettingsInv, NumbersInOrder
  <2>7. \A k \in Setters : /\ setter[k].event.field \in Settings
                           /\ setter[k].event.stored.write <= writes'[setter[k].event.field]
    BY <1>5 DEF SettingsInv, NumbersInOrder
  <2> QED
    BY <1>1, <1>3, <1>5, <2>1, <2>4, <2>5, <2>6, <2>7 DEF NumbersInOrder
<1>9. RowHasTheLastWrite'
  BY <1>1, <1>4, <1>5 DEF SettingsInv, RowHasTheLastWrite
<1>10. \A g \in Fields : OnItsWay(g) => OnItsWay(g)'
  BY <1>1 DEF OnItsWay
<1> QED
  BY <1>1, <1>7, <1>8, <1>9, <1>10, StreamUntouched DEF SettingsInv

(* What an event makes of the row: the row of a setting stays, and that of *)
(* the activity moves to the event, or is already as new on memory.        *)
LEMMA RowAfter ==
    ASSUME SettingsInv, NEW e \in wire,
           metadata' = IF e.field = "activity" THEN AdvanceLastChatActivity(e.stored) ELSE metadata
    PROVE  /\ metadata' \in [Fields -> Stored]
           /\ \A f \in Fields : metadata'[f] = metadata[f] \/ (f = e.field /\ metadata'[f] = e.stored)
           /\ \A f \in Settings : metadata'[f] = metadata[f]
           /\ ~onPostgres /\ e.field = "activity" =>
                 /\ metadata'["activity"].write >= e.stored.write
                 /\ metadata'["activity"].write >= metadata["activity"].write
<1>1. /\ e \in Event /\ e.field \in Fields /\ e.stored \in Stored /\ e.stored.write \in Nat
      /\ metadata["activity"].write \in Nat /\ "activity" \in Fields /\ "activity" \notin Settings
      /\ metadata \in [Fields -> Stored] /\ Settings \subseteq Fields
  BY NumbersAreNat DEF SettingsInv, SettingsTypeOK, Event, Stored, Numbers, Fields, Settings
<1>2. CASE metadata' = metadata /\ ~(e.field = "activity" /\ (onPostgres \/ e.stored.write >= metadata["activity"].write))
  BY <1>1, <1>2
<1>3. CASE /\ e.field = "activity" /\ (onPostgres \/ e.stored.write >= metadata["activity"].write)
           /\ metadata' = [metadata EXCEPT !["activity"] = e.stored]
  BY <1>1, <1>3
<1> QED
  BY <1>2, <1>3 DEF AdvanceLastChatActivity

LEMMA OnChatEventKeeps ==
    ASSUME SettingsInv, NEW e \in wire, OnChatEvent(e)
    PROVE  SettingsInv'
<1>1. /\ wire' = wire \ {e}
      /\ metadata' = IF e.field = "activity" THEN AdvanceLastChatActivity(e.stored) ELSE metadata
      /\ UNCHANGED <<onPostgres, writes, setter, chatStream, snapshot, changes>>
  BY DEF OnChatEvent
<1>2. /\ metadata' \in [Fields -> Stored]
      /\ \A f \in Fields : metadata'[f] = metadata[f] \/ (f = e.field /\ metadata'[f] = e.stored)
      /\ \A f \in Settings : metadata'[f] = metadata[f]
      /\ ~onPostgres /\ e.field = "activity" =>
            /\ metadata'["activity"].write >= e.stored.write
            /\ metadata'["activity"].write >= metadata["activity"].write
  BY <1>1, RowAfter
<1>3. /\ e.field \in Fields /\ e.stored \in Stored
      /\ e.stored.write \in Nat /\ e.stored.write <= writes[e.field]
  BY NumbersAreNat DEF SettingsInv, SettingsTypeOK, NumbersInOrder, Event, Stored, Numbers
<1>4. \A f \in Fields : /\ metadata[f].write \in Nat /\ metadata'[f].write \in Nat
                        /\ newest[f] \in Nat /\ writes[f] \in Nat
                        /\ metadata[f].write <= writes[f] /\ newest[f] <= writes[f]
  BY <1>2, NumbersAreNat DEF SettingsInv, SettingsTypeOK, Stored, Numbers
<1>5. /\ view' \in [Fields -> Stored]
      /\ newest' \in [Fields -> Numbers]
      /\ overtaken' \in [Fields -> BOOLEAN]
      /\ StreamShowsTheNewest'
      /\ \A f \in Fields : /\ newest'[f] >= newest[f]
                           /\ newest'[f] = newest[f] \/ (f = e.field /\ newest'[f] = e.stored.write)
                           /\ chatStream # "none" /\ f = e.field => newest'[f] >= e.stored.write
  <2>1. CASE chatStream = "none"
    BY <1>4, <2>1, NumbersAreNat
       DEF OnChatEvent, SettingsInv, SettingsTypeOK, Numbers, StreamShowsTheNewest
  <2>2. CASE chatStream # "none"
    <3> PICK seen \in [Fields -> Stored] : seen = [f \in Fields |-> e.stored]
      BY <1>3
    <3>1. Show({e.field}, seen)
      BY <2>2 DEF OnChatEvent
    <3>2. \A f \in Fields : seen[f] = e.stored
      OBVIOUS
    <3>3. /\ view' \in [Fields -> Stored]
          /\ newest' \in [Fields -> Numbers]
          /\ overtaken' \in [Fields -> BOOLEAN]
          /\ StreamShowsTheNewest'
          /\ \A f \in Fields : /\ newest'[f] >= newest[f]
                               /\ newest'[f] = newest[f] \/ (f \in {e.field} /\ newest'[f] = seen[f].write)
                               /\ f \in {e.field} => newest'[f] >= seen[f].write
      BY <3>1, Shown DEF SettingsInv
    <3> QED
      BY <3>2, <3>3
  <2> QED
    BY <2>1, <2>2
<1>6. SettingsTypeOK'
  <2>1. ASSUME NEW f \in Fields
        PROVE  metadata'[f].write <= writes[f] /\ newest'[f] <= writes[f]
    BY <1>2, <1>3, <1>4, <1>5
  <2> QED
    BY <1>1, <1>2, <1>5, <2>1 DEF SettingsInv, SettingsTypeOK, Numbers
<1>7. NumbersInOrder'
  <2>1. \A f \in Settings : Storing(f)' = Storing(f)
    BY <1>1 DEF Storing
  <2>2. /\ \A f \in Fields : snapshot'[f].write <= writes[f]
        /\ \A d \in wire' : d.stored.write <= writes[d.field]
        /\ \A c \in Setters : /\ setter'[c].event.field \in Settings
                              /\ setter'[c].event.stored.write <= writes[setter'[c].event.field]
    BY <1>1 DEF SettingsInv, NumbersInOrder
  <2> QED
    BY <1>1, <2>1, <2>2, NumbersKept
<1>8. RowHasTheLastWrite'
  <2>1. \A f \in Settings : metadata'[f].write = writes'[f]
    BY <1>1, <1>2 DEF SettingsInv, RowHasTheLastWrite
  <2>2. ASSUME ~onPostgres
        PROVE  \/ metadata'["activity"].write = writes["activity"]
               \/ \E d \in wire' : d.field = "activity" /\ d.stored.write = writes["activity"]
    <3>1. "activity" \in Fields
      BY DEF Fields
    <3>2. CASE e.field # "activity"
      <4>1. metadata'["activity"] = metadata["activity"]
        BY <1>2, <3>1, <3>2
      <4> QED
        BY <1>1, <2>2, <3>2, <4>1 DEF SettingsInv, RowHasTheLastWrite
    <3>3. CASE e.field = "activity"
      <4>1. /\ metadata'["activity"].write >= e.stored.write
            /\ metadata'["activity"].write >= metadata["activity"].write
            /\ metadata'["activity"].write <= writes["activity"]
        BY <1>2, <1>3, <1>4, <2>2, <3>1, <3>3
      <4>2. CASE \/ metadata["activity"].write = writes["activity"]
                 \/ e.stored.write = writes["activity"]
        BY <1>4, <3>1, <4>1, <4>2
      <4>3. CASE /\ e.stored.write # writes["activity"]
                 /\ \E d \in wire : d.field = "activity" /\ d.stored.write = writes["activity"]
        BY <1>1, <4>3
      <4> QED
        BY <2>2, <4>2, <4>3 DEF SettingsInv, RowHasTheLastWrite
    <3> QED
      BY <3>2, <3>3
  <2> QED
    BY <1>1, <2>1, <2>2 DEF RowHasTheLastWrite
<1>9. StreamIsTold'
  <2> SUFFICES ASSUME NEW f \in Fields PROVE newest'[f] >= metadata'[f].write \/ OnItsWay(f)'
    BY DEF StreamIsTold
  <2>1. CASE chatStream \in {"none", "registered"}
    BY <1>1, <2>1 DEF OnItsWay
  <2>2. CASE chatStream \notin {"none", "registered"} /\ metadata'[f] = e.stored /\ f = e.field
    BY <1>5, <2>2
  <2>3. CASE chatStream \notin {"none", "registered"} /\ metadata'[f] = metadata[f]
    <3>1. CASE newest[f] >= metadata[f].write
      <4>1. newest'[f] \in Nat
        BY <1>5, NumbersAreNat
      <4> QED
        BY <1>4, <1>5, <2>3, <3>1, <4>1
    <3>2. CASE OnItsWay(f) /\ f # e.field
      BY <1>1, <2>3, <3>2 DEF OnItsWay
    <3>3. CASE OnItsWay(f) /\ f = e.field
      <4>1. CASE e.stored.write >= metadata[f].write
        <5>1. newest'[f] \in Nat
          BY <1>5, NumbersAreNat
        <5> QED
          BY <1>3, <1>4, <1>5, <2>3, <3>3, <4>1, <5>1
      <4>2. CASE ~(e.stored.write >= metadata[f].write)
        BY <1>1, <2>3, <3>3, <4>2 DEF OnItsWay
      <4> QED
        BY <4>1, <4>2
    <3> QED
      BY <3>1, <3>2, <3>3 DEF SettingsInv, StreamIsTold
  <2> QED
    BY <1>2, <2>1, <2>2, <2>3
<1> QED
  BY <1>5, <1>6, <1>7, <1>8, <1>9 DEF SettingsInv

LEMMA ReadMetadataKeeps ==
    ASSUME SettingsInv, ReadMetadata
    PROVE  SettingsInv'
<1>1. /\ chatStream = "registered" /\ chatStream' = "read"
      /\ snapshot' = metadata
      /\ UNCHANGED <<onPostgres, metadata, writes, setter, wire, view, newest, overtaken, changes>>
  BY DEF ReadMetadata
<1>2. SettingsTypeOK'
  BY <1>1 DEF SettingsInv, SettingsTypeOK
<1>3. NumbersInOrder'
  <2>1. \A f \in Settings : Storing(f)' = Storing(f)
    BY <1>1 DEF Storing
  <2>2. /\ \A f \in Fields : snapshot'[f].write <= writes[f]
        /\ \A d \in wire' : d.stored.write <= writes[d.field]
        /\ \A c \in Setters : /\ setter'[c].event.field \in Settings
                              /\ setter'[c].event.stored.write <= writes[setter'[c].event.field]
    BY <1>1 DEF SettingsInv, SettingsTypeOK, NumbersInOrder
  <2> QED
    BY <1>1, <2>1, <2>2, NumbersKept
<1>4. RowHasTheLastWrite'
  BY <1>1 DEF SettingsInv, RowHasTheLastWrite
<1>5. \A f \in Fields : OnItsWay(f)'
  <2>1. \A f \in Fields : metadata[f].write \in Nat
    BY NumbersAreNat DEF SettingsInv, SettingsTypeOK, Stored, Numbers
  <2> QED
    BY <1>1, <2>1 DEF OnItsWay
<1> QED
  BY <1>1, <1>2, <1>3, <1>4, <1>5, StreamUntouched DEF SettingsInv

LEMMA FlushMetadataKeeps ==
    ASSUME SettingsInv, FlushMetadata
    PROVE  SettingsInv'
<1>1. /\ chatStream = "read" /\ chatStream' = "flushed"
      /\ Show(Fields, snapshot)
      /\ UNCHANGED <<onPostgres, metadata, writes, setter, wire, snapshot, changes>>
  BY DEF FlushMetadata
<1> PICK seen \in [Fields -> Stored] : seen = snapshot
  BY DEF SettingsInv, SettingsTypeOK
<1>2. /\ view' \in [Fields -> Stored]
      /\ newest' \in [Fields -> Numbers]
      /\ overtaken' \in [Fields -> BOOLEAN]
      /\ StreamShowsTheNewest'
      /\ \A f \in Fields : /\ newest'[f] >= newest[f]
                           /\ newest'[f] = newest[f] \/ (f \in Fields /\ newest'[f] = seen[f].write)
                           /\ f \in Fields => newest'[f] >= seen[f].write
  BY <1>1, Shown DEF SettingsInv
<1>3. \A f \in Fields : /\ metadata[f].write \in Nat /\ seen[f].write \in Nat /\ newest[f] \in Nat
                        /\ newest'[f] \in Nat /\ writes[f] \in Nat
                        /\ seen[f].write <= writes[f] /\ newest[f] <= writes[f]
  BY <1>2, NumbersAreNat DEF SettingsInv, SettingsTypeOK, NumbersInOrder, Stored, Numbers
<1>4. SettingsTypeOK'
  <2>1. \A f \in Fields : newest'[f] <= writes[f]
    BY <1>2, <1>3
  <2> QED
    BY <1>1, <1>2, <2>1 DEF SettingsInv, SettingsTypeOK, Numbers
<1>5. NumbersInOrder'
  <2>1. \A f \in Settings : Storing(f)' = Storing(f)
    BY <1>1 DEF Storing
  <2>2. /\ \A f \in Fields : snapshot'[f].write <= writes[f]
        /\ \A d \in wire' : d.stored.write <= writes[d.field]
        /\ \A c \in Setters : /\ setter'[c].event.field \in Settings
                              /\ setter'[c].event.stored.write <= writes[setter'[c].event.field]
    BY <1>1 DEF SettingsInv, NumbersInOrder
  <2> QED
    BY <1>1, <2>1, <2>2, NumbersKept
<1>6. RowHasTheLastWrite'
  BY <1>1 DEF SettingsInv, RowHasTheLastWrite
<1>7. StreamIsTold'
  <2> SUFFICES ASSUME NEW f \in Fields PROVE newest'[f] >= metadata[f].write \/ OnItsWay(f)'
    BY <1>1 DEF StreamIsTold
  <2>1. CASE newest[f] >= metadata[f].write
    BY <1>2, <1>3, <2>1
  <2>2. CASE seen[f].write >= metadata[f].write
    BY <1>2, <1>3, <2>2
  <2>3. CASE OnItsWay(f) /\ ~(seen[f].write >= metadata[f].write)
    BY <1>1, <2>3 DEF OnItsWay
  <2> QED
    BY <2>1, <2>2, <2>3 DEF SettingsInv, StreamIsTold
<1> QED
  BY <1>2, <1>4, <1>5, <1>6, <1>7 DEF SettingsInv

(* What binds the row, the events on their way and the stream, in whatever *)
(* order setters, handlers and the flush take their steps (chat/server.go, *)
(* chat/event.go, chat/memory/store.go, chat/postgres/model.go).           *)
THEOREM SettingsInvariant == SettingsSpec => []SettingsInv
<1>1. SettingsInit => SettingsInv
  <2> SUFFICES ASSUME SettingsInit PROVE SettingsInv
    OBVIOUS
  <2>1. \A f \in Fields : metadata[f] \in Stored /\ metadata[f].write = 0
    BY NumbersAreNat DEF SettingsInit, Stored, Values, Numbers
  <2>2. metadata \in [Fields -> Stored]
    BY <2>1 DEF SettingsInit
  <2>3. SettingsTypeOK
    BY <2>1, <2>2, NoSetterType, NumbersAreNat DEF SettingsInit, SettingsTypeOK, Numbers
  <2>4. \A f \in Settings : Storing(f) = {}
    BY NoSetterType DEF SettingsInit, Storing
  <2>5. NumbersInOrder
    <3>1. IsFiniteSet({}) /\ Cardinality({}) = 0
      BY FS_EmptySet
    <3>2. \A f \in Settings : IsFiniteSet(Storing(f)) /\ writes[f] + Cardinality(Storing(f)) <= changes
      BY <2>4, <3>1 DEF SettingsInit, Fields
    <3> QED
      BY <2>1, <3>2, NoSetterType, NumbersAreNat DEF SettingsInit, NumbersInOrder, Fields, Settings
  <2>6. RowHasTheLastWrite /\ StreamShowsTheNewest
    BY <2>1 DEF SettingsInit, RowHasTheLastWrite, StreamShowsTheNewest, Fields
  <2>7. StreamIsTold
    BY DEF SettingsInit, StreamIsTold, OnItsWay
  <2> QED
    BY <2>3, <2>5, <2>6, <2>7 DEF SettingsInv
<1>2. SettingsInv /\ [SettingsNext]_settingsVars => SettingsInv'
  <2> SUFFICES ASSUME SettingsInv, [SettingsNext]_settingsVars PROVE SettingsInv'
    OBVIOUS
  <2>1. ASSUME UNCHANGED <<onPostgres, metadata, writes, setter, wire, snapshot, view, newest,
                           overtaken, changes>>,
               \/ chatStream' = chatStream
               \/ chatStream = "none" /\ chatStream' = "registered"
        PROVE  SettingsInv'
    <3>1. SettingsTypeOK' /\ RowHasTheLastWrite'
      BY <2>1 DEF SettingsInv, SettingsTypeOK, RowHasTheLastWrite
    <3>2. NumbersInOrder'
      BY <2>1 DEF SettingsInv, NumbersInOrder, Storing
    <3>3. \A f \in Fields : OnItsWay(f) => OnItsWay(f)'
      BY <2>1 DEF OnItsWay
    <3> QED
      BY <2>1, <3>1, <3>2, <3>3, StreamUntouched DEF SettingsInv
  <2>2. CASE RegisterStream
    BY <2>1, <2>2 DEF RegisterStream
  <2>3. CASE UNCHANGED settingsVars
    BY <2>1, <2>3 DEF settingsVars
  <2> QED
    BY <2>2, <2>3, RequestSettingKeeps, RefuseSettingKeeps, StoreSettingKeeps, PublishSettingKeeps,
       PostMessageKeeps, OnChatEventKeeps, ReadMetadataKeeps, FlushMetadataKeeps DEF SettingsNext
<1> QED
  BY <1>1, <1>2, PTL DEF SettingsSpec

(* Every variable keeps its type, and nothing stored or shown has a number *)
(* that was not given out.                                                 *)
THEOREM SettingsTyped == SettingsSpec => []SettingsTypeOK
<1>1. SettingsInv => SettingsTypeOK
  BY DEF SettingsInv
<1> QED
  BY <1>1, SettingsInvariant, PTL

(* A stream that was registered before its flush read misses nothing, and  *)
(* the row has the last write (chat/server.go StreamChatEvents,            *)
(* flushInitialState).                                                     *)
THEOREM QuietStreamAlwaysCurrent == SettingsSpec => []QuietStreamIsCurrent
<1>1. SettingsInv => QuietStreamIsCurrent
  <2> SUFFICES ASSUME SettingsInv, Quiet, NEW f \in Fields
               PROVE  /\ newest[f] >= metadata[f].write
                      /\ view[f].write >= metadata[f].write \/ overtaken[f]
                      /\ metadata[f].write = writes[f] \/ (onPostgres /\ f = "activity")
    BY DEF QuietStreamIsCurrent
  <2>1. ~OnItsWay(f)
    BY DEF Quiet, OnItsWay
  <2>2. newest[f] >= metadata[f].write
    BY <2>1 DEF SettingsInv, StreamIsTold
  <2>3. view[f].write >= metadata[f].write \/ overtaken[f]
    BY <2>2 DEF SettingsInv, StreamShowsTheNewest
  <2>4. metadata[f].write = writes[f] \/ (onPostgres /\ f = "activity")
    BY DEF Quiet, SettingsInv, RowHasTheLastWrite, Fields
  <2> QED
    BY <2>2, <2>3, <2>4
<1> QED
  BY <1>1, SettingsInvariant, PTL

-----------------------------------------------------------------------------
(***************************************************************************)
(* PaymentIntents, for any payments: what an intent lets through was paid, *)
(* by whom it is said to be, for what it is presented for.                 *)
(***************************************************************************)

(* What validation leaves of a payment that has gone through: the fee is   *)
(* the one of that moment.                                                 *)
ListenerPaid(i) ==
    /\ paid[i].chat = Room /\ paid[i].payer # RoomOwner /\ paid[i].user = paid[i].payer
    /\ paid[i].paidTo = RoomOwner /\ paid[i].quantity = feeThen[i]

TipPaid(i) ==
    /\ paid[i].user = paid[i].payer /\ paid[i].paidTo # paid[i].payer
    /\ paid[i].post \in Tippable /\ paid[i].paidTo = Sender[paid[i].post]

GroupPaid(i) ==
    paid[i].user = paid[i].payer /\ paid[i].paidTo = Fees /\ paid[i].quantity = StartGroupFee

IntentInv ==
    /\ IntentTypeOK
    /\ paid \in [Submissions -> Intent \union {NotPaid}]
    /\ \A i \in Submissions :
          /\ paid[i].for = "listener" => ListenerPaid(i)
          /\ paid[i].for = "tip" => TipPaid(i)
          /\ paid[i].for = "group" => GroupPaid(i)

(* The fee may change as often as it likes: a payment stays what it was    *)
(* when it was validated (intent/handlers.go).                             *)
THEOREM IntentInvariant == IntentSpec => []IntentInv
<1>1. IntentInit => IntentInv
  BY DEF IntentInit, IntentInv, IntentTypeOK, NotPaid
<1>2. IntentInv /\ [IntentNext]_intentVars => IntentInv'
  <2> SUFFICES ASSUME IntentInv, [IntentNext]_intentVars PROVE IntentInv'
    OBVIOUS
  <2>1. ASSUME NEW i \in Submissions, NEW p \in Intent, WellFormed(p), SubmitIntent(i, p)
        PROVE  IntentInv'
    <3>1. /\ paid' = [paid EXCEPT ![i] = p] /\ feeThen' = [feeThen EXCEPT ![i] = fee] /\ fee' = fee
          /\ Validate(p)
      BY <2>1 DEF SubmitIntent
    <3>2. paid'[i] = p /\ feeThen'[i] = fee
      BY <3>1 DEF IntentInv, IntentTypeOK
    <3>3. \A j \in Submissions \ {i} : paid'[j] = paid[j] /\ feeThen'[j] = feeThen[j]
      BY <3>1 DEF IntentInv, IntentTypeOK
    <3>4. IntentTypeOK' /\ paid' \in [Submissions -> Intent \union {NotPaid}]
      BY <2>1, <3>1, <3>2, <3>3 DEF IntentInv, IntentTypeOK
    <3>5. /\ p.for = "listener" => ListenerPaid(i)'
          /\ p.for = "tip" => TipPaid(i)'
          /\ p.for = "group" => GroupPaid(i)'
      BY <3>1, <3>2 DEF Validate, ValidListenerPayment, ValidTip, ValidGroupPayment,
                        ListenerPaid, TipPaid, GroupPaid
    <3>6. \A j \in Submissions \ {i} :
              /\ paid'[j].for = "listener" => ListenerPaid(j)'
              /\ paid'[j].for = "tip" => TipPaid(j)'
              /\ paid'[j].for = "group" => GroupPaid(j)'
      BY <3>3 DEF IntentInv, ListenerPaid, TipPaid, GroupPaid
    <3> QED
      BY <3>2, <3>4, <3>5, <3>6 DEF IntentInv
  <2>2. ASSUME NEW q \in Quantities, SetMessagingFee(q)
        PROVE  IntentInv'
    BY <2>2 DEF SetMessagingFee, IntentInv, IntentTypeOK, ListenerPaid, TipPaid, GroupPaid
  <2>3. CASE UNCHANGED intentVars
    BY <2>3 DEF intentVars, IntentInv, IntentTypeOK, ListenerPaid, TipPaid, GroupPaid
  <2> QED
    BY <2>1, <2>2, <2>3 DEF IntentNext
<1> QED
  BY <1>1, <1>2, PTL DEF IntentSpec

(* Whatever an intent lets through was paid by the user who presents it,   *)
(* to the one it is owed to, as much as was asked (chat/server.go          *)
(* StartChat, messaging/server.go, intent/handlers.go).                    *)
THEOREM AllowedAlwaysPaid == IntentSpec => []AllowedMeansPaid
<1>1. IntentInv => AllowedMeansPaid
  <2> SUFFICES ASSUME IntentInv PROVE AllowedMeansPaid
    OBVIOUS
  <2>1. ASSUME NEW i \in Submissions, NEW u \in Customers, NEW chat \in {Room, Direct},
               PaysForMessage(i, u, chat)
        PROVE  /\ chat = Room /\ u # RoomOwner
               /\ paid[i].payer = u /\ paid[i].paidTo = RoomOwner /\ paid[i].quantity = feeThen[i]
    BY <2>1 DEF IntentInv, PaysForMessage, ListenerPaid
  <2>2. ASSUME NEW i \in Submissions, NEW u \in Customers, PaysForGroup(i, u)
        PROVE  paid[i].payer = u /\ paid[i].paidTo = Fees /\ paid[i].quantity = StartGroupFee
    BY <2>2 DEF IntentInv, PaysForGroup, GroupPaid
  <2>3. ASSUME NEW i \in Submissions, NEW u \in Customers, NEW chat \in {Room, Direct},
               NEW m \in Posts, NEW amount \in Quantities, PaysForTip(i, u, chat, m, amount)
        PROVE  /\ paid[i].payer = u /\ paid[i].quantity = amount
               /\ paid[i].paidTo = Sender[m] /\ u # Sender[m] /\ m \in Tippable
    BY <2>3 DEF IntentInv, PaysForTip, TipPaid
  <2> QED
    BY <2>1, <2>2, <2>3 DEF AllowedMeansPaid
<1> QED
  BY <1>1, IntentInvariant, PTL

(* Every variable of the payments keeps its type.                          *)
THEOREM IntentTyped == IntentSpec => []IntentTypeOK
<1>1. IntentInv => IntentTypeOK
  BY DEF IntentInv
<1> QED
  BY <1>1, IntentInvariant, PTL

-----------------------------------------------------------------------------

(* The model that is checked is the three parts beside each other.         *)
LEMMA PartsOfChats == MCSpec => Spec /\ SettingsSpec /\ IntentSpec
<1>1. MCInit => Init /\ SettingsInit /\ IntentInit
  BY DEF MCInit
<1>2. [MCNext]_mcVars => [Next]_vars /\ [SettingsNext]_settingsVars /\ [IntentNext]_intentVars
  BY DEF MCNext, mcVars
<1> QED
  BY <1>1, <1>2, PTL DEF MCSpec, Spec, SettingsSpec, IntentSpec

(* Every variable of the chats keeps its type, whichever part moves.       *)
THEOREM ChatsTypesCorrect == MCSpec => []TypesOK
<1>1. TypeOK /\ SettingsTypeOK /\ IntentTypeOK => TypesOK
  BY DEF TypesOK
<1> QED
  BY <1>1, PartsOfChats, StartTypeCorrect, SettingsTyped, IntentTyped, PTL
=============================================================================

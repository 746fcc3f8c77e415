------------------------- MODULE CardsThreadsProofs -------------------------
(***************************************************************************)
(* The handlers of CardsService at the same time, for any number of        *)
(* threads, any deck and any number of war draws.                          *)
(***************************************************************************)
EXTENDS CardsThreads, SequenceTheorems, TLAPS

Handler == DealHandler \cup PlayHandler \cup {NoHandler}

DealPc == {"findAll", "receiver", "from", "to", "save"}
PlayPc == {"turn", "reveal", "table", "pass1", "pass2", "round", "draw", "drawn",
           "runOut", "compare", "return2", "return1", "last"}

-----------------------------------------------------------------------------
(* Lists of cards without repetition, as in ServiceProofs, which is about  *)
(* other variables.                                                        *)

\* Two lists without repetition and without a common card make one.
LEMMA ConcatApart ==
    ASSUME NEW S, NEW a \in Seq(S), NEW b \in Seq(S),
           IsInjective(a), IsInjective(b), Range(a) \cap Range(b) = {}
    PROVE  /\ a \o b \in Seq(S)
           /\ IsInjective(a \o b)
           /\ Range(a \o b) = Range(a) \cup Range(b)
<1> DEFINE c == a \o b
<1>1. /\ c \in Seq(S) /\ Len(c) = Len(a) + Len(b)
      /\ \A i \in 1..Len(c) : c[i] = IF i <= Len(a) THEN a[i] ELSE b[i - Len(a)]
  BY ConcatProperties
<1>2. /\ DOMAIN a = 1..Len(a) /\ DOMAIN b = 1..Len(b) /\ DOMAIN c = 1..Len(c)
      /\ Len(a) \in Nat /\ Len(b) \in Nat
  BY <1>1, LenProperties
<1>3. ASSUME NEW i \in 1..Len(c), NEW j \in 1..Len(c), c[i] = c[j]
      PROVE  i = j
  <2>1. CASE i <= Len(a) /\ j <= Len(a)
    BY <1>1, <1>2, <1>3, <2>1 DEF IsInjective
  <2>2. CASE i > Len(a) /\ j > Len(a)
    <3>1. i - Len(a) \in DOMAIN b /\ j - Len(a) \in DOMAIN b
      BY <1>1, <1>2, <2>2
    <3>2. b[i - Len(a)] = b[j - Len(a)]
      BY <1>1, <1>2, <1>3, <2>2
    <3>3. i - Len(a) = j - Len(a)
      BY <3>1, <3>2 DEF IsInjective
    <3> QED BY <3>3, <1>2
  <2>3. ASSUME NEW k \in 1..Len(c), NEW l \in 1..Len(c),
               k <= Len(a), l > Len(a), c[k] = c[l]
        PROVE  FALSE
    <3>1. k \in DOMAIN a /\ l - Len(a) \in DOMAIN b
      BY <1>1, <1>2, <2>3
    <3>2. a[k] = b[l - Len(a)]
      BY <1>1, <1>2, <2>3
    <3> QED BY <3>1, <3>2, Zenon DEF Range
  <2> QED BY <2>1, <2>2, <2>3, <1>2, <1>3
<1>4. Range(c) = Range(a) \cup Range(b)
  <2>1. ASSUME NEW x \in Range(a) PROVE x \in Range(c)
    BY <1>1, <1>2 DEF Range
  <2>2. ASSUME NEW x \in Range(b) PROVE x \in Range(c)
    <3>1. PICK j \in 1..Len(b) : x = b[j]
      BY <1>2 DEF Range
    <3>2. j + Len(a) \in 1..Len(c) /\ c[j + Len(a)] = x
      BY <1>1, <1>2, <3>1
    <3> QED BY <3>2, <1>2 DEF Range
  <2>3. ASSUME NEW x \in Range(c) PROVE x \in Range(a) \cup Range(b)
    <3>1. PICK i \in 1..Len(c) : x = c[i]
      BY <1>2 DEF Range
    <3>2. CASE i <= Len(a)
      BY <1>1, <1>2, <3>1, <3>2 DEF Range
    <3>3. CASE i > Len(a)
      <4>1. i - Len(a) \in DOMAIN b /\ x = b[i - Len(a)]
        BY <1>1, <1>2, <3>1, <3>3
      <4> QED BY <4>1 DEF Range
    <3> QED BY <3>2, <3>3, <1>2
  <2> QED BY <2>1, <2>2, <2>3
<1>5. IsInjective(c)
  BY <1>2, <1>3 DEF IsInjective
<1> QED BY <1>1, <1>4, <1>5

\* A list of two different cards.
LEMMA PairApart ==
    ASSUME NEW S, NEW x \in S, NEW y \in S, x # y
    PROVE  /\ <<x, y>> \in Seq(S)
           /\ IsInjective(<<x, y>>)
           /\ Range(<<x, y>>) = {x, y}
           /\ <<x, y>> # <<>>
BY DEF IsInjective, Range

\* Adding a card that is not in the list.
LEMMA AppendApart ==
    ASSUME NEW S, NEW a \in Seq(S), NEW x \in S,
           IsInjective(a), x \notin Range(a)
    PROVE  /\ Append(a, x) \in Seq(S)
           /\ IsInjective(Append(a, x))
           /\ Range(Append(a, x)) = Range(a) \cup {x}
           /\ Append(a, x) # <<>>
<1> DEFINE b == <<x>>
<1>1. b \in Seq(S) /\ IsInjective(b) /\ Range(b) = {x}
  BY DEF IsInjective, Range
<1>2. Append(a, x) = a \o b
  BY AppendIsConcat
<1>3. Append(a, x) # <<>>
  BY AppendProperties
<1> HIDE DEF b
<1>4. Range(a) \cap Range(b) = {}
  BY <1>1
<1>5. a \o b \in Seq(S) /\ IsInjective(a \o b) /\ Range(a \o b) = Range(a) \cup Range(b)
  BY <1>1, <1>4, ConcatApart
<1> QED BY <1>1, <1>2, <1>3, <1>5

-----------------------------------------------------------------------------
(* Types.                                                                  *)

\* Where a handler is tells what it is.
LEMMA HandlerKind ==
    ASSUME NEW h \in Handler
    PROVE  /\ h.pc \in DealPc => h \in DealHandler
           /\ h.pc \in PlayPc => h \in PlayHandler
           /\ h.op \in {"deal1", "deal2"} => h \in DealHandler
           /\ h.op \in {"play1", "play2"} => h \in PlayHandler
           /\ h.pc \in DealPc \cup PlayPc \cup {"idle"}
BY DEF Handler, DealHandler, PlayHandler, NoHandler, DealPc, PlayPc

\* A handler that goes on to another place stays what it was.
LEMMA GotoPlay ==
    ASSUME thread \in [Thread -> Handler], NEW t \in Thread, thread[t].pc \in PlayPc,
           NEW pc \in PlayPc, Goto(t, pc)
    PROVE  /\ thread' \in [Thread -> Handler]
           /\ thread'[t] \in PlayHandler /\ thread'[t].pc = pc
           /\ thread'[t].op = thread[t].op /\ thread'[t].card = thread[t].card
           /\ thread'[t].warCards = thread[t].warCards
           /\ \A u \in Thread : u # t => thread'[u] = thread[u]
<1>1. thread[t] \in PlayHandler
  BY HandlerKind
<1>2. /\ [thread[t] EXCEPT !.pc = pc] \in PlayHandler
      /\ [thread[t] EXCEPT !.pc = pc].pc = pc
      /\ [thread[t] EXCEPT !.pc = pc].op = thread[t].op
      /\ [thread[t] EXCEPT !.pc = pc].card = thread[t].card
      /\ [thread[t] EXCEPT !.pc = pc].warCards = thread[t].warCards
  BY <1>1 DEF PlayHandler, PlayPc
<1>3. thread' = [thread EXCEPT ![t] = [thread[t] EXCEPT !.pc = pc]]
  BY DEF Goto
<1> QED BY <1>2, <1>3 DEF Handler

\* The thread is free again.
LEMMA ReturnIdle ==
    ASSUME thread \in [Thread -> Handler], NEW t \in Thread, Return(t)
    PROVE  /\ thread' \in [Thread -> Handler]
           /\ thread'[t] = NoHandler
           /\ \A u \in Thread : u # t => thread'[u] = thread[u]
BY DEF Return, Handler

\* A thread that has returned runs no handler.
LEMMA ReturnNone ==
    ASSUME thread \in [Thread -> Handler], NEW t \in Thread, Return(t)
    PROVE  /\ thread'[t].op = "none" /\ thread'[t].pc = "idle"
           /\ \A u \in Thread : u # t => thread'[u] = thread[u]
<1>1. NoHandler.op = "none" /\ NoHandler.pc = "idle"
  BY DEF NoHandler
<1> QED BY <1>1, ReturnIdle, Zenon

\* A save of a card keeps the types of the rows.
LEMMA SaveType ==
    ASSUME TablesTypeOK, NEW card \in Card, NEW player \in PlayerId,
           NEW order \in Int, NEW flag \in BOOLEAN, Save(card, player, order, flag)
    PROVE  TablesTypeOK'
BY DEF TablesTypeOK, Save

\* Nothing is wrong before the first request.
LEMMA TypeInit == Init => TypeInv
<1> SUFFICES ASSUME Init PROVE TypeInv
  OBVIOUS
<1> USE CardsThreadsAssumption, RepositoriesAssumption DEF Init
<1>1. TablesTypeOK
  BY DEF SeededCards, TablesTypeOK, PlayersEntity, GameEntity, GameState
<1>2. <<>> \in Seq(Card) /\ <<>> \in Seq(Entity) /\ <<>> \in Seq({Username1, Username2, Tie})
  BY EmptySeq
<1>3. ThreadsTypeOK
  <2>1. begun \in [{"deal1", "deal2"} -> 0..MaxStarts]
    OBVIOUS
  <2>2. thread \in [Thread -> DealHandler \cup PlayHandler \cup {NoHandler}]
    OBVIOUS
  <2> QED BY <1>1, <1>2, <2>1, <2>2, Zenon DEF ThreadsTypeOK
<1>4. LocalsSet
  BY DEF LocalsSet, NoHandler
<1> QED BY <1>3, <1>4 DEF TypeInv

\* What holds of the other handlers' locals does not depend on this one's.
LEMMA LocalsOfOne ==
    ASSUME LocalsSet, NEW t \in Thread,
           \A u \in Thread : u # t => thread'[u] = thread[u],
           playedCard1 \in Card => playedCard1' \in Card,
           playedCard2 \in Card => playedCard2' \in Card,
           thread'[t].pc \in {"reveal", "table", "drawn"} => thread'[t].card \in Card,
           thread'[t].pc \in {"round", "draw", "drawn", "runOut", "compare"} =>
               playedCard2' \in Card,
           thread'[t].pc \in {"draw", "drawn", "runOut", "compare"} =>
               playedCard1' \in Card
    PROVE  LocalsSet'
BY DEF LocalsSet

\* The same for a thread that deals, or none.
LEMMA LocalsOfDeal ==
    ASSUME LocalsSet, NEW t \in Thread, UNCHANGED played,
           \A u \in Thread : u # t => thread'[u] = thread[u],
           thread'[t] \in DealHandler \cup {NoHandler}
    PROVE  LocalsSet'
<1>1. thread'[t].pc \in DealPc \cup {"idle"}
  BY DEF DealHandler, NoHandler, DealPc
<1> QED BY <1>1, LocalsOfOne DEF DealPc, played

\* dealCards1 and dealCards2, up to subList.
LEMMA DealReadsType ==
    ASSUME TypeInv, NEW t \in Thread,
           \/ \E op \in {"deal1", "deal2"} : ReceiveDeal(t, op)
           \/ FindAll(t) \/ SubListReceiver(t) \/ SubListFrom(t)
    PROVE  TypeInv'
<1>1. thread \in [Thread -> Handler] /\ ThreadsTypeOK /\ LocalsSet
  BY DEF TypeInv, ThreadsTypeOK, Handler
<1>2. ASSUME NEW op \in {"deal1", "deal2"}, ReceiveDeal(t, op) PROVE TypeInv'
  <2>1. <<>> \in Seq(Entity)
    BY EmptySeq
  <2>2. [op |-> op, pc |-> "findAll", list |-> <<>>, from |-> 0, todo |-> <<>>] \in DealHandler
    BY <2>1 DEF DealHandler
  <2>3. /\ thread' \in [Thread -> Handler] /\ thread'[t] \in DealHandler
        /\ \A u \in Thread : u # t => thread'[u] = thread[u]
    BY <1>1, <1>2, <2>2 DEF ReceiveDeal, Handler
  <2>4. begun' \in [{"deal1", "deal2"} -> 0..MaxStarts]
    BY <1>1, <1>2, CardsThreadsAssumption DEF ReceiveDeal, ThreadsTypeOK
  <2>5. /\ UNCHANGED <<tables, turns, played, piles, winnerTopic, buttons>> /\ allCards' = <<>>
        /\ orderly' \in BOOLEAN
    BY <1>2, Zenon DEF ReceiveDeal
  <2>6. ThreadsTypeOK'
    BY <1>1, <2>1, <2>3, <2>4, <2>5, ZenonT(40)
       DEF ThreadsTypeOK, TablesTypeOK, tables, turns, played, piles, Handler
  <2>7. LocalsSet'
    BY <1>1, <2>3, <2>5, LocalsOfDeal
  <2> QED BY <2>6, <2>7 DEF TypeInv
<1>3. ASSUME thread[t].pc \in DealPc, allCards' \in Seq(Entity), orderly' \in BOOLEAN,
             UNCHANGED <<tables, turns, played, piles, winnerTopic, begun, buttons>>,
             NEW h \in DealHandler, thread' = [thread EXCEPT ![t] = h]
      PROVE  TypeInv'
  <2>1. /\ thread' \in [Thread -> Handler] /\ thread'[t] \in DealHandler
        /\ \A u \in Thread : u # t => thread'[u] = thread[u]
    BY <1>1, <1>3 DEF Handler
  <2>2. ThreadsTypeOK'
    BY <1>1, <1>3, <2>1, Zenon
       DEF ThreadsTypeOK, TablesTypeOK, tables, turns, played, piles, Handler
  <2>3. LocalsSet'
    BY <1>1, <1>3, <2>1, LocalsOfDeal
  <2> QED BY <2>2, <2>3 DEF TypeInv
<1>4. thread[t].pc \in DealPc => thread[t] \in DealHandler
  BY <1>1, HandlerKind
<1>5. CASE FindAll(t)
  <2>1. thread[t].pc = "findAll" /\ thread[t] \in DealHandler
    BY <1>4, <1>5 DEF FindAll, At, DealPc
  <2>2. [thread[t] EXCEPT !.pc = "receiver"] \in DealHandler
    BY <2>1 DEF DealHandler
  <2>3. thread' = [thread EXCEPT ![t] = [thread[t] EXCEPT !.pc = "receiver"]]
    BY <1>5 DEF FindAll, Goto
  <2>4. PICK order \in Orders :
            /\ allCards' = [i \in DOMAIN order |->
                  [card |-> order[i], order |-> dealOrder[order[i]],
                   isPlayed |-> isPlayed[order[i]]]]
            /\ orderly' = (orderly /\ order = Deck)
    BY <1>5, Zenon DEF FindAll
  <2>5. allCards' \in Seq(Entity)
    <3>1. /\ order \in Seq(Card) /\ DOMAIN order = 1..Len(order) /\ Len(order) \in Nat
          /\ \A i \in DOMAIN order : order[i] \in Card
      BY CardsThreadsAssumption, LenProperties, ElementOfSeq
    <3>2. \A c \in Card : dealOrder[c] \in Int /\ isPlayed[c] \in BOOLEAN
      BY <1>1 DEF ThreadsTypeOK, TablesTypeOK
    <3>3. \A i \in DOMAIN order : [card |-> order[i], order |-> dealOrder[order[i]],
                                    isPlayed |-> isPlayed[order[i]]] \in Entity
      BY <3>1, <3>2, Zenon DEF Entity
    <3>4. allCards' \in [1..Len(order) -> Entity]
      BY <2>4, <3>1, <3>3, Zenon
    <3> QED BY <3>1, <3>4
  <2>6. orderly' \in BOOLEAN
    BY <2>4, Zenon
  <2> QED BY <1>3, <1>5, <2>1, <2>2, <2>3, <2>5, <2>6, Zenon DEF FindAll, DealPc
<1>6. allCards \in Seq(Entity) /\ Len(allCards) \in Nat /\ orderly \in BOOLEAN
  BY <1>1, LenProperties DEF ThreadsTypeOK
<1>7. CASE SubListReceiver(t)
  <2>1. thread[t].pc = "receiver" /\ thread[t] \in DealHandler
    BY <1>4, <1>7 DEF SubListReceiver, At, DealPc
  <2> DEFINE h == [thread[t] EXCEPT !.list = allCards,
                                    !.pc = IF thread[t].op = "deal1" THEN "to" ELSE "from"]
  <2>2. h \in DealHandler
    BY <1>6, <2>1, Zenon DEF DealHandler
  <2>3. thread' = [thread EXCEPT ![t] = h]
    BY <1>1, <1>7, Zenon DEF SubListReceiver
  <2> HIDE DEF h
  <2> QED BY <1>3, <1>6, <1>7, <2>1, <2>2, <2>3, Zenon DEF SubListReceiver, DealPc, requests
<1>8. CASE SubListFrom(t)
  <2>1. thread[t].pc = "from" /\ thread[t] \in DealHandler
    BY <1>4, <1>8 DEF SubListFrom, At, DealPc
  <2> DEFINE h == [thread[t] EXCEPT !.from = Len(allCards) \div 2, !.pc = "to"]
  <2>2. h \in DealHandler
    <3>1. Len(allCards) \div 2 \in Nat
      BY <1>6
    <3> QED BY <2>1, <3>1, Zenon DEF DealHandler
  <2>3. thread' = [thread EXCEPT ![t] = h]
    BY <1>1, <1>8, Zenon DEF SubListFrom
  <2> HIDE DEF h
  <2> QED BY <1>3, <1>6, <1>8, <2>1, <2>2, <2>3, Zenon DEF SubListFrom, DealPc, requests
<1> QED BY <1>2, <1>5, <1>7, <1>8

\* subList, the shuffle and the saves of a deal.
LEMMA DealWritesType ==
    ASSUME TypeInv, NEW t \in Thread, SubListTo(t) \/ DealSave(t) \/ DealAnswer(t)
    PROVE  TypeInv'
<1>1. thread \in [Thread -> Handler] /\ ThreadsTypeOK /\ LocalsSet
  BY Zenon DEF TypeInv, ThreadsTypeOK, Handler
<1>2. thread[t] \in DealHandler
  BY <1>1, HandlerKind DEF SubListTo, DealSave, DealAnswer, At, DealPc
<1>3. ASSUME UNCHANGED <<allCards, turns, played, piles, winnerTopic, begun, orderly>>,
             TablesTypeOK', buttons' \subseteq {Player1, Player2},
             NEW h \in DealHandler \cup {NoHandler}, thread' = [thread EXCEPT ![t] = h]
      PROVE  TypeInv'
  <2>1. /\ thread' \in [Thread -> Handler] /\ thread'[t] \in DealHandler \cup {NoHandler}
        /\ \A u \in Thread : u # t => thread'[u] = thread[u]
    BY <1>1, <1>3 DEF Handler
  <2>2. ThreadsTypeOK'
    BY <1>1, <1>3, <2>1 DEF ThreadsTypeOK, turns, played, piles, Handler
  <2>3. LocalsSet'
    BY <1>1, <1>3, <2>1, LocalsOfDeal
  <2> QED BY <2>2, <2>3 DEF TypeInv
<1>4. TablesTypeOK /\ buttons \subseteq {Player1, Player2}
  BY <1>1 DEF ThreadsTypeOK
<1>5. thread[t].todo \in Seq(Entity) /\ thread[t].list \in Seq(Entity)
      /\ thread[t].from \in Nat /\ Player(thread[t].op) \in {Player1, Player2}
  BY <1>2, Zenon DEF DealHandler, Player
<1>6. CASE SubListTo(t)
  <2> DEFINE list == thread[t].list
             from == thread[t].from
             to == IF thread[t].op = "deal1" THEN Len(allCards) \div 2 ELSE Len(allCards)
             size == to - from
             dealt(shuffle) == [i \in 1..size |->
                                  [list[from + shuffle[i]] EXCEPT !.order = i - 1]]
  <2>1. TablesTypeOK' /\ buttons' \subseteq {Player1, Player2}
        /\ UNCHANGED <<allCards, turns, played, piles, winnerTopic, begun, orderly>>
    BY <1>4, <1>6, Zenon DEF SubListTo, TablesTypeOK, tables, requests
  <2>2. CASE Return(t)
    BY <1>3, <2>1, <2>2, Zenon DEF Return
  <2>3. CASE ~(size < 0 \/ to > Len(list))
    <3>1. PICK shuffle \in Bijection(1..size, 1..size) :
            thread' = [thread EXCEPT ![t].todo = dealt(shuffle), ![t].pc = "save"]
      BY <1>6, <2>3, Zenon DEF SubListTo
    <3>2. from \in Nat /\ to \in Nat /\ Len(list) \in Nat /\ size \in Nat /\ to <= Len(list)
      <4>1. Len(allCards) \in Nat /\ Len(list) \in Nat
        BY <1>1, <1>5, LenProperties DEF ThreadsTypeOK
      <4>2. to \in Nat
        BY <4>1, SMTT(40), Z3T(40)
      <4> HIDE DEF to
      <4> QED BY <1>5, <2>3, <4>1, <4>2, SMTT(40), Z3T(40)
    <3>3. \A i \in 1..size : shuffle[i] \in 1..size
      BY <3>1, Zenon DEF Bijection, Injection
    <3>4. \A i \in 1..size : list[from + shuffle[i]] \in Entity
      <4> SUFFICES ASSUME NEW i \in 1..size PROVE list[from + shuffle[i]] \in Entity
        OBVIOUS
      <4>1. shuffle[i] \in 1..size
        BY <3>3
      <4>2. from + shuffle[i] \in 1..Len(list)
        <5> HIDE DEF from, to, list
        <5> QED BY <3>2, <4>1
      <4> QED BY <1>5, <4>2, ElementOfSeq, Zenon
    <3>5. \A i \in 1..size : [list[from + shuffle[i]] EXCEPT !.order = i - 1] \in Entity
      <4> HIDE DEF size, list, from
      <4> QED BY <3>2, <3>4 DEF Entity
    <3>6. dealt(shuffle) \in [1..size -> Entity]
      <4> HIDE DEF size, list, from
      <4> QED BY <3>5
    <3>7. dealt(shuffle) \in Seq(Entity)
      <4> HIDE DEF size, dealt
      <4> QED BY <3>2, <3>6
    <3> HIDE DEF dealt
    <3>8. [thread[t] EXCEPT !.todo = dealt(shuffle), !.pc = "save"] \in DealHandler
      BY <1>2, <3>7, Zenon DEF DealHandler
    <3>9. thread' = [thread EXCEPT ![t] =
                       [thread[t] EXCEPT !.todo = dealt(shuffle), !.pc = "save"]]
      BY <1>1, <3>1, Zenon
    <3> QED BY <1>3, <2>1, <3>8, <3>9, Zenon
  <2> QED BY <1>6, <2>2, <2>3, ZenonT(40) DEF SubListTo
<1>7. CASE DealSave(t)
  <2>1. thread[t].todo # <<>>
    BY <1>7 DEF DealSave
  <2>2. Head(thread[t].todo) \in Entity /\ Tail(thread[t].todo) \in Seq(Entity)
    BY <1>5, <2>1, HeadTailProperties
  <2>3. TablesTypeOK'
    <3>1. PICK entity \in Entity :
            Save(entity.card, Player(thread[t].op), entity.order, entity.isPlayed)
      BY <1>7, <2>2 DEF DealSave
    <3>2. entity.card \in Card /\ entity.order \in Int /\ entity.isPlayed \in BOOLEAN
      BY DEF Entity
    <3>3. Player(thread[t].op) \in PlayerId
      BY <1>5, CardsThreadsAssumption
    <3> QED BY <1>4, <3>1, <3>2, <3>3, SaveType
  <2>4. [thread[t] EXCEPT !.todo = Tail(thread[t].todo)] \in DealHandler
    BY <1>2, <2>2, Zenon DEF DealHandler
  <2>5. thread' = [thread EXCEPT ![t] = [thread[t] EXCEPT !.todo = Tail(thread[t].todo)]]
    BY <1>1, <1>7 DEF DealSave
  <2> QED BY <1>3, <1>4, <1>7, <2>3, <2>4, <2>5, Zenon DEF DealSave, requests
<1>8. CASE DealAnswer(t)
  <2>1. TablesTypeOK' /\ buttons' \subseteq {Player1, Player2}
        /\ UNCHANGED <<allCards, turns, played, piles, winnerTopic, begun, orderly>>
        /\ thread' = [thread EXCEPT ![t] = NoHandler]
    BY <1>4, <1>5, <1>8, Zenon DEF DealAnswer, Return, TablesTypeOK, tables
  <2> QED BY <1>3, <2>1, Zenon
<1> QED BY <1>6, <1>7, <1>8

\* A step of a play, from the types of what it writes.
LEMMA PlayStepType ==
    ASSUME TypeInv, NEW t \in Thread, UNCHANGED <<allCards, requests>>,
           TablesTypeOK', player1Turn' \in BOOLEAN, player2Turn' \in BOOLEAN,
           playedCard1' \in Card \cup {NoCard}, playedCard2' \in Card \cup {NoCard},
           player1CapturedCards' \in Seq(Card), player2CapturedCards' \in Seq(Card),
           winnerTopic' \in Seq({Username1, Username2, Tie}),
           thread' \in [Thread -> Handler],
           \A u \in Thread : u # t => thread'[u] = thread[u],
           playedCard1 \in Card => playedCard1' \in Card,
           playedCard2 \in Card => playedCard2' \in Card,
           \/ thread'[t].pc \in {"idle", "turn", "pass1", "pass2", "return2", "return1", "last"}
           \/ thread'[t].pc \in {"reveal", "table"} /\ thread'[t].card \in Card
           \/ thread'[t].pc = "round" /\ playedCard2' \in Card
           \/ /\ thread'[t].pc \in {"draw", "runOut", "compare"}
              /\ playedCard1' \in Card /\ playedCard2' \in Card
           \/ /\ thread'[t].pc = "drawn" /\ thread'[t].card \in Card
              /\ playedCard1' \in Card /\ playedCard2' \in Card
    PROVE  TypeInv'
<1>1. ThreadsTypeOK'
  BY DEF TypeInv, ThreadsTypeOK, requests, Handler
<1>2. LocalsSet'
  <2>1. LocalsSet
    BY DEF TypeInv
  <2> QED BY <2>1, LocalsOfOne
<1> QED BY <1>1, <1>2 DEF TypeInv

\* The card a query finds is one of the player's, or none.
LEMMA PickType ==
    ASSUME ThreadsTypeOK, NEW player, NEW card \in Pick(player)
    PROVE  card \in Card \cup {NoCard} /\ OrderOf(card) \in Int
BY DEF Pick, OrderOf, NextCards, Unplayed, FindCardsByPlayer, ThreadsTypeOK, TablesTypeOK

\* playCard1, and playCard2 up to gameRound.
LEMMA PlayType ==
    ASSUME TypeInv, NEW t \in Thread,
           (\E op \in {"play1", "play2"} : ReceivePlay(t, op)) \/ Play(t)
    PROVE  TypeInv'
<1>1. thread \in [Thread -> Handler] /\ ThreadsTypeOK /\ LocalsSet
  BY DEF TypeInv, ThreadsTypeOK, Handler
<1>2. TablesTypeOK /\ (UNCHANGED tables => TablesTypeOK')
  BY <1>1, Zenon DEF ThreadsTypeOK, TablesTypeOK, tables
<1>3. ASSUME NEW op \in {"play1", "play2"}, ReceivePlay(t, op) PROVE TypeInv'
  <2>1. PICK card \in Pick(Player(op)) :
          thread' = [thread EXCEPT ![t] =
            [op |-> op, pc |-> "turn", card |-> card, order |-> OrderOf(card),
             last |-> Unplayed(Player(op)) \subseteq {card}, warCards |-> <<>>]]
    BY <1>3 DEF ReceivePlay
  <2>2. card \in Card \cup {NoCard} /\ OrderOf(card) \in Int /\ <<>> \in Seq(Card)
    BY <1>1, PickType, EmptySeq, Zenon
  <2>3. [op |-> op, pc |-> "turn", card |-> card, order |-> OrderOf(card),
         last |-> Unplayed(Player(op)) \subseteq {card}, warCards |-> <<>>] \in PlayHandler
    BY <2>2, Zenon DEF PlayHandler
  <2>4. /\ thread' \in [Thread -> Handler] /\ thread'[t].pc = "turn"
        /\ \A u \in Thread : u # t => thread'[u] = thread[u]
    BY <1>1, <2>1, <2>3 DEF Handler
  <2>5. /\ UNCHANGED <<tables, allCards, turns, played, piles, winnerTopic, begun, buttons>>
        /\ orderly' \in BOOLEAN
    BY <1>3, Zenon DEF ReceivePlay
  <2>6. ThreadsTypeOK'
    BY <1>1, <1>2, <2>4, <2>5, ZenonT(40) DEF ThreadsTypeOK, turns, played, piles, Handler
  <2>7. LocalsSet'
    <3>1. UNCHANGED <<playedCard1, playedCard2>>
      BY <2>5, Zenon DEF played
    <3> QED BY <1>1, <2>4, <3>1, LocalsOfOne, Zenon
  <2> QED BY <2>6, <2>7, Zenon DEF TypeInv
<1>4. CASE CheckTurn(t)
  <2>1. thread[t].pc = "turn" /\ thread[t] \in PlayHandler
    BY <1>1, <1>4, HandlerKind DEF CheckTurn, At, PlayPc
  <2>2. CASE Goto(t, "reveal") /\ thread[t].card # NoCard
    <3>1. /\ thread' \in [Thread -> Handler]
          /\ thread'[t].pc = "reveal" /\ thread'[t].card = thread[t].card
          /\ \A u \in Thread : u # t => thread'[u] = thread[u]
      BY <1>1, <2>1, <2>2, GotoPlay, Zenon DEF PlayPc
    <3>2. thread[t].card \in Card
      BY <2>1, <2>2 DEF PlayHandler
    <3> QED BY <1>1, <1>2, <1>4, <3>1, <3>2, PlayStepType, ZenonT(40)
            DEF CheckTurn, ThreadsTypeOK, turns, played, piles, requests
  <2>3. CASE Return(t)
    <3>1. /\ thread' \in [Thread -> Handler] /\ thread'[t].pc = "idle"
          /\ \A u \in Thread : u # t => thread'[u] = thread[u]
      BY <1>1, <2>3, ReturnIdle DEF NoHandler
    <3> QED BY <1>1, <1>2, <1>4, <3>1, PlayStepType, Zenon
            DEF CheckTurn, ThreadsTypeOK, turns, played, piles, requests
  <2> QED BY <1>4, <2>2, <2>3 DEF CheckTurn
<1>5. CASE Reveal(t)
  <2>1. thread[t].pc = "reveal" /\ thread[t] \in PlayHandler
    BY <1>1, <1>5, HandlerKind DEF Reveal, At, PlayPc
  <2>2. thread[t].card \in Card
    BY <1>1, <2>1, Zenon DEF LocalsSet
  <2>3. /\ thread' \in [Thread -> Handler]
        /\ thread'[t].pc = "table" /\ thread'[t].card \in Card
        /\ \A u \in Thread : u # t => thread'[u] = thread[u]
    BY <1>1, <1>5, <2>1, <2>2, GotoPlay DEF Reveal, PlayPc
  <2>4. TablesTypeOK'
    <3>1. thread[t].order \in Int /\ Player(thread[t].op) \in PlayerId
      BY <2>1, CardsThreadsAssumption, Zenon DEF PlayHandler, Player
    <3> QED BY <1>2, <1>5, <2>2, <3>1, SaveType, ZenonT(40) DEF Reveal
  <2> QED BY <1>1, <1>5, <2>3, <2>4, PlayStepType, ZenonT(40)
          DEF Reveal, ThreadsTypeOK, turns, played, piles, requests
<1>6. CASE PutOnTable(t)
  <2>1. thread[t].pc = "table" /\ thread[t] \in PlayHandler
    BY <1>1, <1>6, HandlerKind, Zenon DEF PutOnTable, At, PlayPc
  <2>2. thread[t].card \in Card
    BY <1>1, <2>1 DEF LocalsSet
  <2>3. UNCHANGED <<tables, allCards, turns, piles, winnerTopic, requests>>
    BY <1>6 DEF PutOnTable
  <2>4. CASE playedCard1' = thread[t].card /\ Goto(t, "pass1") /\ UNCHANGED playedCard2
    <3>1. /\ thread' \in [Thread -> Handler] /\ thread'[t].pc = "pass1"
          /\ \A u \in Thread : u # t => thread'[u] = thread[u]
      BY <1>1, <2>1, <2>4, GotoPlay DEF PlayPc
    <3> QED BY <1>1, <1>2, <2>2, <2>3, <2>4, <3>1, PlayStepType, Zenon
            DEF ThreadsTypeOK, turns, piles, requests
  <2>5. CASE playedCard2' = thread[t].card /\ Goto(t, "round") /\ UNCHANGED playedCard1
    <3>1. /\ thread' \in [Thread -> Handler] /\ thread'[t].pc = "round"
          /\ \A u \in Thread : u # t => thread'[u] = thread[u]
      BY <1>1, <2>1, <2>5, GotoPlay, Zenon DEF PlayPc
    <3> QED BY <1>1, <1>2, <2>2, <2>3, <2>5, <3>1, PlayStepType, ZenonT(40)
            DEF ThreadsTypeOK, turns, piles, requests
  <2> QED BY <1>6, <2>4, <2>5 DEF PutOnTable
<1>7. CASE Pass1(t)
  <2>1. /\ thread' \in [Thread -> Handler] /\ thread'[t].pc = "pass2"
        /\ \A u \in Thread : u # t => thread'[u] = thread[u]
    BY <1>1, <1>7, GotoPlay DEF Pass1, At, PlayPc
  <2> QED BY <1>1, <1>2, <1>7, <2>1, PlayStepType, Zenon
          DEF Pass1, ThreadsTypeOK, turns, played, piles, requests
<1>8. CASE Pass2(t)
  <2>1. /\ thread' \in [Thread -> Handler] /\ thread'[t].pc = "idle"
        /\ \A u \in Thread : u # t => thread'[u] = thread[u]
    BY <1>1, <1>8, ReturnIdle DEF Pass2, NoHandler
  <2> QED BY <1>1, <1>2, <1>8, <2>1, PlayStepType, ZenonT(40)
          DEF Pass2, ThreadsTypeOK, turns, played, piles, requests
<1> QED BY <1>3, <1>4, <1>5, <1>6, <1>7, <1>8, Zenon DEF Play

\* Cards of the table or of a war added to a pile.
LEMMA CaptureType ==
    ASSUME ThreadsTypeOK, NEW cards \in Seq(Card), Capture1(cards) \/ Capture2(cards)
    PROVE  player1CapturedCards' \in Seq(Card) /\ player2CapturedCards' \in Seq(Card)
<1>1. player1CapturedCards \in Seq(Card) /\ player2CapturedCards \in Seq(Card)
  BY DEF ThreadsTypeOK
<1>2. player1CapturedCards \o cards \in Seq(Card) /\ player2CapturedCards \o cards \in Seq(Card)
  BY <1>1, ConcatProperties
<1> QED BY <1>1, <1>2, Zenon DEF Capture1, Capture2

\* The name that is sent.
LEMMA VerdictType == Verdict \in {Username1, Username2, Tie}
BY DEF Verdict

\* gameRound, war and the end of playCard2.
LEMMA EndRoundType ==
    ASSUME TypeInv, NEW t \in Thread, EndRound(t)
    PROVE  TypeInv'
<1>1. thread \in [Thread -> Handler] /\ ThreadsTypeOK /\ LocalsSet
  BY DEF TypeInv, ThreadsTypeOK, Handler
<1>2. TablesTypeOK /\ (UNCHANGED tables => TablesTypeOK')
  BY <1>1, Zenon DEF ThreadsTypeOK, TablesTypeOK, tables
<1>3. thread[t].pc \in PlayPc /\ thread[t] \in PlayHandler
  BY <1>1, HandlerKind, Zenon
     DEF EndRound, GameRound, WarQuery, WarSave, WarRunsOut, WarCompare,
                           Return2, Return1, LastCard, At, PlayPc
<1>4. thread[t].warCards \in Seq(Card)
  BY <1>3 DEF PlayHandler
<1>5. \A pc \in PlayPc : Goto(t, pc) =>
         /\ thread' \in [Thread -> Handler] /\ thread'[t].pc = pc
         /\ \A u \in Thread : u # t => thread'[u] = thread[u]
  BY <1>1, <1>3, GotoPlay
<1>6. Return(t) => /\ thread' \in [Thread -> Handler] /\ thread'[t].pc = "idle"
                   /\ \A u \in Thread : u # t => thread'[u] = thread[u]
  BY <1>1, ReturnIdle DEF NoHandler
<1>7. ASSUME NEW h \in PlayHandler, thread' = [thread EXCEPT ![t] = h]
      PROVE  /\ thread' \in [Thread -> Handler] /\ thread'[t] = h
             /\ \A u \in Thread : u # t => thread'[u] = thread[u]
  BY <1>1, <1>7 DEF Handler
<1>8. /\ player1Turn \in BOOLEAN /\ player2Turn \in BOOLEAN
      /\ playedCard1 \in Card \cup {NoCard} /\ playedCard2 \in Card \cup {NoCard}
      /\ player1CapturedCards \in Seq(Card) /\ player2CapturedCards \in Seq(Card)
      /\ winnerTopic \in Seq({Username1, Username2, Tie})
  BY <1>1 DEF ThreadsTypeOK
<1>9. CASE GameRound(t)
  <2>1. /\ thread[t].pc = "round" /\ playedCard2 \in Card
        /\ UNCHANGED <<tables, allCards, turns, played, winnerTopic, requests>>
    BY <1>1, <1>9, Zenon DEF GameRound, At, LocalsSet
  <2>2. CASE Return(t) /\ UNCHANGED piles
    BY <1>2, <1>6, <1>8, <2>1, <2>2, PlayStepType, Zenon DEF turns, played, piles
  <2>3. CASE playedCard1 # NoCard
    <3>1. <<playedCard1, playedCard2>> \in Seq(Card)
      BY <1>8, <2>1, <2>3, SMTT(40), Z3T(40)
    <3>2. CASE /\ Goto(t, "return2")
               /\ \/ Capture1(<<playedCard1, playedCard2>>)
                  \/ Capture2(<<playedCard1, playedCard2>>)
      <4>1. player1CapturedCards' \in Seq(Card) /\ player2CapturedCards' \in Seq(Card)
        BY <1>1, <3>1, <3>2, CaptureType, Zenon
      <4> QED BY <1>2, <1>5, <1>8, <2>1, <3>2, <4>1, PlayStepType, Zenon
                 DEF turns, played, PlayPc
    <3>3. CASE /\ thread' = [thread EXCEPT ![t].warCards = <<playedCard1, playedCard2>>,
                                           ![t].pc = "draw"]
               /\ UNCHANGED piles
      <4> DEFINE h == [thread[t] EXCEPT !.warCards = <<playedCard1, playedCard2>>,
                                        !.pc = "draw"]
      <4>1. h \in PlayHandler /\ h.pc = "draw"
        BY <1>3, <3>1, Zenon DEF PlayHandler
      <4>2. thread' = [thread EXCEPT ![t] = h]
        BY <1>1, <3>3, Zenon
      <4> HIDE DEF h
      <4>3. /\ thread' \in [Thread -> Handler] /\ thread'[t].pc = "draw"
            /\ \A u \in Thread : u # t => thread'[u] = thread[u]
        BY <1>7, <4>1, <4>2, ZenonT(40)
      <4> QED BY <1>2, <1>8, <2>1, <2>3, <3>3, <4>3, PlayStepType, ZenonT(40)
                 DEF turns, played, piles
    <3> QED BY <1>9, <2>3, <3>2, <3>3, Zenon DEF GameRound
  <2> QED BY <1>9, <2>2, <2>3 DEF GameRound
<1>10. CASE WarQuery(t)
  <2>1. /\ thread[t].pc = "draw" /\ playedCard1 \in Card /\ playedCard2 \in Card
        /\ UNCHANGED <<tables, allCards, turns, played, piles, winnerTopic, requests>>
    BY <1>1, <1>10 DEF WarQuery, At, LocalsSet
  <2>2. PICK card \in Pick(Drawer(t)) :
          thread' = [thread EXCEPT ![t].card = card, ![t].order = OrderOf(card),
                                   ![t].pc = IF card = NoCard THEN "runOut" ELSE "drawn"]
    BY <1>10, Zenon DEF WarQuery
  <2>3. card \in Card \cup {NoCard} /\ OrderOf(card) \in Int
    BY <1>1, PickType
  <2> DEFINE h == [thread[t] EXCEPT !.card = card, !.order = OrderOf(card),
                                    !.pc = IF card = NoCard THEN "runOut" ELSE "drawn"]
  <2>4. /\ h \in PlayHandler
        /\ h.pc = "runOut" \/ (h.pc = "drawn" /\ h.card \in Card)
    BY <1>3, <2>3, Zenon DEF PlayHandler
  <2>5. thread' = [thread EXCEPT ![t] = h]
    BY <1>1, <2>2, Zenon
  <2> HIDE DEF h
  <2>6. /\ thread' \in [Thread -> Handler]
        /\ thread'[t].pc = "runOut" \/ (thread'[t].pc = "drawn" /\ thread'[t].card \in Card)
        /\ \A u \in Thread : u # t => thread'[u] = thread[u]
    BY <1>7, <2>4, <2>5, Zenon
  <2> QED BY <1>2, <1>8, <2>1, <2>6, PlayStepType DEF turns, played, piles
<1>11. CASE WarSave(t)
  <2>1. /\ thread[t].pc = "drawn" /\ thread[t].card \in Card
        /\ playedCard1 \in Card /\ playedCard2 \in Card
        /\ UNCHANGED <<allCards, turns, played, piles, winnerTopic, requests>>
    BY <1>1, <1>11 DEF WarSave, At, LocalsSet
  <2>2. TablesTypeOK'
    <3>1. thread[t].order \in Int /\ Drawer(t) \in PlayerId
      BY <1>3, CardsThreadsAssumption, Zenon DEF PlayHandler, Drawer
    <3> QED BY <1>2, <1>11, <2>1, <3>1, SaveType, Zenon DEF WarSave
  <2> DEFINE h == [thread[t] EXCEPT
                     !.warCards = Append(thread[t].warCards, thread[t].card),
                     !.pc = IF Len(thread[t].warCards) + 1 = 2 + 2 * WarDraws
                            THEN "compare" ELSE "draw"]
  <2>3. Append(thread[t].warCards, thread[t].card) \in Seq(Card)
    BY <1>4, <2>1, AppendProperties
  <2>4. h \in PlayHandler /\ h.pc \in {"draw", "compare"}
    BY <1>3, <2>3, Zenon DEF PlayHandler
  <2>5. thread' = [thread EXCEPT ![t] = h]
    BY <1>1, <1>11, Zenon DEF WarSave
  <2> HIDE DEF h
  <2>6. /\ thread' \in [Thread -> Handler] /\ thread'[t].pc \in {"draw", "compare"}
        /\ \A u \in Thread : u # t => thread'[u] = thread[u]
    BY <1>7, <2>4, <2>5, Zenon
  <2> QED BY <1>8, <2>1, <2>2, <2>6, PlayStepType, ZenonT(40) DEF turns, played, piles
<1>12. CASE WarRunsOut(t)
  <2>1. player1CapturedCards' \in Seq(Card) /\ player2CapturedCards' \in Seq(Card)
    <3>1. CASE UNCHANGED piles
      BY <1>8, <3>1 DEF piles
    <3>2. CASE Capture1(thread[t].warCards) \/ Capture2(thread[t].warCards)
      BY <1>1, <1>4, <3>2, CaptureType, Zenon
    <3> QED BY <1>12, <3>1, <3>2 DEF WarRunsOut
  <2>2. winnerTopic' \in Seq({Username1, Username2, Tie})
    BY <1>8, <1>12, VerdictType, AppendProperties, ZenonT(40) DEF WarRunsOut
  <2> QED BY <1>2, <1>5, <1>8, <1>12, <2>1, <2>2, PlayStepType, ZenonT(40)
          DEF WarRunsOut, turns, played, PlayPc
<1>13. CASE WarCompare(t)
  <2>1. /\ thread[t].pc = "compare" /\ playedCard1 \in Card /\ playedCard2 \in Card
        /\ UNCHANGED <<tables, allCards, turns, played, winnerTopic, requests>>
    BY <1>1, <1>13, Zenon DEF WarCompare, At, LocalsSet
  <2>2. CASE /\ Goto(t, "return2")
             /\ Capture1(thread[t].warCards) \/ Capture2(thread[t].warCards)
    <3>1. player1CapturedCards' \in Seq(Card) /\ player2CapturedCards' \in Seq(Card)
      BY <1>1, <1>4, <2>2, CaptureType
    <3> QED BY <1>2, <1>5, <1>8, <2>1, <2>2, <3>1, PlayStepType, Zenon DEF turns, played, PlayPc
  <2>3. CASE /\ thread' = [thread EXCEPT ![t].warCards = played, ![t].pc = "draw"]
             /\ UNCHANGED piles
    <3> DEFINE h == [thread[t] EXCEPT !.warCards = played, !.pc = "draw"]
    <3>1. played \in Seq(Card)
      BY <2>1 DEF played
    <3>2. h \in PlayHandler /\ h.pc = "draw"
      BY <1>3, <3>1, Zenon DEF PlayHandler
    <3>3. thread' = [thread EXCEPT ![t] = h]
      BY <1>1, <2>3, ZenonT(40)
    <3> HIDE DEF h
    <3>4. /\ thread' \in [Thread -> Handler] /\ thread'[t].pc = "draw"
          /\ \A u \in Thread : u # t => thread'[u] = thread[u]
      BY <1>7, <3>2, <3>3, Zenon
    <3> QED BY <1>2, <1>8, <2>1, <2>3, <3>4, PlayStepType, ZenonT(40) DEF turns, played, piles
  <2> QED BY <1>13, <2>2, <2>3 DEF WarCompare
<1>14. CASE Return2(t)
  BY <1>2, <1>5, <1>8, <1>14, PlayStepType, ZenonT(40) DEF Return2, played, piles, PlayPc
<1>15. CASE Return1(t)
  BY <1>2, <1>5, <1>6, <1>8, <1>15, PlayStepType DEF Return1, played, piles, PlayPc
<1>16. CASE LastCard(t)
  <2>1. winnerTopic' \in Seq({Username1, Username2, Tie})
    BY <1>8, <1>16, VerdictType, AppendProperties, ZenonT(40) DEF LastCard
  <2> QED BY <1>2, <1>6, <1>8, <1>16, <2>1, PlayStepType, ZenonT(40)
             DEF LastCard, turns, played, piles
<1> QED BY <1>9, <1>10, <1>11, <1>12, <1>13, <1>14, <1>15, <1>16, ZenonT(40) DEF EndRound

\* Any step keeps the types.
LEMMA TypeStep == TypeInv /\ [Next]_vars => TypeInv'
<1> SUFFICES ASSUME TypeInv, [Next]_vars PROVE TypeInv'
  BY Zenon
<1>1. CASE UNCHANGED vars
  BY <1>1 DEF TypeInv, ThreadsTypeOK, LocalsSet, TablesTypeOK, vars, tables, turns, played,
              piles, requests
<1>2. ASSUME NEW t \in Thread, Receive(t) \/ Run(t) PROVE TypeInv'
  BY <1>2, DealReadsType, DealWritesType, PlayType, EndRoundType DEF Receive, Run, Deal
<1> QED BY <1>1, <1>2 DEF Next

\* Every field, column and local variable keeps its type, whenever players
\* click and however the handlers interleave: no handler saves a card it does
\* not have or captures a card that is null.
THEOREM ThreadsTypeCorrect == Spec => []ThreadsTypeOK
<1>1. TypeInv => ThreadsTypeOK
  BY Zenon DEF TypeInv
<1> QED BY <1>1, TypeInit, TypeStep, PTL DEF Spec

-----------------------------------------------------------------------------
(* The turn flags are a lock.                                              *)

\* A step by which nobody takes the turn or passes it on.
LEMMA LockNeutral ==
    ASSUME LockInv, TypeInv', NEW t \in Thread, UNCHANGED turns,
           \A u \in Thread : u # t => thread'[u] = thread[u],
           \/ thread'[t].op \in {"none", "deal1", "deal2"}
           \/ /\ thread'[t].op = thread[t].op
              /\ thread[t].pc \notin {"turn", "last", "pass2", "return1"}
              /\ \/ /\ thread[t].op = "play1" /\ thread'[t].pc \in {"table", "pass1"}
                 \/ /\ thread[t].op = "play2"
                    /\ thread'[t].pc \in {"table", "round", "draw", "drawn", "runOut",
                                          "compare", "return2"}
    PROVE  LockInv'
<1>0. thread \in [Thread -> Handler] /\ thread' \in [Thread -> Handler]
  BY Zenon DEF LockInv, TypeInv, ThreadsTypeOK, Handler
<1>1. thread'[t].op \in {"none", "deal1", "deal2"} => ~HoldsTurn(t)'
  <2>1. thread'[t] \in Handler
    BY <1>0, Zenon
  <2>2. thread'[t].op \in {"none", "deal1", "deal2"} => thread'[t].pc \in DealPc \cup {"idle"}
    BY <2>1 DEF Handler, DealHandler, PlayHandler, NoHandler, DealPc
  <2> QED BY <2>2 DEF HoldsTurn, DealPc
<1>2. thread'[t].op \notin {"none", "deal1", "deal2"} => HoldsTurn(t)
  <2>1. thread[t] \in Handler
    BY <1>0, Zenon
  <2>2. thread[t].op \in {"play1", "play2"} => thread[t].pc \in PlayPc
    BY <2>1 DEF Handler, DealHandler, PlayHandler, NoHandler, PlayPc
  <2> QED BY <2>2 DEF HoldsTurn, PlayPc
<1>3. \A u \in Thread : HoldsTurn(u)' => HoldsTurn(u)
  BY <1>1, <1>2, Zenon DEF HoldsTurn
<1>4. PlaysInOrder'
  BY ZenonT(40) DEF LockInv, PlaysInOrder
<1>5. OneEach'
  BY ZenonT(40) DEF LockInv, OneEach
<1>6. ~(player1Turn' /\ player2Turn')
  BY DEF LockInv, turns
<1>7. HolderHasFlag'
  <2> SUFFICES ASSUME NEW u \in Thread, HoldsTurn(u)'
               PROVE  \/ /\ thread'[u].op = "play1" /\ ~player2Turn'
                         /\ player1Turn' = (thread'[u].pc # "pass2")
                      \/ /\ thread'[u].op = "play2" /\ ~player1Turn'
                         /\ player2Turn' = (thread'[u].pc # "return1")
    BY Zenon DEF HolderHasFlag
  <2>1. HoldsTurn(u)
    BY <1>3
  <2>2. CASE u # t
    BY <2>1, <2>2, Zenon DEF LockInv, HolderHasFlag, turns
  <2>3. CASE u = t
    BY <1>1, <2>1, <2>3, Zenon DEF LockInv, HolderHasFlag, turns
  <2> QED BY <2>2, <2>3, Zenon
<1>8. TurnIsLock'
  BY <1>3 DEF LockInv, TurnIsLock
<1> QED BY <1>4, <1>5, <1>6, <1>7, <1>8, ZenonT(40) DEF LockInv

\* Nobody holds the turn before the first request.
LEMMA LockInit == Init => LockInv
<1> SUFFICES ASSUME Init PROVE LockInv
  OBVIOUS
<1>1. \A t \in Thread : thread[t].op = "none" /\ thread[t].pc = "idle"
  BY Zenon DEF Init, NoHandler
<1>2. player1Turn = TRUE /\ player2Turn = FALSE
  BY DEF Init
<1> QED BY <1>1, <1>2, TypeInit, Zenon
        DEF LockInv, PlaysInOrder, OneEach, HolderHasFlag, TurnIsLock, HoldsTurn

\* A request arrives.
LEMMA ReceiveLock ==
    ASSUME LockInv, TypeInv', Patient \/ orderly', NEW t \in Thread, Receive(t)
    PROVE  LockInv'
<1>0. thread \in [Thread -> Handler]
  BY DEF LockInv, TypeInv, ThreadsTypeOK, Handler
<1>1. ASSUME NEW op \in {"deal1", "deal2"}, ReceiveDeal(t, op) PROVE LockInv'
  <2>1. thread'[t].op = op /\ \A u \in Thread : u # t => thread'[u] = thread[u]
    BY <1>0, <1>1 DEF ReceiveDeal
  <2> QED BY <1>1, <2>1, LockNeutral, Zenon DEF ReceiveDeal
<1>2. ASSUME NEW op \in {"play1", "play2"}, ReceivePlay(t, op) PROVE LockInv'
  <2>1. /\ thread'[t].op = op /\ thread'[t].pc = "turn"
        /\ \A u \in Thread : u # t => thread'[u] = thread[u]
        /\ UNCHANGED turns
    BY <1>0, <1>2, SMTT(40), Z3T(40) DEF ReceivePlay
  <2>2. \A u \in Thread : thread[u].op # op
    BY <1>2, Zenon DEF ReceivePlay, Running
  <2>3. ~HoldsTurn(t)' /\ \A u \in Thread : HoldsTurn(u)' => HoldsTurn(u) /\ u # t
    BY <2>1 DEF HoldsTurn
  <2>4. PlaysInOrder'
    BY <2>1 DEF LockInv, PlaysInOrder
  <2>5. OneEach'
    BY <2>1, <2>2, ZenonT(40) DEF LockInv, OneEach
  <2>6. HolderHasFlag' /\ TurnIsLock'
    BY <2>1, <2>3 DEF LockInv, HolderHasFlag, TurnIsLock, turns
  <2>7. ~(player1Turn' /\ player2Turn')
    BY <2>1 DEF LockInv, turns
  <2> QED BY <2>4, <2>5, <2>6, <2>7, Zenon DEF LockInv
<1> QED BY <1>1, <1>2 DEF Receive

\* dealCards1 and dealCards2 have nothing to do with the turn.
LEMMA DealLock ==
    ASSUME LockInv, TypeInv', NEW t \in Thread, Deal(t)
    PROVE  LockInv'
<1>1. thread \in [Thread -> Handler]
  BY Zenon DEF LockInv, TypeInv, ThreadsTypeOK, Handler
<1>2. thread[t] \in DealHandler
  BY <1>1, HandlerKind, Zenon
     DEF Deal, FindAll, SubListReceiver, SubListFrom, SubListTo, DealSave,
                           DealAnswer, At, DealPc
<1>3. /\ thread'[t].op \in {"none", "deal1", "deal2"}
      /\ \A u \in Thread : u # t => thread'[u] = thread[u]
  <2>1. thread[t].op \in {"deal1", "deal2"}
    BY <1>2 DEF DealHandler
  <2>2. CASE FindAll(t)
    BY <1>1, <1>2, <2>1, <2>2 DEF FindAll, Goto, DealHandler
  <2>3. CASE SubListReceiver(t)
    BY <1>1, <1>2, <2>1, <2>3 DEF SubListReceiver, DealHandler
  <2>4. CASE SubListFrom(t)
    BY <1>1, <1>2, <2>1, <2>4, Zenon DEF SubListFrom, DealHandler
  <2>5. CASE SubListTo(t)
    <3>1. CASE Return(t)
      BY <1>1, <3>1, ReturnIdle DEF NoHandler
    <3>2. CASE \E todo : thread' = [thread EXCEPT ![t].todo = todo, ![t].pc = "save"]
      BY <1>1, <1>2, <2>1, <3>2 DEF DealHandler
    <3> QED BY <2>5, <3>1, <3>2, ZenonT(40) DEF SubListTo
  <2>6. CASE DealSave(t)
    BY <1>1, <1>2, <2>1, <2>6, Zenon DEF DealSave, DealHandler
  <2>7. CASE DealAnswer(t)
    BY <1>1, <2>7, ReturnIdle, SMTT(40), Z3T(40) DEF DealAnswer, NoHandler
  <2> QED BY <2>2, <2>3, <2>4, <2>5, <2>6, <2>7, ZenonT(40) DEF Deal
<1>4. UNCHANGED turns
  BY Zenon DEF Deal, FindAll, SubListReceiver, SubListFrom, SubListTo, DealSave, DealAnswer
<1> QED BY <1>3, <1>4, LockNeutral, Zenon

\* A check of the turn, and the hand-over to player 2.
LEMMA PlayLock ==
    ASSUME LockInv, TypeInv', NEW t \in Thread, Play(t)
    PROVE  LockInv'
<1>1. thread \in [Thread -> Handler]
  BY DEF LockInv, TypeInv, ThreadsTypeOK, Handler
<1>2. thread[t] \in PlayHandler /\ thread[t].pc \in PlayPc
  BY <1>1, HandlerKind, Zenon DEF Play, CheckTurn, Reveal, PutOnTable, Pass1, Pass2, At, PlayPc
<1>3. thread[t].op \in {"play1", "play2"}
  BY <1>2 DEF PlayHandler
<1>4. \A pc \in PlayPc : Goto(t, pc) =>
         /\ thread'[t].pc = pc /\ thread'[t].op = thread[t].op
         /\ \A u \in Thread : u # t => thread'[u] = thread[u]
  BY <1>1, <1>2, GotoPlay, Zenon
<1>5. Return(t) => /\ thread'[t].op = "none" /\ thread'[t].pc = "idle"
                   /\ \A u \in Thread : u # t => thread'[u] = thread[u]
  BY <1>1, ReturnIdle DEF NoHandler
<1>6. CASE CheckTurn(t)
  <2>1. CASE Return(t)
    BY <1>5, <1>6, <2>1, LockNeutral, Zenon DEF CheckTurn
  <2>2. CASE Goto(t, "reveal") /\ MyTurn(thread[t].op)
    <3>1. /\ thread'[t].pc = "reveal" /\ thread'[t].op = thread[t].op
          /\ \A u \in Thread : u # t => thread'[u] = thread[u]
          /\ player1Turn' = player1Turn /\ player2Turn' = player2Turn
      BY <1>4, <1>6, <2>2, Zenon DEF CheckTurn, turns, PlayPc
    <3>2. \A u \in Thread : u # t => ~HoldsTurn(u)
      <4> SUFFICES ASSUME NEW u \in Thread, u # t, HoldsTurn(u) PROVE FALSE
        OBVIOUS
      <4>1. thread[u].op # thread[t].op
        BY <1>3, Zenon DEF LockInv, OneEach
      <4> QED BY <1>3, <2>2, <4>1 DEF LockInv, HolderHasFlag, MyTurn
    <3>3. PlaysInOrder' /\ OneEach'
      BY <3>1, ZenonT(40) DEF LockInv, PlaysInOrder, OneEach
    <3>4. HolderHasFlag' /\ TurnIsLock'
      BY <1>3, <2>2, <3>1, <3>2, ZenonT(40)
         DEF LockInv, HolderHasFlag, TurnIsLock, HoldsTurn, MyTurn
    <3> QED BY <3>1, <3>3, <3>4, Zenon DEF LockInv
  <2> QED BY <1>6, <2>1, <2>2, Zenon DEF CheckTurn
<1>7. CASE Reveal(t)
  BY <1>3, <1>4, <1>7, LockNeutral, Zenon DEF Reveal, At, PlayPc
<1>8. CASE PutOnTable(t)
  BY <1>3, <1>4, <1>8, LockNeutral, Zenon DEF PutOnTable, At, PlayPc
<1>9. CASE Pass1(t)
  <2>1. /\ thread[t].pc = "pass1" /\ thread[t].op = "play1"
    BY <1>3, <1>9, ZenonT(40) DEF Pass1, At, LockInv, PlaysInOrder
  <2>2. /\ thread'[t].pc = "pass2" /\ thread'[t].op = "play1"
        /\ \A u \in Thread : u # t => thread'[u] = thread[u]
        /\ player1Turn' = FALSE /\ player2Turn' = player2Turn
    BY <1>4, <1>9, <2>1, Zenon DEF Pass1, PlayPc
  <2>3. ~player2Turn /\ \A u \in Thread : u # t => ~HoldsTurn(u)
    BY <2>1, Zenon DEF LockInv, HolderHasFlag, TurnIsLock, HoldsTurn
  <2>4. PlaysInOrder' /\ OneEach'
    BY <2>1, <2>2, ZenonT(40) DEF LockInv, PlaysInOrder, OneEach
  <2>5. HolderHasFlag' /\ TurnIsLock'
    BY <2>2, <2>3, ZenonT(40) DEF HolderHasFlag, TurnIsLock, HoldsTurn
  <2> QED BY <2>2, <2>4, <2>5, Zenon DEF LockInv
<1>10. CASE Pass2(t)
  <2>1. thread[t].pc = "pass2" /\ thread[t].op = "play1"
    BY <1>3, <1>10 DEF Pass2, At, LockInv, PlaysInOrder
  <2>2. /\ thread'[t].pc = "idle" /\ thread'[t].op = "none"
        /\ \A u \in Thread : u # t => thread'[u] = thread[u]
        /\ player1Turn' = player1Turn /\ player2Turn' = TRUE
    BY <1>5, <1>10, Zenon DEF Pass2
  <2>3. ~player1Turn /\ \A u \in Thread : u # t => ~HoldsTurn(u)
    BY <2>1, Zenon DEF LockInv, HolderHasFlag, TurnIsLock, HoldsTurn
  <2>4. PlaysInOrder' /\ OneEach'
    BY <2>2 DEF LockInv, PlaysInOrder, OneEach
  <2>5. HolderHasFlag' /\ TurnIsLock'
    BY <2>2, <2>3, ZenonT(40) DEF HolderHasFlag, TurnIsLock, HoldsTurn
  <2> QED BY <2>2, <2>3, <2>4, <2>5, Zenon DEF LockInv
<1> QED BY <1>6, <1>7, <1>8, <1>9, <1>10, ZenonT(40) DEF Play

\* The round and the wars of player 2's handler, and its hand-over to player 1.
LEMMA EndRoundLock ==
    ASSUME LockInv, TypeInv', NEW t \in Thread, EndRound(t)
    PROVE  LockInv'
<1>1. thread \in [Thread -> Handler]
  BY DEF LockInv, TypeInv, ThreadsTypeOK, Handler
<1>2. thread[t] \in PlayHandler /\ thread[t].pc \in PlayPc
  BY <1>1, HandlerKind, ZenonT(40)
     DEF EndRound, GameRound, WarQuery, WarSave, WarRunsOut, WarCompare,
                           Return2, Return1, LastCard, At, PlayPc
<1>3. thread[t].op = "play2"
  <2>1. thread[t].op \in {"play1", "play2"}
    BY <1>2 DEF PlayHandler
  <2>2. thread[t].pc \notin {"turn", "reveal", "table", "pass1", "pass2"}
    BY Zenon
       DEF EndRound, GameRound, WarQuery, WarSave, WarRunsOut, WarCompare, Return2, Return1,
           LastCard, At
  <2> QED BY <2>1, <2>2, Zenon DEF LockInv, PlaysInOrder
<1>4. \A pc \in PlayPc : Goto(t, pc) =>
         /\ thread'[t].pc = pc /\ thread'[t].op = "play2"
         /\ \A u \in Thread : u # t => thread'[u] = thread[u]
  BY <1>1, <1>2, <1>3, GotoPlay, ZenonT(40)
<1>5. Return(t) => /\ thread'[t].op = "none" /\ thread'[t].pc = "idle"
                   /\ \A u \in Thread : u # t => thread'[u] = thread[u]
  BY <1>1, ReturnIdle DEF NoHandler
<1>6. ASSUME NEW cards, thread' = [thread EXCEPT ![t].warCards = cards, ![t].pc = "draw"]
      PROVE  /\ thread'[t].pc = "draw" /\ thread'[t].op = "play2"
             /\ \A u \in Thread : u # t => thread'[u] = thread[u]
  BY <1>1, <1>2, <1>3, <1>6 DEF PlayHandler
<1>7. CASE GameRound(t)
  <2>1. thread[t].pc = "round" /\ UNCHANGED turns
    BY <1>7, Zenon DEF GameRound, At
  <2>2. CASE Return(t)
    BY <1>5, <2>1, <2>2, LockNeutral, Zenon
  <2>3. CASE Goto(t, "return2")
    BY <1>3, <1>4, <2>1, <2>3, LockNeutral, Zenon DEF PlayPc
  <2>4. CASE \E cards : thread' = [thread EXCEPT ![t].warCards = cards, ![t].pc = "draw"]
    BY <1>3, <1>6, <2>1, <2>4, LockNeutral, Zenon
  <2> QED BY <1>7, <2>2, <2>3, <2>4 DEF GameRound
<1>8. CASE WarQuery(t)
  <2>1. PICK card \in Pick(Drawer(t)) :
          thread' = [thread EXCEPT ![t].card = card, ![t].order = OrderOf(card),
                                   ![t].pc = IF card = NoCard THEN "runOut" ELSE "drawn"]
    BY <1>8, Zenon DEF WarQuery
  <2>2. /\ thread'[t].pc \in {"runOut", "drawn"} /\ thread'[t].op = "play2"
        /\ \A u \in Thread : u # t => thread'[u] = thread[u]
    BY <1>1, <1>2, <1>3, <2>1, Zenon DEF PlayHandler
  <2> QED BY <1>3, <1>8, <2>2, LockNeutral, Zenon DEF WarQuery, At
<1>9. CASE WarSave(t)
  <2>1. /\ thread'[t].pc \in {"compare", "draw"} /\ thread'[t].op = "play2"
        /\ \A u \in Thread : u # t => thread'[u] = thread[u]
    <3>1. PICK cards, pc : /\ thread' = [thread EXCEPT ![t].warCards = cards, ![t].pc = pc]
                           /\ pc \in {"compare", "draw"}
      <4>1. thread' = [thread EXCEPT
                ![t].warCards = Append(@, thread[t].card),
                ![t].pc = IF Len(thread[t].warCards) + 1 = 2 + 2 * WarDraws
                          THEN "compare" ELSE "draw"]
        BY <1>9, ZenonT(40) DEF WarSave
      <4> QED BY <4>1, Zenon
    <3> QED BY <1>1, <1>2, <1>3, <3>1, Zenon DEF PlayHandler
  <2> QED BY <1>3, <1>9, <2>1, LockNeutral, ZenonT(40) DEF WarSave, At
<1>10. CASE WarRunsOut(t)
  BY <1>3, <1>4, <1>10, LockNeutral DEF WarRunsOut, At, PlayPc
<1>11. CASE WarCompare(t)
  <2>1. thread[t].pc = "compare" /\ UNCHANGED turns
    BY <1>11, ZenonT(40) DEF WarCompare, At
  <2>2. CASE Goto(t, "return2")
    BY <1>3, <1>4, <2>1, <2>2, LockNeutral DEF PlayPc
  <2>3. CASE \E cards : thread' = [thread EXCEPT ![t].warCards = cards, ![t].pc = "draw"]
    BY <1>3, <1>6, <2>1, <2>3, LockNeutral, ZenonT(40)
  <2> QED BY <1>11, <2>2, <2>3, Zenon DEF WarCompare
<1>12. CASE Return2(t)
  <2>1. thread[t].pc = "return2"
    BY <1>12, Zenon DEF Return2, At
  <2>2. /\ thread'[t].pc = "return1" /\ thread'[t].op = "play2"
        /\ \A u \in Thread : u # t => thread'[u] = thread[u]
        /\ player1Turn' = player1Turn /\ player2Turn' = FALSE
    BY <1>4, <1>12, Zenon DEF Return2, PlayPc
  <2>3. ~player1Turn /\ \A u \in Thread : u # t => ~HoldsTurn(u)
    BY <1>3, <2>1, ZenonT(40) DEF LockInv, HolderHasFlag, TurnIsLock, HoldsTurn
  <2>4. PlaysInOrder' /\ OneEach'
    BY <1>3, <2>2, ZenonT(40) DEF LockInv, PlaysInOrder, OneEach
  <2>5. HolderHasFlag' /\ TurnIsLock'
    BY <2>2, <2>3, ZenonT(40) DEF HolderHasFlag, TurnIsLock, HoldsTurn
  <2> QED BY <2>2, <2>4, <2>5 DEF LockInv
<1>13. CASE Return1(t)
  <2>1. thread[t].pc = "return1"
    BY <1>13 DEF Return1, At
  <2>2. /\ \/ thread'[t].pc = "last" /\ thread'[t].op = "play2"
           \/ thread'[t].pc = "idle" /\ thread'[t].op = "none"
        /\ \A u \in Thread : u # t => thread'[u] = thread[u]
        /\ player1Turn' = TRUE /\ player2Turn' = player2Turn
    BY <1>4, <1>5, <1>13, ZenonT(40) DEF Return1, PlayPc
  <2>3. ~player2Turn /\ \A u \in Thread : u # t => ~HoldsTurn(u)
    BY <1>3, <2>1, ZenonT(40) DEF LockInv, HolderHasFlag, TurnIsLock, HoldsTurn
  <2>4. PlaysInOrder' /\ OneEach'
    BY <1>3, <2>2 DEF LockInv, PlaysInOrder, OneEach
  <2>5. HolderHasFlag' /\ TurnIsLock'
    BY <2>2, <2>3, ZenonT(40) DEF HolderHasFlag, TurnIsLock, HoldsTurn
  <2> QED BY <2>2, <2>3, <2>4, <2>5, ZenonT(40) DEF LockInv
<1>14. CASE LastCard(t)
  BY <1>5, <1>14, LockNeutral DEF LastCard
<1> QED BY <1>7, <1>8, <1>9, <1>10, <1>11, <1>12, <1>13, <1>14, ZenonT(40) DEF EndRound

\* Any step keeps the lock, when nobody clicks before being answered.
LEMMA LockStep ==
    ASSUME Patient \/ orderly'
    PROVE  LockInv /\ [Next]_vars => LockInv'
<1> SUFFICES ASSUME LockInv, [Next]_vars PROVE LockInv'
  OBVIOUS
<1>1. TypeInv'
  BY TypeStep, Zenon DEF LockInv
<1>2. CASE UNCHANGED vars
  BY <1>1, <1>2, Zenon DEF LockInv, PlaysInOrder, OneEach, HolderHasFlag, TurnIsLock, HoldsTurn,
                    vars, turns
<1>3. ASSUME NEW t \in Thread, Receive(t) \/ Run(t) PROVE LockInv'
  BY <1>1, <1>3, ReceiveLock, DealLock, PlayLock, EndRoundLock, ZenonT(40) DEF Run
<1> QED BY <1>2, <1>3 DEF Next

\* player1Turn and player2Turn are a lock on the table, for any number of
\* threads and any interleaving, as long as no player clicks again before the
\* last click was answered: two handlers are never both between their check of
\* the flag and their hand-over.
THEOREM ThreadsTurnIsLock ==
    ASSUME Patient
    PROVE  Spec => []TurnIsLock
<1>1. LockInv => TurnIsLock
  BY Zenon DEF LockInv
<1>2. LockInv /\ [Next]_vars => LockInv'
  BY LockStep, Zenon
<1> QED BY <1>1, <1>2, LockInit, PTL DEF Spec

-----------------------------------------------------------------------------
(* Each player is dealt a half of the deck, once.                          *)

Deals == {"deal1", "deal2"}

\* The deck has two halves of the same length.
LEMMA DeckHalves ==
    /\ DOMAIN Deck = 1..Len(Deck) /\ Len(Deck) \in Nat /\ Len(Deck) \div 2 \in Nat
    /\ Len(Deck) = Len(Deck) \div 2 + Len(Deck) \div 2
    /\ \A i \in 1..Len(Deck) : Deck[i] \in Card /\ (Deck[i] \in Half1 <=> i <= Len(Deck) \div 2)
    /\ \A c \in Card : \E i \in 1..Len(Deck) : c = Deck[i]
    /\ Half1 \subseteq Card
<1>1. DOMAIN Deck = 1..Len(Deck) /\ Len(Deck) \in Nat /\ \A i \in 1..Len(Deck) : Deck[i] \in Card
  BY CardsThreadsAssumption, LenProperties, ElementOfSeq, Zenon
<1>2. PICK n \in Nat : n = Len(Deck)
  BY <1>1, Zenon
<1>3. n % 2 = 0
  BY <1>2, CardsThreadsAssumption
<1>4. n \div 2 \in Nat /\ n = n \div 2 + n \div 2
  BY <1>3
<1>5. ASSUME NEW i \in 1..n PROVE Deck[i] \in Half1 <=> i <= n \div 2
  <2>1. i <= n \div 2 => Deck[i] \in Half1
    BY <1>2, <1>4 DEF Half1
  <2>2. ASSUME Deck[i] \in Half1 PROVE i <= n \div 2
    <3>1. PICK j \in 1..(n \div 2) : Deck[i] = Deck[j]
      BY <1>2, <2>2, Zenon DEF Half1
    <3>2. j \in 1..n
      BY <1>4, SMTT(40), Z3T(40)
    <3>3. i = j
      BY <1>1, <1>2, <3>1, <3>2, CardsThreadsAssumption, ZenonT(40) DEF IsInjective
    <3> QED BY <3>3, <1>4, SMTT(40), Z3T(40)
  <2> QED BY <2>1, <2>2
<1>6. \A c \in Card : \E i \in 1..Len(Deck) : c = Deck[i]
  BY <1>1, CardsThreadsAssumption DEF Range
<1>7. Half1 \subseteq Card
  <2> SUFFICES ASSUME NEW i \in 1..(n \div 2) PROVE Deck[i] \in Card
    BY <1>2, Zenon DEF Half1
  <2> QED BY <1>1, <1>2, <1>4, SMTT(40), Z3T(40)
<1> QED BY <1>1, <1>2, <1>4, <1>5, <1>6, <1>7, ZenonT(40)

\* A card that is not dealt yet is nobody's.
LEMMA UndealtIsNobodys ==
    ASSUME OwnHalf, NEW op \in Deals, NEW c \in Undealt(op)
    PROVE  c \in Card /\ c \in HalfOf(op) /\ cardPlayers[c] = NoPlayer /\ ~isPlayed[c]
BY DeckHalves, Zenon DEF OwnHalf, Undealt, HalfOf, Half2, FindCardsByPlayer, Player, Deals

\* Nothing is dealt at first.
LEMMA HalvesInit == Init => HalvesInv
<1> SUFFICES ASSUME Init PROVE HalvesInv
  OBVIOUS
<1>1. /\ \A c \in Card : cardPlayers[c] = NoPlayer /\ isPlayed[c] = FALSE
      /\ \A t \in Thread : thread[t].op = "none"
      /\ \A op \in Deals : begun[op] = 0
  BY Zenon DEF Init, SeededCards, NoHandler, Deals
<1>2. \A op \in Deals : Undealt(op) = HalfOf(op)
  <2>1. NoPlayer # Player1 /\ NoPlayer # Player2
    BY RepositoriesAssumption, CardsThreadsAssumption, Zenon
  <2> QED BY <1>1, <2>1, Zenon DEF Undealt, FindCardsByPlayer, Player
<1> QED BY <1>1, <1>2, SMTT(40), Z3T(40) DEF HalvesInv, OwnHalf, Running, Deals

\* A deal is as far as it was if neither it nor what it has read or saved changed.
LEMMA ProgressKept ==
    ASSUME NEW u, DealProgress(u), thread'[u] = thread[u],
           UNCHANGED <<cardPlayers, allCards, begun>>
    PROVE  DealProgress(u)'
<1>1. /\ Undealt(thread[u].op)' = Undealt(thread[u].op)
      /\ AllCardsRead(thread[u].op)' = AllCardsRead(thread[u].op)
  BY Zenon DEF Undealt, FindCardsByPlayer, AllCardsRead
<1>2. begun'[thread'[u].op] > 0
  BY Zenon DEF DealProgress
<1>3. thread'[u].pc # "save" => Undealt(thread[u].op)' = HalfOf(thread'[u].op)
  BY <1>1, Zenon DEF DealProgress
<1>4. thread'[u].pc \in {"receiver", "from", "to"} => AllCardsRead(thread[u].op)'
  BY <1>1, Zenon DEF DealProgress
<1>5. thread'[u].pc \in {"from", "to"} => thread'[u].list = allCards'
  BY Zenon DEF DealProgress
<1>6. /\ thread'[u].op = "deal1" => thread'[u].pc # "from" /\ thread'[u].from = 0
      /\ thread'[u].op = "deal2" /\ thread'[u].pc = "to" => thread'[u].from = Len(Deck) \div 2
  BY Zenon DEF DealProgress
<1>7. ASSUME thread'[u].pc = "save"
      PROVE  {thread'[u].todo[i].card : i \in DOMAIN thread'[u].todo} = Undealt(thread[u].op)'
  BY <1>1, <1>7, ZenonT(40) DEF DealProgress
<1>8. ASSUME thread'[u].pc = "save"
      PROVE  /\ \A i, j \in DOMAIN thread'[u].todo :
                   thread'[u].todo[i].card = thread'[u].todo[j].card => i = j
             /\ \A i \in DOMAIN thread'[u].todo : ~thread'[u].todo[i].isPlayed
  BY <1>8, Zenon DEF DealProgress
<1> QED BY <1>2, <1>3, <1>4, <1>5, <1>6, <1>7, <1>8, Zenon DEF DealProgress

\* A step of a play: it changes no owner, and only plays cards that are dealt.
LEMMA HalvesOfPlay ==
    ASSUME HalvesInv, NEW t \in Thread, UNCHANGED <<cardPlayers, allCards, begun>>,
           \A u \in Thread : u # t => thread'[u] = thread[u],
           thread[t].op \notin Deals, thread'[t].op \notin Deals,
           \A c \in Card : cardPlayers[c] = NoPlayer => isPlayed'[c] = isPlayed[c]
    PROVE  HalvesInv'
<1>1. OwnHalf'
  BY DEF HalvesInv, OwnHalf
<1>2. /\ Running(Deals)' = Running(Deals)
      /\ \A op \in Deals : Running({op})' = Running({op})
  BY DEF Running, Deals
<1>3. \A op : Undealt(op)' = Undealt(op)
  BY DEF Undealt, FindCardsByPlayer
<1>4. \A u \in Running(Deals) : thread'[u] = thread[u]
  BY Zenon DEF Running
<1>5. ASSUME NEW u \in Running(Deals)' PROVE DealProgress(u)'
  <2>1. DealProgress(u) /\ thread'[u] = thread[u]
    BY <1>2, <1>4, Zenon DEF HalvesInv, Deals
  <2> QED BY <2>1, ProgressKept, Zenon
<1> QED BY <1>1, <1>2, <1>3, <1>5, Zenon DEF HalvesInv, Deals

\* The only deal that may run is o's by t; the other is done, or to come.
OnlyDeal(t, o) ==
    /\ \A u \in Thread : u # t => thread[u].op \notin Deals
    /\ \A op \in Deals : op # o => /\ begun[op] = 0 => Undealt(op) = HalfOf(op)
                                   /\ begun[op] > 0 => Undealt(op) = {}
DealRuns(t, o) == thread[t].op = o /\ DealProgress(t)
DealDone(t, o) == thread[t].op \notin Deals /\ begun[o] > 0 /\ Undealt(o) = {}

\* A step of a deal, the only one that runs.
LEMMA HalvesOfDeal ==
    ASSUME NEW t \in Thread, NEW o \in Deals, OwnHalf', OnlyDeal(t, o)',
           DealRuns(t, o)' \/ DealDone(t, o)'
    PROVE  HalvesInv'
<1>0. /\ \A u \in Thread : u # t => thread'[u].op \notin Deals
      /\ \A op \in Deals : op # o => /\ begun'[op] = 0 => Undealt(op)' = HalfOf(op)
                                     /\ begun'[op] > 0 => Undealt(op)' = {}
  BY Zenon DEF OnlyDeal
<1>1. ASSUME NEW op \in Deals
      PROVE  /\ begun'[op] = 0 => Undealt(op)' = HalfOf(op)
             /\ begun'[op] > 0 /\ Running({op})' = {} => Undealt(op)' = {}
  <2>1. CASE op # o
    BY <1>0, <2>1, Zenon
  <2>2. CASE op = o /\ thread'[t].op = o /\ DealProgress(t)'
    <3>1. begun'[o] > 0 /\ t \in Running({o})'
      BY <2>2, Zenon DEF DealProgress, Running
    <3>2. begun'[o] # 0
      BY <3>1
    <3> QED BY <2>2, <3>1, <3>2, Zenon
  <2>3. CASE op = o /\ begun'[o] > 0 /\ Undealt(o)' = {}
    <3>1. begun'[o] # 0
      BY <2>3, SMT, Z3
    <3> QED BY <2>3, <3>1, Zenon
  <2> QED BY <2>1, <2>2, <2>3, Zenon DEF DealRuns, DealDone
<1>2. Running(Deals)' \subseteq {t} /\ \A u \in Running(Deals)' : DealProgress(u)'
  BY <1>0 DEF Running, DealRuns, DealDone
<1> QED BY <1>1, <1>2, Zenon DEF HalvesInv, Deals

\* A deal request arrives, the first for that player, while no other deal runs.
LEMMA ReceiveDealHalves ==
    ASSUME TypeInv, HalvesInv, orderly',
           NEW t \in Thread, NEW o \in Deals, ReceiveDeal(t, o)
    PROVE  HalvesInv'
<1>1. thread \in [Thread -> Handler] /\ begun \in [Deals -> 0..MaxStarts]
  BY Zenon DEF TypeInv, ThreadsTypeOK, Handler, Deals
<1>2. begun[o] = 0 /\ begun'[o] = 1 /\ \A op \in Deals : op # o => begun'[op] = begun[op]
  <2>1. begun[o] = 0 /\ begun' = [begun EXCEPT ![o] = begun[o] + 1]
    BY Zenon DEF ReceiveDeal
  <2> QED BY <1>1, <2>1, SMTT(40), Z3T(40)
<1>3. \A u \in Thread : thread[u].op \notin Deals
  BY Zenon DEF ReceiveDeal, Running, Deals
<1>4. /\ thread'[t] = [op |-> o, pc |-> "findAll", list |-> <<>>, from |-> 0, todo |-> <<>>]
      /\ \A u \in Thread : u # t => thread'[u] = thread[u]
      /\ cardPlayers' = cardPlayers /\ isPlayed' = isPlayed
  BY <1>1, ZenonT(40) DEF ReceiveDeal, tables
<1>5. OwnHalf' /\ \A op \in Deals : Undealt(op)' = Undealt(op)
  BY <1>4 DEF HalvesInv, OwnHalf, Undealt, FindCardsByPlayer
<1>6. Undealt(o) = HalfOf(o)
  BY <1>2, Zenon DEF HalvesInv, Deals
<1>7. DealProgress(t)' /\ thread'[t].op = o
  <2>1. thread'[t].op = o /\ thread'[t].pc = "findAll" /\ thread'[t].from = 0
    <3>1. PICK h, l, d : h = thread'[t]
                         /\ h = [op |-> o, pc |-> "findAll", list |-> l, from |-> 0, todo |-> d]
      BY <1>4, ZenonT(40)
    <3>2. h.op = o /\ h.pc = "findAll" /\ h.from = 0
      BY <3>1, SMT, Z3
    <3> QED BY <3>1, <3>2, Zenon
  <2>2. begun'[o] > 0
    BY <1>2
  <2>3. thread'[t].pc \notin {"receiver", "from", "to"} /\ thread'[t].pc \notin {"from", "to"}
        /\ thread'[t].pc # "from" /\ thread'[t].pc # "to" /\ thread'[t].pc # "save"
    BY <2>1, Zenon
  <2>4. Undealt(o)' = HalfOf(o)
    BY <1>5, <1>6, Zenon
  <2>5. Undealt(thread[t].op)' = HalfOf(thread'[t].op)
    BY <2>1, <2>4, Zenon DEF Undealt, FindCardsByPlayer
  <2> QED BY <2>1, <2>2, <2>3, <2>5, Zenon DEF DealProgress
<1>8. \A op \in Deals : op # o =>
          /\ begun'[op] = 0 => Undealt(op)' = HalfOf(op)
          /\ begun'[op] > 0 => Undealt(op)' = {}
  <2>1. \A op \in Deals : Running({op}) = {}
    BY <1>3 DEF Running
  <2> QED BY <1>2, <1>5, <2>1 DEF HalvesInv, Deals
<1>9. OnlyDeal(t, o)' /\ DealRuns(t, o)'
  BY <1>3, <1>4, <1>7, <1>8, Zenon DEF OnlyDeal, DealRuns
<1> QED BY <1>5, <1>9, HalvesOfDeal, Zenon

\* Where the cards of a shuffled half come from.
LEMMA ShuffledHalf ==
    ASSUME TypeInv, NEW o \in Deals, AllCardsRead(o), NEW n \in Nat, n = Len(Deck) \div 2,
           NEW from \in Nat, from = IF o = "deal1" THEN 0 ELSE n,
           NEW shuffle \in Bijection(1..n, 1..n), NEW todo, DOMAIN todo = 1..n,
           \A i \in 1..n : /\ todo[i].card = allCards[from + shuffle[i]].card
                           /\ todo[i].isPlayed = allCards[from + shuffle[i]].isPlayed
    PROVE  /\ {todo[i].card : i \in DOMAIN todo} = HalfOf(o)
           /\ \A i, j \in DOMAIN todo : todo[i].card = todo[j].card => i = j
           /\ \A i \in DOMAIN todo : ~todo[i].isPlayed
<1>1. /\ Len(Deck) = n + n /\ Len(allCards) = n + n /\ DOMAIN Deck = 1..(n + n)
      /\ allCards \in Seq(Entity)
  BY DeckHalves, Zenon DEF AllCardsRead, TypeInv, ThreadsTypeOK
<1>3. /\ \A i \in 1..n : shuffle[i] \in 1..n
      /\ \A i, j \in 1..n : shuffle[i] = shuffle[j] => i = j
      /\ \A k \in 1..n : \E i \in 1..n : shuffle[i] = k
  BY ZenonT(40) DEF Bijection, Injection, Surjection, IsInjective
<1>4. ASSUME NEW k \in 1..n
      PROVE  from + k \in 1..(n + n) /\ Deck[from + k] \in HalfOf(o)
  <2>1. from + k \in 1..(n + n) /\ (from + k <= n <=> o = "deal1")
    BY <1>4
  <2> QED BY <1>1, <2>1, DeckHalves, ZenonT(40) DEF HalfOf, Half2
<1>5. ASSUME NEW i \in 1..n
      PROVE  todo[i].card = Deck[from + shuffle[i]] /\ ~todo[i].isPlayed
  <2>1. from + shuffle[i] \in 1..(n + n) /\ Deck[from + shuffle[i]] \in HalfOf(o)
    BY <1>3, <1>4, Zenon
  <2> QED BY <1>1, <2>1, Zenon DEF AllCardsRead
<1>6. ASSUME NEW i \in 1..n, NEW j \in 1..n, todo[i].card = todo[j].card PROVE i = j
  <2>1. from + shuffle[i] \in 1..(n + n) /\ from + shuffle[j] \in 1..(n + n)
    BY <1>3, <1>4, Zenon
  <2>2. from + shuffle[i] = from + shuffle[j]
    <3>1. Deck[from + shuffle[i]] = Deck[from + shuffle[j]]
      BY <1>5, <1>6, Zenon
    <3>2. \A a, b \in DOMAIN Deck : Deck[a] = Deck[b] => a = b
      BY CardsThreadsAssumption, Zenon DEF IsInjective
    <3> QED BY <1>1, <2>1, <3>1, <3>2, Zenon
  <2>3. shuffle[i] \in 1..n /\ shuffle[j] \in 1..n
    BY <1>3, Zenon
  <2>4. shuffle[i] = shuffle[j]
    BY <2>2, <2>3, SMT, Z3
  <2> QED BY <1>3, <2>4, Zenon
<1>7. ASSUME NEW c \in HalfOf(o) PROVE \E i \in 1..n : todo[i].card = c
  <2>1. c \in Card
    BY <1>7, DeckHalves, Zenon DEF HalfOf, Half2
  <2>2. PICK k \in 1..(n + n) : c = Deck[k]
    BY <1>1, <2>1, DeckHalves, Zenon
  <2>3. k <= n <=> o = "deal1"
    BY <1>1, <1>7, <2>2, DeckHalves, Zenon DEF HalfOf, Half2
  <2>4. k - from \in 1..n
    BY <2>3, SMTT(40), Z3T(40)
  <2>5. PICK i \in 1..n : shuffle[i] = k - from
    BY <1>3, <2>4, ZenonT(40)
  <2>6. from + shuffle[i] = k
    BY <2>4, <2>5
  <2> QED BY <1>5, <2>2, <2>6, Zenon
<1>8. {todo[i].card : i \in 1..n} = HalfOf(o)
  <2>1. ASSUME NEW i \in 1..n PROVE todo[i].card \in HalfOf(o)
    <3>1. shuffle[i] \in 1..n
      BY <1>3, Zenon
    <3>2. Deck[from + shuffle[i]] \in HalfOf(o)
      BY <1>4, <3>1, Zenon
    <3> QED BY <1>5, <3>2, Zenon
  <2> QED BY <1>7, <2>1
<1> QED BY <1>5, <1>6, <1>8, Zenon

\* The saves of a deal: one card less to deal.
LEMMA DealSaveHalves ==
    ASSUME TypeInv, OwnHalf, NEW t \in Thread, thread[t] \in DealHandler,
           DealProgress(t), DealSave(t)
    PROVE  /\ OwnHalf' /\ isPlayed' = isPlayed
           /\ \A c \in Card : cardPlayers[c] # NoPlayer => cardPlayers'[c] = cardPlayers[c]
           /\ thread'[t].op = thread[t].op /\ DealProgress(t)'
           /\ \A op \in Deals : op # thread[t].op => Undealt(op)' = Undealt(op)
<1>0. PICK o \in Deals : o = thread[t].op
  BY DEF DealHandler, Deals
<1>1. PICK todo \in Seq(Entity) : todo = thread[t].todo
  BY Zenon DEF DealHandler
<1>2. thread \in [Thread -> Handler] /\ cardPlayers \in [Card -> PlayerId \cup {NoPlayer}]
      /\ isPlayed \in [Card -> BOOLEAN]
  BY SMT, Z3 DEF TypeInv, ThreadsTypeOK, TablesTypeOK, Handler
<1>3. thread[t].pc = "save" /\ todo # <<>>
  BY <1>1, Zenon DEF DealSave, At
<1>4. /\ Head(todo) = todo[1] /\ Head(todo) \in Entity /\ Tail(todo) \in Seq(Entity)
      /\ Len(todo) \in Nat /\ Len(todo) > 0 /\ Len(Tail(todo)) = Len(todo) - 1
      /\ DOMAIN todo = 1..Len(todo) /\ DOMAIN Tail(todo) = 1..(Len(todo) - 1)
      /\ \A i \in 1..(Len(todo) - 1) : Tail(todo)[i] = todo[i + 1]
  BY <1>3, HeadTailProperties, LenProperties, EmptySeq, SMTT(40), Z3T(40)
<1>5. PICK first \in Entity : first = Head(todo)
  BY <1>4, Zenon
<1>6. /\ {todo[i].card : i \in DOMAIN todo} = Undealt(o)
      /\ \A i, j \in DOMAIN todo : todo[i].card = todo[j].card => i = j
      /\ \A i \in DOMAIN todo : ~todo[i].isPlayed
      /\ begun[o] > 0 /\ (o = "deal1" => thread[t].from = 0)
  BY <1>0, <1>1, <1>3, ZenonT(40) DEF DealProgress
<1>7. 1 \in DOMAIN todo /\ first = todo[1]
  BY <1>4, <1>5, SMTT(60), Z3T(60)
<1>8. first.card \in Undealt(o) /\ ~first.isPlayed /\ first.isPlayed \in BOOLEAN
  BY <1>6, <1>7, Zenon DEF Entity
<1>9. first.card \in Card /\ cardPlayers[first.card] = NoPlayer /\ ~isPlayed[first.card]
      /\ first.card \in HalfOf(o)
  BY <1>8, UndealtIsNobodys, Zenon
<1>10. /\ cardPlayers' = [cardPlayers EXCEPT ![first.card] = Player(o)]
       /\ isPlayed' = [isPlayed EXCEPT ![first.card] = first.isPlayed]
       /\ begun' = begun
  BY <1>0, <1>1, <1>5, Zenon DEF DealSave, Save, requests
<1>11. isPlayed' = isPlayed
  <2>1. isPlayed[first.card] = first.isPlayed
    BY <1>2, <1>8, <1>9, Zenon
  <2> QED BY <1>2, <1>10, <2>1, Zenon
<1>12. OwnHalf'
  BY <1>2, <1>9, <1>10, <1>11, Zenon DEF OwnHalf, HalfOf, Half2, Player, Deals
<1>13. Undealt(o)' = Undealt(o) \ {first.card}
  BY <1>2, <1>9, <1>10, Zenon DEF Undealt, FindCardsByPlayer
<1>14. \A op \in Deals : op # o => Undealt(op)' = Undealt(op)
  BY <1>2, <1>9, <1>10, SMTT(40), Z3T(40) DEF Undealt, FindCardsByPlayer, HalfOf, Half2, Deals
<1>15. thread'[t] = [thread[t] EXCEPT !.todo = Tail(todo)]
  BY <1>1, <1>2 DEF DealSave
<1>16. /\ thread'[t].op = o /\ thread'[t].pc = "save" /\ thread'[t].todo = Tail(todo)
       /\ thread'[t].from = thread[t].from
  BY <1>0, <1>3, <1>15, Zenon DEF DealHandler
<1>17. ASSUME NEW i \in DOMAIN Tail(todo)
       PROVE  i + 1 \in DOMAIN todo /\ i + 1 # 1 /\ Tail(todo)[i] = todo[i + 1]
  BY <1>4, SMTT(40), Z3T(40)
<1>18. {Tail(todo)[i].card : i \in DOMAIN Tail(todo)} = Undealt(o) \ {first.card}
  <2>1. ASSUME NEW i \in DOMAIN Tail(todo)
        PROVE  Tail(todo)[i].card \in Undealt(o) \ {first.card}
    BY <1>6, <1>7, <1>17, SMTT(40), Z3T(40)
  <2>2. ASSUME NEW c \in Undealt(o), c # first.card
        PROVE  \E i \in DOMAIN Tail(todo) : Tail(todo)[i].card = c
    <3>1. PICK k \in DOMAIN todo : todo[k].card = c
      BY <1>6
    <3>2. k # 1
      BY <1>7, <2>2, <3>1, ZenonT(40)
    <3>3. k - 1 \in DOMAIN Tail(todo) /\ k - 1 + 1 = k
      BY <1>4, <3>2, SMTT(40), Z3T(40)
    <3>4. Tail(todo)[k - 1] = todo[k]
      BY <1>17, <3>3, Zenon
    <3> QED BY <3>1, <3>3, <3>4, Zenon
  <2> QED BY <2>1, <2>2, ZenonT(40)
<1>19. \A i, j \in DOMAIN Tail(todo) : Tail(todo)[i].card = Tail(todo)[j].card => i = j
  <2> SUFFICES ASSUME NEW i \in DOMAIN Tail(todo), NEW j \in DOMAIN Tail(todo),
                      Tail(todo)[i].card = Tail(todo)[j].card
               PROVE  i = j
    BY Zenon
  <2>1. i + 1 = j + 1
    BY <1>6, <1>17, SMTT(40), Z3T(40)
  <2> QED BY <1>4, <2>1, SMTT(40), Z3T(40)
<1>20. \A i \in DOMAIN Tail(todo) : ~Tail(todo)[i].isPlayed
  BY <1>6, <1>17, Zenon
<1>21. DealProgress(t)'
  <2>1. Undealt(thread[t].op)' = {Tail(todo)[i].card : i \in DOMAIN Tail(todo)}
    BY <1>13, <1>16, <1>18, Zenon DEF Undealt
  <2>2. begun'[thread'[t].op] > 0 /\ (thread'[t].op = "deal1" => thread'[t].from = 0)
    BY <1>6, <1>10, <1>16, ZenonT(40)
  <2>3. thread'[t].pc \notin {"receiver", "from", "to"} /\ thread'[t].pc \notin {"from", "to"}
        /\ thread'[t].pc # "from" /\ thread'[t].pc # "to"
    BY <1>16, Zenon
  <2>4. thread'[t].op = "deal2" /\ thread'[t].pc = "to" => FALSE
    BY <2>3, Zenon
  <2>5. /\ {thread'[t].todo[i].card : i \in DOMAIN thread'[t].todo} = Undealt(thread[t].op)'
        /\ \A i, j \in DOMAIN thread'[t].todo :
              thread'[t].todo[i].card = thread'[t].todo[j].card => i = j
        /\ \A i \in DOMAIN thread'[t].todo : ~thread'[t].todo[i].isPlayed
    BY <1>16, <1>19, <1>20, <2>1, Zenon
  <2> QED BY <1>16, <2>2, <2>3, <2>4, <2>5, Zenon DEF DealProgress
<1> QED BY <1>0, <1>2, <1>9, <1>10, <1>11, <1>12, <1>14, <1>16, <1>21, ZenonT(40)

\* subList always finds its half: no deal throws.
LEMMA SubListToHalves ==
    ASSUME TypeInv, OwnHalf, NEW t \in Thread, thread[t] \in DealHandler,
           DealProgress(t), SubListTo(t)
    PROVE  thread'[t].op = thread[t].op /\ DealProgress(t)'
<1>0. PICK o \in Deals : o = thread[t].op
  BY DEF DealHandler, Deals
<1>1. PICK n \in Nat : n = Len(Deck) \div 2 /\ Len(Deck) = n + n
  BY DeckHalves, Zenon
<1>2. thread \in [Thread -> Handler] /\ thread[t].pc = "to"
  BY Zenon DEF TypeInv, ThreadsTypeOK, Handler, SubListTo, At
<1>3. /\ begun[o] > 0 /\ Undealt(o) = HalfOf(o) /\ AllCardsRead(o)
      /\ thread[t].list = allCards
      /\ thread[t].from = IF o = "deal1" THEN 0 ELSE n
  BY <1>0, <1>1, <1>2, ZenonT(40) DEF DealProgress, Deals
<1>4. Len(allCards) = n + n
  BY <1>1, <1>3, ZenonT(40) DEF AllCardsRead
<1> DEFINE list == thread[t].list
           from == thread[t].from
           to == IF thread[t].op = "deal1" THEN Len(allCards) \div 2 ELSE Len(allCards)
           size == to - from
           dealt(shuffle) == [i \in 1..size |->
                                [list[from + shuffle[i]] EXCEPT !.order = i - 1]]
<1>5. to = IF o = "deal1" THEN n ELSE n + n
  <2>1. (n + n) \div 2 = n
    BY DeckHalves, <1>1, ZenonT(40)
  <2> QED BY <1>0, <1>4, <2>1, Zenon
<1>6. from \in Nat /\ from = IF o = "deal1" THEN 0 ELSE n
  BY <1>3
<1>7. size = n /\ ~(size < 0 \/ to > Len(list))
  <2>1. Len(list) = n + n
    BY <1>3, <1>4, Zenon
  <2> HIDE DEF from, to, list
  <2> QED BY <1>5, <1>6, <2>1, SMTT(40), Z3T(40)
<1>8. PICK shuffle \in Bijection(1..size, 1..size) :
        thread' = [thread EXCEPT ![t].todo = dealt(shuffle), ![t].pc = "save"]
  BY <1>7, Zenon DEF SubListTo
<1>9. PICK todo : todo = dealt(shuffle)
  BY Zenon
<1>10. shuffle \in Bijection(1..n, 1..n) /\ DOMAIN todo = 1..n
  <2> HIDE DEF from, size, list
  <2> QED BY <1>7, <1>9
<1>11. ASSUME NEW i \in 1..n
       PROVE  /\ todo[i].card = allCards[from + shuffle[i]].card
              /\ todo[i].isPlayed = allCards[from + shuffle[i]].isPlayed
  <2>1. shuffle[i] \in 1..n
    BY <1>10, ZenonT(40) DEF Bijection, Injection
  <2>2. from + shuffle[i] \in 1..Len(allCards)
    <3>1. PICK k \in 1..n, m \in 0..n : k = shuffle[i] /\ m = from
      BY <1>6, <2>1
    <3>2. m + k \in 1..(n + n)
      BY SMTT(40), Z3T(40)
    <3> QED BY <1>4, <3>1, <3>2, Zenon
  <2>3. allCards[from + shuffle[i]] \in Entity
    BY <2>2, ElementOfSeq DEF TypeInv, ThreadsTypeOK
  <2>4. todo[i] = [allCards[from + shuffle[i]] EXCEPT !.order = i - 1]
    <3>1. list = allCards
      BY <1>3
    <3> HIDE DEF from, size, list
    <3>2. todo[i] = [list[from + shuffle[i]] EXCEPT !.order = i - 1]
      BY <1>7, <1>9, ZenonT(40)
    <3> QED BY <3>1, <3>2, ZenonT(40)
  <2> HIDE DEF from
  <2> QED BY <2>3, <2>4, Zenon DEF Entity
<1>12. /\ {todo[i].card : i \in DOMAIN todo} = HalfOf(o)
       /\ \A i, j \in DOMAIN todo : todo[i].card = todo[j].card => i = j
       /\ \A i \in DOMAIN todo : ~todo[i].isPlayed
  <2> HIDE DEF from, size
  <2> QED BY <1>1, <1>3, <1>6, <1>10, <1>11, ShuffledHalf, SMTT(40), Z3T(40)
<1> HIDE DEF dealt
<1>13. thread'[t] = [thread[t] EXCEPT !.todo = todo, !.pc = "save"]
  BY <1>2, <1>8, <1>9, Zenon
<1>14. /\ thread'[t].op = o /\ thread'[t].pc = "save" /\ thread'[t].todo = todo
       /\ thread'[t].from = thread[t].from
  BY <1>0, <1>13, Zenon DEF DealHandler
<1>15. cardPlayers' = cardPlayers /\ begun' = begun
  BY Zenon DEF SubListTo, tables, requests
<1>16. Undealt(thread[t].op)' = {todo[i].card : i \in DOMAIN todo}
  BY <1>3, <1>12, <1>14, <1>15, ZenonT(40) DEF Undealt, FindCardsByPlayer
<1>17. begun'[thread'[t].op] > 0 /\ (thread'[t].op = "deal1" => thread'[t].from = 0)
  BY <1>3, <1>14, <1>15, Zenon
<1>18. DealProgress(t)'
  <2>1. thread'[t].pc \notin {"receiver", "from", "to"} /\ thread'[t].pc \notin {"from", "to"}
        /\ thread'[t].pc # "from" /\ thread'[t].pc # "to"
    BY <1>14, Zenon
  <2>2. thread'[t].op = "deal2" /\ thread'[t].pc = "to" => FALSE
    BY <2>1, Zenon
  <2>3. /\ {thread'[t].todo[i].card : i \in DOMAIN thread'[t].todo} = Undealt(thread[t].op)'
        /\ \A i, j \in DOMAIN thread'[t].todo :
              thread'[t].todo[i].card = thread'[t].todo[j].card => i = j
        /\ \A i \in DOMAIN thread'[t].todo : ~thread'[t].todo[i].isPlayed
    <3>1. /\ \A i, j \in DOMAIN todo : todo[i].card = todo[j].card => i = j
          /\ \A i \in DOMAIN todo : ~todo[i].isPlayed
      BY <1>12, Zenon
    <3>2. thread'[t].todo = todo
      BY <1>14, Zenon
    <3>3. {thread'[t].todo[i].card : i \in DOMAIN thread'[t].todo} = Undealt(thread[t].op)'
      BY <1>16, <3>2, Zenon
    <3>4. /\ \A i, j \in DOMAIN thread'[t].todo :
                thread'[t].todo[i].card = thread'[t].todo[j].card => i = j
          /\ \A i \in DOMAIN thread'[t].todo : ~thread'[t].todo[i].isPlayed
      BY <3>1, <3>2, Zenon
    <3> QED BY <3>3, <3>4, Zenon
  <2> QED BY <1>14, <1>17, <2>1, <2>2, <2>3, Zenon DEF DealProgress
<1> QED BY <1>0, <1>14, <1>18, Zenon

\* dealCards1 and dealCards2 on the way: only cards that are nobody's change
\* hands, and none of them is played by it.
LEMMA DealHalves ==
    ASSUME TypeInv, HalvesInv, orderly', NEW t \in Thread, Deal(t)
    PROVE  /\ HalvesInv' /\ isPlayed' = isPlayed
           /\ \A c \in Card : cardPlayers[c] # NoPlayer => cardPlayers'[c] = cardPlayers[c]
<1>1. thread \in [Thread -> Handler] /\ OwnHalf
  BY Zenon DEF TypeInv, ThreadsTypeOK, Handler, HalvesInv
<1>2. thread[t] \in DealHandler
  BY <1>1, HandlerKind, Zenon
     DEF Deal, FindAll, SubListReceiver, SubListFrom, SubListTo, DealSave,
                           DealAnswer, At, DealPc
<1>3. PICK o \in Deals : o = thread[t].op
  BY <1>2, Zenon DEF DealHandler, Deals
<1>4. DealProgress(t) /\ \A u \in Thread : u # t => thread[u].op \notin Deals
  BY <1>3, ZenonT(40) DEF HalvesInv, Running, Deals
<1>5. OnlyDeal(t, o)
  <2>1. \A op \in Deals : op # o => Running({op}) = {}
    BY <1>3, <1>4 DEF Running
  <2> QED BY <1>4, <2>1 DEF HalvesInv, OnlyDeal, Deals
<1>6. ASSUME UNCHANGED <<cardPlayers, isPlayed, begun>>,
             \A u \in Thread : u # t => thread'[u] = thread[u],
             \/ thread'[t].op = o /\ DealProgress(t)'
             \/ thread'[t].op \notin Deals /\ begun[o] > 0 /\ Undealt(o) = {}
      PROVE  HalvesInv'
  <2>1. OwnHalf' /\ \A op \in Deals : Undealt(op)' = Undealt(op)
    BY <1>1, <1>6, Zenon DEF OwnHalf, Undealt, FindCardsByPlayer
  <2>2. OnlyDeal(t, o)'
    BY <1>5, <1>6, <2>1, Zenon DEF OnlyDeal
  <2>3. DealRuns(t, o)' \/ DealDone(t, o)'
    BY <1>6, <2>1, Zenon DEF DealRuns, DealDone
  <2> QED BY <2>1, <2>2, <2>3, HalvesOfDeal, Zenon
<1>7. CASE FindAll(t)
  <2>1. /\ \A u \in Thread : u # t => thread'[u] = thread[u]
        /\ UNCHANGED <<cardPlayers, isPlayed, begun>>
    BY <1>1, <1>7, Zenon DEF FindAll, Goto, tables
  <2>2. thread'[t].op = o /\ thread'[t].pc = "receiver" /\ thread'[t].from = thread[t].from
    <3>1. thread'[t] = [thread[t] EXCEPT !.pc = "receiver"]
      BY <1>1, <1>7, Zenon DEF FindAll, Goto
    <3> QED BY <1>2, <1>3, <3>1 DEF DealHandler
  <2>3. Undealt(o) = HalfOf(o) /\ begun[o] > 0 /\ (o = "deal1" => thread[t].from = 0)
    <3>1. thread[t].pc = "findAll"
      BY <1>7, Zenon DEF FindAll, At
    <3> QED BY <1>3, <1>4, <3>1, ZenonT(40) DEF DealProgress
  <2>4. AllCardsRead(o)'
    <3>1. /\ DOMAIN Deck = 1..Len(Deck) /\ Len(Deck) \in Nat
          /\ allCards' = [i \in DOMAIN Deck |->
                [card |-> Deck[i], order |-> dealOrder[Deck[i]], isPlayed |-> isPlayed[Deck[i]]]]
      BY <1>7, DeckHalves, Zenon DEF FindAll
    <3>2. Len(allCards') = Len(Deck)
      BY <3>1, SMTT(40), Z3T(40)
    <3>3. \A i \in 1..Len(Deck) : allCards'[i].card = Deck[i]
                                  /\ allCards'[i].isPlayed = isPlayed[Deck[i]]
      BY <3>1, Zenon
    <3>4. \A c \in HalfOf(o) : ~isPlayed[c]
      BY <1>1, <2>3, UndealtIsNobodys, Zenon
    <3> QED BY <3>2, <3>3, <3>4, Zenon DEF AllCardsRead
  <2>5. Undealt(thread[t].op)' = HalfOf(o) /\ AllCardsRead(thread[t].op)'
    BY <2>1, <2>2, <2>3, <2>4, ZenonT(40) DEF Undealt, FindCardsByPlayer, AllCardsRead
  <2>6. DealProgress(t)'
    BY <2>1, <2>2, <2>3, <2>5, ZenonT(40) DEF DealProgress
  <2> QED BY <1>6, <2>1, <2>2, <2>6, ZenonT(40)
<1>8. CASE SubListReceiver(t) \/ SubListFrom(t)
  <2>1. PICK n \in Nat : n = Len(Deck) \div 2
    BY DeckHalves
  <2>2. /\ \A u \in Thread : u # t => thread'[u] = thread[u]
        /\ UNCHANGED <<cardPlayers, isPlayed, begun, allCards>>
    BY <1>1, <1>8 DEF SubListReceiver, SubListFrom, tables, requests
  <2>3. thread[t].pc \in {"receiver", "from"}
    BY <1>8, Zenon DEF SubListReceiver, SubListFrom, At
  <2>4. /\ Undealt(o) = HalfOf(o) /\ begun[o] > 0 /\ AllCardsRead(o)
        /\ thread[t].pc = "from" => thread[t].list = allCards
        /\ o = "deal1" => thread[t].from = 0 /\ thread[t].pc # "from"
    BY <1>3, <1>4, <2>3, ZenonT(40) DEF DealProgress
  <2>5. /\ thread'[t].op = o /\ thread'[t].list = allCards
        /\ thread'[t].pc \in {"from", "to"}
        /\ o = "deal1" => thread'[t].pc # "from" /\ thread'[t].from = 0
        /\ o = "deal2" /\ thread'[t].pc = "to" => thread'[t].from = n
    <3>1. CASE SubListReceiver(t)
      BY <1>1, <1>2, <1>3, <2>4, <3>1, ZenonT(40) DEF SubListReceiver, DealHandler
    <3>2. CASE SubListFrom(t)
      <4>1. thread[t].pc = "from" /\ Len(allCards) \div 2 = n
        BY <2>1, <2>4, <3>2 DEF SubListFrom, At, AllCardsRead
      <4>2. thread'[t] = [thread[t] EXCEPT !.from = n, !.pc = "to"]
        BY <1>1, <3>2, <4>1, ZenonT(40) DEF SubListFrom
      <4> QED BY <1>2, <1>3, <2>4, <4>1, <4>2, ZenonT(40) DEF DealHandler, Deals
    <3> QED BY <1>8, <3>1, <3>2
  <2>6. Undealt(thread[t].op)' = HalfOf(o) /\ AllCardsRead(thread[t].op)'
    BY <2>2, <2>4, <2>5, Zenon DEF Undealt, FindCardsByPlayer, AllCardsRead
  <2>7. DealProgress(t)'
    BY <2>1, <2>2, <2>4, <2>5, <2>6, ZenonT(40) DEF DealProgress
  <2> QED BY <1>6, <2>2, <2>5, <2>7, ZenonT(40)
<1>9. CASE SubListTo(t)
  <2>1. thread'[t].op = o /\ DealProgress(t)'
    BY <1>1, <1>2, <1>3, <1>4, <1>9, SubListToHalves, ZenonT(40)
  <2>2. /\ \A u \in Thread : u # t => thread'[u] = thread[u]
        /\ UNCHANGED <<cardPlayers, isPlayed, begun>>
    BY <1>1, <1>9, Zenon DEF SubListTo, Return, tables, requests
  <2> QED BY <1>6, <2>1, <2>2, Zenon
<1>10. CASE DealSave(t)
  <2>1. /\ OwnHalf' /\ isPlayed' = isPlayed
        /\ \A c \in Card : cardPlayers[c] # NoPlayer => cardPlayers'[c] = cardPlayers[c]
        /\ thread'[t].op = o /\ DealProgress(t)'
        /\ \A op \in Deals : op # o => Undealt(op)' = Undealt(op)
    BY <1>1, <1>2, <1>3, <1>4, <1>10, DealSaveHalves, ZenonT(40) DEF Deals
  <2>2. /\ \A u \in Thread : u # t => thread'[u] = thread[u]
        /\ begun' = begun
    BY <1>1, <1>10, Zenon DEF DealSave, requests
  <2>3. OnlyDeal(t, o)'
    BY <1>5, <2>1, <2>2, Zenon DEF OnlyDeal
  <2>4. DealRuns(t, o)'
    BY <2>1, Zenon DEF DealRuns
  <2>5. HalvesInv'
    BY <2>1, <2>3, <2>4, HalvesOfDeal, ZenonT(40)
  <2> QED BY <2>1, <2>5, Zenon
<1>11. CASE DealAnswer(t)
  <2>1. /\ thread'[t].op = "none" /\ \A u \in Thread : u # t => thread'[u] = thread[u]
        /\ UNCHANGED <<cardPlayers, isPlayed, begun>>
    <3>1. Return(t) /\ UNCHANGED <<cardPlayers, isPlayed, begun>>
      BY <1>11, Zenon DEF DealAnswer, tables
    <3> QED BY <1>1, <3>1, ReturnNone, Zenon
  <2>2. thread[t].pc = "save" /\ thread[t].todo = <<>>
    BY <1>11, Zenon DEF DealAnswer, At
  <2>3. Undealt(o) = {} /\ begun[o] > 0
    <3>1. DOMAIN thread[t].todo = {}
      BY <2>2
    <3> QED BY <1>3, <1>4, <2>2, <3>1, Zenon DEF DealProgress
  <2> QED BY <1>6, <2>1, <2>3, Zenon DEF Deals
<1> QED BY <1>7, <1>8, <1>9, <1>10, <1>11, Zenon
        DEF Deal, FindAll, SubListReceiver, SubListFrom, SubListTo, DealAnswer, tables

\* Where a handler is that has nothing to do with the table.
Quiet == DealPc \cup {"idle", "last"}

\* A deal stays a deal until it returns.
LEMMA DealMoves ==
    ASSUME thread \in [Thread -> Handler], NEW t \in Thread,
           (\E op \in Deals : ReceiveDeal(t, op)) \/ Deal(t)
    PROVE  /\ \A u \in Thread : u # t => thread'[u] = thread[u]
           /\ thread[t].pc \in Quiet /\ thread'[t].pc \in Quiet
<1>1. CASE \E op \in Deals : ReceiveDeal(t, op)
  <2>0. NoHandler.pc = "idle"
    BY DEF NoHandler
  <2>1. thread[t].pc = "idle"
    BY <1>1, <2>0, Zenon DEF ReceiveDeal
  <2>2. PICK op \in Deals : thread' = [thread EXCEPT ![t] =
                  [op |-> op, pc |-> "findAll", list |-> <<>>, from |-> 0, todo |-> <<>>]]
    BY <1>1, Zenon DEF ReceiveDeal
  <2> QED BY <2>1, <2>2, Zenon DEF Quiet, DealPc
<1>2. ASSUME Deal(t) PROVE thread[t] \in DealHandler /\ thread[t].pc \in Quiet
  BY <1>2, HandlerKind, Zenon
     DEF Deal, FindAll, SubListReceiver, SubListFrom, SubListTo, DealSave,
                           DealAnswer, At, Quiet, DealPc
<1>3. CASE FindAll(t)
  BY <1>2, <1>3, Zenon DEF Deal, FindAll, Goto, DealHandler, Quiet, DealPc
<1>4. CASE SubListReceiver(t)
  BY <1>2, <1>4 DEF Deal, SubListReceiver, DealHandler, Quiet, DealPc
<1>5. CASE SubListFrom(t)
  BY <1>2, <1>5, Zenon DEF Deal, SubListFrom, DealHandler, Quiet, DealPc
<1>6. CASE SubListTo(t)
  <2>1. CASE Return(t)
    BY <1>2, <1>6, <2>1, ReturnNone, Zenon DEF Deal, Quiet
  <2>2. CASE \E todo : thread' = [thread EXCEPT ![t].todo = todo, ![t].pc = "save"]
    BY <1>2, <1>6, <2>2, Zenon DEF Deal, DealHandler, Quiet, DealPc
  <2> QED BY <1>6, <2>1, <2>2, Zenon DEF SubListTo
<1>7. CASE DealSave(t)
  BY <1>2, <1>7, Zenon DEF Deal, DealSave, DealHandler, Quiet, DealPc
<1>8. CASE DealAnswer(t)
  <2>1. Return(t)
    BY <1>8, Zenon DEF DealAnswer
  <2> QED BY <1>2, <1>8, <2>1, ReturnNone, Zenon DEF Deal, Quiet
<1> QED BY <1>1, <1>3, <1>4, <1>5, <1>6, <1>7, <1>8, Zenon DEF Deal

\* save(card) with is_played set, of a card the player has: the row keeps its
\* owner.
LEMMA SaveOwned ==
    ASSUME TypeInv, NEW player \in {Player1, Player2}, NEW card \in FindCardsByPlayer(player),
           NEW order, Save(card, player, order, TRUE)
    PROVE  /\ card \in Card /\ cardPlayers' = cardPlayers /\ isPlayed'[card]
           /\ \A c \in Card : isPlayed[c] => isPlayed'[c]
           /\ \A c \in Card : cardPlayers[c] = NoPlayer => isPlayed'[c] = isPlayed[c]
<1>1. cardPlayers \in [Card -> PlayerId \cup {NoPlayer}] /\ isPlayed \in [Card -> BOOLEAN]
  BY DEF TypeInv, ThreadsTypeOK, TablesTypeOK
<1>2. card \in Card /\ cardPlayers[card] = player
  BY Zenon DEF FindCardsByPlayer
<1>3. player # NoPlayer
  BY RepositoriesAssumption, CardsThreadsAssumption, Zenon
<1>4. cardPlayers' = cardPlayers
  BY <1>1, <1>2, Zenon DEF Save
<1>5. isPlayed' = [isPlayed EXCEPT ![card] = TRUE]
  BY Zenon DEF Save
<1> QED BY <1>1, <1>2, <1>3, <1>4, <1>5, Zenon

\* A step that changes nothing keeps the halves.
LEMMA HalvesStutter ==
    ASSUME HalvesInv, UNCHANGED vars
    PROVE  HalvesInv'
<1>1. UNCHANGED <<cardPlayers, isPlayed, allCards, begun, thread>>
  BY Zenon DEF vars, tables, requests
<1>2. OwnHalf'
  BY <1>1, Zenon DEF HalvesInv, OwnHalf
<1>3. \A ops : Running(ops)' = Running(ops)
  BY <1>1, Zenon DEF Running
<1>4. \A op : Undealt(op)' = Undealt(op) /\ AllCardsRead(op)' = AllCardsRead(op)
  BY <1>1, Zenon DEF Undealt, FindCardsByPlayer, AllCardsRead
<1>5. \A t : DealProgress(t)' = DealProgress(t)
  BY <1>1, <1>4, ZenonT(40) DEF DealProgress
<1> QED BY <1>1, <1>2, <1>3, <1>4, <1>5, Zenon DEF HalvesInv

-----------------------------------------------------------------------------
(* What lies on the table.                                                 *)

\* A handler that waits for its check of the turn or holds the turn is the only
\* one.
LEMMA ActiveAlone ==
    ASSUME LockInv, TurnKept, NEW t \in Thread, thread[t].pc \notin Quiet,
           NEW u \in Thread, u # t
    PROVE  thread[u].pc \in Quiet
<1>1. thread \in [Thread -> Handler]
  BY Zenon DEF LockInv, TypeInv, ThreadsTypeOK, Handler
<1>2. ASSUME NEW v \in Thread, thread[v].pc \notin Quiet
      PROVE  thread[v].op \in {"play1", "play2"} /\ (thread[v].pc = "turn" \/ HoldsTurn(v))
  <2>1. thread[v] \in PlayHandler
    BY <1>1, <1>2, HandlerKind, Zenon DEF Quiet, Handler, DealHandler, NoHandler, DealPc
  <2> QED BY <1>2, <2>1, Zenon DEF PlayHandler, Quiet, HoldsTurn
<1> SUFFICES ASSUME thread[u].pc \notin Quiet PROVE FALSE
  BY Zenon
<1>3. thread[t].op \in {"play1", "play2"} /\ thread[u].op \in {"play1", "play2"}
      /\ thread[t].op # thread[u].op
  BY <1>2, Zenon DEF LockInv, OneEach
<1>4. ASSUME NEW v \in Thread, NEW w \in Thread, thread[v].pc = "turn", HoldsTurn(w),
             thread[v].op \in {"play1", "play2"}, thread[v].op # thread[w].op
      PROVE  FALSE
  BY <1>4, Zenon DEF LockInv, HolderHasFlag, TurnKept, At, MyTurn
<1>5. CASE thread[t].pc = "turn" /\ thread[u].pc = "turn"
  BY <1>3, <1>5, Zenon DEF LockInv, TurnKept, At, MyTurn
<1>6. CASE HoldsTurn(t) /\ HoldsTurn(u)
  BY <1>6, Zenon DEF LockInv, TurnIsLock
<1> QED BY <1>2, <1>3, <1>4, <1>5, <1>6, ZenonT(40)

\* Nobody is active when a player clicks in turn.
LEMMA ClickAlone ==
    ASSUME LockInv, TurnKept, NEW op \in {"play1", "play2"}, MyTurn(op), Running({op}) = {},
           NEW u \in Thread
    PROVE  thread[u].pc \in Quiet
<1>1. thread \in [Thread -> Handler]
  BY DEF LockInv, TypeInv, ThreadsTypeOK, Handler
<1> SUFFICES ASSUME thread[u].pc \notin Quiet PROVE FALSE
  BY Zenon
<1>2. thread[u] \in PlayHandler
  BY <1>1, HandlerKind, Zenon DEF Quiet, Handler, DealHandler, NoHandler, DealPc
<1>3. thread[u].op \in {"play1", "play2"} /\ thread[u].op # op
  BY <1>2, Zenon DEF PlayHandler, Running
<1>4. thread[u].pc = "turn" \/ HoldsTurn(u)
  BY <1>2, Zenon DEF PlayHandler, Quiet, HoldsTurn
<1>5. CASE thread[u].pc = "turn"
  BY <1>3, <1>5, Zenon DEF LockInv, TurnKept, At, MyTurn
<1>6. CASE HoldsTurn(u)
  BY <1>3, <1>6, Zenon DEF LockInv, HolderHasFlag, MyTurn
<1> QED BY <1>4, <1>5, <1>6, Zenon

\* playedCard1, as the only active handler finds it.
FirstCardFor(t) ==
    \/ thread[t].pc \in {"pass1", "pass2"}
    \/ player2Turn /\ thread[t].pc # "return2"
    => playedCard1 \in FindCardsByPlayer(Player1) /\ OnTable(playedCard1)

\* Before a step of the only active handler.
LEMMA FirstCardOfOne ==
    ASSUME LockInv, FirstCardLies, NEW t \in Thread,
           \A u \in Thread : u # t => thread[u].pc \in Quiet
    PROVE  FirstCardFor(t)
<1>1. thread \in [Thread -> Handler]
  BY Zenon DEF LockInv, TypeInv, ThreadsTypeOK, Handler
<1>2. CASE thread[t].pc \in {"pass1", "pass2"}
  <2>1. thread[t] \in PlayHandler
    BY <1>1, <1>2, HandlerKind, Zenon DEF PlayPc
  <2>2. thread[t].op = "play1"
    BY <1>2, <2>1, Zenon DEF PlayHandler, LockInv, PlaysInOrder
  <2>3. t \in Dealer("play1", {"pass1", "pass2"})
    BY <1>2, <2>2, Zenon DEF Dealer, Running
  <2> QED BY <2>3, Zenon DEF FirstCardLies, FirstCardFor
<1>3. CASE player2Turn /\ thread[t].pc # "return2"
  <2>1. Dealer("play2", {"return2"}) = {}
    BY <1>3, Zenon DEF Dealer, Running, Quiet, DealPc
  <2> QED BY <1>3, <2>1, Zenon DEF FirstCardLies, FirstCardFor
<1> QED BY <1>2, <1>3, Zenon DEF FirstCardFor

\* After a step of the only active handler.
LEMMA TableOfOne ==
    ASSUME LockInv', NEW t \in Thread,
           \A u \in Thread : u # t => thread'[u].pc \in Quiet,
           At(t, "turn")' => MyTurn(thread[t].op)',
           CardsOf(t)', FirstCardFor(t)'
    PROVE  TurnKept' /\ FirstCardLies' /\ \A u \in Thread : CardsOf(u)'
<1>1. thread' \in [Thread -> Handler]
  BY Zenon DEF LockInv, TypeInv, ThreadsTypeOK, Handler
<1>2. TurnKept'
  BY DEF TurnKept, At, Quiet, DealPc
<1>3. ASSUME NEW u \in Thread PROVE CardsOf(u)'
  <2>1. CASE u = t
    BY <2>1, Zenon
  <2>2. CASE thread'[u].pc \in Quiet
    BY <2>2, ZenonT(40) DEF CardsOf, Quiet, DealPc
  <2> QED BY <2>1, <2>2, Zenon
<1>4. FirstCardLies'
  <2>1. CASE Dealer("play1", {"pass1", "pass2"})' # {}
    <3>1. thread'[t].pc \in {"pass1", "pass2"}
      BY <2>1, Zenon DEF Dealer, Running, Quiet, DealPc
    <3> QED BY <3>1, ZenonT(40) DEF FirstCardFor, FirstCardLies
  <2>2. CASE player2Turn' /\ Dealer("play2", {"return2"})' = {}
    <3>1. thread'[t].pc # "return2"
      <4> SUFFICES ASSUME thread'[t].pc = "return2" PROVE FALSE
        OBVIOUS
      <4>1. thread'[t] \in PlayHandler
        BY <1>1, HandlerKind, Zenon DEF PlayPc
      <4>2. thread'[t].op = "play2"
        BY <4>1, Zenon DEF PlayHandler, LockInv, PlaysInOrder
      <4> QED BY <2>2, <4>2, ZenonT(40) DEF Dealer, Running
    <3> QED BY <2>2, <3>1, Zenon DEF FirstCardFor, FirstCardLies
  <2> QED BY <2>1, <2>2, Zenon DEF FirstCardLies
<1> QED BY <1>2, <1>3, <1>4, Zenon

\* A step of a handler that is not at the table.
LEMMA TableQuiet ==
    ASSUME TypeInv, TurnKept, FirstCardLies, \A u \in Thread : CardsOf(u), CapturedOnce,
           NEW t \in Thread, \A u \in Thread : u # t => thread'[u] = thread[u],
           thread[t].pc \in Quiet, thread'[t].pc \in Quiet,
           UNCHANGED <<turns, played, piles, isPlayed>>,
           \A c \in Card : cardPlayers[c] # NoPlayer => cardPlayers'[c] = cardPlayers[c]
    PROVE  TurnKept' /\ FirstCardLies' /\ (\A u \in Thread : CardsOf(u)') /\ CapturedOnce'
<1>1. NoPlayer # Player1 /\ NoPlayer # Player2
  BY RepositoriesAssumption, CardsThreadsAssumption, Zenon
<1>2. ASSUME NEW player \in {Player1, Player2}
      PROVE  /\ FindCardsByPlayer(player) \subseteq FindCardsByPlayer(player)'
             /\ Unplayed(player) \subseteq Unplayed(player)'
  BY <1>1, Zenon DEF FindCardsByPlayer, Unplayed
<1>3. \A c : OnTable(c)' <=> OnTable(c)
  BY Zenon DEF OnTable, piles
<1>4. TurnKept'
  BY Zenon DEF TurnKept, At, MyTurn, turns, Quiet, DealPc
<1>5. FirstCardLies'
  <2>1. /\ Dealer("play1", {"pass1", "pass2"})' = Dealer("play1", {"pass1", "pass2"})
        /\ Dealer("play2", {"return2"})' = Dealer("play2", {"return2"})
    BY Zenon DEF Dealer, Running, Quiet, DealPc
  <2>2. playedCard1' = playedCard1 /\ player2Turn' = player2Turn
    BY Zenon DEF played, turns
  <2>3. OnTable(playedCard1) => OnTable(playedCard1)'
    BY <2>2, Zenon DEF OnTable, piles
  <2> QED BY <1>2, <2>1, <2>2, <2>3, Zenon DEF FirstCardLies
<1>6. ASSUME NEW u \in Thread PROVE CardsOf(u)'
  <2>1. CASE u = t
    BY <2>1, ZenonT(40) DEF CardsOf, Quiet, DealPc
  <2>2. CASE u # t
    <3>1. thread'[u] = thread[u] /\ playedCard2' = playedCard2
      BY <2>2, ZenonT(40) DEF played
    <3>2. Drawer(u)' = Drawer(u) /\ Drawer(u) \in {Player1, Player2}
          /\ Player(thread[u].op) \in {Player1, Player2}
      BY <3>1, Zenon DEF Drawer, Player
    <3>3. CardsOf(u)
      BY Zenon
    <3>4. /\ OnTable(thread[u].card)' <=> OnTable(thread[u].card)
          /\ OnTable(playedCard2)' <=> OnTable(playedCard2)
          /\ InHand(thread[u].card, Player(thread[u].op)) =>
                InHand(thread[u].card, Player(thread[u].op))'
          /\ InHand(thread[u].card, Drawer(u)) => InHand(thread[u].card, Drawer(u))'
      <4>1. /\ Unplayed(Player(thread[u].op)) \subseteq Unplayed(Player(thread[u].op))'
            /\ Unplayed(Drawer(u)) \subseteq Unplayed(Drawer(u))'
        BY <1>1, <3>1, <3>2, ZenonT(40) DEF Unplayed, FindCardsByPlayer
      <4> QED BY <3>1, <3>2, <4>1, ZenonT(40) DEF OnTable, InHand, piles
    <3>5. /\ thread[u].card \in FindCardsByPlayer(Player(thread[u].op)) =>
                thread'[u].card \in FindCardsByPlayer(Player(thread[u].op))'
          /\ playedCard2 \in FindCardsByPlayer(Player2) =>
                playedCard2' \in FindCardsByPlayer(Player2)'
      BY <1>1, <3>1, <3>2, ZenonT(40) DEF FindCardsByPlayer
    <3> QED BY <1>3, <3>1, <3>3, <3>4, <3>5, ZenonT(40) DEF CardsOf
  <2> QED BY <2>1, <2>2, Zenon
<1>7. CapturedOnce'
  BY Zenon DEF CapturedOnce, piles
<1> QED BY <1>4, <1>5, <1>6, <1>7, Zenon

\* Cards of the table are captured once.
LEMMA CaptureApart ==
    ASSUME TypeInv, CapturedOnce, isPlayed' = isPlayed, NEW cards \in Seq(Card),
           IsInjective(cards), \A c \in Range(cards) : OnTable(c),
           Capture1(cards) \/ Capture2(cards)
    PROVE  CapturedOnce'
<1>1. player1CapturedCards \in Seq(Card) /\ player2CapturedCards \in Seq(Card)
  BY DEF TypeInv, ThreadsTypeOK
<1>2. /\ Range(player1CapturedCards) \cap Range(cards) = {}
      /\ Range(player2CapturedCards) \cap Range(cards) = {}
      /\ \A c \in Range(cards) : isPlayed[c]
  BY Zenon DEF OnTable
<1>3. CASE Capture1(cards)
  <2>1. /\ IsInjective(player1CapturedCards \o cards)
        /\ Range(player1CapturedCards \o cards) = Range(player1CapturedCards) \cup Range(cards)
    BY <1>1, <1>2, ConcatApart, ZenonT(40) DEF CapturedOnce
  <2> QED BY <1>2, <1>3, <2>1, Zenon DEF Capture1, CapturedOnce
<1>4. CASE Capture2(cards)
  <2>1. /\ IsInjective(player2CapturedCards \o cards)
        /\ Range(player2CapturedCards \o cards) = Range(player2CapturedCards) \cup Range(cards)
    BY <1>1, <1>2, ConcatApart, ZenonT(40) DEF CapturedOnce
  <2> QED BY <1>2, <1>4, <2>1, Zenon DEF Capture2, CapturedOnce
<1> QED BY <1>3, <1>4, Zenon

\* A step of the only active handler, from what it does with the cards.
LEMMA TableStepOf ==
    ASSUME TableInv, LockInv', NEW t \in Thread,
           \A u \in Thread : u # t => thread[u].pc \in Quiet /\ thread'[u] = thread[u],
           thread[t].op \notin Deals, thread'[t].op \notin Deals,
           UNCHANGED <<cardPlayers, allCards, begun>>,
           \A c \in Card : cardPlayers[c] = NoPlayer => isPlayed'[c] = isPlayed[c],
           thread'[t].pc # "turn", CardsOf(t)', FirstCardFor(t)', CapturedOnce'
    PROVE  TableInv'
<1>1. HalvesInv'
  <2>1. HalvesInv /\ \A u \in Thread : u # t => thread'[u] = thread[u]
    BY ZenonT(40) DEF TableInv
  <2> QED BY <2>1, HalvesOfPlay, Zenon
<1>2. TurnKept' /\ FirstCardLies' /\ \A u \in Thread : CardsOf(u)'
  <2>1. \A u \in Thread : u # t => thread'[u].pc \in Quiet
    BY ZenonT(40)
  <2>2. At(t, "turn")' => MyTurn(thread[t].op)'
    BY DEF At
  <2> QED BY <2>1, <2>2, TableOfOne, ZenonT(40)
<1> QED BY <1>1, <1>2, Zenon DEF TableInv

\* The deals leave the table alone.
LEMMA DealTable ==
    ASSUME TableInv, LockInv', orderly', NEW t \in Thread,
           (\E op \in Deals : ReceiveDeal(t, op)) \/ Deal(t)
    PROVE  TableInv'
<1>1. /\ TypeInv /\ HalvesInv /\ TurnKept /\ FirstCardLies /\ CapturedOnce
      /\ \A u \in Thread : CardsOf(u)
      /\ thread \in [Thread -> Handler] /\ thread' \in [Thread -> Handler]
  BY Zenon DEF TableInv, LockInv, TypeInv, ThreadsTypeOK, Handler
<1>2. CASE \E op \in Deals : ReceiveDeal(t, op)
  <2>1. PICK op \in Deals : ReceiveDeal(t, op)
    BY <1>2, Zenon
  <2>2. /\ \A u \in Thread : u # t => thread'[u] = thread[u]
        /\ thread[t].pc \in Quiet /\ thread'[t].pc \in Quiet
        /\ UNCHANGED <<turns, played, piles, isPlayed, cardPlayers>>
    <3>1. UNCHANGED <<turns, played, piles, isPlayed, cardPlayers>>
      BY <2>1, Zenon DEF ReceiveDeal, tables
    <3> QED BY <1>1, <1>2, <3>1, DealMoves, Zenon
  <2>3. HalvesInv'
    BY <1>1, <2>1, ReceiveDealHalves
  <2> QED BY <1>1, <2>2, <2>3, TableQuiet, ZenonT(40) DEF TableInv
<1>3. CASE Deal(t)
  <2>1. /\ HalvesInv' /\ isPlayed' = isPlayed
        /\ \A c \in Card : cardPlayers[c] # NoPlayer => cardPlayers'[c] = cardPlayers[c]
    BY <1>1, <1>3, DealHalves, ZenonT(40)
  <2>2. thread[t].pc \in Quiet /\ UNCHANGED <<turns, played, piles>>
    BY <1>3, ZenonT(40)
       DEF Deal, FindAll, SubListReceiver, SubListFrom, SubListTo, DealSave, DealAnswer,
                At, Quiet, DealPc
  <2>3. /\ \A u \in Thread : u # t => thread'[u] = thread[u]
        /\ thread'[t].pc \in Quiet
    BY <1>1, <1>3, DealMoves, ZenonT(40)
  <2>4. UNCHANGED <<turns, played, piles, isPlayed>>
    BY <2>1, <2>2, ZenonT(40)
  <2> QED BY <1>1, <2>1, <2>2, <2>3, <2>4, TableQuiet, ZenonT(40) DEF TableInv
<1> QED BY <1>2, <1>3, ZenonT(40)

\* A click in turn.
LEMMA ReceivePlayTable ==
    ASSUME TableInv, LockInv', orderly', NEW t \in Thread,
           NEW op \in {"play1", "play2"}, ReceivePlay(t, op)
    PROVE  TableInv'
<1>1. /\ LockInv /\ TypeInv /\ HalvesInv /\ TurnKept /\ FirstCardLies /\ CapturedOnce
      /\ thread \in [Thread -> Handler]
  BY Zenon DEF TableInv, LockInv, TypeInv, ThreadsTypeOK, Handler
<1>2. /\ MyTurn(op) /\ Running({op}) = {} /\ thread[t] = NoHandler
      /\ UNCHANGED <<cardPlayers, isPlayed, allCards, begun, turns, played, piles>>
  BY ZenonT(40) DEF ReceivePlay, tables, requests
<1>3. \A u \in Thread : thread[u].pc \in Quiet
  BY <1>1, <1>2, ClickAlone
<1>4. PICK card \in Pick(Player(op)) :
        thread' = [thread EXCEPT ![t] =
          [op |-> op, pc |-> "turn", card |-> card, order |-> OrderOf(card),
           last |-> Unplayed(Player(op)) \subseteq {card}, warCards |-> <<>>]]
  BY Zenon DEF ReceivePlay
<1>5. /\ thread'[t].op = op /\ thread'[t].pc = "turn" /\ thread'[t].card = card
      /\ \A u \in Thread : u # t => thread'[u] = thread[u]
  BY <1>1, <1>4, ZenonT(40)
<1>6. card # NoCard => card \in Unplayed(Player(op))
  BY Zenon DEF Pick, NextCards
<1>7. CardsOf(t)'
  <2>1. Unplayed(Player(thread[t].op))' = Unplayed(Player(op))
    BY <1>2, <1>5, ZenonT(40) DEF Unplayed, FindCardsByPlayer
  <2> QED BY <1>5, <1>6, <2>1, ZenonT(40) DEF CardsOf, InHand
<1>8. FirstCardFor(t)'
  <2>1. FirstCardFor(t)
    BY <1>1, <1>3, FirstCardOfOne, ZenonT(40)
  <2>2. thread[t].pc = "idle"
    BY <1>2, SMTT(60), Z3T(60) DEF NoHandler
  <2> QED BY <1>2, <1>5, <2>1, <2>2, ZenonT(40)
          DEF FirstCardFor, FindCardsByPlayer, OnTable, turns, played, piles
<1>9. At(t, "turn")' => MyTurn(thread[t].op)'
  BY <1>2, <1>5, ZenonT(40) DEF MyTurn, turns
<1>10. TurnKept' /\ FirstCardLies' /\ \A u \in Thread : CardsOf(u)'
  <2>1. \A u \in Thread : u # t => thread'[u].pc \in Quiet
    BY <1>3, <1>5, ZenonT(40)
  <2> QED BY <1>7, <1>8, <1>9, <2>1, TableOfOne, ZenonT(40)
<1>11. HalvesInv'
  <2>1. thread[t].op \notin Deals /\ thread'[t].op \notin Deals
    BY <1>2, <1>5, SMTT(60), Z3T(60) DEF NoHandler, Deals
  <2> QED BY <1>1, <1>2, <1>5, <2>1, HalvesOfPlay, ZenonT(40)
<1>12. CapturedOnce'
  BY <1>1, <1>2, ZenonT(40) DEF CapturedOnce, piles
<1> QED BY <1>10, <1>11, <1>12, ZenonT(40) DEF TableInv

\* playCard1, and playCard2 up to gameRound.
LEMMA PlayTable ==
    ASSUME TableInv, LockInv', NEW t \in Thread, Play(t)
    PROVE  TableInv'
<1>1. /\ LockInv /\ TypeInv /\ TurnKept /\ FirstCardLies /\ CapturedOnce /\ CardsOf(t)
      /\ thread \in [Thread -> Handler]
  BY Zenon DEF TableInv, LockInv, TypeInv, ThreadsTypeOK, Handler
<1>2. thread[t] \in PlayHandler /\ thread[t].pc \in PlayPc /\ thread[t].pc \notin Quiet
  BY <1>1, HandlerKind, Zenon
     DEF Play, CheckTurn, Reveal, PutOnTable, Pass1, Pass2, At, PlayPc, Quiet, DealPc
<1>3. thread[t].op \in {"play1", "play2"} /\ thread[t].op \notin Deals
  BY <1>2 DEF PlayHandler, Deals
<1>4. \A u \in Thread : u # t => thread[u].pc \in Quiet
  BY <1>1, <1>2, ActiveAlone
<1>5. FirstCardFor(t)
  BY <1>1, <1>4, FirstCardOfOne, ZenonT(40)
<1>6. \A pc \in PlayPc : Goto(t, pc) =>
         /\ thread'[t].pc = pc /\ thread'[t].op = thread[t].op
         /\ thread'[t].card = thread[t].card /\ thread'[t].op \notin Deals
         /\ \A u \in Thread : u # t => thread[u].pc \in Quiet /\ thread'[u] = thread[u]
  BY <1>1, <1>2, <1>3, <1>4, GotoPlay, ZenonT(40)
<1>7. Return(t) =>
         /\ thread'[t].pc = "idle" /\ thread'[t].op \notin Deals
         /\ \A u \in Thread : u # t => thread[u].pc \in Quiet /\ thread'[u] = thread[u]
  BY <1>1, <1>4, ReturnIdle, SMT, Z3 DEF NoHandler, Deals
<1>8. /\ UNCHANGED <<cardPlayers, isPlayed, piles>> =>
            CapturedOnce' /\ \A c : OnTable(c)' <=> OnTable(c)
      /\ UNCHANGED cardPlayers =>
            \A q : FindCardsByPlayer(q)' = FindCardsByPlayer(q)
  BY <1>1, Zenon DEF CapturedOnce, OnTable, FindCardsByPlayer, piles
<1>9. CASE CheckTurn(t)
  <2>1. /\ thread[t].pc = "turn"
        /\ UNCHANGED <<cardPlayers, isPlayed, allCards, begun, turns, played, piles>>
    BY <1>9, ZenonT(40) DEF CheckTurn, At, tables, requests
  <2>2. FirstCardFor(t) /\ CapturedOnce'
    BY <1>5, <1>8, <2>1, ZenonT(40)
  <2>3. CASE Return(t)
    <3>1. CardsOf(t)'
      BY <1>7, <2>3, ZenonT(40) DEF CardsOf
    <3>2. FirstCardFor(t)'
      BY <1>7, <2>1, <2>2, <2>3, ZenonT(40)
         DEF FirstCardFor, FindCardsByPlayer, OnTable, turns, played, piles
    <3> QED BY <1>3, <1>7, <2>1, <2>2, <2>3, <3>1, <3>2, TableStepOf, ZenonT(40)
  <2>4. CASE Goto(t, "reveal")
    <3>1. /\ thread'[t].pc = "reveal" /\ thread'[t].op = thread[t].op
          /\ thread'[t].card = thread[t].card /\ thread'[t].op \notin Deals
          /\ \A u \in Thread : u # t => thread[u].pc \in Quiet /\ thread'[u] = thread[u]
      BY <1>6, <2>4, ZenonT(40) DEF PlayPc
    <3>2. CardsOf(t)'
      <4>1. thread[t].card # NoCard => InHand(thread[t].card, Player(thread[t].op))
        BY <1>1, <2>1, ZenonT(40) DEF CardsOf
      <4>2. thread'[t].card # NoCard => InHand(thread[t].card, Player(thread[t].op))'
        BY <2>1, <3>1, <4>1, ZenonT(40) DEF InHand, Unplayed, FindCardsByPlayer
      <4> QED BY <3>1, <4>2, ZenonT(40) DEF CardsOf
    <3>3. FirstCardFor(t)'
      BY <2>1, <2>2, <3>1, ZenonT(40)
         DEF FirstCardFor, FindCardsByPlayer, OnTable, turns, played, piles
    <3> QED BY <1>3, <2>1, <2>2, <3>1, <3>2, <3>3, TableStepOf, ZenonT(40)
  <2> QED BY <1>9, <2>3, <2>4, ZenonT(40) DEF CheckTurn
<1>10. CASE Reveal(t)
  <2>1. /\ thread[t].pc = "reveal" /\ thread[t].card \in Card
        /\ UNCHANGED <<allCards, begun, turns, played, piles>>
    BY <1>1, <1>10, ZenonT(40) DEF Reveal, At, requests, TypeInv, LocalsSet
  <2>2. /\ thread'[t].pc = "table" /\ thread'[t].op = thread[t].op
        /\ thread'[t].card = thread[t].card /\ thread'[t].op \notin Deals
        /\ \A u \in Thread : u # t => thread[u].pc \in Quiet /\ thread'[u] = thread[u]
    BY <1>6, <1>10, ZenonT(40) DEF Reveal, PlayPc
  <2>3a. PICK order : order = thread[t].order
    BY Zenon
  <2>3b. PICK player \in {Player1, Player2}, card \in Card :
           player = Player(thread[t].op) /\ card = thread[t].card
    BY <2>1, Zenon DEF Player
  <2>3. player = Player(thread[t].op) /\ card = thread[t].card /\ order = thread[t].order
    BY <2>3a, <2>3b, Zenon
  <2>4. InHand(card, player) /\ Save(card, player, order, TRUE)
    <3>1. thread[t].card # NoCard
      BY <2>1, RepositoriesAssumption, Zenon
    <3> QED BY <1>1, <1>10, <2>1, <2>3, <3>1, ZenonT(40) DEF CardsOf, Reveal
  <2>5. /\ cardPlayers' = cardPlayers /\ card \in FindCardsByPlayer(player)
        /\ ~isPlayed[card] /\ isPlayed'[card]
        /\ \A c \in Card : isPlayed[c] => isPlayed'[c]
        /\ \A c \in Card : cardPlayers[c] = NoPlayer => isPlayed'[c] = isPlayed[c]
    <3>1. card \in FindCardsByPlayer(player) /\ ~isPlayed[card]
      BY <2>4 DEF InHand, Unplayed
    <3> QED BY <1>1, <2>4, <3>1, SaveOwned, ZenonT(40)
  <2>6. Range(player1CapturedCards) \subseteq Card /\ Range(player2CapturedCards) \subseteq Card
    <3>1. player1CapturedCards \in Seq(Card) /\ player2CapturedCards \in Seq(Card)
      BY <1>1, Zenon DEF TypeInv, ThreadsTypeOK
    <3> QED BY <3>1, RangeOfSeq, ZenonT(40)
  <2>7. CapturedOnce'
    BY <1>1, <2>1, <2>5, <2>6, ZenonT(40) DEF CapturedOnce, piles
  <2>8. CardsOf(t)'
    <3>1. card \notin Range(player1CapturedCards) \cup Range(player2CapturedCards)
      BY <1>1, <2>5, ZenonT(40) DEF CapturedOnce
    <3>2. /\ thread'[t].card \in FindCardsByPlayer(Player(thread[t].op))'
          /\ OnTable(thread[t].card)'
      BY <2>1, <2>2, <2>3, <2>5, <3>1, ZenonT(40) DEF OnTable, FindCardsByPlayer, piles
    <3> QED BY <2>2, <3>2, ZenonT(40) DEF CardsOf
  <2>9. FirstCardFor(t)'
    BY <1>5, <2>1, <2>2, <2>5, ZenonT(40)
       DEF FirstCardFor, FindCardsByPlayer, OnTable, turns, played, piles
  <2>10. UNCHANGED <<cardPlayers, allCards, begun>> /\ thread'[t].pc # "turn"
    BY <2>1, <2>2, <2>5, ZenonT(40)
  <2> QED BY <1>3, <2>2, <2>5, <2>7, <2>8, <2>9, <2>10, TableStepOf, ZenonT(40)
<1>11. CASE PutOnTable(t)
  <2>1. /\ thread[t].pc = "table"
        /\ UNCHANGED <<cardPlayers, isPlayed, allCards, begun, turns, piles>>
    BY <1>11, ZenonT(40) DEF PutOnTable, At, tables, requests
  <2>2. thread[t].card \in FindCardsByPlayer(Player(thread[t].op)) /\ OnTable(thread[t].card)
    BY <1>1, <2>1, Zenon DEF CardsOf
  <2>3. CASE /\ thread[t].op = "play1" /\ playedCard1' = thread[t].card /\ Goto(t, "pass1")
    <3>1. /\ thread'[t].pc = "pass1" /\ thread'[t].op \notin Deals
          /\ \A u \in Thread : u # t => thread[u].pc \in Quiet /\ thread'[u] = thread[u]
      BY <1>6, <2>3, ZenonT(40) DEF PlayPc
    <3>2. CardsOf(t)'
      BY <3>1, ZenonT(40) DEF CardsOf
    <3>3. FirstCardFor(t)'
      BY <2>1, <2>2, <2>3, ZenonT(40)
         DEF FirstCardFor, FindCardsByPlayer, OnTable, piles, Player
    <3> QED BY <1>3, <1>8, <2>1, <3>1, <3>2, <3>3, TableStepOf, ZenonT(40)
  <2>4. CASE /\ thread[t].op = "play2" /\ playedCard2' = thread[t].card /\ Goto(t, "round")
             /\ UNCHANGED playedCard1
    <3>1. /\ thread'[t].pc = "round" /\ thread'[t].op \notin Deals
          /\ \A u \in Thread : u # t => thread[u].pc \in Quiet /\ thread'[u] = thread[u]
      BY <1>6, <2>4, ZenonT(40) DEF PlayPc
    <3>2. CardsOf(t)'
      <4>1. playedCard2' \in FindCardsByPlayer(Player2)' /\ OnTable(playedCard2)'
        BY <2>1, <2>2, <2>4, ZenonT(40) DEF FindCardsByPlayer, OnTable, piles, Player
      <4> QED BY <3>1, <4>1, ZenonT(40) DEF CardsOf
    <3>3. FirstCardFor(t)'
      BY <1>5, <2>1, <2>4, <3>1, ZenonT(40)
         DEF FirstCardFor, FindCardsByPlayer, OnTable, turns, piles
    <3> QED BY <1>3, <1>8, <2>1, <3>1, <3>2, <3>3, TableStepOf, ZenonT(40)
  <2> QED BY <1>11, <2>3, <2>4, ZenonT(40) DEF PutOnTable
<1>12. CASE Pass1(t)
  <2>1. /\ thread[t].pc = "pass1" /\ player2Turn' = player2Turn
        /\ UNCHANGED <<cardPlayers, isPlayed, allCards, begun, played, piles>>
    BY <1>12, ZenonT(40) DEF Pass1, At, tables, requests
  <2>2. /\ thread'[t].pc = "pass2" /\ thread'[t].op \notin Deals
        /\ \A u \in Thread : u # t => thread[u].pc \in Quiet /\ thread'[u] = thread[u]
    BY <1>6, <1>12, ZenonT(40) DEF Pass1, PlayPc
  <2>3. CardsOf(t)'
    BY <2>2, ZenonT(40) DEF CardsOf
  <2>4. FirstCardFor(t)'
    BY <1>5, <2>1, <2>2, ZenonT(40) DEF FirstCardFor, FindCardsByPlayer, OnTable, played, piles
  <2> QED BY <1>3, <1>8, <2>1, <2>2, <2>3, <2>4, TableStepOf, ZenonT(40)
<1>13. CASE Pass2(t)
  <2>1. /\ thread[t].pc = "pass2"
        /\ UNCHANGED <<cardPlayers, isPlayed, allCards, begun, played, piles>>
    BY <1>13, ZenonT(40) DEF Pass2, At, tables, requests
  <2>2. /\ thread'[t].pc = "idle" /\ thread'[t].op \notin Deals
        /\ \A u \in Thread : u # t => thread[u].pc \in Quiet /\ thread'[u] = thread[u]
    BY <1>7, <1>13, ZenonT(40) DEF Pass2
  <2>3. CardsOf(t)'
    BY <2>2, ZenonT(40) DEF CardsOf
  <2>4. FirstCardFor(t)'
    BY <1>5, <2>1, <2>2, ZenonT(40) DEF FirstCardFor, FindCardsByPlayer, OnTable, played, piles
  <2> QED BY <1>3, <1>8, <2>1, <2>2, <2>3, <2>4, TableStepOf, ZenonT(40)
<1> QED BY <1>9, <1>10, <1>11, <1>12, <1>13, ZenonT(40) DEF Play

\* gameRound, war and the end of playCard2.
LEMMA EndRoundTable ==
    ASSUME TableInv, LockInv', NEW t \in Thread, EndRound(t)
    PROVE  TableInv'
<1>1. /\ LockInv /\ TypeInv /\ TurnKept /\ FirstCardLies /\ CapturedOnce /\ CardsOf(t)
      /\ thread \in [Thread -> Handler]
  BY Zenon DEF TableInv, LockInv, TypeInv, ThreadsTypeOK, Handler
<1>2. thread[t] \in PlayHandler /\ thread[t].pc \in PlayPc
  BY <1>1, HandlerKind, ZenonT(40)
     DEF EndRound, GameRound, WarQuery, WarSave, WarRunsOut, WarCompare,
                           Return2, Return1, LastCard, At, PlayPc
<1>3. thread[t].op \in {"play1", "play2"} /\ thread[t].op \notin Deals
      /\ thread[t].warCards \in Seq(Card)
  BY <1>2, ZenonT(40) DEF PlayHandler, Deals
<1>4. CASE LastCard(t)
  <2>1. /\ thread[t].pc \in Quiet /\ thread'[t].pc \in Quiet /\ thread'[t].op \notin Deals
        /\ \A u \in Thread : u # t => thread'[u] = thread[u]
        /\ UNCHANGED <<cardPlayers, isPlayed, allCards, begun, turns, played, piles>>
    <3>1. /\ thread[t].pc = "last" /\ Return(t)
          /\ UNCHANGED <<cardPlayers, isPlayed, allCards, begun, turns, played, piles>>
      BY <1>4, Zenon DEF LastCard, At, tables, requests
    <3> QED BY <1>1, <3>1, ReturnNone, Zenon DEF Quiet, Deals
  <2>2. HalvesInv /\ \A u \in Thread : CardsOf(u)
    BY Zenon DEF TableInv
  <2>3. HalvesInv'
    BY <1>3, <2>1, <2>2, HalvesOfPlay, ZenonT(40)
  <2> QED BY <1>1, <2>1, <2>2, <2>3, TableQuiet, ZenonT(40) DEF TableInv
<1> SUFFICES ASSUME ~LastCard(t) PROVE TableInv'
  BY <1>4, Zenon
<1>5. thread[t].pc \notin Quiet
  BY ZenonT(40)
     DEF EndRound, GameRound, WarQuery, WarSave, WarRunsOut, WarCompare, Return2, Return1,
         At, Quiet, DealPc
<1>6. \A u \in Thread : u # t => thread[u].pc \in Quiet
  BY <1>1, <1>5, ActiveAlone, ZenonT(40)
<1>7. FirstCardFor(t)
  BY <1>1, <1>6, FirstCardOfOne, ZenonT(40)
<1>8. /\ thread[t].pc \in {"round", "draw", "drawn", "runOut", "compare"} => player2Turn
      /\ thread[t].pc = "return1" => ~player2Turn
  <2>1. HoldsTurn(t) => \/ thread[t].op = "play1" /\ ~player2Turn
                        \/ thread[t].op = "play2" /\ player2Turn = (thread[t].pc # "return1")
    BY <1>1, Zenon DEF LockInv, HolderHasFlag
  <2>2. thread[t].op = "play1" =>
           thread[t].pc \notin {"round", "draw", "drawn", "runOut", "compare"}
    BY <1>1, ZenonT(40) DEF LockInv, PlaysInOrder
  <2> QED BY <2>1, <2>2, ZenonT(40) DEF HoldsTurn
<1>9. ASSUME thread[t].pc \in {"round", "draw", "drawn", "runOut", "compare"}
      PROVE  /\ playedCard1 \in FindCardsByPlayer(Player1) /\ OnTable(playedCard1)
             /\ playedCard2 \in FindCardsByPlayer(Player2) /\ OnTable(playedCard2)
             /\ playedCard1 \in Card /\ playedCard1 # NoCard
             /\ <<playedCard1, playedCard2>> \in Seq(Card)
             /\ IsInjective(<<playedCard1, playedCard2>>)
             /\ \A c \in Range(<<playedCard1, playedCard2>>) : OnTable(c)
  <2>1. /\ playedCard1 \in FindCardsByPlayer(Player1) /\ OnTable(playedCard1)
        /\ playedCard2 \in FindCardsByPlayer(Player2) /\ OnTable(playedCard2)
    BY <1>1, <1>7, <1>8, <1>9, ZenonT(40) DEF FirstCardFor, CardsOf
  <2>2. playedCard1 \in Card /\ playedCard2 \in Card /\ playedCard1 # playedCard2
    BY <2>1, CardsThreadsAssumption, Zenon DEF FindCardsByPlayer
  <2>3. /\ <<playedCard1, playedCard2>> \in Seq(Card)
        /\ IsInjective(<<playedCard1, playedCard2>>)
        /\ Range(<<playedCard1, playedCard2>>) = {playedCard1, playedCard2}
    BY <2>2, PairApart, Zenon
  <2> QED BY <2>1, <2>2, <2>3, RepositoriesAssumption, ZenonT(40)
<1>10. ASSUME thread[t].pc \in {"draw", "drawn", "runOut", "compare"}
       PROVE  /\ IsInjective(thread[t].warCards)
              /\ \A c \in Range(thread[t].warCards) : OnTable(c)
  BY <1>1, <1>10, Zenon DEF CardsOf
<1>11. \A pc \in PlayPc : Goto(t, pc) =>
         /\ thread'[t].pc = pc /\ thread'[t].op \notin Deals
         /\ \A u \in Thread : u # t => thread[u].pc \in Quiet /\ thread'[u] = thread[u]
  BY <1>1, <1>2, <1>3, <1>6, GotoPlay, ZenonT(40)
<1>12. UNCHANGED <<isPlayed, piles>> => CapturedOnce'
  BY <1>1, Zenon DEF CapturedOnce, piles
\* The round is over, and its cards are captured or stay aside.
<1>13. ASSUME UNCHANGED <<cardPlayers, isPlayed, allCards, begun>>, Goto(t, "return2"),
              CapturedOnce'
       PROVE  TableInv'
  <2>1. /\ thread'[t].pc = "return2" /\ thread'[t].op \notin Deals
        /\ \A u \in Thread : u # t => thread[u].pc \in Quiet /\ thread'[u] = thread[u]
    BY <1>11, <1>13, ZenonT(40) DEF PlayPc
  <2>2. CardsOf(t)' /\ FirstCardFor(t)'
    BY <2>1, Zenon DEF CardsOf, FirstCardFor
  <2> QED BY <1>3, <1>13, <2>1, <2>2, TableStepOf, ZenonT(40)
\* A war begins, or begins again.
<1>14. ASSUME UNCHANGED <<cardPlayers, isPlayed, allCards, begun, turns, played, piles>>,
              thread[t].pc \in {"round", "compare"},
              thread' = [thread EXCEPT ![t].warCards = <<playedCard1, playedCard2>>,
                                       ![t].pc = "draw"]
       PROVE  TableInv'
  <2>1. /\ thread'[t].pc = "draw" /\ thread'[t].op \notin Deals
        /\ thread'[t].warCards = <<playedCard1, playedCard2>>
        /\ \A u \in Thread : u # t => thread[u].pc \in Quiet /\ thread'[u] = thread[u]
    BY <1>1, <1>2, <1>3, <1>6, <1>14, ZenonT(40) DEF PlayHandler
  <2>2. CardsOf(t)'
    <3>1. playedCard2' \in FindCardsByPlayer(Player2)' /\ OnTable(playedCard2)'
      BY <1>9, <1>14 DEF FindCardsByPlayer, OnTable, played, piles
    <3>2. /\ IsInjective(thread'[t].warCards)
          /\ \A c \in Range(thread'[t].warCards) : OnTable(c)'
      BY <1>9, <1>14, <2>1, Zenon DEF OnTable, piles
    <3> QED BY <2>1, <3>1, <3>2, ZenonT(40) DEF CardsOf
  <2>3. FirstCardFor(t)'
    BY <1>9, <1>14 DEF FirstCardFor, FindCardsByPlayer, OnTable, played, piles
  <2> QED BY <1>3, <1>12, <1>14, <2>1, <2>2, <2>3, TableStepOf, ZenonT(40)
<1>15. CASE GameRound(t)
  <2>1. /\ thread[t].pc = "round" /\ playedCard1 # NoCard
        /\ UNCHANGED <<cardPlayers, isPlayed, allCards, begun, turns, played>>
    BY <1>9, <1>15, Zenon DEF GameRound, At, tables, requests
  <2>2. CASE /\ Goto(t, "return2")
             /\ \/ Capture1(<<playedCard1, playedCard2>>)
                \/ Capture2(<<playedCard1, playedCard2>>)
    <3>1. CapturedOnce'
      BY <1>1, <1>9, <2>1, <2>2, CaptureApart, ZenonT(40)
    <3> QED BY <1>13, <2>1, <2>2, <3>1, ZenonT(40)
  <2>3. CASE /\ thread' = [thread EXCEPT ![t].warCards = <<playedCard1, playedCard2>>,
                                         ![t].pc = "draw"]
             /\ UNCHANGED piles
    BY <1>14, <2>1, <2>3
  <2> QED BY <1>15, <2>1, <2>2, <2>3, SMT, Z3 DEF GameRound
<1>16. CASE WarQuery(t)
  <2>1. /\ thread[t].pc = "draw"
        /\ UNCHANGED <<cardPlayers, isPlayed, allCards, begun, turns, played, piles>>
    BY <1>16, Zenon DEF WarQuery, At, tables, requests
  <2>2. PICK card \in Pick(Drawer(t)) :
          thread' = [thread EXCEPT ![t].card = card, ![t].order = OrderOf(card),
                                   ![t].pc = IF card = NoCard THEN "runOut" ELSE "drawn"]
    BY <1>16, Zenon DEF WarQuery
  <2>3. /\ thread'[t].pc = IF card = NoCard THEN "runOut" ELSE "drawn"
        /\ thread'[t].op \notin Deals
        /\ thread'[t].card = card /\ thread'[t].warCards = thread[t].warCards
        /\ \A u \in Thread : u # t => thread[u].pc \in Quiet /\ thread'[u] = thread[u]
    BY <1>1, <1>2, <1>3, <1>6, <2>2, ZenonT(40) DEF PlayHandler
  <2>4. CardsOf(t)'
    <3>1. thread'[t].pc = "drawn" => InHand(thread[t].card, Drawer(t))'
      <4>1. card # NoCard => card \in Unplayed(Drawer(t))
        BY <2>2, Zenon DEF Pick, NextCards
      <4>2. Unplayed(Drawer(t))' = Unplayed(Drawer(t))
        BY <2>1, <2>3, Zenon DEF Unplayed, FindCardsByPlayer, Drawer
      <4> QED BY <2>3, <4>1, <4>2, ZenonT(40) DEF InHand
    <3>2. playedCard2' \in FindCardsByPlayer(Player2)' /\ OnTable(playedCard2)'
      BY <1>9, <2>1, ZenonT(40) DEF FindCardsByPlayer, OnTable, played, piles
    <3>3. IsInjective(thread'[t].warCards) /\ \A c \in Range(thread'[t].warCards) : OnTable(c)'
      BY <1>10, <2>1, <2>3, ZenonT(40) DEF OnTable, piles
    <3> QED BY <2>3, <3>1, <3>2, <3>3, ZenonT(40) DEF CardsOf
  <2>5. FirstCardFor(t)'
    BY <1>9, <2>1, ZenonT(40) DEF FirstCardFor, FindCardsByPlayer, OnTable, played, piles
  <2> QED BY <1>3, <1>12, <2>1, <2>3, <2>4, <2>5, TableStepOf, Zenon
<1>17. CASE WarSave(t)
  <2>1. thread[t].pc = "drawn" /\ UNCHANGED <<allCards, begun, turns, played, piles>>
    BY <1>17 DEF WarSave, At, requests
  <2>2a. PICK card, order : card = thread[t].card /\ order = thread[t].order
    BY Zenon
  <2>2b. PICK player \in {Player1, Player2} : player = Drawer(t)
    BY Zenon DEF Drawer
  <2>2. player = Drawer(t) /\ card = thread[t].card /\ order = thread[t].order
    BY <2>2a, <2>2b, Zenon
  <2>3. InHand(card, player) /\ Save(card, player, order, TRUE)
    BY <1>1, <1>17, <2>1, <2>2, ZenonT(40) DEF CardsOf, WarSave
  <2>4. /\ card \in Card /\ cardPlayers' = cardPlayers
        /\ ~isPlayed[card] /\ isPlayed'[card]
        /\ \A c \in Card : isPlayed[c] => isPlayed'[c]
        /\ \A c \in Card : cardPlayers[c] = NoPlayer => isPlayed'[c] = isPlayed[c]
    <3>1. card \in FindCardsByPlayer(player) /\ ~isPlayed[card]
      BY <2>3, Zenon DEF InHand, Unplayed
    <3> QED BY <1>1, <2>3, <3>1, SaveOwned, ZenonT(40)
  <2>5. /\ Range(player1CapturedCards) \subseteq Card
        /\ Range(player2CapturedCards) \subseteq Card
        /\ Range(thread[t].warCards) \subseteq Card
    <3>1. player1CapturedCards \in Seq(Card) /\ player2CapturedCards \in Seq(Card)
      BY <1>1, Zenon DEF TypeInv, ThreadsTypeOK
    <3> QED BY <1>3, <3>1, RangeOfSeq, ZenonT(40)
  <2>6. CapturedOnce' /\ card \notin Range(player1CapturedCards) \cup Range(player2CapturedCards)
    BY <1>1, <2>1, <2>4, <2>5, ZenonT(40) DEF CapturedOnce, piles
  <2>7. /\ thread'[t].pc \in {"draw", "compare"} /\ thread'[t].op \notin Deals
        /\ thread'[t].warCards = Append(thread[t].warCards, card)
        /\ \A u \in Thread : u # t => thread[u].pc \in Quiet /\ thread'[u] = thread[u]
    BY <1>1, <1>2, <1>3, <1>6, <1>17, <2>2, ZenonT(40) DEF WarSave, PlayHandler
  <2>8. CardsOf(t)'
    <3>1. card \notin Range(thread[t].warCards)
      BY <1>10, <2>1, <2>4, ZenonT(40) DEF OnTable
    <3>2. /\ IsInjective(Append(thread[t].warCards, card))
          /\ Range(Append(thread[t].warCards, card)) = Range(thread[t].warCards) \cup {card}
      <4>1. thread[t].warCards \in Seq(Card) /\ IsInjective(thread[t].warCards) /\ card \in Card
        BY <1>3, <1>10, <2>1, <2>4, Zenon
      <4> QED BY <3>1, <4>1, AppendApart, ZenonT(40)
    <3>3. \A c \in Range(thread[t].warCards) \cup {card} : OnTable(c)'
      BY <1>10, <2>1, <2>4, <2>5, <2>6, Zenon DEF OnTable, piles
    <3>4. playedCard2' \in FindCardsByPlayer(Player2)' /\ OnTable(playedCard2)'
      BY <1>9, <2>1, <2>4, ZenonT(40) DEF FindCardsByPlayer, OnTable, played, piles
    <3> QED BY <2>7, <3>2, <3>3, <3>4, ZenonT(40) DEF CardsOf
  <2>9. FirstCardFor(t)'
    BY <1>9, <2>1, <2>4, ZenonT(40) DEF FirstCardFor, FindCardsByPlayer, OnTable, played, piles
  <2>10. UNCHANGED <<cardPlayers, allCards, begun>> /\ thread'[t].pc # "turn"
    BY <2>1, <2>4, <2>7, ZenonT(40)
  <2> QED BY <1>3, <2>4, <2>6, <2>7, <2>8, <2>9, <2>10, TableStepOf, ZenonT(40)
<1>18. CASE WarRunsOut(t)
  <2>1. /\ thread[t].pc = "runOut" /\ Goto(t, "return2")
        /\ UNCHANGED <<cardPlayers, isPlayed, allCards, begun>>
    BY <1>18, ZenonT(40) DEF WarRunsOut, At, tables, requests
  <2>2. CapturedOnce'
    <3>1. CASE UNCHANGED piles
      BY <1>12, <2>1, <3>1, ZenonT(40)
    <3>2. CASE Capture1(thread[t].warCards) \/ Capture2(thread[t].warCards)
      BY <1>1, <1>3, <1>10, <2>1, <3>2, CaptureApart, ZenonT(40)
    <3> QED BY <1>18, <3>1, <3>2, ZenonT(40) DEF WarRunsOut
  <2> QED BY <1>13, <2>1, <2>2, ZenonT(40)
<1>19. CASE WarCompare(t)
  <2>1. /\ thread[t].pc = "compare"
        /\ UNCHANGED <<cardPlayers, isPlayed, allCards, begun, turns, played>>
    BY <1>19, Zenon DEF WarCompare, At, tables, requests
  <2>2. CASE /\ Goto(t, "return2")
             /\ Capture1(thread[t].warCards) \/ Capture2(thread[t].warCards)
    <3>1. CapturedOnce'
      BY <1>1, <1>3, <1>10, <2>1, <2>2, CaptureApart, ZenonT(40)
    <3> QED BY <1>13, <2>1, <2>2, <3>1, ZenonT(40)
  <2>3. CASE /\ thread' = [thread EXCEPT ![t].warCards = played, ![t].pc = "draw"]
             /\ UNCHANGED piles
    BY <1>14, <2>1, <2>3, ZenonT(40) DEF played
  <2> QED BY <1>19, <2>2, <2>3, ZenonT(40) DEF WarCompare
<1>20. CASE Return2(t)
  <2>1. /\ ~player2Turn' /\ UNCHANGED <<cardPlayers, isPlayed, allCards, begun, piles>>
    BY <1>20, Zenon DEF Return2, tables, requests
  <2>2. /\ thread'[t].pc = "return1" /\ thread'[t].op \notin Deals
        /\ \A u \in Thread : u # t => thread[u].pc \in Quiet /\ thread'[u] = thread[u]
    BY <1>11, <1>20, ZenonT(40) DEF Return2, PlayPc
  <2>3. CardsOf(t)' /\ FirstCardFor(t)'
    BY <2>1, <2>2, ZenonT(40) DEF CardsOf, FirstCardFor
  <2> QED BY <1>3, <1>12, <2>1, <2>2, <2>3, TableStepOf, ZenonT(40)
<1>21. CASE Return1(t)
  <2>1. /\ ~player2Turn' /\ UNCHANGED <<cardPlayers, isPlayed, allCards, begun, piles>>
    BY <1>8, <1>21, ZenonT(40) DEF Return1, At, tables, requests
  <2>2. /\ thread'[t].pc \in {"last", "idle"} /\ thread'[t].op \notin Deals
        /\ \A u \in Thread : u # t => thread[u].pc \in Quiet /\ thread'[u] = thread[u]
    <3>1. CASE Goto(t, "last")
      BY <1>11, <3>1, ZenonT(40) DEF PlayPc
    <3>2. CASE Return(t)
      BY <1>1, <1>6, <3>2, ReturnIdle, SMT, Z3 DEF NoHandler, Deals
    <3> QED BY <1>21, <3>1, <3>2, ZenonT(40) DEF Return1
  <2>3. CardsOf(t)' /\ FirstCardFor(t)'
    BY <2>1, <2>2, ZenonT(40) DEF CardsOf, FirstCardFor
  <2> QED BY <1>3, <1>12, <2>1, <2>2, <2>3, TableStepOf, ZenonT(40)
<1> QED BY <1>15, <1>16, <1>17, <1>18, <1>19, <1>20, <1>21, ZenonT(40) DEF EndRound

\* An empty table.
LEMMA TableInit == Init => TableInv
<1> SUFFICES ASSUME Init PROVE TableInv
  OBVIOUS
<1>1. /\ \A t \in Thread : thread[t].pc = "idle"
      /\ player2Turn = FALSE /\ player1CapturedCards = <<>> /\ player2CapturedCards = <<>>
  BY ZenonT(40) DEF Init, NoHandler
<1>2. TurnKept /\ \A t \in Thread : CardsOf(t)
  BY <1>1, ZenonT(40) DEF TurnKept, CardsOf, At
<1>3. FirstCardLies
  BY <1>1, ZenonT(40) DEF FirstCardLies, Dealer, Running
<1>4. CapturedOnce
  BY <1>1, SMTT(40), Z3T(40) DEF CapturedOnce, IsInjective, Range
<1> QED BY <1>2, <1>3, <1>4, LockInit, HalvesInit, ZenonT(40) DEF TableInv

\* Any step, when everything went in order.
LEMMA TableStep ==
    ASSUME orderly'
    PROVE  TableInv /\ [Next]_vars => TableInv'
<1> SUFFICES ASSUME TableInv, [Next]_vars PROVE TableInv'
  OBVIOUS
<1>1. LockInv'
  BY LockStep, Zenon DEF TableInv
<1>2. CASE UNCHANGED vars
  <2>1. HalvesInv'
    BY <1>2, HalvesStutter, Zenon DEF TableInv
  <2>2. TurnKept' /\ FirstCardLies' /\ CapturedOnce'
    BY <1>2, Zenon
       DEF TableInv, TurnKept, FirstCardLies, CapturedOnce, At, MyTurn, Dealer, Running,
                FindCardsByPlayer, OnTable, vars, tables, turns, played, piles
  <2>3. \A t \in Thread : CardsOf(t)'
    BY <1>2, ZenonT(40)
       DEF TableInv, CardsOf, InHand, OnTable, Unplayed, FindCardsByPlayer, Drawer,
                vars, tables, played, piles
  <2> QED BY <1>1, <2>1, <2>2, <2>3, ZenonT(40) DEF TableInv
<1>3. ASSUME NEW t \in Thread, Receive(t) \/ Run(t) PROVE TableInv'
  BY <1>1, <1>3, DealTable, ReceivePlayTable, PlayTable, EndRoundTable, ZenonT(40)
     DEF Receive, Run, Deals
<1> QED BY <1>2, <1>3, Zenon DEF Next

\* What went out of order stays so.
LEMMA OrderlyBefore == [Next]_vars /\ orderly' => orderly
<1> SUFFICES ASSUME [Next]_vars, orderly' PROVE orderly
  BY Zenon
<1>1. CASE UNCHANGED vars
  BY <1>1, Zenon DEF vars, requests
<1>2. ASSUME NEW t \in Thread, Receive(t) PROVE orderly
  BY <1>2, Zenon DEF Receive, ReceiveDeal, ReceivePlay
<1>3. ASSUME NEW t \in Thread, Run(t) PROVE orderly
  <2>1. CASE Deal(t)
    BY <2>1, Zenon DEF Deal, FindAll, SubListReceiver, SubListFrom, SubListTo, DealSave,
                       DealAnswer, requests
  <2>2. CASE Play(t)
    BY <2>2, Zenon DEF Play, CheckTurn, Reveal, PutOnTable, Pass1, Pass2, requests
  <2>3. CASE EndRound(t)
    BY <2>3, Zenon DEF EndRound, GameRound, WarQuery, WarSave, WarRunsOut, WarCompare,
                       Return2, Return1, LastCard, requests
  <2> QED BY <1>3, <2>1, <2>2, <2>3, Zenon DEF Run
<1> QED BY <1>1, <1>2, <1>3, Zenon DEF Next

\* A card is captured at most once, and only after it left its hand, however the
\* handlers of CardsService interleave, for any number of threads, any deck and
\* any number of war draws, until a deal is repeated, overlaps another or finds
\* the rows in another order, or a player clicks before the turn or the answer.
THEOREM ThreadsCapturedOnceInOrder == Spec => []CapturedOnceInOrder
<1> DEFINE Inv == orderly => TableInv
<1>1. Init => Inv
  BY TableInit, Zenon
<1>2. Inv /\ [Next]_vars => Inv'
  BY TableStep, OrderlyBefore, Zenon
<1>3. Inv => CapturedOnceInOrder
  BY Zenon DEF CapturedOnceInOrder, TableInv
<1> QED BY <1>1, <1>2, <1>3, PTL DEF Spec
=============================================================================

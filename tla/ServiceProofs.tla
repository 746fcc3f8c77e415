---------------------------- MODULE ServiceProofs ----------------------------
(***************************************************************************)
(* Every handler of CardsService preserves ServiceInv, and creating,       *)
(* joining and leaving keep GamesInv, whoever asks for them and however    *)
(* many games share the deck and the one CardsService.                     *)
(***************************************************************************)
EXTENDS GameService, SequenceTheorems, TLAPS

-----------------------------------------------------------------------------
(* Lists of cards without repetition, as the piles and a war's cards are.  *)

\* Two lists without repetition and without a common card make one.
LEMMA ConcatApart ==
    ASSUME NEW S, NEW a \in Seq(S), NEW b \in Seq(S),
           IsInjective(a), IsInjective(b), Range(a) \cap Range(b) = {}
    PROVE  /\ a \o b \in Seq(S)
           /\ IsInjective(a \o b)
           /\ Range(a \o b) = Range(a) \cup Range(b)
<1> DEFINE c == a \o b
<1>1. /\ c \in Seq(S) /\ Len(c) = Len(a) + Len(b)
      /\ \A i \in 1..Len(c) : c[i] = IF i <= Len(a) THEN a[i] ELSE b[i - Len(a)]
  BY ConcatProperties
<1>2. /\ DOMAIN a = 1..Len(a) /\ DOMAIN b = 1..Len(b) /\ DOMAIN c = 1..Len(c)
      /\ Len(a) \in Nat /\ Len(b) \in Nat
  BY <1>1, LenProperties
<1>3. ASSUME NEW i \in 1..Len(c), NEW j \in 1..Len(c), c[i] = c[j]
      PROVE  i = j
  <2>1. CASE i <= Len(a) /\ j <= Len(a)
    BY <1>1, <1>2, <1>3, <2>1 DEF IsInjective
  <2>2. CASE i > Len(a) /\ j > Len(a)
    <3>1. i - Len(a) \in DOMAIN b /\ j - Len(a) \in DOMAIN b
      BY <1>1, <1>2, <2>2
    <3>2. b[i - Len(a)] = b[j - Len(a)]
      BY <1>1, <1>2, <1>3, <2>2
    <3>3. i - Len(a) = j - Len(a)
      BY <3>1, <3>2 DEF IsInjective
    <3> QED BY <3>3, <1>2
  <2>3. ASSUME NEW k \in 1..Len(c), NEW l \in 1..Len(c),
               k <= Len(a), l > Len(a), c[k] = c[l]
        PROVE  FALSE
    <3>1. k \in DOMAIN a /\ l - Len(a) \in DOMAIN b
      BY <1>1, <1>2, <2>3
    <3>2. a[k] = b[l - Len(a)]
      BY <1>1, <1>2, <2>3
    <3> QED BY <3>1, <3>2 DEF Range
  <2> QED BY <2>1, <2>2, <2>3, <1>2, <1>3
<1>4. Range(c) = Range(a) \cup Range(b)
  <2>1. ASSUME NEW x \in Range(a) PROVE x \in Range(c)
    BY <1>1, <1>2 DEF Range
  <2>2. ASSUME NEW x \in Range(b) PROVE x \in Range(c)
    <3>1. PICK j \in 1..Len(b) : x = b[j]
      BY <1>2 DEF Range
    <3>2. j + Len(a) \in 1..Len(c) /\ c[j + Len(a)] = x
      BY <1>1, <1>2, <3>1
    <3> QED BY <3>2, <1>2 DEF Range
  <2>3. ASSUME NEW x \in Range(c) PROVE x \in Range(a) \cup Range(b)
    <3>1. PICK i \in 1..Len(c) : x = c[i]
      BY <1>2 DEF Range
    <3>2. CASE i <= Len(a)
      BY <1>1, <1>2, <3>1, <3>2 DEF Range
    <3>3. CASE i > Len(a)
      <4>1. i - Len(a) \in DOMAIN b /\ x = b[i - Len(a)]
        BY <1>1, <1>2, <3>1, <3>3
      <4> QED BY <4>1 DEF Range
    <3> QED BY <3>2, <3>3, <1>2
  <2> QED BY <2>1, <2>2, <2>3
<1>5. IsInjective(c)
  BY <1>2, <1>3 DEF IsInjective
<1> QED BY <1>1, <1>4, <1>5

\* A list of two different cards.
LEMMA PairApart ==
    ASSUME NEW S, NEW x \in S, NEW y \in S, x # y
    PROVE  /\ <<x, y>> \in Seq(S)
           /\ IsInjective(<<x, y>>)
           /\ Range(<<x, y>>) = {x, y}
           /\ <<x, y>> # <<>>
BY DEF IsInjective, Range

\* Adding a card that is not in the list.
LEMMA AppendApart ==
    ASSUME NEW S, NEW a \in Seq(S), NEW x \in S,
           IsInjective(a), x \notin Range(a)
    PROVE  /\ Append(a, x) \in Seq(S)
           /\ IsInjective(Append(a, x))
           /\ Range(Append(a, x)) = Range(a) \cup {x}
           /\ Append(a, x) # <<>>
<1> DEFINE b == <<x>>
<1>1. b \in Seq(S) /\ IsInjective(b) /\ Range(b) = {x}
  BY DEF IsInjective, Range
<1>2. Append(a, x) = a \o b
  BY AppendIsConcat
<1>3. Append(a, x) # <<>>
  BY AppendProperties
<1> HIDE DEF b
<1>4. Range(a) \cap Range(b) = {}
  BY <1>1
<1>5. a \o b \in Seq(S) /\ IsInjective(a \o b) /\ Range(a \o b) = Range(a) \cup Range(b)
  BY <1>1, <1>4, ConcatApart
<1> QED BY <1>1, <1>2, <1>3, <1>5

-----------------------------------------------------------------------------
(* The handlers.                                                           *)

\* findPlayerBySessionId answers a player or null.
LEMMA FindPlayerType ==
    ASSUME TypeOK, NEW s
    PROVE  FindPlayerBySessionId(s) \in PlayerId \cup {NoPlayer}
BY DEF TypeOK, TablesTypeOK, FindPlayerBySessionId, PlayersBySession

\* The name declareWinner returns, when its rows are found.
LEMMA DeclareWinnerType ==
    ASSUME TypeOK, NEW request \in Calls, Found(request),
           NEW captured1, NEW captured2
    PROVE  DeclareWinner(captured1, captured2, request) \in Name \cup {Tie}
<1>1. /\ playerEntity[request.player1Id].username \in Name
      /\ playerEntity[request.player2Id].username \in Name
  BY DEF TypeOK, TablesTypeOK, PlayersEntity, Found
<1> QED BY <1>1 DEF DeclareWinner

\* dealCards1 and dealCards2 touch no played flag, no turn and no pile.
LEMMA DealHalfInv ==
    ASSUME ServiceInv, NEW half, NEW player \in PlayerId \cup {NoPlayer},
           DealHalf(half, player)
    PROVE  ServiceInv'
<1>1. UNCHANGED <<playerEntity, gameEntity, isPlayed, service>>
  BY DEF DealHalf
<1>2. cardPlayers' \in [Card -> PlayerId \cup {NoPlayer}]
  BY DEF DealHalf, ServiceInv, TypeOK, TablesTypeOK
<1>3. dealOrder' \in [Card -> Int]
  <2>1. PICK shuffle \in Shuffles :
          LET At(c) == {i \in 1..HalfDeck : half[shuffle[i]] = c}
          IN dealOrder' = [c \in Card |-> IF At(c) # {}
                                          THEN (CHOOSE i \in At(c) : TRUE) - 1
                                          ELSE dealOrder[c]]
    BY DEF DealHalf
  <2> DEFINE At(c) == {i \in 1..HalfDeck : half[shuffle[i]] = c}
  <2>2. \A c : At(c) # {} => (CHOOSE i \in At(c) : TRUE) \in Int
    BY CardsServiceAssumption
  <2>3. \A c \in Card : dealOrder[c] \in Int
    BY DEF ServiceInv, TypeOK, TablesTypeOK
  <2>4. dealOrder' = [c \in Card |-> IF At(c) # {}
                                     THEN (CHOOSE i \in At(c) : TRUE) - 1
                                     ELSE dealOrder[c]]
    BY <2>1
  <2> HIDE DEF At
  <2> QED BY <2>2, <2>3, <2>4
<1>4. TypeOK'
  BY <1>1, <1>2, <1>3 DEF ServiceInv, TypeOK, TablesTypeOK, service, turns, piles
<1>5. (CapturedOnce /\ RevealedCardWaits /\ WarCardsApart)'
  BY <1>1 DEF ServiceInv, CapturedOnce, RevealedCardWaits, WarCardsApart, Idle,
              service, turns, piles
<1> QED BY <1>4, <1>5 DEF ServiceInv

\* Both deals, for every order of findAll and every shuffle.
LEMMA DealCardsInv ==
    ASSUME ServiceInv, NEW s, DealCards1(s) \/ DealCards2(s)
    PROVE  ServiceInv'
<1>1. FindPlayerBySessionId(s) \in PlayerId \cup {NoPlayer}
  BY FindPlayerType DEF ServiceInv
<1>2. PICK order \in Orders :
        \/ DealHalf(FirstHalf(order), FindPlayerBySessionId(s))
        \/ DealHalf(SecondHalf(order), FindPlayerBySessionId(s))
  BY DEF DealCards1, DealCards2
<1> QED BY <1>1, <1>2, DealHalfInv

\* playCard1: the revealed card was unplayed, so it is in no pile.
LEMMA PlayCard1Inv ==
    ASSUME ServiceInv, NEW player1Id, PlayCard1(player1Id)
    PROVE  ServiceInv'
<1>1. PICK card \in NextCards(player1Id) :
        /\ isPlayed' = [isPlayed EXCEPT ![card] = TRUE]
        /\ playedCard1' = card
  BY Zenon DEF PlayCard1
<1>2. card \in Card /\ ~isPlayed[card]
  BY DEF NextCards, Unplayed, FindCardsByPlayer
<1>3. /\ UNCHANGED <<playerEntity, gameEntity, cardPlayers, dealOrder, playedCard2,
                    player1CapturedCards, player2CapturedCards, warCards, call,
                    winnerTopic>>
      /\ player1Turn' = FALSE /\ player2Turn' = TRUE /\ warCards = <<>>
  BY DEF PlayCard1, piles, Idle
<1>4. isPlayed' \in [Card -> BOOLEAN]
  BY <1>1, <1>2 DEF ServiceInv, TypeOK, TablesTypeOK
<1>5. TypeOK'
  BY <1>1, <1>2, <1>3, <1>4, Zenon DEF ServiceInv, TypeOK, TablesTypeOK
<1>6. \A c \in Card : isPlayed[c] => isPlayed'[c]
  BY <1>1 DEF ServiceInv, TypeOK, TablesTypeOK
<1>7. Range(player1CapturedCards) \subseteq Card /\ Range(player2CapturedCards) \subseteq Card
  BY RangeOfSeq DEF ServiceInv, TypeOK
<1>8. CapturedOnce'
  BY <1>3, <1>6, <1>7 DEF ServiceInv, CapturedOnce
<1>9. RevealedCardWaits'
  <2>1. isPlayed'[card]
    BY <1>1, <1>2 DEF ServiceInv, TypeOK, TablesTypeOK
  <2>2. card \notin Range(player1CapturedCards) /\ card \notin Range(player2CapturedCards)
    BY <1>2 DEF ServiceInv, CapturedOnce
  <2> QED BY <1>1, <1>2, <1>3, <2>1, <2>2 DEF RevealedCardWaits
<1>10. WarCardsApart'
  BY <1>3 DEF WarCardsApart, Idle
<1> QED BY <1>5, <1>8, <1>9, <1>10 DEF ServiceInv

\* The end of playCard2, whatever it adds to the piles, as long as the new
\* piles repeat no card and hold played cards only.
LEMMA EndOfRoundInv ==
    ASSUME ServiceInv, NEW request \in Calls,
           NEW captured1 \in Seq(Card), NEW captured2 \in Seq(Card),
           NEW sent \in Seq(Name \cup {Tie}),
           EndOfRound(captured1, captured2, sent, request),
           TablesTypeOK',
           playedCard1' \in Card \cup {NoCard}, playedCard2' \in Card \cup {NoCard},
           IsInjective(captured1), IsInjective(captured2),
           Range(captured1) \cap Range(captured2) = {},
           \A c \in Range(captured1) \cup Range(captured2) : isPlayed'[c]
    PROVE  ServiceInv'
<1>1. winnerTopic' \in Seq(Name \cup {Tie})
  <2>1. CASE request.lastCard /\ Found(request)
    <3>1. DeclareWinner(captured1, captured2, request) \in Name \cup {Tie}
      BY <2>1, DeclareWinnerType DEF ServiceInv
    <3> QED BY <2>1, <3>1, AppendProperties DEF EndOfRound
  <2>2. CASE ~(request.lastCard /\ Found(request))
    BY <2>2 DEF EndOfRound
  <2> QED BY <2>1, <2>2
<1>2. TypeOK'
  BY <1>1, EmptySeq, Zenon DEF EndOfRound, TypeOK
<1>3. (CapturedOnce /\ RevealedCardWaits /\ WarCardsApart)'
  BY DEF EndOfRound, CapturedOnce, RevealedCardWaits, WarCardsApart, Idle
<1> QED BY <1>2, <1>3 DEF ServiceInv

\* A step that adds a list of cards to one pile and ends the round.
LEMMA CaptureInv ==
    ASSUME ServiceInv, NEW request \in Calls,
           NEW won \in Seq(Card), NEW sent \in Seq(Name \cup {Tie}),
           \/ EndOfRound(player1CapturedCards \o won, player2CapturedCards, sent, request)
           \/ EndOfRound(player1CapturedCards, player2CapturedCards \o won, sent, request)
           \/ EndOfRound(player1CapturedCards, player2CapturedCards, sent, request),
           TablesTypeOK',
           playedCard1' \in Card \cup {NoCard}, playedCard2' \in Card \cup {NoCard},
           IsInjective(won),
           \A c \in Card : isPlayed[c] => isPlayed'[c],
           \A c \in Range(won) : /\ isPlayed'[c]
                                 /\ c \notin Range(player1CapturedCards)
                                 /\ c \notin Range(player2CapturedCards)
    PROVE  ServiceInv'
<1> DEFINE c1 == player1CapturedCards
           c2 == player2CapturedCards
<1>1. /\ c1 \in Seq(Card) /\ c2 \in Seq(Card)
      /\ IsInjective(c1) /\ IsInjective(c2) /\ Range(c1) \cap Range(c2) = {}
      /\ \A c \in Range(c1) \cup Range(c2) : isPlayed[c]
  BY DEF ServiceInv, TypeOK, CapturedOnce
<1>2. Range(c1) \subseteq Card /\ Range(c2) \subseteq Card
  BY <1>1, RangeOfSeq
<1>3. \A c \in Range(c1) \cup Range(c2) : isPlayed'[c]
  BY <1>1, <1>2
<1>4. /\ c1 \o won \in Seq(Card) /\ IsInjective(c1 \o won)
      /\ Range(c1 \o won) = Range(c1) \cup Range(won)
  <2>1. Range(c1) \cap Range(won) = {}
    OBVIOUS
  <2> QED BY <1>1, <2>1, ConcatApart
<1>5. /\ c2 \o won \in Seq(Card) /\ IsInjective(c2 \o won)
      /\ Range(c2 \o won) = Range(c2) \cup Range(won)
  <2>1. Range(c2) \cap Range(won) = {}
    OBVIOUS
  <2> QED BY <1>1, <2>1, ConcatApart
<1>6. CASE EndOfRound(c1 \o won, c2, sent, request)
  <2>1. /\ Range(c1 \o won) \cap Range(c2) = {}
        /\ \A c \in Range(c1 \o won) \cup Range(c2) : isPlayed'[c]
    BY <1>1, <1>3, <1>4
  <2> HIDE DEF c1, c2
  <2> QED BY <1>1, <1>4, <1>6, <2>1, EndOfRoundInv, Zenon
<1>7. CASE EndOfRound(c1, c2 \o won, sent, request)
  <2>1. /\ Range(c1) \cap Range(c2 \o won) = {}
        /\ \A c \in Range(c1) \cup Range(c2 \o won) : isPlayed'[c]
    BY <1>1, <1>3, <1>5
  <2> HIDE DEF c1, c2
  <2> QED BY <1>1, <1>5, <1>7, <2>1, EndOfRoundInv, Zenon
<1>8. CASE EndOfRound(c1, c2, sent, request)
  <2> HIDE DEF c1, c2
  <2> QED BY <1>1, <1>3, <1>8, EndOfRoundInv
<1> QED BY <1>6, <1>7, <1>8

\* playCard2 and gameRound: the two cards compared are different, played and
\* in no pile, whether one player takes them or a war starts with them.
LEMMA PlayCard2Inv ==
    ASSUME ServiceInv, NEW player1Id \in PlayerId, NEW player2Id \in PlayerId,
           NEW gameId \in GameId, PlayCard2(player1Id, player2Id, gameId)
    PROVE  ServiceInv'
<1>1. PICK card \in NextCards(player2Id) :
        /\ isPlayed' = [isPlayed EXCEPT ![card] = TRUE]
        /\ playedCard2' = card
        /\ GameRound(card, [player1Id |-> player1Id, player2Id |-> player2Id,
                            gameId |-> gameId,
                            lastCard |-> Unplayed(player2Id) = {card}])
  BY Zenon DEF PlayCard2
<1> DEFINE request == [player1Id |-> player1Id, player2Id |-> player2Id,
                       gameId |-> gameId, lastCard |-> Unplayed(player2Id) = {card}]
           pair == <<playedCard1, card>>
<1>2. request \in Calls
  BY DEF Calls
<1>3. card \in Card /\ ~isPlayed[card]
  BY DEF NextCards, Unplayed, FindCardsByPlayer
<1>4. /\ player2Turn /\ warCards = <<>>
      /\ UNCHANGED <<playerEntity, gameEntity, cardPlayers, dealOrder, playedCard1>>
  BY DEF PlayCard2, Idle
<1>5. /\ playedCard1 \in Card /\ isPlayed[playedCard1]
      /\ playedCard1 \notin Range(player1CapturedCards)
      /\ playedCard1 \notin Range(player2CapturedCards)
  BY <1>4 DEF ServiceInv, RevealedCardWaits
<1>6. /\ isPlayed' \in [Card -> BOOLEAN]
      /\ isPlayed'[card] /\ isPlayed'[playedCard1]
      /\ \A c \in Card : isPlayed[c] => isPlayed'[c]
  BY <1>1, <1>3, <1>5 DEF ServiceInv, TypeOK, TablesTypeOK
<1>7. TablesTypeOK'
  BY <1>4, <1>6 DEF ServiceInv, TypeOK, TablesTypeOK
<1>8. /\ card \notin Range(player1CapturedCards) /\ card \notin Range(player2CapturedCards)
      /\ card # playedCard1
  BY <1>3, <1>5 DEF ServiceInv, CapturedOnce
<1>9. /\ pair \in Seq(Card) /\ IsInjective(pair) /\ Range(pair) = {playedCard1, card}
      /\ pair # <<>>
  BY <1>3, <1>5, <1>8, PairApart
<1>10. /\ winnerTopic \in Seq(Name \cup {Tie})
       /\ playedCard1' \in Card \cup {NoCard} /\ playedCard2' \in Card \cup {NoCard}
  BY <1>1, <1>3, <1>4 DEF ServiceInv, TypeOK
<1>11. GameRound(card, request)
  BY <1>1
<1> HIDE DEF request, pair
<1>12. CASE \/ EndOfRound(player1CapturedCards \o pair, player2CapturedCards,
                          winnerTopic, request)
            \/ EndOfRound(player1CapturedCards, player2CapturedCards \o pair,
                          winnerTopic, request)
  BY <1>2, <1>5, <1>6, <1>7, <1>8, <1>9, <1>10, <1>12, CaptureInv, Zenon
<1>13. CASE /\ warCards' = pair /\ call' = request
            /\ UNCHANGED <<turns, piles, winnerTopic>>
  <2>1. TypeOK'
    BY <1>2, <1>7, <1>9, <1>10, <1>13 DEF ServiceInv, TypeOK, turns, piles
  <2>2. Range(player1CapturedCards) \subseteq Card /\ Range(player2CapturedCards) \subseteq Card
    BY RangeOfSeq DEF ServiceInv, TypeOK
  <2>3. CapturedOnce'
    BY <1>6, <1>13, <2>2 DEF ServiceInv, CapturedOnce, piles
  <2>4. RevealedCardWaits'
    BY <1>4, <1>5, <1>6, <1>13 DEF RevealedCardWaits, piles
  <2>5. WarCardsApart'
    <3>1. player2Turn' /\ call' \in Calls
      BY <1>2, <1>4, <1>13 DEF turns
    <3>2. playedCard2' \in Card /\ playedCard2' # playedCard1'
      BY <1>1, <1>3, <1>4, <1>8
    <3>3. IsInjective(warCards')
      BY <1>9, <1>13
    <3>4. \A c \in Range(warCards') \cup {playedCard2'} :
             /\ isPlayed'[c]
             /\ c \notin Range(player1CapturedCards')
             /\ c \notin Range(player2CapturedCards')
      BY <1>1, <1>5, <1>6, <1>8, <1>9, <1>13 DEF piles
    <3> QED BY <3>1, <3>2, <3>3, <3>4 DEF WarCardsApart
  <2> QED BY <2>1, <2>3, <2>4, <2>5 DEF ServiceInv
<1> QED BY <1>11, <1>12, <1>13 DEF GameRound, pair

\* drawNextCard inside war(): the drawn card was unplayed, so it is new to
\* the list and to the piles.
LEMMA WarDrawInv ==
    ASSUME ServiceInv, WarDraw
    PROVE  ServiceInv'
<1>1. PICK card \in NextCards(Drawer) :
        /\ isPlayed' = [isPlayed EXCEPT ![card] = TRUE]
        /\ warCards' = Append(warCards, card)
  BY Zenon DEF WarDraw
<1>2. card \in Card /\ ~isPlayed[card]
  BY DEF NextCards, Unplayed, FindCardsByPlayer
<1>3. /\ ~Idle
      /\ UNCHANGED <<playerEntity, gameEntity, cardPlayers, dealOrder, turns,
                     playedCard1, playedCard2, piles, call, winnerTopic>>
  BY DEF WarDraw
<1>4. /\ isPlayed' \in [Card -> BOOLEAN] /\ isPlayed'[card]
      /\ \A c \in Card : isPlayed[c] => isPlayed'[c]
  BY <1>1, <1>2 DEF ServiceInv, TypeOK, TablesTypeOK
<1>5. /\ IsInjective(warCards) /\ player2Turn /\ call \in Calls
      /\ playedCard2 \in Card /\ playedCard2 # playedCard1
      /\ \A c \in Range(warCards) \cup {playedCard2} :
           /\ isPlayed[c]
           /\ c \notin Range(player1CapturedCards)
           /\ c \notin Range(player2CapturedCards)
  BY <1>3 DEF ServiceInv, WarCardsApart
<1>6. warCards \in Seq(Card) /\ Range(warCards) \subseteq Card
  BY RangeOfSeq DEF ServiceInv, TypeOK
<1>7. card \notin Range(warCards)
  BY <1>2, <1>5
<1>8. /\ warCards' \in Seq(Card) /\ IsInjective(warCards')
      /\ Range(warCards') = Range(warCards) \cup {card}
  BY <1>1, <1>2, <1>5, <1>6, <1>7, AppendApart
<1>9. TypeOK'
  BY <1>3, <1>4, <1>8 DEF ServiceInv, TypeOK, TablesTypeOK, turns, piles
<1>10. Range(player1CapturedCards) \subseteq Card /\ Range(player2CapturedCards) \subseteq Card
  BY RangeOfSeq DEF ServiceInv, TypeOK
<1>11. CapturedOnce'
  BY <1>3, <1>4, <1>10 DEF ServiceInv, CapturedOnce, piles
<1>12. RevealedCardWaits'
  BY <1>3, <1>4 DEF ServiceInv, RevealedCardWaits, turns, piles
<1>13. card \notin Range(player1CapturedCards) /\ card \notin Range(player2CapturedCards)
  BY <1>2 DEF ServiceInv, CapturedOnce
<1>14. WarCardsApart'
  <2>1. \A c \in Range(warCards') \cup {playedCard2'} :
           /\ isPlayed'[c]
           /\ c \notin Range(player1CapturedCards')
           /\ c \notin Range(player2CapturedCards')
    BY <1>3, <1>4, <1>5, <1>6, <1>8, <1>13 DEF piles
  <2> QED BY <1>3, <1>5, <1>8, <2>1 DEF WarCardsApart, turns
<1> QED BY <1>9, <1>11, <1>12, <1>14 DEF ServiceInv

\* A war that runs out of cards: the list goes to one pile, or to none.
LEMMA WarOutOfCardsInv ==
    ASSUME ServiceInv, WarOutOfCards
    PROVE  ServiceInv'
<1> DEFINE winner == DeclareWinner(player1CapturedCards, player2CapturedCards, call)
           sent == Append(winnerTopic, winner)
<1>1. ~Idle /\ Found(call) /\ UNCHANGED <<tables, playedCard1, playedCard2>>
  BY DEF WarOutOfCards
<1>2. /\ call \in Calls /\ IsInjective(warCards)
      /\ \A c \in Range(warCards) : /\ isPlayed[c]
                                    /\ c \notin Range(player1CapturedCards)
                                    /\ c \notin Range(player2CapturedCards)
  BY <1>1 DEF ServiceInv, WarCardsApart
<1>3. winner \in Name \cup {Tie}
  BY <1>1, <1>2, DeclareWinnerType DEF ServiceInv
<1>4. sent \in Seq(Name \cup {Tie})
  BY <1>3, AppendProperties DEF ServiceInv, TypeOK
<1>5. /\ TablesTypeOK' /\ isPlayed' = isPlayed
      /\ playedCard1' \in Card \cup {NoCard} /\ playedCard2' \in Card \cup {NoCard}
      /\ warCards \in Seq(Card)
  BY <1>1, Zenon DEF ServiceInv, TypeOK, TablesTypeOK, tables
<1>6. \/ EndOfRound(player1CapturedCards \o warCards, player2CapturedCards, sent, call)
      \/ EndOfRound(player1CapturedCards, player2CapturedCards \o warCards, sent, call)
      \/ EndOfRound(player1CapturedCards, player2CapturedCards, sent, call)
  BY DEF WarOutOfCards
<1> HIDE DEF sent
<1> QED BY <1>2, <1>4, <1>5, <1>6, CaptureInv

\* A war that throws changes nothing but its own list.
LEMMA WarAbortsInv ==
    ASSUME ServiceInv, WarAborts
    PROVE  ServiceInv'
<1>1. /\ warCards' = <<>> /\ call' = NoCall
      /\ UNCHANGED <<tables, turns, playedCard1, playedCard2, piles, winnerTopic>>
  BY DEF WarAborts
<1>2. TypeOK'
  BY <1>1, EmptySeq DEF ServiceInv, TypeOK, TablesTypeOK, tables, turns, piles
<1>3. (CapturedOnce /\ RevealedCardWaits /\ WarCardsApart)'
  BY <1>1 DEF ServiceInv, CapturedOnce, RevealedCardWaits, WarCardsApart, Idle,
              tables, turns, piles
<1> QED BY <1>2, <1>3 DEF ServiceInv

\* The third cards decide, or tie: war() then starts again from the two cards
\* on the table, which are still in no pile.
LEMMA WarCompareInv ==
    ASSUME ServiceInv, WarCompare
    PROVE  ServiceInv'
<1>1. ~Idle
  BY CardsServiceAssumption DEF WarCompare, WarFull, Idle
<1>2. /\ call \in Calls /\ IsInjective(warCards) /\ player2Turn
      /\ playedCard2 \in Card /\ playedCard2 # playedCard1
      /\ \A c \in Range(warCards) \cup {playedCard2} :
           /\ isPlayed[c]
           /\ c \notin Range(player1CapturedCards)
           /\ c \notin Range(player2CapturedCards)
  BY <1>1 DEF ServiceInv, WarCardsApart
<1>3. /\ TablesTypeOK' /\ isPlayed' = isPlayed
      /\ playedCard1' = playedCard1 /\ playedCard2' = playedCard2
      /\ playedCard1' \in Card \cup {NoCard} /\ playedCard2' \in Card \cup {NoCard}
      /\ warCards \in Seq(Card) /\ winnerTopic \in Seq(Name \cup {Tie})
  BY Zenon DEF WarCompare, ServiceInv, TypeOK, TablesTypeOK, tables
<1>4. CASE \/ EndOfRound(player1CapturedCards \o warCards, player2CapturedCards,
                         winnerTopic, call)
           \/ EndOfRound(player1CapturedCards, player2CapturedCards \o warCards,
                         winnerTopic, call)
  BY <1>2, <1>3, <1>4, CaptureInv
<1>5. CASE /\ warCards' = <<playedCard1, playedCard2>>
           /\ UNCHANGED <<turns, piles, call, winnerTopic>>
  <2>1. /\ playedCard1 \in Card /\ isPlayed[playedCard1]
        /\ playedCard1 \notin Range(player1CapturedCards)
        /\ playedCard1 \notin Range(player2CapturedCards)
    BY <1>2 DEF ServiceInv, RevealedCardWaits
  <2>2. /\ warCards' \in Seq(Card) /\ IsInjective(warCards')
        /\ Range(warCards') = {playedCard1, playedCard2}
    BY <1>2, <1>5, <2>1, PairApart
  <2>3. TypeOK'
    BY <1>3, <1>5, <2>2 DEF ServiceInv, TypeOK, turns, piles
  <2>4. CapturedOnce' /\ RevealedCardWaits'
    BY <1>3, <1>5 DEF ServiceInv, CapturedOnce, RevealedCardWaits, turns, piles
  <2>5. WarCardsApart'
    BY <1>2, <1>3, <1>5, <2>1, <2>2, Zenon DEF WarCardsApart, turns, piles
  <2> QED BY <2>3, <2>4, <2>5 DEF ServiceInv
<1> QED BY <1>4, <1>5 DEF WarCompare

\* Every step of war().
LEMMA WarInv ==
    ASSUME ServiceInv, War
    PROVE  ServiceInv'
BY WarDrawInv, WarOutOfCardsInv, WarAbortsInv, WarCompareInv DEF War

\* A restart empties the piles and forgets the cards on the table.
LEMMA RestartInv ==
    ASSUME ServiceInv, Restart
    PROVE  ServiceInv'
<1>1. /\ player1Turn' = TRUE /\ player2Turn' = FALSE
      /\ player1CapturedCards' = <<>> /\ player2CapturedCards' = <<>>
      /\ playedCard1' = NoCard /\ playedCard2' = NoCard
      /\ warCards' = <<>> /\ call' = NoCall
      /\ UNCHANGED <<tables, winnerTopic>>
  BY DEF Restart, ResetTurn, ResetCapturedCards
<1>2. TypeOK'
  BY <1>1, EmptySeq, Zenon DEF ServiceInv, TypeOK, TablesTypeOK, tables
<1>3. (CapturedOnce /\ RevealedCardWaits /\ WarCardsApart)'
  BY <1>1 DEF CapturedOnce, RevealedCardWaits, WarCardsApart, Idle, IsInjective, Range
<1> QED BY <1>2, <1>3 DEF ServiceInv

-----------------------------------------------------------------------------
(* Rows.                                                                   *)

\* GamesInv holds of the server before its first request.
LEMMA GamesInitInv == GamesInit => GamesInv
<1> SUFFICES ASSUME GamesInit PROVE GamesInv
  OBVIOUS
<1> USE RepositoriesAssumption DEF GamesInit
<1>1. DOMAIN playerEntity = {} /\ DOMAIN gameEntity = {}
  OBVIOUS
<1>2. TablesTypeOK
  BY <1>1 DEF SeededCards, TablesTypeOK
<1>3. TypeOK
  BY <1>2, EmptySeq, Zenon DEF ServiceInit, TypeOK
<1>4. CapturedOnce /\ RevealedCardWaits /\ WarCardsApart
  BY DEF ServiceInit, CapturedOnce, RevealedCardWaits, WarCardsApart, Idle,
         IsInjective, Range
<1>5. IdsFresh /\ SeatsCoherent /\ RowsAccountedFor
  BY <1>1 DEF IdsFresh, SeatsCoherent, GameRowsCoherent, RowsAccountedFor
<1> QED BY <1>3, <1>4, <1>5 DEF GamesInv, ServiceInv

\* A handler that writes only rows of players and games leaves the service as
\* it is.
LEMMA RowsOnlyInv ==
    ASSUME ServiceInv, TablesTypeOK', UNCHANGED <<isPlayed, service>>
    PROVE  ServiceInv'
BY Zenon DEF ServiceInv, TypeOK, CapturedOnce, RevealedCardWaits, WarCardsApart, Idle,
       service, turns, piles

\* A handler that writes neither keeps what GamesInv says of the rows.
LEMMA CardsOnlyInv ==
    ASSUME GamesInv, ServiceInv',
           UNCHANGED <<playerEntity, gameEntity, ids, refused>>
    PROVE  GamesInv'
BY Zenon DEF GamesInv, IdsFresh, SeatsCoherent, GameRowsCoherent, RowsAccountedFor,
       Seats, ids

\* The key of the next player is in no row.
LEMMA NextPlayerFresh ==
    ASSUME GamesInv
    PROVE  /\ nextPlayerId \notin DOMAIN playerEntity
           /\ \A g \in DOMAIN gameEntity : nextPlayerId \notin Seats(g)
<1>1. nextPlayerId \notin DOMAIN playerEntity
  BY GameServiceAssumption DEF GamesInv, IdsFresh
<1> QED BY <1>1 DEF GamesInv, SeatsCoherent, GameRowsCoherent

\* createNewPlayer adds a row with a new key.
LEMMA CreateNewPlayerRows ==
    ASSUME GamesInv, NEW name \in Name, NEW s \in Session, CreateNewPlayer(name, s)
    PROVE  /\ DOMAIN playerEntity' = DOMAIN playerEntity \cup {nextPlayerId}
           /\ DOMAIN playerEntity' \subseteq PlayerId
           /\ playerEntity' \in [DOMAIN playerEntity' -> PlayersEntity]
           /\ \A p \in DOMAIN playerEntity : playerEntity'[p] = playerEntity[p]
           /\ nextPlayerId \in PlayerId /\ nextPlayerId' = nextPlayerId + 1
           /\ \A p \in DOMAIN playerEntity' \cup refused \cup {nextPlayerId} :
                 p < nextPlayerId'
<1>1. /\ nextPlayerId \in PlayerId /\ nextPlayerId' = nextPlayerId + 1
      /\ playerEntity' = Insert(playerEntity, nextPlayerId,
                                [username |-> name, sessionId |-> s])
  BY SMT, Z3 DEF CreateNewPlayer
<1>2. DOMAIN playerEntity' = DOMAIN playerEntity \cup {nextPlayerId}
  BY <1>1 DEF Insert
<1>3. nextPlayerId \notin DOMAIN playerEntity
  BY NextPlayerFresh
<1>4. [username |-> name, sessionId |-> s] \in PlayersEntity
  BY DEF PlayersEntity
<1>5. \A p \in DOMAIN playerEntity : playerEntity[p] \in PlayersEntity /\ p \in PlayerId
  BY DEF GamesInv, ServiceInv, TypeOK, TablesTypeOK
<1>6. playerEntity' \in [DOMAIN playerEntity' -> PlayersEntity]
  BY <1>1, <1>2, <1>4, <1>5, SMT, Z3 DEF Insert
<1>7. \A p \in DOMAIN playerEntity : playerEntity'[p] = playerEntity[p]
  BY <1>1, <1>3 DEF Insert
<1>8. \A p \in DOMAIN playerEntity' \cup refused \cup {nextPlayerId} : p < nextPlayerId'
  <2>1. \A p \in DOMAIN playerEntity \cup refused : p \in Nat /\ p < nextPlayerId
    BY <1>5, GameServiceAssumption, Zenon DEF GamesInv, IdsFresh
  <2>2. nextPlayerId \in Nat
    BY DEF GamesInv
  <2> QED BY <1>1, <1>2, <2>1, <2>2
<1> QED BY <1>1, <1>2, <1>5, <1>6, <1>7, <1>8

-----------------------------------------------------------------------------
(* Creating and joining.                                                   *)

\* createGameAndPlayer seats the new player in a new game.
LEMMA CreateGameInv ==
    ASSUME GamesInv, NEW name \in Name, NEW s \in Session, CreateGameAndPlayer(name, s)
    PROVE  GamesInv'
<1>0. PICK new \in Nat, player \in Nat : new = nextGameId /\ player = nextPlayerId
  BY DEF GamesInv
<1> DEFINE row == [player1 |-> player, player2 |-> NoPlayer,
                   winner |-> NoPlayer, gameState |-> "NEW_GAME"]
<1>1. /\ CreateNewPlayer(name, s)
      /\ new \in GameId /\ nextGameId' = new + 1
      /\ gameEntity' = Insert(gameEntity, new, row)
      /\ UNCHANGED <<cardPlayers, isPlayed, dealOrder, service, refused>>
  BY <1>0 DEF CreateGameAndPlayer
<1>2. /\ DOMAIN playerEntity' = DOMAIN playerEntity \cup {player}
      /\ DOMAIN playerEntity' \subseteq PlayerId
      /\ playerEntity' \in [DOMAIN playerEntity' -> PlayersEntity]
      /\ player \in PlayerId /\ nextPlayerId' = player + 1
      /\ \A p \in DOMAIN playerEntity' \cup refused : p < nextPlayerId'
  BY <1>0, <1>1, CreateNewPlayerRows
<1>3. /\ player # NoPlayer
      /\ player \notin DOMAIN playerEntity
      /\ \A g \in DOMAIN gameEntity : player \notin Seats(g)
  BY <1>0, <1>2, RepositoriesAssumption, NextPlayerFresh
<1>4. new \notin DOMAIN gameEntity
  BY <1>0 DEF GamesInv, IdsFresh
<1>5. row \in GameEntity
  BY <1>2, Zenon DEF GameEntity, GameState
<1>6. /\ DOMAIN gameEntity' = DOMAIN gameEntity \cup {new}
      /\ gameEntity'[new] = row
      /\ \A g \in DOMAIN gameEntity : gameEntity'[g] = gameEntity[g]
  BY <1>1, <1>4 DEF Insert
<1>7. TablesTypeOK'
  <2>1. \A g \in DOMAIN gameEntity : g \in GameId /\ gameEntity[g] \in GameEntity
    BY Zenon DEF GamesInv, ServiceInv, TypeOK, TablesTypeOK
  <2>2. /\ DOMAIN gameEntity' \subseteq GameId
        /\ gameEntity' \in [DOMAIN gameEntity' -> GameEntity]
    BY <1>1, <1>5, <1>6, <2>1 DEF Insert
  <2> QED BY <1>1, <1>2, <2>2, Zenon DEF GamesInv, ServiceInv, TypeOK, TablesTypeOK
<1>8. ServiceInv'
  BY <1>1, <1>7, RowsOnlyInv, Zenon DEF GamesInv
<1>9. /\ Seats(new)' = {player}
      /\ \A g \in DOMAIN gameEntity : Seats(g)' = Seats(g)
  BY <1>3, <1>6 DEF Seats
<1>10. IdsFresh'
  <2>1. \A g \in DOMAIN gameEntity : g \in Nat /\ g < new
    BY <1>0, GameServiceAssumption, Zenon
       DEF GamesInv, IdsFresh, ServiceInv, TypeOK, TablesTypeOK
  <2> QED BY <1>1, <1>2, <1>6, <2>1 DEF IdsFresh
<1>11. GameRowsCoherent'
  <2>1. ASSUME NEW g \in DOMAIN gameEntity
        PROVE  /\ Seats(g)' # {} /\ gameEntity'[g].player1 # gameEntity'[g].player2
               /\ gameEntity'[g].winner \in Seats(g)' \cup {NoPlayer}
               /\ Seats(g)' \subseteq DOMAIN playerEntity'
    BY <1>2, <1>6, <1>9, <2>1, ZenonT(40) DEF GamesInv, SeatsCoherent, GameRowsCoherent
  <2>2. /\ gameEntity'[new].player1 = player /\ gameEntity'[new].player2 = NoPlayer
        /\ gameEntity'[new].winner = NoPlayer
    BY <1>6
  <2>3. /\ Seats(new)' # {} /\ gameEntity'[new].player1 # gameEntity'[new].player2
        /\ gameEntity'[new].winner \in Seats(new)' \cup {NoPlayer}
        /\ Seats(new)' \subseteq DOMAIN playerEntity'
    BY <1>2, <1>3, <1>9, <2>2, ZenonT(40)
  <2> QED BY <1>6, <2>1, <2>3, ZenonT(40) DEF GameRowsCoherent
<1>12. \A g, h \in DOMAIN gameEntity' : g # h => Seats(g)' \cap Seats(h)' = {}
  BY <1>3, <1>6, <1>9 DEF GamesInv, SeatsCoherent
<1>13. SeatsCoherent'
  BY <1>3, <1>6, <1>11, <1>12 DEF GamesInv, SeatsCoherent
<1>14. RowsAccountedFor'
  BY <1>1, <1>2, <1>6, <1>9, SMT, Z3 DEF GamesInv, RowsAccountedFor
<1> QED BY <1>1, <1>2, <1>8, <1>10, <1>13, <1>14 DEF GamesInv

\* joinGame gives the second seat to the new player, or records the refusal.
LEMMA JoinGameInv ==
    ASSUME GamesInv, NEW g, NEW name \in Name, NEW s \in Session, JoinGame(g, name, s)
    PROVE  /\ GamesInv'
           /\ DOMAIN gameEntity' = DOMAIN gameEntity
           /\ \A h \in DOMAIN gameEntity : gameEntity'[h].player1 = gameEntity[h].player1
           /\ \A h \in DOMAIN gameEntity : Seats(h) \subseteq Seats(h)'
<1>0. PICK player \in Nat : player = nextPlayerId
  BY DEF GamesInv
<1>1. /\ CreateNewPlayer(name, s) /\ g \in DOMAIN gameEntity
      /\ UNCHANGED <<cardPlayers, isPlayed, dealOrder, service, nextGameId>>
  BY DEF JoinGame
<1>2. /\ DOMAIN playerEntity' = DOMAIN playerEntity \cup {player}
      /\ DOMAIN playerEntity' \subseteq PlayerId
      /\ playerEntity' \in [DOMAIN playerEntity' -> PlayersEntity]
      /\ player \in PlayerId /\ nextPlayerId' = player + 1
      /\ \A p \in DOMAIN playerEntity' \cup refused \cup {player} : p < nextPlayerId'
  BY <1>0, <1>1, CreateNewPlayerRows, Zenon
<1>3. /\ player # NoPlayer
      /\ \A h \in DOMAIN gameEntity : player \notin Seats(h)
  BY <1>0, <1>2, RepositoriesAssumption, NextPlayerFresh
<1>4. /\ gameEntity \in [DOMAIN gameEntity -> GameEntity]
      /\ DOMAIN gameEntity \subseteq GameId
      /\ refused \subseteq PlayerId
  BY Zenon DEF GamesInv, ServiceInv, TypeOK, TablesTypeOK
<1>5. CASE gameEntity[g].player1 # NoPlayer /\ gameEntity[g].player2 = NoPlayer
  <2>1. gameEntity' = [gameEntity EXCEPT ![g].player2 = player] /\ refused' = refused
    BY <1>0, <1>5 DEF JoinGame
  <2>2. /\ DOMAIN gameEntity' = DOMAIN gameEntity
        /\ gameEntity' \in [DOMAIN gameEntity -> GameEntity]
        /\ \A h \in DOMAIN gameEntity : h # g => gameEntity'[h] = gameEntity[h]
        /\ gameEntity'[g].player1 = gameEntity[g].player1
        /\ gameEntity'[g].player2 = player
        /\ gameEntity'[g].winner = gameEntity[g].winner
    BY <1>1, <1>2, <1>4, <2>1, ZenonT(40) DEF GameEntity
  <2>3. /\ Seats(g)' = Seats(g) \cup {player}
        /\ \A h \in DOMAIN gameEntity : h # g => Seats(h)' = Seats(h)
    BY <1>3, <1>5, <2>2 DEF Seats
  <2>4. ServiceInv'
    <3>1. TablesTypeOK'
      BY <1>1, <1>2, <1>4, <2>2 DEF GamesInv, ServiceInv, TypeOK, TablesTypeOK
    <3> QED BY <1>1, <3>1, RowsOnlyInv DEF GamesInv
  <2>5. IdsFresh'
    BY <1>1, <1>2, <2>1, <2>2, Zenon DEF GamesInv, IdsFresh
  <2>6. player # gameEntity[g].player1
    BY <1>1, <1>3, <1>5 DEF Seats
  <2>7. GameRowsCoherent'
    <3>1. \A h \in DOMAIN gameEntity :
             /\ Seats(h) # {} /\ gameEntity[h].player1 # gameEntity[h].player2
             /\ gameEntity[h].winner \in Seats(h) \cup {NoPlayer}
             /\ Seats(h) \subseteq DOMAIN playerEntity
      BY Zenon DEF GamesInv, SeatsCoherent, GameRowsCoherent
    <3>2. ASSUME NEW h \in DOMAIN gameEntity, h # g
          PROVE  /\ Seats(h)' # {} /\ gameEntity'[h].player1 # gameEntity'[h].player2
                 /\ gameEntity'[h].winner \in Seats(h)' \cup {NoPlayer}
                 /\ Seats(h)' \subseteq DOMAIN playerEntity'
      BY <1>2, <2>2, <2>3, <3>1, <3>2, ZenonT(40)
    <3>3. /\ Seats(g)' # {} /\ gameEntity'[g].player1 # gameEntity'[g].player2
          /\ gameEntity'[g].winner \in Seats(g)' \cup {NoPlayer}
          /\ Seats(g)' \subseteq DOMAIN playerEntity'
      BY <1>1, <1>2, <2>2, <2>3, <2>6, <3>1, ZenonT(40)
    <3> QED BY <2>2, <3>2, <3>3, ZenonT(40) DEF GameRowsCoherent
  <2>8. \A h, k \in DOMAIN gameEntity' : h # k => Seats(h)' \cap Seats(k)' = {}
    <3>1. \A h, k \in DOMAIN gameEntity : h # k => Seats(h) \cap Seats(k) = {}
      BY Zenon DEF GamesInv, SeatsCoherent
    <3> QED BY <1>1, <1>3, <2>2, <2>3, <3>1
  <2>9. SeatsCoherent'
    BY <1>1, <1>5, <2>2, <2>7, <2>8 DEF GamesInv, SeatsCoherent
  <2>10. RowsAccountedFor'
    BY <1>1, <1>2, <2>1, <2>2, <2>3 DEF GamesInv, RowsAccountedFor
  <2>11. GamesInv'
    BY <1>1, <1>2, <2>1, <2>4, <2>5, <2>9, <2>10 DEF GamesInv
  <2> QED BY <1>1, <2>2, <2>3, <2>11
<1>6. CASE ~(gameEntity[g].player1 # NoPlayer /\ gameEntity[g].player2 = NoPlayer)
  <2>1. refused' = refused \cup {player} /\ gameEntity' = gameEntity
    BY <1>0, <1>6, Zenon DEF JoinGame
  <2>2. ServiceInv'
    <3>1. TablesTypeOK'
      BY <1>1, <1>2, <1>4, <2>1 DEF GamesInv, ServiceInv, TypeOK, TablesTypeOK
    <3> QED BY <1>1, <3>1, RowsOnlyInv DEF GamesInv
  <2>3. IdsFresh'
    BY <1>1, <1>2, <2>1 DEF GamesInv, IdsFresh
  <2>4. \A h : Seats(h)' = Seats(h)
    BY <2>1 DEF Seats
  <2>5. SeatsCoherent'
    BY <1>2, <2>1, <2>4 DEF GamesInv, SeatsCoherent, GameRowsCoherent
  <2>6. RowsAccountedFor'
    BY <1>2, <2>1, <2>4 DEF GamesInv, RowsAccountedFor
  <2>7. GamesInv'
    BY <1>1, <1>2, <1>4, <2>1, <2>2, <2>3, <2>5, <2>6 DEF GamesInv
  <2> QED BY <2>1, <2>4, <2>7
<1> QED BY <1>5, <1>6

-----------------------------------------------------------------------------
(* Leaving.                                                                *)

\* reDealCards leaves every card unplayed and with one of the two seats.
LEMMA ReDealCardsRows ==
    ASSUME NEW player1, NEW player2, ReDealCards(player1, player2)
    PROVE  /\ cardPlayers' \in [Card -> {player1, player2}]
           /\ isPlayed' = [c \in Card |-> FALSE]
           /\ dealOrder' \in [Card -> Int]
<1>1. PICK deck \in DeckShuffles :
        LET At(c) == CHOOSE i \in 1..(2 * HalfDeck) : deck[i] = c
        IN /\ cardPlayers' = [c \in Card |-> IF At(c) <= HalfDeck THEN player1
                                             ELSE player2]
           /\ dealOrder' = [c \in Card |-> (At(c) - 1) % HalfDeck]
           /\ isPlayed' = [c \in Card |-> FALSE]
  BY Zenon DEF ReDealCards
<1> DEFINE At(c) == CHOOSE i \in 1..(2 * HalfDeck) : deck[i] = c
<1>2. HalfDeck \in Nat \ {0}
  BY CardsServiceAssumption
<1>3. \A c \in Card : At(c) \in Int
  <2>1. deck \in Surjection(1..(2 * HalfDeck), Card)
    BY GameServiceAssumption DEF Bijection
  <2>2. \A c \in Card : \E i \in 1..(2 * HalfDeck) : deck[i] = c
    BY <2>1 DEF Surjection
  <2> QED BY <1>2, <2>2
<1>4. dealOrder' = [c \in Card |-> (At(c) - 1) % HalfDeck]
  BY <1>1
<1>5. cardPlayers' = [c \in Card |-> IF At(c) <= HalfDeck THEN player1 ELSE player2]
  BY <1>1
<1> HIDE DEF At
<1>6. \A c \in Card : (At(c) - 1) % HalfDeck \in Int
  BY <1>2, <1>3
<1> QED BY <1>1, <1>4, <1>5, <1>6

\* A player who leaves a seat is referred to no more when the row is deleted:
\* the deck has been dealt again, and no other game names the player.
LEMMA LeaveSeatRows ==
    ASSUME GamesInv, NEW g, NEW s, LeaveGame(g, s),
           NEW p, p = FindPlayerBySessionId(s), p \in Seats(g),
           NEW q, q = IF p = gameEntity[g].player1 THEN gameEntity[g].player2
                      ELSE gameEntity[g].player1
    PROVE  /\ g \in DOMAIN gameEntity
           /\ p \in {gameEntity[g].player1, gameEntity[g].player2} /\ p # NoPlayer
           /\ Seats(g) \ {p} = {q} \ {NoPlayer} /\ q # p
           /\ q \in PlayerId \cup {NoPlayer}
           /\ \/ q = NoPlayer /\ gameEntity' = Delete(gameEntity, g)
              \/ /\ q # NoPlayer
                 /\ gameEntity' = [gameEntity EXCEPT ![g] =
                       [player1 |-> IF p = gameEntity[g].player1 THEN NoPlayer ELSE q,
                        player2 |-> IF p = gameEntity[g].player1 THEN q ELSE NoPlayer,
                        winner |-> q, gameState |-> "GAME_ENDED"]]
           /\ cardPlayers' \in [Card -> {q, NoPlayer}]
           /\ isPlayed' = [c \in Card |-> FALSE]
           /\ dealOrder' \in [Card -> Int]
           /\ playerEntity' = Delete(playerEntity, p)
           /\ ResetTurn /\ ResetCapturedCards
<1> DEFINE game == WithoutPlayer(gameEntity[g], p)
<1>1. /\ g \in DOMAIN gameEntity
      /\ ReDealCards(game.player1, game.player2)
      /\ gameEntity' = IF game.player1 = NoPlayer /\ game.player2 = NoPlayer
                       THEN Delete(gameEntity, g)
                       ELSE [gameEntity EXCEPT
                                ![g] = [game EXCEPT !.gameState = "GAME_ENDED"]]
      /\ ~References(p, cardPlayers', gameEntity') =>
            playerEntity' = Delete(playerEntity, p) /\ ResetTurn /\ ResetCapturedCards
  BY DEF LeaveGame
<1>2. /\ gameEntity[g] \in GameEntity /\ g \in GameId
      /\ gameEntity[g].player1 # gameEntity[g].player2
      /\ p # NoPlayer /\ p \in {gameEntity[g].player1, gameEntity[g].player2}
  BY <1>1 DEF Seats, GamesInv, ServiceInv, TypeOK, TablesTypeOK, SeatsCoherent,
              GameRowsCoherent
<1>3. game = [player1 |-> IF p = gameEntity[g].player1 THEN NoPlayer ELSE q,
              player2 |-> IF p = gameEntity[g].player1 THEN q ELSE NoPlayer,
              winner |-> q, gameState |-> gameEntity[g].gameState]
  BY <1>2, Zenon DEF WithoutPlayer, GameEntity
<1>4. /\ Seats(g) \ {p} = {q} \ {NoPlayer} /\ q # p
      /\ q \in PlayerId \cup {NoPlayer}
  <2>1. PICK a \in PlayerId \cup {NoPlayer}, b \in PlayerId \cup {NoPlayer} :
           a = gameEntity[g].player1 /\ b = gameEntity[g].player2
    BY <1>2 DEF GameEntity
  <2>2. /\ Seats(g) = {a, b} \ {NoPlayer} /\ a # b /\ p \in {a, b} /\ p # NoPlayer
        /\ q = IF p = a THEN b ELSE a
    BY <1>2, <2>1, ZenonT(40) DEF Seats
  <2>3. CASE p = a
    BY <2>1, <2>2, <2>3, ZenonT(40)
  <2>4. CASE p # a
    BY <2>1, <2>2, <2>4, ZenonT(40)
  <2> QED BY <2>3, <2>4, Zenon
<1>5. {game.player1, game.player2} = {q, NoPlayer}
  BY <1>3
<1>6. /\ cardPlayers' \in [Card -> {q, NoPlayer}]
      /\ isPlayed' = [c \in Card |-> FALSE] /\ dealOrder' \in [Card -> Int]
  <2> HIDE DEF game
  <2> QED BY <1>1, <1>5, ReDealCardsRows
<1>7. \/ q = NoPlayer /\ gameEntity' = Delete(gameEntity, g)
      \/ /\ q # NoPlayer
         /\ gameEntity' = [gameEntity EXCEPT ![g] =
               [player1 |-> IF p = gameEntity[g].player1 THEN NoPlayer ELSE q,
                player2 |-> IF p = gameEntity[g].player1 THEN q ELSE NoPlayer,
                winner |-> q, gameState |-> "GAME_ENDED"]]
  <2> HIDE DEF game
  <2>1. [game EXCEPT !.gameState = "GAME_ENDED"] =
            [player1 |-> IF p = gameEntity[g].player1 THEN NoPlayer ELSE q,
             player2 |-> IF p = gameEntity[g].player1 THEN q ELSE NoPlayer,
             winner |-> q, gameState |-> "GAME_ENDED"]
    BY <1>3, SMT, Z3
  <2>2. game.player1 = NoPlayer /\ game.player2 = NoPlayer <=> q = NoPlayer
    BY <1>3
  <2> QED BY <1>1, <2>1, <2>2, Zenon
<1>8. \A h \in DOMAIN gameEntity : h # g =>
         p \notin {gameEntity[h].player1, gameEntity[h].player2, gameEntity[h].winner}
  BY <1>1, <1>2, SMT, Z3 DEF GamesInv, SeatsCoherent, GameRowsCoherent, Seats
<1> HIDE DEF game
<1>9. \A h \in DOMAIN gameEntity' :
         p \notin {gameEntity'[h].player1, gameEntity'[h].player2, gameEntity'[h].winner}
  <2>1. CASE gameEntity' = Delete(gameEntity, g)
    BY <1>8, <2>1 DEF Delete, Restrict
  <2>2. CASE q # NoPlayer
    <3>1. /\ DOMAIN gameEntity' = DOMAIN gameEntity
          /\ \A h \in DOMAIN gameEntity : h # g => gameEntity'[h] = gameEntity[h]
      BY <1>7, <2>2, ZenonT(40)
    <3>2. {gameEntity'[g].player1, gameEntity'[g].player2, gameEntity'[g].winner}
             \subseteq {q, NoPlayer}
      BY <1>1, <1>7, <2>2, SMT, Z3
    <3> QED BY <1>2, <1>4, <1>8, <3>1, <3>2, ZenonT(40)
  <2> QED BY <1>7, <2>1, <2>2, Zenon
<1>10. ~References(p, cardPlayers', gameEntity')
  BY <1>2, <1>4, <1>6, <1>9 DEF References
<1> QED BY <1>1, <1>2, <1>4, <1>6, <1>7, <1>10

\* The player that leaveGame finds has a row.
LEMMA LeaverHasRow ==
    ASSUME NEW g, NEW s, LeaveGame(g, s)
    PROVE  /\ FindPlayerBySessionId(s) \in DOMAIN playerEntity
           /\ playerEntity[FindPlayerBySessionId(s)].sessionId = s
BY DEF LeaveGame, FindPlayerBySessionId, PlayersBySession

\* leaveGame of a seated player.
LEMMA LeaveSeatInv ==
    ASSUME GamesInv, NEW g, NEW s, LeaveGame(g, s),
           NEW p, p = FindPlayerBySessionId(s), p \in Seats(g)
    PROVE  /\ GamesInv'
           /\ \A h \in DOMAIN gameEntity : h # g =>
                 h \in DOMAIN gameEntity' /\ gameEntity'[h] = gameEntity[h]
           /\ g \in DOMAIN gameEntity' =>
                 /\ Seats(g)' = Seats(g) \ {p}
                 /\ p # gameEntity[g].player1 =>
                       gameEntity'[g].player1 = gameEntity[g].player1
           /\ g \notin DOMAIN gameEntity' => Seats(g) = {p}
<1> DEFINE q == IF p = gameEntity[g].player1 THEN gameEntity[g].player2
                ELSE gameEntity[g].player1
           row == [player1 |-> IF p = gameEntity[g].player1 THEN NoPlayer ELSE q,
                   player2 |-> IF p = gameEntity[g].player1 THEN q ELSE NoPlayer,
                   winner |-> q, gameState |-> "GAME_ENDED"]
<1>1. /\ g \in DOMAIN gameEntity
      /\ p \in {gameEntity[g].player1, gameEntity[g].player2} /\ p # NoPlayer
      /\ Seats(g) \ {p} = {q} \ {NoPlayer} /\ q # p
      /\ q \in PlayerId \cup {NoPlayer}
      /\ \/ q = NoPlayer /\ gameEntity' = Delete(gameEntity, g)
         \/ q # NoPlayer /\ gameEntity' = [gameEntity EXCEPT ![g] = row]
      /\ cardPlayers' \in [Card -> {q, NoPlayer}]
      /\ isPlayed' = [c \in Card |-> FALSE]
      /\ dealOrder' \in [Card -> Int]
      /\ playerEntity' = Delete(playerEntity, p)
      /\ ResetTurn /\ ResetCapturedCards
  BY LeaveSeatRows
<1>2. /\ gameEntity \in [DOMAIN gameEntity -> GameEntity]
      /\ DOMAIN gameEntity \subseteq GameId
      /\ playerEntity \in [DOMAIN playerEntity -> PlayersEntity]
      /\ DOMAIN playerEntity \subseteq PlayerId
  BY DEF GamesInv, ServiceInv, TypeOK, TablesTypeOK
<1>3. Idle /\ UNCHANGED <<playedCard1, playedCard2, warCards, call, winnerTopic, ids, refused>>
  BY DEF LeaveGame
<1>4. q # NoPlayer => gameEntity[g].player1 # NoPlayer /\ gameEntity[g].player2 # NoPlayer
  BY <1>1, Zenon
<1>5. p # gameEntity[g].player1 => q = gameEntity[g].player1
  OBVIOUS
<1> HIDE DEF q
<1>6. row \in GameEntity
  BY <1>1 DEF GameEntity, GameState
<1>7. /\ DOMAIN playerEntity' = DOMAIN playerEntity \ {p}
      /\ playerEntity' \in [DOMAIN playerEntity' -> PlayersEntity]
  BY <1>1, <1>2 DEF Delete, Restrict
<1>8. /\ DOMAIN gameEntity' = DOMAIN gameEntity \ (IF q = NoPlayer THEN {g} ELSE {})
      /\ gameEntity' \in [DOMAIN gameEntity' -> GameEntity]
      /\ \A h \in DOMAIN gameEntity : h # g => gameEntity'[h] = gameEntity[h]
      /\ q # NoPlayer => gameEntity'[g] = row
  <2>1. CASE q = NoPlayer
    BY <1>1, <1>2, <2>1, Zenon DEF Delete, Restrict
  <2>2. CASE q # NoPlayer
    BY <1>1, <1>2, <1>6, <2>2, ZenonT(40)
  <2> QED BY <2>1, <2>2, Zenon
<1>9. /\ \A h \in DOMAIN gameEntity : h # g => Seats(h)' = Seats(h) /\ p \notin Seats(h)
      /\ q # NoPlayer => Seats(g)' = {q} /\ Seats(g) = {p, q}
      /\ q = NoPlayer => Seats(g) = {p}
  <2>1. \A h \in DOMAIN gameEntity : h # g => Seats(h)' = Seats(h)
    BY <1>8 DEF Seats
  <2>2. \A h \in DOMAIN gameEntity : h # g => p \notin Seats(h)
    BY <1>1 DEF GamesInv, SeatsCoherent
  <2>3. q # NoPlayer => Seats(g)' = {q}
    BY <1>8 DEF Seats
  <2> QED BY <1>1, <2>1, <2>2, <2>3
<1>10. ServiceInv'
  <2>1. TypeOK'
    <3>1. TablesTypeOK'
      BY <1>1, <1>2, <1>7, <1>8 DEF TablesTypeOK
    <3> QED BY <1>1, <1>3, <3>1, EmptySeq, Zenon
          DEF GamesInv, ServiceInv, TypeOK, ResetTurn, ResetCapturedCards
  <2>2. CapturedOnce'
    BY <1>1 DEF ResetCapturedCards, CapturedOnce, IsInjective, Range
  <2>3. RevealedCardWaits' /\ WarCardsApart'
    BY <1>1, <1>3 DEF ResetTurn, RevealedCardWaits, WarCardsApart, Idle
  <2> QED BY <2>1, <2>2, <2>3 DEF ServiceInv
<1>11. IdsFresh'
  BY <1>3, <1>7, <1>8, Zenon DEF GamesInv, IdsFresh, ids
<1>12. GameRowsCoherent'
  <2> SUFFICES ASSUME NEW h \in DOMAIN gameEntity'
               PROVE  /\ Seats(h)' # {}
                      /\ gameEntity'[h].player1 # gameEntity'[h].player2
                      /\ gameEntity'[h].winner \in Seats(h)' \cup {NoPlayer}
                      /\ Seats(h)' \subseteq DOMAIN playerEntity'
    BY Zenon DEF GameRowsCoherent
  <2>1. CASE h # g
    <3>1. /\ h \in DOMAIN gameEntity /\ gameEntity'[h] = gameEntity[h]
          /\ Seats(h)' = Seats(h) /\ p \notin Seats(h)
      BY <1>8, <1>9, <2>1, ZenonT(40)
    <3>2. /\ Seats(h) # {} /\ gameEntity[h].player1 # gameEntity[h].player2
          /\ gameEntity[h].winner \in Seats(h) \cup {NoPlayer}
          /\ Seats(h) \subseteq DOMAIN playerEntity
      BY <3>1, Zenon DEF GamesInv, SeatsCoherent, GameRowsCoherent
    <3> QED BY <1>7, <3>1, <3>2, ZenonT(40)
  <2>2. CASE h = g
    <3>1. q # NoPlayer
      BY <1>8, <2>2, SMT, Z3
    <3>2. q \in DOMAIN playerEntity
      BY <1>1, <1>9, <3>1 DEF GamesInv, SeatsCoherent, GameRowsCoherent
    <3> QED BY <1>1, <1>7, <1>8, <1>9, <2>2, <3>1, <3>2, SMT, Z3
  <2> QED BY <2>1, <2>2
<1>13. SeatsCoherent'
  <2>1. \A h, k \in DOMAIN gameEntity' : h # k => Seats(h)' \cap Seats(k)' = {}
    BY <1>1, <1>8, <1>9, SMT, Z3 DEF GamesInv, SeatsCoherent
  <2>2. \A h \in DOMAIN gameEntity' : gameEntity'[h].player1 = NoPlayer =>
           /\ gameEntity'[h].gameState = "GAME_ENDED"
           /\ gameEntity'[h].winner = gameEntity'[h].player2
    BY <1>8, SMT, Z3 DEF GamesInv, SeatsCoherent
  <2> QED BY <1>12, <2>1, <2>2, Zenon DEF SeatsCoherent
<1>14. RowsAccountedFor'
  BY <1>1, <1>3, <1>7, <1>8, <1>9 DEF GamesInv, RowsAccountedFor
<1>15. GamesInv'
  BY <1>3, <1>10, <1>11, <1>13, <1>14 DEF GamesInv, ids
<1>16. p # gameEntity[g].player1 /\ q # NoPlayer => gameEntity'[g].player1 = gameEntity[g].player1
  BY <1>5, <1>8
<1> QED BY <1>1, <1>8, <1>9, <1>15, <1>16, Zenon

\* leaveGame from a page that is out of date, of a player who has no seat in
\* the game: it ends the game, and deletes the row if nothing refers to it.
LEMMA LeaveOtherInv ==
    ASSUME GamesInv, NEW g, NEW s, LeaveGame(g, s),
           FindPlayerBySessionId(s) \notin Seats(g)
    PROVE  /\ GamesInv'
           /\ DOMAIN gameEntity' = DOMAIN gameEntity
           /\ \A h \in DOMAIN gameEntity :
                 /\ Seats(h)' = Seats(h)
                 /\ gameEntity'[h].player1 = gameEntity[h].player1
<1>0. PICK p : p = FindPlayerBySessionId(s)
  OBVIOUS
<1>1. p \in DOMAIN playerEntity /\ p \notin Seats(g) /\ g \in DOMAIN gameEntity
  BY <1>0, LeaverHasRow, Zenon DEF LeaveGame
<1>2. /\ gameEntity \in [DOMAIN gameEntity -> GameEntity]
      /\ DOMAIN gameEntity \subseteq GameId
      /\ playerEntity \in [DOMAIN playerEntity -> PlayersEntity]
      /\ DOMAIN playerEntity \subseteq PlayerId
  BY DEF GamesInv, ServiceInv, TypeOK, TablesTypeOK
<1>3. WithoutPlayer(gameEntity[g], p) = gameEntity[g]
  <2>1. p # NoPlayer
    BY <1>1, <1>2, RepositoriesAssumption, Zenon
  <2> QED BY <1>1, <2>1 DEF WithoutPlayer, Seats
<1>4. ~(gameEntity[g].player1 = NoPlayer /\ gameEntity[g].player2 = NoPlayer)
  BY <1>1 DEF GamesInv, SeatsCoherent, GameRowsCoherent
<1>5. /\ UNCHANGED <<cardPlayers, isPlayed, dealOrder>>
      /\ gameEntity' = [gameEntity EXCEPT
                           ![g] = [gameEntity[g] EXCEPT !.gameState = "GAME_ENDED"]]
      /\ \/ UNCHANGED <<playerEntity, turns, piles>>
         \/ /\ ~References(p, cardPlayers', gameEntity')
            /\ playerEntity' = Delete(playerEntity, p)
            /\ ResetTurn /\ ResetCapturedCards
  BY <1>0, <1>1, <1>3, <1>4 DEF LeaveGame
<1>6. Idle /\ UNCHANGED <<playedCard1, playedCard2, warCards, call, winnerTopic, ids, refused>>
  BY DEF LeaveGame
<1>7. /\ DOMAIN gameEntity' = DOMAIN gameEntity
      /\ gameEntity' \in [DOMAIN gameEntity' -> GameEntity]
      /\ \A h \in DOMAIN gameEntity :
            /\ gameEntity'[h].player1 = gameEntity[h].player1
            /\ gameEntity'[h].player2 = gameEntity[h].player2
            /\ gameEntity'[h].winner = gameEntity[h].winner
            /\ gameEntity'[h].gameState \in {gameEntity[h].gameState, "GAME_ENDED"}
  BY <1>1, <1>2, <1>5 DEF GameEntity, GameState
<1>8. \A h \in DOMAIN gameEntity : Seats(h)' = Seats(h)
  BY <1>7 DEF Seats
<1>9. /\ DOMAIN playerEntity' \subseteq DOMAIN playerEntity
      /\ playerEntity' \in [DOMAIN playerEntity' -> PlayersEntity]
      /\ \A h \in DOMAIN gameEntity : Seats(h) \subseteq DOMAIN playerEntity'
  <2>1. \A h \in DOMAIN gameEntity : Seats(h) \subseteq DOMAIN playerEntity
    BY DEF GamesInv, SeatsCoherent, GameRowsCoherent
  <2>2. CASE playerEntity' = playerEntity
    BY <1>2, <2>1, <2>2
  <2>3. CASE /\ ~References(p, cardPlayers', gameEntity')
             /\ playerEntity' = Delete(playerEntity, p)
    <3>1. \A h \in DOMAIN gameEntity : p \notin Seats(h)
      BY <1>7, <2>3 DEF References, Seats
    <3> QED BY <1>2, <2>1, <2>3, <3>1 DEF Delete, Restrict
  <2> QED BY <1>5, <2>2, <2>3
<1>10. ServiceInv'
  <2>1. TablesTypeOK'
    BY <1>2, <1>5, <1>7, <1>9 DEF GamesInv, ServiceInv, TypeOK, TablesTypeOK
  <2>2. CASE UNCHANGED <<turns, piles>>
    BY <1>5, <1>6, <2>1, <2>2, RowsOnlyInv DEF GamesInv, service
  <2>3. CASE ResetTurn /\ ResetCapturedCards
    <3>1. TypeOK'
      BY <1>6, <2>1, <2>3, EmptySeq, Zenon
         DEF GamesInv, ServiceInv, TypeOK, ResetTurn, ResetCapturedCards
    <3>2. CapturedOnce'
      BY <2>3 DEF ResetCapturedCards, CapturedOnce, IsInjective, Range
    <3>3. RevealedCardWaits' /\ WarCardsApart'
      BY <1>6, <2>3 DEF ResetTurn, RevealedCardWaits, WarCardsApart, Idle
    <3> QED BY <3>1, <3>2, <3>3 DEF ServiceInv
  <2> QED BY <1>5, <2>2, <2>3
<1>11. IdsFresh'
  BY <1>6, <1>7, <1>9 DEF GamesInv, IdsFresh, ids
<1>12. SeatsCoherent'
  <2>1. GameRowsCoherent'
    BY <1>7, <1>8, <1>9 DEF GamesInv, SeatsCoherent, GameRowsCoherent
  <2>2. \A h, k \in DOMAIN gameEntity' : h # k => Seats(h)' \cap Seats(k)' = {}
    BY <1>7, <1>8 DEF GamesInv, SeatsCoherent
  <2> QED BY <1>7, <2>1, <2>2, SMT, Z3 DEF GamesInv, SeatsCoherent
<1>13. RowsAccountedFor'
  BY <1>6, <1>7, <1>8, <1>9 DEF GamesInv, RowsAccountedFor
<1>14. GamesInv'
  BY <1>6, <1>10, <1>11, <1>12, <1>13 DEF GamesInv, ids
<1> QED BY <1>7, <1>8, <1>14

\* leaveGame keeps GamesInv, whatever page asks for it.
LEMMA LeaveGameInv ==
    ASSUME GamesInv, NEW g, NEW s, LeaveGame(g, s)
    PROVE  GamesInv'
<1>1. CASE FindPlayerBySessionId(s) \in Seats(g)
  BY <1>1, LeaveSeatInv
<1>2. CASE FindPlayerBySessionId(s) \notin Seats(g)
  BY <1>2, LeaveOtherInv
<1> QED BY <1>1, <1>2, SMT, Z3

-----------------------------------------------------------------------------
(* The handlers of CardsService.                                           *)

\* Dealing, playing, a war and a restart write no row of a player or a game.
LEMMA CardsHandlersInv ==
    ASSUME GamesInv, UNCHANGED <<ids, refused>>,
           \/ \E s : DealCards1(s) \/ DealCards2(s)
           \/ \E player1Id : PlayCard1(player1Id)
           \/ \E player1Id, player2Id \in PlayerId, gameId \in GameId :
                 PlayCard2(player1Id, player2Id, gameId)
           \/ War \/ Restart
    PROVE  GamesInv' /\ UNCHANGED <<playerEntity, gameEntity>>
<1>1. ServiceInv
  BY Zenon DEF GamesInv
<1>2. UNCHANGED <<playerEntity, gameEntity>>
  BY DEF DealCards1, DealCards2, DealHalf, PlayCard1, PlayCard2, War, WarDraw,
         WarOutOfCards, WarAborts, WarCompare, Restart, tables
<1>3. ServiceInv'
  BY <1>1, DealCardsInv, PlayCard1Inv, PlayCard2Inv, WarInv, RestartInv
<1> QED BY <1>2, <1>3, CardsOnlyInv

\* A request that is not handled changes nothing.
LEMMA ServerUnchangedInv ==
    ASSUME GamesInv, UNCHANGED <<tables, service, ids, refused>>
    PROVE  GamesInv'
<1>1. ServiceInv'
  BY RowsOnlyInv, Zenon DEF GamesInv, ServiceInv, TypeOK, TablesTypeOK, tables
<1> QED BY <1>1, CardsOnlyInv, Zenon DEF tables

\* gamePlayPage renders ids and sessions of rows that exist.
LEMMA PageOfType ==
    ASSUME GamesInv, NEW g, Renders(g)
    PROVE  PageOf(g) \in Page
<1>1. /\ g \in DOMAIN gameEntity /\ g \in GameId /\ gameEntity[g] \in GameEntity
      /\ gameEntity[g].player1 # NoPlayer
      /\ \A p \in DOMAIN playerEntity : playerEntity[p] \in PlayersEntity
  BY Zenon DEF Renders, GamesInv, ServiceInv, TypeOK, TablesTypeOK
<1>2. {gameEntity[g].player1, gameEntity[g].player2} \subseteq DOMAIN playerEntity \cup {NoPlayer}
  BY <1>1, Zenon DEF GamesInv, SeatsCoherent, GameRowsCoherent, Seats
<1>3. /\ SessionOf(gameEntity[g].player1) \in Session
      /\ SessionOf(gameEntity[g].player2) \in Session \cup {NoSession}
  BY <1>1, <1>2 DEF SessionOf, PlayersEntity
<1> QED BY <1>1, <1>3 DEF PageOf, Page, GameEntity
=============================================================================

-------------------------- MODULE ThreadsRulesProofs --------------------------
(***************************************************************************)
(* The handlers of CardsService at the same time play the game of          *)
(* WarRules: rounds, wars and the end of the game.                         *)
(***************************************************************************)
EXTENDS ThreadsTableProofs

\* A war puts cards on the table in turn.
LEMMA Parity ==
    ASSUME NEW n \in Nat
    PROVE  /\ n % 2 = 0 \/ n % 2 = 1
           /\ n % 2 = 0 => 0 = n % 2 /\ 1 = (n + 1) % 2
           /\ n % 2 # 0 => 1 = n % 2 /\ 0 = (n + 1) % 2
           /\ n % 2 = 1 => n % 2 # 0
OBVIOUS

\* A lone card, and no card, on the table.
LEMMA LoneCard ==
    ASSUME NEW c
    PROVE  Len(<<c>>) % 2 = 1 /\ Len(<<>>) % 2 = 0 /\ 0 \in Nat
OBVIOUS

\* A full war holds as many cards of one player as of the other.
LEMMA FullTable ==
    /\ 0 = (2 + 2 * WarDraws) % 2 /\ 2 + 2 * WarDraws \in Nat /\ 2 + 2 * WarDraws >= 2
    /\ \A n \in 2..(2 + 2 * WarDraws) : n >= 2 /\ n > 0
BY CardsThreadsAssumption

\* Two hands that differ by k cards, when k is none or one.
LEMMA Levels ==
    ASSUME NEW n \in Nat, NEW m, NEW k, m = n + k
    PROVE  /\ k = 0 => m = n
           /\ k = 1 => m # 0
OBVIOUS

\* The larger of two piles is still the larger one when it grows.
LEMMA Larger ==
    ASSUME NEW m \in Nat, NEW n \in Nat, NEW k \in Nat, k > 0
    PROVE  /\ ~(m < n) => m >= n
           /\ ~(m > n) => m <= n
           /\ m > n => m >= n
           /\ m < n => m <= n
           /\ m >= n => m + k > n
           /\ m <= n => ~(m > n + k) /\ m < n + k
OBVIOUS

\* One announcement is one more message.
LEMMA OneMore ==
    ASSUME NEW S, NEW s \in Seq(S), NEW v
    PROVE  Append(s, v) = s \o [i \in 1..1 |-> v] /\ 1 \in 0..2
<1>1. s \in Seq(S \cup {v})
  OBVIOUS
<1> QED BY <1>1

\* The first two cards of a war are the two that tied.
LEMMA FirstTwo ==
    ASSUME NEW w \in Seq(Card), Len(w) >= 2
    PROVE  SubSeq(w, 1, 2) = <<w[1], w[2]>>
<1> DEFINE first == SubSeq(w, 1, 2)
<1>1. first \in Seq(Card) /\ Len(first) = 2 /\ first[1] = w[1] /\ first[2] = w[2]
  BY SubSeqProperties
<1> HIDE DEF first
<1>2. first = <<first[1], first[2]>>
  BY <1>1
<1> QED BY <1>1, <1>2, Zenon DEF first

\* A card is put on the table of a war that is not full yet.
LEMMA CardAdded ==
    ASSUME NEW w \in Seq(Card), NEW c \in Card,
           Len(w) \in 2..(2 + 2 * WarDraws), Len(w) # 2 + 2 * WarDraws
    PROVE  /\ Append(w, c) \in Seq(Card) /\ Len(Append(w, c)) = Len(w) + 1
           /\ Append(w, c)[1] = w[1] /\ Append(w, c)[2] = w[2]
           /\ Len(w) + 1 \in 2..(2 + 2 * WarDraws)
<1>1. /\ Append(w, c) \in Seq(Card) /\ Len(Append(w, c)) = Len(w) + 1
      /\ \A i \in 1..Len(w) : Append(w, c)[i] = w[i]
  BY AppendProperties
<1>2. 1 \in 1..Len(w) /\ 2 \in 1..Len(w)
  OBVIOUS
<1>3. Len(w) + 1 \in 2..(2 + 2 * WarDraws)
  BY CardsThreadsAssumption
<1> QED BY <1>1, <1>2, <1>3, Zenon

\* One of two cards is higher, or they are of the same rank.
LEMMA RanksCompare ==
    ASSUME NEW c \in Card, NEW d \in Card
    PROVE  /\ Rank[c] = Rank[d] => ~(Rank[c] > Rank[d]) /\ ~(Rank[c] < Rank[d])
           /\ Rank[c] > Rank[d] => ~(Rank[c] < Rank[d])
BY RepositoriesAssumption

\* Some card of a hand was dealt first, so a query that finds none finds an
\* empty hand.
LEMMA FirstDealt ==
    ASSUME NEW S \in SUBSET Card, S # {}, dealOrder \in [Card -> Int]
    PROVE  \E c \in S : \A d \in S : dealOrder[c] <= dealOrder[d]
<1> DEFINE Below(c) == {d \in S : dealOrder[d] < dealOrder[c]}
           Belows == {Below(c) : c \in S}
<1>1. IsFiniteSet(S)
  BY RepositoriesAssumption, FS_Subset, Zenon
<1>2. Belows \subseteq FiniteSubsetsOf(S)
  <2>1. ASSUME NEW c \in S PROVE Below(c) \in SUBSET S /\ IsFiniteSet(Below(c))
    <3>1. Below(c) \in SUBSET S
      BY Zenon
    <3> HIDE DEF Below
    <3> QED BY <1>1, <3>1, FS_Subset, Zenon
  <2> HIDE DEF Below
  <2> QED BY <2>1, Zenon DEF FiniteSubsetsOf
<1>3. PICK x \in Belows : \A y \in Belows : ~(<<y, x>> \in StrictSubsetOrdering(S))
  <2>1. Belows # {}
    BY Zenon
  <2> HIDE DEF Belows
  <2> QED BY <1>2, <2>1, FS_StrictSubsetOrderingWellFounded, WFMin, Zenon
<1>4. PICK c \in S : x = Below(c)
  BY <1>3, Zenon
<1>5. ASSUME NEW d \in S, ~(dealOrder[c] <= dealOrder[d]) PROVE FALSE
  <2>1. dealOrder[d] < dealOrder[c] /\ ~(dealOrder[d] < dealOrder[d])
    BY <1>5, SMT, Z3
  <2>2. \A e \in S : dealOrder[e] < dealOrder[d] => dealOrder[e] < dealOrder[c]
    BY <2>1
  <2>3. Below(d) \subseteq Below(c) /\ d \in Below(c) /\ d \notin Below(d)
    BY <2>1, <2>2, Zenon
  <2>4. Below(d) \in Belows /\ Below(d) \in SUBSET S /\ Below(c) \in SUBSET S
    BY Zenon
  <2> HIDE DEF Below
  <2>5. <<Below(d), Below(c)>> \in StrictSubsetOrdering(S)
    BY <2>3, <2>4, ZenonT(40) DEF StrictSubsetOrdering
  <2> QED BY <1>3, <1>4, <2>4, <2>5, ZenonT(40)
<1> QED BY <1>5, Zenon

\* drawNextCard answers null only to a player without cards.
LEMMA NoneLeft ==
    ASSUME TypeInv, NEW player, NextCards(player) = {}
    PROVE  Unplayed(player) = {}
<1>1. Unplayed(player) \in SUBSET Card /\ dealOrder \in [Card -> Int]
  BY Zenon DEF Unplayed, FindCardsByPlayer, TypeInv, ThreadsTypeOK, TablesTypeOK
<1> QED BY <1>1, FirstDealt, Zenon DEF NextCards

\* gameRound is player 2's turn.
LEMMA GameRoundFollows ==
    ASSUME RulesInv, TableInv', NEW t \in Thread, GameRound(t)
    PROVE  RulesInv' /\ [Rules!NextButTies]_(Rules!vars)
<1>1. /\ thread[t].pc = "round" /\ thread[t].pc \in {"round"} \cup WarPc
      /\ UNCHANGED <<cardPlayers, isPlayed, buttons, turns, played, winnerTopic>>
  BY Zenon DEF GameRound, At, requests, tables
<1>2. /\ thread[t].pc \notin Quiet /\ thread[t].op = "play2" /\ player2Turn
      /\ playedCard1 \in Card /\ playedCard2 \in Card /\ playedCard1 # NoCard
      /\ <<playedCard1, playedCard2>> \in Seq(Card)
      /\ IsInjective(<<playedCard1, playedCard2>>)
      /\ Range(<<playedCard1, playedCard2>>) = {playedCard1, playedCard2}
      /\ \A c \in {playedCard1, playedCard2} : OnTable(c)
  BY <1>1, CardsLie, Zenon
<1>3. TheTable = <<playedCard1>> /\ Hidden = {playedCard2}
  <2>1. TheTable = TableFor(t) /\ Hidden = HiddenFor(t)
    BY <1>2, Active, Zenon
  <2>2. thread[t].card = playedCard2
    BY <1>1, Zenon DEF RulesInv, Knows
  <2> QED BY <1>1, <1>2, <2>1, <2>2, ZenonT(40) DEF TableFor, HiddenFor, WarPc, ShowPc
<1>4. Level /\ TypeInv /\ Rules!MayAnnounce
  BY <1>1, NoAnnouncement, Zenon DEF RulesInv, TableInv, LockInv
<1>5. /\ Range(player1CapturedCards \o <<playedCard1, playedCard2>>)
            = Range(player1CapturedCards) \cup {playedCard1, playedCard2}
      /\ Range(player2CapturedCards \o <<playedCard1, playedCard2>>)
            = Range(player2CapturedCards) \cup {playedCard1, playedCard2}
  BY <1>2, PilesGain, Zenon
<1>6. /\ Hidden \cap Left2 = {} /\ Rest2 = Left2 \cup Hidden
      /\ Rest1 \subseteq Card /\ Rest2 \subseteq Card /\ Unplayed(Player2) \subseteq Left2
  <2>1. OwnHalf
    BY Zenon DEF RulesInv, TableInv, HalvesInv
  <2> QED BY <2>1, HiddenPlayed, Hands, ZenonT(40)
<1>7. \/ /\ Rank[playedCard1] > Rank[playedCard2]
         /\ Capture1(<<playedCard1, playedCard2>>) /\ Goto(t, "return2")
      \/ /\ Rank[playedCard1] < Rank[playedCard2]
         /\ Capture2(<<playedCard1, playedCard2>>) /\ Goto(t, "return2")
      \/ /\ Rank[playedCard1] = Rank[playedCard2] /\ UNCHANGED piles
         /\ thread' = [thread EXCEPT ![t].warCards = <<playedCard1, playedCard2>>,
                                     ![t].pc = "draw"]
  BY <1>2, Zenon DEF GameRound
<1>8. /\ TheTable' = IF Rank[playedCard1] = Rank[playedCard2]
                     THEN <<playedCard1, playedCard2>> ELSE <<>>
      /\ Hidden' = {} /\ (Level' => RulesInv')
      /\ \A p : FindCardsByPlayer(p)' = FindCardsByPlayer(p) /\ Unplayed(p)' = Unplayed(p)
      /\ Rest1' = Rest1 /\ Rest2' = Left2 /\ Half1' = Half1 /\ Half2' = Half2
  <2>1. CASE Rank[playedCard1] = Rank[playedCard2]
    <3>1. thread' = [thread EXCEPT ![t].warCards = <<playedCard1, playedCard2>>,
                                   ![t].pc = "draw"]
      BY <1>2, <1>7, <2>1, RanksCompare, ZenonT(40)
    <3> QED BY <1>1, <2>1, <3>1, WarBegins, ZenonT(40)
  <2>2. CASE Rank[playedCard1] # Rank[playedCard2]
    BY <1>1, <1>7, <2>2, RoundEnds, ZenonT(40)
  <2> QED BY <2>1, <2>2, Zenon
<1>9. Level'
  <2>1. 1 = Len(TheTable) % 2
    BY <1>3, SMT, Z3
  <2>2. 0 = Len(TheTable') % 2
    BY <1>8, SMT, Z3
  <2>3. playedCard2 \in Rest2 /\ Rest2' = Rest2 \ {playedCard2}
    BY <1>3, <1>6, <1>8, Zenon
  <2> QED BY <1>4, <1>6, <1>8, <2>1, <2>2, <2>3, LevelStep, ZenonT(40)
<1>10. Rules!Reveal2
  <2>1. Len(TheTable) = 1 /\ TheTable[1] = playedCard1
    BY <1>3
  <2>2. /\ playedCard2 \in Unplayed(Player2) \cup Hidden
        /\ Unplayed(Player2)' \cup Hidden' = (Unplayed(Player2) \cup Hidden) \ {playedCard2}
    BY <1>3, <1>6, <1>8, Zenon
  <2>3. CASE Rank[playedCard1] = Rank[playedCard2]
    <3>1. UNCHANGED piles
      BY <1>2, <1>7, <2>3, RanksCompare, Zenon
    <3>2. Range(player1CapturedCards)' = Range(player1CapturedCards)
          /\ Range(player2CapturedCards)' = Range(player2CapturedCards)
      BY <3>1, Zenon DEF piles
    <3> QED BY <1>4, <1>8, <2>1, <2>2, <2>3, <3>2, RulesOperators, ZenonT(40) DEF Rules!Reveal2
  <2>4. CASE Rank[playedCard1] > Rank[playedCard2]
    <3>1. Rank[playedCard1] # Rank[playedCard2] /\ Capture1(<<playedCard1, playedCard2>>)
      BY <1>2, <1>7, <2>4, RanksCompare, Zenon
    <3>2. /\ Range(player1CapturedCards)' = Range(player1CapturedCards) \cup {playedCard1, playedCard2}
          /\ Range(player2CapturedCards)' = Range(player2CapturedCards)
      BY <1>5, <3>1, Zenon DEF Capture1
    <3>3. Rules!Take1({playedCard1, playedCard2})
      BY <1>8, <3>1, <3>2, RulesOperators, ZenonT(40) DEF Rules!Take1
    <3> QED BY <1>4, <1>8, <2>1, <2>2, <2>4, <3>3, ZenonT(40) DEF Rules!Reveal2
  <2>5. CASE Rank[playedCard1] < Rank[playedCard2]
    <3>1. Rank[playedCard1] # Rank[playedCard2] /\ Capture2(<<playedCard1, playedCard2>>)
      BY <1>2, <1>7, <2>5, RanksCompare, Zenon
    <3>2. /\ Range(player2CapturedCards)' = Range(player2CapturedCards) \cup {playedCard1, playedCard2}
          /\ Range(player1CapturedCards)' = Range(player1CapturedCards)
      BY <1>5, <3>1, ZenonT(40) DEF Capture2
    <3>3. Rules!Take2({playedCard1, playedCard2})
      BY <1>8, <3>1, <3>2, RulesOperators, Zenon DEF Rules!Take2
    <3> QED BY <1>4, <1>8, <2>1, <2>2, <2>5, <3>3, ZenonT(40) DEF Rules!Reveal2
  <2> QED BY <1>7, <2>3, <2>4, <2>5, ZenonT(40)
<1> QED BY <1>8, <1>9, <1>10, ZenonT(40) DEF Rules!Next, Rules!NextButTies

\* In a war its cards are the table, and both hands are dealt.
LEMMA InWar ==
    ASSUME RulesInv, NEW t \in Thread, thread[t].pc \in WarPc
    PROVE  /\ thread[t].pc \notin Quiet /\ thread[t].op = "play2" /\ player2Turn
           /\ thread[t].warCards \in Seq(Card) /\ IsInjective(thread[t].warCards)
           /\ \A c \in Range(thread[t].warCards) : OnTable(c)
           /\ Len(thread[t].warCards) \in 2..(2 + 2 * WarDraws)
           /\ thread[t].pc = "compare" <=> Len(thread[t].warCards) = 2 + 2 * WarDraws
           /\ thread[t].warCards[1] = playedCard1 /\ thread[t].warCards[2] = playedCard2
           /\ TheTable = thread[t].warCards /\ Hidden = {}
           /\ Unplayed(Player1) = Rest1 /\ Unplayed(Player2) = Rest2 /\ Left2 = Rest2
           /\ Rest1 \subseteq Card /\ Rest2 \subseteq Card
<1>1. thread[t].pc \notin Quiet /\ thread[t].op = "play2" /\ player2Turn
  BY CardsLie, Zenon
<1>2. thread[t] \in PlayHandler /\ TheTable = TableFor(t) /\ Hidden = HiddenFor(t)
  BY <1>1, Active, Zenon
<1>3. TheTable = thread[t].warCards /\ Hidden = {}
  BY <1>2, Zenon DEF TableFor, HiddenFor, WarPc
<1>4. thread[t].warCards \in Seq(Card)
  BY <1>2, Zenon DEF PlayHandler
<1>5. CardsOf(t) /\ Knows(t)
  BY Zenon DEF RulesInv, TableInv
<1>6. /\ Len(thread[t].warCards) \in 2..(2 + 2 * WarDraws)
      /\ thread[t].pc = "compare" <=> Len(thread[t].warCards) = 2 + 2 * WarDraws
      /\ thread[t].warCards[1] = playedCard1 /\ thread[t].warCards[2] = playedCard2
  BY <1>5, Zenon DEF Knows, WarPc
<1>7. IsInjective(thread[t].warCards) /\ \A c \in Range(thread[t].warCards) : OnTable(c)
  BY <1>5, Zenon DEF CardsOf, WarPc
<1>8. /\ Unplayed(Player1) = Rest1 /\ Unplayed(Player2) = Left2 /\ Rest2 = Left2
      /\ Rest1 \subseteq Card /\ Rest2 \subseteq Card
  BY <1>1, <1>3, BothDealt, HiddenPlayed, Zenon DEF WarPc
<1> QED BY <1>1, <1>3, <1>4, <1>6, <1>7, <1>8, ZenonT(40)

\* drawNextCard's query, also when it finds nothing, changes nothing yet.
LEMMA WarQueryFollows ==
    ASSUME RulesInv, TableInv', NEW t \in Thread, WarQuery(t)
    PROVE  RulesInv' /\ [Rules!NextButTies]_(Rules!vars)
<1>1. /\ thread[t].pc = "draw" /\ thread[t].pc \in WarPc
      /\ UNCHANGED <<cardPlayers, isPlayed, dealOrder, buttons, turns, played, piles, winnerTopic>>
  BY Zenon DEF WarQuery, At, requests, tables, WarPc
<1>2. PICK card \in Pick(Drawer(t)) :
         thread' = [thread EXCEPT ![t].card = card, ![t].order = OrderOf(card),
                                  ![t].pc = IF card = NoCard THEN "runOut" ELSE "drawn"]
  BY Zenon DEF WarQuery
<1>3. /\ thread[t].pc \notin Quiet /\ thread[t].op = "play2"
      /\ Len(thread[t].warCards) \in 2..(2 + 2 * WarDraws)
      /\ Len(thread[t].warCards) # 2 + 2 * WarDraws
      /\ thread[t].warCards[1] = playedCard1 /\ thread[t].warCards[2] = playedCard2
  BY <1>1, InWar, Zenon
<1>4. /\ thread \in [Thread -> Handler] /\ thread[t] \in PlayHandler /\ TypeInv /\ Knows(t)
  BY <1>3, Active, Zenon DEF RulesInv, TableInv, LockInv
<1>5. /\ thread'[t].pc = IF card = NoCard THEN "runOut" ELSE "drawn"
      /\ thread'[t].op = thread[t].op /\ thread'[t].last = thread[t].last
      /\ thread'[t].warCards = thread[t].warCards
      /\ \A u \in Thread : u # t => thread'[u] = thread[u]
  BY <1>2, <1>4, ZenonT(40) DEF PlayHandler
<1>6. thread'[t].pc \in {"runOut", "drawn"} /\ (thread'[t].pc = "runOut" => card = NoCard)
  BY <1>5, SMT, Z3
<1>7. /\ playedCard1' = playedCard1 /\ playedCard2' = playedCard2 /\ player2Turn' = player2Turn
      /\ \A p : Unplayed(p)' = Unplayed(p)
  BY <1>1, Zenon DEF played, turns, Unplayed, FindCardsByPlayer
<1>8. TableFor(t)' = TableFor(t) /\ HiddenFor(t)' = HiddenFor(t)
  BY <1>1, <1>5, <1>6, Zenon DEF TableFor, HiddenFor, WarPc
<1>9. Knows(t)'
  <2>1. ASSUME card = NoCard PROVE Unplayed(Drawer(t))' = {}
    <3>1. NextCards(Drawer(t)) \subseteq Card
      BY Zenon DEF NextCards, Unplayed, FindCardsByPlayer
    <3>2. NextCards(Drawer(t)) = {}
      BY <1>2, <2>1, <3>1, RepositoriesAssumption, ZenonT(40) DEF Pick
    <3>3. Unplayed(Drawer(t)) = {}
      BY <1>4, <3>2, NoneLeft, Zenon
    <3>4. Drawer(t)' = Drawer(t)
      BY <1>5, Zenon DEF Drawer
    <3> QED BY <1>7, <3>3, <3>4, Zenon
  <2>2. thread[t].last => Unplayed(Player2)' \subseteq {}
    BY <1>1, <1>3, <1>4, <1>7, ZenonT(40) DEF Knows
  <2> QED BY <1>3, <1>5, <1>6, <1>7, <2>1, <2>2, ZenonT(40) DEF Knows
<1> QED BY <1>1, <1>3, <1>5, <1>7, <1>8, <1>9, StillTable, ZenonT(40)

\* A card drawn in a war goes from its player's hand to the table.
LEMMA WarSaveFollows ==
    ASSUME RulesInv, TableInv', NEW t \in Thread, WarSave(t)
    PROVE  RulesInv' /\ [Rules!NextButTies]_(Rules!vars)
<1>1. /\ thread[t].pc = "drawn" /\ thread[t].pc \in WarPc
      /\ Save(thread[t].card, Drawer(t), thread[t].order, TRUE)
      /\ thread' = [thread EXCEPT
             ![t].warCards = Append(thread[t].warCards, thread[t].card),
             ![t].pc = IF Len(thread[t].warCards) + 1 = 2 + 2 * WarDraws
                       THEN "compare" ELSE "draw"]
      /\ UNCHANGED <<buttons, turns, played, piles, winnerTopic>>
  BY Zenon DEF WarSave, At, requests, WarPc
<1>2. /\ thread[t].pc \notin Quiet /\ thread[t].op = "play2" /\ player2Turn
      /\ thread[t].warCards \in Seq(Card)
      /\ Len(thread[t].warCards) \in 2..(2 + 2 * WarDraws)
      /\ Len(thread[t].warCards) # 2 + 2 * WarDraws
      /\ thread[t].warCards[1] = playedCard1 /\ thread[t].warCards[2] = playedCard2
      /\ TheTable = thread[t].warCards /\ Hidden = {}
      /\ Left2 = Rest2 /\ Rest1 \subseteq Card /\ Rest2 \subseteq Card
  BY <1>1, InWar, Zenon
<1>3. /\ thread \in [Thread -> Handler] /\ thread[t] \in PlayHandler /\ Player2 \in buttons
      /\ \A u \in Thread : u # t => thread[u].pc \in Quiet
  BY <1>2, Active, Zenon DEF Player
<1>4. /\ TypeInv /\ OwnHalf /\ CardsOf(t) /\ Knows(t) /\ Level /\ LockInv'
  BY Zenon DEF RulesInv, TableInv, LockInv, HalvesInv
<1>5. PICK card : card = thread[t].card
  BY Zenon
<1>6. PICK player \in {Player1, Player2} : player = Drawer(t)
  BY Zenon DEF Drawer
<1>7. PICK w \in Seq(Card) : w = thread[t].warCards
  BY <1>2, Zenon
<1>8. card \in Unplayed(player)
  BY <1>1, <1>4, <1>5, <1>6, ZenonT(40) DEF CardsOf, InHand
<1>9. /\ cardPlayers' = cardPlayers /\ card \in Card
      /\ \A c \in Card : isPlayed[c] => isPlayed'[c]
      /\ \A p : FindCardsByPlayer(p)' = FindCardsByPlayer(p)
      /\ Unplayed(player)' = Unplayed(player) \ {card}
      /\ \A p : p # player => Unplayed(p)' = Unplayed(p)
      /\ player = Player1 => card \in Rest1 /\ Rest1' = Rest1 \ {card} /\ Left2' = Left2
      /\ player = Player2 => card \in Left2 /\ Left2' = Left2 \ {card} /\ Rest1' = Rest1
  <2>1. PICK order : order = thread[t].order
    BY Zenon
  <2>2. Save(card, player, order, TRUE)
    BY <1>1, <1>5, <1>6, <2>1, ZenonT(40)
  <2> QED BY <1>4, <1>8, <2>2, CardLeaves, ZenonT(40)
<1>10. /\ thread'[t].warCards = Append(w, card) /\ thread'[t].op = "play2"
       /\ thread'[t].pc = IF Len(w) + 1 = 2 + 2 * WarDraws THEN "compare" ELSE "draw"
       /\ thread'[t].last = thread[t].last
       /\ \A u \in Thread : u # t => thread'[u] = thread[u]
  BY <1>1, <1>2, <1>3, <1>5, <1>7, ZenonT(40) DEF PlayHandler
<1>11. /\ Append(w, card) \in Seq(Card) /\ Len(Append(w, card)) = Len(w) + 1
       /\ Append(w, card)[1] = w[1] /\ Append(w, card)[2] = w[2]
       /\ Len(w) + 1 \in 2..(2 + 2 * WarDraws)
  BY <1>2, <1>7, <1>9, CardAdded, ZenonT(40)
<1>12. /\ thread'[t].pc \in {"draw", "compare"} /\ thread'[t].pc \in WarPc
       /\ thread'[t].pc = "compare" <=> Len(w) + 1 = 2 + 2 * WarDraws
  BY <1>10 DEF WarPc
<1>13. TheTable' = Append(w, card) /\ Hidden' = {}
  <2>1. \A u \in Thread : u # t => thread'[u].pc \in Quiet
    BY <1>3, <1>10, Zenon
  <2>2. TheTable' = TableFor(t)' /\ Hidden' = HiddenFor(t)'
    BY <1>4, <2>1, TableThen, Zenon
  <2> QED BY <1>10, <1>12, <2>2, ZenonT(40) DEF TableFor, HiddenFor, WarPc
<1>14. /\ playedCard1' = playedCard1 /\ playedCard2' = playedCard2 /\ player2Turn' = player2Turn
       /\ player1CapturedCards' = player1CapturedCards
       /\ player2CapturedCards' = player2CapturedCards /\ Half1' = Half1 /\ Half2' = Half2
  BY <1>1, Zenon DEF played, turns, piles, Half1, Half2
<1>15. Rest2' = Left2'
  BY <1>13, Zenon DEF Rest2, Left2
<1>16. Knows(t)'
  <2>1. thread[t].last => Unplayed(Player2)' \subseteq {}
    <3>1. thread[t].last => Unplayed(Player2) \subseteq {}
      BY <1>1, <1>2, <1>4, ZenonT(40) DEF Knows
    <3> QED BY <1>9, <3>1, Zenon
  <2>2. PICK v : v = Append(w, card)
    BY Zenon
  <2>3. /\ Len(v) \in 2..(2 + 2 * WarDraws) /\ v[1] = playedCard1 /\ v[2] = playedCard2
        /\ thread'[t].pc = "compare" <=> Len(v) = 2 + 2 * WarDraws
        /\ thread'[t].warCards = v
    BY <1>2, <1>7, <1>10, <1>11, <1>12, <2>2, ZenonT(40)
  <2> QED BY <1>10, <1>12, <1>14, <2>1, <2>3, ZenonT(40) DEF Knows
<1>17. ASSUME Level' PROVE RulesInv'
  <2>1. /\ thread'[t].op \in {"play1", "play2"} => Player(thread'[t].op) \in buttons
        /\ player2Turn' => player2Turn \/ Player1 \in buttons
        /\ \A u \in Thread : u # t => thread[u].pc \in Quiet /\ thread'[u] = thread[u]
        /\ UNCHANGED <<cardPlayers, buttons>>
    BY <1>1, <1>3, <1>9, <1>10, <1>14, ZenonT(40) DEF Player
  <2> QED BY <1>9, <1>16, <1>17, <2>1, RulesStepOf, ZenonT(40)
<1>18. Rules!AtWar /\ ~Rules!AllDrawn
  <2>1. Len(TheTable) >= 2 /\ Len(TheTable) # 2 + 2 * WarDraws
    BY <1>2, FullTable, ZenonT(40)
  <2> QED BY <2>1, Zenon DEF Rules!AtWar, Rules!AllDrawn
<1>19. CASE Len(w) % 2 = 0
  <2>1. player = Player1
    BY <1>6, <1>7, <1>19, ZenonT(40) DEF Drawer
  <2>2. 0 = Len(TheTable) % 2 /\ 1 = Len(TheTable') % 2
    <3>1. PICK n \in Nat : n = Len(w)
      BY <1>7, LenProperties, ZenonT(40)
    <3>2. Len(TheTable) = n /\ Len(TheTable') = n + 1
      BY <1>2, <1>7, <1>11, <1>13, <3>1, ZenonT(40)
    <3>3. 0 = n % 2 /\ 1 = (n + 1) % 2
      BY <1>19, <3>1, Parity, Zenon
    <3> QED BY <3>2, <3>3, Zenon
  <2>3. Rest2' = Rest2 /\ card \in Rest1 /\ Rest1' = Rest1 \ {card}
    BY <1>2, <1>9, <1>15, <2>1, ZenonT(40)
  <2>4. Level'
    BY <1>2, <1>4, <2>2, <2>3, LevelStep, ZenonT(40)
  <2>5. Player1 # Player2
    BY CardsThreadsAssumption, Zenon
  <2>6. /\ card \in Unplayed(Player1) /\ Unplayed(Player1)' = Unplayed(Player1) \ {card}
        /\ Unplayed(Player2)' \cup Hidden' = Unplayed(Player2) \cup Hidden
    BY <1>2, <1>8, <1>9, <1>13, <2>1, <2>5, ZenonT(40)
  <2>7. Rules!WarDraw
    BY <1>1, <1>2, <1>7, <1>9, <1>13, <1>14, <1>18, <2>2, <2>6, ZenonT(40) DEF Rules!WarDraw
  <2> QED BY <1>17, <2>4, <2>7, Zenon DEF Rules!Next, Rules!NextButTies
<1>20. CASE Len(w) % 2 # 0
  <2>1. player = Player2
    BY <1>6, <1>7, <1>20, ZenonT(40) DEF Drawer
  <2>2. 1 = Len(TheTable) % 2 /\ 0 = Len(TheTable') % 2
    <3>1. PICK n \in Nat : n = Len(w)
      BY <1>7, LenProperties, Zenon
    <3>2. Len(TheTable) = n /\ Len(TheTable') = n + 1
      BY <1>2, <1>7, <1>11, <1>13, <3>1, Zenon
    <3>3. 1 = n % 2 /\ 0 = (n + 1) % 2
      BY <1>20, <3>1, Parity, Zenon
    <3> QED BY <3>2, <3>3, ZenonT(40)
  <2>3. Rest1' = Rest1 /\ card \in Rest2 /\ Rest2' = Rest2 \ {card}
    BY <1>2, <1>9, <1>15, <2>1, ZenonT(40)
  <2>4. Level'
    BY <1>2, <1>4, <2>2, <2>3, LevelStep, ZenonT(40)
  <2>5. Player1 # Player2
    BY CardsThreadsAssumption, Zenon
  <2>6. /\ card \in Unplayed(Player2) \cup Hidden
        /\ Unplayed(Player2)' \cup Hidden' = (Unplayed(Player2) \cup Hidden) \ {card}
        /\ Unplayed(Player1)' = Unplayed(Player1)
    BY <1>2, <1>8, <1>9, <1>13, <2>1, <2>5, ZenonT(40)
  <2>7. Rules!WarDraw
    BY <1>1, <1>2, <1>7, <1>9, <1>13, <1>14, <1>18, <2>2, <2>6, ZenonT(40) DEF Rules!WarDraw
  <2> QED BY <1>17, <2>4, <2>7, Zenon DEF Rules!Next, Rules!NextButTies
<1> QED BY <1>19, <1>20, Zenon

\* The winner is announced once, to two players without cards.
LEMMA OneAnnouncement ==
    ASSUME TypeInv, TypeInv', NEW v, winnerTopic' = Append(winnerTopic, v), Rules!Verdict' = v,
           Unplayed(Player1)' = {}, Unplayed(Player2)' \cup Hidden' = {}
    PROVE  Rules!MayAnnounce
<1>1. PICK S : winnerTopic \in Seq(S)
  BY Zenon DEF TypeInv, ThreadsTypeOK
<1>2. Append(winnerTopic, v) = winnerTopic \o [i \in 1..1 |-> v] /\ 1 \in 0..2
  BY <1>1, OneMore, Zenon
<1>3. winnerTopic' = winnerTopic \o [i \in 1..1 |-> Rules!Verdict']
  BY <1>2, Zenon
<1> QED BY <1>2, <1>3, Zenon DEF Rules!MayAnnounce

\* A war without a card to draw: both hands are empty, and who leads takes the
\* table and still leads.
LEMMA WarRunsOutFollows ==
    ASSUME RulesInv, TableInv', NEW t \in Thread, WarRunsOut(t), Username1 # Username2
    PROVE  RulesInv' /\ [Rules!NextButTies]_(Rules!vars)
<1>1. /\ thread[t].pc = "runOut" /\ thread[t].pc \in WarPc
      /\ winnerTopic' = Append(winnerTopic, Verdict) /\ Goto(t, "return2")
      /\ UNCHANGED <<cardPlayers, isPlayed, buttons, turns, played>>
  BY Zenon DEF WarRunsOut, At, requests, tables, WarPc
<1>2. PICK w : w = thread[t].warCards
  BY Zenon
<1>3. /\ w \in Seq(Card) /\ IsInjective(w) /\ \A c \in Range(w) : OnTable(c)
      /\ Len(w) \in 2..(2 + 2 * WarDraws) /\ Len(w) # 2 + 2 * WarDraws
      /\ TheTable = w /\ Hidden = {}
      /\ Unplayed(Player1) = Rest1 /\ Unplayed(Player2) = Rest2 /\ Left2 = Rest2
      /\ Rest1 \subseteq Card /\ Rest2 \subseteq Card
  BY <1>1, <1>2, InWar, ZenonT(40)
<1>4. TypeInv /\ TypeInv' /\ Level /\ Knows(t) /\ TableInv
  BY Zenon DEF RulesInv, TableInv, LockInv
<1>5. /\ TheTable' = <<>> /\ Hidden' = {} /\ (Level' => RulesInv')
      /\ \A p : FindCardsByPlayer(p)' = FindCardsByPlayer(p) /\ Unplayed(p)' = Unplayed(p)
      /\ Rest1' = Rest1 /\ Rest2' = Rest2 /\ Half1' = Half1 /\ Half2' = Half2
  BY <1>1, <1>3, RoundEnds, ZenonT(40)
<1>6. Rest1 = {} /\ Rest2 = {} /\ Len(w) % 2 = 0
  <2>1. Unplayed(Drawer(t)) = {}
    BY <1>1, <1>4, Zenon DEF Knows
  <2>2. PICK n \in Nat : n = Cardinality(Rest1) /\ (n = 0 <=> Rest1 = {})
    BY <1>3, CardsCount, Zenon
  <2>3. PICK m \in Nat : m = Cardinality(Rest2) /\ (m = 0 <=> Rest2 = {})
    BY <1>3, CardsCount, Zenon
  <2>4. PICK k \in Nat : k = Len(w)
    BY <1>3, LenProperties, Zenon
  <2>5. m = n + (k % 2)
    BY <1>3, <1>4, <2>2, <2>3, <2>4, ZenonT(40) DEF Level
  <2>6. /\ k % 2 = 0 => Rest1 = {}
        /\ k % 2 # 0 => Rest2 = {}
    BY <1>2, <1>3, <2>1, <2>4, ZenonT(40) DEF Drawer
  <2>7. n = 0 /\ m = 0 /\ k % 2 = 0
    <3>1. k % 2 = 0 \/ k % 2 = 1
      BY <2>4, Parity, Zenon
    <3>2. CASE k % 2 = 0
      <4>1. n = 0
        BY <2>2, <2>6, <3>2, Zenon
      <4>2. m = 0
        BY <2>2, <2>5, <3>2, <4>1, Levels, Zenon
      <4> QED BY <3>2, <4>1, <4>2, Zenon
    <3>3. CASE k % 2 = 1
      <4>1. m # 0 /\ k % 2 # 0
        BY <2>2, <2>4, <2>5, <3>3, Levels, Parity, Zenon
      <4> QED BY <2>3, <2>6, <4>1, Zenon
    <3> QED BY <3>1, <3>2, <3>3, Zenon
  <2> QED BY <2>2, <2>3, <2>4, <2>7, ZenonT(40)
<1>7. RulesInv'
  <2>1. 0 = Len(TheTable) % 2 /\ 0 = Len(TheTable') % 2
    <3>1. 0 = Len(TheTable) % 2
      BY <1>3, <1>6, Zenon
    <3>2. 0 = Len(TheTable') % 2
      BY <1>5, SMT, Z3
    <3> QED BY <3>1, <3>2, Zenon
  <2>2. Level'
    BY <1>3, <1>4, <1>5, <2>1, LevelStep, ZenonT(40)
  <2> QED BY <1>5, <2>2, Zenon
<1>8. /\ Range(player1CapturedCards \o w) = Range(player1CapturedCards) \cup Range(w)
      /\ Range(player2CapturedCards \o w) = Range(player2CapturedCards) \cup Range(w)
  BY <1>3, PilesGain, Zenon
<1>9. /\ Unplayed(Player1) = {} /\ Unplayed(Player2) \cup Hidden = {}
      /\ Unplayed(Player1)' = {} /\ Unplayed(Player2)' \cup Hidden' = {}
  BY <1>3, <1>5, <1>6, Zenon
<1>10. Rules!AtWar /\ ~Rules!AllDrawn
  <2>1. Len(TheTable) >= 2 /\ Len(TheTable) # 2 + 2 * WarDraws
    BY <1>3, FullTable, ZenonT(40)
  <2> QED BY <2>1, Zenon DEF Rules!AtWar, Rules!AllDrawn
<1>11. Rules!Verdict = Verdict /\ Rules!Verdict' = Verdict'
  BY <1>4, RulesVerdict, Zenon
<1>12. ASSUME Verdict' = Verdict PROVE Rules!MayAnnounce
  <2>1. PICK v : v = Verdict
    BY Zenon
  <2>2. winnerTopic' = Append(winnerTopic, v) /\ Rules!Verdict' = v
    BY <1>1, <1>11, <1>12, <2>1, ZenonT(40)
  <2> QED BY <1>4, <1>9, <2>2, OneAnnouncement, ZenonT(40)
<1>13. PICK a \in Nat, b \in Nat, k \in Nat :
          /\ a = Len(player1CapturedCards) /\ b = Len(player2CapturedCards)
          /\ k = Len(w) /\ k > 0
          /\ Len(player1CapturedCards \o w) = a + k /\ Len(player2CapturedCards \o w) = b + k
  <2>1. player1CapturedCards \in Seq(Card) /\ player2CapturedCards \in Seq(Card)
    BY <1>4, Zenon DEF TypeInv, ThreadsTypeOK
  <2>2. /\ Len(player1CapturedCards \o w) = Len(player1CapturedCards) + Len(w)
        /\ Len(player2CapturedCards \o w) = Len(player2CapturedCards) + Len(w)
    BY <1>3, <2>1, ConcatProperties, ZenonT(40)
  <2>3. Len(player1CapturedCards) \in Nat /\ Len(player2CapturedCards) \in Nat /\ Len(w) \in Nat
    BY <1>3, <2>1, LenProperties, ZenonT(40)
  <2>4. Len(w) > 0
    BY <1>3, FullTable, Zenon
  <2> QED BY <2>2, <2>3, <2>4, ZenonT(40)
<1>14. CASE Verdict = Username1 /\ Capture1(w)
  <2>1. a >= b
    BY <1>13, <1>14, Larger, ZenonT(40) DEF Verdict
  <2>2. Len(player1CapturedCards') = a + k /\ Len(player2CapturedCards') = b
    BY <1>13, <1>14, Zenon DEF Capture1
  <2>3. Verdict' = Username1
    <3>1. a + k > b
      BY <1>13, <2>1, Larger, ZenonT(40)
    <3> QED BY <2>2, <3>1, Zenon DEF Verdict
  <2>4. Rules!MayAnnounce
    BY <1>12, <1>14, <2>3, ZenonT(40)
  <2>5. /\ Range(player1CapturedCards)' = Range(player1CapturedCards) \cup Range(w)
        /\ Range(player2CapturedCards)' = Range(player2CapturedCards)
    BY <1>8, <1>14, Zenon DEF Capture1
  <2>6. Rules!Take1(Rules!Range(TheTable))
    BY <1>3, <1>5, <2>5, RulesOperators, ZenonT(40) DEF Rules!Take1
  <2>7. Rules!WarRunsOut
    BY <1>5, <1>9, <1>10, <1>11, <1>14, <2>4, <2>6, ZenonT(40) DEF Rules!WarRunsOut
  <2> QED BY <1>7, <2>7, Zenon DEF Rules!Next, Rules!NextButTies
<1>15. CASE Verdict = Username2 /\ Capture2(w)
  <2>1. a <= b
    BY <1>13, <1>15, Larger, ZenonT(40) DEF Verdict
  <2>2. Len(player1CapturedCards') = a /\ Len(player2CapturedCards') = b + k
    BY <1>13, <1>15, ZenonT(40) DEF Capture2
  <2>3. Verdict' = Username2
    <3>1. ~(a > b + k) /\ a < b + k
      BY <1>13, <2>1, Larger, ZenonT(40)
    <3> QED BY <2>2, <3>1, ZenonT(40) DEF Verdict
  <2>4. Rules!MayAnnounce
    BY <1>12, <1>15, <2>3, ZenonT(40)
  <2>5. /\ Range(player2CapturedCards)' = Range(player2CapturedCards) \cup Range(w)
        /\ Range(player1CapturedCards)' = Range(player1CapturedCards)
    BY <1>8, <1>15, ZenonT(40) DEF Capture2
  <2>6. Rules!Take2(Rules!Range(TheTable))
    BY <1>3, <1>5, <2>5, RulesOperators, Zenon DEF Rules!Take2
  <2>7. Rules!WarRunsOut
    BY <1>5, <1>9, <1>10, <1>11, <1>15, <2>4, <2>6, ZenonT(40) DEF Rules!WarRunsOut
  <2> QED BY <1>7, <2>7, Zenon DEF Rules!Next, Rules!NextButTies
<1>16. CASE Verdict \notin {Username1, Username2} /\ UNCHANGED piles
  <2>1. Verdict = Tie
    BY <1>16, Zenon DEF Verdict
  <2>2. /\ player1CapturedCards' = player1CapturedCards
        /\ player2CapturedCards' = player2CapturedCards
    BY <1>16, ZenonT(40) DEF piles
  <2>3. Verdict' = Verdict
    BY <2>2, ZenonT(40) DEF Verdict
  <2>4. Rules!MayAnnounce
    BY <1>12, <2>3, ZenonT(40)
  <2>5. Rules!WarRunsOut
    BY <1>5, <1>9, <1>10, <1>11, <2>1, <2>2, <2>4, ZenonT(40) DEF Rules!WarRunsOut
  <2> QED BY <1>7, <2>5, Zenon DEF Rules!Next, Rules!NextButTies
<1> QED BY <1>2, <1>14, <1>15, <1>16, ZenonT(40) DEF WarRunsOut

\* The last two cards of a war decide it, or another begins.
LEMMA WarCompareFollows ==
    ASSUME RulesInv, TableInv', NEW t \in Thread, WarCompare(t)
    PROVE  RulesInv' /\ [Rules!NextButTies]_(Rules!vars)
<1>1. /\ thread[t].pc = "compare" /\ thread[t].pc \in WarPc
      /\ UNCHANGED <<cardPlayers, isPlayed, buttons, turns, played, winnerTopic>>
  BY Zenon DEF WarCompare, At, requests, tables, WarPc
<1>2. PICK w, last1, last2 : /\ w = thread[t].warCards
                             /\ last1 = w[Len(w) - 1] /\ last2 = w[Len(w)]
  BY Zenon
<1>3. /\ w \in Seq(Card) /\ IsInjective(w) /\ \A c \in Range(w) : OnTable(c)
      /\ Len(w) = 2 + 2 * WarDraws /\ w[1] = playedCard1 /\ w[2] = playedCard2
      /\ TheTable = w /\ Hidden = {}
      /\ Left2 = Rest2 /\ Rest1 \subseteq Card /\ Rest2 \subseteq Card
  BY <1>1, <1>2, InWar, ZenonT(40)
<1>4. Level /\ TypeInv /\ Rules!MayAnnounce
  BY <1>1, NoAnnouncement, ZenonT(40) DEF RulesInv, TableInv, LockInv
<1>5. /\ Range(player1CapturedCards \o w) = Range(player1CapturedCards) \cup Range(w)
      /\ Range(player2CapturedCards \o w) = Range(player2CapturedCards) \cup Range(w)
  BY <1>3, PilesGain, ZenonT(40)
<1>6. /\ Rules!AllDrawn /\ 0 = Len(TheTable) % 2 /\ Len(w) \in Nat /\ Len(w) >= 2
  <2>1. Len(TheTable) = 2 + 2 * WarDraws
    BY <1>3, Zenon
  <2>2. 0 = (2 + 2 * WarDraws) % 2 /\ 2 + 2 * WarDraws \in Nat /\ 2 + 2 * WarDraws >= 2
    BY FullTable, Zenon
  <2> QED BY <1>3, <2>1, <2>2, ZenonT(40) DEF Rules!AllDrawn
<1>7. ASSUME /\ TheTable' = <<>> \/ TheTable' = <<playedCard1, playedCard2>>
             /\ Level' => RulesInv'
             /\ Rest1' = Rest1 /\ Rest2' = Left2
      PROVE  RulesInv'
  <2>1. 0 = Len(TheTable') % 2
    <3>1. 0 = Len(<<>>) % 2 /\ 0 = Len(<<playedCard1, playedCard2>>) % 2
      OBVIOUS
    <3> QED BY <1>7, <3>1, ZenonT(40)
  <2>2. Level'
    BY <1>3, <1>4, <1>6, <1>7, <2>1, LevelStep, ZenonT(40)
  <2> QED BY <1>7, <2>2, ZenonT(40)
<1>8. CASE Rank[last1] > Rank[last2] /\ Capture1(w) /\ Goto(t, "return2")
  <2>1. /\ TheTable' = <<>> /\ Hidden' = {} /\ (Level' => RulesInv')
        /\ \A p : FindCardsByPlayer(p)' = FindCardsByPlayer(p) /\ Unplayed(p)' = Unplayed(p)
        /\ Rest1' = Rest1 /\ Rest2' = Left2 /\ Half1' = Half1 /\ Half2' = Half2
    BY <1>1, <1>8, RoundEnds, ZenonT(40)
  <2>2. /\ Range(player1CapturedCards)' = Range(player1CapturedCards) \cup Range(w)
        /\ Range(player2CapturedCards)' = Range(player2CapturedCards)
    BY <1>5, <1>8, ZenonT(40) DEF Capture1
  <2>3. Rules!Take1(Rules!Range(TheTable))
    BY <1>3, <2>1, <2>2, RulesOperators, ZenonT(40) DEF Rules!Take1
  <2>4. Rules!WarDecided
    BY <1>2, <1>3, <1>4, <1>6, <1>8, <2>1, <2>3, ZenonT(40) DEF Rules!WarDecided
  <2> QED BY <1>7, <2>1, <2>4, ZenonT(40) DEF Rules!Next, Rules!NextButTies
<1>9. CASE Rank[last1] < Rank[last2] /\ Capture2(w) /\ Goto(t, "return2")
  <2>1. /\ TheTable' = <<>> /\ Hidden' = {} /\ (Level' => RulesInv')
        /\ \A p : FindCardsByPlayer(p)' = FindCardsByPlayer(p) /\ Unplayed(p)' = Unplayed(p)
        /\ Rest1' = Rest1 /\ Rest2' = Left2 /\ Half1' = Half1 /\ Half2' = Half2
    BY <1>1, <1>9, RoundEnds, ZenonT(40)
  <2>2. /\ Range(player2CapturedCards)' = Range(player2CapturedCards) \cup Range(w)
        /\ Range(player1CapturedCards)' = Range(player1CapturedCards)
    BY <1>5, <1>9, ZenonT(40) DEF Capture2
  <2>3. Rules!Take2(Rules!Range(TheTable))
    BY <1>3, <2>1, <2>2, RulesOperators, Zenon DEF Rules!Take2
  <2>4. Rules!WarDecided
    BY <1>2, <1>3, <1>4, <1>6, <1>9, <2>1, <2>3, ZenonT(40) DEF Rules!WarDecided
  <2> QED BY <1>7, <2>1, <2>4, Zenon DEF Rules!Next, Rules!NextButTies
<1>10. CASE /\ Rank[last1] = Rank[last2] /\ UNCHANGED piles
            /\ thread' = [thread EXCEPT ![t].warCards = <<playedCard1, playedCard2>>,
                                        ![t].pc = "draw"]
  <2>1. /\ TheTable' = <<playedCard1, playedCard2>> /\ Hidden' = {} /\ (Level' => RulesInv')
        /\ \A p : FindCardsByPlayer(p)' = FindCardsByPlayer(p) /\ Unplayed(p)' = Unplayed(p)
        /\ Rest1' = Rest1 /\ Rest2' = Left2 /\ Half1' = Half1 /\ Half2' = Half2
    BY <1>1, <1>10, WarBegins, ZenonT(40)
  <2>2. /\ player1CapturedCards' = player1CapturedCards
        /\ player2CapturedCards' = player2CapturedCards
    BY <1>10, Zenon DEF piles
  <2>3. SubSeq(w, 1, 2) = <<playedCard1, playedCard2>>
    BY <1>3, <1>6, FirstTwo, ZenonT(40)
  <2>4. TheTable' = SubSeq(TheTable, 1, 2)
    BY <1>3, <2>1, <2>3, Zenon
  <2>5. Rules!TieForfeits
    BY <1>1, <1>2, <1>3, <1>6, <1>10, <2>1, <2>2, <2>4, ZenonT(40) DEF Rules!TieForfeits, Rules!Tied
  <2> QED BY <1>7, <2>1, <2>5, ZenonT(40) DEF Rules!Next, Rules!NextButTies
<1> QED BY <1>2, <1>8, <1>9, <1>10, ZenonT(40) DEF WarCompare, played

\* The hand-over moves no card; a handler that goes on to send the winner has
\* seen the last card played.
LEMMA ReturnFollows ==
    ASSUME RulesInv, TableInv', NEW t \in Thread, Return2(t) \/ Return1(t)
    PROVE  RulesInv' /\ UNCHANGED Rules!vars
<1>1. /\ thread[t].pc \notin Quiet /\ thread[t].pc \in {"return2", "return1"}
      /\ UNCHANGED <<cardPlayers, isPlayed, buttons, piles, winnerTopic>>
  BY Zenon DEF Return2, Return1, At, tables, requests, Quiet, DealPc
<1>2. /\ thread \in [Thread -> Handler] /\ thread[t].pc \in PlayPc /\ Knows(t)
      /\ thread[t].op = "play2" /\ player2Turn = (thread[t].pc # "return1")
      /\ Player2 \in buttons /\ TheTable = TableFor(t) /\ Hidden = HiddenFor(t)
  BY <1>1, Active, Zenon DEF RulesInv, Player
<1>3. Unplayed(Player2)' = Unplayed(Player2)
  BY <1>1, Zenon DEF Unplayed, FindCardsByPlayer
<1>4. \A pc \in PlayPc : Goto(t, pc) =>
        /\ thread'[t].pc = pc /\ thread'[t].op = thread[t].op
        /\ thread'[t].card = thread[t].card /\ thread'[t].last = thread[t].last
        /\ \A u \in Thread : u # t => thread'[u] = thread[u]
  BY <1>2, GotoPlay, GotoLast, Zenon
<1>5. thread[t].last => Unplayed(Player2) \subseteq {}
  BY <1>1, <1>2, Zenon DEF Knows
<1>6. TableFor(t) = <<>> /\ HiddenFor(t) = {}
  BY <1>1, <1>2, Zenon DEF TableFor, HiddenFor, WarPc, ShowPc
<1>7. CASE Return2(t)
  <2>1. player2Turn' = FALSE /\ Goto(t, "return1")
    BY <1>7, Zenon DEF Return2
  <2>2. /\ thread'[t].pc = "return1" /\ thread'[t].op = "play2"
        /\ thread'[t].last = thread[t].last
        /\ \A u \in Thread : u # t => thread'[u] = thread[u]
    BY <1>2, <1>4, <2>1, Zenon DEF PlayPc
  <2>3. TableFor(t)' = <<>> /\ HiddenFor(t)' = {}
    BY <2>1, <2>2, Zenon DEF TableFor, HiddenFor, WarPc, ShowPc
  <2>4. Knows(t)'
    BY <1>3, <1>5, <2>2, Zenon DEF Knows
  <2> QED BY <1>1, <1>2, <1>6, <2>1, <2>2, <2>3, <2>4, StillTable, ZenonT(40)
<1>8. CASE Return1(t) /\ thread[t].last
  <2>1. player2Turn' = player2Turn /\ ~player2Turn /\ Goto(t, "last")
    BY <1>2, <1>8, Zenon DEF Return1, At
  <2>2. /\ thread'[t].pc = "last" /\ thread'[t].op = "play2"
        /\ thread'[t].last = thread[t].last
        /\ \A u \in Thread : u # t => thread'[u] = thread[u]
    BY <1>2, <1>4, <2>1, Zenon DEF PlayPc
  <2>3. TableFor(t)' = <<>> /\ HiddenFor(t)' = {}
    BY <2>1, <2>2, Zenon DEF TableFor, HiddenFor, WarPc, ShowPc
  <2>4. \A c \in Card : isPlayed[c]
    <3>1. OwnHalf /\ Undealt("deal2") = {} /\ Level
      <4>1. Player("deal2") = Player2
        BY Zenon DEF Player
      <4> QED BY <1>2, <4>1, ZenonT(40) DEF RulesInv, TableInv, HalvesInv, Served
    <3>2. Left2 = {} /\ Rest2 = {} /\ Rest1 \subseteq Card /\ Rest2 \subseteq Card
      BY <1>2, <1>5, <1>6, <1>8, <3>1, Hands, HiddenPlayed, ZenonT(40)
    <3>3. PICK n \in Nat : n = Cardinality(Rest1) /\ (n = 0 <=> Rest1 = {})
      BY <3>2, CardsCount, Zenon
    <3>4. Cardinality(Rest2) = 0
      BY <3>2, CardsCount, Zenon
    <3>5. Len(TheTable) % 2 = 0
      BY <1>2, <1>6, SMT, Z3
    <3>6. 0 = n + 0
      BY <3>1, <3>3, <3>4, <3>5, ZenonT(40) DEF Level
    <3>7. Rest1 = {}
      BY <3>3, <3>6, Levels, Zenon
    <3> QED BY <3>2, <3>7, Zenon DEF Rest1, Left2, Half2
  <2>5. Knows(t)'
    BY <1>1, <1>3, <1>5, <2>2, <2>4, ZenonT(40) DEF Knows
  <2> QED BY <1>1, <1>2, <1>6, <2>1, <2>2, <2>3, <2>5, StillTable, ZenonT(40)
<1>9. CASE Return1(t) /\ ~thread[t].last
  <2>1. player2Turn' = player2Turn /\ ~player2Turn /\ Return(t)
    BY <1>2, <1>9, Zenon DEF Return1, At
  <2>2. /\ thread'[t].op = "none" /\ thread'[t].pc = "idle"
        /\ \A u \in Thread : u # t => thread'[u] = thread[u]
    BY <1>2, <2>1, ReturnNone, ZenonT(40)
  <2>3. TableFor(t)' = <<>> /\ HiddenFor(t)' = {}
    BY <2>1, <2>2, Zenon DEF TableFor, HiddenFor, WarPc, ShowPc
  <2>4. Knows(t)'
    BY <2>2, Zenon DEF Knows
  <2> QED BY <1>1, <1>6, <2>1, <2>2, <2>3, <2>4, StillTable, ZenonT(40)
<1> QED BY <1>7, <1>8, <1>9, Zenon

\* The winner is sent when all cards are played and the table is empty, also
\* when player 1 has already clicked again.
LEMMA LastCardFollows ==
    ASSUME RulesInv, TableInv', NEW t \in Thread, LastCard(t)
    PROVE  RulesInv' /\ [Rules!NextButTies]_(Rules!vars)
<1>1. /\ thread[t].pc = "last" /\ thread[t].pc \in Quiet /\ Return(t)
      /\ winnerTopic' = Append(winnerTopic, Verdict)
      /\ UNCHANGED <<cardPlayers, isPlayed, buttons, turns, played, piles>>
  BY Zenon DEF LastCard, At, tables, requests, Quiet, DealPc
<1>2. /\ LockInv /\ thread \in [Thread -> Handler] /\ Level /\ Served /\ OwnHalf
      /\ \A u \in Thread : Knows(u)
  BY Zenon DEF RulesInv, TableInv, LockInv, TypeInv, ThreadsTypeOK, Handler, HalvesInv
<1>3. /\ thread'[t].op = "none" /\ thread'[t].pc = "idle" /\ thread'[t].pc \in Quiet
      /\ \A u \in Thread : u # t => thread'[u] = thread[u]
  BY <1>1, <1>2, ReturnNone, ZenonT(40) DEF Quiet
<1>4. TheTable' = TheTable /\ Hidden' = Hidden
  BY <1>1, <1>3, QuietTable, ZenonT(40)
<1>5. /\ \A p : FindCardsByPlayer(p)' = FindCardsByPlayer(p) /\ Unplayed(p)' = Unplayed(p)
      /\ Half1' = Half1 /\ Half2' = Half2 /\ playedCard1' = playedCard1
      /\ playedCard2' = playedCard2 /\ player2Turn' = player2Turn
      /\ player1CapturedCards' = player1CapturedCards
      /\ player2CapturedCards' = player2CapturedCards
  BY <1>1, Zenon DEF FindCardsByPlayer, Unplayed, Half1, Half2, played, turns, piles
<1>6. RulesInv'
  <2>1. Level'
    BY <1>1, <1>2, <1>4, <1>5, ZenonT(40) DEF Level, Rest1, Rest2
  <2>2. \A u \in Thread : Knows(u)'
    <3>1. Knows(t)'
      BY <1>3, Zenon DEF Knows
    <3>2. ASSUME NEW u \in Thread, u # t PROVE Knows(u)'
      <4>1. thread'[u] = thread[u] /\ Knows(u) /\ Drawer(u)' = Drawer(u)
        BY <1>2, <1>3, <3>2, ZenonT(40) DEF Drawer
      <4> QED BY <1>1, <1>5, <4>1, ZenonT(40) DEF Knows
    <3> QED BY <3>1, <3>2, Zenon
  <2>3. Served'
    <3>1. \A op : Undealt(op)' = Undealt(op)
      BY <1>5, Zenon DEF Undealt, HalfOf
    <3>2. \A u \in Thread :
             thread'[u].op \in {"play1", "play2"} => Player(thread'[u].op) \in buttons
      BY <1>2, <1>3, Zenon DEF Served
    <3> QED BY <1>1, <1>2, <1>5, <3>1, <3>2, ZenonT(40) DEF Served
  <2> QED BY <2>1, <2>2, <2>3, ZenonT(40) DEF RulesInv
<1>7. \A c \in Card : isPlayed[c]
  BY <1>1, <1>2, Zenon DEF Knows
<1>8. Rest1 = {} /\ Left2 = {} /\ Unplayed(Player1) = {} /\ Unplayed(Player2) = {}
  BY <1>2, <1>7, Hands, ZenonT(40) DEF Rest1, Left2
<1>9. thread[t].op = "play2"
  <2>1. thread[t].pc \in PlayPc
    BY <1>1, Zenon DEF PlayPc
  <2>2. thread[t].op \in {"play1", "play2"}
    BY <1>2, <2>1, HandlerKind, ZenonT(40) DEF PlayHandler
  <2> QED BY <1>1, <1>2, <2>2, ZenonT(40) DEF LockInv, PlaysInOrder
<1>10. Hidden = {} /\ AtWar = {}
  <2>1. \A u \in Running({"play2"}) : u = t
    BY <1>2, <1>9, Zenon DEF LockInv, OneEach, Running
  <2>2. \A u \in Running({"play2"}) : thread[u].pc = "last"
    BY <1>1, <2>1, Zenon
  <2>3. Dealer("play2", {"table", "round"}) = {} /\ AtWar = {}
    BY <2>2, Zenon DEF Dealer, AtWar
  <2> QED BY <2>3, Zenon DEF Hidden
<1>11. TheTable = <<>>
  <2>1. Rest1 = {} /\ Rest2 = {}
    BY <1>8, <1>10, HiddenPlayed, ZenonT(40)
  <2>2. Cardinality({}) = 0
    BY FS_EmptySet, Zenon
  <2>3. 0 = 0 + (Len(TheTable) % 2)
    BY <1>2, <2>1, <2>2, ZenonT(40) DEF Level
  <2>4. TheTable = <<>> \/ \E x : TheTable = <<x>>
    BY <1>10, Zenon DEF TheTable
  <2>5. ASSUME NEW x, TheTable = <<x>> PROVE FALSE
    BY <2>3, <2>5, LoneCard, Levels, Zenon
  <2> QED BY <2>4, <2>5, Zenon
<1>12. Rules!Verdict = Verdict
  BY RulesVerdict, Zenon DEF RulesInv
<1>13. Rules!Announce
  BY <1>1, <1>4, <1>5, <1>8, <1>10, <1>11, <1>12, ZenonT(40) DEF Rules!Announce
<1> QED BY <1>6, <1>13, ZenonT(40) DEF Rules!Next, Rules!NextButTies

\* Before the first click the table is the rules' first state.
LEMMA ThreadsRulesInit == Init => RulesInv /\ Rules!Init
<1> SUFFICES ASSUME Init PROVE RulesInv /\ Rules!Init
  OBVIOUS
<1>1. /\ \A t \in Thread : thread[t].pc = "idle" /\ thread[t].op = "none"
      /\ player2Turn = FALSE /\ buttons = {} /\ winnerTopic = <<>>
      /\ player1CapturedCards = <<>> /\ player2CapturedCards = <<>>
  BY Zenon DEF Init, NoHandler
<1>2. \A c \in Card : cardPlayers[c] = NoPlayer /\ ~isPlayed[c]
  BY Zenon DEF Init, SeededCards
<1>3. /\ FindCardsByPlayer(Player1) = {} /\ FindCardsByPlayer(Player2) = {}
      /\ Unplayed(Player1) = {} /\ Unplayed(Player2) = {}
  BY <1>2, RepositoriesAssumption, CardsThreadsAssumption, ZenonT(40)
     DEF FindCardsByPlayer, Unplayed
<1>4. TheTable = <<>> /\ Hidden = {}
  <2>1. \A op, pcs : op # "none" => Dealer(op, pcs) = {}
    BY <1>1, Zenon DEF Dealer, Running
  <2>2. AtWar = {} /\ Revealing = {} /\ Dealer("play2", {"table", "round"}) = {}
    BY <2>1, Zenon DEF AtWar, Revealing
  <2> QED BY <1>1, <2>2, ZenonT(40) DEF TheTable, Hidden
<1>5. Half1 \subseteq Card /\ Half2 \subseteq Card
  BY DeckHalves, Zenon DEF Half2
<1>6. Rest1 = Half1 /\ Rest2 = Half2
  BY <1>2, <1>4, <1>5, ZenonT(40) DEF Rest1, Rest2
<1>7. Level
  <2>1. PICK n \in Nat : n = Len(Deck) \div 2
    BY DeckHalves, Zenon
  <2>2. n = n + (Len(<<>>) % 2)
    BY <2>1, SMT, Z3
  <2> QED BY <1>4, <1>6, <2>1, <2>2, HalvesCardinality, ZenonT(40) DEF Level
<1>8. RulesInv
  <2>1. Served
    BY <1>1, Zenon DEF Served
  <2>2. \A t \in Thread : Knows(t)
    BY <1>1, Zenon DEF Knows
  <2> QED BY <1>7, <2>1, <2>2, TableInit, ZenonT(40) DEF RulesInv
<1>9. Range(<<>>) = {}
  BY DEF Range
<1>10. /\ (Half1 \ {}) \cup (Half2 \ {}) = Card /\ (Half1 \ {}) \cap (Half2 \ {}) = {}
       /\ Half1 \ {} = Half1 /\ Half2 \ {} = Half2
  BY <1>5, Zenon DEF Half2
<1>11. Rules!Init
  BY <1>1, <1>3, <1>4, <1>9, <1>10, HalvesCardinality, RulesOperators, ZenonT(40) DEF Rules!Init
<1> QED BY <1>8, <1>11, Zenon

\* A step of a thread is a step of the game or changes nothing of it, when
\* everything went in order.
LEMMA ThreadsRulesStep ==
    ASSUME orderly', Username1 # Username2
    PROVE  RulesInv /\ [Next]_vars => RulesInv' /\ [Rules!NextButTies]_(Rules!vars)
<1> SUFFICES ASSUME RulesInv, [Next]_vars PROVE RulesInv' /\ [Rules!NextButTies]_(Rules!vars)
  OBVIOUS
<1>1. TableInv'
  BY TableStep, Zenon DEF RulesInv
<1>2. CASE UNCHANGED vars
  <2>1. /\ UNCHANGED <<cardPlayers, isPlayed, piles, winnerTopic, buttons, thread>>
        /\ UNCHANGED <<player2Turn, playedCard1, playedCard2>>
    BY <1>2, Zenon DEF vars, tables, requests, turns, played
  <2>2. TheTable' = TheTable /\ Hidden' = Hidden
    <3>1. \A op, pcs : Dealer(op, pcs)' = Dealer(op, pcs)
      BY <2>1, Zenon DEF Dealer, Running
    <3>2. AtWar' = AtWar /\ Revealing' = Revealing
      BY <3>1, Zenon DEF AtWar, Revealing
    <3>3. Hidden' = Hidden
      BY <2>1, <3>1, ZenonT(40) DEF Hidden
    <3>4. TheTable' = TheTable
      <4>1. /\ (CHOOSE t \in AtWar : TRUE)' = CHOOSE t \in AtWar : TRUE
            /\ (CHOOSE t \in Revealing : TRUE)' = CHOOSE t \in Revealing : TRUE
        BY <3>2, Zenon
      <4> QED BY <2>1, <3>1, <3>2, <4>1, ZenonT(40) DEF TheTable
    <3> QED BY <3>3, <3>4, ZenonT(40)
  <2>3. UNCHANGED Rules!vars /\ Level'
    BY <2>1, <2>2, NoCardMoves, ZenonT(40) DEF RulesInv
  <2>4. Served'
    <3>1. \A op : Undealt(op)' = Undealt(op)
      BY <2>1, Zenon DEF Undealt, HalfOf, Half1, Half2, FindCardsByPlayer
    <3> QED BY <2>1, <3>1, ZenonT(40) DEF RulesInv, Served
  <2>5. ASSUME NEW t \in Thread PROVE Knows(t)'
    <3>1. Knows(t) /\ Drawer(t)' = Drawer(t) /\ \A p : Unplayed(p)' = Unplayed(p)
      BY <2>1, Zenon DEF RulesInv, Drawer, Unplayed, FindCardsByPlayer
    <3> QED BY <2>1, <3>1, Zenon DEF Knows
  <2> QED BY <1>1, <2>3, <2>4, <2>5, ZenonT(40) DEF RulesInv
<1>3. ASSUME NEW t \in Thread, Receive(t) \/ Run(t)
      PROVE  RulesInv' /\ [Rules!NextButTies]_(Rules!vars)
  <2>1. CASE (\E op \in Deals : ReceiveDeal(t, op)) \/ Deal(t)
    BY <1>1, <2>1, DealFollows, ZenonT(40)
  <2>2. CASE \E op \in {"play1", "play2"} : ReceivePlay(t, op)
    BY <1>1, <2>2, ReceivePlayFollows, ZenonT(40)
  <2>3. CASE Play(t)
    BY <1>1, <2>3, CheckTurnFollows, RevealFollows, PassFollows, ZenonT(40) DEF Play
  <2>4. CASE EndRound(t)
    <3>1. CASE GameRound(t)
      BY <1>1, <3>1, GameRoundFollows, ZenonT(40)
    <3>2. CASE WarQuery(t) \/ WarSave(t)
      BY <1>1, <3>2, WarQueryFollows, WarSaveFollows, ZenonT(40)
    <3>3. CASE WarRunsOut(t)
      BY <1>1, <3>3, WarRunsOutFollows, ZenonT(40)
    <3>4. CASE WarCompare(t)
      BY <1>1, <3>4, WarCompareFollows, Zenon
    <3>5. CASE Return2(t) \/ Return1(t)
      BY <1>1, <3>5, ReturnFollows, ZenonT(40)
    <3>6. CASE LastCard(t)
      BY <1>1, <3>6, LastCardFollows, Zenon
    <3> QED BY <2>4, <3>1, <3>2, <3>3, <3>4, <3>5, <3>6, ZenonT(40) DEF EndRound
  <2> QED BY <1>3, <2>1, <2>2, <2>3, <2>4, ZenonT(40) DEF Receive, Run, Deals
<1> QED BY <1>2, <1>3, Zenon DEF Next

\* Any number of threads, for any deck and any number of cards drawn in a war,
\* play the game of WarRules, except that war() forgets the cards of a tied war,
\* until a deal is repeated, overlaps another or finds the rows in another
\* order, or a player clicks before the turn or the answer.  The players have
\* different names.
THEOREM ThreadsFollowsRulesInOrder ==
    ASSUME Username1 # Username2
    PROVE  Spec => FollowsRulesInOrder
<1> DEFINE Inv == orderly => RulesInv
<1>1. Init => Inv /\ Rules!Init
  BY ThreadsRulesInit, Zenon
<1>2. ASSUME Inv, [Next]_vars PROVE Inv' /\ [orderly' => Rules!NextButTies]_(Rules!vars)
  <2>1. CASE orderly'
    <3>1. RulesInv
      BY <1>2, <2>1, OrderlyBefore, Zenon
    <3>2. RulesInv' /\ [Rules!NextButTies]_(Rules!vars)
      BY <1>2, <2>1, <3>1, ThreadsRulesStep, Zenon
    <3> QED BY <3>2, Zenon
  <2>2. CASE ~orderly'
    BY <2>2, Zenon
  <2> QED BY <2>1, <2>2, Zenon
<1>3. Inv /\ [Next]_vars => Inv' /\ [orderly' => Rules!NextButTies]_(Rules!vars)
  BY <1>2, Zenon
<1> QED BY <1>1, <1>3, PTL DEF Spec, FollowsRulesInOrder
=============================================================================

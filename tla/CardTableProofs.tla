--------------------------- MODULE CardTableProofs ---------------------------
(***************************************************************************)
(* ServiceInv is an invariant of the table, for any deck, any number of    *)
(* war draws, any row order of findAll, with or without restarts.  With a  *)
(* stable row order the hands stay in step too, and for players of         *)
(* different names the table then implements WarRules.                     *)
(***************************************************************************)
EXTENDS CardTable, ServiceProofs, FiniteSetTheorems

-----------------------------------------------------------------------------
(* Numbers and lists.                                                      *)

\* Whose turn it is to draw: an even or an odd number of cards on the table.
LEMMA Parity ==
    ASSUME NEW n \in Nat
    PROVE  /\ n % 2 = 0 \/ n % 2 = 1
           /\ n % 2 = 1 => n % 2 # 0
OBVIOUS

\* Two hands that differ by k cards, when k is none or one.
LEMMA Levels ==
    ASSUME NEW a \in Nat, NEW b, NEW k, b = a + k
    PROVE  /\ k = 0 => b = a
           /\ k = 1 => b # 0
OBVIOUS

\* A draw of war() by the player whose turn it is keeps the hands in step.
LEMMA DrawLevels ==
    ASSUME NEW a1 \in Nat, NEW a2 \in Nat, NEW b1, NEW b2, NEW k \in Nat, NEW l,
           a2 = a1 + (k % 2), l = k + 1,
           \/ k % 2 = 0 /\ b1 = a1 - 1 /\ b2 = a2
           \/ k % 2 = 1 /\ b1 = a1 /\ b2 = a2 - 1
    PROVE  b2 = b1 + (l % 2)
<1>1. k % 2 = 0 => (k + 1) % 2 = 1
  OBVIOUS
<1>2. k % 2 = 1 => (k + 1) % 2 = 0
  OBVIOUS
<1> QED BY <1>1, <1>2

\* A list of n cards has n positions.
LEMMA CountTo ==
    ASSUME NEW n \in Nat
    PROVE  IsFiniteSet(1..n) /\ Cardinality(1..n) = n
BY FS_Interval

\* What a draw does to the list of the cards at war.
LEMMA Appended ==
    ASSUME NEW s \in Seq(Card), NEW c \in Card
    PROVE  /\ Len(s) \in Nat /\ Len(Append(s, c)) = Len(s) + 1 /\ Append(s, c) # <<>>
           /\ \A i \in 1..Len(s) : Append(s, c)[i] = s[i]
BY AppendProperties, LenProperties

\* What a captured table does to the length of a pile.
LEMMA Joined ==
    ASSUME NEW s \in Seq(Card), NEW w \in Seq(Card)
    PROVE  /\ Len(s) \in Nat /\ Len(w) \in Nat
           /\ Len(s \o w) = Len(s) + Len(w)
BY ConcatProperties, LenProperties

\* The longer of two lists is still the longer one when it grows.
LEMMA Longer ==
    ASSUME NEW m \in Nat, NEW n \in Nat, NEW k \in Nat
    PROVE  /\ m > n \/ m < n \/ m = n
           /\ m > n => m - n > 0 /\ m + k > n
           /\ m < n => m - n < 0 /\ ~(m > n) /\ m < n + k /\ ~(m > n + k)
           /\ m = n => m - n = 0 /\ ~(m > n) /\ ~(m < n)
OBVIOUS

\* A leader who takes k more cards still leads.
LEMMA LeadGrows ==
    ASSUME NEW m \in Nat, NEW n \in Nat, NEW k \in Nat, NEW x, NEW y, x = m - n,
           \/ x > 0 /\ y = (m + k) - n
           \/ x < 0 /\ y = m - (n + k)
           \/ x = 0 /\ y = m - n
    PROVE  (x > 0 => y > 0) /\ (x < 0 => y < 0) /\ (x = 0 => y = 0)
OBVIOUS

\* The messages a game can end with: none, one or two.
LEMMA SameMessage ==
    ASSUME NEW v
    PROVE  /\ <<>> = [i \in 1..0 |-> v] /\ 0 \in 0..2
           /\ <<v>> = [i \in 1..1 |-> v] /\ Append(<<>>, v) = [i \in 1..1 |-> v] /\ 1 \in 0..2
           /\ Append(<<v>>, v) = [i \in 1..2 |-> v] /\ \A n \in 1..2 : n \in 0..2
OBVIOUS

\* A full war has cards on the table, as many of one player as of the other.
LEMMA FullWar ==
    ASSUME WarFull
    PROVE  ~Idle /\ Len(warCards) % 2 = 0 /\ Len(warCards) # 2
BY CardsServiceAssumption DEF WarFull, Idle

-----------------------------------------------------------------------------
(* The invariant of the service.                                           *)

\* The invariant of the service holds of the freshly seated table.
LEMMA InitInv == Init => ServiceInv
<1> SUFFICES ASSUME Init PROVE ServiceInv
  OBVIOUS
<1> USE RepositoriesAssumption, CardTableAssumption
<1>1. TablesTypeOK
  BY DEF Init, SeededCards, SeatedPlayers, SeatedGame, TablesTypeOK, PlayersEntity,
         GameEntity, GameState
<1>2. TypeOK
  BY <1>1, EmptySeq, Zenon DEF Init, ServiceInit, TypeOK
<1>3. CapturedOnce /\ RevealedCardWaits /\ WarCardsApart
  BY DEF Init, ServiceInit, CapturedOnce, RevealedCardWaits, WarCardsApart, Idle,
         IsInjective, Range
<1> QED BY <1>2, <1>3 DEF ServiceInv

\* A step that changes nothing keeps the invariant.
LEMMA StutterInv == ServiceInv /\ UNCHANGED vars => ServiceInv'
BY DEF ServiceInv, TypeOK, TablesTypeOK, CapturedOnce, RevealedCardWaits,
       WarCardsApart, Idle, vars, tables, service, turns, piles

\* Every handler, every step of war() and a restart keep the invariant.
LEMMA NextInv == ServiceInv /\ [NextRestart]_vars => ServiceInv'
<1> SUFFICES ASSUME ServiceInv, [NextRestart]_vars PROVE ServiceInv'
  OBVIOUS
<1> USE CardTableAssumption
<1>1. CASE Deal
  BY <1>1, DealCardsInv DEF Deal
<1>2. CASE Play
  BY <1>2, PlayCard1Inv, PlayCard2Inv DEF Play
<1>3. CASE War
  BY <1>3, WarInv
<1>4. CASE Restart
  BY <1>4, RestartInv
<1>5. CASE UNCHANGED vars
  BY <1>5, StutterInv
<1> QED BY <1>1, <1>2, <1>3, <1>4, <1>5, ZenonT(40) DEF NextRestart, Next

\* Every variable keeps its type, restarts included.
THEOREM TypeCorrect == SpecRestart => []TypeOK
<1>1. ServiceInv => TypeOK
  BY DEF ServiceInv
<1> QED BY <1>1, InitInv, NextInv, PTL DEF SpecRestart

\* No card is captured twice, and only played cards are captured, in a game
\* whose server may restart at any point.
THEOREM CapturedOnceRestart == SpecRestart => []CapturedOnce
<1>1. ServiceInv => CapturedOnce
  BY SMT, Z3 DEF ServiceInv
<1> QED BY <1>1, InitInv, NextInv, PTL DEF SpecRestart

\* The card player 1 revealed waits, played and captured by nobody, for player
\* 2's, in a game whose server may restart at any point.
THEOREM RevealedWaitsRestart == SpecRestart => []RevealedCardWaits
<1>1. ServiceInv => RevealedCardWaits
  BY SMT, Z3 DEF ServiceInv
<1> QED BY <1>1, InitInv, NextInv, PTL DEF SpecRestart

\* The cards of a war are pairwise different, played and in no pile, in every
\* nested war and in a game whose server may restart at any point.
THEOREM WarApartRestart == SpecRestart => []WarCardsApart
<1>1. ServiceInv => WarCardsApart
  BY DEF ServiceInv
<1> QED BY <1>1, InitInv, NextInv, PTL DEF SpecRestart

-----------------------------------------------------------------------------
(* If findAll always returns the rows in one order, the deck is divided    *)
(* evenly, the hands stay in step and a winner is sent only at the end,    *)
(* for a deck of any size and any number of war draws.  First, the two     *)
(* halves of the deck.                                                     *)

\* The order findAll returns lists every card once.
LEMMA TheOrderType == TheOrder \in Bijection(1..(2 * HalfDeck), Card)
BY CardsServiceAssumption DEF TheOrder

\* subList(0, n / 2) and subList(n / 2, n) share no card.
LEMMA HalvesApart ==
    /\ Half1 \subseteq Card /\ Half2 \subseteq Card
    /\ Half1 \cap Half2 = {}
<1>1. /\ TheOrder \in [1..(2 * HalfDeck) -> Card]
      /\ \A i, j \in 1..(2 * HalfDeck) : TheOrder[i] = TheOrder[j] => i = j
  BY TheOrderType DEF Bijection, Injection, IsInjective
<1>2. HalfDeck \in Nat
  BY CardsServiceAssumption
<1>3. Half1 = {TheOrder[i] : i \in 1..HalfDeck}
  BY DEF Half1, FirstHalf, Range
<1>4. Half2 = {TheOrder[HalfDeck + i] : i \in 1..HalfDeck}
  BY DEF Half2, SecondHalf, Range
<1>5. \A i \in 1..HalfDeck : i \in 1..(2 * HalfDeck) /\ HalfDeck + i \in 1..(2 * HalfDeck)
  BY <1>2
<1>6. \A i, j \in 1..HalfDeck : TheOrder[i] # TheOrder[HalfDeck + j]
  <2> SUFFICES ASSUME NEW i \in 1..HalfDeck, NEW j \in 1..HalfDeck,
                      TheOrder[i] = TheOrder[HalfDeck + j]
               PROVE  FALSE
    OBVIOUS
  <2>1. i = HalfDeck + j
    BY <1>1, <1>5
  <2> QED BY <2>1, <1>2
<1> QED BY <1>1, <1>3, <1>4, <1>5, <1>6, SMT, Z3

\* Each half has HalfDeck cards.
LEMMA HalvesSize ==
    /\ IsFiniteSet(Half1) /\ Cardinality(Half1) = HalfDeck
    /\ IsFiniteSet(Half2) /\ Cardinality(Half2) = HalfDeck
<1>1. /\ TheOrder \in [1..(2 * HalfDeck) -> Card]
      /\ \A i, j \in 1..(2 * HalfDeck) : TheOrder[i] = TheOrder[j] => i = j
  BY TheOrderType DEF Bijection, Injection, IsInjective
<1>2. HalfDeck \in Nat
  BY CardsServiceAssumption
<1>3. IsFiniteSet(1..HalfDeck) /\ Cardinality(1..HalfDeck) = HalfDeck
  BY <1>2, FS_Interval
<1>4. \A i \in 1..HalfDeck : i \in 1..(2 * HalfDeck) /\ HalfDeck + i \in 1..(2 * HalfDeck)
  BY <1>2
<1>5. ASSUME NEW f, f \in [1..HalfDeck -> Card],
             \A i, j \in 1..HalfDeck : f[i] = f[j] => i = j
      PROVE  IsFiniteSet(Range(f)) /\ Cardinality(Range(f)) = HalfDeck
  <2>1. f \in Surjection(1..HalfDeck, Range(f)) /\ f \in Injection(1..HalfDeck, Range(f))
    BY <1>5 DEF Surjection, Injection, IsInjective, Range
  <2> QED BY <2>1, <1>3, FS_Surjection, ZenonT(40)
<1>6. FirstHalf(TheOrder) \in [1..HalfDeck -> Card]
  BY <1>1, <1>4 DEF FirstHalf
<1>7. \A i, j \in 1..HalfDeck : FirstHalf(TheOrder)[i] = FirstHalf(TheOrder)[j] => i = j
  BY <1>1, <1>4 DEF FirstHalf
<1>8. SecondHalf(TheOrder) \in [1..HalfDeck -> Card]
  BY <1>1, <1>4 DEF SecondHalf
<1>9. \A i, j \in 1..HalfDeck : SecondHalf(TheOrder)[i] = SecondHalf(TheOrder)[j] => i = j
  <2> SUFFICES ASSUME NEW i \in 1..HalfDeck, NEW j \in 1..HalfDeck,
                      TheOrder[HalfDeck + i] = TheOrder[HalfDeck + j]
               PROVE  i = j
    BY DEF SecondHalf
  <2>1. HalfDeck + i = HalfDeck + j
    BY <1>1, <1>4
  <2> QED BY <2>1, <1>2
<1> QED BY <1>5, <1>6, <1>7, <1>8, <1>9, Zenon DEF Half1, Half2

\* The cards left in a half can be counted.
LEMMA LeftFinite ==
    /\ IsFiniteSet(Left(Half1)) /\ Cardinality(Left(Half1)) \in Nat
    /\ IsFiniteSet(Left(Half2)) /\ Cardinality(Left(Half2)) \in Nat
<1>1. Left(Half1) \subseteq Half1 /\ Left(Half2) \subseteq Half2
  BY DEF Left
<1> QED BY <1>1, HalvesSize, FS_Subset, FS_CardinalityType, ZenonT(40)

\* Playing a card of one half takes one card from it and none from the other.
LEMMA PlayedCardLeaves ==
    ASSUME isPlayed \in [Card -> BOOLEAN], NEW card,
           isPlayed' = [isPlayed EXCEPT ![card] = TRUE]
    PROVE  /\ card \in Left(Half1) =>
                /\ Left(Half1)' = Left(Half1) \ {card}
                /\ Cardinality(Left(Half1)') = Cardinality(Left(Half1)) - 1
                /\ Left(Half2)' = Left(Half2)
           /\ card \in Left(Half2) =>
                /\ Left(Half2)' = Left(Half2) \ {card}
                /\ Cardinality(Left(Half2)') = Cardinality(Left(Half2)) - 1
                /\ Left(Half1)' = Left(Half1)
<1>1. card \in Left(Half1) => Left(Half1)' = Left(Half1) \ {card} /\ Left(Half2)' = Left(Half2)
  BY HalvesApart DEF Left
<1>2. card \in Left(Half2) => Left(Half2)' = Left(Half2) \ {card} /\ Left(Half1)' = Left(Half1)
  BY HalvesApart DEF Left
<1>3. card \in Left(Half1) => Cardinality(Left(Half1) \ {card}) = Cardinality(Left(Half1)) - 1
  BY LeftFinite, FS_RemoveElement, Zenon
<1>4. card \in Left(Half2) => Cardinality(Left(Half2) \ {card}) = Cardinality(Left(Half2)) - 1
  BY LeftFinite, FS_RemoveElement, Zenon
<1> QED BY <1>1, <1>2, <1>3, <1>4, ZenonT(40)

-----------------------------------------------------------------------------
(* The steps.                                                              *)

\* Nothing is dealt or played at first.
LEMMA StepInit == Init => StepInv
<1> SUFFICES ASSUME Init PROVE StepInv
  OBVIOUS
<1> USE RepositoriesAssumption, CardTableAssumption
<1>1. FindCardsByPlayer(Player1) = {} /\ FindCardsByPlayer(Player2) = {}
  BY DEF Init, SeededCards, FindCardsByPlayer
<1>2. Left(Half1) = Half1 /\ Left(Half2) = Half2
  BY HalvesApart DEF Init, SeededCards, Left
<1>3. Cardinality(Left(Half2)) = Cardinality(Left(Half1)) + 0
  BY <1>2, HalvesSize, CardsServiceAssumption
<1> QED BY <1>1, <1>3, ZenonT(40) DEF Init, ServiceInit, StepInv, Idle

\* The sessions of the table are those of its two players.
LEMMA SeatedSessions ==
    ASSUME playerEntity = SeatedPlayers
    PROVE  /\ FindPlayerBySessionId(Session1) = Player1
           /\ FindPlayerBySessionId(Session2) = Player2
<1> USE CardTableAssumption
<1>1. PlayersBySession(Session1) = {Player1} /\ PlayersBySession(Session2) = {Player2}
  BY DEF PlayersBySession, SeatedPlayers
<1> QED BY <1>1 DEF FindPlayerBySessionId

\* A deal gives a half to the player it always went to.
LEMMA DealStep ==
    ASSUME ServiceInv, StepInv, StableOrder,
           DealCards1(Session1) \/ DealCards2(Session2)
    PROVE  StepInv'
<1> USE CardTableAssumption, RepositoriesAssumption
<1>1. /\ FindPlayerBySessionId(Session1) = Player1
      /\ FindPlayerBySessionId(Session2) = Player2
  BY SeatedSessions DEF StepInv
<1>2. \/ DealHalf(FirstHalf(TheOrder), Player1)
      \/ DealHalf(SecondHalf(TheOrder), Player2)
  BY <1>1 DEF DealCards1, DealCards2, StableOrder
<1>3. UNCHANGED <<playerEntity, gameEntity, isPlayed, player1Turn, player2Turn,
                  warCards, call, winnerTopic>>
  BY <1>2 DEF DealHalf, service, turns
<1>4. /\ \/ FindCardsByPlayer(Player1)' = Half1
         \/ FindCardsByPlayer(Player1)' = FindCardsByPlayer(Player1)
      /\ \/ FindCardsByPlayer(Player2)' = Half2
         \/ FindCardsByPlayer(Player2)' = FindCardsByPlayer(Player2)
  <2>1. FindCardsByPlayer(Player1) \subseteq Half1 /\ FindCardsByPlayer(Player2) \subseteq Half2
    BY DEF StepInv
  <2>2. CASE DealHalf(FirstHalf(TheOrder), Player1)
    <3>1. cardPlayers' = [c \in Card |-> IF c \in Half1 THEN Player1 ELSE cardPlayers[c]]
      BY <2>2 DEF DealHalf, Half1
    <3>2. FindCardsByPlayer(Player1)' = Half1
      BY <3>1, <2>1, HalvesApart, ZenonT(40) DEF FindCardsByPlayer
    <3>3. FindCardsByPlayer(Player2)' = FindCardsByPlayer(Player2)
      BY <3>1, <2>1, HalvesApart, ZenonT(40) DEF FindCardsByPlayer
    <3> QED BY <3>2, <3>3, Zenon
  <2>3. CASE DealHalf(SecondHalf(TheOrder), Player2)
    <3>1. cardPlayers' = [c \in Card |-> IF c \in Half2 THEN Player2 ELSE cardPlayers[c]]
      BY <2>3 DEF DealHalf, Half2
    <3>2. FindCardsByPlayer(Player2)' = Half2
      BY <3>1, <2>1, HalvesApart, ZenonT(40) DEF FindCardsByPlayer
    <3>3. FindCardsByPlayer(Player1)' = FindCardsByPlayer(Player1)
      BY <3>1, <2>1, HalvesApart, ZenonT(40) DEF FindCardsByPlayer
    <3> QED BY <3>2, <3>3, Zenon
  <2> QED BY <1>2, <2>2, <2>3, ZenonT(40)
<1>5. Left(Half1)' = Left(Half1) /\ Left(Half2)' = Left(Half2)
  BY <1>3 DEF Left
<1>6. Idle' = Idle
  BY <1>3, Zenon DEF Idle
<1>7. /\ FindCardsByPlayer(Player1)' \in {{}, Half1}
      /\ FindCardsByPlayer(Player2)' \in {{}, Half2}
      /\ player2Turn' => FindCardsByPlayer(Player1)' = Half1
  BY <1>3, <1>4, ZenonT(40) DEF StepInv
<1>8. Idle' => Cardinality(Left(Half2)') =
                   Cardinality(Left(Half1)') + (IF player2Turn' THEN 1 ELSE 0)
  BY <1>3, <1>5, <1>6, ZenonT(40) DEF StepInv
<1>9. ~Idle' => /\ call'.player1Id = Player1 /\ call'.player2Id = Player2
                /\ call'.gameId = Game
                /\ FindCardsByPlayer(Player2)' = Half2
                /\ Cardinality(Left(Half2)') =
                       Cardinality(Left(Half1)') + (Len(warCards') % 2)
                /\ call'.lastCard => Left(Half2)' = {}
  BY <1>3, <1>4, <1>5, <1>6, Zenon DEF StepInv
<1> QED BY <1>3, <1>5, <1>7, <1>8, <1>9, ZenonT(40) DEF StepInv

\* playCard1 takes a card from the first half.
LEMMA PlayCard1Step ==
    ASSUME ServiceInv, StepInv, PlayCard1(Player1)
    PROVE  StepInv'
<1>1. PICK card \in NextCards(Player1) : isPlayed' = [isPlayed EXCEPT ![card] = TRUE]
  BY Zenon DEF PlayCard1
<1>2. /\ Idle /\ player1Turn /\ player1Turn' = FALSE /\ player2Turn' = TRUE
      /\ UNCHANGED <<playerEntity, gameEntity, cardPlayers, warCards, call, winnerTopic>>
  BY DEF PlayCard1
<1>3. card \in FindCardsByPlayer(Player1) /\ card \in Card /\ ~isPlayed[card]
  BY DEF NextCards, Unplayed, FindCardsByPlayer
<1>4. FindCardsByPlayer(Player1) = Half1 /\ card \in Left(Half1)
  BY <1>3 DEF StepInv, Left
<1>5. /\ Cardinality(Left(Half1)') = Cardinality(Left(Half1)) - 1
      /\ Left(Half2)' = Left(Half2)
  BY <1>1, <1>4, PlayedCardLeaves, ZenonT(40) DEF ServiceInv, TypeOK, TablesTypeOK
<1>6. Cardinality(Left(Half2)) = Cardinality(Left(Half1))
  <2>1. ~player2Turn
    BY <1>2, Zenon DEF StepInv
  <2>2. Cardinality(Left(Half2)) = Cardinality(Left(Half1)) + 0
    BY <1>2, <2>1, ZenonT(40) DEF StepInv
  <2> QED BY <2>2, LeftFinite
<1>7. Cardinality(Left(Half2)') = Cardinality(Left(Half1)') + 1
  BY <1>5, <1>6, LeftFinite, SMT, Z3
<1>8. winnerTopic = <<>>
  BY <1>4 DEF StepInv
<1>9. Idle' /\ \A p : FindCardsByPlayer(p)' = FindCardsByPlayer(p)
  BY <1>2, Zenon DEF Idle, FindCardsByPlayer
<1> QED BY <1>2, <1>4, <1>7, <1>8, <1>9, ZenonT(40) DEF StepInv

\* The end of playCard2, when the halves are level again.
LEMMA EndOfRoundStep ==
    ASSUME StepInv, NEW captured1, NEW captured2, NEW sent, NEW request,
           EndOfRound(captured1, captured2, sent, request),
           UNCHANGED <<playerEntity, gameEntity, cardPlayers>>,
           Cardinality(Left(Half2)') = Cardinality(Left(Half1)'),
           sent # <<>> \/ request.lastCard => Left(Half1)' = {} /\ Left(Half2)' = {}
    PROVE  StepInv'
<1>1. Idle' /\ player1Turn' = TRUE /\ player2Turn' = FALSE
  BY DEF EndOfRound, Idle
<1>2. \A p : FindCardsByPlayer(p)' = FindCardsByPlayer(p)
  BY DEF FindCardsByPlayer
<1>3. winnerTopic' # <<>> => Left(Half1)' = {} /\ Left(Half2)' = {}
  BY DEF EndOfRound
<1>4. Cardinality(Left(Half2)') = Cardinality(Left(Half1)') + 0
  <2>1. Left(Half1)' \subseteq Half1
    BY DEF Left
  <2>2. Cardinality(Left(Half1)') \in Nat
    BY <2>1, HalvesSize, FS_Subset, FS_CardinalityType, ZenonT(40)
  <2> QED BY <2>2
<1> QED BY <1>1, <1>2, <1>3, <1>4, ZenonT(40) DEF StepInv

\* playCard2 takes a card from the second half; a war starts level.
LEMMA PlayCard2Step ==
    ASSUME ServiceInv, StepInv, PlayCard2(Player1, Player2, Game)
    PROVE  StepInv'
<1>1. PICK card \in NextCards(Player2) :
        /\ isPlayed' = [isPlayed EXCEPT ![card] = TRUE]
        /\ GameRound(card, [player1Id |-> Player1, player2Id |-> Player2,
                            gameId |-> Game,
                            lastCard |-> Unplayed(Player2) = {card}])
  BY Zenon DEF PlayCard2
<1> DEFINE request == [player1Id |-> Player1, player2Id |-> Player2, gameId |-> Game,
                       lastCard |-> Unplayed(Player2) = {card}]
<1>2. /\ Idle /\ player2Turn
      /\ UNCHANGED <<playerEntity, gameEntity, cardPlayers>>
  BY DEF PlayCard2
<1>3. card \in FindCardsByPlayer(Player2) /\ card \in Card /\ ~isPlayed[card]
  BY DEF NextCards, Unplayed, FindCardsByPlayer
<1>4. FindCardsByPlayer(Player2) = Half2 /\ card \in Left(Half2)
  BY <1>3 DEF StepInv, Left
<1>5. /\ Left(Half2)' = Left(Half2) \ {card}
      /\ Cardinality(Left(Half2)') = Cardinality(Left(Half2)) - 1
      /\ Left(Half1)' = Left(Half1)
  BY <1>1, <1>4, PlayedCardLeaves, ZenonT(40) DEF ServiceInv, TypeOK, TablesTypeOK
<1>6. Cardinality(Left(Half2)') = Cardinality(Left(Half1)')
  <2>1. Cardinality(Left(Half2)) = Cardinality(Left(Half1)) + 1
    BY <1>2, Zenon DEF StepInv
  <2> QED BY <1>5, <2>1, LeftFinite, SMT, Z3
<1>7. winnerTopic = <<>>
  BY <1>4 DEF StepInv
<1>8. request.lastCard => Left(Half1)' = {} /\ Left(Half2)' = {}
  <2>1. SUFFICES ASSUME Unplayed(Player2) = {card}
                 PROVE  Left(Half1)' = {} /\ Left(Half2)' = {}
    BY Zenon
  <2>2. Left(Half2)' = {}
    BY <1>4, <1>5, <2>1, ZenonT(40) DEF Unplayed, Left
  <2>3. Cardinality(Left(Half1)) = 0
    BY <1>5, <1>6, <2>2, FS_EmptySet, ZenonT(40)
  <2> QED BY <1>5, <2>2, <2>3, LeftFinite, FS_EmptySet, ZenonT(40)
<1>9. CASE \E captured1, captured2 : EndOfRound(captured1, captured2, winnerTopic, request)
  <2>1. PICK captured1, captured2 : EndOfRound(captured1, captured2, winnerTopic, request)
    BY <1>9, Zenon
  <2> HIDE DEF request
  <2> QED BY <2>1, <1>2, <1>6, <1>7, <1>8, EndOfRoundStep, ZenonT(40)
<1>10. CASE /\ warCards' = <<playedCard1, card>> /\ call' = request
            /\ UNCHANGED <<turns, piles, winnerTopic>>
  <2>1. ~Idle' /\ Len(warCards') = 2
    BY <1>10 DEF Idle
  <2>2. \A p : FindCardsByPlayer(p)' = FindCardsByPlayer(p)
    BY <1>2 DEF FindCardsByPlayer
  <2>3. Cardinality(Left(Half2)') = Cardinality(Left(Half1)') + (Len(warCards') % 2)
    <3>1. Len(warCards') % 2 = 0
      BY <2>1
    <3>2. Cardinality(Left(Half1)') \in Nat
      BY <1>5, LeftFinite, Zenon
    <3>3. Cardinality(Left(Half1)') + 0 = Cardinality(Left(Half1)')
      BY <3>2
    <3> QED BY <1>6, <3>1, <3>3, Zenon
  <2>4. /\ call'.player1Id = Player1 /\ call'.player2Id = Player2
        /\ call'.gameId = Game
        /\ call'.lastCard => Left(Half2)' = {}
    BY <1>8, <1>10
  <2>5. player1Turn' = player1Turn /\ player2Turn' = player2Turn /\ winnerTopic' = <<>>
    BY <1>7, <1>10, Zenon DEF turns
  <2> QED BY <1>2, <1>4, <2>1, <2>2, <2>3, <2>4, <2>5, ZenonT(40) DEF StepInv
<1> QED BY <1>1, <1>9, <1>10, Zenon DEF GameRound

\* A draw of war(): player 1 draws when the list is even, player 2 when odd.
LEMMA WarDrawStep ==
    ASSUME ServiceInv, StepInv, WarDraw
    PROVE  StepInv'
<1>1. PICK card \in NextCards(Drawer) :
        /\ isPlayed' = [isPlayed EXCEPT ![card] = TRUE]
        /\ warCards' = Append(warCards, card)
  BY Zenon DEF WarDraw
<1>2. /\ ~Idle
      /\ UNCHANGED <<playerEntity, gameEntity, cardPlayers, player1Turn, player2Turn,
                     call, winnerTopic>>
  BY DEF WarDraw, turns
<1>3. card \in FindCardsByPlayer(Drawer) /\ card \in Card /\ ~isPlayed[card]
  BY Zenon DEF NextCards, Unplayed, FindCardsByPlayer
<1>4. /\ call.player1Id = Player1 /\ call.player2Id = Player2 /\ call.gameId = Game
      /\ FindCardsByPlayer(Player2) = Half2 /\ FindCardsByPlayer(Player1) = Half1
      /\ Cardinality(Left(Half2)) = Cardinality(Left(Half1)) + (Len(warCards) % 2)
      /\ call.lastCard => Left(Half2) = {}
  BY <1>2, ZenonT(40) DEF StepInv, ServiceInv, WarCardsApart
<1>5. /\ Len(warCards) \in Nat /\ Len(warCards') = Len(warCards) + 1
      /\ warCards' # <<>>
  BY <1>1, <1>3, Appended, Zenon DEF ServiceInv, TypeOK
<1>6. /\ Cardinality(Left(Half2)') = Cardinality(Left(Half1)') + (Len(warCards') % 2)
      /\ card \in Left(Half1) \/ card \in Left(Half2)
      /\ Left(Half2)' \subseteq Left(Half2)
  <2>1. CASE Len(warCards) % 2 = 0
    <3>1. card \in Left(Half1)
      BY <1>3, <1>4, <2>1, Zenon DEF Drawer, Left
    <3>2. /\ Cardinality(Left(Half1)') = Cardinality(Left(Half1)) - 1
          /\ Left(Half2)' = Left(Half2)
      BY <1>1, <3>1, PlayedCardLeaves, Zenon DEF ServiceInv, TypeOK, TablesTypeOK
    <3>3. Cardinality(Left(Half2)') = Cardinality(Left(Half1)') + (Len(warCards') % 2)
      <4>1. PICK a1 \in Nat, a2 \in Nat, k \in Nat :
              a1 = Cardinality(Left(Half1)) /\ a2 = Cardinality(Left(Half2)) /\ k = Len(warCards)
        BY <1>5, LeftFinite, Zenon
      <4>2. PICK b1, b2, l : /\ b1 = Cardinality(Left(Half1)') /\ b2 = Cardinality(Left(Half2)')
                             /\ l = Len(warCards')
        BY Zenon
      <4>3. a2 = a1 + (k % 2) /\ l = k + 1 /\ k % 2 = 0 /\ b1 = a1 - 1 /\ b2 = a2
        BY <1>4, <1>5, <2>1, <3>2, <4>1, <4>2, ZenonT(40)
      <4>4. b2 = b1 + (l % 2)
        BY <4>3, DrawLevels
      <4> QED BY <4>2, <4>4, Zenon
    <3> QED BY <3>1, <3>2, <3>3, Zenon
  <2>2. CASE Len(warCards) % 2 = 1
    <3>1. card \in Left(Half2)
      BY <1>3, <1>4, <1>5, <2>2, Parity, Zenon DEF Drawer, Left
    <3>2. /\ Cardinality(Left(Half2)') = Cardinality(Left(Half2)) - 1
          /\ Left(Half2)' = Left(Half2) \ {card}
          /\ Left(Half1)' = Left(Half1)
      BY <1>1, <3>1, PlayedCardLeaves, Zenon DEF ServiceInv, TypeOK, TablesTypeOK
    <3>3. Cardinality(Left(Half2)') = Cardinality(Left(Half1)') + (Len(warCards') % 2)
      <4>1. PICK a1 \in Nat, a2 \in Nat, k \in Nat :
              a1 = Cardinality(Left(Half1)) /\ a2 = Cardinality(Left(Half2)) /\ k = Len(warCards)
        BY <1>5, LeftFinite, Zenon
      <4>2. PICK b1, b2, l : /\ b1 = Cardinality(Left(Half1)') /\ b2 = Cardinality(Left(Half2)')
                             /\ l = Len(warCards')
        BY Zenon
      <4>3. a2 = a1 + (k % 2) /\ l = k + 1 /\ k % 2 = 1 /\ b1 = a1 /\ b2 = a2 - 1
        BY <1>4, <1>5, <2>2, <3>2, <4>1, <4>2, ZenonT(40)
      <4>4. b2 = b1 + (l % 2)
        BY <4>3, DrawLevels, SMT, Z3
      <4> QED BY <4>2, <4>4, Zenon
    <3> QED BY <3>1, <3>2, <3>3, Zenon
  <2> QED BY <1>5, <2>1, <2>2, Parity, Zenon
<1>7. winnerTopic = <<>>
  BY <1>6 DEF StepInv
<1>8. ~Idle' /\ \A p : FindCardsByPlayer(p)' = FindCardsByPlayer(p)
  BY <1>2, <1>5, Zenon DEF Idle, FindCardsByPlayer
<1>9. call'.lastCard => Left(Half2)' = {}
  BY <1>2, <1>4, <1>6, SMT, Z3
<1> QED BY <1>2, <1>4, <1>6, <1>7, <1>8, <1>9, Zenon DEF StepInv

\* Player 2 cannot run out first; when player 1 runs out, so has player 2.
LEMMA WarOutOfCardsStep ==
    ASSUME ServiceInv, StepInv, WarOutOfCards
    PROVE  StepInv'
<1>1. /\ ~Idle /\ Unplayed(Drawer) = {}
      /\ UNCHANGED <<playerEntity, gameEntity, cardPlayers, isPlayed>>
  BY SMT, Z3 DEF WarOutOfCards, tables
<1>2. /\ call.player1Id = Player1 /\ call.player2Id = Player2
      /\ FindCardsByPlayer(Player2) = Half2 /\ FindCardsByPlayer(Player1) = Half1
      /\ Cardinality(Left(Half2)) = Cardinality(Left(Half1)) + (Len(warCards) % 2)
  BY <1>1, SMT, Z3 DEF StepInv, ServiceInv, WarCardsApart
<1>3. Len(warCards) \in Nat
  BY LenProperties DEF ServiceInv, TypeOK
<1>4. Left(Half1) = {} /\ Left(Half2) = {}
  <2>1. CASE Len(warCards) % 2 = 0
    <3>1. Left(Half1) = {}
      BY <1>1, <1>2, <2>1, ZenonT(40) DEF Drawer, Unplayed, Left
    <3>2. Cardinality(Left(Half2)) = 0
      BY <1>2, <2>1, <3>1, LeftFinite, FS_EmptySet, Levels, Zenon
    <3> QED BY <3>1, <3>2, LeftFinite, FS_EmptySet, ZenonT(40)
  <2>2. CASE Len(warCards) % 2 = 1
    <3>1. Left(Half2) = {}
      BY <1>1, <1>2, <2>2, SMT, Z3 DEF Drawer, Unplayed, Left
    <3>2. Cardinality(Left(Half2)) = 0
      BY <3>1, FS_EmptySet
    <3> QED BY <1>2, <2>2, <3>2, LeftFinite, Levels, Zenon
  <2> QED BY <1>3, <2>1, <2>2, SMT, Z3
<1>5. Left(Half1)' = {} /\ Left(Half2)' = {}
  BY <1>1, <1>4, ZenonT(40) DEF Left
<1>6. PICK captured1, captured2, sent : EndOfRound(captured1, captured2, sent, call)
  BY DEF WarOutOfCards
<1> QED BY <1>1, <1>5, <1>6, EndOfRoundStep, ZenonT(40)

\* The rows of the table are all there, so declareWinner never throws.
LEMMA NoWarAborts ==
    ASSUME StepInv, WarAborts
    PROVE  FALSE
<1>1. /\ call.player1Id = Player1 /\ call.player2Id = Player2 /\ call.gameId = Game
      /\ playerEntity = SeatedPlayers /\ gameEntity = SeatedGame
  BY DEF WarAborts, StepInv
<1>2. Found(call)
  BY <1>1, Zenon DEF Found, SeatedPlayers, SeatedGame
<1> QED BY <1>2, ZenonT(40) DEF WarAborts

\* Third cards are compared when the halves are level.
LEMMA WarCompareStep ==
    ASSUME ServiceInv, StepInv, WarCompare
    PROVE  StepInv'
<1>1. ~Idle /\ Len(warCards) % 2 = 0
  BY FullWar, Zenon DEF WarCompare
<1>2. /\ UNCHANGED <<playerEntity, gameEntity, cardPlayers, isPlayed>>
      /\ \A p : FindCardsByPlayer(p)' = FindCardsByPlayer(p)
  BY DEF WarCompare, tables, FindCardsByPlayer
<1>3. Left(Half1)' = Left(Half1) /\ Left(Half2)' = Left(Half2)
  BY <1>2, Zenon DEF Left
<1>4. Cardinality(Left(Half2)') = Cardinality(Left(Half1)')
  BY <1>1, <1>3, LeftFinite, Levels, ZenonT(40) DEF StepInv
<1>5. winnerTopic # <<>> \/ call.lastCard => Left(Half1)' = {} /\ Left(Half2)' = {}
  <2>1. winnerTopic # <<>> => Left(Half1)' = {} /\ Left(Half2)' = {}
    BY <1>3, Zenon DEF StepInv
  <2>2. call.lastCard => Left(Half2)' = {}
    BY <1>1, <1>3, Zenon DEF StepInv
  <2>3. call.lastCard => Left(Half1)' = {}
    <3>1. Left(Half2)' = {} => Cardinality(Left(Half1)) = 0
      BY <1>3, <1>4, FS_EmptySet, ZenonT(40)
    <3> QED BY <1>3, <2>2, <3>1, LeftFinite, FS_EmptySet, Zenon
  <2> QED BY <2>1, <2>2, <2>3, Zenon
<1>6. CASE \E captured1, captured2 : EndOfRound(captured1, captured2, winnerTopic, call)
  <2>1. PICK captured1, captured2 : EndOfRound(captured1, captured2, winnerTopic, call)
    BY <1>6, Zenon
  <2> QED BY <2>1, <1>2, <1>4, <1>5, EndOfRoundStep, ZenonT(40)
<1>7. CASE /\ warCards' = <<playedCard1, playedCard2>>
           /\ UNCHANGED <<turns, piles, call, winnerTopic>>
  <2>1. ~Idle' /\ Len(warCards') = 2
    BY <1>7 DEF Idle
  <2>2. Cardinality(Left(Half2)') = Cardinality(Left(Half1)') + (Len(warCards') % 2)
    BY <1>3, <1>4, <2>1, LeftFinite, SMT, Z3
  <2>3. /\ player1Turn' = player1Turn /\ player2Turn' = player2Turn
        /\ call' = call /\ winnerTopic' = winnerTopic
    BY <1>7, Zenon DEF turns
  <2> QED BY <1>1, <1>2, <1>3, <2>1, <2>2, <2>3, ZenonT(40) DEF StepInv
<1> QED BY <1>6, <1>7, ZenonT(40) DEF WarCompare

\* A step that changes nothing keeps the halves in step.
LEMMA StepStutter == StepInv /\ UNCHANGED vars => StepInv'
BY DEF StepInv, FindCardsByPlayer, Left, Idle, vars, tables, service, turns

\* Every step of the table keeps the halves in step.
LEMMA StepNext == StableOrder /\ ServiceInv /\ StepInv /\ [Next]_vars => StepInv'
<1> SUFFICES ASSUME StableOrder, ServiceInv, StepInv, [Next]_vars PROVE StepInv'
  OBVIOUS
<1>1. CASE Deal
  BY <1>1, DealStep DEF Deal
<1>2. CASE Play
  BY <1>2, PlayCard1Step, PlayCard2Step DEF Play
<1>3. CASE War
  BY <1>3, WarDrawStep, WarOutOfCardsStep, NoWarAborts, WarCompareStep, ZenonT(40) DEF War
<1>4. CASE UNCHANGED vars
  BY <1>4, StepStutter, Zenon
<1> QED BY <1>1, <1>2, <1>3, <1>4, Zenon DEF Next

-----------------------------------------------------------------------------
(* What StepInv says of the hands.                                         *)

\* After both deals the hands are the two halves.
LEMMA DealtHands ==
    ASSUME StepInv, Dealt
    PROVE  /\ FindCardsByPlayer(Player1) = Half1 /\ FindCardsByPlayer(Player2) = Half2
           /\ Unplayed(Player1) = Left(Half1) /\ Unplayed(Player2) = Left(Half2)
BY DEF StepInv, Dealt, Unplayed, Left

\* What the halves say is what the properties say of the hands.
LEMMA StepInvSuffices ==
    ASSUME StepInv
    PROVE  HandsInStep /\ NoStrandedHand /\ WinnerOnlyAtEnd
<1>1. HandsInStep
  BY DealtHands DEF HandsInStep, StepInv
<1>2. NoStrandedHand
  <2> SUFFICES ASSUME Dealt, Idle, player1Turn, Unplayed(Player1) = {}
               PROVE  Unplayed(Player2) = {}
    BY DEF NoStrandedHand
  <2>1. ~player2Turn
    BY Zenon DEF StepInv
  <2>2. Cardinality(Left(Half2)) = Cardinality(Left(Half1)) + 0
    BY <2>1, SMT, Z3 DEF StepInv
  <2>3. Cardinality(Left(Half2)) = 0
    BY <2>2, DealtHands, FS_EmptySet, SMT, Z3
  <2> QED BY <2>3, DealtHands, LeftFinite, FS_EmptySet, ZenonT(40)
<1>3. WinnerOnlyAtEnd
  <2> SUFFICES ASSUME winnerTopic # <<>>
               PROVE  Unplayed(Player1) = {} /\ Unplayed(Player2) = {}
    BY DEF WinnerOnlyAtEnd
  <2>1. Left(Half1) = {} /\ Left(Half2) = {}
    BY Zenon DEF StepInv
  <2>2. FindCardsByPlayer(Player1) \in {{}, Half1} /\ FindCardsByPlayer(Player2) \in {{}, Half2}
    BY DEF StepInv
  <2> QED BY <2>1, <2>2 DEF Unplayed, Left
<1> QED BY <1>1, <1>2, <1>3, ZenonT(40)

\* The halves stay in step in every behaviour of the table.
LEMMA StableStepInv == ASSUME StableOrder PROVE Spec => [](ServiceInv /\ StepInv)
<1>1. ServiceInv /\ StepInv /\ [Next]_vars => (ServiceInv /\ StepInv)'
  BY NextInv, StepNext DEF NextRestart
<1> QED BY <1>1, InitInv, StepInit, PTL DEF Spec

\* With a stable order of findAll the two hands shrink in step, through
\* rounds, wars that call themselves and repeated deals.
THEOREM StableHandsInStep == ASSUME StableOrder PROVE Spec => []HandsInStep
BY StableStepInv, StepInvSuffices, PTL

\* With a stable order player 1 is never stranded without cards while player
\* 2 has some.
THEOREM StableNoStrandedHand == ASSUME StableOrder PROVE Spec => []NoStrandedHand
BY StableStepInv, StepInvSuffices, PTL

\* With a stable order a winner is sent only when both hands are empty.
THEOREM StableWinnerOnlyAtEnd == ASSUME StableOrder PROVE Spec => []WinnerOnlyAtEnd
BY StableStepInv, StepInvSuffices, PTL

-----------------------------------------------------------------------------
(* The winner.  The names of the two players have to differ: war cards go  *)
(* to the first player who has the name that declareWinner returned.       *)

\* The name that declareWinner returns at this table.
VerdictOf(captured1, captured2) ==
    IF Len(captured1) > Len(captured2) THEN Username1
    ELSE IF Len(captured1) < Len(captured2) THEN Username2
    ELSE Tie

LEMMA Announced ==
    ASSUME playerEntity = SeatedPlayers, gameEntity = SeatedGame,
           NEW request, request.player1Id = Player1, request.player2Id = Player2,
           request.gameId = Game, NEW captured1, NEW captured2
    PROVE  /\ Found(request)
           /\ playerEntity[request.player1Id].username = Username1
           /\ playerEntity[request.player2Id].username = Username2
           /\ DeclareWinner(captured1, captured2, request) = VerdictOf(captured1, captured2)
<1>1. Found(request)
  BY DEF Found, SeatedPlayers, SeatedGame
<1>2. /\ playerEntity[Player1].username = Username1
      /\ playerEntity[Player2].username = Username2
  BY CardTableAssumption DEF SeatedPlayers
<1> QED BY <1>1, <1>2, ZenonT(40) DEF DeclareWinner, VerdictOf

\* The end of playCard2 sends the winner that its piles show.
LEMMA RoundVerdict ==
    ASSUME StepInv, NEW captured1, NEW captured2, NEW sent \in Seq(Name \cup {Tie}), NEW request,
           request.player1Id = Player1, request.player2Id = Player2, request.gameId = Game,
           EndOfRound(captured1, captured2, sent, request),
           sent = <<>> \/ sent[Len(sent)] = VerdictOf(captured1, captured2)
    PROVE  /\ Idle' /\ ~player2Turn'
           /\ player1CapturedCards' = captured1 /\ player2CapturedCards' = captured2
           /\ winnerTopic' = IF request.lastCard
                             THEN Append(sent, VerdictOf(captured1, captured2)) ELSE sent
           /\ WinnerMatchesPiles'
<1>1. /\ warCards' = <<>> /\ player2Turn' = FALSE
      /\ player1CapturedCards' = captured1 /\ player2CapturedCards' = captured2
      /\ winnerTopic' = IF request.lastCard /\ Found(request)
                        THEN Append(sent, DeclareWinner(captured1, captured2, request))
                        ELSE sent
  BY Zenon DEF EndOfRound
<1>2. PICK v : v = VerdictOf(captured1, captured2)
  OBVIOUS
<1>3. v \in Name \cup {Tie}
  BY <1>2, CardTableAssumption, ZenonT(40) DEF VerdictOf
<1>4. Found(request) /\ DeclareWinner(captured1, captured2, request) = v
  BY <1>2, Announced, SMT, Z3 DEF StepInv
<1>5. winnerTopic' = IF request.lastCard THEN Append(sent, v) ELSE sent
  BY <1>1, <1>4, Zenon
<1>6. Verdict' = v
  BY <1>1, <1>2 DEF Verdict, VerdictOf
<1>7. winnerTopic' # <<>> => winnerTopic'[Len(winnerTopic')] = v
  <2>1. CASE request.lastCard
    <3>1. winnerTopic' = Append(sent, v)
      BY <1>5, <2>1
    <3> QED BY <1>3, <3>1, AppendProperties, SMT, Z3
  <2>2. CASE ~request.lastCard
    BY <1>2, <1>5, <2>2, ZenonT(40)
  <2> QED BY <2>1, <2>2, ZenonT(40)
<1> QED BY <1>1, <1>2, <1>5, <1>6, <1>7, ZenonT(40) DEF WinnerMatchesPiles, Idle

\* When a war runs out, its cards go to the player who is ahead, or to nobody:
\* the winner stays the same.
LEMMA RunsOut ==
    ASSUME RulesInv, Username1 # Username2, WarOutOfCards
    PROVE  \E captured1, captured2 :
              /\ EndOfRound(captured1, captured2, <<Verdict>>, call)
              /\ VerdictOf(captured1, captured2) = Verdict
              /\ \/ /\ Lead > 0 /\ Verdict = Username1
                    /\ captured1 = player1CapturedCards \o warCards
                    /\ captured2 = player2CapturedCards
                 \/ /\ Lead < 0 /\ Verdict = Username2
                    /\ captured1 = player1CapturedCards
                    /\ captured2 = player2CapturedCards \o warCards
                 \/ /\ Lead = 0 /\ Verdict = Tie
                    /\ captured1 = player1CapturedCards /\ captured2 = player2CapturedCards
<1>1. PICK c1, c2, w : c1 = player1CapturedCards /\ c2 = player2CapturedCards /\ w = warCards
  BY Zenon
<1>2. /\ c1 \in Seq(Card) /\ c2 \in Seq(Card) /\ w \in Seq(Card)
      /\ Len(c1) \in Nat /\ Len(c2) \in Nat /\ Len(w) \in Nat
      /\ Len(c1 \o w) = Len(c1) + Len(w) /\ Len(c2 \o w) = Len(c2) + Len(w)
  <2>1. c1 \in Seq(Card) /\ c2 \in Seq(Card) /\ w \in Seq(Card)
    BY <1>1, Zenon DEF RulesInv, ServiceInv, TypeOK
  <2> QED BY <2>1, Joined, Zenon
<1>3. /\ call.player1Id = Player1 /\ call.player2Id = Player2 /\ call.gameId = Game
      /\ playerEntity = SeatedPlayers /\ gameEntity = SeatedGame
      /\ winnerTopic = <<>>
  BY DEF RulesInv, StepInv, WarOutOfCards
<1>4. PICK v : v = VerdictOf(c1, c2)
  OBVIOUS
<1>5. /\ DeclareWinner(c1, c2, call) = v
      /\ playerEntity[call.player1Id].username = Username1
      /\ playerEntity[call.player2Id].username = Username2
  BY <1>3, <1>4, Announced, ZenonT(40)
<1>6. Verdict = v
  BY <1>1, <1>4 DEF Verdict, VerdictOf
<1>7. Append(winnerTopic, v) = <<v>>
  BY <1>3, SameMessage, ZenonT(40)
<1>8. EndOfRound(IF v = Username1 THEN c1 \o w ELSE c1,
                 IF v # Username1 /\ v = Username2 THEN c2 \o w ELSE c2,
                 <<v>>, call)
  BY <1>1, <1>5, <1>7, ZenonT(40) DEF WarOutOfCards
<1>9. Tie # Username1 /\ Tie # Username2
  BY CardsServiceAssumption, CardTableAssumption
<1>10. CASE Len(c1) > Len(c2)
  <2>1. v = Username1 /\ VerdictOf(c1 \o w, c2) = v
    <3>1. Len(c1) + Len(w) > Len(c2)
      BY <1>2, <1>10, Longer, ZenonT(40)
    <3>2. Len(c1 \o w) > Len(c2)
      BY <1>2, <3>1, ZenonT(40)
    <3> QED BY <1>4, <1>10, <3>2, ZenonT(40) DEF VerdictOf
  <2>2. Lead > 0
    BY <1>1, <1>2, <1>10, Longer, ZenonT(40) DEF Lead
  <2> QED BY <1>1, <1>6, <1>8, <2>1, <2>2, Zenon
<1>11. CASE Len(c1) < Len(c2)
  <2>1. v = Username2 /\ VerdictOf(c1, c2 \o w) = v
    <3>1. /\ ~(Len(c1) > Len(c2))
          /\ Len(c1) < Len(c2) + Len(w) /\ ~(Len(c1) > Len(c2) + Len(w))
      BY <1>2, <1>11, Longer, ZenonT(40)
    <3>2. Len(c1) < Len(c2 \o w) /\ ~(Len(c1) > Len(c2 \o w))
      BY <1>2, <3>1, ZenonT(40)
    <3> QED BY <1>4, <1>11, <3>1, <3>2, ZenonT(40) DEF VerdictOf
  <2>2. Lead < 0
    BY <1>1, <1>2, <1>11, Longer, ZenonT(40) DEF Lead
  <2> QED BY <1>1, <1>6, <1>8, <2>1, <2>2, ZenonT(40)
<1>12. CASE Len(c1) = Len(c2)
  <2>1. v = Tie
    BY <1>2, <1>4, <1>12, Longer, ZenonT(40) DEF VerdictOf
  <2>2. Lead = 0
    BY <1>1, <1>2, <1>12, Longer, ZenonT(40) DEF Lead
  <2> QED BY <1>1, <1>4, <1>6, <1>8, <1>9, <2>1, <2>2, ZenonT(40)
<1>13. Len(c1) > Len(c2) \/ Len(c1) < Len(c2) \/ Len(c1) = Len(c2)
  BY <1>2, Longer, Zenon
<1> QED BY <1>10, <1>11, <1>12, <1>13, Zenon

\* The parts of RulesInv that are not in StepInv.
UndealtWhole ==
    /\ FindCardsByPlayer(Player1) = {} => Left(Half1) = Half1
    /\ FindCardsByPlayer(Player2) = {} => Left(Half2) = Half2
WarBegun ==
    ~Idle => /\ Len(warCards) >= 2
             /\ warCards[1] = playedCard1 /\ warCards[2] = playedCard2
             /\ winnerTopic = <<>>
             /\ call.lastCard => Len(warCards) = 2

\* Only a dealt half loses cards.
LEMMA UndealtKept ==
    ASSUME UndealtWhole, UNCHANGED cardPlayers,
           FindCardsByPlayer(Player1) = Half1 \/ Left(Half1)' = Left(Half1),
           FindCardsByPlayer(Player2) = Half2 \/ Left(Half2)' = Left(Half2)
    PROVE  UndealtWhole'
<1>1. Half1 # {} /\ Half2 # {}
  BY HalvesSize, FS_EmptySet, CardsServiceAssumption, ZenonT(40)
<1>2. \A p : FindCardsByPlayer(p)' = FindCardsByPlayer(p)
  BY DEF FindCardsByPlayer
<1> QED BY <1>1, <1>2, ZenonT(40) DEF UndealtWhole

\* A pile holds as many cards as it is long.
LEMMA PileSize ==
    ASSUME NEW s \in Seq(Card), IsInjective(s)
    PROVE  Cardinality(Range(s)) = Len(s)
<1>1. Len(s) \in Nat /\ s \in [1..Len(s) -> Card]
  BY LenProperties
<1>2. IsFiniteSet(1..Len(s)) /\ Cardinality(1..Len(s)) = Len(s)
  BY <1>1, CountTo, Zenon
<1>3. s \in Surjection(1..Len(s), Range(s)) /\ s \in Injection(1..Len(s), Range(s))
  BY <1>1 DEF Surjection, Injection, IsInjective, Range
<1> QED BY <1>2, <1>3, FS_Surjection, ZenonT(40)

\* The rules count and list cards as the table does.
LEMMA RulesOperators ==
    /\ \A S : Rules!Cardinality(S) = Cardinality(S)
    /\ \A f : Rules!Range(f) = Range(f)
<1>1. \A S : Rules!Cardinality(S) = Cardinality(S)
  BY Zenon DEF Rules!Cardinality, Cardinality
<1>2. \A f : Rules!Range(f) = Range(f)
  BY Zenon DEF Rules!Range, Range
<1> QED BY <1>1, <1>2, ZenonT(40)

\* Counting the cards of the piles decides the game as their lengths do.
LEMMA RulesVerdict ==
    /\ ServiceInv => Rules!Verdict = Verdict
    /\ ServiceInv' => Rules!Verdict' = Verdict'
<1>1. ASSUME ServiceInv PROVE Rules!Verdict = Verdict
  <2>1. /\ Cardinality(Range(player1CapturedCards)) = Len(player1CapturedCards)
        /\ Cardinality(Range(player2CapturedCards)) = Len(player2CapturedCards)
    BY <1>1, PileSize, ZenonT(40) DEF ServiceInv, TypeOK, CapturedOnce
  <2> QED BY <2>1, RulesOperators, ZenonT(40) DEF Rules!Verdict, Verdict
<1>2. ASSUME ServiceInv' PROVE Rules!Verdict' = Verdict'
  <2>1. /\ Cardinality(Range(player1CapturedCards')) = Len(player1CapturedCards')
        /\ Cardinality(Range(player2CapturedCards')) = Len(player2CapturedCards')
    BY <1>2, PileSize, ZenonT(40) DEF ServiceInv, TypeOK, CapturedOnce
  <2> QED BY <2>1, RulesOperators, ZenonT(40) DEF Rules!Verdict, Verdict
<1> QED BY <1>1, <1>2, Zenon

\* No winner is sent while a card is left.
LEMMA EmptyAtEnd ==
    ASSUME StepInv', winnerTopic' # <<>>
    PROVE  Unplayed(Player1)' = {} /\ Unplayed(Player2)' = {}
<1>1. Left(Half1)' = {} /\ Left(Half2)' = {}
  BY ZenonT(40) DEF StepInv
<1>2. FindCardsByPlayer(Player1)' \in {{}, Half1} /\ FindCardsByPlayer(Player2)' \in {{}, Half2}
  BY DEF StepInv
<1> QED BY <1>1, <1>2, ZenonT(40) DEF Unplayed, Left

\* What a round or a war sends, the rules allow it to announce.
LEMMA Announces ==
    ASSUME ServiceInv', StepInv', winnerTopic = <<>>, NEW n \in 0..2,
           winnerTopic' = [i \in 1..n |-> Verdict']
    PROVE  Rules!MayAnnounce
<1>1. Rules!Verdict' = Verdict'
  BY RulesVerdict
<1>2. winnerTopic' = winnerTopic \o [i \in 1..n |-> Rules!Verdict']
  BY <1>1
<1>3. n > 0 => winnerTopic' # <<>>
  BY SMT
<1>4. n > 0 => Unplayed(Player1)' = {} /\ Unplayed(Player2)' = {}
  BY <1>3, EmptyAtEnd, ZenonT(40)
<1> QED BY <1>2, <1>4, ZenonT(40) DEF Rules!MayAnnounce

\* A deal is a deal of the rules: the cards that were already played are no
\* more in the hand than before.
LEMMA DealRules ==
    ASSUME RulesInv, StableOrder, DealCards1(Session1) \/ DealCards2(Session2)
    PROVE  /\ UndealtWhole' /\ WarBegun' /\ WinnerMatchesPiles' /\ LeadKept
           /\ Rules!Deal1 \/ Rules!Deal2
<1> USE CardTableAssumption, RepositoriesAssumption
<1>1. /\ FindPlayerBySessionId(Session1) = Player1
      /\ FindPlayerBySessionId(Session2) = Player2
  BY SeatedSessions, ZenonT(40) DEF RulesInv, StepInv
<1>2. Idle /\ \/ DealHalf(FirstHalf(TheOrder), Player1)
              \/ DealHalf(SecondHalf(TheOrder), Player2)
  BY <1>1, Zenon DEF DealCards1, DealCards2, StableOrder
<1>3. UNCHANGED <<playerEntity, gameEntity, isPlayed, player1Turn, player2Turn, playedCard1,
                  playedCard2, player1CapturedCards, player2CapturedCards, warCards, call,
                  winnerTopic>>
  BY <1>2, ZenonT(40) DEF DealHalf, service, turns, piles
<1>4. /\ FindCardsByPlayer(Player1) \in {{}, Half1} /\ FindCardsByPlayer(Player2) \in {{}, Half2}
      /\ UndealtWhole
  BY DEF RulesInv, StepInv, UndealtWhole
<1>5. Left(Half1)' = Left(Half1) /\ Left(Half2)' = Left(Half2)
  BY <1>3 DEF Left
<1>6. Idle' /\ WarBegun' /\ WinnerMatchesPiles' /\ LeadKept
  <2>1. Idle' /\ Verdict' = Verdict
    BY <1>2, <1>3, ZenonT(40) DEF Idle, Verdict
  <2>2. WinnerMatchesPiles
    BY DEF RulesInv
  <2> QED BY <1>2, <1>3, <2>1, <2>2, ZenonT(40) DEF WarBegun, WinnerMatchesPiles, LeadKept
<1>7. CASE DealHalf(FirstHalf(TheOrder), Player1)
  <2>1. cardPlayers' = [c \in Card |-> IF c \in Half1 THEN Player1 ELSE cardPlayers[c]]
    BY <1>7 DEF DealHalf, Half1
  <2>2. FindCardsByPlayer(Player1)' = Half1
    BY <2>1, <1>4, HalvesApart, ZenonT(40) DEF FindCardsByPlayer
  <2>3. FindCardsByPlayer(Player2)' = FindCardsByPlayer(Player2)
    BY <2>1, <1>4, HalvesApart, Zenon DEF FindCardsByPlayer
  <2>4. Half1 # {}
    BY HalvesSize, FS_EmptySet, CardsServiceAssumption, Zenon
  <2>5. UndealtWhole'
    BY <1>4, <1>5, <2>2, <2>3, <2>4, ZenonT(40) DEF UndealtWhole
  <2>6. Unplayed(Player1)' = Left(Half1) /\ Unplayed(Player2)' = Unplayed(Player2)
    BY <1>3, <2>2, <2>3, Zenon DEF Unplayed, Left
  <2>7. /\ Unplayed(Player1) \subseteq Left(Half1)
        /\ Left(Half1) \subseteq Unplayed(Player1) \cup (Half1 \ FindCardsByPlayer(Player1))
        /\ Half1 \ FindCardsByPlayer(Player1)' =
             (Half1 \ FindCardsByPlayer(Player1)) \ Left(Half1)
    BY <1>4, <2>2, Zenon DEF Unplayed, Left, UndealtWhole
  <2>8. Rules!Deal1
    BY <1>2, <1>3, <1>6, <2>3, <2>6, <2>7, ZenonT(40) DEF Rules!Deal1
  <2> QED BY <1>6, <2>5, <2>8, ZenonT(40)
<1>8. CASE DealHalf(SecondHalf(TheOrder), Player2)
  <2>1. cardPlayers' = [c \in Card |-> IF c \in Half2 THEN Player2 ELSE cardPlayers[c]]
    BY <1>8 DEF DealHalf, Half2
  <2>2. FindCardsByPlayer(Player2)' = Half2
    BY <2>1, <1>4, HalvesApart, Zenon DEF FindCardsByPlayer
  <2>3. FindCardsByPlayer(Player1)' = FindCardsByPlayer(Player1)
    BY <2>1, <1>4, HalvesApart, ZenonT(40) DEF FindCardsByPlayer
  <2>4. Half2 # {}
    BY HalvesSize, FS_EmptySet, CardsServiceAssumption, ZenonT(40)
  <2>5. UndealtWhole'
    BY <1>4, <1>5, <2>2, <2>3, <2>4, ZenonT(40) DEF UndealtWhole
  <2>6. Unplayed(Player2)' = Left(Half2) /\ Unplayed(Player1)' = Unplayed(Player1)
    BY <1>3, <2>2, <2>3, Zenon DEF Unplayed, Left
  <2>7. /\ Unplayed(Player2) \subseteq Left(Half2)
        /\ Left(Half2) \subseteq Unplayed(Player2) \cup (Half2 \ FindCardsByPlayer(Player2))
        /\ Half2 \ FindCardsByPlayer(Player2)' =
             (Half2 \ FindCardsByPlayer(Player2)) \ Left(Half2)
    BY <1>4, <2>2, Zenon DEF Unplayed, Left, UndealtWhole
  <2>8. Rules!Deal2
    BY <1>2, <1>3, <1>6, <2>3, <2>6, <2>7, ZenonT(40) DEF Rules!Deal2
  <2> QED BY <1>6, <2>5, <2>8, ZenonT(40)
<1> QED BY <1>2, <1>7, <1>8, ZenonT(40)

\* A card that a player plays leaves that player's hand and no other.
LEMMA HandPlays ==
    ASSUME ServiceInv, NEW p, NEW card \in Unplayed(p), NEW q, q # p,
           isPlayed' = [isPlayed EXCEPT ![card] = TRUE], UNCHANGED cardPlayers
    PROVE  /\ Unplayed(p)' = Unplayed(p) \ {card} /\ Unplayed(q)' = Unplayed(q)
           /\ \A r : FindCardsByPlayer(r)' = FindCardsByPlayer(r)
           /\ card \in Card
BY DEF ServiceInv, TypeOK, TablesTypeOK, Unplayed, FindCardsByPlayer

\* playCard1 reveals player 1's card.
LEMMA PlayCard1Rules ==
    ASSUME RulesInv, PlayCard1(Player1)
    PROVE  /\ UndealtWhole' /\ WarBegun' /\ WinnerMatchesPiles' /\ LeadKept
           /\ Rules!Reveal1
<1>1. PICK card \in NextCards(Player1) :
        isPlayed' = [isPlayed EXCEPT ![card] = TRUE] /\ playedCard1' = card
  BY Zenon DEF PlayCard1
<1>2. /\ Idle /\ player1Turn /\ player1Turn' = FALSE /\ player2Turn' = TRUE
      /\ UNCHANGED <<cardPlayers, player1CapturedCards, player2CapturedCards, warCards,
                     winnerTopic>>
  BY DEF PlayCard1, piles
<1>3. card \in Unplayed(Player1) /\ card \in FindCardsByPlayer(Player1) /\ ~isPlayed[card]
  BY Zenon DEF NextCards, Unplayed
<1>4. FindCardsByPlayer(Player1) = Half1 /\ card \in Left(Half1) /\ ~player2Turn
  <2>1. ~player2Turn
    BY <1>2, Zenon DEF RulesInv, StepInv
  <2> QED BY <1>3, <2>1, ZenonT(40) DEF RulesInv, StepInv, Left
<1>5. /\ Unplayed(Player1)' = Unplayed(Player1) \ {card}
      /\ Unplayed(Player2)' = Unplayed(Player2)
      /\ \A r : FindCardsByPlayer(r)' = FindCardsByPlayer(r)
  <2>1. ServiceInv /\ Player2 # Player1 /\ UNCHANGED cardPlayers
    BY <1>2, CardTableAssumption, ZenonT(40) DEF RulesInv
  <2>2. isPlayed' = [isPlayed EXCEPT ![card] = TRUE]
    BY <1>1, Zenon
  <2> QED BY <1>3, <2>1, <2>2, HandPlays, ZenonT(40)
<1>6. Left(Half2)' = Left(Half2)
  BY <1>1, <1>4, PlayedCardLeaves, ZenonT(40) DEF RulesInv, ServiceInv, TypeOK, TablesTypeOK
<1>7. UndealtWhole'
  BY <1>2, <1>4, <1>6, UndealtKept, ZenonT(40) DEF RulesInv, UndealtWhole
<1>8. Idle' /\ Verdict' = Verdict
  BY <1>2, Zenon DEF Idle, Verdict
<1>9. WarBegun' /\ WinnerMatchesPiles' /\ LeadKept
  <2>1. WinnerMatchesPiles
    BY DEF RulesInv
  <2> QED BY <1>2, <1>8, <2>1, ZenonT(40) DEF WarBegun, WinnerMatchesPiles, LeadKept
<1>10. Rules!Reveal1
  BY <1>1, <1>2, <1>3, <1>4, <1>5, <1>8, ZenonT(40) DEF Rules!Reveal1
<1> QED BY <1>7, <1>9, <1>10, ZenonT(40)

\* The winner is sent by playCard2 once or not at all.
LEMMA RoundAnnounces ==
    ASSUME StepInv, ServiceInv', StepInv', winnerTopic = <<>>,
           NEW captured1, NEW captured2, NEW request,
           request.player1Id = Player1, request.player2Id = Player2, request.gameId = Game,
           EndOfRound(captured1, captured2, winnerTopic, request)
    PROVE  /\ Idle' /\ ~player2Turn' /\ WinnerMatchesPiles' /\ Rules!MayAnnounce
           /\ player1CapturedCards' = captured1 /\ player2CapturedCards' = captured2
           /\ ~request.lastCard => winnerTopic' = winnerTopic
<1>1. <<>> \in Seq(Name \cup {Tie})
  BY EmptySeq
<1>2. PICK v : v = VerdictOf(captured1, captured2)
  OBVIOUS
<1>3. /\ Idle' /\ ~player2Turn'
      /\ player1CapturedCards' = captured1 /\ player2CapturedCards' = captured2
      /\ winnerTopic' = IF request.lastCard THEN Append(<<>>, v) ELSE <<>>
      /\ WinnerMatchesPiles'
  BY <1>1, <1>2, RoundVerdict, ZenonT(40)
<1>4. Verdict' = v
  BY <1>2, <1>3, ZenonT(40) DEF Verdict, VerdictOf
<1>5. CASE request.lastCard
  <2>1. winnerTopic' = [i \in 1..1 |-> Verdict']
    <3>1. winnerTopic' = Append(<<>>, Verdict')
      BY <1>3, <1>4, <1>5, Zenon
    <3> QED BY <3>1, SameMessage, Zenon
  <2> QED BY <1>3, <1>5, <2>1, Announces, SameMessage, Zenon
<1>6. CASE ~request.lastCard
  <2>1. winnerTopic' = [i \in 1..0 |-> Verdict']
    BY <1>3, <1>6, SameMessage, Zenon
  <2> QED BY <1>3, <1>6, <2>1, Announces, SameMessage, Zenon
<1> QED BY <1>5, <1>6, ZenonT(40)

\* A pile that is given cards gains exactly these.
LEMMA PilesGain ==
    ASSUME ServiceInv, NEW won \in Seq(Card)
    PROVE  /\ Range(player1CapturedCards \o won) = Range(player1CapturedCards) \cup Range(won)
           /\ Range(player2CapturedCards \o won) = Range(player2CapturedCards) \cup Range(won)
<1>1. player1CapturedCards \in Seq(Card) /\ player2CapturedCards \in Seq(Card)
  BY Zenon DEF ServiceInv, TypeOK
<1> QED BY <1>1, RangeConcatenation, Zenon

\* playCard2 reveals player 2's card: the higher card takes both, or a war starts.
LEMMA PlayCard2Rules ==
    ASSUME RulesInv, ServiceInv', StepInv', PlayCard2(Player1, Player2, Game)
    PROVE  /\ UndealtWhole' /\ WarBegun' /\ WinnerMatchesPiles' /\ LeadKept
           /\ Rules!Reveal2
<1>1. PICK card \in NextCards(Player2) :
        /\ isPlayed' = [isPlayed EXCEPT ![card] = TRUE] /\ playedCard2' = card
        /\ GameRound(card, [player1Id |-> Player1, player2Id |-> Player2,
                            gameId |-> Game,
                            lastCard |-> Unplayed(Player2) = {card}])
  BY Zenon DEF PlayCard2
<1> DEFINE request == [player1Id |-> Player1, player2Id |-> Player2, gameId |-> Game,
                       lastCard |-> Unplayed(Player2) = {card}]
<1>2. Idle /\ player2Turn /\ UNCHANGED <<cardPlayers, playedCard1>>
  BY Zenon DEF PlayCard2
<1>3. card \in Unplayed(Player2) /\ card \in FindCardsByPlayer(Player2) /\ ~isPlayed[card]
  BY Zenon DEF NextCards, Unplayed
<1>4. FindCardsByPlayer(Player2) = Half2 /\ card \in Left(Half2)
  BY <1>3, ZenonT(40) DEF RulesInv, StepInv, Left
<1>5. /\ Unplayed(Player2)' = Unplayed(Player2) \ {card}
      /\ Unplayed(Player1)' = Unplayed(Player1)
      /\ \A r : FindCardsByPlayer(r)' = FindCardsByPlayer(r)
  <2>1. ServiceInv /\ Player1 # Player2 /\ UNCHANGED cardPlayers
    BY <1>2, CardTableAssumption, Zenon DEF RulesInv
  <2>2. isPlayed' = [isPlayed EXCEPT ![card] = TRUE]
    BY <1>1, Zenon
  <2> QED BY <1>3, <2>1, <2>2, HandPlays, ZenonT(40)
<1>6. Left(Half1)' = Left(Half1)
  BY <1>1, <1>4, PlayedCardLeaves, ZenonT(40) DEF RulesInv, ServiceInv, TypeOK, TablesTypeOK
<1>7. UndealtWhole'
  BY <1>2, <1>4, <1>6, UndealtKept, ZenonT(40) DEF RulesInv, UndealtWhole
<1>8. winnerTopic = <<>> /\ StepInv
  BY <1>4, Zenon DEF RulesInv, StepInv
<1>9. LeadKept
  BY <1>2, ZenonT(40) DEF LeadKept
<1>10. /\ request.player1Id = Player1 /\ request.player2Id = Player2 /\ request.gameId = Game
       /\ GameRound(card, request)
  BY <1>1
<1>11. PICK both : both = <<playedCard1, card>>
  BY Zenon
<1>12. /\ both \in Seq(Card) /\ IsInjective(both) /\ Range(both) = {playedCard1, card}
       /\ Range(player1CapturedCards \o both) = Range(player1CapturedCards) \cup {playedCard1, card}
       /\ Range(player2CapturedCards \o both) = Range(player2CapturedCards) \cup {playedCard1, card}
  <2>1. /\ playedCard1 \in Card /\ card \in Card /\ playedCard1 # card
        /\ \A c \in {playedCard1, card} : /\ c \notin Range(player1CapturedCards)
                                          /\ c \notin Range(player2CapturedCards)
    BY <1>2, <1>3, ZenonT(40)
       DEF RulesInv, ServiceInv, RevealedCardWaits, CapturedOnce, FindCardsByPlayer
  <2>2. both \in Seq(Card) /\ IsInjective(both) /\ Range(both) = {playedCard1, card}
    BY <1>11, <2>1, PairApart, ZenonT(40)
  <2>3. ServiceInv
    BY DEF RulesInv
  <2> QED BY <2>1, <2>2, <2>3, PilesGain, ZenonT(40)
<1> HIDE DEF request
<1>13. CASE /\ Rank[playedCard1] > Rank[card]
            /\ EndOfRound(player1CapturedCards \o both, player2CapturedCards, winnerTopic, request)
  <2>1. /\ Idle' /\ ~player2Turn' /\ WinnerMatchesPiles' /\ Rules!MayAnnounce
        /\ player1CapturedCards' = player1CapturedCards \o both
        /\ player2CapturedCards' = player2CapturedCards
    BY <1>8, <1>10, <1>13, RoundAnnounces, ZenonT(40)
  <2>2. Rules!Take1({playedCard1, card})
    BY <1>12, <2>1, RulesOperators, ZenonT(40) DEF Rules!Take1
  <2>3. Rules!Reveal2
    BY <1>2, <1>3, <1>5, <1>13, <2>1, <2>2, ZenonT(40) DEF Rules!Reveal2
  <2> QED BY <1>7, <1>9, <2>1, <2>3, Zenon DEF WarBegun
<1>14. CASE /\ Rank[playedCard1] < Rank[card]
            /\ EndOfRound(player1CapturedCards, player2CapturedCards \o both, winnerTopic, request)
  <2>1. /\ Idle' /\ ~player2Turn' /\ WinnerMatchesPiles' /\ Rules!MayAnnounce
        /\ player1CapturedCards' = player1CapturedCards
        /\ player2CapturedCards' = player2CapturedCards \o both
    BY <1>8, <1>10, <1>14, RoundAnnounces, ZenonT(40)
  <2>2. Rules!Take2({playedCard1, card})
    BY <1>12, <2>1, RulesOperators, ZenonT(40) DEF Rules!Take2
  <2>3. Rules!Reveal2
    BY <1>2, <1>3, <1>5, <1>14, <2>1, <2>2, ZenonT(40) DEF Rules!Reveal2
  <2> QED BY <1>7, <1>9, <2>1, <2>3, ZenonT(40) DEF WarBegun
<1>15. CASE /\ Rank[playedCard1] = Rank[card]
            /\ warCards' = both /\ call' = request
            /\ UNCHANGED <<turns, piles, winnerTopic>>
  <2>1. /\ Len(both) = 2 /\ Len(both) >= 2 /\ both[1] = playedCard1 /\ both[2] = card
        /\ both # <<>>
    BY <1>11
  <2>2. /\ ~Idle' /\ warCards' = both /\ winnerTopic' = winnerTopic
        /\ player1CapturedCards' = player1CapturedCards
        /\ player2CapturedCards' = player2CapturedCards
    BY <1>15, <2>1, ZenonT(40) DEF Idle, piles
  <2>3. WarBegun' /\ WinnerMatchesPiles'
    BY <1>1, <1>2, <1>8, <2>1, <2>2, ZenonT(40) DEF WarBegun, WinnerMatchesPiles
  <2>4. winnerTopic' = [i \in 1..0 |-> Verdict']
    BY <1>8, <2>2, SameMessage, Zenon
  <2>5. Rules!MayAnnounce
    BY <1>8, <2>4, Announces, SameMessage, Zenon
  <2>6. Rules!Reveal2
    BY <1>2, <1>3, <1>5, <1>11, <1>15, <2>2, <2>5, ZenonT(40) DEF Rules!Reveal2
  <2> QED BY <1>7, <1>9, <2>3, <2>6, ZenonT(40)
<1> QED BY <1>10, <1>11, <1>13, <1>14, <1>15, ZenonT(40) DEF GameRound

\* A draw of war() puts a card of the player whose turn it is on the table.
LEMMA WarDrawRules ==
    ASSUME RulesInv, StepInv', WarDraw
    PROVE  /\ UndealtWhole' /\ WarBegun' /\ WinnerMatchesPiles' /\ LeadKept
           /\ Rules!WarDraw
<1>1. PICK card \in NextCards(Drawer) :
        isPlayed' = [isPlayed EXCEPT ![card] = TRUE] /\ warCards' = Append(warCards, card)
  BY ZenonT(40) DEF WarDraw
<1>2. /\ ~Idle /\ ~WarFull
      /\ UNCHANGED <<cardPlayers, playedCard1, playedCard2, player1CapturedCards,
                     player2CapturedCards, call, winnerTopic>>
  BY Zenon DEF WarDraw, piles
<1>3. card \in Unplayed(Drawer) /\ card \in Card
  BY Zenon DEF NextCards, Unplayed, FindCardsByPlayer
<1>4. /\ call.player1Id = Player1 /\ call.player2Id = Player2
      /\ FindCardsByPlayer(Player2) = Half2 /\ FindCardsByPlayer(Player1) = Half1
      /\ call.lastCard => Left(Half2) = {}
      /\ Cardinality(Left(Half2)) = Cardinality(Left(Half1)) + (Len(warCards) % 2)
  BY <1>2, Zenon DEF RulesInv, StepInv, ServiceInv, WarCardsApart
<1>5. /\ Len(warCards) >= 2 /\ warCards[1] = playedCard1 /\ warCards[2] = playedCard2
      /\ winnerTopic = <<>>
      /\ call.lastCard => Len(warCards) = 2
  BY <1>2, Zenon DEF RulesInv
<1>6. warCards \in Seq(Card) /\ Len(warCards) \in Nat
  BY LenProperties, Zenon DEF RulesInv, ServiceInv, TypeOK
<1>7. UndealtWhole'
  BY <1>2, <1>4, UndealtKept, ZenonT(40) DEF RulesInv, UndealtWhole
<1>8. /\ Len(warCards') = Len(warCards) + 1 /\ warCards' # <<>>
      /\ warCards'[1] = warCards[1] /\ warCards'[2] = warCards[2]
  <2>1. /\ Len(Append(warCards, card)) = Len(warCards) + 1 /\ Append(warCards, card) # <<>>
        /\ \A i \in 1..Len(warCards) : Append(warCards, card)[i] = warCards[i]
    BY <1>3, <1>6, Appended, Zenon
  <2>2. 1 \in 1..Len(warCards) /\ 2 \in 1..Len(warCards)
    BY <1>5, <1>6, SMT, Z3
  <2> QED BY <1>1, <2>1, <2>2, Zenon
<1>9. ~call.lastCard
  <2> SUFFICES ASSUME call.lastCard PROVE FALSE
    OBVIOUS
  <2>1. Len(warCards) % 2 = 0 /\ Left(Half2) = {}
    <3>1. Len(warCards) = 2 /\ Left(Half2) = {}
      BY <1>4, <1>5, ZenonT(40)
    <3> QED BY <3>1
  <2>2. Cardinality(Left(Half1)) = 0
    BY <1>4, <2>1, LeftFinite, FS_EmptySet, Levels, Zenon
  <2>3. Left(Half1) = {}
    BY <2>2, LeftFinite, FS_EmptySet, ZenonT(40)
  <2>4. card \in Unplayed(Player1)
    BY <1>3, <1>4, <2>1, ZenonT(40) DEF Drawer
  <2> QED BY <1>4, <2>3, <2>4, Zenon DEF Unplayed, Left
<1>10. ~Idle' /\ WarBegun' /\ WinnerMatchesPiles' /\ LeadKept
  <2>1. ~Idle'
    BY <1>8 DEF Idle
  <2>2. WarBegun'
    <3>1. Len(warCards') >= 2
      BY <1>5, <1>6, <1>8, SMT, Z3
    <3>2. ~call'.lastCard /\ winnerTopic' = <<>>
      BY <1>2, <1>5, <1>9, ZenonT(40)
    <3>3. warCards'[1] = playedCard1' /\ warCards'[2] = playedCard2'
      BY <1>2, <1>5, <1>8, ZenonT(40)
    <3> QED BY <3>1, <3>2, <3>3, ZenonT(40) DEF WarBegun
  <2>3. LeadKept
    <3>1. ~(Len(winnerTopic') > Len(winnerTopic))
      BY <1>2, <1>5, SMT, Z3
    <3> QED BY <3>1, Zenon DEF LeadKept
  <2> QED BY <2>1, <2>2, <2>3, ZenonT(40) DEF WinnerMatchesPiles
<1>11. Rules!WarDraw
  <2> DEFINE table == IF ~Idle THEN warCards
                      ELSE IF player2Turn THEN <<playedCard1>> ELSE <<>>
  <2>1. table = warCards /\ table' = Append(warCards, card)
    BY <1>1, <1>2, <1>10, Zenon
  <2>2. Rules!AtWar /\ ~Rules!AllDrawn
    BY <1>2, <1>5, Zenon DEF Rules!AtWar, Rules!AllDrawn, WarFull
  <2>3. /\ ServiceInv /\ UNCHANGED cardPlayers
        /\ isPlayed' = [isPlayed EXCEPT ![card] = TRUE]
    BY <1>1, <1>2, Zenon DEF RulesInv
  <2>4. \A p : FindCardsByPlayer(p)' = FindCardsByPlayer(p)
    BY <2>3, Zenon DEF FindCardsByPlayer
  <2>5. CASE Len(warCards) % 2 = 0
    <3>1. card \in Unplayed(Player1)
      BY <1>3, <1>4, <2>5, Zenon DEF Drawer
    <3>2. Unplayed(Player1)' = Unplayed(Player1) \ {card} /\ Unplayed(Player2)' = Unplayed(Player2)
      <4>1. Player2 # Player1
        BY CardTableAssumption, Zenon
      <4> QED BY <2>3, <3>1, <4>1, HandPlays, ZenonT(40)
    <3> QED BY <1>2, <2>1, <2>2, <2>4, <2>5, <3>1, <3>2, ZenonT(40) DEF Rules!WarDraw
  <2>6. CASE Len(warCards) % 2 = 1
    <3>1. card \in Unplayed(Player2)
      BY <1>3, <1>4, <1>6, <2>6, Parity, Zenon DEF Drawer
    <3>2. Unplayed(Player2)' = Unplayed(Player2) \ {card} /\ Unplayed(Player1)' = Unplayed(Player1)
      <4>1. Player1 # Player2
        BY CardTableAssumption, Zenon
      <4> QED BY <2>3, <3>1, <4>1, HandPlays, Zenon
    <3> QED BY <1>2, <2>1, <2>2, <2>4, <2>6, <3>1, <3>2, ZenonT(40) DEF Rules!WarDraw
  <2> QED BY <1>6, <2>5, <2>6, Parity, Zenon
<1> QED BY <1>7, <1>10, <1>11, Zenon

\* While a war runs, the table of the rules shows its cards, and a player who
\* is given them gains exactly these.
LEMMA WarTable ==
    ASSUME RulesInv, ~Idle
    PROVE  /\ Len(warCards) >= 2 /\ warCards[1] = playedCard1 /\ warCards[2] = playedCard2
           /\ winnerTopic = <<>>
           /\ call.lastCard => Len(warCards) = 2
           /\ ServiceInv /\ StepInv /\ UndealtWhole
           /\ warCards \in Seq(Card) /\ Len(warCards) \in Nat
           /\ call.player1Id = Player1 /\ call.player2Id = Player2 /\ call.gameId = Game
           /\ Range(player1CapturedCards \o warCards) =
                Range(player1CapturedCards) \cup Range(warCards)
           /\ Range(player2CapturedCards \o warCards) =
                Range(player2CapturedCards) \cup Range(warCards)
<1>1. /\ Len(warCards) >= 2 /\ warCards[1] = playedCard1 /\ warCards[2] = playedCard2
      /\ winnerTopic = <<>>
      /\ call.lastCard => Len(warCards) = 2
      /\ ServiceInv /\ StepInv /\ UndealtWhole
  BY DEF RulesInv, UndealtWhole
<1>2. warCards \in Seq(Card) /\ Len(warCards) \in Nat
  BY <1>1, LenProperties, ZenonT(40) DEF ServiceInv, TypeOK
<1>3. call.player1Id = Player1 /\ call.player2Id = Player2 /\ call.gameId = Game
  BY <1>1, ZenonT(40) DEF StepInv
<1>4. /\ IsInjective(warCards)
      /\ \A c \in Range(warCards) : /\ c \notin Range(player1CapturedCards)
                                    /\ c \notin Range(player2CapturedCards)
  BY <1>1, Zenon DEF ServiceInv, WarCardsApart
<1> QED BY <1>1, <1>2, <1>3, <1>4, PilesGain, ZenonT(40)

\* A war that runs out ends the game: the leader takes its cards.
LEMMA WarOutOfCardsRules ==
    ASSUME RulesInv, Username1 # Username2, ServiceInv', StepInv', WarOutOfCards
    PROVE  /\ UndealtWhole' /\ WarBegun' /\ WinnerMatchesPiles' /\ LeadKept
           /\ Rules!WarRunsOut
<1>1. ~Idle /\ ~WarFull /\ UNCHANGED <<cardPlayers, isPlayed>>
  BY DEF WarOutOfCards, tables
<1>2. PICK w, c1, c2, v : /\ w = warCards /\ v = Verdict
                          /\ c1 = player1CapturedCards /\ c2 = player2CapturedCards
  OBVIOUS
<1>3. PICK captured1, captured2 :
        /\ EndOfRound(captured1, captured2, <<v>>, call)
        /\ VerdictOf(captured1, captured2) = v
        /\ \/ Lead > 0 /\ v = Username1 /\ captured1 = c1 \o w /\ captured2 = c2
           \/ Lead < 0 /\ v = Username2 /\ captured1 = c1 /\ captured2 = c2 \o w
           \/ Lead = 0 /\ v = Tie /\ captured1 = c1 /\ captured2 = c2
  BY <1>2, RunsOut, Zenon
<1>4. v \in Name \cup {Tie}
  BY <1>3, CardTableAssumption, ZenonT(40)
<1>5. <<v>> \in Seq(Name \cup {Tie}) /\ <<v>> # <<>> /\ <<v>>[Len(<<v>>)] = v
  BY <1>4, SMT, Z3
<1>6. /\ Idle' /\ ~player2Turn'
      /\ player1CapturedCards' = captured1 /\ player2CapturedCards' = captured2
      /\ winnerTopic' = IF call.lastCard THEN Append(<<v>>, v) ELSE <<v>>
      /\ WinnerMatchesPiles'
  <2>1. StepInv /\ call.player1Id = Player1 /\ call.player2Id = Player2 /\ call.gameId = Game
    BY <1>1, WarTable, ZenonT(40)
  <2> QED BY <1>3, <1>5, <2>1, RoundVerdict, ZenonT(40)
<1>7. Verdict' = v
  BY <1>3, <1>6, ZenonT(40) DEF Verdict, VerdictOf
<1>8. PICK n \in 1..2 : winnerTopic' = [i \in 1..n |-> Verdict']
  <2>1. CASE call.lastCard
    <3>1. winnerTopic' = [i \in 1..2 |-> v]
      BY <1>6, <2>1, SameMessage, Zenon
    <3> QED BY <1>7, <3>1, SMT, Z3
  <2>2. CASE ~call.lastCard
    <3>1. winnerTopic' = [i \in 1..1 |-> v]
      BY <1>6, <2>2, SameMessage, Zenon
    <3> QED BY <1>7, <3>1, SMT, Z3
  <2> QED BY <2>1, <2>2, Zenon
<1>9. Rules!MayAnnounce
  <2>1. winnerTopic = <<>> /\ n \in 0..2
    BY <1>1, WarTable, SameMessage, ZenonT(40)
  <2> QED BY <1>8, <2>1, Announces, Zenon
<1>10. Unplayed(Player1) = {} /\ Unplayed(Player2) = {}
  <2>1. winnerTopic' # <<>>
    BY <1>8, SMT, Z3
  <2>2. Unplayed(Player1)' = {} /\ Unplayed(Player2)' = {}
    BY <2>1, EmptyAtEnd, Zenon
  <2> QED BY <1>1, <2>2, ZenonT(40) DEF Unplayed, FindCardsByPlayer
<1>11. UndealtWhole'
  <2>1. Left(Half1)' = Left(Half1) /\ Left(Half2)' = Left(Half2)
    BY <1>1 DEF Left
  <2> QED BY <1>1, <2>1, WarTable, UndealtKept, ZenonT(40)
<1>12. LeadKept
  <2>1. /\ c1 \in Seq(Card) /\ c2 \in Seq(Card) /\ w \in Seq(Card)
        /\ Len(c1) \in Nat /\ Len(c2) \in Nat /\ Len(w) \in Nat
        /\ Len(c1 \o w) = Len(c1) + Len(w) /\ Len(c2 \o w) = Len(c2) + Len(w)
    <3>1. c1 \in Seq(Card) /\ c2 \in Seq(Card) /\ w \in Seq(Card)
      BY <1>2, Zenon DEF RulesInv, ServiceInv, TypeOK
    <3> QED BY <3>1, Joined, Zenon
  <2>2. Lead = Len(c1) - Len(c2) /\ Lead' = Len(captured1) - Len(captured2)
    BY <1>2, <1>6, Zenon DEF Lead
  <2>3. (Lead > 0 => Lead' > 0) /\ (Lead < 0 => Lead' < 0) /\ (Lead = 0 => Lead' = 0)
    <3>1. \/ Lead > 0 /\ Lead' = (Len(c1) + Len(w)) - Len(c2)
          \/ Lead < 0 /\ Lead' = Len(c1) - (Len(c2) + Len(w))
          \/ Lead = 0 /\ Lead' = Len(c1) - Len(c2)
      BY <1>3, <2>1, <2>2, ZenonT(40)
    <3>2. PICK m \in Nat, l \in Nat, k \in Nat : m = Len(c1) /\ l = Len(c2) /\ k = Len(w)
      BY <2>1, Zenon
    <3>3. PICK x, y : x = Lead /\ y = Lead'
      BY Zenon
    <3>4. /\ x = m - l
          /\ \/ x > 0 /\ y = (m + k) - l
             \/ x < 0 /\ y = m - (l + k)
             \/ x = 0 /\ y = m - l
      BY <2>2, <3>1, <3>2, <3>3, ZenonT(40)
    <3>5. (x > 0 => y > 0) /\ (x < 0 => y < 0) /\ (x = 0 => y = 0)
      BY <3>4, LeadGrows, ZenonT(40)
    <3> QED BY <3>3, <3>5, Zenon
  <2> QED BY <2>3, ZenonT(40) DEF LeadKept
<1>13. Rules!WarRunsOut
  <2>1. Rules!AtWar /\ ~Rules!AllDrawn
    BY <1>1, WarTable, Zenon DEF Rules!AtWar, Rules!AllDrawn, WarFull
  <2>2. Rules!Verdict = v
    BY <1>2, RulesVerdict, Zenon DEF RulesInv
  <2>3. \/ Rules!Verdict = Username1 /\ Rules!Take1(Rules!Range(warCards))
        \/ Rules!Verdict = Username2 /\ Rules!Take2(Rules!Range(warCards))
        \/ /\ Rules!Verdict = Tie
           /\ player1CapturedCards' = player1CapturedCards
           /\ player2CapturedCards' = player2CapturedCards
    <3>1. CASE v = Username1 /\ captured1 = c1 \o w /\ captured2 = c2
      BY <1>1, <1>2, <1>6, <2>2, <3>1, WarTable, RulesOperators, ZenonT(40) DEF Rules!Take1
    <3>2. CASE v = Username2 /\ captured1 = c1 /\ captured2 = c2 \o w
      BY <1>1, <1>2, <1>6, <2>2, <3>2, WarTable, RulesOperators, ZenonT(40) DEF Rules!Take2
    <3>3. CASE v = Tie /\ captured1 = c1 /\ captured2 = c2
      BY <1>2, <1>6, <2>2, <3>3, ZenonT(40)
    <3> QED BY <1>3, <3>1, <3>2, <3>3, ZenonT(40)
  <2>4. \A p : FindCardsByPlayer(p)' = FindCardsByPlayer(p) /\ Unplayed(p)' = Unplayed(p)
    BY <1>1, Zenon DEF FindCardsByPlayer, Unplayed
  <2> QED BY <1>1, <1>6, <1>9, <1>10, <2>1, <2>3, <2>4, ZenonT(40) DEF Rules!WarRunsOut
<1> QED BY <1>6, <1>11, <1>12, <1>13, ZenonT(40) DEF WarBegun

\* The last two cards of a war decide it, or send it back to its first two.
LEMMA WarCompareRules ==
    ASSUME RulesInv, ServiceInv', StepInv', WarCompare
    PROVE  /\ UndealtWhole' /\ WarBegun' /\ WinnerMatchesPiles' /\ LeadKept
           /\ Rules!WarDecided \/ Rules!TieForfeits
<1>1. ~Idle
  BY FullWar, Zenon DEF WarCompare
<1>2. WarFull /\ UNCHANGED <<cardPlayers, isPlayed, playedCard1, playedCard2>>
  BY DEF WarCompare, tables
<1>3. \A p : FindCardsByPlayer(p)' = FindCardsByPlayer(p) /\ Unplayed(p)' = Unplayed(p)
  BY <1>2, Zenon DEF FindCardsByPlayer, Unplayed
<1>4. UndealtWhole'
  <2>1. Left(Half1)' = Left(Half1) /\ Left(Half2)' = Left(Half2)
    BY <1>2 DEF Left
  <2> QED BY <1>1, <1>2, <2>1, WarTable, UndealtKept, ZenonT(40)
<1>5. ~call.lastCard
  <2>1. Len(warCards) # 2
    BY <1>2, FullWar, Zenon
  <2> QED BY <1>1, <2>1, WarTable, Zenon
<1>6. Rules!AllDrawn
  BY <1>1, <1>2, ZenonT(40) DEF Rules!AllDrawn, WarFull
<1>7. PICK w, last1, last2 : /\ w = warCards /\ last1 = warCards[Len(warCards) - 1]
                             /\ last2 = warCards[Len(warCards)]
  OBVIOUS
<1>8. ASSUME NEW captured1, NEW captured2, EndOfRound(captured1, captured2, winnerTopic, call)
      PROVE  /\ Idle' /\ ~player2Turn' /\ WinnerMatchesPiles' /\ Rules!MayAnnounce
             /\ player1CapturedCards' = captured1 /\ player2CapturedCards' = captured2
             /\ WarBegun' /\ LeadKept
  <2>1. /\ Idle' /\ ~player2Turn' /\ WinnerMatchesPiles' /\ Rules!MayAnnounce
        /\ player1CapturedCards' = captured1 /\ player2CapturedCards' = captured2
        /\ ~call.lastCard => winnerTopic' = winnerTopic
    <3>1. /\ StepInv /\ winnerTopic = <<>>
          /\ call.player1Id = Player1 /\ call.player2Id = Player2 /\ call.gameId = Game
      BY <1>1, WarTable, ZenonT(40)
    <3> QED BY <1>8, <3>1, RoundAnnounces, ZenonT(40)
  <2>2. ~(Len(winnerTopic') > Len(winnerTopic))
    <3>1. winnerTopic' = winnerTopic /\ winnerTopic = <<>>
      BY <1>1, <1>5, <2>1, WarTable, ZenonT(40)
    <3> QED BY <3>1
  <2> QED BY <2>1, <2>2, Zenon DEF WarBegun, LeadKept
<1>9. CASE /\ Rank[last1] > Rank[last2]
           /\ EndOfRound(player1CapturedCards \o w, player2CapturedCards, winnerTopic, call)
  <2>1. /\ Idle' /\ ~player2Turn' /\ WinnerMatchesPiles' /\ Rules!MayAnnounce
        /\ player1CapturedCards' = player1CapturedCards \o w
        /\ player2CapturedCards' = player2CapturedCards
        /\ WarBegun' /\ LeadKept
    BY <1>8, <1>9, ZenonT(40)
  <2>2. Rules!Take1(Rules!Range(warCards))
    BY <1>1, <1>7, <2>1, WarTable, RulesOperators, ZenonT(40) DEF Rules!Take1
  <2>3. Rules!WarDecided
    BY <1>1, <1>3, <1>6, <1>7, <1>9, <2>1, <2>2, ZenonT(40) DEF Rules!WarDecided
  <2> QED BY <1>4, <2>1, <2>3, Zenon
<1>10. CASE /\ Rank[last1] < Rank[last2]
            /\ EndOfRound(player1CapturedCards, player2CapturedCards \o w, winnerTopic, call)
  <2>1. /\ Idle' /\ ~player2Turn' /\ WinnerMatchesPiles' /\ Rules!MayAnnounce
        /\ player1CapturedCards' = player1CapturedCards
        /\ player2CapturedCards' = player2CapturedCards \o w
        /\ WarBegun' /\ LeadKept
    BY <1>8, <1>10, ZenonT(40)
  <2>2. Rules!Take2(Rules!Range(warCards))
    BY <1>1, <1>7, <2>1, WarTable, RulesOperators, ZenonT(40) DEF Rules!Take2
  <2>3. Rules!WarDecided
    BY <1>1, <1>3, <1>6, <1>7, <1>10, <2>1, <2>2, ZenonT(40) DEF Rules!WarDecided
  <2> QED BY <1>4, <2>1, <2>3, Zenon
<1>11. CASE /\ Rank[last1] = Rank[last2]
            /\ warCards' = <<playedCard1, playedCard2>>
            /\ UNCHANGED <<turns, piles, call, winnerTopic>>
  <2>1. /\ warCards' # <<>> /\ Len(warCards') = 2
        /\ warCards'[1] = playedCard1 /\ warCards'[2] = playedCard2
    BY <1>11, Zenon
  <2>2. /\ player1CapturedCards' = player1CapturedCards
        /\ player2CapturedCards' = player2CapturedCards
        /\ call' = call /\ winnerTopic' = winnerTopic /\ winnerTopic = <<>>
    BY <1>1, <1>11, WarTable, ZenonT(40) DEF piles
  <2>3. ~Idle' /\ WarBegun' /\ WinnerMatchesPiles'
    <3>1. 2 >= 2
      OBVIOUS
    <3> QED BY <1>2, <2>1, <2>2, <3>1, Zenon DEF Idle, WarBegun, WinnerMatchesPiles
  <2>4. LeadKept
    <3>1. ~(Len(winnerTopic') > Len(winnerTopic))
      BY <2>2, SMT, Z3
    <3> QED BY <3>1, Zenon DEF LeadKept
  <2>5. warCards' = SubSeq(warCards, 1, 2)
    <3>1. /\ warCards \in Seq(Card) /\ Len(warCards) \in Nat /\ Len(warCards) >= 2
          /\ warCards[1] = playedCard1 /\ warCards[2] = playedCard2
      BY <1>1, WarTable, Zenon
    <3>2. SubSeq(warCards, 1, 2) = <<warCards[1], warCards[2]>>
      <4> DEFINE begun == SubSeq(warCards, 1, 2)
      <4>1. /\ begun \in Seq(Card) /\ Len(begun) = 2
            /\ begun[1] = warCards[1] /\ begun[2] = warCards[2]
        BY <3>1, SubSeqProperties, SMT, Z3
      <4> HIDE DEF begun
      <4>2. begun = <<begun[1], begun[2]>>
        BY <4>1, SMT, Z3
      <4> QED BY <4>1, <4>2, ZenonT(40) DEF begun
    <3> QED BY <1>11, <3>1, <3>2, Zenon
  <2>6. Rules!TieForfeits
    BY <1>1, <1>3, <1>6, <1>7, <1>11, <2>2, <2>3, <2>5, ZenonT(40) DEF Rules!TieForfeits, Rules!Tied
  <2> QED BY <1>4, <2>3, <2>4, <2>6, ZenonT(40)
<1> QED BY <1>7, <1>9, <1>10, <1>11, ZenonT(40) DEF WarCompare

\* A step that changes nothing changes nothing of the game.
LEMMA RulesStutter ==
    ASSUME RulesInv, UNCHANGED vars
    PROVE  /\ UndealtWhole' /\ WarBegun' /\ WinnerMatchesPiles' /\ LeadKept
           /\ UNCHANGED Rules!vars
<1>1. UNCHANGED <<cardPlayers, isPlayed, player1Turn, player2Turn, playedCard1, playedCard2,
                  player1CapturedCards, player2CapturedCards, warCards, call, winnerTopic>>
  BY Zenon DEF vars, tables, service, turns, piles
<1>2. \A p : FindCardsByPlayer(p)' = FindCardsByPlayer(p) /\ Unplayed(p)' = Unplayed(p)
  BY <1>1 DEF FindCardsByPlayer, Unplayed
<1>3. Left(Half1)' = Left(Half1) /\ Left(Half2)' = Left(Half2) /\ Idle' = Idle
  BY <1>1, Zenon DEF Left, Idle
<1>4. UndealtWhole' /\ WarBegun'
  BY <1>1, <1>2, <1>3, Zenon DEF RulesInv, UndealtWhole, WarBegun
<1>5. WinnerMatchesPiles' /\ LeadKept
  BY <1>1, <1>3, Zenon DEF RulesInv, WinnerMatchesPiles, Verdict, LeadKept, Lead
<1>6. UNCHANGED Rules!vars
  BY <1>1, <1>2, <1>3, ZenonT(40) DEF Rules!vars
<1> QED BY <1>4, <1>5, <1>6, ZenonT(40)

\* The seated table is the rules' first state: the deck is divided evenly.
LEMMA RulesInit == Init => RulesInv /\ Rules!Init
<1> SUFFICES ASSUME Init PROVE RulesInv /\ Rules!Init
  BY ZenonT(40)
<1> USE RepositoriesAssumption, CardTableAssumption
<1>1. /\ FindCardsByPlayer(Player1) = {} /\ FindCardsByPlayer(Player2) = {}
      /\ Unplayed(Player1) = {} /\ Unplayed(Player2) = {}
  BY Zenon DEF Init, SeededCards, FindCardsByPlayer, Unplayed
<1>2. Left(Half1) = Half1 /\ Left(Half2) = Half2
  BY HalvesApart DEF Init, SeededCards, Left
<1>3. /\ Idle /\ ~player2Turn /\ winnerTopic = <<>>
      /\ player1CapturedCards = <<>> /\ player2CapturedCards = <<>>
  BY DEF Init, ServiceInit, Idle
<1>4. RulesInv
  BY <1>1, <1>2, <1>3, InitInv, StepInit, ZenonT(40) DEF RulesInv, WinnerMatchesPiles
<1>5. Half1 \cup Half2 = Card
  <2>1. HalfDeck \in Nat
    BY CardsServiceAssumption, Zenon
  <2>2. /\ Half1 = {TheOrder[i] : i \in 1..HalfDeck}
        /\ Half2 = {TheOrder[HalfDeck + i] : i \in 1..HalfDeck}
    BY DEF Half1, Half2, FirstHalf, SecondHalf, Range
  <2>3. ASSUME NEW c \in Card PROVE c \in Half1 \cup Half2
    <3>1. PICK i \in 1..(2 * HalfDeck) : TheOrder[i] = c
      BY TheOrderType, Zenon DEF Bijection, Surjection
    <3>2. CASE i <= HalfDeck
      <4>1. i \in 1..HalfDeck
        BY <2>1, <3>2, SMT, Z3
      <4> QED BY <2>2, <3>1, <4>1, Zenon
    <3>3. CASE i > HalfDeck
      <4>1. i - HalfDeck \in 1..HalfDeck /\ HalfDeck + (i - HalfDeck) = i
        BY <2>1, <3>3, SMT, Z3
      <4> QED BY <2>2, <3>1, <4>1, ZenonT(40)
    <3>4. i <= HalfDeck \/ i > HalfDeck
      BY <2>1, SMT, Z3
    <3> QED BY <3>2, <3>3, <3>4, Zenon
  <2> QED BY <2>3, HalvesApart, ZenonT(40)
<1>6. Range(<<>>) = {}
  BY SMTT(40), Z3T(40) DEF Range
<1>7. Rules!Init
  BY <1>1, <1>3, <1>5, <1>6, HalvesApart, HalvesSize, RulesOperators, ZenonT(40) DEF Rules!Init
<1> QED BY <1>4, <1>7, ZenonT(40)

\* Every step of the table is a step of the rules or forgets the cards of a
\* tied war, and keeps what that needs.
LEMMA RulesStep ==
    ASSUME StableOrder, Username1 # Username2, RulesInv, [Next]_vars
    PROVE  RulesInv' /\ LeadKept /\ [Rules!NextButTies]_(Rules!vars)
<1>1. ServiceInv' /\ StepInv'
  BY NextInv, StepNext, ZenonT(40) DEF RulesInv, NextRestart
<1>2. /\ UndealtWhole' /\ WarBegun' /\ WinnerMatchesPiles' /\ LeadKept
      /\ [Rules!NextButTies]_(Rules!vars)
  <2>1. CASE Deal
    BY <2>1, DealRules, Zenon DEF Deal, Rules!Next, Rules!NextButTies
  <2>2. CASE PlayCard1(Player1)
    BY <2>2, PlayCard1Rules, Zenon DEF Rules!Next, Rules!NextButTies
  <2>3. CASE PlayCard2(Player1, Player2, Game)
    BY <1>1, <2>3, PlayCard2Rules, Zenon DEF Rules!Next, Rules!NextButTies
  <2>4. CASE WarDraw
    BY <1>1, <2>4, WarDrawRules, Zenon DEF Rules!Next, Rules!NextButTies
  <2>5. CASE WarOutOfCards
    BY <1>1, <2>5, WarOutOfCardsRules, ZenonT(40) DEF Rules!Next, Rules!NextButTies
  <2>6. CASE WarAborts
    BY <2>6, NoWarAborts, ZenonT(40) DEF RulesInv
  <2>7. CASE WarCompare
    BY <1>1, <2>7, WarCompareRules, Zenon DEF Rules!Next, Rules!NextButTies
  <2>8. CASE UNCHANGED vars
    BY <2>8, RulesStutter, Zenon
  <2> QED BY <2>1, <2>2, <2>3, <2>4, <2>5, <2>6, <2>7, <2>8, ZenonT(40) DEF Next, Play, War
<1>3. RulesInv'
  BY <1>1, <1>2, Zenon DEF RulesInv, UndealtWhole, WarBegun
<1> QED BY <1>2, <1>3, Zenon

\* With a stable order and two different names, the winner sent last is the
\* player with more captured cards, also when a war that ran out decided
\* before it gave its cards away and playCard2 decided a second time.
THEOREM StableWinnerMatchesPiles ==
    ASSUME StableOrder, Username1 # Username2
    PROVE  Spec => []WinnerMatchesPiles
<1>1. RulesInv => WinnerMatchesPiles
  BY DEF RulesInv
<1> QED BY <1>1, RulesInit, RulesStep, PTL DEF Spec

\* With a stable order and two different names, a war that runs out never
\* changes who is ahead.
THEOREM StableLeaderKeepsLead ==
    ASSUME StableOrder, Username1 # Username2
    PROVE  Spec => LeaderKeepsLead
BY RulesInit, RulesStep, PTL DEF Spec, LeaderKeepsLead

\* With a stable order and two different names, CardsService departs from the
\* game of WarRules in one point only: every deal, play and step of a war at
\* the table is a step of the rules or changes nothing in them, or it is a
\* tied war whose cards war() forgets.
THEOREM StableFollowsRulesButTies ==
    ASSUME StableOrder, Username1 # Username2
    PROVE  Spec => FollowsRulesButTies
BY RulesInit, RulesStep, PTL DEF Spec, FollowsRulesButTies, Rules!SpecButTies
=============================================================================

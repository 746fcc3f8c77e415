-------------------------- MODULE ThreadsTableProofs --------------------------
(***************************************************************************)
(* The handlers of CardsService at the same time: deals, clicks, reveals   *)
(* and hand-overs follow WarRules as long as everything goes in order.     *)
(***************************************************************************)
EXTENDS CardsThreadsProofs, FiniteSetTheorems

-----------------------------------------------------------------------------
(* The halves of the deck.                                                 *)

\* A list of n cards has n positions.
LEMMA CountTo ==
    ASSUME NEW n \in Nat
    PROVE  IsFiniteSet(1..n) /\ Cardinality(1..n) = n
BY FS_Interval

\* Both halves have as many cards as half of the deck.
LEMMA HalvesCardinality ==
    /\ Cardinality(Half1) = Len(Deck) \div 2
    /\ Cardinality(Half2) = Len(Deck) \div 2
<1>1. PICK n \in Nat : n = Len(Deck) \div 2 /\ Len(Deck) = n + n
  BY DeckHalves, Zenon
<1>2. DOMAIN Deck = 1..(n + n)
  BY <1>1, DeckHalves, Zenon
<1>3. \A i, j \in 1..(n + n) : Deck[i] = Deck[j] => i = j
  BY <1>2, CardsThreadsAssumption, Zenon DEF IsInjective
<1>4. \A i \in 1..(n + n) : Deck[i] \in Card /\ (Deck[i] \in Half1 <=> i <= n)
  BY <1>1, DeckHalves, Zenon
<1>5. [i \in 1..n |-> Deck[i]] \in Bijection(1..n, Half1)
  <2>1. \A c \in Half1 : \E i \in 1..n : c = Deck[i]
    BY <1>1 DEF Half1
  <2>2. \A i \in 1..n : i \in 1..(n + n) /\ Deck[i] \in Half1
    BY <1>4, SMTT(40), Z3T(40)
  <2> QED BY <1>3, <2>1, <2>2, Zenon DEF Bijection, Injection, Surjection, IsInjective
<1>6. [i \in 1..n |-> Deck[n + i]] \in Bijection(1..n, Half2)
  <2>1. ASSUME NEW c \in Half2 PROVE \E i \in 1..n : c = Deck[n + i]
    <3>1. PICK k \in 1..(n + n) : c = Deck[k]
      BY <1>1, DeckHalves DEF Half2
    <3>2. k - n \in 1..n /\ n + (k - n) = k
      BY <1>4, <3>1, SMTT(40), Z3T(40) DEF Half2
    <3> QED BY <3>1, <3>2
  <2>2. \A i \in 1..n : n + i \in 1..(n + n) /\ Deck[n + i] \in Half2
    BY <1>4 DEF Half2
  <2>3. \A i, j \in 1..n : Deck[n + i] = Deck[n + j] => i = j
    <3> SUFFICES ASSUME NEW i \in 1..n, NEW j \in 1..n, Deck[n + i] = Deck[n + j]
                 PROVE  i = j
      OBVIOUS
    <3>1. n + i = n + j
      BY <1>3, <2>2, Zenon
    <3> QED BY <3>1
  <2> QED BY <2>1, <2>2, <2>3, Zenon DEF Bijection, Injection, Surjection, IsInjective
<1>7. ExistsBijection(1..n, Half1) /\ ExistsBijection(1..n, Half2)
  BY <1>5, <1>6 DEF ExistsBijection
<1> QED BY <1>1, <1>7, FS_CountingElements, Zenon

-----------------------------------------------------------------------------
(* The table, as the only active handler finds it.                         *)

WarPc == {"draw", "drawn", "runOut", "compare"}
ShowPc == {"table", "pass1", "pass2"}

\* The table and the card player 2 is about to show, as the only active
\* handler finds them.
TableFor(t) ==
    IF thread[t].pc \in WarPc THEN thread[t].warCards
    ELSE IF thread[t].op = "play1" /\ thread[t].pc \in ShowPc THEN <<thread[t].card>>
    ELSE IF player2Turn /\ thread[t].pc # "return2" THEN <<playedCard1>>
    ELSE <<>>
HiddenFor(t) ==
    IF thread[t].op = "play2" /\ thread[t].pc \in {"table", "round"} THEN {thread[t].card} ELSE {}

\* Before a step of the only active handler.
LEMMA TableNow ==
    ASSUME LockInv, NEW t \in Thread, \A u \in Thread : u # t => thread[u].pc \in Quiet
    PROVE  TheTable = TableFor(t) /\ Hidden = HiddenFor(t)
<1>1. thread[t] \in Handler
  BY Zenon DEF LockInv, TypeInv, ThreadsTypeOK, Handler
<1>2. thread[t].pc \in WarPc \cup {"return2"} => thread[t].op = "play2"
  <2>1. thread[t].pc \in WarPc \cup {"return2"} => thread[t] \in PlayHandler
    BY <1>1, HandlerKind, Zenon DEF WarPc, PlayPc
  <2>2. thread[t] \in PlayHandler => thread[t].op \in {"play1", "play2"}
    BY Zenon DEF PlayHandler
  <2>3. thread[t].op = "play1" => thread[t].pc \notin WarPc \cup {"return2"}
    BY Zenon DEF LockInv, PlaysInOrder, WarPc
  <2> QED BY <2>1, <2>2, <2>3, Zenon
<1>3. ASSUME NEW op, NEW pcs, pcs \cap Quiet = {}
      PROVE  Dealer(op, pcs) = IF thread[t].op = op /\ thread[t].pc \in pcs THEN {t} ELSE {}
  BY <1>3, Zenon DEF Dealer, Running
<1>4. /\ WarPc \cap Quiet = {} /\ ShowPc \cap Quiet = {} /\ {"return2"} \cap Quiet = {}
      /\ {"table", "round"} \cap Quiet = {}
  BY Zenon DEF WarPc, ShowPc, Quiet, DealPc
<1>5. AtWar = IF thread[t].pc \in WarPc THEN {t} ELSE {}
  BY <1>2, <1>3, <1>4, Zenon DEF AtWar, WarPc
<1>6. Revealing = IF thread[t].op = "play1" /\ thread[t].pc \in ShowPc THEN {t} ELSE {}
  BY <1>3, <1>4, Zenon DEF Revealing, ShowPc
<1>7. Dealer("play2", {"return2"}) = {} <=> thread[t].pc # "return2"
  BY <1>2, <1>3, <1>4, Zenon
<1>8. Hidden = HiddenFor(t)
  <2>1. Dealer("play2", {"table", "round"}) =
          IF thread[t].op = "play2" /\ thread[t].pc \in {"table", "round"} THEN {t} ELSE {}
    BY <1>3, <1>4, Zenon
  <2> QED BY <2>1, Zenon DEF Hidden, HiddenFor
<1>9. (CHOOSE u \in {t} : TRUE) = t
  OBVIOUS
<1>10. TheTable = TableFor(t)
  <2>1. CASE thread[t].pc \in WarPc
    <3>1. AtWar = {t} /\ AtWar # {}
      BY <1>5, <2>1, Zenon
    <3>2. (CHOOSE u \in AtWar : TRUE) = t
      BY <1>9, <3>1
    <3> QED BY <2>1, <3>1, <3>2, Zenon DEF TheTable, TableFor
  <2>2. CASE thread[t].pc \notin WarPc /\ thread[t].op = "play1" /\ thread[t].pc \in ShowPc
    <3>1. AtWar = {} /\ Revealing = {t} /\ Revealing # {}
      BY <1>5, <1>6, <2>2, Zenon
    <3>2. (CHOOSE u \in Revealing : TRUE) = t
      BY <1>9, <3>1, SMT, Z3
    <3> QED BY <2>2, <3>1, <3>2, Zenon DEF TheTable, TableFor
  <2>3. CASE thread[t].pc \notin WarPc /\ ~(thread[t].op = "play1" /\ thread[t].pc \in ShowPc)
    BY <1>5, <1>6, <1>7, <2>3, Zenon DEF TheTable, TableFor
  <2> QED BY <2>1, <2>2, <2>3, Zenon
<1> QED BY <1>8, <1>10

\* After a step of the only active handler.
LEMMA TableThen ==
    ASSUME LockInv', NEW t \in Thread, \A u \in Thread : u # t => thread'[u].pc \in Quiet
    PROVE  TheTable' = TableFor(t)' /\ Hidden' = HiddenFor(t)'
<1>1. thread'[t] \in Handler
  BY Zenon DEF LockInv, TypeInv, ThreadsTypeOK, Handler
<1>2. thread'[t].pc \in WarPc \cup {"return2"} => thread'[t].op = "play2"
  <2>1. thread'[t].pc \in WarPc \cup {"return2"} => thread'[t] \in PlayHandler
    BY <1>1, HandlerKind, Zenon DEF WarPc, PlayPc
  <2>2. thread'[t] \in PlayHandler => thread'[t].op \in {"play1", "play2"}
    BY Zenon DEF PlayHandler
  <2>3. thread'[t].op = "play1" => thread'[t].pc \notin WarPc \cup {"return2"}
    BY Zenon DEF LockInv, PlaysInOrder, WarPc
  <2> QED BY <2>1, <2>2, <2>3, Zenon
<1>3. ASSUME NEW op, NEW pcs, pcs \cap Quiet = {}
      PROVE  Dealer(op, pcs)' = IF thread'[t].op = op /\ thread'[t].pc \in pcs THEN {t} ELSE {}
  BY <1>3, Zenon DEF Dealer, Running
<1>4. /\ WarPc \cap Quiet = {} /\ ShowPc \cap Quiet = {} /\ {"return2"} \cap Quiet = {}
      /\ {"table", "round"} \cap Quiet = {}
  BY Zenon DEF WarPc, ShowPc, Quiet, DealPc
<1>5. AtWar' = IF thread'[t].pc \in WarPc THEN {t} ELSE {}
  BY <1>2, <1>3, <1>4, Zenon DEF AtWar, WarPc
<1>6. Revealing' = IF thread'[t].op = "play1" /\ thread'[t].pc \in ShowPc THEN {t} ELSE {}
  BY <1>3, <1>4, Zenon DEF Revealing, ShowPc
<1>7. Dealer("play2", {"return2"})' = {} <=> thread'[t].pc # "return2"
  BY <1>2, <1>3, <1>4, Zenon
<1>8. Hidden' = HiddenFor(t)'
  <2>1. Dealer("play2", {"table", "round"})' =
          IF thread'[t].op = "play2" /\ thread'[t].pc \in {"table", "round"} THEN {t} ELSE {}
    BY <1>3, <1>4, Zenon
  <2> QED BY <2>1, Zenon DEF Hidden, HiddenFor
<1>9. (CHOOSE u \in {t} : TRUE) = t
  OBVIOUS
<1>10. TheTable' = TableFor(t)'
  <2>1. CASE thread'[t].pc \in WarPc
    <3>1. AtWar' = {t} /\ AtWar' # {}
      BY <1>5, <2>1, Zenon
    <3>2. (CHOOSE u \in AtWar' : TRUE) = t
      BY <1>9, <3>1, ZenonT(40)
    <3> QED BY <2>1, <3>1, <3>2, Zenon DEF TheTable, TableFor
  <2>2. CASE thread'[t].pc \notin WarPc /\ thread'[t].op = "play1" /\ thread'[t].pc \in ShowPc
    <3>1. AtWar' = {} /\ Revealing' = {t} /\ Revealing' # {}
      BY <1>5, <1>6, <2>2, Zenon
    <3>2. (CHOOSE u \in Revealing' : TRUE) = t
      BY <1>9, <3>1, ZenonT(40)
    <3> QED BY <2>2, <3>1, <3>2, Zenon DEF TheTable, TableFor
  <2>3. CASE thread'[t].pc \notin WarPc /\ ~(thread'[t].op = "play1" /\ thread'[t].pc \in ShowPc)
    BY <1>5, <1>6, <1>7, <2>3, Zenon DEF TheTable, TableFor
  <2> QED BY <2>1, <2>2, <2>3, Zenon
<1> QED BY <1>8, <1>10, ZenonT(40)

\* A step of a handler that is not at the table.
LEMMA QuietTable ==
    ASSUME NEW t \in Thread, \A u \in Thread : u # t => thread'[u] = thread[u],
           thread[t].pc \in Quiet, thread'[t].pc \in Quiet, UNCHANGED <<turns, played>>
    PROVE  TheTable' = TheTable /\ Hidden' = Hidden
<1>1. ASSUME NEW op, NEW pcs, pcs \cap Quiet = {}
      PROVE  /\ Dealer(op, pcs)' = Dealer(op, pcs)
             /\ \A u \in Dealer(op, pcs) : thread'[u] = thread[u]
  BY <1>1, Zenon DEF Dealer, Running
<1>2. /\ WarPc \cap Quiet = {} /\ ShowPc \cap Quiet = {} /\ {"return2"} \cap Quiet = {}
      /\ {"table", "round"} \cap Quiet = {}
  BY Zenon DEF WarPc, ShowPc, Quiet, DealPc
<1>3. /\ AtWar' = AtWar /\ \A u \in AtWar : thread'[u] = thread[u]
      /\ Revealing' = Revealing /\ \A u \in Revealing : thread'[u] = thread[u]
  BY <1>1, <1>2, Zenon DEF AtWar, Revealing, WarPc, ShowPc
<1>4. Dealer("play2", {"return2"})' = Dealer("play2", {"return2"})
  BY <1>1, <1>2, Zenon
<1>5. Hidden' = Hidden
  <2>1. /\ Dealer("play2", {"table", "round"})' = Dealer("play2", {"table", "round"})
        /\ \A u \in Dealer("play2", {"table", "round"}) : thread'[u] = thread[u]
    BY <1>1, <1>2, Zenon
  <2> QED BY <2>1, Zenon DEF Hidden
<1>6. /\ AtWar # {} => (CHOOSE u \in AtWar : TRUE) \in AtWar
      /\ Revealing # {} => (CHOOSE u \in Revealing : TRUE) \in Revealing
  OBVIOUS
<1>7. /\ (CHOOSE u \in AtWar : TRUE)' = (CHOOSE u \in AtWar : TRUE)
      /\ (CHOOSE u \in Revealing : TRUE)' = (CHOOSE u \in Revealing : TRUE)
  BY <1>3
<1>8. playedCard1' = playedCard1 /\ player2Turn' = player2Turn
  BY Zenon DEF turns, played
<1>9. TheTable' = TheTable
  <2>1. CASE AtWar # {}
    BY <1>3, <1>6, <1>7, <2>1, ZenonT(40) DEF TheTable
  <2>2. CASE AtWar = {} /\ Revealing # {}
    BY <1>3, <1>6, <1>7, <2>2, ZenonT(40) DEF TheTable
  <2>3. CASE AtWar = {} /\ Revealing = {}
    BY <1>3, <1>4, <1>8, <2>3, Zenon DEF TheTable
  <2> QED BY <2>1, <2>2, <2>3, Zenon
<1> QED BY <1>5, <1>9, Zenon

-----------------------------------------------------------------------------
(* Counting cards.                                                         *)

Left2 == {c \in Half2 : ~isPlayed[c]}

\* Cards can be counted, one by one.
LEMMA CardsCount ==
    ASSUME NEW S, S \subseteq Card
    PROVE  /\ IsFiniteSet(S) /\ Cardinality(S) \in Nat
           /\ Cardinality(S) = 0 <=> S = {}
           /\ \A c \in S : Cardinality(S \ {c}) = Cardinality(S) - 1
<1>1. IsFiniteSet(S)
  BY RepositoriesAssumption, FS_Subset, Zenon
<1> QED BY <1>1, FS_CardinalityType, FS_EmptySet, FS_RemoveElement, Zenon

\* When one card leaves a half, the other half is ahead or level again.
LEMMA LevelStep ==
    ASSUME Level, Rest1 \subseteq Card, Rest2 \subseteq Card,
           NEW n \in {0, 1}, n = Len(TheTable) % 2, NEW m \in {0, 1}, m = Len(TheTable') % 2,
           \/ Rest1' = Rest1 /\ Rest2' = Rest2 /\ n = m
           \/ (\E c \in Rest1 : Rest1' = Rest1 \ {c}) /\ Rest2' = Rest2 /\ n = 0 /\ m = 1
           \/ (\E c \in Rest2 : Rest2' = Rest2 \ {c}) /\ Rest1' = Rest1 /\ n = 1 /\ m = 0
    PROVE  Level'
<1>1. /\ Cardinality(Rest1) \in Nat /\ Cardinality(Rest2) \in Nat
      /\ \A c \in Rest1 : Cardinality(Rest1 \ {c}) = Cardinality(Rest1) - 1
      /\ \A c \in Rest2 : Cardinality(Rest2 \ {c}) = Cardinality(Rest2) - 1
  BY CardsCount, Zenon
<1>2. Cardinality(Rest2) = Cardinality(Rest1) + n
  BY Zenon DEF Level
<1> SUFFICES Cardinality(Rest2') = Cardinality(Rest1') + m
  BY Zenon DEF Level
<1>3. CASE Rest1' = Rest1 /\ Rest2' = Rest2 /\ n = m
  BY <1>2, <1>3, Zenon
<1>4. CASE (\E c \in Rest1 : Rest1' = Rest1 \ {c}) /\ Rest2' = Rest2 /\ n = 0 /\ m = 1
  <2>1. Cardinality(Rest1') = Cardinality(Rest1) - 1 /\ Cardinality(Rest2') = Cardinality(Rest2)
    BY <1>1, <1>4, Zenon
  <2> QED BY <1>1, <1>2, <1>4, <2>1, SMT, Z3
<1>5. CASE (\E c \in Rest2 : Rest2' = Rest2 \ {c}) /\ Rest1' = Rest1 /\ n = 1 /\ m = 0
  <2>1. Cardinality(Rest2') = Cardinality(Rest2) - 1 /\ Cardinality(Rest1') = Cardinality(Rest1)
    BY <1>1, <1>5, Zenon
  <2> QED BY <1>1, <1>2, <1>5, <2>1, SMT, Z3
<1> QED BY <1>3, <1>4, <1>5, Zenon

\* What is in a hand is of the player's half, and all of it once the half is
\* dealt.
LEMMA Hands ==
    ASSUME OwnHalf
    PROVE  /\ Rest1 \subseteq Card /\ Left2 \subseteq Card
           /\ Unplayed(Player1) \subseteq Rest1 /\ Unplayed(Player2) \subseteq Left2
           /\ Undealt("deal1") = {} => Unplayed(Player1) = Rest1
           /\ Undealt("deal2") = {} => Unplayed(Player2) = Left2
<1>1. Half1 \subseteq Card /\ Half2 \subseteq Card
  BY DeckHalves, Zenon DEF Half2
<1>2. FindCardsByPlayer(Player1) \subseteq Half1 /\ FindCardsByPlayer(Player2) \subseteq Half2
  <2>1. Player1 # Player2 /\ Player1 # NoPlayer /\ Player2 # NoPlayer
    BY RepositoriesAssumption, CardsThreadsAssumption, Zenon
  <2> QED BY <2>1, Zenon DEF OwnHalf, FindCardsByPlayer, Half2
<1>3. /\ Undealt("deal1") = {} => Half1 \subseteq FindCardsByPlayer(Player1)
      /\ Undealt("deal2") = {} => Half2 \subseteq FindCardsByPlayer(Player2)
  BY Zenon DEF Undealt, HalfOf, Player
<1> QED BY <1>1, <1>2, <1>3, Zenon DEF Rest1, Left2, Unplayed

\* A card that a player plays leaves that player's hand, and nothing else.
LEMMA CardLeaves ==
    ASSUME TypeInv, OwnHalf, NEW player \in {Player1, Player2}, NEW card \in Unplayed(player),
           NEW order, Save(card, player, order, TRUE)
    PROVE  /\ cardPlayers' = cardPlayers /\ card \in Card /\ ~isPlayed[card] /\ isPlayed'[card]
           /\ \A c \in Card : isPlayed[c] => isPlayed'[c]
           /\ \A p : FindCardsByPlayer(p)' = FindCardsByPlayer(p)
           /\ Unplayed(player)' = Unplayed(player) \ {card}
           /\ \A p : p # player => Unplayed(p)' = Unplayed(p)
           /\ player = Player1 => card \in Rest1 /\ Rest1' = Rest1 \ {card} /\ Left2' = Left2
           /\ player = Player2 => card \in Left2 /\ Left2' = Left2 \ {card} /\ Rest1' = Rest1
<1>1. card \in FindCardsByPlayer(player) /\ ~isPlayed[card] /\ cardPlayers[card] = player
  BY Zenon DEF Unplayed, FindCardsByPlayer
<1>2. /\ card \in Card /\ cardPlayers' = cardPlayers /\ isPlayed'[card]
      /\ \A c \in Card : isPlayed[c] => isPlayed'[c]
  BY <1>1, SaveOwned, Zenon
<1>3. isPlayed \in [Card -> BOOLEAN] /\ isPlayed' = [isPlayed EXCEPT ![card] = TRUE]
  BY Zenon DEF TypeInv, ThreadsTypeOK, TablesTypeOK, Save
<1>4. \A c \in Card : ~isPlayed'[c] <=> c # card /\ ~isPlayed[c]
  BY <1>1, <1>3, Zenon
<1>5. \A p : FindCardsByPlayer(p)' = FindCardsByPlayer(p) /\ FindCardsByPlayer(p) \subseteq Card
  BY <1>2, Zenon DEF FindCardsByPlayer
<1>6. Unplayed(player)' = Unplayed(player) \ {card}
  BY <1>4, <1>5, Zenon DEF Unplayed
<1>7. \A p : p # player => Unplayed(p)' = Unplayed(p)
  <2>1. \A p : p # player => card \notin FindCardsByPlayer(p)
    BY <1>1, Zenon DEF FindCardsByPlayer
  <2> QED BY <1>4, <1>5, <2>1, Zenon DEF Unplayed
<1>8. /\ Half1 \subseteq Card /\ Half2 \subseteq Card /\ Half1 \cap Half2 = {}
      /\ Half1' = Half1 /\ Half2' = Half2
  BY DeckHalves, Zenon DEF Half1, Half2
<1>9. (player = Player1 => card \in Rest1) /\ (player = Player2 => card \in Left2)
  BY Hands, Zenon
<1>10. player = Player1 => Rest1' = Rest1 \ {card} /\ Left2' = Left2
  <2>1. player = Player1 => card \in Half1 /\ card \notin Half2
    BY <1>8, <1>9, Zenon DEF Rest1
  <2> QED BY <1>4, <1>8, <2>1, Zenon DEF Rest1, Left2
<1>11. player = Player2 => Left2' = Left2 \ {card} /\ Rest1' = Rest1
  <2>1. player = Player2 => card \in Half2 /\ card \notin Half1
    BY <1>8, <1>9, Zenon DEF Left2
  <2> QED BY <1>4, <1>8, <2>1, Zenon DEF Rest1, Left2
<1> QED BY <1>1, <1>2, <1>5, <1>6, <1>7, <1>9, <1>10, <1>11, ZenonT(40)

-----------------------------------------------------------------------------
(* The game of WarRules.                                                   *)

\* A pile holds as many cards as it is long.
LEMMA PileSize ==
    ASSUME NEW s \in Seq(Card), IsInjective(s)
    PROVE  Cardinality(Range(s)) = Len(s)
<1>1. Len(s) \in Nat /\ s \in [1..Len(s) -> Card]
  BY LenProperties
<1>2. IsFiniteSet(1..Len(s)) /\ Cardinality(1..Len(s)) = Len(s)
  BY <1>1, CountTo, Zenon
<1>3. s \in Surjection(1..Len(s), Range(s)) /\ s \in Injection(1..Len(s), Range(s))
  BY <1>1 DEF Surjection, Injection, IsInjective, Range
<1> QED BY <1>2, <1>3, FS_Surjection, ZenonT(40)

\* The rules count and list cards as the model does.
LEMMA RulesOperators ==
    /\ \A S : Rules!Cardinality(S) = Cardinality(S)
    /\ \A f : Rules!Range(f) = Range(f)
<1>1. \A S : Rules!Cardinality(S) = Cardinality(S)
  BY Zenon DEF Rules!Cardinality, Cardinality
<1>2. \A f : Rules!Range(f) = Range(f)
  BY Zenon DEF Rules!Range, Range
<1> QED BY <1>1, <1>2, Zenon

\* Counting the cards of the piles decides the game as their lengths do.
LEMMA RulesVerdict ==
    /\ TableInv => Rules!Verdict = Verdict
    /\ TableInv' => Rules!Verdict' = Verdict'
<1>1. ASSUME TableInv PROVE Rules!Verdict = Verdict
  <2>1. /\ Cardinality(Range(player1CapturedCards)) = Len(player1CapturedCards)
        /\ Cardinality(Range(player2CapturedCards)) = Len(player2CapturedCards)
    BY <1>1, PileSize, ZenonT(40) DEF TableInv, LockInv, TypeInv, ThreadsTypeOK, CapturedOnce
  <2> QED BY <2>1, RulesOperators, ZenonT(40) DEF Rules!Verdict, Verdict
<1>2. ASSUME TableInv' PROVE Rules!Verdict' = Verdict'
  <2>1. /\ Cardinality(Range(player1CapturedCards')) = Len(player1CapturedCards')
        /\ Cardinality(Range(player2CapturedCards')) = Len(player2CapturedCards')
    BY <1>2, PileSize, ZenonT(40) DEF TableInv, LockInv, TypeInv, ThreadsTypeOK, CapturedOnce
  <2> QED BY <2>1, RulesOperators, ZenonT(40) DEF Rules!Verdict, Verdict
<1> QED BY <1>1, <1>2

\* Nothing is announced.
LEMMA NoAnnouncement ==
    ASSUME TypeInv, winnerTopic' = winnerTopic
    PROVE  Rules!MayAnnounce
<1>1. winnerTopic \in Seq({Username1, Username2, Tie})
  BY Zenon DEF TypeInv, ThreadsTypeOK
<1>2. winnerTopic' = winnerTopic \o [i \in 1..0 |-> Rules!Verdict']
  BY <1>1
<1>3. 0 \in 0..2 /\ ~(0 > 0)
  OBVIOUS
<1> QED BY <1>2, <1>3, Zenon DEF Rules!MayAnnounce

\* A step that moves no card changes nothing of the game.
LEMMA NoCardMoves ==
    ASSUME UNCHANGED <<cardPlayers, isPlayed, piles, winnerTopic>>,
           TheTable' = TheTable, Hidden' = Hidden
    PROVE  UNCHANGED Rules!vars /\ (Level => Level')
<1>1. \A p : FindCardsByPlayer(p)' = FindCardsByPlayer(p) /\ Unplayed(p)' = Unplayed(p)
  BY Zenon DEF FindCardsByPlayer, Unplayed
<1>2. Half1' = Half1 /\ Half2' = Half2
  BY Zenon DEF Half1, Half2
<1>3. Level => Level'
  BY <1>2, Zenon DEF Level, Rest1, Rest2
<1>4. player1CapturedCards' = player1CapturedCards /\ player2CapturedCards' = player2CapturedCards
  BY Zenon DEF piles
<1> QED BY <1>1, <1>2, <1>3, <1>4, Zenon DEF Rules!vars

\* A handler that is not at the table knows nothing that a play could change.
LEMMA QuietKnows ==
    ASSUME thread \in [Thread -> Handler], NEW u \in Thread, Knows(u), thread[u].pc \in Quiet,
           thread'[u] = thread[u], \A c \in Card : isPlayed[c] => isPlayed'[c]
    PROVE  Knows(u)'
<1>1. thread[u].op = "play2" => thread[u].pc = "last"
  <2>1. thread[u] \in Handler /\ (thread[u].op = "play2" => thread[u] \in PlayHandler)
    BY HandlerKind, Zenon
  <2>2. thread[u] \in PlayHandler => thread[u].pc \in PlayPc
    BY Zenon DEF PlayHandler, PlayPc
  <2> QED BY <2>1, <2>2, Zenon DEF Quiet, DealPc, PlayPc
<1>2. thread[u].pc = "last" => \A c \in Card : isPlayed[c]
  BY Zenon DEF Knows
<1>3. thread[u].pc = "last" => Unplayed(Player2)' = {} /\ \A c \in Card : isPlayed'[c]
  BY <1>2, Zenon DEF Unplayed, FindCardsByPlayer
<1>4. thread[u].pc \notin {"pass1", "pass2", "round"} \cup WarPc
  BY Zenon DEF Quiet, DealPc, WarPc
<1> QED BY <1>1, <1>3, <1>4, Zenon DEF Knows, WarPc

\* A step of the only active handler, from what it does with the cards.
LEMMA RulesStepOf ==
    ASSUME RulesInv, TableInv', NEW t \in Thread,
           \A u \in Thread : u # t => thread[u].pc \in Quiet /\ thread'[u] = thread[u],
           thread'[t].op \in {"play1", "play2"} => Player(thread'[t].op) \in buttons,
           player2Turn' => player2Turn \/ Player1 \in buttons,
           UNCHANGED <<cardPlayers, buttons>>, \A c \in Card : isPlayed[c] => isPlayed'[c],
           Level', Knows(t)'
    PROVE  RulesInv'
<1>1. thread \in [Thread -> Handler] /\ Served
  BY Zenon DEF RulesInv, TableInv, LockInv, TypeInv, ThreadsTypeOK, Handler
<1>2. \A u \in Thread : Knows(u)'
  <2>1. ASSUME NEW u \in Thread, u # t PROVE Knows(u)'
    BY <1>1, <2>1, QuietKnows, Zenon DEF RulesInv
  <2> QED BY <2>1, Zenon
<1>3. Served'
  <2>1. \A op : Undealt(op)' = Undealt(op)
    BY Zenon DEF Undealt, HalfOf, Half1, Half2, FindCardsByPlayer
  <2>2. \A u \in Thread : thread'[u].op \in {"play1", "play2"} => Player(thread'[u].op) \in buttons'
    BY <1>1, Zenon DEF Served
  <2> QED BY <1>1, <2>1, <2>2, Zenon DEF Served
<1> QED BY <1>2, <1>3, Zenon DEF RulesInv

\* A deal takes no card from a hand, and a hand with the whole half gets none.
LEMMA HandGrows ==
    ASSUME OwnHalf, OwnHalf', NEW op \in Deals,
           \A c \in Card : cardPlayers[c] # NoPlayer => cardPlayers'[c] = cardPlayers[c]
    PROVE  /\ FindCardsByPlayer(Player(op)) \subseteq FindCardsByPlayer(Player(op))'
           /\ FindCardsByPlayer(Player(op))' \subseteq HalfOf(op)
           /\ Undealt(op) = {} => Undealt(op)' = {}
           /\ Undealt(op)' = Undealt(op) =>
                FindCardsByPlayer(Player(op))' = FindCardsByPlayer(Player(op))
<1>1. Player1 # Player2 /\ Player1 # NoPlayer /\ Player2 # NoPlayer
  BY RepositoriesAssumption, CardsThreadsAssumption, Zenon
<1>2. Player(op) # NoPlayer
  BY <1>1, Zenon DEF Player
<1>3. FindCardsByPlayer(Player(op)) \subseteq FindCardsByPlayer(Player(op))'
  BY <1>2, Zenon DEF FindCardsByPlayer
<1>4. /\ FindCardsByPlayer(Player(op)) \subseteq HalfOf(op)
      /\ FindCardsByPlayer(Player(op))' \subseteq HalfOf(op)
  <2>1. CASE op = "deal1"
    BY <1>1, <2>1, Zenon DEF OwnHalf, FindCardsByPlayer, HalfOf, Half2, Player
  <2>2. CASE op = "deal2"
    BY <1>1, <2>2, Zenon DEF OwnHalf, FindCardsByPlayer, HalfOf, Half2, Player
  <2> QED BY <2>1, <2>2, Zenon DEF Deals
<1>5. HalfOf(op)' = HalfOf(op)
  BY Zenon DEF HalfOf, Half1, Half2
<1> QED BY <1>3, <1>4, <1>5, Zenon DEF Undealt

\* A deal is a deal of the rules: what it gives was not played.
LEMMA DealGame ==
    ASSUME OwnHalf, OwnHalf', NEW op \in Deals, isPlayed' = isPlayed,
           \A c \in Card : cardPlayers[c] # NoPlayer => cardPlayers'[c] = cardPlayers[c],
           \A o \in Deals : o # op => Undealt(o)' = Undealt(o),
           UNCHANGED <<piles, winnerTopic>>, TheTable' = TheTable, Hidden' = Hidden,
           \A c \in Hidden : isPlayed[c]
    PROVE  Rules!Deal1 \/ Rules!Deal2
<1>1. player1CapturedCards' = player1CapturedCards /\ player2CapturedCards' = player2CapturedCards
  BY Zenon DEF piles
<1>2. ASSUME NEW o \in Deals
      PROVE  /\ FindCardsByPlayer(Player(o)) \subseteq FindCardsByPlayer(Player(o))'
             /\ FindCardsByPlayer(Player(o))' \subseteq HalfOf(o)
             /\ \A c \in HalfOf(o) \ FindCardsByPlayer(Player(o)) : ~isPlayed[c]
             /\ o # op => FindCardsByPlayer(Player(o))' = FindCardsByPlayer(Player(o))
  BY HandGrows, UndealtIsNobodys, Zenon DEF Undealt
<1>3. HalfOf("deal1") = Half1 /\ HalfOf("deal2") = Half2 /\ Player("deal1") = Player1
      /\ Player("deal2") = Player2 /\ Half1' = Half1 /\ Half2' = Half2
  BY Zenon DEF HalfOf, Player, Half1, Half2
<1>4. CASE op = "deal1"
  <2>1. FindCardsByPlayer(Player2)' = FindCardsByPlayer(Player2)
    BY <1>2, <1>3, <1>4, Zenon DEF Deals
  <2>2. Unplayed(Player2)' = Unplayed(Player2)
    BY <2>1, Zenon DEF Unplayed
  <2>3. /\ FindCardsByPlayer(Player1) \subseteq FindCardsByPlayer(Player1)'
        /\ FindCardsByPlayer(Player1)' \subseteq Half1
        /\ \A c \in Half1 \ FindCardsByPlayer(Player1) : ~isPlayed[c]
    BY <1>2, <1>3, Zenon DEF Deals
  <2>4. /\ Unplayed(Player1) \subseteq Unplayed(Player1)'
        /\ Unplayed(Player1)' \subseteq Unplayed(Player1) \cup (Half1 \ FindCardsByPlayer(Player1))
        /\ Half1 \ FindCardsByPlayer(Player1)' =
             (Half1 \ FindCardsByPlayer(Player1)) \ Unplayed(Player1)'
    BY <2>3, Zenon DEF Unplayed
  <2> QED BY <1>1, <1>3, <2>1, <2>2, <2>4, ZenonT(40) DEF Rules!Deal1
<1>5. CASE op = "deal2"
  <2>1. FindCardsByPlayer(Player1)' = FindCardsByPlayer(Player1)
    BY <1>2, <1>3, <1>5, Zenon DEF Deals
  <2>2. Unplayed(Player1)' = Unplayed(Player1)
    BY <2>1, Zenon DEF Unplayed
  <2>3. /\ FindCardsByPlayer(Player2) \subseteq FindCardsByPlayer(Player2)'
        /\ FindCardsByPlayer(Player2)' \subseteq Half2
        /\ \A c \in Half2 \ FindCardsByPlayer(Player2) : ~isPlayed[c]
    BY <1>2, <1>3, Zenon DEF Deals
  <2>4. /\ Unplayed(Player2) \subseteq Unplayed(Player2)'
        /\ Unplayed(Player2)' \subseteq Unplayed(Player2) \cup (Half2 \ FindCardsByPlayer(Player2))
        /\ Half2 \ FindCardsByPlayer(Player2)' =
             (Half2 \ FindCardsByPlayer(Player2)) \ Unplayed(Player2)'
    BY <2>3, Zenon DEF Unplayed
  <2>5. \A c \in Hidden : c \notin Half2 \ FindCardsByPlayer(Player2)
    BY <2>3, Zenon
  <2> QED BY <1>1, <1>3, <2>1, <2>2, <2>4, <2>5, ZenonT(40) DEF Rules!Deal2
<1> QED BY <1>4, <1>5, Zenon DEF Deals

\* The card that player 2 is about to show has left player 2's hand.
LEMMA HiddenPlayed ==
    ASSUME RulesInv
    PROVE  /\ \A c \in Hidden : c \in FindCardsByPlayer(Player2) /\ isPlayed[c]
           /\ Hidden \cap Left2 = {} /\ Rest2 = Left2 \cup Hidden
           /\ Rest1 \subseteq Card /\ Rest2 \subseteq Card
<1>1. ASSUME NEW t \in Dealer("play2", {"table", "round"})
      PROVE  thread[t].card \in FindCardsByPlayer(Player2) /\ isPlayed[thread[t].card]
  <2>1. t \in Thread /\ thread[t].op = "play2" /\ thread[t].pc \in {"table", "round"}
    BY <1>1, Zenon DEF Dealer, Running
  <2>2. CardsOf(t) /\ Knows(t)
    BY <2>1, Zenon DEF RulesInv, TableInv
  <2>3. CASE thread[t].pc = "table"
    BY <2>1, <2>2, <2>3, Zenon DEF CardsOf, OnTable, Player
  <2>4. CASE thread[t].pc = "round"
    <3>1. playedCard2 = thread[t].card
      BY <2>2, <2>4, Zenon DEF Knows
    <3> QED BY <2>2, <2>4, <3>1, Zenon DEF CardsOf, OnTable
  <2> QED BY <2>1, <2>3, <2>4, Zenon
<1>2. \A c \in Hidden : c \in FindCardsByPlayer(Player2) /\ isPlayed[c]
  BY <1>1, Zenon DEF Hidden
<1>3. Hidden \cap Left2 = {} /\ Rest2 = Left2 \cup Hidden
  BY <1>2, Zenon DEF Left2, Rest2
<1>4. Hidden \subseteq Card
  BY <1>2, Zenon DEF FindCardsByPlayer
<1>5. OwnHalf
  BY Zenon DEF RulesInv, TableInv, HalvesInv
<1> QED BY <1>2, <1>3, <1>4, <1>5, Hands, Zenon

\* dealCards1 and dealCards2 follow the rules, also beside a play.
LEMMA DealFollows ==
    ASSUME RulesInv, TableInv', orderly', NEW t \in Thread,
           (\E op \in Deals : ReceiveDeal(t, op)) \/ Deal(t)
    PROVE  RulesInv' /\ [Rules!NextButTies]_(Rules!vars)
<1>1. /\ TypeInv /\ HalvesInv /\ OwnHalf /\ Served /\ Level /\ OwnHalf' /\ PlaysInOrder
      /\ thread \in [Thread -> Handler] /\ thread' \in [Thread -> Handler]
  BY Zenon DEF RulesInv, TableInv, LockInv, TypeInv, ThreadsTypeOK, Handler, HalvesInv
<1>2. /\ \A u \in Thread : u # t => thread'[u] = thread[u]
      /\ thread[t].pc \in Quiet /\ thread'[t].pc \in Quiet
  BY <1>1, DealMoves, Zenon
<1>3. /\ isPlayed' = isPlayed
      /\ \A c \in Card : cardPlayers[c] # NoPlayer => cardPlayers'[c] = cardPlayers[c]
  <2>1. CASE \E op \in Deals : ReceiveDeal(t, op)
    BY <2>1, Zenon DEF ReceiveDeal, tables
  <2>2. CASE Deal(t)
    BY <1>1, <2>2, DealHalves, Zenon
  <2> QED BY <2>1, <2>2, Zenon
<1>4. UNCHANGED <<turns, played, piles, winnerTopic>>
  BY Zenon
     DEF ReceiveDeal, Deal, FindAll, SubListReceiver, SubListFrom, SubListTo, DealSave, DealAnswer
<1>5. TheTable' = TheTable /\ Hidden' = Hidden
  BY <1>2, <1>4, QuietTable, Zenon
<1>6. Level'
  BY <1>1, <1>3, <1>5, Zenon DEF Level, Rest1, Rest2, Half1, Half2
<1>7. thread'[t].op \notin {"play1", "play2"}
  <2>1. CASE \E op \in Deals : ReceiveDeal(t, op)
    <3>1. PICK op \in Deals : ReceiveDeal(t, op)
      BY <2>1, Zenon
    <3>2. thread'[t].op = op
      BY <1>1, <3>1, ZenonT(40) DEF ReceiveDeal
    <3> QED BY <3>2 DEF Deals
  <2>2. CASE Deal(t)
    <3>1. thread[t].pc \in DealPc
      BY <2>2, Zenon
         DEF Deal, FindAll, SubListReceiver, SubListFrom, SubListTo, DealSave, DealAnswer,
                         At, DealPc
    <3>2. thread[t] \in DealHandler
      BY <1>1, <3>1, HandlerKind, Zenon
    <3>3. thread[t].op \in Deals
      BY <3>2, Zenon DEF DealHandler, Deals
    <3>4. Return(t) \/ thread'[t].op = thread[t].op
      <4>1. CASE FindAll(t) \/ SubListReceiver(t) \/ SubListFrom(t)
        BY <1>1, <3>2, <4>1, ZenonT(40)
           DEF FindAll, SubListReceiver, SubListFrom, Goto, DealHandler
      <4>2. CASE SubListTo(t)
        <5>1. \/ Return(t)
              \/ \E todo : thread' = [thread EXCEPT ![t].todo = todo, ![t].pc = "save"]
          BY <4>2, Zenon DEF SubListTo
        <5>2. ASSUME NEW todo, thread' = [thread EXCEPT ![t].todo = todo, ![t].pc = "save"]
              PROVE  thread'[t].op = thread[t].op
          BY <1>1, <3>2, <5>2, ZenonT(40) DEF DealHandler
        <5> QED BY <5>1, <5>2, Zenon
      <4>3. CASE DealSave(t)
        BY <1>1, <3>2, <4>3, ZenonT(40) DEF DealSave, DealHandler
      <4>4. CASE DealAnswer(t)
        BY <4>4, Zenon DEF DealAnswer
      <4> QED BY <2>2, <4>1, <4>2, <4>3, <4>4, ZenonT(40) DEF Deal
    <3>5. Return(t) => thread'[t].op = "none"
      BY <1>1, ReturnNone, Zenon
    <3> QED BY <3>3, <3>4, <3>5, ZenonT(40) DEF Deals
  <2> QED BY <2>1, <2>2, Zenon
<1>8. \A op \in Deals : Undealt(op) = {} =>
         /\ Undealt(op)' = {}
         /\ FindCardsByPlayer(Player(op))' = FindCardsByPlayer(Player(op))
  BY <1>1, <1>3, HandGrows, Zenon
<1>9. Deal(t) => thread[t] \in DealHandler /\ thread[t].op \in Deals /\ DealProgress(t)
  <2> SUFFICES ASSUME Deal(t) PROVE thread[t] \in DealHandler /\ thread[t].op \in Deals /\ DealProgress(t)
    BY Zenon
  <2>1. thread[t].pc \in DealPc
    BY Zenon
       DEF Deal, FindAll, SubListReceiver, SubListFrom, SubListTo, DealSave, DealAnswer, At, DealPc
  <2>2. thread[t] \in DealHandler
    BY <1>1, <2>1, HandlerKind, Zenon
  <2>3. thread[t].op \in Deals
    BY <2>2, Zenon DEF DealHandler, Deals
  <2> QED BY <1>1, <2>2, <2>3, ZenonT(40) DEF HalvesInv, Running, Deals
<1>10. \A op \in Deals : Player(op) \in buttons' => Undealt(op) = {}
  <2>1. CASE DealAnswer(t)
    <3>1. PICK o \in Deals : o = thread[t].op
      BY <1>9, <2>1, Zenon DEF Deal
    <3>2. thread[t].pc = "save" /\ thread[t].todo = <<>> /\ buttons' = buttons \cup {Player(o)}
      BY <2>1, <3>1, Zenon DEF DealAnswer, At
    <3>3. {thread[t].todo[i].card : i \in DOMAIN thread[t].todo} = Undealt(o)
      BY <1>9, <2>1, <3>1, <3>2, ZenonT(40) DEF DealProgress, Deal
    <3>4. DOMAIN thread[t].todo = {}
      BY <3>2
    <3>5. Undealt(o) = {}
      <4> SUFFICES ASSUME NEW c \in Undealt(o) PROVE FALSE
        BY Zenon
      <4>1. \E i \in DOMAIN thread[t].todo : c = thread[t].todo[i].card
        BY <3>3, Zenon
      <4> QED BY <3>4, <4>1, Zenon
    <3>6. \A op \in Deals : Player(op) = Player(o) => op = o
      <4>1. Player1 # Player2
        BY CardsThreadsAssumption, Zenon
      <4> QED BY <4>1 DEF Player, Deals
    <3> QED BY <1>1, <3>2, <3>5, <3>6, Zenon DEF Served, Deals
  <2>2. CASE ~DealAnswer(t)
    <3>1. buttons' = buttons
      BY <2>2, Zenon
         DEF ReceiveDeal, Deal, FindAll, SubListReceiver, SubListFrom, SubListTo, DealSave,
                         requests
    <3> QED BY <1>1, <3>1, Zenon DEF Served, Deals
  <2> QED BY <2>1, <2>2, Zenon
<1>11. buttons \subseteq buttons'
  BY Zenon DEF ReceiveDeal, Deal, FindAll, SubListReceiver, SubListFrom, SubListTo, DealSave,
               DealAnswer, requests
<1>12. Served'
  <2>1. \A op \in Deals : Player(op) \in buttons' => Undealt(op)' = {}
    BY <1>8, <1>10, Zenon
  <2>2. \A u \in Thread : thread'[u].op \in {"play1", "play2"} => Player(thread'[u].op) \in buttons'
    BY <1>1, <1>2, <1>7, <1>11, ZenonT(40) DEF Served
  <2>3. player2Turn' => Player1 \in buttons'
    BY <1>1, <1>4, <1>11, Zenon DEF Served, turns
  <2> QED BY <2>1, <2>2, <2>3, ZenonT(40) DEF Served, Deals
<1>13. ASSUME NEW u \in Thread PROVE Knows(u)'
  <2>1. CASE u = t
    <3>1. thread'[t].pc # "last"
      <4>1. thread'[t].pc = "last" => thread'[t] \in PlayHandler
        BY <1>1, HandlerKind, Zenon DEF PlayPc
      <4> QED BY <1>7, <4>1, Zenon DEF PlayHandler
    <3>2. thread'[t].pc \notin {"pass1", "pass2", "round"} \cup WarPc
      BY <1>2, Zenon DEF Quiet, DealPc, WarPc
    <3> QED BY <1>7, <2>1, <3>1, <3>2, Zenon DEF Knows, WarPc
  <2>2. CASE u # t
    <3>1. thread'[u] = thread[u] /\ playedCard1' = playedCard1 /\ playedCard2' = playedCard2
      BY <1>2, <1>4, <2>2, ZenonT(40) DEF played
    <3>2. /\ Undealt("deal1") = {} => Unplayed(Player1)' = Unplayed(Player1)
          /\ Undealt("deal2") = {} => Unplayed(Player2)' = Unplayed(Player2)
      <4>1. /\ Undealt("deal1") = {} => FindCardsByPlayer(Player1)' = FindCardsByPlayer(Player1)
            /\ Undealt("deal2") = {} => FindCardsByPlayer(Player2)' = FindCardsByPlayer(Player2)
        BY <1>8, Zenon DEF Deals, Player
      <4> QED BY <1>3, <4>1, Zenon DEF Unplayed
    <3>3. thread[u].op = "play2" => Unplayed(Player2)' = Unplayed(Player2)
      <4>1. thread[u].op = "play2" => Undealt("deal2") = {}
        BY <1>1, Zenon DEF Served, Player
      <4> QED BY <3>2, <4>1, Zenon
    <3>4. thread[u].pc = "runOut" => Unplayed(Drawer(u))' = Unplayed(Drawer(u))
      <4>1. thread[u].pc = "runOut" => thread[u].op = "play2"
        <5>1. thread[u].pc = "runOut" => thread[u] \in PlayHandler
          BY <1>1, HandlerKind, Zenon DEF PlayPc
        <5>2. thread[u] \in PlayHandler => thread[u].op \in {"play1", "play2"}
          BY Zenon DEF PlayHandler
        <5> QED BY <1>1, <5>1, <5>2, ZenonT(40) DEF PlaysInOrder
      <4>2. thread[u].pc = "runOut" => player2Turn
        <5>1. thread[u].pc = "runOut" => HoldsTurn(u)
          BY Zenon DEF HoldsTurn
        <5> QED BY <4>1, <5>1, ZenonT(40) DEF RulesInv, TableInv, LockInv, HolderHasFlag
      <4>3. thread[u].pc = "runOut" => Unplayed(Player1)' = Unplayed(Player1)
        BY <1>1, <3>2, <4>2, ZenonT(40) DEF Served, Player
      <4>4. Drawer(u)' = Drawer(u) /\ Drawer(u) \in {Player1, Player2}
        BY <3>1, Zenon DEF Drawer
      <4>5. CASE Drawer(u) = Player1
        BY <4>3, <4>4, <4>5, ZenonT(40) DEF Unplayed, FindCardsByPlayer
      <4>6. CASE Drawer(u) = Player2
        BY <3>3, <4>1, <4>4, <4>6, ZenonT(40) DEF Unplayed, FindCardsByPlayer
      <4> QED BY <4>4, <4>5, <4>6, ZenonT(40)
    <3>5. Knows(u)
      BY Zenon DEF RulesInv
    <3> QED BY <1>3, <3>1, <3>3, <3>4, <3>5, ZenonT(40) DEF Knows
  <2> QED BY <2>1, <2>2, Zenon
<1>14. [Rules!NextButTies]_(Rules!vars)
  <2>1. CASE DealSave(t)
    <3>1. PICK o \in Deals : o = thread[t].op
      BY <1>9, <2>1, Zenon DEF Deal
    <3>2. \A op \in Deals : op # o => Undealt(op)' = Undealt(op)
      BY <1>1, <1>9, <2>1, <3>1, DealSaveHalves, ZenonT(40) DEF Deal
    <3>3. \A c \in Hidden : isPlayed[c]
      BY HiddenPlayed, Zenon
    <3>4. Rules!Deal1 \/ Rules!Deal2
      BY <1>1, <1>3, <1>4, <1>5, <3>2, <3>3, DealGame, ZenonT(40)
    <3> QED BY <3>4, Zenon DEF Rules!Next, Rules!NextButTies
  <2>2. CASE ~DealSave(t)
    <3>1. cardPlayers' = cardPlayers
      BY <2>2, Zenon DEF ReceiveDeal, Deal, FindAll, SubListReceiver, SubListFrom, SubListTo,
                         DealAnswer, tables
    <3> QED BY <1>3, <1>4, <1>5, <3>1, NoCardMoves, ZenonT(40)
  <2> QED BY <2>1, <2>2, Zenon
<1> QED BY <1>6, <1>12, <1>13, <1>14, ZenonT(40) DEF RulesInv

\* The handler keeps its locals when it goes on.
LEMMA GotoLast ==
    ASSUME thread \in [Thread -> Handler], NEW t \in Thread, thread[t].pc \in PlayPc,
           NEW pc \in PlayPc, Goto(t, pc)
    PROVE  thread'[t].last = thread[t].last
<1>1. thread[t] \in PlayHandler
  BY HandlerKind
<1>2. [thread[t] EXCEPT !.pc = pc].last = thread[t].last
  BY <1>1, ZenonT(40) DEF PlayHandler
<1>3. thread' = [thread EXCEPT ![t] = [thread[t] EXCEPT !.pc = pc]]
  BY DEF Goto
<1> QED BY <1>2, <1>3, ZenonT(40)

\* What holds while a handler waits for its check of the turn or has the turn.
LEMMA Active ==
    ASSUME RulesInv, NEW t \in Thread, thread[t].pc \notin Quiet
    PROVE  /\ thread \in [Thread -> Handler] /\ thread[t] \in PlayHandler
           /\ thread[t].pc \in PlayPc /\ thread[t].op \in {"play1", "play2"}
           /\ thread[t].op = "play1" =>
                 /\ thread[t].pc \in {"turn", "reveal", "table", "pass1", "pass2"}
                 /\ ~player2Turn
           /\ thread[t].op = "play2" =>
                 /\ thread[t].pc \notin {"pass1", "pass2"}
                 /\ player2Turn = (thread[t].pc # "return1")
           /\ \A u \in Thread : u # t => thread[u].pc \in Quiet
           /\ TheTable = TableFor(t) /\ Hidden = HiddenFor(t)
           /\ Player(thread[t].op) \in buttons
<1>1. /\ thread \in [Thread -> Handler] /\ LockInv /\ TurnKept /\ PlaysInOrder /\ HolderHasFlag
      /\ ~(player1Turn /\ player2Turn) /\ player2Turn \in BOOLEAN /\ Served
  BY Zenon DEF RulesInv, TableInv, LockInv, TypeInv, ThreadsTypeOK, Handler
<1>2. thread[t] \in PlayHandler
  <2>1. thread[t].pc \in PlayPc
    BY <1>1, HandlerKind, Zenon DEF Quiet
  <2> QED BY <1>1, <2>1, HandlerKind, Zenon
<1>3. thread[t].pc \in PlayPc /\ thread[t].op \in {"play1", "play2"}
  BY <1>2, Zenon DEF PlayHandler, PlayPc
<1>4. /\ thread[t].op = "play1" =>
           thread[t].pc \in {"turn", "reveal", "table", "pass1", "pass2"}
      /\ thread[t].op = "play2" => thread[t].pc \notin {"pass1", "pass2"}
  BY <1>1, Zenon DEF PlaysInOrder
<1>5. thread[t].pc = "turn" \/ HoldsTurn(t)
  BY <1>3, Zenon DEF PlayPc, HoldsTurn, Quiet
<1>6. CASE thread[t].pc = "turn"
  <2>1. MyTurn(thread[t].op)
    BY <1>1, <1>6, Zenon DEF TurnKept, At
  <2>2. (thread[t].op = "play1" => ~player2Turn) /\ (thread[t].op = "play2" => player2Turn)
    BY <1>1, <2>1, Zenon DEF MyTurn
  <2>3. thread[t].op = "play2" => player2Turn = (thread[t].pc # "return1")
    BY <1>1, <1>6, <2>2, Zenon
  <2> QED BY <1>1, <1>2, <1>3, <1>4, <2>2, <2>3, ActiveAlone, TableNow, ZenonT(40) DEF Served
<1>7. CASE HoldsTurn(t)
  <2>1. (thread[t].op = "play1" => ~player2Turn)
        /\ (thread[t].op = "play2" => player2Turn = (thread[t].pc # "return1"))
    BY <1>1, <1>7, Zenon DEF HolderHasFlag
  <2> QED BY <1>1, <1>2, <1>3, <1>4, <2>1, ActiveAlone, TableNow, ZenonT(40) DEF Served
<1> QED BY <1>5, <1>6, <1>7, ZenonT(40)

\* Once player 2 has the turn, both halves are dealt, and the hands are what is
\* left of them.
LEMMA BothDealt ==
    ASSUME RulesInv, NEW t \in Thread, thread[t].pc \notin Quiet, thread[t].op = "play2",
           thread[t].pc # "return1"
    PROVE  Unplayed(Player1) = Rest1 /\ Unplayed(Player2) = Left2
<1>1. player2Turn /\ Player2 \in buttons
  BY Active, Zenon DEF Player
<1>2. Served /\ OwnHalf
  BY Zenon DEF RulesInv, TableInv, HalvesInv
<1>3. Undealt("deal1") = {} /\ Undealt("deal2") = {}
  BY <1>1, <1>2, Zenon DEF Served, Player
<1> QED BY <1>2, <1>3, Hands, Zenon

\* A click in turn shows nothing yet.
LEMMA ReceivePlayFollows ==
    ASSUME RulesInv, TableInv', orderly', NEW t \in Thread,
           NEW op \in {"play1", "play2"}, ReceivePlay(t, op)
    PROVE  RulesInv' /\ UNCHANGED Rules!vars
<1>1. /\ LockInv /\ LockInv' /\ TurnKept /\ thread \in [Thread -> Handler] /\ Level
  BY Zenon DEF RulesInv, TableInv, LockInv, TypeInv, ThreadsTypeOK, Handler
<1>2. /\ MyTurn(op) /\ Running({op}) = {} /\ thread[t] = NoHandler /\ Player(op) \in buttons
      /\ UNCHANGED <<cardPlayers, isPlayed, buttons, turns, played, piles, winnerTopic>>
  BY Zenon DEF ReceivePlay, tables, requests
<1>3. \A u \in Thread : thread[u].pc \in Quiet
  BY <1>1, <1>2, ClickAlone, ZenonT(40)
<1>4. PICK card \in Pick(Player(op)) :
        thread' = [thread EXCEPT ![t] =
          [op |-> op, pc |-> "turn", card |-> card, order |-> OrderOf(card),
           last |-> Unplayed(Player(op)) \subseteq {card}, warCards |-> <<>>]]
  BY Zenon DEF ReceivePlay
<1>5. /\ thread'[t].op = op /\ thread'[t].pc = "turn" /\ thread'[t].card = card
      /\ thread'[t].last = (Unplayed(Player(op)) \subseteq {card})
      /\ \A u \in Thread : u # t => thread'[u] = thread[u]
  BY <1>1, <1>4, ZenonT(40)
<1>6. thread[t].pc = "idle" /\ thread[t].op = "none"
  BY <1>2 DEF NoHandler
<1>7. /\ TheTable = TableFor(t) /\ Hidden = HiddenFor(t)
      /\ TheTable' = TableFor(t)' /\ Hidden' = HiddenFor(t)'
  <2>1. \A u \in Thread : u # t => thread'[u].pc \in Quiet
    BY <1>3, <1>5, Zenon
  <2> QED BY <1>1, <1>3, <2>1, TableNow, TableThen, ZenonT(40)
<1>8. TheTable' = TheTable /\ Hidden' = Hidden
  <2>1. player2Turn' = player2Turn /\ playedCard1' = playedCard1
    BY <1>2, Zenon DEF turns, played
  <2> QED BY <1>5, <1>6, <1>7, <2>1, ZenonT(40) DEF TableFor, HiddenFor, WarPc, ShowPc
<1>9. UNCHANGED Rules!vars /\ Level'
  BY <1>1, <1>2, <1>8, NoCardMoves, ZenonT(40)
<1>10. Knows(t)'
  <2>1. \A p : Unplayed(p)' = Unplayed(p)
    BY <1>2, Zenon DEF Unplayed, FindCardsByPlayer
  <2>2. op = "play2" => Player(op) = Player2
    BY Zenon DEF Player
  <2> QED BY <1>5, <2>1, <2>2, ZenonT(40) DEF Knows
<1>11. /\ thread'[t].op \in {"play1", "play2"} => Player(thread'[t].op) \in buttons
       /\ player2Turn' => player2Turn \/ Player1 \in buttons
       /\ \A c \in Card : isPlayed[c] => isPlayed'[c]
       /\ \A u \in Thread : u # t => thread[u].pc \in Quiet /\ thread'[u] = thread[u]
  BY <1>2, <1>3, <1>5, ZenonT(40) DEF turns
<1> QED BY <1>2, <1>9, <1>10, <1>11, RulesStepOf, ZenonT(40)

\* A step of the only active handler by which no card moves.
LEMMA StillTable ==
    ASSUME RulesInv, TableInv', NEW t \in Thread, thread[t].pc \notin Quiet,
           \A u \in Thread : u # t => thread'[u] = thread[u],
           thread'[t].op \in {thread[t].op, "none"},
           player2Turn' => player2Turn \/ thread[t].op = "play1",
           UNCHANGED <<cardPlayers, isPlayed, buttons, piles, winnerTopic>>,
           TableFor(t)' = TableFor(t), HiddenFor(t)' = HiddenFor(t), Knows(t)'
    PROVE  RulesInv' /\ UNCHANGED Rules!vars
<1>1. /\ LockInv' /\ Level
  BY Zenon DEF RulesInv, TableInv
<1>2. /\ \A u \in Thread : u # t => thread[u].pc \in Quiet
      /\ TheTable = TableFor(t) /\ Hidden = HiddenFor(t) /\ Player(thread[t].op) \in buttons
      /\ thread[t].op \in {"play1", "play2"}
  BY Active, Zenon
<1>3. TheTable' = TableFor(t)' /\ Hidden' = HiddenFor(t)'
  <2>1. \A u \in Thread : u # t => thread'[u].pc \in Quiet
    BY <1>2, Zenon
  <2> QED BY <1>1, <2>1, TableThen, Zenon
<1>4. UNCHANGED Rules!vars /\ Level'
  BY <1>1, <1>2, <1>3, NoCardMoves, ZenonT(40)
<1>5. /\ thread'[t].op \in {"play1", "play2"} => Player(thread'[t].op) \in buttons
      /\ player2Turn' => player2Turn \/ Player1 \in buttons
      /\ \A c \in Card : isPlayed[c] => isPlayed'[c]
      /\ \A u \in Thread : u # t => thread[u].pc \in Quiet /\ thread'[u] = thread[u]
  BY <1>2, Zenon DEF Player
<1> QED BY <1>4, <1>5, RulesStepOf, ZenonT(40)

\* The check of the turn.
LEMMA CheckTurnFollows ==
    ASSUME RulesInv, TableInv', NEW t \in Thread, CheckTurn(t)
    PROVE  RulesInv' /\ UNCHANGED Rules!vars
<1>1. /\ thread[t].pc = "turn" /\ thread[t].pc \notin Quiet
      /\ UNCHANGED <<cardPlayers, isPlayed, buttons, turns, played, piles, winnerTopic>>
  BY Zenon DEF CheckTurn, At, tables, requests, Quiet, DealPc
<1>2. /\ thread \in [Thread -> Handler] /\ thread[t].pc \in PlayPc /\ Knows(t)
      /\ thread[t].op \in {"play1", "play2"}
  BY <1>1, Active, Zenon DEF RulesInv
<1>3. player2Turn' = player2Turn /\ playedCard1' = playedCard1
  BY <1>1, Zenon DEF turns, played
<1>4. CASE Return(t)
  <2>1. /\ thread'[t].op = "none" /\ thread'[t].pc = "idle"
        /\ \A u \in Thread : u # t => thread'[u] = thread[u]
    BY <1>2, <1>4, ReturnNone, Zenon
  <2>2. TableFor(t)' = TableFor(t) /\ HiddenFor(t)' = HiddenFor(t)
    BY <1>1, <1>3, <2>1, ZenonT(40) DEF TableFor, HiddenFor, WarPc, ShowPc
  <2>3. Knows(t)'
    BY <2>1, Zenon DEF Knows
  <2> QED BY <1>1, <1>3, <2>1, <2>2, <2>3, StillTable, ZenonT(40)
<1>5. CASE Goto(t, "reveal")
  <2>1. /\ thread'[t].pc = "reveal" /\ thread'[t].op = thread[t].op
        /\ thread'[t].card = thread[t].card /\ thread'[t].last = thread[t].last
        /\ \A u \in Thread : u # t => thread'[u] = thread[u]
    BY <1>2, <1>5, GotoPlay, GotoLast, ZenonT(40) DEF PlayPc
  <2>2. TableFor(t)' = TableFor(t) /\ HiddenFor(t)' = HiddenFor(t)
    BY <1>1, <1>3, <2>1, Zenon DEF TableFor, HiddenFor, WarPc, ShowPc
  <2>3. Knows(t)'
    <3>1. Unplayed(Player2)' = Unplayed(Player2)
      BY <1>1, Zenon DEF Unplayed, FindCardsByPlayer
    <3> QED BY <1>1, <1>2, <2>1, <3>1, ZenonT(40) DEF Knows
  <2> QED BY <1>1, <1>3, <2>1, <2>2, <2>3, StillTable, ZenonT(40)
<1> QED BY <1>4, <1>5, Zenon DEF CheckTurn

\* The card that is set, and the hand-over of player 1's turn.
LEMMA PassFollows ==
    ASSUME RulesInv, TableInv', NEW t \in Thread, PutOnTable(t) \/ Pass1(t) \/ Pass2(t)
    PROVE  RulesInv' /\ UNCHANGED Rules!vars
<1>1. /\ thread[t].pc \notin Quiet /\ thread[t].pc \in {"table", "pass1", "pass2"}
      /\ UNCHANGED <<cardPlayers, isPlayed, buttons, piles, winnerTopic>>
  BY Zenon DEF PutOnTable, Pass1, Pass2, At, tables, requests, Quiet, DealPc
<1>2. /\ thread \in [Thread -> Handler] /\ thread[t].pc \in PlayPc /\ Knows(t)
      /\ thread[t].op \in {"play1", "play2"}
      /\ thread[t].op = "play1" => ~player2Turn
      /\ thread[t].op = "play2" => thread[t].pc = "table" /\ player2Turn
  BY <1>1, Active, Zenon DEF RulesInv
<1>3. Unplayed(Player2)' = Unplayed(Player2)
  BY <1>1, Zenon DEF Unplayed, FindCardsByPlayer
<1>4. \A pc \in PlayPc : Goto(t, pc) =>
        /\ thread'[t].pc = pc /\ thread'[t].op = thread[t].op
        /\ thread'[t].card = thread[t].card /\ thread'[t].last = thread[t].last
        /\ \A u \in Thread : u # t => thread'[u] = thread[u]
  BY <1>2, GotoPlay, GotoLast, Zenon
<1>5. CASE PutOnTable(t) /\ thread[t].op = "play1"
  <2>1. /\ playedCard1' = thread[t].card /\ Goto(t, "pass1") /\ player2Turn' = player2Turn
        /\ thread[t].pc = "table"
    BY <1>5, Zenon DEF PutOnTable, turns, At
  <2>2. /\ thread'[t].pc = "pass1" /\ thread'[t].op = "play1"
        /\ thread'[t].card = thread[t].card
        /\ \A u \in Thread : u # t => thread'[u] = thread[u]
    BY <1>4, <1>5, <2>1, ZenonT(40) DEF PlayPc
  <2>3. TableFor(t)' = TableFor(t) /\ HiddenFor(t)' = HiddenFor(t)
    BY <1>5, <2>1, <2>2, ZenonT(40) DEF TableFor, HiddenFor, WarPc, ShowPc
  <2>4. Knows(t)'
    BY <2>1, <2>2, Zenon DEF Knows
  <2> QED BY <1>1, <1>5, <2>1, <2>2, <2>3, <2>4, StillTable, ZenonT(40)
<1>6. CASE PutOnTable(t) /\ thread[t].op = "play2"
  <2>1. /\ playedCard2' = thread[t].card /\ playedCard1' = playedCard1 /\ Goto(t, "round")
        /\ player2Turn' = player2Turn /\ thread[t].pc = "table"
    BY <1>6, Zenon DEF PutOnTable, turns, At
  <2>2. /\ thread'[t].pc = "round" /\ thread'[t].op = "play2"
        /\ thread'[t].card = thread[t].card /\ thread'[t].last = thread[t].last
        /\ \A u \in Thread : u # t => thread'[u] = thread[u]
    BY <1>4, <1>6, <2>1, ZenonT(40) DEF PlayPc
  <2>3. TableFor(t)' = TableFor(t) /\ HiddenFor(t)' = HiddenFor(t)
    BY <1>6, <2>1, <2>2, ZenonT(40) DEF TableFor, HiddenFor, WarPc, ShowPc
  <2>4. Knows(t)'
    BY <1>2, <1>3, <1>6, <2>1, <2>2, ZenonT(40) DEF Knows
  <2> QED BY <1>1, <1>6, <2>1, <2>2, <2>3, <2>4, StillTable, ZenonT(40)
<1>7. CASE Pass1(t)
  <2>1. /\ playedCard1' = playedCard1 /\ Goto(t, "pass2") /\ player2Turn' = player2Turn
        /\ thread[t].pc = "pass1"
    BY <1>7, Zenon DEF Pass1, played, At
  <2>2. /\ thread'[t].pc = "pass2" /\ thread'[t].op = thread[t].op
        /\ thread'[t].card = thread[t].card
        /\ \A u \in Thread : u # t => thread'[u] = thread[u]
    BY <1>4, <2>1, Zenon DEF PlayPc
  <2>3. TableFor(t)' = TableFor(t) /\ HiddenFor(t)' = HiddenFor(t)
    BY <2>1, <2>2, Zenon DEF TableFor, HiddenFor, WarPc, ShowPc
  <2>4. Knows(t)'
    BY <1>2, <2>1, <2>2, ZenonT(40) DEF Knows
  <2> QED BY <1>1, <2>1, <2>2, <2>3, <2>4, StillTable, ZenonT(40)
<1>8. CASE Pass2(t)
  <2>1. /\ playedCard1' = playedCard1 /\ Return(t) /\ player2Turn' /\ thread[t].pc = "pass2"
        /\ thread[t].op = "play1"
    BY <1>2, <1>8, Zenon DEF Pass2, played, At
  <2>2. /\ thread'[t].op = "none" /\ thread'[t].pc = "idle"
        /\ \A u \in Thread : u # t => thread'[u] = thread[u]
    BY <1>2, <2>1, ReturnNone, Zenon
  <2>3. playedCard1 = thread[t].card
    BY <1>2, <2>1, Zenon DEF Knows
  <2>4. TableFor(t)' = TableFor(t) /\ HiddenFor(t)' = HiddenFor(t)
    BY <2>1, <2>2, <2>3, Zenon DEF TableFor, HiddenFor, WarPc, ShowPc
  <2>5. Knows(t)'
    BY <2>2, Zenon DEF Knows
  <2> QED BY <1>1, <2>1, <2>2, <2>4, <2>5, StillTable, ZenonT(40)
<1> QED BY <1>2, <1>5, <1>6, <1>7, <1>8, ZenonT(40)

\* Player 1's card is on the table from its save; player 2's stays hidden.
LEMMA RevealFollows ==
    ASSUME RulesInv, TableInv', NEW t \in Thread, Reveal(t)
    PROVE  RulesInv' /\ [Rules!NextButTies]_(Rules!vars)
<1>1. /\ thread[t].pc = "reveal" /\ thread[t].pc \notin Quiet
      /\ Save(thread[t].card, Player(thread[t].op), thread[t].order, TRUE) /\ Goto(t, "table")
      /\ UNCHANGED <<buttons, turns, played, piles, winnerTopic>>
  BY Zenon DEF Reveal, At, requests, Quiet, DealPc
<1>2. /\ thread \in [Thread -> Handler] /\ thread[t].pc \in PlayPc
      /\ thread[t].op \in {"play1", "play2"} /\ Player(thread[t].op) \in buttons
      /\ thread[t].op = "play1" => ~player2Turn
      /\ thread[t].op = "play2" => player2Turn
      /\ \A u \in Thread : u # t => thread[u].pc \in Quiet
      /\ TheTable = TableFor(t) /\ Hidden = HiddenFor(t)
  BY <1>1, Active, Zenon
<1>3. /\ TypeInv /\ OwnHalf /\ CardsOf(t) /\ Knows(t) /\ Level /\ LockInv'
  BY Zenon DEF RulesInv, TableInv, LockInv, HalvesInv
<1>4. /\ thread'[t].pc = "table" /\ thread'[t].op = thread[t].op
      /\ thread'[t].card = thread[t].card /\ thread'[t].last = thread[t].last
      /\ \A u \in Thread : u # t => thread'[u] = thread[u]
  BY <1>1, <1>2, GotoPlay, GotoLast, ZenonT(40) DEF PlayPc
<1>5. TheTable' = TableFor(t)' /\ Hidden' = HiddenFor(t)'
  <2>1. \A u \in Thread : u # t => thread'[u].pc \in Quiet
    BY <1>2, <1>4, Zenon
  <2> QED BY <1>3, <2>1, TableThen, ZenonT(40)
<1>6. PICK card : card = thread[t].card
  BY Zenon
<1>7. PICK player \in {Player1, Player2} : player = Player(thread[t].op)
  BY Zenon DEF Player
<1>8. card \in Unplayed(player)
  <2>1. thread[t].card \in Card
    BY <1>1, <1>3, ZenonT(40) DEF TypeInv, LocalsSet
  <2>2. thread[t].card # NoCard
    BY <2>1, RepositoriesAssumption, Zenon
  <2> QED BY <1>1, <1>3, <1>6, <1>7, <2>2, ZenonT(40) DEF CardsOf, InHand
<1>9. /\ cardPlayers' = cardPlayers /\ card \in Card
      /\ \A c \in Card : isPlayed[c] => isPlayed'[c]
      /\ \A p : FindCardsByPlayer(p)' = FindCardsByPlayer(p)
      /\ Unplayed(player)' = Unplayed(player) \ {card}
      /\ \A p : p # player => Unplayed(p)' = Unplayed(p)
      /\ player = Player1 => card \in Rest1 /\ Rest1' = Rest1 \ {card} /\ Left2' = Left2
      /\ player = Player2 => card \in Left2 /\ Left2' = Left2 \ {card} /\ Rest1' = Rest1
  <2>1. PICK order : order = thread[t].order
    BY Zenon
  <2>2. Save(card, player, order, TRUE)
    BY <1>1, <1>6, <1>7, <2>1, ZenonT(40)
  <2> QED BY <1>3, <1>8, <2>2, CardLeaves, ZenonT(40)
<1>10. Player1 # Player2
  BY CardsThreadsAssumption, Zenon
<1>11. /\ playedCard1' = playedCard1 /\ player2Turn' = player2Turn
       /\ player1CapturedCards' = player1CapturedCards
       /\ player2CapturedCards' = player2CapturedCards /\ Half1' = Half1 /\ Half2' = Half2
  BY <1>1, Zenon DEF played, turns, piles, Half1, Half2
<1>12. /\ Rest1 \subseteq Card /\ Rest2 \subseteq Card
       /\ Rest2 = Left2 \cup Hidden /\ Rest2' = Left2' \cup Hidden'
  BY HiddenPlayed, Zenon DEF Rest2, Left2
<1>13. Knows(t)'
  <2>1. thread[t].op = "play2" /\ thread[t].last => Unplayed(Player2)' = {}
    <3>1. thread[t].op = "play2" => player = Player2
      BY <1>7, Zenon DEF Player
    <3>2. thread[t].op = "play2" /\ thread[t].last => Unplayed(Player2) \subseteq {card}
      BY <1>1, <1>3, <1>6, ZenonT(40) DEF Knows
    <3> QED BY <1>9, <3>1, <3>2, Zenon
  <2> QED BY <1>4, <2>1, ZenonT(40) DEF Knows
<1>14. ASSUME Level' PROVE RulesInv'
  <2>1. /\ thread'[t].op \in {"play1", "play2"} => Player(thread'[t].op) \in buttons
        /\ player2Turn' => player2Turn \/ Player1 \in buttons
        /\ \A u \in Thread : u # t => thread[u].pc \in Quiet /\ thread'[u] = thread[u]
        /\ UNCHANGED <<cardPlayers, buttons>>
    BY <1>1, <1>2, <1>4, <1>9, <1>11, ZenonT(40)
  <2> QED BY <1>9, <1>13, <1>14, <2>1, RulesStepOf, ZenonT(40)
<1>15. CASE thread[t].op = "play1"
  <2>1. player = Player1
    BY <1>7, <1>15, ZenonT(40) DEF Player
  <2>2. TheTable = <<>> /\ Hidden = {} /\ TheTable' = <<card>> /\ Hidden' = {}
    BY <1>1, <1>2, <1>4, <1>5, <1>6, <1>15, ZenonT(40) DEF TableFor, HiddenFor, WarPc, ShowPc
  <2>3. Rest2' = Rest2
    BY <1>9, <1>12, <2>1, <2>2, ZenonT(40)
  <2>4. 0 = Len(TheTable) % 2 /\ 1 = Len(TheTable') % 2
    BY <2>2, SMT, Z3
  <2>5. Level'
    BY <1>3, <1>9, <1>12, <2>1, <2>3, <2>4, LevelStep, ZenonT(40)
  <2>6. Unplayed(Player2)' = Unplayed(Player2)
    BY <1>9, <1>10, <2>1, ZenonT(40)
  <2>7. Rules!Reveal1
    BY <1>1, <1>8, <1>9, <1>11, <2>1, <2>2, <2>6, ZenonT(40) DEF Rules!Reveal1
  <2> QED BY <1>14, <2>5, <2>7, ZenonT(40) DEF Rules!Next, Rules!NextButTies
<1>16. CASE thread[t].op = "play2"
  <2>1. player = Player2
    BY <1>7, <1>16, CardsThreadsAssumption, Zenon DEF Player
  <2>2. Hidden = {} /\ TheTable' = TheTable /\ Hidden' = {card}
    BY <1>1, <1>2, <1>4, <1>5, <1>6, <1>11, <1>16, ZenonT(40)
       DEF TableFor, HiddenFor, WarPc, ShowPc
  <2>3. Rest2' = Rest2 /\ Rest1' = Rest1
    BY <1>9, <1>12, <2>1, <2>2, ZenonT(40)
  <2>4. Level'
    BY <1>3, <2>2, <2>3, Zenon DEF Level
  <2>5. Unplayed(Player2)' \cup Hidden' = Unplayed(Player2) \cup Hidden
    BY <1>8, <1>9, <2>1, <2>2, ZenonT(40)
  <2>6. Unplayed(Player1)' = Unplayed(Player1)
    BY <1>9, <1>10, <2>1, Zenon
  <2>7. UNCHANGED Rules!vars
    BY <1>1, <1>9, <1>11, <2>2, <2>5, <2>6, ZenonT(40) DEF Rules!vars
  <2> QED BY <1>14, <2>4, <2>7, Zenon
<1> QED BY <1>2, <1>15, <1>16, ZenonT(40)

\* In a round and in a war the two cards that were played lie on the table.
LEMMA CardsLie ==
    ASSUME RulesInv, NEW t \in Thread, thread[t].pc \in {"round"} \cup WarPc
    PROVE  /\ thread[t].pc \notin Quiet /\ thread[t].op = "play2" /\ player2Turn
           /\ playedCard1 \in Card /\ playedCard2 \in Card /\ playedCard1 # NoCard
           /\ <<playedCard1, playedCard2>> \in Seq(Card)
           /\ IsInjective(<<playedCard1, playedCard2>>)
           /\ Range(<<playedCard1, playedCard2>>) = {playedCard1, playedCard2}
           /\ \A c \in {playedCard1, playedCard2} : OnTable(c)
<1>1. thread[t].pc \notin Quiet
  BY Zenon DEF WarPc, Quiet, DealPc
<1>2. thread[t].op = "play2" /\ player2Turn /\ \A u \in Thread : u # t => thread[u].pc \in Quiet
  <2>1. thread[t].pc \notin {"turn", "reveal", "table", "pass1", "pass2", "return1"}
    BY Zenon DEF WarPc
  <2> QED BY <1>1, <2>1, Active, Zenon
<1>3. LockInv /\ FirstCardLies /\ CardsOf(t)
  BY Zenon DEF RulesInv, TableInv
<1>4. FirstCardFor(t) /\ thread[t].pc # "return2"
  BY <1>2, <1>3, FirstCardOfOne, ZenonT(40) DEF WarPc
<1>5. /\ playedCard1 \in FindCardsByPlayer(Player1) /\ OnTable(playedCard1)
      /\ playedCard2 \in FindCardsByPlayer(Player2) /\ OnTable(playedCard2)
  BY <1>2, <1>3, <1>4, ZenonT(40) DEF FirstCardFor, CardsOf, WarPc
<1>6. playedCard1 \in Card /\ playedCard2 \in Card /\ playedCard1 # playedCard2
  BY <1>5, CardsThreadsAssumption, Zenon DEF FindCardsByPlayer
<1>7. /\ <<playedCard1, playedCard2>> \in Seq(Card)
      /\ IsInjective(<<playedCard1, playedCard2>>)
      /\ Range(<<playedCard1, playedCard2>>) = {playedCard1, playedCard2}
  BY <1>6, PairApart, Zenon
<1>8. playedCard1 # NoCard
  BY <1>6, RepositoriesAssumption, Zenon
<1> QED BY <1>1, <1>2, <1>5, <1>6, <1>7, <1>8, ZenonT(40)

\* A pile that is given cards gains exactly these.
LEMMA PilesGain ==
    ASSUME RulesInv, NEW won \in Seq(Card)
    PROVE  /\ Range(player1CapturedCards \o won) = Range(player1CapturedCards) \cup Range(won)
           /\ Range(player2CapturedCards \o won) = Range(player2CapturedCards) \cup Range(won)
<1>1. player1CapturedCards \in Seq(Card) /\ player2CapturedCards \in Seq(Card)
  BY Zenon DEF RulesInv, TableInv, LockInv, TypeInv, ThreadsTypeOK
<1> QED BY <1>1, RangeConcatenation, Zenon

\* The round is over: the table is empty.
LEMMA RoundEnds ==
    ASSUME RulesInv, TableInv', NEW t \in Thread, thread[t].pc \in {"round"} \cup WarPc,
           Goto(t, "return2"), UNCHANGED <<cardPlayers, isPlayed, buttons, turns, played>>
    PROVE  /\ TheTable' = <<>> /\ Hidden' = {} /\ (Level' => RulesInv')
           /\ \A p : FindCardsByPlayer(p)' = FindCardsByPlayer(p) /\ Unplayed(p)' = Unplayed(p)
           /\ Rest1' = Rest1 /\ Left2' = Left2 /\ Rest2' = Left2
           /\ Half1' = Half1 /\ Half2' = Half2
<1>1. thread[t].pc \notin Quiet /\ thread[t].op = "play2"
  BY CardsLie, Zenon
<1>2. /\ thread \in [Thread -> Handler] /\ thread[t].pc \in PlayPc /\ Player(thread[t].op) \in buttons
      /\ \A u \in Thread : u # t => thread[u].pc \in Quiet
  BY <1>1, Active, Zenon
<1>3. /\ thread'[t].pc = "return2" /\ thread'[t].op = "play2" /\ thread'[t].last = thread[t].last
      /\ \A u \in Thread : u # t => thread'[u] = thread[u]
  BY <1>1, <1>2, GotoPlay, GotoLast, ZenonT(40) DEF PlayPc
<1>4. TheTable' = TableFor(t)' /\ Hidden' = HiddenFor(t)'
  <2>1. LockInv' /\ \A u \in Thread : u # t => thread'[u].pc \in Quiet
    BY <1>2, <1>3, Zenon DEF TableInv
  <2> QED BY <2>1, TableThen, Zenon
<1>5. TheTable' = <<>> /\ Hidden' = {}
  BY <1>3, <1>4, Zenon DEF TableFor, HiddenFor, WarPc, ShowPc
<1>6. \A p : FindCardsByPlayer(p)' = FindCardsByPlayer(p) /\ Unplayed(p)' = Unplayed(p)
  BY Zenon DEF FindCardsByPlayer, Unplayed
<1>7. Half1' = Half1 /\ Half2' = Half2
  BY Zenon DEF Half1, Half2
<1>8. Rest1' = Rest1 /\ Left2' = Left2 /\ Rest2' = Left2
  BY <1>5, <1>7, ZenonT(40) DEF Rest1, Left2, Rest2
<1>9. Knows(t)'
  <2>1. Knows(t) /\ thread[t].pc \notin {"turn", "reveal"}
    BY Zenon DEF RulesInv, WarPc
  <2>2. thread[t].last => Unplayed(Player2) \subseteq {}
    BY <1>1, <2>1, ZenonT(40) DEF Knows
  <2> QED BY <1>3, <1>6, <2>2, ZenonT(40) DEF Knows
<1>10. ASSUME Level' PROVE RulesInv'
  <2>1. /\ thread'[t].op \in {"play1", "play2"} => Player(thread'[t].op) \in buttons
        /\ player2Turn' => player2Turn \/ Player1 \in buttons
        /\ \A u \in Thread : u # t => thread[u].pc \in Quiet /\ thread'[u] = thread[u]
        /\ \A c \in Card : isPlayed[c] => isPlayed'[c]
    BY <1>1, <1>2, <1>3, ZenonT(40) DEF turns
  <2> QED BY <1>9, <1>10, <2>1, RulesStepOf, ZenonT(40)
<1> QED BY <1>5, <1>6, <1>7, <1>8, <1>10, ZenonT(40)

\* A war begins, or begins again: the two cards that were played are its first.
LEMMA WarBegins ==
    ASSUME RulesInv, TableInv', NEW t \in Thread, thread[t].pc \in {"round"} \cup WarPc,
           thread' = [thread EXCEPT ![t].warCards = <<playedCard1, playedCard2>>,
                                    ![t].pc = "draw"],
           UNCHANGED <<cardPlayers, isPlayed, buttons, turns, played>>
    PROVE  /\ TheTable' = <<playedCard1, playedCard2>> /\ Hidden' = {} /\ (Level' => RulesInv')
           /\ \A p : FindCardsByPlayer(p)' = FindCardsByPlayer(p) /\ Unplayed(p)' = Unplayed(p)
           /\ Rest1' = Rest1 /\ Left2' = Left2 /\ Rest2' = Left2
           /\ Half1' = Half1 /\ Half2' = Half2
<1>1. thread[t].pc \notin Quiet /\ thread[t].op = "play2"
  BY CardsLie, Zenon
<1>2. /\ thread \in [Thread -> Handler] /\ thread[t] \in PlayHandler
      /\ Player(thread[t].op) \in buttons /\ \A u \in Thread : u # t => thread[u].pc \in Quiet
  BY <1>1, Active, Zenon
<1>3. /\ thread'[t].pc = "draw" /\ thread'[t].op = "play2" /\ thread'[t].last = thread[t].last
      /\ thread'[t].warCards = <<playedCard1, playedCard2>>
      /\ \A u \in Thread : u # t => thread'[u] = thread[u]
  BY <1>1, <1>2, ZenonT(40) DEF PlayHandler
<1>4. TheTable' = TableFor(t)' /\ Hidden' = HiddenFor(t)'
  <2>1. LockInv' /\ \A u \in Thread : u # t => thread'[u].pc \in Quiet
    BY <1>2, <1>3, Zenon DEF TableInv
  <2> QED BY <2>1, TableThen, Zenon
<1>5. TheTable' = <<playedCard1, playedCard2>> /\ Hidden' = {}
  BY <1>3, <1>4, Zenon DEF TableFor, HiddenFor, WarPc, ShowPc
<1>6. \A p : FindCardsByPlayer(p)' = FindCardsByPlayer(p) /\ Unplayed(p)' = Unplayed(p)
  BY Zenon DEF FindCardsByPlayer, Unplayed
<1>7. Half1' = Half1 /\ Half2' = Half2
  BY Zenon DEF Half1, Half2
<1>8. Rest1' = Rest1 /\ Left2' = Left2 /\ Rest2' = Left2
  BY <1>5, <1>7, Zenon DEF Rest1, Left2, Rest2
<1>9. Knows(t)'
  <2>1. Knows(t) /\ thread[t].pc \notin {"turn", "reveal"}
    BY Zenon DEF RulesInv, WarPc
  <2>2. thread[t].last => Unplayed(Player2) \subseteq {}
    BY <1>1, <2>1, ZenonT(40) DEF Knows
  <2>3. playedCard1' = playedCard1 /\ playedCard2' = playedCard2
    BY Zenon DEF played
  <2>4. PICK w : w = thread'[t].warCards /\ w = <<playedCard1, playedCard2>>
    BY <1>3, Zenon
  <2>5. /\ Len(w) \in 2..(2 + 2 * WarDraws) /\ Len(w) # 2 + 2 * WarDraws
        /\ w[1] = playedCard1 /\ w[2] = playedCard2
    <3>1. Len(w) = 2 /\ w[1] = playedCard1 /\ w[2] = playedCard2
      BY <2>4, SMT, Z3
    <3>2. 2 \in 2..(2 + 2 * WarDraws) /\ 2 # 2 + 2 * WarDraws
      BY CardsThreadsAssumption, SMT, Z3
    <3> QED BY <3>1, <3>2, ZenonT(40)
  <2> QED BY <1>3, <1>6, <2>2, <2>3, <2>4, <2>5, ZenonT(40) DEF Knows
<1>10. ASSUME Level' PROVE RulesInv'
  <2>1. /\ thread'[t].op \in {"play1", "play2"} => Player(thread'[t].op) \in buttons
        /\ player2Turn' => player2Turn \/ Player1 \in buttons
        /\ \A u \in Thread : u # t => thread[u].pc \in Quiet /\ thread'[u] = thread[u]
        /\ \A c \in Card : isPlayed[c] => isPlayed'[c]
    BY <1>1, <1>2, <1>3, Zenon DEF turns
  <2> QED BY <1>9, <1>10, <2>1, RulesStepOf, ZenonT(40)
<1> QED BY <1>5, <1>6, <1>7, <1>8, <1>10, ZenonT(40)
=============================================================================

------------------------------ MODULE WarRules ------------------------------
(***************************************************************************)
(* The game of War as the rules on the start page (templates/index.html)   *)
(* tell it, without tables, threads, sessions or deal orders: cards move   *)
(* from a stock to a hand, from a hand to the table, and from the table to *)
(* a pile.  WarRunsOut follows CardsService, because the page says nothing *)
(* of a war that runs out of cards.                                        *)
(***************************************************************************)
EXTENDS Integers, Sequences, FiniteSets, Functions

CONSTANTS
    Card, Rank, HalfDeck, WarDraws,
    First, Second, Even     \* what may be announced

VARIABLES
    stock1, stock2,     \* the halves of the deck, not yet dealt
    hand1, hand2,       \* sets of cards
    table,              \* the cards on the table, as they were put down
    stake,              \* the cards that tied wars have added, for the winner
    pile1, pile2,       \* sets of captured cards
    verdicts            \* the announcements

vars == <<stock1, stock2, hand1, hand2, table, stake, pile1, pile2, verdicts>>

\* The deck is divided evenly between the players.
Init ==
    /\ stock1 \cup stock2 = Card
    /\ stock1 \cap stock2 = {}
    /\ Cardinality(stock1) = HalfDeck /\ Cardinality(stock2) = HalfDeck
    /\ hand1 = {} /\ hand2 = {}
    /\ table = <<>> /\ stake = {}
    /\ pile1 = {} /\ pile2 = {}
    /\ verdicts = <<>>

\* Cards of a player's half come to the player's hand, all or some.
Deal1 ==
    /\ hand1 \subseteq hand1' /\ hand1' \subseteq hand1 \cup stock1
    /\ stock1' = stock1 \ hand1'
    /\ UNCHANGED <<stock2, hand2, table, stake, pile1, pile2, verdicts>>
Deal2 ==
    /\ hand2 \subseteq hand2' /\ hand2' \subseteq hand2 \cup stock2
    /\ stock2' = stock2 \ hand2'
    /\ UNCHANGED <<stock1, hand1, table, stake, pile1, pile2, verdicts>>

\* The winner is the player who captured more cards.
Verdict ==
    IF Cardinality(pile1) > Cardinality(pile2) THEN First
    ELSE IF Cardinality(pile1) < Cardinality(pile2) THEN Second
    ELSE Even

\* The winner is announced when both hands are empty, if at all, and at most
\* twice by one step.
MayAnnounce ==
    \E n \in 0..2 :
        /\ verdicts' = verdicts \o [i \in 1..n |-> Verdict']
        /\ n > 0 => hand1' = {} /\ hand2' = {}

Announce ==
    /\ verdicts' = Append(verdicts, Verdict)
    /\ hand1 = {} /\ hand2 = {} /\ table = <<>>
    /\ UNCHANGED <<stock1, stock2, hand1, hand2, table, stake, pile1, pile2>>

\* The cards, all of the table, go to one player's pile with the stake.
Take1(cards) ==
    /\ pile1' = pile1 \cup cards \cup stake /\ pile2' = pile2
    /\ table' = <<>> /\ stake' = {}
Take2(cards) ==
    /\ pile2' = pile2 \cup cards \cup stake /\ pile1' = pile1
    /\ table' = <<>> /\ stake' = {}

Reveal1 ==
    /\ table = <<>>
    /\ \E card \in hand1 : hand1' = hand1 \ {card} /\ table' = <<card>>
    /\ UNCHANGED <<stock1, stock2, hand2, stake, pile1, pile2, verdicts>>

\* The higher card collects both; equal cards are the start of a war.
Reveal2 ==
    /\ Len(table) = 1
    /\ \E card \in hand2 :
         /\ hand2' = hand2 \ {card}
         /\ \/ Rank[table[1]] > Rank[card] /\ Take1({table[1], card})
            \/ Rank[table[1]] < Rank[card] /\ Take2({table[1], card})
            \/ /\ Rank[table[1]] = Rank[card]
               /\ table' = <<table[1], card>>
               /\ UNCHANGED <<stake, pile1, pile2>>
    /\ MayAnnounce
    /\ UNCHANGED <<stock1, stock2, hand1>>

AtWar == Len(table) >= 2
AllDrawn == Len(table) = 2 + 2 * WarDraws

\* Player 1 and player 2 put down a card each, in turn.
WarDraw ==
    /\ AtWar /\ ~AllDrawn
    /\ \/ /\ Len(table) % 2 = 0
          /\ \E card \in hand1 :
                hand1' = hand1 \ {card} /\ table' = Append(table, card)
          /\ hand2' = hand2
       \/ /\ Len(table) % 2 = 1
          /\ \E card \in hand2 :
                hand2' = hand2 \ {card} /\ table' = Append(table, card)
          /\ hand1' = hand1
    /\ UNCHANGED <<stock1, stock2, stake, pile1, pile2, verdicts>>

\* The higher of the last two cards wins all the cards in the war.
WarDecided ==
    /\ AllDrawn
    /\ \/ Rank[table[Len(table) - 1]] > Rank[table[Len(table)]] /\ Take1(Range(table))
       \/ Rank[table[Len(table) - 1]] < Rank[table[Len(table)]] /\ Take2(Range(table))
    /\ MayAnnounce
    /\ UNCHANGED <<stock1, stock2, hand1, hand2>>

Tied == AllDrawn /\ Rank[table[Len(table) - 1]] = Rank[table[Len(table)]]

\* They tie too: another war, whose winner takes all the cards.
WarTied ==
    /\ Tied
    /\ table' = SubSeq(table, 1, 2)
    /\ stake' = stake \cup Range(SubSeq(table, 3, Len(table)))
    /\ UNCHANGED <<stock1, stock2, hand1, hand2, pile1, pile2, verdicts>>

\* A player cannot draw, of which the page says nothing: the player who is
\* ahead takes the table, nobody if the piles are equal, and the game ends.
WarRunsOut ==
    /\ AtWar /\ ~AllDrawn
    /\ hand1 = {} /\ hand2 = {}
    /\ \/ Verdict = First /\ Take1(Range(table))
       \/ Verdict = Second /\ Take2(Range(table))
       \/ Verdict = Even /\ table' = <<>> /\ stake' = {} /\ UNCHANGED <<pile1, pile2>>
    /\ MayAnnounce
    /\ UNCHANGED <<stock1, stock2, hand1, hand2>>

Next ==
    \/ Deal1 \/ Deal2 \/ Reveal1 \/ Reveal2
    \/ WarDraw \/ WarDecided \/ WarTied \/ WarRunsOut
    \/ Announce

Spec == Init /\ [][Next]_vars

-----------------------------------------------------------------------------
\* Not a rule of the page: a tied war is fought again, but the cards it has
\* drawn leave the game.  It is what CardsService.war does instead of WarTied.
TieForfeits ==
    /\ Tied
    /\ table' = SubSeq(table, 1, 2)
    /\ UNCHANGED <<stock1, stock2, hand1, hand2, stake, pile1, pile2, verdicts>>

NextButTies == Next \/ TieForfeits

SpecButTies == Init /\ [][NextButTies]_vars
=============================================================================

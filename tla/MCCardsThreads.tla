--------------------------- MODULE MCCardsThreads ---------------------------
(***************************************************************************)
(* Values for CardsThreads: a deck of six cards.                           *)
(***************************************************************************)
EXTENDS CardsThreads

Deck6 == <<1, 2, 3, 4, 5, 6>>
Card6 == 1..6
\* findAll in insertion order, or with the rows of the first half, which
\* dealCards1 has updated, after the others.
InOrder6 == {Deck6}
Moved6 == {Deck6, <<4, 5, 6, 1, 2, 3>>}

\* A list of any length left as it is, turned round, or cut after its first card.
SomeShuffles ==
    UNION {{[i \in 1..n |-> i], [i \in 1..n |-> n + 1 - i], [i \in 1..n |-> 1 + (i % n)]} :
           n \in 0..6}

\* With one draw in a war, the ways to shuffle the halves give rounds and wars
\* won by either player, a round after a war, a war that ties and is decided by
\* the war after it, and a war that ties and then runs out of cards.
Rank6 == [c \in Card6 |-> IF c = 3 THEN 3 ELSE IF c = 6 THEN 4 ELSE 2]
=============================================================================

----------------------------- MODULE MCGameServer -----------------------------
(***************************************************************************)
(* Values for GameServer: a deck of four cards, of which each player is    *)
(* dealt two.  Card 4 is the higher one: a round without it is a war,      *)
(* which, with one draw, whoever holds card 4 wins.                        *)
(***************************************************************************)
EXTENDS GameServer, TLC

Card4 == 1..4
Rank4 == [c \in Card4 |-> IF c = 4 THEN 3 ELSE 2]

\* findAll in insertion order, or with the rows of the first half, which
\* dealCards1 has updated, after the others.
InOrder4 == {<<1, 2, 3, 4>>}
Moved4 == InOrder4 \cup {<<3, 4, 1, 2>>}
Unshuffled2 == {[i \in 1..2 |-> i]}

\* Browsers are interchangeable.
BrowserSymmetry == Permutations(Session)
=============================================================================

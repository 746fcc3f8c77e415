----------------------------- MODULE MCBrowser -----------------------------
(***************************************************************************)
(* Values for Browser: a deck of two cards, one for each seat.             *)
(***************************************************************************)
EXTENDS Browser, TLC

Card2 == 1..2
Rank2 == [c \in Card2 |-> c]
InOrder2 == {<<1, 2>>}
Unshuffled1 == {<<1>>}

BrowserSymmetry == Permutations(Browsers)
=============================================================================

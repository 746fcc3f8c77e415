---------------------------- MODULE MCGameThreads ----------------------------
(***************************************************************************)
(* Values for GameThreads: a deck of two cards, one for each seat.         *)
(***************************************************************************)
EXTENDS GameThreads, TLC

Card2 == 1..2
Rank2 == [c \in Card2 |-> c]
AnyOrder2 == {<<1, 2>>, <<2, 1>>}
Unshuffled1 == {<<1>>}

\* Threads and browsers are interchangeable.
Symmetry == Permutations(Thread) \cup Permutations(Session)
=============================================================================

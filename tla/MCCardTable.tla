----------------------------- MODULE MCCardTable -----------------------------
(***************************************************************************)
(* Values for CardTable.  Deck8 is the eight-card deck that                *)
(* V2__InsertIntoTables.sql keeps, commented out, beside the full one.     *)
(***************************************************************************)
EXTENDS CardTable

Deck4 == <<"2H", "3H", "2D", "3D">>
Deck8 == <<"2H", "3H", "2D", "3D", "2C", "3C", "2S", "3S">>
Twos == {"2H", "2D", "2C", "2S"}

Card4 == Range(Deck4)
Card8 == Range(Deck8)
Rank4 == [c \in Card4 |-> IF c \in Twos THEN 2 ELSE 3]
Rank8 == [c \in Card8 |-> IF c \in Twos THEN 2 ELSE 3]

\* findAll in insertion order, and in any order.
InOrder4 == {Deck4}
InOrder8 == {Deck8}
AnyOrder4 == Bijection(1..4, Card4)

Shuffles2 == Bijection(1..2, 1..2)
Shuffles4 == Bijection(1..4, 1..4)
=============================================================================

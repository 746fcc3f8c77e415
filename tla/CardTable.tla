------------------------------ MODULE CardTable ------------------------------
(***************************************************************************)
(* One game between two seated players, who stay: what CardsService does   *)
(* for them when it runs one handler at a time.  The two deal requests     *)
(* that a click on "Start Game" sends may be handled in either order, a    *)
(* play may come between them, and a reloaded page may send them again.    *)
(***************************************************************************)
EXTENDS CardsService

CONSTANTS
    Player1, Player2, Game,     \* the seated players and their game
    Session1, Session2,         \* their browsers
    Username1, Username2,       \* the names they typed
    MaxDeals                    \* bound on the number of deal requests

ASSUME CardTableAssumption ==
    /\ Player1 \in PlayerId /\ Player2 \in PlayerId /\ Player1 # Player2
    /\ Session1 \in Session /\ Session2 \in Session /\ Session1 # Session2
    /\ Username1 \in Name /\ Username2 \in Name
    /\ Game \in GameId
    /\ MaxDeals \in Nat

VARIABLE deals      \* deal requests handled so far

vars == <<tables, service, deals>>

SeatedPlayers ==
    [p \in {Player1, Player2} |->
        IF p = Player1 THEN [username |-> Username1, sessionId |-> Session1]
        ELSE [username |-> Username2, sessionId |-> Session2]]

SeatedGame ==
    [g \in {Game} |-> [player1 |-> Player1, player2 |-> Player2,
                       winner |-> NoPlayer, gameState |-> "NEW_GAME"]]

Init ==
    /\ playerEntity = SeatedPlayers
    /\ gameEntity = SeatedGame
    /\ SeededCards
    /\ ServiceInit
    /\ winnerTopic = <<>>
    /\ deals = 0

Deal ==
    /\ deals < MaxDeals
    /\ DealCards1(Session1) \/ DealCards2(Session2)
    /\ deals' = deals + 1

Play == PlayCard1(Player1) \/ PlayCard2(Player1, Player2, Game)

Next == Deal \/ ((Play \/ War) /\ UNCHANGED deals)

\* The thread that runs war() keeps running; players need not click.
Spec == Init /\ [][Next]_vars /\ WF_vars(War /\ UNCHANGED deals)

\* The same table on a server that may be restarted at any point.
NextRestart == Next \/ (Restart /\ UNCHANGED deals)
SpecRestart == Init /\ [][NextRestart]_vars /\ WF_vars(War /\ UNCHANGED deals)

-----------------------------------------------------------------------------
(* Safety.                                                                 *)

Dealt == FindCardsByPlayer(Player1) # {} /\ FindCardsByPlayer(Player2) # {}

\* Once both deals are handled, each player owns half of the deck
\* (dealCards1 and dealCards2 each call findAll on their own).
DeckDividedEvenly ==
    Dealt => /\ Cardinality(FindCardsByPlayer(Player1)) = HalfDeck
             /\ Cardinality(FindCardsByPlayer(Player2)) = HalfDeck

\* The two hands shrink in step through rounds, wars and repeated deals:
\* between rounds they are equal, and while player 1's card waits player 2
\* has one more.
HandsInStep ==
    Dealt /\ Idle =>
        Cardinality(Unplayed(Player2)) =
            Cardinality(Unplayed(Player1)) + (IF player2Turn THEN 1 ELSE 0)

\* A winner is sent only when neither player has a card left, although
\* playCard2 looks at one hand only and war() at whoever runs out.
WinnerOnlyAtEnd ==
    Idle /\ winnerTopic # <<>> =>
        Unplayed(Player1) = {} /\ Unplayed(Player2) = {}

\* The winner sent last is the one the final piles show, although
\* declareWinnerAndAddWarCards decides before it adds the war cards and
\* playCard2 may decide a second time.
Verdict ==
    IF Len(player1CapturedCards) > Len(player2CapturedCards) THEN Username1
    ELSE IF Len(player1CapturedCards) < Len(player2CapturedCards) THEN Username2
    ELSE Tie
WinnerMatchesPiles ==
    Idle /\ winnerTopic # <<>> => winnerTopic[Len(winnerTopic)] = Verdict

Lead == Len(player1CapturedCards) - Len(player2CapturedCards)
LeadKept ==
    ~Idle /\ Len(winnerTopic') > Len(winnerTopic) =>
         /\ Lead > 0 => Lead' > 0
         /\ Lead < 0 => Lead' < 0
         /\ Lead = 0 => Lead' = 0

\* A war that ends because a hand is empty changes nothing about who is
\* ahead: the cards of the war go to the player who leads, never to the other.
LeaderKeepsLead == [][LeadKept]_vars

\* Player 1 is never asked to play with an empty hand while player 2 still
\* has cards, from which point no request changes anything any more.
NoStrandedHand ==
    ~(Dealt /\ Idle /\ player1Turn
        /\ Unplayed(Player1) = {} /\ Unplayed(Player2) # {})

\* When both hands are gone, the winner has been sent.
WinnerDeclared ==
    Dealt /\ Idle /\ Unplayed(Player1) = {} /\ Unplayed(Player2) = {}
        => winnerTopic # <<>>

-----------------------------------------------------------------------------
(* Why the hands stay in step: findAll always returns one order, so player *)
(* 1 can only ever be dealt its first half and player 2 its second.        *)

TheOrder == CHOOSE order \in Orders : TRUE
StableOrder == Orders = {TheOrder}

Half1 == Range(FirstHalf(TheOrder))
Half2 == Range(SecondHalf(TheOrder))

Left(half) == {c \in half : ~isPlayed[c]}

StepInv ==
    /\ playerEntity = SeatedPlayers /\ gameEntity = SeatedGame
    /\ FindCardsByPlayer(Player1) \in {{}, Half1}
    /\ FindCardsByPlayer(Player2) \in {{}, Half2}
    /\ player1Turn = ~player2Turn
    /\ player2Turn => FindCardsByPlayer(Player1) = Half1
    /\ Idle => Cardinality(Left(Half2)) =
                   Cardinality(Left(Half1)) + (IF player2Turn THEN 1 ELSE 0)
    /\ ~Idle => /\ call.player1Id = Player1 /\ call.player2Id = Player2
                /\ call.gameId = Game
                /\ FindCardsByPlayer(Player2) = Half2
                /\ Cardinality(Left(Half2)) =
                       Cardinality(Left(Half1)) + (Len(warCards) % 2)
                /\ call.lastCard => Left(Half2) = {}
    /\ winnerTopic # <<>> => Left(Half1) = {} /\ Left(Half2) = {}

\* A half that was not dealt is all there, a war keeps its first two cards and
\* runs before any winner is sent, and one that starts with player 2's last
\* card never draws.
RulesInv ==
    /\ ServiceInv /\ StepInv
    /\ FindCardsByPlayer(Player1) = {} => Left(Half1) = Half1
    /\ FindCardsByPlayer(Player2) = {} => Left(Half2) = Half2
    /\ ~Idle => /\ Len(warCards) >= 2
                /\ warCards[1] = playedCard1 /\ warCards[2] = playedCard2
                /\ winnerTopic = <<>>
                /\ call.lastCard => Len(warCards) = 2
    /\ WinnerMatchesPiles

-----------------------------------------------------------------------------
(* Refinement: with one order, the table plays the game of WarRules, but   *)
(* for the cards of tied wars.                                             *)

Rules == INSTANCE WarRules WITH
    First <- Username1, Second <- Username2, Even <- Tie,
    stock1 <- Half1 \ FindCardsByPlayer(Player1),
    stock2 <- Half2 \ FindCardsByPlayer(Player2),
    hand1 <- Unplayed(Player1),
    hand2 <- Unplayed(Player2),
    table <- IF ~Idle THEN warCards
             ELSE IF player2Turn THEN <<playedCard1>> ELSE <<>>,
    stake <- {},
    pile1 <- Range(player1CapturedCards),
    pile2 <- Range(player2CapturedCards),
    verdicts <- winnerTopic

\* Everything CardsService does at the table is a step of the game that the
\* start page describes.
FollowsRules == Rules!Spec

\* Everything CardsService does at the table is a step of the game (who may
\* reveal, who collects what, how a war goes, when and what is announced),
\* except that war() forgets the cards of a war that ties, and nothing else.
FollowsRulesButTies == Rules!SpecButTies

-----------------------------------------------------------------------------
(* Liveness.                                                               *)

\* A war ends, however often its cards tie: war() stops calling itself.
WarEnds == ~Idle ~> Idle
=============================================================================

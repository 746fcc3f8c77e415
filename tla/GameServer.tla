----------------------------- MODULE GameServer -----------------------------
(***************************************************************************)
(* The whole server and the requests it gets.  Requests come from pages: a *)
(* page keeps the ids and sessions it was rendered with, and any page ever *)
(* rendered may be clicked at any time.                                    *)
(***************************************************************************)
EXTENDS GameService

VARIABLE pages          \* the game pages rendered so far

vars == <<tables, service, ids, refused, pages>>

\* Every variable of the server has its type.
ServerTypeOK ==
    /\ TypeOK
    /\ nextPlayerId \in Nat /\ nextGameId \in Nat
    /\ refused \subseteq PlayerId
    /\ pages \subseteq Page

Init == GamesInit /\ pages = {}

-----------------------------------------------------------------------------
\* Mutant: the page of a game without a first player is rendered too.
GamePlayPage_AnySeats(g) ==
    /\ Idle /\ g \in DOMAIN gameEntity
    /\ pages' = pages \cup {PageOf(g)}
    /\ UNCHANGED <<tables, service, ids, refused>>

GamePlayPage(g) ==
    /\ Idle /\ Renders(g)
    /\ pages' = pages \cup {PageOf(g)}
    /\ UNCHANGED <<tables, service, ids, refused>>

\* The "Start Game" button tells its player to wait until the page shows a
\* second player; the "play" button of player 1 does not look.
CardsRequest(page) ==
    \/ /\ page.player2 # NoPlayer
       /\ \/ DealCards1(page.player1Session)
          \/ DealCards2(page.player2Session)
          \/ PlayCard2(page.player1, page.player2, page.gameId)
    \/ PlayCard1(page.player1)

\* The "Leave" button: it leaves for player 1 on player 1's browser and for
\* player 2 on any other.
LeaveRequest(page) ==
    \/ LeaveGame(page.gameId, page.player1Session)
    \/ LeaveGame(page.gameId, page.player2Session)

\* What the server does while everybody stays.
Stay ==
    \/ (\E s \in Session, name \in Name : CreateGameAndPlayer(name, s)) /\ UNCHANGED pages
    \/ (\E g \in GameId, s \in Session, name \in Name : JoinGame(g, name, s))
          /\ UNCHANGED pages
    \/ \E g \in GameId : GamePlayPage(g)
    \/ (\E page \in pages : CardsRequest(page)) /\ UNCHANGED <<ids, refused, pages>>
    \/ War /\ UNCHANGED <<ids, refused, pages>>

Next ==
    \/ Stay
    \/ (\E page \in pages : LeaveRequest(page)) /\ UNCHANGED pages
    \/ Restart /\ UNCHANGED <<ids, refused, pages>>

Spec == Init /\ [][Next]_vars

\* The same server while nobody leaves and nothing is restarted: every page
\* shows players who are there.
SpecStay == Init /\ [][Stay]_vars

-----------------------------------------------------------------------------
(* Properties of the steps of the server.                                  *)

\* When a seat is vacated the leave runs to its end (the delete of the
\* player's row is not stopped by a foreign key): the deck is unplayed, the
\* piles are empty and it is player 1's turn.
VacatesAndResets ==
    \A g \in DOMAIN gameEntity : \A p \in Seats(g) :
        (g \notin DOMAIN gameEntity' \/ p \notin Seats(g)')
        => /\ p \notin DOMAIN playerEntity'
           /\ \A c \in Card : ~isPlayed'[c] /\ cardPlayers'[c] # p
           /\ player1CapturedCards' = <<>> /\ player2CapturedCards' = <<>>
           /\ player1Turn' /\ ~player2Turn'
LeaveCompletes == [][VacatesAndResets]_vars

\* A card that a seated player holds passes only to that player's opponent
\* or to nobody, as long as every browser has one player: a game is played
\* with its own cards.
CardsStayInGame ==
    [][(\A s \in Session : AtMostOneRow(s)) =>
       \A g \in DOMAIN gameEntity : \A c \in Card :
          cardPlayers[c] \in Seats(g) /\ g \in DOMAIN gameEntity'
          => cardPlayers'[c] \in Seats(g)' \cup Seats(g) \cup {NoPlayer}]_vars

-----------------------------------------------------------------------------
\* Why they hold: GamesInv, and a page that keeps only ids and sessions.
ServerInv == GamesInv /\ pages \subseteq Page
=============================================================================

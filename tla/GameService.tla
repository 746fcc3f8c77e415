----------------------------- MODULE GameService -----------------------------
(***************************************************************************)
(* Services/GameService.java, PlayerService.java and the message handlers  *)
(* of GameController.java, on top of CardsService: creating, joining and   *)
(* leaving, with several games that share the one deck and the one         *)
(* CardsService.  Each handler is one action.                              *)
(***************************************************************************)
EXTENDS CardsService

CONSTANTS
    NoSession,      \* the session of an empty seat
    DeckShuffles    \* the decks Collections.shuffle may leave in reDealCards

ASSUME GameServiceAssumption ==
    /\ PlayerId \subseteq Nat /\ GameId \subseteq Nat
    /\ NoSession \notin Session
    /\ DeckShuffles \subseteq Bijection(1..(2 * HalfDeck), Card)

VARIABLES
    nextPlayerId, nextGameId,   \* the bigserial sequences; PlayerId and
                                \* GameId bound them
    refused                     \* history: players whose join was refused

ids == <<nextPlayerId, nextGameId>>

\* The server before its first request.
GamesInit ==
    /\ playerEntity = <<>> /\ gameEntity = <<>>
    /\ SeededCards
    /\ ServiceInit
    /\ winnerTopic = <<>>
    /\ nextPlayerId = 1 /\ nextGameId = 1
    /\ refused = {}

Insert(table, key, row) ==
    [k \in DOMAIN table \cup {key} |-> IF k = key THEN row ELSE table[k]]
Delete(table, key) == Restrict(table, DOMAIN table \ {key})

Seats(g) == {gameEntity[g].player1, gameEntity[g].player2} \ {NoPlayer}

-----------------------------------------------------------------------------
(* Creating and joining.                                                   *)

\* createNewPlayer inserts a row whatever rows the session already has.
CreateNewPlayer(name, s) ==
    /\ nextPlayerId \in PlayerId
    /\ playerEntity' = Insert(playerEntity, nextPlayerId,
                              [username |-> name, sessionId |-> s])
    /\ nextPlayerId' = nextPlayerId + 1

CreateGameAndPlayer(name, s) ==
    /\ Idle
    /\ CreateNewPlayer(name, s)
    /\ nextGameId \in GameId
    /\ gameEntity' = Insert(gameEntity, nextGameId,
                            [player1 |-> nextPlayerId, player2 |-> NoPlayer,
                             winner |-> NoPlayer, gameState |-> "NEW_GAME"])
    /\ nextGameId' = nextGameId + 1
    /\ UNCHANGED <<cardPlayers, isPlayed, dealOrder, service, refused>>

\* The player's row is inserted before the service looks at the seats.  A
\* refusal is a null game, on which the controller throws: the row stays.
JoinGame(g, name, s) ==
    /\ Idle
    /\ g \in DOMAIN gameEntity
    /\ CreateNewPlayer(name, s)
    /\ IF gameEntity[g].player1 # NoPlayer /\ gameEntity[g].player2 = NoPlayer
       THEN /\ gameEntity' = [gameEntity EXCEPT ![g].player2 = nextPlayerId]
            /\ UNCHANGED refused
       ELSE /\ refused' = refused \cup {nextPlayerId}
            /\ UNCHANGED gameEntity
    /\ UNCHANGED <<cardPlayers, isPlayed, dealOrder, service, nextGameId>>

-----------------------------------------------------------------------------
(* Leaving.                                                                *)

\* reDealCards: the whole deck is shuffled, unplayed, half to each seat, the
\* empty seat's half to nobody; cards of other games too.
ReDealCards(player1, player2) ==
    \E deck \in DeckShuffles :
        LET At(c) == CHOOSE i \in 1..(2 * HalfDeck) : deck[i] = c
        IN /\ cardPlayers' = [c \in Card |-> IF At(c) <= HalfDeck THEN player1
                                             ELSE player2]
           /\ dealOrder' = [c \in Card |-> (At(c) - 1) % HalfDeck]
           /\ isPlayed' = [c \in Card |-> FALSE]

\* Mutant: the player who leaves is recorded as the winner.
WithoutPlayer_WinnerLeft(game, p) ==
    IF p = game.player1
    THEN [game EXCEPT !.player1 = NoPlayer, !.winner = p]
    ELSE IF p = game.player2
    THEN [game EXCEPT !.player2 = NoPlayer, !.winner = p]
    ELSE game

\* The game's seats once player p has been taken out, and the winner.
WithoutPlayer(game, p) ==
    IF p = game.player1
    THEN [game EXCEPT !.player1 = NoPlayer, !.winner = game.player2]
    ELSE IF p = game.player2
    THEN [game EXCEPT !.player2 = NoPlayer, !.winner = game.player1]
    ELSE game

\* A foreign key of V1__CreateSchema.sql refers to row p.
References(p, owner, games) ==
    \/ \E c \in Card : owner[c] = p
    \/ \E g \in DOMAIN games :
          p \in {games[g].player1, games[g].player2, games[g].winner}

\* leaveGame.  When the player's row is still referred to, delete throws and
\* the resets after it do not happen.
LeaveGame(g, s) ==
    /\ Idle
    /\ g \in DOMAIN gameEntity
    /\ AtMostOneRow(s)
    /\ PlayersBySession(s) # {}
    /\ LET p == FindPlayerBySessionId(s)
           game == WithoutPlayer(gameEntity[g], p)
       IN /\ IF p \in Seats(g)
             THEN ReDealCards(game.player1, game.player2)
             ELSE UNCHANGED <<cardPlayers, isPlayed, dealOrder>>
          /\ gameEntity' = IF game.player1 = NoPlayer /\ game.player2 = NoPlayer
                           THEN Delete(gameEntity, g)
                           ELSE [gameEntity EXCEPT
                                    ![g] = [game EXCEPT !.gameState = "GAME_ENDED"]]
          /\ IF References(p, cardPlayers', gameEntity')
             THEN UNCHANGED <<playerEntity, turns, piles>>
             ELSE /\ playerEntity' = Delete(playerEntity, p)
                  /\ ResetTurn
                  /\ ResetCapturedCards
    /\ UNCHANGED <<playedCard1, playedCard2, warCards, call, winnerTopic, ids,
                   refused>>

-----------------------------------------------------------------------------
(* The game page: the ids and the sessions of the seats.                   *)

Page == [gameId : GameId, player1 : PlayerId, player2 : PlayerId \cup {NoPlayer},
         player1Session : Session, player2Session : Session \cup {NoSession}]

\* gamePlayPage throws when the first seat is empty.
Renders(g) == g \in DOMAIN gameEntity /\ gameEntity[g].player1 # NoPlayer

SessionOf(p) == IF p = NoPlayer THEN NoSession ELSE playerEntity[p].sessionId

PageOf(g) ==
    [gameId |-> g,
     player1 |-> gameEntity[g].player1,
     player2 |-> gameEntity[g].player2,
     player1Session |-> SessionOf(gameEntity[g].player1),
     player2Session |-> SessionOf(gameEntity[g].player2)]

-----------------------------------------------------------------------------
(* Properties.                                                             *)

\* A game is never left without players, its two players differ, its winner
\* is one of them, and every player it names has a row: what joins, refused
\* joins and leaves write to game_entity and player_entity fits together.
GameRowsCoherent ==
    \A g \in DOMAIN gameEntity :
        /\ Seats(g) # {}
        /\ gameEntity[g].player1 # gameEntity[g].player2
        /\ gameEntity[g].winner \in Seats(g) \cup {NoPlayer}
        /\ Seats(g) \subseteq DOMAIN playerEntity

\* Besides, a player sits in one seat of one game at most, and a game whose first
\* player has left, so that gamePlayPage cannot render it, is over and won by
\* the second.
SeatsCoherent ==
    /\ GameRowsCoherent
    /\ \A g, h \in DOMAIN gameEntity : g # h => Seats(g) \cap Seats(h) = {}
    /\ \A g \in DOMAIN gameEntity : gameEntity[g].player1 = NoPlayer =>
          /\ gameEntity[g].gameState = "GAME_ENDED"
          /\ gameEntity[g].winner = gameEntity[g].player2

\* No row of player_entity is left behind by a leave: a row that has no seat
\* is one that joinGame inserted before it refused the seat.
RowsAccountedFor ==
    \A p \in DOMAIN playerEntity :
        p \in refused \/ \E g \in DOMAIN gameEntity : p \in Seats(g)

-----------------------------------------------------------------------------
(* Why they hold: a handler that runs alone keeps all of this.             *)

\* The keys still to come from the sequences are in no row.
IdsFresh ==
    /\ \A p \in DOMAIN playerEntity \cup refused : p < nextPlayerId
    /\ \A g \in DOMAIN gameEntity : g < nextGameId

GamesInv ==
    /\ ServiceInv
    /\ nextPlayerId \in Nat /\ nextGameId \in Nat /\ refused \subseteq PlayerId
    /\ IdsFresh
    /\ SeatsCoherent
    /\ RowsAccountedFor
=============================================================================

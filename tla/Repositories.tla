---------------------------- MODULE Repositories ----------------------------
(***************************************************************************)
(* The three tables of the schema (db/migration/V1__CreateSchema.sql) and  *)
(* the queries of the Spring Data repositories over them.  No service      *)
(* opens a transaction, so every repository call commits on its own and    *)
(* the objects it returns are detached: only a save changes a table.       *)
(***************************************************************************)
EXTENDS Integers, Sequences, FiniteSets, Functions

CONSTANTS
    Card,       \* the rows of card_entity, inserted by V2
    Rank,       \* their rank column, never updated
    PlayerId,   \* keys of player_entity
    GameId,     \* keys of game_entity
    Session,    \* values of session_id, one per browser
    Name,       \* values of username
    NoCard, NoPlayer, NoGame    \* null

ASSUME RepositoriesAssumption ==
    /\ IsFiniteSet(Card)
    /\ Rank \in [Card -> Nat]
    /\ NoCard \notin Card
    /\ NoPlayer \notin PlayerId
    /\ NoGame \notin GameId

VARIABLES
    playerEntity,   \* player_entity: the rows present, by player_id
    gameEntity,     \* game_entity: the rows present, by game_id
    cardPlayers,    \* card_entity.player_id (field players of CardsEntity)
    isPlayed,       \* card_entity.is_played
    dealOrder       \* card_entity.deal_order

tables == <<playerEntity, gameEntity, cardPlayers, isPlayed, dealOrder>>

PlayersEntity == [username : Name, sessionId : Session]

\* The only states the code ever stores, of the seven of Enums/GameState.
GameState == {"NEW_GAME", "GAME_ENDED"}

GameEntity == [player1 : PlayerId \cup {NoPlayer},
               player2 : PlayerId \cup {NoPlayer},
               winner  : PlayerId \cup {NoPlayer},
               gameState : GameState]

TablesTypeOK ==
    /\ DOMAIN playerEntity \subseteq PlayerId
    /\ playerEntity \in [DOMAIN playerEntity -> PlayersEntity]
    /\ DOMAIN gameEntity \subseteq GameId
    /\ gameEntity \in [DOMAIN gameEntity -> GameEntity]
    /\ cardPlayers \in [Card -> PlayerId \cup {NoPlayer}]
    /\ isPlayed \in [Card -> BOOLEAN]
    /\ dealOrder \in [Card -> Int]

\* card_entity as V2__InsertIntoTables.sql leaves it: nobody's, not played.
SeededCards ==
    /\ cardPlayers = [c \in Card |-> NoPlayer]
    /\ isPlayed = [c \in Card |-> FALSE]
    /\ dealOrder = [c \in Card |-> -1]

-----------------------------------------------------------------------------
(* PlayerRepository.                                                       *)

PlayersBySession(s) ==
    {p \in DOMAIN playerEntity : playerEntity[p].sessionId = s}

\* findPlayerBySessionId returns one row or null, and throws when several
\* rows match: an action that calls it is guarded by AtMostOneRow.
AtMostOneRow(s) == Cardinality(PlayersBySession(s)) <= 1

FindPlayerBySessionId(s) ==
    IF PlayersBySession(s) = {} THEN NoPlayer
    ELSE CHOOSE p \in PlayersBySession(s) : TRUE

-----------------------------------------------------------------------------
(* CardsRepository.                                                        *)

FindCardsByPlayer(p) == {c \in Card : cardPlayers[c] = p}

Unplayed(p) == {c \in FindCardsByPlayer(p) : ~isPlayed[c]}

\* Mutant: the loop forgets to look at is_played.
NextCards_Replayed(p) ==
    {c \in FindCardsByPlayer(p) :
        \A d \in FindCardsByPlayer(p) : dealOrder[c] <= dealOrder[d]}

\* The card a loop over findCardsByPlayers_PlayerIdOrderByDealOrder finds
\* first unplayed.  Several candidates when the query's order has ties.
NextCards(p) ==
    {c \in Unplayed(p) : \A d \in Unplayed(p) : dealOrder[c] <= dealOrder[d]}
=============================================================================

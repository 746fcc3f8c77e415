----------------------------- MODULE GameThreads -----------------------------
(***************************************************************************)
(* createGameAndPlayer, joinGame and leaveGame on the thread pool of       *)
(* clientInboundChannel: several handlers run at the same time and take    *)
(* one step per repository call, each of which commits on its own, and the *)
(* server may stop between any two.  A handler works on the objects its    *)
(* queries returned; a save writes all their columns.  The deals and plays *)
(* of CardsService run on the same pool; of them only what they write to   *)
(* card_entity is modelled here, the rest in CardsThreads.                 *)
(***************************************************************************)
EXTENDS GameService

CONSTANT Thread

VARIABLES
    thread,     \* the handler each thread runs: arguments, locals and place
    disturbed,  \* history: has a leave ever run beside a join or another leave,
                \* or a leave or a join beside a deal or a play?
    shown       \* the pages rendered so far: the game id with the session in
                \* each seat, for which the buttons of the page send requests

vars == <<tables, service, ids, refused, thread, disturbed, shown>>
cards == <<cardPlayers, isPlayed, dealOrder>>

NoHandler == [op |-> "none", pc |-> "idle"]
CreateHandler == [op : {"create"}, pc : {"game"}, player : PlayerId]
JoinHandler ==
    [op : {"join"}, pc : {"player", "read", "save"}, gameId : GameId,
     row : PlayersEntity, player : PlayerId \cup {NoPlayer},
     game : GameEntity \cup {NoGame}]
LeaveHandler ==
    [op : {"leave"}, pc : {"find", "deal", "game", "delete"},
     gameId : GameId, session : Session, player : PlayerId \cup {NoPlayer},
     game : GameEntity, todo : Seq(Card)]
CardRow == [card : Card, order : Int, isPlayed : BOOLEAN]
CardsHandler ==
    [op : {"deal", "play"}, pc : {"card"}, player : PlayerId \cup {NoPlayer},
     todo : Seq(CardRow)]
Handler ==
    {NoHandler} \cup CreateHandler \cup JoinHandler \cup LeaveHandler \cup CardsHandler

\* Every table, field and local variable has its type.
GameThreadsTypeOK ==
    /\ TypeOK
    /\ nextPlayerId \in Nat /\ nextGameId \in Nat
    /\ refused \subseteq PlayerId
    /\ disturbed \in BOOLEAN
    /\ shown \subseteq GameId \X Session \X {1, 2}
    /\ thread \in [Thread -> Handler]

Init ==
    /\ GamesInit
    /\ thread = [t \in Thread |-> NoHandler]
    /\ disturbed = FALSE /\ shown = {}

At(t, op, pc) == thread[t].op = op /\ thread[t].pc = pc
Running(ops) == \E t \in Thread : thread[t].op \in ops
Return(t) == thread' = [thread EXCEPT ![t] = NoHandler]

\* The rows that the foreign keys of a game row name.
Named(game) == {game.player1, game.player2, game.winner} \ {NoPlayer}

\* Mutant: nothing checks that the players of the row exist.
SavesGame_NoKeys(g, game) ==
    /\ g \in DOMAIN gameEntity
    /\ gameEntity' = [gameEntity EXCEPT ![g] = game]
    /\ UNCHANGED nextGameId

\* gameRepository.save(game) with a game that findById returned: it overwrites
\* the row.  If the row has been deleted since, it is a new row.
SavesGame(g, game) ==
    /\ Named(game) \subseteq DOMAIN playerEntity
    /\ \/ /\ g \in DOMAIN gameEntity
          /\ gameEntity' = [gameEntity EXCEPT ![g] = game]
          /\ UNCHANGED nextGameId
       \/ /\ g \notin DOMAIN gameEntity
          /\ nextGameId \in GameId
          /\ gameEntity' = Insert(gameEntity, nextGameId, game)
          /\ nextGameId' = nextGameId + 1

\* It throws when the row names a player whose row is gone.
SaveThrows(game) == ~(Named(game) \subseteq DOMAIN playerEntity)

-----------------------------------------------------------------------------
(* createGameAndPlayer.                                                    *)

ReceiveCreate(t, name, s) ==
    /\ thread[t] = NoHandler
    /\ CreateNewPlayer(name, s)
    /\ thread' = [thread EXCEPT ![t] =
                    [op |-> "create", pc |-> "game", player |-> nextPlayerId]]
    /\ UNCHANGED <<gameEntity, cards, service, nextGameId, refused, disturbed, shown>>

CreateNewGame(t) ==
    /\ At(t, "create", "game")
    /\ nextGameId \in GameId
    /\ nextGameId' = nextGameId + 1
    /\ gameEntity' = IF thread[t].player \notin DOMAIN playerEntity THEN gameEntity
                     ELSE Insert(gameEntity, nextGameId,
                                 [player1 |-> thread[t].player, player2 |-> NoPlayer,
                                  winner |-> NoPlayer, gameState |-> "NEW_GAME"])
    /\ Return(t)
    /\ UNCHANGED <<playerEntity, cards, service, nextPlayerId, refused, disturbed, shown>>

-----------------------------------------------------------------------------
(* joinGame.                                                               *)

\* The controller looks whether the game exists.
ReceiveJoin(t, g, name, s) ==
    /\ thread[t] = NoHandler
    /\ g \in DOMAIN gameEntity
    /\ thread' = [thread EXCEPT ![t] =
                    [op |-> "join", pc |-> "player", gameId |-> g,
                     row |-> [username |-> name, sessionId |-> s],
                     player |-> NoPlayer, game |-> NoGame]]
    /\ disturbed' = (disturbed \/ Running({"leave", "deal", "play"}))
    /\ UNCHANGED <<tables, service, ids, refused, shown>>

\* Mutant: the row that createNewPlayer returns is dropped.
JoinCreatesPlayer_Dropped(t) ==
    /\ At(t, "join", "player")
    /\ CreateNewPlayer(thread[t].row.username, thread[t].row.sessionId)
    /\ thread' = [thread EXCEPT ![t].pc = "read"]
    /\ UNCHANGED <<gameEntity, cards, service, nextGameId, refused, disturbed, shown>>

JoinCreatesPlayer(t) ==
    /\ At(t, "join", "player")
    /\ CreateNewPlayer(thread[t].row.username, thread[t].row.sessionId)
    /\ thread' = [thread EXCEPT ![t].player = nextPlayerId, ![t].pc = "read"]
    /\ UNCHANGED <<gameEntity, cards, service, nextGameId, refused, disturbed, shown>>

\* The service reads the game again and looks at its seats.
JoinReads(t) ==
    /\ At(t, "join", "read")
    /\ LET g == thread[t].gameId
       IN IF /\ g \in DOMAIN gameEntity
             /\ gameEntity[g].player1 # NoPlayer /\ gameEntity[g].player2 = NoPlayer
          THEN /\ thread' = [thread EXCEPT
                    ![t].game = [gameEntity[g] EXCEPT !.player2 = thread[t].player],
                    ![t].pc = "save"]
               /\ UNCHANGED refused
          ELSE /\ refused' = refused \cup {thread[t].player}
               /\ Return(t)
    /\ UNCHANGED <<tables, service, ids, disturbed, shown>>

JoinSaves(t) ==
    /\ At(t, "join", "save")
    /\ Return(t)
    /\ \/ /\ SavesGame(thread[t].gameId, thread[t].game)
          /\ UNCHANGED refused
       \/ /\ SaveThrows(thread[t].game)
          /\ refused' = refused \cup {thread[t].player}
          /\ UNCHANGED <<gameEntity, nextGameId>>
    /\ UNCHANGED <<playerEntity, cards, service, nextPlayerId, disturbed, shown>>

-----------------------------------------------------------------------------
(* leaveGame.                                                              *)

GamePlayPage(g) ==
    /\ Renders(g)
    /\ shown' = shown \cup {<<g, SessionOf(p), IF p = gameEntity[g].player1 THEN 1 ELSE 2>> :
                               p \in Seats(g)}
    /\ UNCHANGED <<tables, service, ids, refused, thread, disturbed>>

ReceiveLeave(t, g, s) ==
    /\ thread[t] = NoHandler
    /\ \E seat \in {1, 2} : <<g, s, seat>> \in shown
    /\ g \in DOMAIN gameEntity
    /\ thread' = [thread EXCEPT ![t] =
                    [op |-> "leave", pc |-> "find", gameId |-> g, session |-> s,
                     player |-> NoPlayer, game |-> gameEntity[g], todo |-> <<>>]]
    /\ disturbed' = (disturbed \/ Running({"join", "leave", "deal", "play"}))
    /\ UNCHANGED <<tables, service, ids, refused, shown>>

\* Mutant: the deck is not dealt again when nobody is left to play.
LeaveFinds_LastKeeps(t) ==
    /\ At(t, "leave", "find")
    /\ Cardinality(PlayersBySession(thread[t].session)) = 1
    /\ LET p == FindPlayerBySessionId(thread[t].session)
           game == WithoutPlayer(thread[t].game, p)
           deals == {game.player1, game.player2} # {NoPlayer}
       IN \E deck \in IF deals THEN DeckShuffles ELSE {<<>>} :
            thread' = [thread EXCEPT
               ![t].player = p, ![t].game = game,
               ![t].todo = deck, ![t].pc = IF deals THEN "deal" ELSE "game"]
    /\ UNCHANGED <<tables, service, ids, refused, disturbed, shown>>

\* findPlayerBySessionId, and the seats without that player; reDealCards
\* shuffles the deck.
LeaveFinds(t) ==
    /\ At(t, "leave", "find")
    /\ IF Cardinality(PlayersBySession(thread[t].session)) # 1 THEN Return(t)
       ELSE LET p == FindPlayerBySessionId(thread[t].session)
                game == thread[t].game
                seated == p \in {game.player1, game.player2}
            IN \E deck \in IF seated THEN DeckShuffles ELSE {<<>>} :
                 thread' = [thread EXCEPT
                    ![t].player = p, ![t].game = WithoutPlayer(game, p),
                    ![t].todo = deck, ![t].pc = IF seated THEN "deal" ELSE "game"]
    /\ UNCHANGED <<tables, service, ids, refused, disturbed, shown>>

\* reDealCards saves the deck card by card, the first half for player 1.  A
\* save throws when its player's row is gone.
LeaveDeals(t) ==
    /\ At(t, "leave", "deal")
    /\ LET todo == thread[t].todo
           i == 2 * HalfDeck - Len(todo)
           owner == IF i < HalfDeck THEN thread[t].game.player1
                    ELSE thread[t].game.player2
       IN IF owner # NoPlayer /\ owner \notin DOMAIN playerEntity
          THEN Return(t) /\ UNCHANGED cards
          ELSE /\ cardPlayers' = [cardPlayers EXCEPT ![Head(todo)] = owner]
               /\ dealOrder' = [dealOrder EXCEPT ![Head(todo)] = i % HalfDeck]
               /\ isPlayed' = [isPlayed EXCEPT ![Head(todo)] = FALSE]
               /\ thread' = [thread EXCEPT
                     ![t].todo = Tail(todo),
                     ![t].pc = IF Len(todo) = 1 THEN "game" ELSE "deal"]
    /\ UNCHANGED <<playerEntity, gameEntity, service, ids, refused, disturbed, shown>>

\* The game without seats is deleted, if it is still there; else it is saved.
LeaveSaves(t) ==
    /\ At(t, "leave", "game")
    /\ LET g == thread[t].gameId
           game == [thread[t].game EXCEPT !.gameState = "GAME_ENDED"]
           next == thread' = [thread EXCEPT ![t].pc = "delete"]
       IN \/ /\ game.player1 = NoPlayer /\ game.player2 = NoPlayer
             /\ gameEntity' = Delete(gameEntity, g)
             /\ next /\ UNCHANGED nextGameId
          \/ /\ {game.player1, game.player2} # {NoPlayer}
             /\ SavesGame(g, game) /\ next
          \/ /\ {game.player1, game.player2} # {NoPlayer}
             /\ SaveThrows(game)
             /\ Return(t) /\ UNCHANGED <<gameEntity, nextGameId>>
    /\ UNCHANGED <<playerEntity, cards, service, nextPlayerId, refused, disturbed, shown>>

Unreset == UNCHANGED <<playedCard1, playedCard2, warCards, call, winnerTopic>>

\* playerRepository.delete throws while a foreign key refers to the row;
\* otherwise the turn and the piles are reset, in memory.
LeaveDeletes(t) ==
    /\ At(t, "leave", "delete")
    /\ Return(t)
    /\ IF References(thread[t].player, cardPlayers, gameEntity)
       THEN UNCHANGED <<playerEntity, service>>
       ELSE /\ playerEntity' = Delete(playerEntity, thread[t].player)
            /\ ResetTurn /\ ResetCapturedCards /\ Unreset
    /\ UNCHANGED <<gameEntity, cards, ids, refused, disturbed, shown>>

-----------------------------------------------------------------------------
(* The deals and plays.                                                    *)

CardsHandlerFor(t, op, player, rows) ==
    /\ thread' = [thread EXCEPT ![t] =
                    [op |-> op, pc |-> "card", player |-> player, todo |-> rows]]
    /\ disturbed' = (disturbed \/ Running({"join", "leave"}))
    /\ UNCHANGED <<tables, service, ids, refused, shown>>

\* The shuffled half: the deal order is the place, the flag is as findAll read it.
DealtRows(half, shuffle) ==
    [i \in 1..HalfDeck |-> [card |-> half[shuffle[i]], order |-> i - 1,
                            isPlayed |-> isPlayed[half[shuffle[i]]]]]

\* dealCards1 and dealCards2, up to their loop: "Start Game" sends the sessions
\* of a page that shows two players.  What two deals at a time do to the list
\* they share is the subject of CardsThreads; here each has its own.
ReceiveDeal(t, g, s, seat) ==
    /\ thread[t] = NoHandler
    /\ <<g, s, seat>> \in shown /\ \E other \in Session : <<g, other, 2>> \in shown
    /\ AtMostOneRow(s)
    /\ \E order \in Orders, shuffle \in Shuffles :
         CardsHandlerFor(t, "deal", FindPlayerBySessionId(s),
             DealtRows(IF seat = 1 THEN FirstHalf(order) ELSE SecondHalf(order), shuffle))

\* playCard1, playCard2 and drawNextCard, up to their save, when the turn is
\* the player's.
ReceivePlay(t, p) ==
    /\ thread[t] = NoHandler
    /\ p \in DOMAIN playerEntity
    /\ \E card \in NextCards(p) :
         CardsHandlerFor(t, "play", p,
                         <<[card |-> card, order |-> dealOrder[card], isPlayed |-> TRUE]>>)

\* save(card).  It throws when the row of the card's player is gone.
SavesCard(t) ==
    /\ thread[t].op \in {"deal", "play"}
    /\ LET row == Head(thread[t].todo)
           player == thread[t].player
       IN IF player # NoPlayer /\ player \notin DOMAIN playerEntity
          THEN Return(t) /\ UNCHANGED cards
          ELSE /\ cardPlayers' = [cardPlayers EXCEPT ![row.card] = player]
               /\ dealOrder' = [dealOrder EXCEPT ![row.card] = row.order]
               /\ isPlayed' = [isPlayed EXCEPT ![row.card] = row.isPlayed]
               /\ IF Len(thread[t].todo) = 1 THEN Return(t)
                  ELSE thread' = [thread EXCEPT ![t].todo = Tail(@)]
    /\ UNCHANGED <<playerEntity, gameEntity, service, ids, refused, disturbed, shown>>

-----------------------------------------------------------------------------
\* The server stops and starts again: what its handlers had not saved is lost.
Crash ==
    /\ Restart
    /\ thread' = [t \in Thread |-> NoHandler]
    /\ UNCHANGED <<ids, refused, disturbed, shown>>

Receive(t) ==
    \/ \E s \in Session, name \in Name : ReceiveCreate(t, name, s)
    \/ \E g \in GameId, s \in Session, name \in Name : ReceiveJoin(t, g, name, s)
    \/ \E g \in GameId, s \in Session : ReceiveLeave(t, g, s)
    \/ \E g \in GameId, s \in Session, seat \in {1, 2} : ReceiveDeal(t, g, s, seat)
    \/ \E p \in PlayerId : ReceivePlay(t, p)

Run(t) ==
    \/ CreateNewGame(t)
    \/ JoinCreatesPlayer(t) \/ JoinReads(t) \/ JoinSaves(t)
    \/ LeaveFinds(t) \/ LeaveDeals(t) \/ LeaveSaves(t) \/ LeaveDeletes(t)
    \/ SavesCard(t)

Next ==
    \/ \E t \in Thread : Receive(t) \/ Run(t)
    \/ \E g \in GameId : GamePlayPage(g)
    \/ Crash

Spec == Init /\ [][Next]_vars

-----------------------------------------------------------------------------
(* Properties.                                                             *)

Vacates(g, p) ==
    p \in Seats(g) /\ (g \notin DOMAIN gameEntity' \/ p \notin Seats(g)')

VacatesEmptyHanded ==
    ~disturbed =>
        \A g \in DOMAIN gameEntity, p \in DOMAIN playerEntity :
            Vacates(g, p) => \A c \in Card : cardPlayers'[c] # p

\* Whoever loses a seat holds no card any more, as long as no leave has run
\* beside another leave, a join, a deal or a play, and no join beside a deal or
\* a play: leaveGame deals the deck again before it saves the game, so a stop
\* after any of its saves leaves rows from which the leave can be done again,
\* and of two joins at a time the one that loses its seat has no cards yet.
VacatedHoldsNothing == [][VacatesEmptyHanded]_vars

\* A seat that joinGame or createNewGame has given is the player's until that
\* player leaves: joinGame takes the second seat only when it is empty.
SeatIsKept ==
    [][\A g \in DOMAIN gameEntity, p \in DOMAIN playerEntity :
         Vacates(g, p) =>
            \E t \in Thread : At(t, "leave", "game") /\ thread[t].player = p]_vars

-----------------------------------------------------------------------------
(* Why they hold.  A handler may write what it read long ago, and a row    *)
(* that another has deleted since; so it is the rows in the hands of the   *)
(* handlers, besides those of the tables, that have to fit together.       *)

RowCoherent(game) ==
    /\ game.player1 # game.player2
    /\ game.winner \in {game.player1, game.player2, NoPlayer}

Joining(t) == thread[t].op = "join" /\ thread[t].pc \in {"read", "save"}

\* What a handler has read or is going to save fits together, but for the row
\* of a game that its last player is leaving.
RowInHand(t) ==
    /\ thread[t].op = "create" => thread[t].player < nextPlayerId
    /\ Joining(t) => thread[t].player \in PlayerId /\ thread[t].player < nextPlayerId
    /\ At(t, "join", "save") =>
          /\ thread[t].game \in GameEntity /\ RowCoherent(thread[t].game)
          /\ thread[t].game.player2 = thread[t].player
    /\ thread[t].op = "leave" =>
          \/ RowCoherent(thread[t].game)
          \/ /\ thread[t].pc # "find"
             /\ thread[t].game.player1 = NoPlayer /\ thread[t].game.player2 = NoPlayer
    /\ At(t, "leave", "deal") => thread[t].todo # <<>>
    /\ thread[t].op \in {"deal", "play"} =>
          /\ thread[t].todo # <<>>
          /\ thread[t].player = NoPlayer \/ thread[t].player < nextPlayerId

\* The first seat that a handler has read or is going to save.
FirstSeat(t) ==
    IF thread[t].op = "create" THEN thread[t].player
    ELSE IF thread[t].op = "leave" \/ At(t, "join", "save") THEN thread[t].game.player1
    ELSE NoPlayer

\* Whoever is joining has no first seat, in a table or in the hands of a
\* handler: the two players of a game will differ.
NewcomersNew ==
    /\ \A u \in Thread : FirstSeat(u) # NoPlayer => FirstSeat(u) < nextPlayerId
    /\ \A t \in Thread : Joining(t) =>
          /\ \A g \in DOMAIN gameEntity : gameEntity[g].player1 # thread[t].player
          /\ \A u \in Thread : FirstSeat(u) # thread[t].player

RowsInv ==
    /\ GameThreadsTypeOK
    /\ IdsFresh
    /\ GameRowsCoherent
    /\ \A t \in Thread : RowInHand(t)
    /\ NewcomersNew

-----------------------------------------------------------------------------
(* And the cards, as long as the leaves run alone and the joins without    *)
(* deals and plays.                                                        *)

HoldsNothing(p) == \A c \in Card : cardPlayers[c] # p

\* A join has read the row as it still is, but for another join's player.
JoinUndisturbed(t) ==
    /\ thread[t].op = "join" => \A u \in Thread : thread[u].op \notin {"deal", "play"}
    /\ Joining(t) => HoldsNothing(thread[t].player)
    /\ At(t, "join", "save") =>
          /\ thread[t].gameId \in DOMAIN gameEntity
          /\ thread[t].game.player1 = gameEntity[thread[t].gameId].player1
          /\ \/ gameEntity[thread[t].gameId].player2 = NoPlayer
             \/ HoldsNothing(gameEntity[thread[t].gameId].player2)

\* A leave has read the row as it still is; what it has dealt so far is not
\* the leaver's.
LeaveUndisturbed(t) ==
    thread[t].op = "leave" =>
      /\ \A u \in Thread \ {t} : thread[u].op \notin {"join", "leave", "deal", "play"}
      /\ thread[t].pc # "delete" =>
           LET row == gameEntity[thread[t].gameId]
           IN /\ thread[t].gameId \in DOMAIN gameEntity
              /\ thread[t].pc = "find" => thread[t].game = row
              /\ thread[t].pc # "find" =>
                   /\ thread[t].player \in PlayerId
                   /\ thread[t].game = WithoutPlayer(row, thread[t].player)
                   /\ thread[t].player \in {row.player1, row.player2} =>
                        \A c \in Card \ Range(thread[t].todo) :
                           cardPlayers[c] # thread[t].player
              /\ thread[t].pc = "game" => thread[t].todo = <<>>

VacatedInv ==
    /\ RowsInv
    /\ \A c \in Card : cardPlayers[c] # NoPlayer => cardPlayers[c] < nextPlayerId
    /\ ~disturbed => \A t \in Thread : JoinUndisturbed(t) /\ LeaveUndisturbed(t)
=============================================================================

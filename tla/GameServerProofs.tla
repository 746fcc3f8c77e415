-------------------------- MODULE GameServerProofs --------------------------
(***************************************************************************)
(* The whole server, for any number of games, players, browsers and pages, *)
(* any deck and restarts: the invariants of the services and of the rows,  *)
(* and that a leave runs to its end.                                       *)
(***************************************************************************)
EXTENDS GameServer, ServiceProofs

\* The invariant holds before the first request.
LEMMA ServerInitInv == Init => ServerInv
BY GamesInitInv DEF Init, ServerInv

\* Every request, every step of war() and a restart keep the invariant, and a
\* step that takes a player from a seat is a leave that runs to its end.
LEMMA ServerStep ==
    ServerInv /\ [Next]_vars => ServerInv' /\ [VacatesAndResets]_vars
<1> SUFFICES ASSUME ServerInv, [Next]_vars
             PROVE  ServerInv' /\ [VacatesAndResets]_vars
  OBVIOUS
<1>0. GamesInv /\ pages \subseteq Page
  BY DEF ServerInv
<1>1. ASSUME NEW s \in Session, NEW name \in Name,
             CreateGameAndPlayer(name, s), UNCHANGED pages
      PROVE  ServerInv' /\ VacatesAndResets
  <2>1. GamesInv'
    BY <1>0, <1>1, CreateGameInv
  <2>2. /\ DOMAIN gameEntity \subseteq DOMAIN gameEntity'
        /\ \A g \in DOMAIN gameEntity : Seats(g)' = Seats(g)
    <3>1. nextGameId \notin DOMAIN gameEntity
      BY <1>0, GameServiceAssumption DEF GamesInv, IdsFresh
    <3> QED BY <1>1, <3>1 DEF CreateGameAndPlayer, Insert, Seats
  <2> QED BY <1>0, <1>1, <2>1, <2>2 DEF ServerInv, VacatesAndResets
<1>2. ASSUME NEW g \in GameId, NEW s \in Session, NEW name \in Name,
             JoinGame(g, name, s), UNCHANGED pages
      PROVE  ServerInv' /\ VacatesAndResets
  BY <1>0, <1>2, JoinGameInv, Zenon DEF ServerInv, VacatesAndResets
<1>3. ASSUME NEW g \in GameId, GamePlayPage(g)
      PROVE  ServerInv' /\ VacatesAndResets
  <2>1. UNCHANGED <<tables, service, ids, refused>>
    BY <1>3 DEF GamePlayPage
  <2>3. GamesInv'
    BY <1>0, <2>1, ServerUnchangedInv
  <2>4. pages' \subseteq Page
    BY <1>0, <1>3, PageOfType DEF GamePlayPage
  <2> QED BY <2>1, <2>3, <2>4 DEF ServerInv, VacatesAndResets, Seats, tables
<1>4. ASSUME NEW g, NEW s, LeaveGame(g, s), UNCHANGED pages
      PROVE  ServerInv' /\ VacatesAndResets
  <2>1. ServerInv'
    BY <1>0, <1>4, LeaveGameInv DEF ServerInv
  <2>2. CASE FindPlayerBySessionId(s) \in Seats(g)
    <3>1. PICK p : p = FindPlayerBySessionId(s)
      OBVIOUS
    <3>2. \A h \in DOMAIN gameEntity : \A r \in Seats(h) :
             (h \notin DOMAIN gameEntity' \/ r \notin Seats(h)') => r = p
      <4>1. /\ \A h \in DOMAIN gameEntity : h # g =>
                  h \in DOMAIN gameEntity' /\ gameEntity'[h] = gameEntity[h]
            /\ g \in DOMAIN gameEntity' => Seats(g)' = Seats(g) \ {p}
            /\ g \notin DOMAIN gameEntity' => Seats(g) = {p}
        BY <1>0, <1>4, <2>2, <3>1, LeaveSeatInv
      <4>2. \A h \in DOMAIN gameEntity : h # g => Seats(h)' = Seats(h)
        BY <4>1 DEF Seats
      <4> QED BY <4>1, <4>2
    <3>3. /\ p \notin DOMAIN playerEntity'
          /\ \A c \in Card : ~isPlayed'[c] /\ cardPlayers'[c] # p
          /\ ResetTurn /\ ResetCapturedCards
      <4>1. PICK q : q = IF p = gameEntity[g].player1 THEN gameEntity[g].player2
                         ELSE gameEntity[g].player1
        OBVIOUS
      <4>2. /\ p # NoPlayer /\ q # p
            /\ cardPlayers' \in [Card -> {q, NoPlayer}]
            /\ isPlayed' = [c \in Card |-> FALSE]
            /\ playerEntity' = Delete(playerEntity, p)
            /\ ResetTurn /\ ResetCapturedCards
        BY <1>0, <1>4, <2>2, <3>1, <4>1, LeaveSeatRows
      <4> QED BY <4>2 DEF Delete, Restrict
    <3> QED BY <2>1, <3>2, <3>3 DEF VacatesAndResets, ResetTurn, ResetCapturedCards
  <2>3. CASE FindPlayerBySessionId(s) \notin Seats(g)
    BY <1>0, <1>4, <2>1, <2>3, LeaveOtherInv DEF VacatesAndResets
  <2> QED BY <2>2, <2>3
<1>5. ASSUME UNCHANGED <<ids, refused, pages>>,
             (\E page \in pages : CardsRequest(page)) \/ War \/ Restart
      PROVE  ServerInv' /\ VacatesAndResets
  <2>1. \/ \E s : DealCards1(s) \/ DealCards2(s)
        \/ \E player1Id : PlayCard1(player1Id)
        \/ \E player1Id, player2Id \in PlayerId, gameId \in GameId :
              PlayCard2(player1Id, player2Id, gameId)
        \/ War \/ Restart
    BY <1>0, <1>5 DEF CardsRequest, Page
  <2>2. GamesInv' /\ UNCHANGED <<playerEntity, gameEntity>>
    BY <1>0, <1>5, <2>1, CardsHandlersInv
  <2> QED BY <1>0, <1>5, <2>2 DEF ServerInv, VacatesAndResets, Seats
<1>6. CASE UNCHANGED vars
  <2>1. UNCHANGED <<tables, service, ids, refused, pages>>
    BY <1>6 DEF vars
  <2>3. GamesInv'
    BY <1>0, <2>1, ServerUnchangedInv
  <2> QED BY <1>0, <1>6, <2>1, <2>3 DEF ServerInv
<1> QED BY <1>1, <1>2, <1>3, <1>4, <1>5, <1>6 DEF Next, Stay, LeaveRequest

\* Every variable of the server keeps its type.
THEOREM ServerTypeCorrect == Spec => []ServerTypeOK
<1>1. ServerInv => ServerTypeOK
  BY DEF ServerInv, GamesInv, ServiceInv, ServerTypeOK
<1> QED BY <1>1, ServerInitInv, ServerStep, PTL DEF Spec

\* No card is captured twice, although every game uses the same piles and the
\* same deck, players leave in the middle of a round and pages are stale.
THEOREM ServerCapturedOnce == Spec => []CapturedOnce
<1>1. ServerInv => CapturedOnce
  BY DEF ServerInv, GamesInv, ServiceInv
<1> QED BY <1>1, ServerInitInv, ServerStep, PTL DEF Spec

\* gameRound never compares with a card that is not on the table, although
\* another game may have changed the turn or the deck since it was revealed.
THEOREM ServerRevealedWaits == Spec => []RevealedCardWaits
<1>1. ServerInv => RevealedCardWaits
  BY DEF ServerInv, GamesInv, ServiceInv
<1> QED BY <1>1, ServerInitInv, ServerStep, PTL DEF Spec

\* The cards of a running war() repeat nowhere and are in no pile, although the
\* server restarts and another game may have dealt its cards before.
THEOREM ServerWarCardsApart == Spec => []WarCardsApart
<1>1. ServerInv => WarCardsApart
  BY DEF ServerInv, GamesInv, ServiceInv
<1> QED BY <1>1, ServerInitInv, ServerStep, PTL DEF Spec

\* The rows of games and players fit together after any creates, joins,
\* refused joins and leaves.
THEOREM ServerSeatsCoherent == Spec => []SeatsCoherent
<1>1. ServerInv => SeatsCoherent
  BY DEF ServerInv, GamesInv
<1> QED BY <1>1, ServerInitInv, ServerStep, PTL DEF Spec

\* A leave leaves no row of player_entity behind.
THEOREM ServerRowsAccountedFor == Spec => []RowsAccountedFor
<1>1. ServerInv => RowsAccountedFor
  BY DEF ServerInv, GamesInv
<1> QED BY <1>1, ServerInitInv, ServerStep, PTL DEF Spec

\* Whoever loses a seat has left, and leaveGame has run to its end: no foreign
\* key stops the delete, so the deck, the piles and the turn are reset.
THEOREM ServerLeaveCompletes == Spec => LeaveCompletes
BY ServerInitInv, ServerStep, PTL DEF Spec, LeaveCompletes
=============================================================================

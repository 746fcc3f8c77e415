-------------------------- MODULE GameThreadsProofs --------------------------
(***************************************************************************)
(* createGameAndPlayer, joinGame, leaveGame, the deals and the plays on    *)
(* any number of threads, with crashes: the rows of games and players fit  *)
(* together whatever the interleaving, and whoever loses a seat holds no   *)
(* card as long as leaves run alone and joins without deals and plays.     *)
(***************************************************************************)
EXTENDS GameThreads, SequenceTheorems, FiniteSetTheorems, TLAPS

-----------------------------------------------------------------------------
(* Numbers, sets and lists.                                                *)

\* Counting the keys that have been given out.
LEMMA Counting ==
    ASSUME NEW n \in Nat
    PROVE  /\ n + 1 \in Nat /\ n + 1 >= n /\ n < n + 1 /\ n >= n
           /\ \A m : m < n => m # n
           /\ \A m \in Nat : m < n => m < n + 1
<1>1. ~(n < n)
  OBVIOUS
<1>2. \A m : m < n => m # n
  BY <1>1, Zenon
<1> QED BY <1>2

\* One is not none.
LEMMA OneIsSome ==
    ASSUME NEW S, Cardinality(S) = 1
    PROVE  S # {}
BY FS_EmptySet

\* The rest of a list that is worked off from its head.
LEMMA WorkedOff ==
    ASSUME NEW S, NEW s \in Seq(S), s # <<>>
    PROVE  /\ Head(s) \in S /\ Tail(s) \in Seq(S)
           /\ Len(s) = 1 <=> Tail(s) = <<>>
           /\ \A c \in Range(s) : c = Head(s) \/ c \in Range(Tail(s))
<1>1. PICK n \in Nat : n = Len(s) /\ n > 0
  BY EmptySeq
<1>2. /\ Tail(s) \in Seq(S) /\ Len(Tail(s)) = n - 1 /\ Head(s) = s[1] /\ Head(s) \in S
      /\ \A j \in 1..(n - 1) : Tail(s)[j] = s[j + 1]
      /\ DOMAIN s = 1..n /\ DOMAIN Tail(s) = 1..(n - 1)
  BY <1>1, HeadTailProperties, LenProperties
<1>3. \A j \in 1..n : j = 1 \/ (j - 1 \in 1..(n - 1) /\ (j - 1) + 1 = j)
  OBVIOUS
<1>4. ASSUME NEW c \in Range(s), c # Head(s) PROVE c \in Range(Tail(s))
  <2>1. PICK j \in 1..n : c = s[j]
    BY <1>2, <1>4, Zenon DEF Range
  <2>2. j - 1 \in 1..(n - 1) /\ (j - 1) + 1 = j
    BY <1>2, <1>3, <1>4, <2>1, Zenon
  <2>3. c = Tail(s)[j - 1]
    BY <1>2, <2>1, <2>2, Zenon
  <2> QED BY <1>2, <2>2, <2>3, Zenon DEF Range
<1>5. Len(s) = 1 <=> Tail(s) = <<>>
  <2>1. Tail(s) # <<>> => Len(Tail(s)) # 0
    BY <1>2, EmptySeq
  <2>2. Tail(s) = <<>> => Len(Tail(s)) = 0
    BY EmptySeq, Zenon
  <2>3. n = 1 <=> n - 1 = 0
    OBVIOUS
  <2> QED BY <1>1, <1>2, <2>1, <2>2, <2>3, Zenon
<1> QED BY <1>2, <1>4, <1>5, Zenon

-----------------------------------------------------------------------------
(* Threads.                                                                *)

\* The operation tells which locals a handler has.
LEMMA HandlerKind ==
    ASSUME NEW h \in Handler
    PROVE  /\ h.op = "create" => h \in CreateHandler
           /\ h.op = "join" => h \in JoinHandler
           /\ h.op = "leave" => h \in LeaveHandler
           /\ h.op \in {"deal", "play"} => h \in CardsHandler
           /\ h.op \notin {"create", "join", "leave", "deal", "play"} => h = NoHandler
BY DEF Handler, NoHandler, CreateHandler, JoinHandler, LeaveHandler, CardsHandler

\* A thread that does nothing has no row in its hands.
LEMMA NoHandlerInHand ==
    ASSUME NEW t \in Thread, thread'[t] = NoHandler
    PROVE  RowInHand(t)' /\ FirstSeat(t)' = NoPlayer /\ ~Joining(t)'
BY DEF RowInHand, FirstSeat, Joining, At, NoHandler

\* One thread takes a step.
LEMMA OneThread ==
    ASSUME thread \in [Thread -> Handler], NEW t \in Thread, NEW h \in Handler,
           thread' = [thread EXCEPT ![t] = h]
    PROVE  /\ thread' \in [Thread -> Handler] /\ thread'[t] = h
           /\ \A u \in Thread : u # t => thread'[u] = thread[u]
OBVIOUS

LEMMA Returns ==
    ASSUME thread \in [Thread -> Handler], NEW t \in Thread, Return(t)
    PROVE  /\ thread' \in [Thread -> Handler] /\ thread'[t] = NoHandler
           /\ \A u \in Thread : u # t => thread'[u] = thread[u]
BY OneThread DEF Return, Handler

\* The other threads keep what they have in their hands.
LEMMA OthersInHand ==
    ASSUME RowsInv, NEW t \in Thread, RowInHand(t)',
           nextPlayerId' \in Nat, nextPlayerId' >= nextPlayerId,
           \A u \in Thread : u # t => thread'[u] = thread[u]
    PROVE  \A u \in Thread : RowInHand(u)'
<1> SUFFICES ASSUME NEW u \in Thread, u # t PROVE RowInHand(u)'
  OBVIOUS
<1>1. RowInHand(u) /\ thread'[u] = thread[u] /\ thread[u] \in Handler
  BY DEF RowsInv, GameThreadsTypeOK
<1>2. \A p \in PlayerId : p < nextPlayerId => p < nextPlayerId'
  BY GameServiceAssumption DEF RowsInv, GameThreadsTypeOK
<1>3. thread[u].op = "create" => thread[u].player \in PlayerId
  BY <1>1, HandlerKind DEF CreateHandler
<1>4. thread[u].op \in {"deal", "play"} => thread[u].player \in PlayerId \cup {NoPlayer}
  BY <1>1, HandlerKind DEF CardsHandler
<1> QED BY <1>1, <1>2, <1>3, <1>4 DEF RowInHand, Joining, At

\* The tables name only players whose keys have been given out.
LEMMA NamedKeys ==
    ASSUME RowsInv
    PROVE  /\ \A p \in DOMAIN playerEntity : p \in PlayerId /\ p \in Nat /\ p < nextPlayerId
           /\ \A g \in DOMAIN gameEntity :
                 /\ g \in GameId /\ g \in Nat /\ g < nextGameId
                 /\ gameEntity[g] \in GameEntity /\ RowCoherent(gameEntity[g])
                 /\ gameEntity[g].player1 # NoPlayer =>
                       /\ gameEntity[g].player1 \in DOMAIN playerEntity
                       /\ gameEntity[g].player1 < nextPlayerId
                 /\ gameEntity[g].player2 # NoPlayer =>
                       gameEntity[g].player2 \in DOMAIN playerEntity
<1>1. /\ \A p \in DOMAIN playerEntity : p \in PlayerId /\ p < nextPlayerId
      /\ \A g \in DOMAIN gameEntity :
            g \in GameId /\ g < nextGameId /\ gameEntity[g] \in GameEntity
  BY DEF RowsInv, GameThreadsTypeOK, TypeOK, TablesTypeOK, IdsFresh
<1>2. \A p \in PlayerId \cup GameId : p \in Nat
  BY GameServiceAssumption
<1>3. \A g \in DOMAIN gameEntity :
         /\ gameEntity[g].player1 # gameEntity[g].player2
         /\ gameEntity[g].winner \in {gameEntity[g].player1, gameEntity[g].player2, NoPlayer}
         /\ {gameEntity[g].player1, gameEntity[g].player2} \ {NoPlayer} \subseteq DOMAIN playerEntity
  BY DEF RowsInv, GameRowsCoherent, Seats
<1> QED BY <1>1, <1>2, <1>3 DEF RowCoherent

\* Coherent rows that name existing players are what GameRowsCoherent asks for.
LEMMA CoherentRows ==
    ASSUME \A g \in DOMAIN gameEntity' :
              /\ RowCoherent(gameEntity'[g])
              /\ {gameEntity'[g].player1, gameEntity'[g].player2} \ {NoPlayer}
                    \subseteq DOMAIN playerEntity'
    PROVE  GameRowsCoherent'
BY DEF GameRowsCoherent, Seats, RowCoherent

-----------------------------------------------------------------------------
(* First seats.                                                            *)

\* No step but createNewPlayer makes a first seat that was nowhere before.
LEMMA SeatsMove ==
    ASSUME RowsInv, NEW t \in Thread, nextPlayerId' = nextPlayerId,
           \A u \in Thread : u # t => thread'[u] = thread[u],
           \A g \in DOMAIN gameEntity' :
              \/ gameEntity'[g].player1 = FirstSeat(t)
              \/ gameEntity'[g].player1 = NoPlayer
              \/ \E h \in DOMAIN gameEntity : gameEntity'[g].player1 = gameEntity[h].player1,
           \/ FirstSeat(t)' = FirstSeat(t)
           \/ FirstSeat(t)' = NoPlayer
           \/ \E h \in DOMAIN gameEntity : FirstSeat(t)' = gameEntity[h].player1,
           Joining(t)' => Joining(t) /\ thread'[t].player = thread[t].player
    PROVE  NewcomersNew'
<1>1. \A u \in Thread : u # t => FirstSeat(u)' = FirstSeat(u)
  BY DEF FirstSeat, At
<1>2. \A u \in Thread : Joining(u)' => Joining(u) /\ thread'[u].player = thread[u].player
  BY DEF Joining
<1>3. \A u \in Thread : Joining(u) => thread[u].player # NoPlayer
  BY RepositoriesAssumption DEF RowsInv, RowInHand
<1>4. \A h \in DOMAIN gameEntity :
         gameEntity[h].player1 # NoPlayer => gameEntity[h].player1 < nextPlayerId
  BY NamedKeys
<1>5. NewcomersNew
  BY DEF RowsInv
<1>6. \A u \in Thread : FirstSeat(u)' # NoPlayer => FirstSeat(u)' < nextPlayerId'
  BY <1>1, <1>4, <1>5 DEF NewcomersNew
<1>7. ASSUME NEW u \in Thread, Joining(u)'
      PROVE  /\ \A g \in DOMAIN gameEntity' : gameEntity'[g].player1 # thread'[u].player
             /\ \A v \in Thread : FirstSeat(v)' # thread'[u].player
  <2>1. PICK p : p = thread[u].player
    OBVIOUS
  <2>2. /\ p # NoPlayer /\ thread'[u].player = p
        /\ \A g \in DOMAIN gameEntity : gameEntity[g].player1 # p
        /\ \A v \in Thread : FirstSeat(v) # p
    BY <1>2, <1>3, <1>5, <1>7, <2>1 DEF NewcomersNew
  <2> QED BY <1>1, <2>2
<1> QED BY <1>6, <1>7 DEF NewcomersNew

\* createNewPlayer gives out a key that nobody has had.
LEMMA NewKey ==
    ASSUME RowsInv, NEW name \in Name, NEW s \in Session, CreateNewPlayer(name, s)
    PROVE  /\ DOMAIN playerEntity' = DOMAIN playerEntity \cup {nextPlayerId}
           /\ DOMAIN playerEntity' \subseteq PlayerId
           /\ playerEntity' \in [DOMAIN playerEntity' -> PlayersEntity]
           /\ nextPlayerId \in PlayerId /\ nextPlayerId \in Nat /\ nextPlayerId # NoPlayer
           /\ nextPlayerId' = nextPlayerId + 1 /\ nextPlayerId' \in Nat
           /\ \A p \in DOMAIN playerEntity' \cup refused : p < nextPlayerId'
           /\ \A g \in DOMAIN gameEntity : gameEntity[g].player1 # nextPlayerId
           /\ \A u \in Thread : FirstSeat(u) # nextPlayerId
           /\ \A u \in Thread : Joining(u) => thread[u].player # nextPlayerId
<1>1. PICK n \in Nat : n = nextPlayerId
  BY DEF RowsInv, GameThreadsTypeOK
<1>2. /\ n \in PlayerId /\ nextPlayerId' = n + 1 /\ n # NoPlayer
      /\ playerEntity' = Insert(playerEntity, n, [username |-> name, sessionId |-> s])
  BY <1>1, RepositoriesAssumption DEF CreateNewPlayer
<1>3. [username |-> name, sessionId |-> s] \in PlayersEntity
  BY DEF PlayersEntity
<1>4. \A p \in DOMAIN playerEntity : playerEntity[p] \in PlayersEntity /\ p \in PlayerId
  BY DEF RowsInv, GameThreadsTypeOK, TypeOK, TablesTypeOK
<1>5. DOMAIN playerEntity' = DOMAIN playerEntity \cup {n}
  BY <1>2 DEF Insert
<1>6. playerEntity' \in [DOMAIN playerEntity' -> PlayersEntity]
  BY <1>2, <1>3, <1>4, <1>5 DEF Insert
<1>7. \A p \in DOMAIN playerEntity \cup refused : p \in Nat /\ p < n
  BY <1>1, <1>4, GameServiceAssumption, Zenon DEF RowsInv, GameThreadsTypeOK, IdsFresh
<1>8. \A p \in DOMAIN playerEntity' \cup refused : p < n + 1
  BY <1>5, <1>7
<1>9. \A g \in DOMAIN gameEntity : gameEntity[g].player1 # n
  BY <1>1, <1>2, NamedKeys, Counting, Zenon
<1>10. \A u \in Thread : FirstSeat(u) # n /\ (Joining(u) => thread[u].player # n)
  BY <1>1, <1>2 DEF RowsInv, NewcomersNew, RowInHand
<1> QED BY <1>1, <1>2, <1>4, <1>5, <1>6, <1>8, <1>9, <1>10, SMT, Z3

-----------------------------------------------------------------------------
(* Saving a game.                                                          *)

\* gameRepository.save writes one row and leaves the others alone, whether the
\* row is still there or is inserted anew.
LEMMA SavesGameRows ==
    ASSUME RowsInv, NEW g, NEW game \in GameEntity, SavesGame(g, game)
    PROVE  /\ Named(game) \subseteq DOMAIN playerEntity
           /\ DOMAIN gameEntity \subseteq DOMAIN gameEntity'
           /\ DOMAIN gameEntity' \subseteq GameId
           /\ gameEntity' \in [DOMAIN gameEntity' -> GameEntity]
           /\ nextGameId' \in Nat
           /\ \A h \in DOMAIN gameEntity' :
                 /\ h < nextGameId'
                 /\ \/ gameEntity'[h] = game
                    \/ h \in DOMAIN gameEntity /\ gameEntity'[h] = gameEntity[h]
           /\ \A h \in DOMAIN gameEntity : h # g => gameEntity'[h] = gameEntity[h]
           /\ g \in DOMAIN gameEntity =>
                 DOMAIN gameEntity' = DOMAIN gameEntity /\ gameEntity'[g] = game
<1>1. PICK n \in Nat : n = nextGameId
  BY DEF RowsInv, GameThreadsTypeOK
<1>2. \A h \in DOMAIN gameEntity :
         h \in GameId /\ h \in Nat /\ h < n /\ gameEntity[h] \in GameEntity
  BY <1>1, NamedKeys
<1>3. gameEntity \in [DOMAIN gameEntity -> GameEntity]
  BY DEF RowsInv, GameThreadsTypeOK, TypeOK, TablesTypeOK
<1>4. CASE /\ g \in DOMAIN gameEntity
           /\ gameEntity' = [gameEntity EXCEPT ![g] = game]
           /\ UNCHANGED nextGameId
  BY <1>1, <1>2, <1>3, <1>4 DEF SavesGame
<1>5. CASE /\ g \notin DOMAIN gameEntity
           /\ n \in GameId
           /\ gameEntity' = Insert(gameEntity, n, game)
           /\ nextGameId' = n + 1
  <2>1. DOMAIN gameEntity' = DOMAIN gameEntity \cup {n} /\ n \notin DOMAIN gameEntity
    BY <1>2, <1>5 DEF Insert
  <2>2. /\ gameEntity'[n] = game
        /\ \A h \in DOMAIN gameEntity : gameEntity'[h] = gameEntity[h]
    BY <1>5, <2>1 DEF Insert
  <2>3. gameEntity' \in [DOMAIN gameEntity' -> GameEntity]
    BY <1>2, <1>5, <2>1 DEF Insert
  <2>4. \A h \in DOMAIN gameEntity' : h < n + 1
    BY <1>2, <2>1
  <2>5. n + 1 \in Nat
    OBVIOUS
  <2> QED BY <1>2, <1>5, <2>1, <2>2, <2>3, <2>4, <2>5, ZenonT(40) DEF SavesGame
<1> QED BY <1>1, <1>4, <1>5 DEF SavesGame

\* A row that fits together keeps the tables so when it is saved.
LEMMA SavesGameCoherent ==
    ASSUME RowsInv, NEW g, NEW game \in GameEntity, SavesGame(g, game),
           RowCoherent(game), playerEntity' = playerEntity
    PROVE  GameRowsCoherent'
<1>1. \A h \in DOMAIN gameEntity' :
         \/ gameEntity'[h] = game
         \/ h \in DOMAIN gameEntity /\ gameEntity'[h] = gameEntity[h]
  BY SavesGameRows
<1>2. {game.player1, game.player2} \ {NoPlayer} \subseteq DOMAIN playerEntity
  BY DEF SavesGame, Named
<1>3. \A h \in DOMAIN gameEntity :
         /\ RowCoherent(gameEntity[h])
         /\ {gameEntity[h].player1, gameEntity[h].player2} \ {NoPlayer} \subseteq DOMAIN playerEntity
  BY NamedKeys
<1>4. ASSUME NEW h \in DOMAIN gameEntity'
      PROVE  /\ RowCoherent(gameEntity'[h])
             /\ {gameEntity'[h].player1, gameEntity'[h].player2} \ {NoPlayer}
                   \subseteq DOMAIN playerEntity'
  <2>1. CASE gameEntity'[h] = game
    BY <1>2, <2>1
  <2>2. CASE h \in DOMAIN gameEntity /\ gameEntity'[h] = gameEntity[h]
    BY <1>3, <2>2
  <2> QED BY <1>1, <2>1, <2>2
<1> QED BY <1>4, CoherentRows

-----------------------------------------------------------------------------
(* Every step keeps RowsInv.                                               *)

\* The types, when the fields of CardsService are left alone.
LEMMA TypesKept ==
    ASSUME RowsInv, TablesTypeOK', UNCHANGED service,
           nextPlayerId' \in Nat, nextGameId' \in Nat, refused' \subseteq PlayerId,
           disturbed' \in BOOLEAN, shown' \subseteq GameId \X Session \X {1, 2},
           thread' \in [Thread -> Handler]
    PROVE  GameThreadsTypeOK'
BY DEF RowsInv, GameThreadsTypeOK, TypeOK, service, turns, piles

\* A step that writes no row of a game or player.
LEMMA HandsOnly ==
    ASSUME RowsInv, NEW t \in Thread,
           UNCHANGED <<playerEntity, gameEntity, ids, service, shown>>,
           cardPlayers' \in [Card -> PlayerId \cup {NoPlayer}],
           isPlayed' \in [Card -> BOOLEAN], dealOrder' \in [Card -> Int],
           disturbed' \in BOOLEAN,
           refused' = refused \/ (Joining(t) /\ refused' = refused \cup {thread[t].player}),
           thread' \in [Thread -> Handler],
           \A u \in Thread : u # t => thread'[u] = thread[u],
           RowInHand(t)',
           \/ FirstSeat(t)' = FirstSeat(t)
           \/ FirstSeat(t)' = NoPlayer
           \/ \E h \in DOMAIN gameEntity : FirstSeat(t)' = gameEntity[h].player1,
           Joining(t)' => Joining(t) /\ thread'[t].player = thread[t].player
    PROVE  RowsInv'
<1>1. TablesTypeOK'
  BY Zenon DEF RowsInv, GameThreadsTypeOK, TypeOK, TablesTypeOK
<1>2. UNCHANGED <<nextPlayerId, nextGameId>>
  BY DEF ids
<1>3. refused' \subseteq PlayerId /\ \A p \in refused' : p < nextPlayerId
  BY Zenon DEF RowsInv, GameThreadsTypeOK, IdsFresh, RowInHand
<1>4. GameThreadsTypeOK'
  BY <1>1, <1>2, <1>3, TypesKept, Zenon DEF RowsInv, GameThreadsTypeOK
<1>5. IdsFresh'
  BY <1>2, <1>3, Zenon DEF RowsInv, IdsFresh
<1>6. GameRowsCoherent'
  BY Zenon DEF RowsInv, GameRowsCoherent, Seats
<1>7. \A u \in Thread : RowInHand(u)'
  BY <1>2, OthersInHand DEF RowsInv, GameThreadsTypeOK
<1>8. NewcomersNew'
  BY <1>2, SeatsMove
<1> QED BY <1>4, <1>5, <1>6, <1>7, <1>8, ZenonT(40) DEF RowsInv

\* A step that creates a player's row, in the hands of the thread.
LEMMA NewPlayerRows ==
    ASSUME RowsInv, NEW t \in Thread, NEW name \in Name, NEW s \in Session,
           CreateNewPlayer(name, s),
           UNCHANGED <<gameEntity, cards, service, nextGameId, refused, disturbed, shown>>,
           thread' \in [Thread -> Handler],
           \A u \in Thread : u # t => thread'[u] = thread[u],
           RowInHand(t)', thread'[t].player = nextPlayerId,
           \/ FirstSeat(t)' = nextPlayerId /\ ~Joining(t)'
           \/ FirstSeat(t)' = NoPlayer
    PROVE  RowsInv'
<1>1. PICK n \in Nat : n = nextPlayerId
  BY DEF RowsInv, GameThreadsTypeOK
<1>2. /\ DOMAIN playerEntity' = DOMAIN playerEntity \cup {n}
      /\ DOMAIN playerEntity' \subseteq PlayerId
      /\ playerEntity' \in [DOMAIN playerEntity' -> PlayersEntity]
      /\ n \in PlayerId /\ n # NoPlayer /\ nextPlayerId' = n + 1
      /\ \A p \in DOMAIN playerEntity' \cup refused : p < n + 1
      /\ \A g \in DOMAIN gameEntity : gameEntity[g].player1 # n
      /\ \A u \in Thread : FirstSeat(u) # n /\ (Joining(u) => thread[u].player # n)
  BY <1>1, NewKey, Zenon
<1>3. TablesTypeOK'
  BY <1>2, Zenon DEF RowsInv, GameThreadsTypeOK, TypeOK, TablesTypeOK, cards
<1>4. nextPlayerId' \in Nat /\ nextPlayerId' >= nextPlayerId
  BY <1>1, <1>2, Counting, Zenon
<1>5. GameThreadsTypeOK'
  BY <1>3, <1>4, TypesKept DEF RowsInv, GameThreadsTypeOK
<1>6. IdsFresh'
  BY <1>2 DEF RowsInv, IdsFresh
<1>7. GameRowsCoherent'
  BY <1>2 DEF RowsInv, GameRowsCoherent, Seats
<1>8. \A u \in Thread : RowInHand(u)'
  BY <1>4, OthersInHand, Zenon
<1>9. NewcomersNew'
  <2>1. \A u \in Thread : u # t =>
           /\ FirstSeat(u)' = FirstSeat(u) /\ (Joining(u)' <=> Joining(u))
           /\ thread'[u].player = thread[u].player
    BY DEF FirstSeat, Joining, At
  <2>2. NewcomersNew
    BY DEF RowsInv
  <2>3. ASSUME NEW u \in Thread, FirstSeat(u) # NoPlayer PROVE FirstSeat(u) \in Nat
    <3>1. thread[u] \in Handler /\ RowInHand(u)
      BY Zenon DEF RowsInv, GameThreadsTypeOK
    <3>2. thread[u].op = "create" => thread[u].player \in PlayerId
      BY <3>1, HandlerKind, Zenon DEF CreateHandler
    <3>3. thread[u].op = "leave" \/ At(u, "join", "save") => thread[u].game \in GameEntity
      BY <3>1, HandlerKind, Zenon DEF LeaveHandler, RowInHand
    <3>4. thread[u].op = "leave" \/ At(u, "join", "save") =>
             thread[u].game.player1 \in PlayerId \cup {NoPlayer}
      BY <3>3, Zenon DEF GameEntity
    <3> QED BY <2>3, <3>2, <3>4, GameServiceAssumption, Zenon DEF FirstSeat
  <2>4. ASSUME NEW u \in Thread, FirstSeat(u)' # NoPlayer PROVE FirstSeat(u)' < n + 1
    <3>1. CASE u = t
      <4>1. FirstSeat(u)' = n
        BY <1>1, <2>4, <3>1, Zenon
      <4> QED BY <4>1, Counting, Zenon
    <3>2. CASE u # t
      <4>1. FirstSeat(u)' = FirstSeat(u) /\ FirstSeat(u) \in Nat /\ FirstSeat(u) < n
        BY <1>1, <2>1, <2>2, <2>3, <2>4, <3>2, Zenon DEF NewcomersNew
      <4> QED BY <4>1, Counting, Zenon
    <3> QED BY <3>1, <3>2, Zenon
  <2>5. \A u \in Thread : Joining(u) => thread[u].player # NoPlayer
    BY RepositoriesAssumption, Zenon DEF RowsInv, RowInHand
  <2>6. ASSUME NEW u \in Thread, Joining(u)'
        PROVE  /\ \A g \in DOMAIN gameEntity' : gameEntity'[g].player1 # thread'[u].player
               /\ \A v \in Thread : FirstSeat(v)' # thread'[u].player
    <3>1. CASE u = t
      BY <1>1, <1>2, <2>1, <2>6, <3>1, Zenon
    <3>2. CASE u # t
      BY <1>1, <1>2, <2>1, <2>2, <2>5, <2>6, <3>2, ZenonT(40) DEF NewcomersNew
    <3> QED BY <3>1, <3>2
  <2> QED BY <1>2, <2>4, <2>6, Zenon DEF NewcomersNew
<1> QED BY <1>5, <1>6, <1>7, <1>8, <1>9, Zenon DEF RowsInv

\* createGameAndPlayer: the player, and then the game.
LEMMA CreateRows ==
    ASSUME RowsInv, NEW t \in Thread,
           \/ \E s \in Session, name \in Name : ReceiveCreate(t, name, s)
           \/ CreateNewGame(t)
    PROVE  RowsInv'
<1>0. thread \in [Thread -> Handler] /\ RowInHand(t)
  BY DEF RowsInv, GameThreadsTypeOK
<1>1. ASSUME NEW s \in Session, NEW name \in Name, ReceiveCreate(t, name, s)
      PROVE  RowsInv'
  <2>1. PICK n \in PlayerId : n = nextPlayerId /\ n \in Nat /\ nextPlayerId' = n + 1
    BY <1>1, NewKey DEF ReceiveCreate
  <2> DEFINE h == [op |-> "create", pc |-> "game", player |-> n]
  <2>2. h \in Handler
    BY DEF Handler, CreateHandler
  <2>3. /\ thread' \in [Thread -> Handler] /\ thread'[t] = h
        /\ \A u \in Thread : u # t => thread'[u] = thread[u]
    <3>1. thread' = [thread EXCEPT ![t] = h]
      BY <1>1, <2>1, ZenonT(40) DEF ReceiveCreate
    <3> HIDE DEF h
    <3> QED BY <1>0, <2>2, <3>1, OneThread, Zenon
  <2>4. FirstSeat(t)' = n /\ ~Joining(t)' /\ RowInHand(t)' /\ thread'[t].player = n
    BY <2>1, <2>3 DEF FirstSeat, Joining, RowInHand, At
  <2> HIDE DEF h
  <2> QED BY <1>1, <2>1, <2>3, <2>4, NewPlayerRows, ZenonT(40) DEF ReceiveCreate
<1>2. CASE CreateNewGame(t)
  <2>1. thread[t] \in CreateHandler /\ thread[t].op = "create"
    BY <1>0, <1>2, HandlerKind DEF CreateNewGame, At
  <2>2. PICK p \in PlayerId, n \in Nat : p = thread[t].player /\ n = nextGameId
    BY <2>1 DEF CreateHandler, RowsInv, GameThreadsTypeOK
  <2> DEFINE row == [player1 |-> p, player2 |-> NoPlayer, winner |-> NoPlayer,
                     gameState |-> "NEW_GAME"]
  <2>3. row \in GameEntity /\ RowCoherent(row) /\ row.player1 = p /\ row.player2 = NoPlayer
    BY RepositoriesAssumption, Zenon DEF GameEntity, GameState, RowCoherent
  <2>4. /\ n \in GameId /\ nextGameId' = n + 1 /\ n + 1 \in Nat
        /\ gameEntity' = IF p \notin DOMAIN playerEntity THEN gameEntity
                         ELSE Insert(gameEntity, n, row)
        /\ Return(t)
        /\ UNCHANGED <<playerEntity, cards, service, nextPlayerId, refused, disturbed, shown>>
    BY <1>2, <2>2, Counting, Zenon DEF CreateNewGame
  <2>5. /\ thread' \in [Thread -> Handler] /\ thread'[t] = NoHandler
        /\ \A u \in Thread : u # t => thread'[u] = thread[u]
    BY <1>0, <2>4, Returns
  <2>6. RowInHand(t)' /\ FirstSeat(t)' = NoPlayer /\ ~Joining(t)'
    BY <2>5, NoHandlerInHand, Zenon
  <2>7. \A g \in DOMAIN gameEntity :
           /\ g \in GameId /\ g \in Nat /\ g < n /\ gameEntity[g] \in GameEntity
           /\ RowCoherent(gameEntity[g])
           /\ {gameEntity[g].player1, gameEntity[g].player2} \ {NoPlayer}
                 \subseteq DOMAIN playerEntity
    BY <2>2, NamedKeys
  <2> HIDE DEF row
  <2>8. /\ DOMAIN gameEntity' \subseteq GameId
        /\ gameEntity' \in [DOMAIN gameEntity' -> GameEntity]
    <3>1. gameEntity \in [DOMAIN gameEntity -> GameEntity]
      BY DEF RowsInv, GameThreadsTypeOK, TypeOK, TablesTypeOK
    <3> QED BY <2>3, <2>4, <2>7, <3>1, Zenon DEF Insert
  <2>9. \A g \in DOMAIN gameEntity' :
           \/ p \in DOMAIN playerEntity /\ g = n /\ gameEntity'[g] = row
           \/ g \in DOMAIN gameEntity /\ gameEntity'[g] = gameEntity[g]
    BY <2>4 DEF Insert
  <2>10. GameThreadsTypeOK'
    <3>1. TablesTypeOK'
      BY <2>4, <2>8, ZenonT(40) DEF RowsInv, GameThreadsTypeOK, TypeOK, TablesTypeOK, cards
    <3> QED BY <2>4, <2>5, <3>1, TypesKept, ZenonT(40) DEF RowsInv, GameThreadsTypeOK
  <2>11. IdsFresh'
    <3>1. \A g \in DOMAIN gameEntity' : g = n \/ (g \in Nat /\ g < n)
      BY <2>7, <2>9, Zenon
    <3>2. n \in Nat
      BY <2>2, Zenon
    <3>3. \A g : g = n \/ (g \in Nat /\ g < n) => g < n + 1
      BY <3>2
    <3> QED BY <2>4, <3>1, <3>3, Zenon DEF RowsInv, IdsFresh
  <2>12. GameRowsCoherent'
    BY <2>3, <2>4, <2>7, <2>9, CoherentRows, ZenonT(40)
  <2>13. \A u \in Thread : RowInHand(u)'
    BY <2>4, <2>5, <2>6, OthersInHand, Counting, ZenonT(40) DEF RowsInv, GameThreadsTypeOK
  <2>14. NewcomersNew'
    <3>1. FirstSeat(t) = p
      BY <2>1, <2>2 DEF FirstSeat
    <3> QED BY <2>3, <2>4, <2>5, <2>6, <2>9, <3>1, SeatsMove, ZenonT(40)
  <2> QED BY <2>10, <2>11, <2>12, <2>13, <2>14, ZenonT(40) DEF RowsInv
<1> QED BY <1>1, <1>2

\* joinGame: the player, the seats, and the game.
LEMMA JoinRows ==
    ASSUME RowsInv, NEW t \in Thread,
           \/ \E g \in GameId, s \in Session, name \in Name : ReceiveJoin(t, g, name, s)
           \/ JoinCreatesPlayer(t) \/ JoinReads(t)
    PROVE  RowsInv'
<1>0. thread \in [Thread -> Handler] /\ RowInHand(t) /\ GameThreadsTypeOK
  BY DEF RowsInv, GameThreadsTypeOK
<1>1. ASSUME NEW g \in GameId, NEW s \in Session, NEW name \in Name,
             ReceiveJoin(t, g, name, s)
      PROVE  RowsInv'
  <2> DEFINE h == [op |-> "join", pc |-> "player", gameId |-> g,
                   row |-> [username |-> name, sessionId |-> s],
                   player |-> NoPlayer, game |-> NoGame]
  <2>1. h \in Handler /\ h.op = "join" /\ h.pc = "player"
    BY DEF Handler, JoinHandler, PlayersEntity
  <2>2. thread' = [thread EXCEPT ![t] = h]
    BY <1>1 DEF ReceiveJoin
  <2> HIDE DEF h
  <2>3. /\ thread' \in [Thread -> Handler] /\ thread'[t] = h
        /\ \A u \in Thread : u # t => thread'[u] = thread[u]
    BY <1>0, <2>1, <2>2, OneThread, Zenon
  <2>4. RowInHand(t)' /\ FirstSeat(t)' = NoPlayer /\ ~Joining(t)'
    BY <2>1, <2>3, Zenon DEF RowInHand, FirstSeat, Joining, At
  <2>5. /\ UNCHANGED <<playerEntity, gameEntity, cardPlayers, isPlayed, dealOrder, service,
                       ids, refused, shown>>
        /\ disturbed' \in BOOLEAN
    BY <1>1 DEF ReceiveJoin, tables
  <2> QED BY <1>0, <2>3, <2>4, <2>5, HandsOnly, Zenon
             DEF GameThreadsTypeOK, TypeOK, TablesTypeOK
<1>2. CASE JoinCreatesPlayer(t)
  <2>1. /\ thread[t] \in JoinHandler /\ thread[t].op = "join" /\ thread[t].pc = "player"
        /\ thread[t].row.username \in Name /\ thread[t].row.sessionId \in Session
    BY <1>0, <1>2, HandlerKind DEF JoinCreatesPlayer, At, JoinHandler, PlayersEntity
  <2>2. PICK name \in Name, s \in Session, n \in PlayerId :
          /\ CreateNewPlayer(name, s) /\ n = nextPlayerId /\ n \in Nat /\ nextPlayerId' = n + 1
    BY <1>2, <2>1, NewKey DEF JoinCreatesPlayer
  <2>3. thread'[t] = [thread[t] EXCEPT !.player = n, !.pc = "read"]
    BY <1>0, <1>2, <2>2 DEF JoinCreatesPlayer
  <2>4. thread'[t] \in JoinHandler
    BY <2>1, <2>3, Zenon DEF JoinHandler
  <2>5. thread'[t].op = "join" /\ thread'[t].pc = "read" /\ thread'[t].player = n
    BY <2>1, <2>3 DEF JoinHandler
  <2>6. /\ thread' \in [Thread -> Handler]
        /\ \A u \in Thread : u # t => thread'[u] = thread[u]
    BY <1>0, <1>2, <2>4, Zenon DEF JoinCreatesPlayer, Handler
  <2>7. RowInHand(t)' /\ FirstSeat(t)' = NoPlayer
    BY <2>2, <2>5 DEF RowInHand, FirstSeat, Joining, At
  <2> QED BY <1>2, <2>2, <2>5, <2>6, <2>7, NewPlayerRows, ZenonT(40) DEF JoinCreatesPlayer
<1>3. CASE JoinReads(t)
  <2>1. /\ thread[t] \in JoinHandler /\ thread[t].op = "join" /\ thread[t].pc = "read"
        /\ Joining(t)
    BY <1>0, <1>3, HandlerKind, Zenon DEF JoinReads, At, Joining
  <2>2. /\ UNCHANGED <<playerEntity, gameEntity, cardPlayers, isPlayed, dealOrder, service,
                       ids, disturbed, shown>>
    BY <1>3 DEF JoinReads, tables
  <2>3. CASE refused' = refused \cup {thread[t].player} /\ Return(t)
    <3>1. /\ thread' \in [Thread -> Handler] /\ thread'[t] = NoHandler
          /\ \A u \in Thread : u # t => thread'[u] = thread[u]
      BY <1>0, <2>3, Returns
    <3>2. RowInHand(t)' /\ FirstSeat(t)' = NoPlayer /\ ~Joining(t)'
      BY <3>1, NoHandlerInHand
    <3> QED BY <1>0, <2>1, <2>2, <2>3, <3>1, <3>2, HandsOnly, Zenon
            DEF GameThreadsTypeOK, TypeOK, TablesTypeOK
  <2>4. ASSUME NEW g, g \in DOMAIN gameEntity, g = thread[t].gameId,
               gameEntity[g].player1 # NoPlayer, gameEntity[g].player2 = NoPlayer,
               thread' = [thread EXCEPT
                    ![t].game = [gameEntity[g] EXCEPT !.player2 = thread[t].player],
                    ![t].pc = "save"],
               UNCHANGED refused
        PROVE  RowsInv'
    <3>1. /\ gameEntity[g] \in GameEntity /\ RowCoherent(gameEntity[g])
          /\ thread[t].player \in PlayerId /\ thread[t].player # gameEntity[g].player1
          /\ thread[t].player < nextPlayerId
      BY <1>0, <2>1, <2>4, NamedKeys, ZenonT(40) DEF RowInHand, RowsInv, NewcomersNew
    <3>2. PICK row : row = [gameEntity[g] EXCEPT !.player2 = thread[t].player]
      BY Zenon
    <3>3. /\ row \in GameEntity /\ row.player2 = thread[t].player
          /\ row.player1 = gameEntity[g].player1 /\ row.winner = gameEntity[g].winner
      BY <3>1, <3>2, Zenon DEF GameEntity
    <3>4. RowCoherent(row)
      BY <2>4, <3>1, <3>3 DEF RowCoherent
    <3>5. thread'[t] = [thread[t] EXCEPT !.game = row, !.pc = "save"]
      BY <1>0, <2>4, <3>2
    <3>6. thread'[t] \in JoinHandler
      BY <2>1, <3>3, <3>5, ZenonT(40) DEF JoinHandler
    <3>7. /\ thread'[t].op = "join" /\ thread'[t].pc = "save" /\ thread'[t].game = row
          /\ thread'[t].player = thread[t].player
      BY <2>1, <3>5 DEF JoinHandler
    <3>8. /\ thread' \in [Thread -> Handler]
          /\ \A u \in Thread : u # t => thread'[u] = thread[u]
      BY <1>0, <2>4, <3>6 DEF Handler
    <3>9. RowInHand(t)'
      BY <2>2, <3>1, <3>3, <3>4, <3>7, ZenonT(40) DEF RowInHand, Joining, At, ids
    <3>10. FirstSeat(t)' = gameEntity[g].player1
      BY <3>3, <3>7 DEF FirstSeat, At
    <3> QED BY <1>0, <2>1, <2>2, <2>4, <3>7, <3>8, <3>9, <3>10, HandsOnly, Zenon
            DEF GameThreadsTypeOK, TypeOK, TablesTypeOK
  <2> QED BY <1>3, <2>3, <2>4, Zenon DEF JoinReads
<1> QED BY <1>1, <1>2, <1>3

\* A step that saves a game or fails to, and leaves the rows of players alone.
LEMMA GameSaved ==
    ASSUME RowsInv, NEW t \in Thread, NEW g, NEW game \in GameEntity,
           UNCHANGED <<playerEntity, cards, service, nextPlayerId, disturbed, shown>>,
           thread' \in [Thread -> Handler],
           \A u \in Thread : u # t => thread'[u] = thread[u],
           RowInHand(t)', FirstSeat(t)' = FirstSeat(t) \/ FirstSeat(t)' = NoPlayer,
           ~Joining(t)', RowCoherent(game),
           game.player1 = FirstSeat(t) \/ game.player1 = NoPlayer,
           \/ SavesGame(g, game) /\ refused' = refused
           \/ /\ UNCHANGED <<gameEntity, nextGameId>>
              /\ \/ refused' = refused
                 \/ Joining(t) /\ refused' = refused \cup {thread[t].player}
    PROVE  RowsInv'
<1>1. CASE UNCHANGED <<gameEntity, nextGameId>> /\ ~(SavesGame(g, game) /\ refused' = refused)
  BY <1>1, HandsOnly, Zenon DEF RowsInv, GameThreadsTypeOK, TypeOK, TablesTypeOK, cards, ids
<1>2. CASE SavesGame(g, game) /\ refused' = refused
  <2>1. /\ DOMAIN gameEntity' \subseteq GameId
        /\ gameEntity' \in [DOMAIN gameEntity' -> GameEntity]
        /\ nextGameId' \in Nat
        /\ \A h \in DOMAIN gameEntity' :
              /\ h < nextGameId'
              /\ \/ gameEntity'[h] = game
                 \/ h \in DOMAIN gameEntity /\ gameEntity'[h] = gameEntity[h]
    BY <1>2, SavesGameRows, Zenon
  <2>2. TablesTypeOK'
    BY <2>1 DEF RowsInv, GameThreadsTypeOK, TypeOK, TablesTypeOK, cards
  <2>3. GameThreadsTypeOK'
    BY <1>2, <2>1, <2>2, TypesKept, ZenonT(40) DEF RowsInv, GameThreadsTypeOK
  <2>4. IdsFresh'
    BY <1>2, <2>1 DEF RowsInv, IdsFresh
  <2>5. GameRowsCoherent'
    BY <1>2, SavesGameCoherent
  <2>6. \A u \in Thread : RowInHand(u)'
    BY OthersInHand DEF RowsInv, GameThreadsTypeOK
  <2>7. NewcomersNew'
    BY <2>1, SeatsMove, ZenonT(40)
  <2> QED BY <2>3, <2>4, <2>5, <2>6, <2>7, ZenonT(40) DEF RowsInv
<1> QED BY <1>1, <1>2, Zenon

\* joinGame saves the game with its player in the second seat.
LEMMA JoinSavesRows ==
    ASSUME RowsInv, NEW t \in Thread, JoinSaves(t)
    PROVE  RowsInv'
<1>1. thread \in [Thread -> Handler] /\ RowInHand(t)
  BY ZenonT(40) DEF RowsInv, GameThreadsTypeOK
<1>2. /\ thread[t].op = "join" /\ thread[t].pc = "save" /\ Joining(t)
      /\ At(t, "join", "save")
  BY Zenon DEF JoinSaves, At, Joining
<1>3. PICK game \in GameEntity :
        game = thread[t].game /\ RowCoherent(game) /\ FirstSeat(t) = game.player1
  BY <1>1, <1>2 DEF RowInHand, FirstSeat
<1>4. /\ thread' \in [Thread -> Handler] /\ thread'[t] = NoHandler
      /\ \A u \in Thread : u # t => thread'[u] = thread[u]
  BY <1>1, Returns DEF JoinSaves
<1>5. RowInHand(t)' /\ FirstSeat(t)' = NoPlayer /\ ~Joining(t)'
  BY <1>4, NoHandlerInHand, Zenon
<1> QED BY <1>2, <1>3, <1>4, <1>5, GameSaved, Zenon DEF JoinSaves

\* The row without a player who leaves: nobody else loses a seat.
LEMMA WithoutPlayerRow ==
    ASSUME NEW game \in GameEntity, RowCoherent(game), NEW p \in PlayerId,
           NEW row, row = WithoutPlayer(game, p)
    PROVE  /\ row \in GameEntity
           /\ RowCoherent(row) \/ (row.player1 = NoPlayer /\ row.player2 = NoPlayer)
           /\ row.player1 = game.player1 \/ row.player1 = NoPlayer
           /\ p \notin {row.player1, row.player2}
           /\ \A q \in {game.player1, game.player2} : q # p => q \in {row.player1, row.player2}
<1> USE RepositoriesAssumption
<1>1. CASE p = game.player1
  <2>1. row = [game EXCEPT !.player1 = NoPlayer, !.winner = game.player2]
    BY <1>1 DEF WithoutPlayer
  <2>2. /\ row \in GameEntity /\ row.player1 = NoPlayer /\ row.player2 = game.player2
        /\ row.winner = game.player2
    BY <2>1, Zenon DEF GameEntity
  <2> QED BY <1>1, <2>2 DEF RowCoherent
<1>2. CASE p # game.player1 /\ p = game.player2
  <2>1. row = [game EXCEPT !.player2 = NoPlayer, !.winner = game.player1]
    BY <1>2 DEF WithoutPlayer
  <2>2. /\ row \in GameEntity /\ row.player1 = game.player1 /\ row.player2 = NoPlayer
        /\ row.winner = game.player1
    BY <2>1, Zenon DEF GameEntity
  <2> QED BY <1>2, <2>2 DEF RowCoherent
<1>3. CASE p # game.player1 /\ p # game.player2
  BY <1>3 DEF WithoutPlayer
<1> QED BY <1>1, <1>2, <1>3, Zenon

\* A deck that reDealCards shuffled is the whole deck.
LEMMA WholeDeck ==
    ASSUME NEW deck \in DeckShuffles
    PROVE  deck \in Seq(Card) /\ deck # <<>> /\ Range(deck) = Card
<1>1. PICK n \in Nat \ {0} : n = 2 * HalfDeck
  BY CardsServiceAssumption
<1>2. deck \in [1..n -> Card] /\ deck \in Surjection(1..n, Card)
  BY <1>1, GameServiceAssumption DEF Bijection, Injection
<1>3. deck \in Seq(Card)
  BY <1>2, SeqDef
<1>4. DOMAIN deck = 1..n /\ 1 \in DOMAIN deck
  BY <1>2
<1>5. deck # <<>>
  BY <1>4
<1> QED BY <1>2, <1>3, <1>4, <1>5, Zenon DEF Surjection, Range

\* leaveGame reads the game and the player and deals the deck again.
LEMMA LeaveHandRows ==
    ASSUME RowsInv, NEW t \in Thread,
           \/ \E g \in GameId, s \in Session : ReceiveLeave(t, g, s)
           \/ LeaveFinds(t) \/ LeaveDeals(t)
    PROVE  RowsInv'
<1>0. thread \in [Thread -> Handler] /\ RowInHand(t) /\ GameThreadsTypeOK
  BY DEF RowsInv, GameThreadsTypeOK
<1>1. ASSUME NEW g \in GameId, NEW s \in Session, ReceiveLeave(t, g, s)
      PROVE  RowsInv'
  <2>1. g \in DOMAIN gameEntity /\ gameEntity[g] \in GameEntity /\ RowCoherent(gameEntity[g])
    BY <1>1, NamedKeys DEF ReceiveLeave
  <2> DEFINE h == [op |-> "leave", pc |-> "find", gameId |-> g, session |-> s,
                   player |-> NoPlayer, game |-> gameEntity[g], todo |-> <<>>]
  <2>2. h \in Handler /\ h.op = "leave" /\ h.pc = "find" /\ h.game = gameEntity[g]
    BY <2>1, EmptySeq, Zenon DEF Handler, LeaveHandler
  <2>3. thread' = [thread EXCEPT ![t] = h]
    BY <1>1, Zenon DEF ReceiveLeave
  <2> HIDE DEF h
  <2>4. /\ thread' \in [Thread -> Handler] /\ thread'[t] = h
        /\ \A u \in Thread : u # t => thread'[u] = thread[u]
    BY <1>0, <2>2, <2>3, OneThread, Zenon
  <2>5. RowInHand(t)' /\ FirstSeat(t)' = gameEntity[g].player1 /\ ~Joining(t)'
    BY <2>1, <2>2, <2>4, Zenon DEF RowInHand, FirstSeat, Joining, At
  <2>6. /\ UNCHANGED <<playerEntity, gameEntity, cardPlayers, isPlayed, dealOrder, service,
                       ids, refused, shown>>
        /\ disturbed' \in BOOLEAN
    BY <1>1 DEF ReceiveLeave, tables
  <2> QED BY <1>0, <2>1, <2>4, <2>5, <2>6, HandsOnly, ZenonT(40)
             DEF GameThreadsTypeOK, TypeOK, TablesTypeOK
<1>2. ASSUME Return(t), UNCHANGED <<tables, service, ids, refused, disturbed, shown>>
      PROVE  RowsInv'
  <2>1. /\ thread' \in [Thread -> Handler] /\ thread'[t] = NoHandler
        /\ \A u \in Thread : u # t => thread'[u] = thread[u]
    BY <1>0, <1>2, Returns
  <2>2. RowInHand(t)' /\ FirstSeat(t)' = NoPlayer /\ ~Joining(t)'
    BY <2>1, NoHandlerInHand
  <2> QED BY <1>0, <1>2, <2>1, <2>2, HandsOnly, Zenon
             DEF GameThreadsTypeOK, TypeOK, TablesTypeOK, tables
<1>3. CASE LeaveFinds(t) /\ ~Return(t)
  <2>1. /\ thread[t] \in LeaveHandler /\ thread[t].op = "leave" /\ thread[t].pc = "find"
        /\ UNCHANGED <<tables, service, ids, refused, disturbed, shown>>
    BY <1>0, <1>3, HandlerKind, Zenon DEF LeaveFinds, At
  <2>2. thread[t].game \in GameEntity /\ RowCoherent(thread[t].game)
    BY <1>0, <2>1, Zenon DEF LeaveHandler, RowInHand
  <2>3. PICK p : p = FindPlayerBySessionId(thread[t].session)
    BY Zenon
  <2>4. p \in PlayerId
    <3>1. Cardinality(PlayersBySession(thread[t].session)) = 1
      BY <1>3, Zenon DEF LeaveFinds
    <3>2. PlayersBySession(thread[t].session) # {}
      BY <3>1, OneIsSome, Zenon
    <3> QED BY <2>3, <3>2, NamedKeys, Zenon DEF FindPlayerBySessionId, PlayersBySession
  <2>5. PICK seated, deck :
          /\ seated = (p \in {thread[t].game.player1, thread[t].game.player2})
          /\ deck \in IF seated THEN DeckShuffles ELSE {<<>>}
          /\ thread' = [thread EXCEPT
                ![t].player = p, ![t].game = WithoutPlayer(thread[t].game, p),
                ![t].todo = deck, ![t].pc = IF seated THEN "deal" ELSE "game"]
    BY <1>3, <2>3, ZenonT(40) DEF LeaveFinds
  <2>6. PICK row : row = WithoutPlayer(thread[t].game, p)
    OBVIOUS
  <2>7. /\ row \in GameEntity
        /\ RowCoherent(row) \/ (row.player1 = NoPlayer /\ row.player2 = NoPlayer)
        /\ row.player1 = thread[t].game.player1 \/ row.player1 = NoPlayer
    BY <2>2, <2>4, <2>6, WithoutPlayerRow
  <2>8. deck \in Seq(Card) /\ (seated => deck # <<>>)
    BY <2>5, WholeDeck, EmptySeq, Zenon
  <2>9. thread'[t] = [thread[t] EXCEPT !.player = p, !.game = row, !.todo = deck,
                                       !.pc = IF seated THEN "deal" ELSE "game"]
    BY <1>0, <2>5, <2>6
  <2>10. thread'[t] \in LeaveHandler
    BY <2>1, <2>4, <2>7, <2>8, <2>9, ZenonT(40) DEF LeaveHandler
  <2>11. /\ thread'[t].op = "leave" /\ thread'[t].game = row /\ thread'[t].todo = deck
         /\ thread'[t].pc = IF seated THEN "deal" ELSE "game"
    BY <2>1, <2>9 DEF LeaveHandler
  <2>12. /\ thread' \in [Thread -> Handler]
         /\ \A u \in Thread : u # t => thread'[u] = thread[u]
    BY <1>0, <2>5, <2>10 DEF Handler
  <2>13. RowInHand(t)'
    BY <2>7, <2>8, <2>11, Zenon DEF RowInHand, Joining, At
  <2>14. ~Joining(t)' /\ (FirstSeat(t)' = FirstSeat(t) \/ FirstSeat(t)' = NoPlayer)
    BY <2>1, <2>7, <2>11, Zenon DEF Joining, FirstSeat, At
  <2> QED BY <1>0, <2>1, <2>12, <2>13, <2>14, HandsOnly, ZenonT(40)
          DEF GameThreadsTypeOK, TypeOK, TablesTypeOK, tables
<1>4. CASE LeaveDeals(t) /\ ~Return(t)
  <2>1. /\ thread[t] \in LeaveHandler /\ thread[t].op = "leave" /\ thread[t].pc = "deal"
        /\ UNCHANGED <<playerEntity, gameEntity, service, ids, refused, disturbed, shown>>
    BY <1>0, <1>4, HandlerKind, ZenonT(40) DEF LeaveDeals, At
  <2>2. /\ thread[t].todo \in Seq(Card) /\ thread[t].todo # <<>>
        /\ thread[t].game \in GameEntity
    BY <1>0, <2>1, Zenon DEF LeaveHandler, RowInHand, At
  <2>3. PICK todo \in Seq(Card) : todo = thread[t].todo /\ todo # <<>>
    BY <2>2
  <2>4. Head(todo) \in Card /\ Tail(todo) \in Seq(Card) /\ Len(todo) \in Nat \ {0}
    BY <2>3, HeadTailProperties, EmptySeq, Zenon
  <2>5. PICK owner, i :
          /\ i = 2 * HalfDeck - Len(todo)
          /\ owner = IF i < HalfDeck THEN thread[t].game.player1 ELSE thread[t].game.player2
          /\ cardPlayers' = [cardPlayers EXCEPT ![Head(todo)] = owner]
          /\ dealOrder' = [dealOrder EXCEPT ![Head(todo)] = i % HalfDeck]
          /\ isPlayed' = [isPlayed EXCEPT ![Head(todo)] = FALSE]
          /\ thread' = [thread EXCEPT
                ![t].todo = Tail(todo),
                ![t].pc = IF Len(todo) = 1 THEN "game" ELSE "deal"]
    <3>1. PICK i : i = 2 * HalfDeck - Len(todo)
      OBVIOUS
    <3>2. PICK owner :
            owner = IF i < HalfDeck THEN thread[t].game.player1 ELSE thread[t].game.player2
      OBVIOUS
    <3>3. /\ cardPlayers' = [cardPlayers EXCEPT ![Head(todo)] = owner]
          /\ dealOrder' = [dealOrder EXCEPT ![Head(todo)] = i % HalfDeck]
          /\ isPlayed' = [isPlayed EXCEPT ![Head(todo)] = FALSE]
          /\ thread' = [thread EXCEPT
                ![t].todo = Tail(todo),
                ![t].pc = IF Len(todo) = 1 THEN "game" ELSE "deal"]
      BY <1>4, <2>3, <3>1, <3>2, Zenon DEF LeaveDeals
    <3> QED BY <3>1, <3>2, <3>3, Zenon
  <2>6. owner \in PlayerId \cup {NoPlayer} /\ i % HalfDeck \in Int
    <3>1. i % HalfDeck \in Int
      BY <2>5, CardsServiceAssumption
    <3> QED BY <2>2, <2>5, <3>1, Zenon DEF GameEntity
  <2>7. /\ cardPlayers' \in [Card -> PlayerId \cup {NoPlayer}]
        /\ isPlayed' \in [Card -> BOOLEAN] /\ dealOrder' \in [Card -> Int]
    BY <1>0, <2>4, <2>5, <2>6, ZenonT(40) DEF GameThreadsTypeOK, TypeOK, TablesTypeOK
  <2>8. thread'[t] = [thread[t] EXCEPT !.todo = Tail(todo),
                                       !.pc = IF Len(todo) = 1 THEN "game" ELSE "deal"]
    BY <1>0, <2>5
  <2>9. thread'[t] \in LeaveHandler
    BY <2>1, <2>4, <2>8, ZenonT(40) DEF LeaveHandler
  <2>10. /\ thread'[t].op = "leave" /\ thread'[t].game = thread[t].game
         /\ thread'[t].todo = Tail(todo)
         /\ thread'[t].pc = IF Len(todo) = 1 THEN "game" ELSE "deal"
    BY <2>1, <2>8 DEF LeaveHandler
  <2>11. /\ thread' \in [Thread -> Handler]
         /\ \A u \in Thread : u # t => thread'[u] = thread[u]
    BY <1>0, <2>5, <2>9, Zenon DEF Handler
  <2>12. Len(todo) # 1 => Tail(todo) # <<>>
    BY <2>3, WorkedOff, Zenon
  <2>13. RowInHand(t)'
    BY <1>0, <2>1, <2>10, <2>12, Zenon DEF RowInHand, Joining, At
  <2>14. ~Joining(t)' /\ FirstSeat(t)' = FirstSeat(t)
    BY <2>1, <2>10, Zenon DEF Joining, FirstSeat, At
  <2> QED BY <1>0, <2>1, <2>7, <2>11, <2>13, <2>14, HandsOnly, ZenonT(40) DEF GameThreadsTypeOK
<1>5. CASE (LeaveFinds(t) \/ LeaveDeals(t)) /\ Return(t)
  <2>1. UNCHANGED <<tables, service, ids, refused, disturbed, shown>>
    <3>1. CASE LeaveFinds(t)
      BY <3>1, Zenon DEF LeaveFinds
    <3>2. CASE LeaveDeals(t)
      <4>1. thread'[t] = NoHandler
        BY <1>0, <1>5, Returns, Zenon
      <4>2. thread[t] \in LeaveHandler
        BY <1>0, <3>2, HandlerKind, SMT, Z3 DEF LeaveDeals, At
      <4>3. \A todo, pc : thread' # [thread EXCEPT ![t].todo = todo, ![t].pc = pc]
        <5> SUFFICES ASSUME NEW todo, NEW pc,
                            thread' = [thread EXCEPT ![t].todo = todo, ![t].pc = pc]
                     PROVE  FALSE
          OBVIOUS
        <5>1. thread'[t] = [thread[t] EXCEPT !.todo = todo, !.pc = pc]
          BY <1>0
        <5>2. thread'[t].op = "leave"
          BY <4>2, <5>1, ZenonT(40) DEF LeaveHandler
        <5>3. NoHandler.op = "none"
          BY DEF NoHandler
        <5> QED BY <4>1, <5>2, <5>3, Zenon
      <4>4. UNCHANGED cards
        BY <3>2, <4>3, ZenonT(40) DEF LeaveDeals
      <4> QED BY <3>2, <4>4, SMT, Z3 DEF LeaveDeals, tables, cards
    <3> QED BY <1>5, <3>1, <3>2, Zenon
  <2> QED BY <1>2, <1>5, <2>1
<1> QED BY <1>1, <1>3, <1>4, <1>5, Zenon

\* leaveGame deletes the game without seats, or saves it.
LEMMA LeaveSavesRows ==
    ASSUME RowsInv, NEW t \in Thread, LeaveSaves(t)
    PROVE  RowsInv'
<1>1. thread \in [Thread -> Handler] /\ RowInHand(t)
  BY DEF RowsInv, GameThreadsTypeOK
<1>2. /\ thread[t] \in LeaveHandler /\ thread[t].op = "leave" /\ thread[t].pc = "game"
      /\ UNCHANGED <<playerEntity, cards, service, nextPlayerId, refused, disturbed, shown>>
  BY <1>1, HandlerKind DEF LeaveSaves, At
<1>3. PICK game : game = [thread[t].game EXCEPT !.gameState = "GAME_ENDED"]
  BY ZenonT(40)
<1>4. /\ game \in GameEntity /\ game.player1 = thread[t].game.player1
      /\ game.player2 = thread[t].game.player2 /\ game.winner = thread[t].game.winner
  <2>1. thread[t].game \in GameEntity
    BY <1>2 DEF LeaveHandler
  <2> QED BY <1>3, <2>1, SMT, Z3 DEF GameEntity, GameState
<1>5. ASSUME thread' = [thread EXCEPT ![t].pc = "delete"]
      PROVE  /\ thread' \in [Thread -> Handler]
             /\ \A u \in Thread : u # t => thread'[u] = thread[u]
             /\ RowInHand(t)' /\ FirstSeat(t)' = FirstSeat(t) /\ ~Joining(t)'
  <2>1. thread'[t] = [thread[t] EXCEPT !.pc = "delete"]
    BY <1>1, <1>5
  <2>2. /\ thread'[t] \in LeaveHandler /\ thread'[t].op = "leave" /\ thread'[t].pc = "delete"
        /\ thread'[t].game = thread[t].game
    BY <1>2, <2>1 DEF LeaveHandler
  <2>3. /\ thread' \in [Thread -> Handler]
        /\ \A u \in Thread : u # t => thread'[u] = thread[u]
    BY <1>1, <1>5, <2>2 DEF Handler
  <2>4. RowInHand(t)' /\ FirstSeat(t)' = FirstSeat(t) /\ ~Joining(t)'
    BY <1>1, <1>2, <2>2, ZenonT(40) DEF RowInHand, FirstSeat, Joining, At
  <2> QED BY <2>3, <2>4
<1>6. FirstSeat(t) = game.player1
  BY <1>2, <1>4 DEF FirstSeat
<1>7. CASE /\ game.player1 = NoPlayer /\ game.player2 = NoPlayer
           /\ gameEntity' = Delete(gameEntity, thread[t].gameId)
           /\ thread' = [thread EXCEPT ![t].pc = "delete"] /\ UNCHANGED nextGameId
  <2>1. /\ DOMAIN gameEntity' \subseteq DOMAIN gameEntity
        /\ \A h \in DOMAIN gameEntity' : gameEntity'[h] = gameEntity[h]
    BY <1>7, Zenon DEF Delete, Restrict
  <2>2. TablesTypeOK'
    <3>1. \A h \in DOMAIN gameEntity : h \in GameId /\ gameEntity[h] \in GameEntity
      BY NamedKeys
    <3>2. gameEntity' \in [DOMAIN gameEntity' -> GameEntity]
      BY <1>7, <2>1, <3>1, Zenon DEF Delete, Restrict
    <3> QED BY <1>2, <2>1, <3>1, <3>2, ZenonT(40)
               DEF RowsInv, GameThreadsTypeOK, TypeOK, TablesTypeOK, cards
  <2>3. GameThreadsTypeOK'
    BY <1>2, <1>5, <1>7, <2>2, TypesKept, ZenonT(40) DEF RowsInv, GameThreadsTypeOK
  <2>4. IdsFresh'
    BY <1>2, <1>7, <2>1, Zenon DEF RowsInv, IdsFresh
  <2>5. GameRowsCoherent'
    BY <1>2, <2>1, Zenon DEF RowsInv, GameRowsCoherent, Seats
  <2>6. \A u \in Thread : RowInHand(u)'
    BY <1>2, <1>5, <1>7, OthersInHand, Counting, ZenonT(40) DEF RowsInv, GameThreadsTypeOK
  <2>7. NewcomersNew'
    BY <1>2, <1>5, <1>7, <2>1, SeatsMove, ZenonT(40)
  <2> QED BY <2>3, <2>4, <2>5, <2>6, <2>7, ZenonT(40) DEF RowsInv
<1>8. ASSUME {game.player1, game.player2} # {NoPlayer} PROVE RowCoherent(game)
  BY <1>1, <1>2, <1>4, <1>8, ZenonT(40) DEF RowInHand, RowCoherent
<1>9. CASE /\ {game.player1, game.player2} # {NoPlayer}
           /\ SavesGame(thread[t].gameId, game)
           /\ thread' = [thread EXCEPT ![t].pc = "delete"]
  BY <1>2, <1>4, <1>5, <1>6, <1>8, <1>9, GameSaved, Zenon
<1>10. CASE /\ {game.player1, game.player2} # {NoPlayer}
            /\ Return(t) /\ UNCHANGED <<gameEntity, nextGameId>>
  <2>1. /\ thread' \in [Thread -> Handler] /\ thread'[t] = NoHandler
        /\ \A u \in Thread : u # t => thread'[u] = thread[u]
    BY <1>1, <1>10, Returns, Zenon
  <2>2. RowInHand(t)' /\ FirstSeat(t)' = NoPlayer /\ ~Joining(t)'
    BY <2>1, NoHandlerInHand, Zenon
  <2> QED BY <1>2, <1>4, <1>6, <1>8, <1>10, <2>1, <2>2, GameSaved, ZenonT(40)
<1> QED BY <1>3, <1>7, <1>9, <1>10, Zenon DEF LeaveSaves

\* leaveGame deletes the player's row, unless a game or a card names it.
LEMMA LeaveDeletesRows ==
    ASSUME RowsInv, NEW t \in Thread, LeaveDeletes(t)
    PROVE  RowsInv'
<1>1. thread \in [Thread -> Handler] /\ UNCHANGED <<gameEntity, cards, ids, refused, disturbed, shown>>
  BY DEF RowsInv, GameThreadsTypeOK, LeaveDeletes
<1>2. /\ thread' \in [Thread -> Handler] /\ thread'[t] = NoHandler
      /\ \A u \in Thread : u # t => thread'[u] = thread[u]
  BY <1>1, Returns, Zenon DEF LeaveDeletes
<1>3. RowInHand(t)' /\ FirstSeat(t)' = NoPlayer /\ ~Joining(t)'
  BY <1>2, NoHandlerInHand
<1>4. CASE UNCHANGED <<playerEntity, service>>
  BY <1>1, <1>2, <1>3, <1>4, HandsOnly, ZenonT(40)
     DEF RowsInv, GameThreadsTypeOK, TypeOK, TablesTypeOK, cards
<1>5. CASE /\ ~References(thread[t].player, cardPlayers, gameEntity)
           /\ playerEntity' = Delete(playerEntity, thread[t].player)
           /\ ResetTurn /\ ResetCapturedCards /\ Unreset
  <2>1. /\ DOMAIN playerEntity' = DOMAIN playerEntity \ {thread[t].player}
        /\ playerEntity' \in [DOMAIN playerEntity' -> PlayersEntity]
    BY <1>5 DEF Delete, Restrict, RowsInv, GameThreadsTypeOK, TypeOK, TablesTypeOK
  <2>2. TablesTypeOK'
    BY <1>1, <2>1, Zenon DEF RowsInv, GameThreadsTypeOK, TypeOK, TablesTypeOK, cards
  <2>3. TypeOK'
    BY <1>5, <2>2, EmptySeq, Zenon DEF RowsInv, GameThreadsTypeOK, TypeOK, ResetTurn,
                                 ResetCapturedCards, Unreset
  <2>4. GameThreadsTypeOK'
    BY <1>1, <1>2, <2>3, ZenonT(40) DEF RowsInv, GameThreadsTypeOK, ids
  <2>5. IdsFresh'
    BY <1>1, <2>1, Zenon DEF RowsInv, IdsFresh, ids
  <2>6. GameRowsCoherent'
    BY <1>1, <1>5, <2>1, ZenonT(40) DEF RowsInv, GameRowsCoherent, Seats, References
  <2>7. UNCHANGED <<nextPlayerId, nextGameId>>
    BY <1>1 DEF ids
  <2>8. \A u \in Thread : RowInHand(u)'
    BY <1>2, <1>3, <2>7, OthersInHand, Counting, ZenonT(40) DEF RowsInv, GameThreadsTypeOK
  <2>9. NewcomersNew'
    BY <1>1, <1>2, <1>3, <2>7, SeatsMove, ZenonT(40)
  <2> QED BY <2>4, <2>5, <2>6, <2>8, <2>9, ZenonT(40) DEF RowsInv
<1> QED BY <1>4, <1>5, Zenon DEF LeaveDeletes

\* A deal or a play begins: it has a player, perhaps null, and rows to save.
LEMMA CardsHandlerRows ==
    ASSUME RowsInv, NEW t \in Thread, NEW op \in {"deal", "play"},
           NEW player \in PlayerId \cup {NoPlayer}, NEW rows \in Seq(CardRow), rows # <<>>,
           player = NoPlayer \/ player < nextPlayerId,
           CardsHandlerFor(t, op, player, rows)
    PROVE  RowsInv'
<1>0. thread \in [Thread -> Handler] /\ GameThreadsTypeOK
  BY Zenon DEF RowsInv, GameThreadsTypeOK
<1> DEFINE h == [op |-> op, pc |-> "card", player |-> player, todo |-> rows]
<1>1. /\ h \in Handler /\ h.op \in {"deal", "play"} /\ h.pc = "card"
      /\ h.player = player /\ h.todo = rows
  BY DEF Handler, CardsHandler
<1>2. thread' = [thread EXCEPT ![t] = h]
  BY Zenon DEF CardsHandlerFor
<1> HIDE DEF h
<1>3. /\ thread' \in [Thread -> Handler] /\ thread'[t] = h
      /\ \A u \in Thread : u # t => thread'[u] = thread[u]
  BY <1>0, <1>1, <1>2, OneThread, Zenon
<1>4. /\ UNCHANGED <<playerEntity, gameEntity, cardPlayers, isPlayed, dealOrder, service,
                     ids, refused, shown>>
      /\ disturbed' \in BOOLEAN
  BY DEF CardsHandlerFor, tables
<1>5. RowInHand(t)' /\ FirstSeat(t)' = NoPlayer /\ ~Joining(t)'
  <2>1. nextPlayerId' = nextPlayerId
    BY <1>4 DEF ids
  <2>2. h.op # "create" /\ h.op # "join" /\ h.op # "leave"
    BY <1>1
  <2> QED BY <1>1, <1>3, <2>1, <2>2, Zenon DEF RowInHand, FirstSeat, Joining, At
<1> QED BY <1>0, <1>3, <1>4, <1>5, HandsOnly, Zenon
        DEF GameThreadsTypeOK, TypeOK, TablesTypeOK

\* The shuffled half of findAll, with the deal order and the flag as read.
LEMMA DealtRowsType ==
    ASSUME RowsInv, NEW order \in Orders, NEW shuffle \in Shuffles, NEW half,
           half = FirstHalf(order) \/ half = SecondHalf(order),
           NEW rows, rows = DealtRows(half, shuffle)
    PROVE  rows \in Seq(CardRow) /\ rows # <<>>
<1>1. PICK n \in Nat \ {0} : n = HalfDeck
  BY CardsServiceAssumption
<1>2. order \in [1..(2 * n) -> Card] /\ shuffle \in [1..n -> 1..n]
  BY <1>1, CardsServiceAssumption, Zenon DEF Bijection, Injection
<1>3. \A i \in 1..n : i \in 1..(2 * n) /\ n + i \in 1..(2 * n) /\ i - 1 \in Int
  OBVIOUS
<1>4. \A i \in 1..n : half[i] \in Card
  BY <1>1, <1>2, <1>3, Zenon DEF FirstHalf, SecondHalf
<1>5. \A i \in 1..n : half[shuffle[i]] \in Card
  BY <1>2, <1>4, Zenon
<1>6. \A c \in Card : isPlayed[c] \in BOOLEAN
  BY Zenon DEF RowsInv, GameThreadsTypeOK, TypeOK, TablesTypeOK
<1>7. rows \in [1..n -> CardRow]
  BY <1>1, <1>3, <1>5, <1>6, Zenon DEF CardRow, DealtRows
<1>8. DOMAIN rows = 1..n
  BY <1>7, Zenon
<1>9. n \in Nat /\ 1 \in 1..n
  OBVIOUS
<1>10. rows \in Seq(CardRow)
  BY <1>7, <1>9, SeqDef, Zenon
<1>11. DOMAIN <<>> = {}
  OBVIOUS
<1> QED BY <1>8, <1>9, <1>10, <1>11, Zenon

\* dealCards1, dealCards2 and the plays, up to their saves.
LEMMA CardsReceivedRows ==
    ASSUME RowsInv, NEW t \in Thread,
           \/ \E g \in GameId, s \in Session, seat \in {1, 2} : ReceiveDeal(t, g, s, seat)
           \/ \E p \in PlayerId : ReceivePlay(t, p)
    PROVE  RowsInv'
<1>1. ASSUME NEW g \in GameId, NEW s \in Session, NEW seat \in {1, 2}, ReceiveDeal(t, g, s, seat)
      PROVE  RowsInv'
  <2>1. PICK order \in Orders, shuffle \in Shuffles :
          CardsHandlerFor(t, "deal", FindPlayerBySessionId(s),
             DealtRows(IF seat = 1 THEN FirstHalf(order) ELSE SecondHalf(order), shuffle))
    BY <1>1, Zenon DEF ReceiveDeal
  <2>2. PICK half : half = IF seat = 1 THEN FirstHalf(order) ELSE SecondHalf(order)
    BY Zenon
  <2>3. PICK rows : rows = DealtRows(half, shuffle)
    BY Zenon
  <2>4. CardsHandlerFor(t, "deal", FindPlayerBySessionId(s), rows)
    BY <2>1, <2>2, <2>3, Zenon
  <2>5. rows \in Seq(CardRow) /\ rows # <<>>
    BY <2>2, <2>3, DealtRowsType, Zenon
  <2>6. PICK player : player = FindPlayerBySessionId(s)
    BY Zenon
  <2>7. player = NoPlayer \/ (player \in PlayerId /\ player < nextPlayerId)
    BY <2>6, NamedKeys, Zenon DEF FindPlayerBySessionId, PlayersBySession
  <2> QED BY <2>4, <2>5, <2>6, <2>7, CardsHandlerRows, Zenon
<1>2. ASSUME NEW p \in PlayerId, ReceivePlay(t, p) PROVE RowsInv'
  <2>1. PICK card \in NextCards(p) :
          CardsHandlerFor(t, "play", p,
             <<[card |-> card, order |-> dealOrder[card], isPlayed |-> TRUE]>>)
    BY <1>2, Zenon DEF ReceivePlay
  <2>2. card \in Card
    BY DEF NextCards, Unplayed, FindCardsByPlayer
  <2>3. PICK row : row = [card |-> card, order |-> dealOrder[card], isPlayed |-> TRUE]
    BY Zenon
  <2>4. row \in CardRow
    BY <2>2, <2>3, Zenon DEF RowsInv, GameThreadsTypeOK, TypeOK, TablesTypeOK, CardRow
  <2>5. <<row>> \in Seq(CardRow) /\ <<row>> # <<>>
    BY <2>4
  <2>6. p < nextPlayerId
    BY <1>2, NamedKeys, Zenon DEF ReceivePlay
  <2> QED BY <2>1, <2>3, <2>5, <2>6, CardsHandlerRows, Zenon
<1> QED BY <1>1, <1>2, Zenon

\* save(card) writes the columns of one card, or throws.
LEMMA CardSaved ==
    ASSUME RowsInv, NEW t \in Thread, SavesCard(t)
    PROVE  /\ thread[t].op \in {"deal", "play"}
           /\ UNCHANGED <<playerEntity, gameEntity, service, ids, refused, disturbed, shown>>
           /\ thread' \in [Thread -> Handler]
           /\ \A u \in Thread : u # t => thread'[u] = thread[u]
           /\ RowInHand(t)' /\ FirstSeat(t)' = NoPlayer /\ ~Joining(t)'
           /\ thread'[t].op \in {"deal", "play", "none"}
           /\ cardPlayers' \in [Card -> PlayerId \cup {NoPlayer}]
           /\ isPlayed' \in [Card -> BOOLEAN] /\ dealOrder' \in [Card -> Int]
           /\ \A c \in Card :
                 \/ cardPlayers'[c] = cardPlayers[c]
                 \/ cardPlayers'[c] = NoPlayer
                 \/ cardPlayers'[c] < nextPlayerId
<1>0. thread \in [Thread -> Handler] /\ RowInHand(t) /\ GameThreadsTypeOK
  BY Zenon DEF RowsInv, GameThreadsTypeOK
<1>1. /\ thread[t].op \in {"deal", "play"}
      /\ UNCHANGED <<playerEntity, gameEntity, service, ids, refused, disturbed, shown>>
  BY Zenon DEF SavesCard
<1>2. thread[t] \in CardsHandler
  BY <1>0, <1>1, HandlerKind, Zenon
<1>3. PICK todo \in Seq(CardRow), player \in PlayerId \cup {NoPlayer} :
        /\ todo = thread[t].todo /\ player = thread[t].player /\ todo # <<>>
        /\ player = NoPlayer \/ player < nextPlayerId
  BY <1>0, <1>1, <1>2, Zenon DEF CardsHandler, RowInHand
<1>4. Head(todo) \in CardRow /\ Tail(todo) \in Seq(CardRow) /\ (Len(todo) = 1 <=> Tail(todo) = <<>>)
  BY <1>3, WorkedOff, Zenon
<1>5. PICK row \in CardRow : row = Head(todo)
  BY <1>4, Zenon
<1>6. row.card \in Card /\ row.order \in Int /\ row.isPlayed \in BOOLEAN
  BY <1>5, Zenon DEF CardRow
<1>7. /\ cardPlayers \in [Card -> PlayerId \cup {NoPlayer}]
      /\ isPlayed \in [Card -> BOOLEAN] /\ dealOrder \in [Card -> Int]
  BY <1>0, Zenon DEF GameThreadsTypeOK, TypeOK, TablesTypeOK
<1>8. \/ UNCHANGED cards
      \/ /\ cardPlayers' = [cardPlayers EXCEPT ![row.card] = player]
         /\ dealOrder' = [dealOrder EXCEPT ![row.card] = row.order]
         /\ isPlayed' = [isPlayed EXCEPT ![row.card] = row.isPlayed]
  BY <1>3, <1>5, Zenon DEF SavesCard
<1>9. /\ cardPlayers' \in [Card -> PlayerId \cup {NoPlayer}]
      /\ isPlayed' \in [Card -> BOOLEAN] /\ dealOrder' \in [Card -> Int]
      /\ \A c \in Card : cardPlayers'[c] = cardPlayers[c] \/ cardPlayers'[c] = player
  <2>1. CASE UNCHANGED cards
    BY <1>7, <2>1, Zenon DEF cards
  <2>2. CASE /\ cardPlayers' = [cardPlayers EXCEPT ![row.card] = player]
             /\ dealOrder' = [dealOrder EXCEPT ![row.card] = row.order]
             /\ isPlayed' = [isPlayed EXCEPT ![row.card] = row.isPlayed]
    BY <1>6, <1>7, <2>2, ZenonT(40)
  <2> QED BY <1>8, <2>1, <2>2, Zenon
<1>10. CASE Return(t)
  <2>1. /\ thread' \in [Thread -> Handler] /\ thread'[t] = NoHandler
        /\ \A u \in Thread : u # t => thread'[u] = thread[u]
    BY <1>0, <1>10, Returns, Zenon
  <2>2. RowInHand(t)' /\ FirstSeat(t)' = NoPlayer /\ ~Joining(t)'
    BY <2>1, NoHandlerInHand, Zenon
  <2>3. thread'[t].op = "none"
    BY <2>1 DEF NoHandler
  <2> QED BY <1>1, <1>3, <1>9, <2>1, <2>2, <2>3, Zenon
<1>11. CASE Len(todo) # 1 /\ thread' = [thread EXCEPT ![t].todo = Tail(@)]
  <2>1. thread'[t] = [thread[t] EXCEPT !.todo = Tail(todo)]
    BY <1>0, <1>3, <1>11
  <2>2. thread'[t] \in CardsHandler
    BY <1>2, <1>4, <2>1, Zenon DEF CardsHandler
  <2>3. /\ thread'[t].op = thread[t].op /\ thread'[t].pc = "card"
        /\ thread'[t].player = player /\ thread'[t].todo = Tail(todo)
    BY <1>2, <1>3, <2>1 DEF CardsHandler
  <2>4. /\ thread' \in [Thread -> Handler]
        /\ \A u \in Thread : u # t => thread'[u] = thread[u]
    BY <1>0, <1>11, <2>2, Zenon DEF Handler
  <2>5. thread'[t].op # "create" /\ thread'[t].op # "join" /\ thread'[t].op # "leave"
    BY <1>1, <2>3
  <2>6. nextPlayerId' = nextPlayerId
    BY <1>1 DEF ids
  <2>7. RowInHand(t)' /\ FirstSeat(t)' = NoPlayer /\ ~Joining(t)'
    BY <1>3, <1>4, <1>11, <2>3, <2>5, <2>6, Zenon DEF RowInHand, FirstSeat, Joining, At
  <2> QED BY <1>1, <1>3, <1>9, <2>3, <2>4, <2>7, Zenon
<1> QED BY <1>3, <1>10, <1>11, Zenon DEF SavesCard

LEMMA CardSavedRows ==
    ASSUME RowsInv, NEW t \in Thread, SavesCard(t)
    PROVE  RowsInv'
BY CardSaved, HandsOnly, Zenon DEF RowsInv, GameThreadsTypeOK

\* A page is rendered.
LEMMA PageRows ==
    ASSUME RowsInv, NEW g \in GameId, GamePlayPage(g)
    PROVE  RowsInv'
<1>1. UNCHANGED <<tables, service, ids, refused, thread, disturbed>>
  BY Zenon DEF GamePlayPage
<1>2. \A p \in Seats(g) : SessionOf(p) \in Session
  <2>1. \A p \in DOMAIN playerEntity : playerEntity[p].sessionId \in Session
    BY DEF RowsInv, GameThreadsTypeOK, TypeOK, TablesTypeOK, PlayersEntity
  <2> QED BY <2>1, Zenon DEF GamePlayPage, Renders, RowsInv, GameRowsCoherent, SessionOf, Seats
<1>3. shown' \subseteq GameId \X Session \X {1, 2}
  BY <1>2 DEF GamePlayPage, RowsInv, GameThreadsTypeOK
<1>4. GameThreadsTypeOK'
  BY <1>1, <1>3, TypesKept, Zenon
     DEF RowsInv, GameThreadsTypeOK, TypeOK, TablesTypeOK, tables, ids
<1>5. IdsFresh' /\ GameRowsCoherent'
  BY <1>1, ZenonT(40) DEF RowsInv, IdsFresh, GameRowsCoherent, Seats, tables, ids
<1>6. (\A t \in Thread : RowInHand(t)') /\ NewcomersNew'
  BY <1>1, Zenon DEF RowsInv, RowInHand, NewcomersNew, FirstSeat, Joining, At, tables, ids
<1> QED BY <1>4, <1>5, <1>6 DEF RowsInv

\* The server stops: the threads are gone, the tables stay.
LEMMA CrashRows ==
    ASSUME RowsInv, Crash
    PROVE  RowsInv'
<1>1. /\ UNCHANGED <<tables, ids, refused, disturbed, shown>> /\ Restart
      /\ \A t \in Thread : thread'[t] = NoHandler
      /\ thread' \in [Thread -> Handler]
  BY DEF Crash, Restart, Handler
<1>2. TypeOK'
  BY <1>1, EmptySeq, Zenon
     DEF RowsInv, GameThreadsTypeOK, TypeOK, TablesTypeOK, Restart, ResetTurn,
                        ResetCapturedCards, tables
<1>3. GameThreadsTypeOK'
  BY <1>1, <1>2, Zenon DEF RowsInv, GameThreadsTypeOK, ids
<1>4. IdsFresh' /\ GameRowsCoherent'
  BY <1>1, Zenon DEF RowsInv, IdsFresh, GameRowsCoherent, Seats, tables, ids
<1>5. \A t \in Thread : RowInHand(t)' /\ FirstSeat(t)' = NoPlayer /\ ~Joining(t)'
  BY <1>1, NoHandlerInHand
<1> QED BY <1>3, <1>4, <1>5, Zenon DEF RowsInv, NewcomersNew

\* The tables are empty before the first request.
LEMMA RowsInit == Init => RowsInv
<1> SUFFICES ASSUME Init PROVE RowsInv
  OBVIOUS
<1> USE RepositoriesAssumption DEF Init, GamesInit
<1>1. DOMAIN playerEntity = {} /\ DOMAIN gameEntity = {}
  OBVIOUS
<1>2. TablesTypeOK
  BY <1>1 DEF SeededCards, TablesTypeOK
<1>3. TypeOK
  BY <1>2, EmptySeq, Zenon DEF ServiceInit, TypeOK
<1>4. thread \in [Thread -> Handler] /\ \A t \in Thread : thread[t] = NoHandler
  BY DEF Handler
<1>5. GameThreadsTypeOK
  BY <1>3, <1>4, ZenonT(40) DEF GameThreadsTypeOK
<1>6. IdsFresh /\ GameRowsCoherent
  BY <1>1, Zenon DEF IdsFresh, GameRowsCoherent
<1>7. (\A t \in Thread : RowInHand(t)) /\ NewcomersNew
  BY <1>4 DEF RowInHand, NewcomersNew, FirstSeat, Joining, At, NoHandler
<1> QED BY <1>5, <1>6, <1>7 DEF RowsInv

LEMMA RowsStep == RowsInv /\ [Next]_vars => RowsInv'
<1> SUFFICES ASSUME RowsInv, [Next]_vars PROVE RowsInv'
  OBVIOUS
<1>1. CASE UNCHANGED vars
  <2>1. UNCHANGED <<tables, service, ids, refused, thread, disturbed, shown>>
    BY <1>1, Zenon DEF vars
  <2>2. GameThreadsTypeOK'
    BY <2>1, TypesKept, Zenon DEF RowsInv, GameThreadsTypeOK, TypeOK, TablesTypeOK, tables, ids
  <2>3. IdsFresh' /\ GameRowsCoherent'
    BY <2>1, ZenonT(40) DEF RowsInv, IdsFresh, GameRowsCoherent, Seats, tables, ids
  <2>4. (\A t \in Thread : RowInHand(t)') /\ NewcomersNew'
    BY <2>1, ZenonT(40)
       DEF RowsInv, RowInHand, NewcomersNew, FirstSeat, Joining, At, tables, ids
  <2> QED BY <2>2, <2>3, <2>4 DEF RowsInv
<1>2. ASSUME NEW t \in Thread, Receive(t) PROVE RowsInv'
  BY <1>2, CreateRows, JoinRows, LeaveHandRows, CardsReceivedRows, Zenon DEF Receive
<1>3. ASSUME NEW t \in Thread, Run(t) PROVE RowsInv'
  BY <1>3, CreateRows, JoinRows, JoinSavesRows, LeaveHandRows, LeaveSavesRows,
     LeaveDeletesRows, CardSavedRows, ZenonT(40) DEF Run
<1> QED BY <1>1, <1>2, <1>3, PageRows, CrashRows, ZenonT(40) DEF Next

\* Every table, field and local variable keeps its type, for any number of
\* threads, players and games, and whatever the server was doing when it stopped.
THEOREM GameThreadsTypeCorrect == Spec => []GameThreadsTypeOK
<1>1. RowsInv => GameThreadsTypeOK
  BY DEF RowsInv
<1> QED BY <1>1, RowsInit, RowsStep, PTL DEF Spec

\* The rows of games and players fit together, although createGameAndPlayer,
\* joinGame, leaveGame, the deals and the plays run at the same time on any
\* number of threads, save what they read earlier, insert anew what was deleted
\* and stop half-way.
THEOREM GameThreadsRowsCoherent == Spec => []GameRowsCoherent
<1>1. RowsInv => GameRowsCoherent
  BY ZenonT(40) DEF RowsInv
<1> QED BY <1>1, RowsInit, RowsStep, PTL DEF Spec

-----------------------------------------------------------------------------
(* Every step keeps VacatedInv.                                            *)

\* A handler that neither joins nor leaves disturbs nothing.
LEMMA Bystander ==
    ASSUME NEW u \in Thread, thread'[u].op \notin {"join", "leave"}
    PROVE  JoinUndisturbed(u)' /\ LeaveUndisturbed(u)'
BY DEF JoinUndisturbed, LeaveUndisturbed, Joining, At

\* A handler that has returned keeps what it has when another one steps.
LEMMA ReturnedUndisturbed ==
    ASSUME NEW u \in Thread, thread'[u] = NoHandler
    PROVE  /\ JoinUndisturbed(u)' /\ LeaveUndisturbed(u)'
           /\ thread'[u].op = "none" /\ thread'[u].op \notin {"join", "leave", "deal", "play"}
<1>1. thread'[u].op = "none"
  BY DEF NoHandler
<1>2. thread'[u].op \notin {"join", "leave", "deal", "play"}
  BY <1>1
<1> QED BY <1>1, <1>2, Bystander, Zenon

\* The cards belong to players whose keys have been given out.
LEMMA OwnersFresh ==
    ASSUME VacatedInv, nextPlayerId' \in Nat, nextPlayerId' >= nextPlayerId,
           cardPlayers' = cardPlayers
    PROVE  \A c \in Card : cardPlayers'[c] # NoPlayer => cardPlayers'[c] < nextPlayerId'
<1>1. PICK m \in Nat, n \in Nat : m = nextPlayerId /\ n = nextPlayerId' /\ n >= m
  BY DEF VacatedInv, RowsInv, GameThreadsTypeOK
<1>2. \A c \in Card : cardPlayers[c] # NoPlayer => cardPlayers[c] \in Nat /\ cardPlayers[c] < m
  BY <1>1, GameServiceAssumption, Zenon
     DEF VacatedInv, RowsInv, GameThreadsTypeOK, TypeOK, TablesTypeOK
<1> QED BY <1>1, <1>2

\* A step that leaves the rows of games and cards alone, or adds a game.
LEMMA RowsStay ==
    ASSUME VacatedInv, RowsInv', NEW t \in Thread,
           nextPlayerId' \in Nat, nextPlayerId' >= nextPlayerId,
           UNCHANGED <<cardPlayers, disturbed>>,
           \A h \in DOMAIN gameEntity :
              h \in DOMAIN gameEntity' /\ gameEntity'[h] = gameEntity[h],
           \A u \in Thread : u # t => thread'[u] = thread[u],
           thread'[t].op = thread[t].op \/ thread'[t].op \notin {"join", "leave", "deal", "play"},
           ~disturbed => JoinUndisturbed(t)' /\ LeaveUndisturbed(t)'
    PROVE  VacatedInv'
<1>1. ASSUME ~disturbed, NEW u \in Thread, u # t
      PROVE  JoinUndisturbed(u)' /\ LeaveUndisturbed(u)'
  <2>1. JoinUndisturbed(u) /\ LeaveUndisturbed(u) /\ thread'[u] = thread[u]
    BY <1>1, Zenon DEF VacatedInv
  <2>2. JoinUndisturbed(u)'
    BY <2>1, ZenonT(40) DEF JoinUndisturbed, Joining, At, HoldsNothing
  <2>3. ASSUME thread[u].op = "leave"
        PROVE  \A v \in Thread \ {u} : thread'[v].op \notin {"join", "leave", "deal", "play"}
    BY <2>1, <2>3, ZenonT(40) DEF LeaveUndisturbed
  <2>4. LeaveUndisturbed(u)'
    BY <2>1, <2>3, ZenonT(40) DEF LeaveUndisturbed
  <2> QED BY <2>2, <2>4, Zenon
<1>2. \A c \in Card : cardPlayers'[c] # NoPlayer => cardPlayers'[c] < nextPlayerId'
  BY OwnersFresh
<1> QED BY <1>1, <1>2, Zenon DEF VacatedInv

\* No deal or play runs beside a join, nor when the join has taken a step.
LEMMA JoinWithoutDeals ==
    ASSUME VacatedInv, ~disturbed, NEW t \in Thread, thread[t].op = "join",
           thread'[t].op \in {"join", "none"},
           \A u \in Thread : u # t => thread'[u] = thread[u]
    PROVE  \A v \in Thread : thread'[v].op \notin {"deal", "play"}
<1>1. \A v \in Thread : thread[v].op \notin {"deal", "play"}
  BY Zenon DEF VacatedInv, JoinUndisturbed
<1>2. thread'[t].op \notin {"deal", "play"}
  OBVIOUS
<1> QED BY <1>1, <1>2, Zenon

\* createGameAndPlayer.
LEMMA CreateVacated ==
    ASSUME VacatedInv, RowsInv', NEW t \in Thread,
           \/ \E s \in Session, name \in Name : ReceiveCreate(t, name, s)
           \/ CreateNewGame(t)
    PROVE  VacatedInv'
<1>0. RowsInv /\ thread \in [Thread -> Handler]
  BY Zenon DEF VacatedInv, RowsInv, GameThreadsTypeOK
<1>1. ASSUME NEW s \in Session, NEW name \in Name, ReceiveCreate(t, name, s)
      PROVE  VacatedInv'
  <2>1. /\ nextPlayerId' \in Nat /\ nextPlayerId' >= nextPlayerId
        /\ UNCHANGED <<cardPlayers, disturbed, gameEntity>>
    BY <1>0, <1>1, NewKey DEF ReceiveCreate, cards
  <2>2. thread'[t].op = "create" /\ \A u \in Thread : u # t => thread'[u] = thread[u]
    BY <1>0, <1>1, Zenon DEF ReceiveCreate
  <2>3. JoinUndisturbed(t)' /\ LeaveUndisturbed(t)'
    BY <2>2, Bystander, Zenon
  <2> QED BY <2>1, <2>2, <2>3, RowsStay, Zenon
<1>2. CASE CreateNewGame(t)
  <2>1. /\ thread'[t] = NoHandler /\ \A u \in Thread : u # t => thread'[u] = thread[u]
        /\ UNCHANGED <<cardPlayers, disturbed, nextPlayerId>>
    BY <1>0, <1>2, Returns, Zenon DEF CreateNewGame, cards
  <2>2. JoinUndisturbed(t)' /\ LeaveUndisturbed(t)' /\ thread'[t].op \notin {"join", "leave", "deal", "play"}
    BY <2>1, ReturnedUndisturbed, Zenon
  <2>3. \A h \in DOMAIN gameEntity : h # nextGameId
    <3>1. nextGameId \in Nat
      BY <1>0, Zenon DEF RowsInv, GameThreadsTypeOK
    <3> QED BY <1>0, <3>1, NamedKeys, Counting, Zenon
  <2>4. \A h \in DOMAIN gameEntity : h \in DOMAIN gameEntity' /\ gameEntity'[h] = gameEntity[h]
    BY <1>2, <2>3, Zenon DEF CreateNewGame, Insert
  <2>5. nextPlayerId' \in Nat /\ nextPlayerId' >= nextPlayerId
    BY <1>0, <2>1 DEF RowsInv, GameThreadsTypeOK
  <2> QED BY <2>1, <2>2, <2>4, <2>5, RowsStay, Zenon
<1> QED BY <1>1, <1>2

\* joinGame until it saves.
LEMMA JoinVacated ==
    ASSUME VacatedInv, RowsInv', NEW t \in Thread,
           \/ \E g \in GameId, s \in Session, name \in Name : ReceiveJoin(t, g, name, s)
           \/ JoinCreatesPlayer(t) \/ JoinReads(t)
    PROVE  VacatedInv'
<1>0. RowsInv /\ thread \in [Thread -> Handler] /\ nextPlayerId \in Nat
  BY Zenon DEF VacatedInv, RowsInv, GameThreadsTypeOK
<1>1. ASSUME NEW g \in GameId, NEW s \in Session, NEW name \in Name,
             ReceiveJoin(t, g, name, s)
      PROVE  VacatedInv'
  <2>1. /\ UNCHANGED <<gameEntity, cardPlayers, nextPlayerId>>
        /\ disturbed' = (disturbed \/ Running({"leave", "deal", "play"}))
        /\ thread[t] = NoHandler
    BY <1>1, Zenon DEF ReceiveJoin, tables, ids
  <2>2. /\ thread'[t].op = "join" /\ thread'[t].pc = "player"
        /\ \A u \in Thread : u # t => thread'[u] = thread[u]
    BY <1>0, <1>1, Zenon DEF ReceiveJoin
  <2>3. ASSUME ~disturbed', NEW u \in Thread
        PROVE  JoinUndisturbed(u)' /\ LeaveUndisturbed(u)'
    <3>1. ~disturbed /\ \A v \in Thread : thread[v].op \notin {"leave", "deal", "play"}
      BY <2>1, <2>3, ZenonT(40) DEF Running
    <3>2. \A v \in Thread : thread'[v].op \notin {"leave", "deal", "play"}
      BY <2>2, <3>1, ZenonT(40)
    <3>3. JoinUndisturbed(u)
      BY <3>1 DEF VacatedInv
    <3>4. JoinUndisturbed(u)'
      BY <2>1, <2>2, <3>2, <3>3, ZenonT(40) DEF JoinUndisturbed, Joining, At, HoldsNothing
    <3> QED BY <3>2, <3>4, Zenon DEF LeaveUndisturbed
  <2>4. \A c \in Card : cardPlayers'[c] # NoPlayer => cardPlayers'[c] < nextPlayerId'
    BY <2>1, Zenon DEF VacatedInv
  <2> QED BY <2>3, <2>4, Zenon DEF VacatedInv
<1>2. CASE JoinCreatesPlayer(t)
  <2>1. /\ thread[t] \in JoinHandler /\ thread[t].op = "join"
        /\ thread[t].row.username \in Name /\ thread[t].row.sessionId \in Session
    BY <1>0, <1>2, HandlerKind, Zenon DEF JoinCreatesPlayer, At, JoinHandler, PlayersEntity
  <2>2. /\ nextPlayerId' \in Nat /\ nextPlayerId' >= nextPlayerId /\ nextPlayerId # NoPlayer
        /\ UNCHANGED <<cardPlayers, disturbed, gameEntity>>
    BY <1>0, <1>2, <2>1, NewKey, Counting, ZenonT(40) DEF JoinCreatesPlayer, cards
  <2>3. thread'[t] = [thread[t] EXCEPT !.player = nextPlayerId, !.pc = "read"]
    BY <1>0, <1>2 DEF JoinCreatesPlayer
  <2>4. thread'[t].op = "join" /\ thread'[t].pc = "read" /\ thread'[t].player = nextPlayerId
    BY <2>1, <2>3 DEF JoinHandler
  <2>5. \A u \in Thread : u # t => thread'[u] = thread[u]
    BY <1>0, <1>2, Zenon DEF JoinCreatesPlayer
  <2>6. \A c \in Card : cardPlayers[c] # nextPlayerId
    <3>1. /\ nextPlayerId \in Nat
          /\ \A c \in Card : cardPlayers[c] # NoPlayer => cardPlayers[c] < nextPlayerId
      BY Zenon DEF VacatedInv, RowsInv, GameThreadsTypeOK
    <3> QED BY <2>2, <3>1, Counting, Zenon
  <2>7. ASSUME ~disturbed PROVE JoinUndisturbed(t)' /\ LeaveUndisturbed(t)'
    <3>1. \A v \in Thread : thread'[v].op \notin {"deal", "play"}
      BY <2>1, <2>4, <2>5, <2>7, JoinWithoutDeals, Zenon
    <3> QED BY <2>2, <2>4, <2>6, <3>1, Zenon
            DEF JoinUndisturbed, LeaveUndisturbed, Joining, At, HoldsNothing
  <2> QED BY <2>1, <2>2, <2>4, <2>5, <2>7, RowsStay, Zenon
<1>3. CASE JoinReads(t)
  <2>1. /\ thread[t] \in JoinHandler /\ thread[t].op = "join" /\ Joining(t)
        /\ UNCHANGED <<gameEntity, cardPlayers, disturbed, nextPlayerId>>
    BY <1>0, <1>3, HandlerKind, Zenon DEF JoinReads, At, Joining, tables, ids
  <2>2. nextPlayerId' \in Nat /\ nextPlayerId' >= nextPlayerId
    BY <1>0, <2>1
  <2>3. CASE Return(t)
    <3>1. thread'[t] = NoHandler /\ \A u \in Thread : u # t => thread'[u] = thread[u]
      BY <1>0, <2>3, Returns, ZenonT(40)
    <3>2. JoinUndisturbed(t)' /\ LeaveUndisturbed(t)' /\ thread'[t].op \notin {"join", "leave", "deal", "play"}
      BY <3>1, ReturnedUndisturbed, Zenon
    <3> QED BY <2>1, <2>2, <3>1, <3>2, RowsStay, Zenon
  <2>4. ASSUME NEW g, g \in DOMAIN gameEntity, g = thread[t].gameId,
               gameEntity[g].player2 = NoPlayer,
               thread' = [thread EXCEPT
                    ![t].game = [gameEntity[g] EXCEPT !.player2 = thread[t].player],
                    ![t].pc = "save"]
        PROVE  VacatedInv'
    <3>1. PICK row : row = [gameEntity[g] EXCEPT !.player2 = thread[t].player]
      BY Zenon
    <3>2. row.player1 = gameEntity[g].player1
      <4>1. gameEntity[g] \in GameEntity
        BY <1>0, <2>4, NamedKeys, Zenon
      <4> QED BY <3>1, <4>1 DEF GameEntity
    <3>3. thread'[t] = [thread[t] EXCEPT !.game = row, !.pc = "save"]
      BY <1>0, <2>4, <3>1
    <3>4. /\ thread'[t].op = "join" /\ thread'[t].pc = "save" /\ thread'[t].game = row
          /\ thread'[t].player = thread[t].player /\ thread'[t].gameId = thread[t].gameId
      BY <2>1, <3>3 DEF JoinHandler
    <3>5. \A u \in Thread : u # t => thread'[u] = thread[u]
      BY <1>0, <2>4
    <3>6. ASSUME ~disturbed PROVE JoinUndisturbed(t)' /\ LeaveUndisturbed(t)'
      <4>1. HoldsNothing(thread[t].player)
        BY <2>1, <3>6, Zenon DEF VacatedInv, JoinUndisturbed
      <4>2. \A v \in Thread : thread'[v].op \notin {"deal", "play"}
        BY <2>1, <3>4, <3>5, <3>6, JoinWithoutDeals, Zenon
      <4> QED BY <2>1, <2>4, <3>2, <3>4, <4>1, <4>2, Zenon
              DEF JoinUndisturbed, LeaveUndisturbed, Joining, At, HoldsNothing
    <3> QED BY <2>1, <2>2, <3>4, <3>5, <3>6, RowsStay, Zenon
  <2> QED BY <1>3, <2>3, <2>4, Zenon DEF JoinReads
<1> QED BY <1>1, <1>2, <1>3

\* joinGame saves: the second seat it may take from another join is of a player
\* without cards.
LEMMA JoinSavesVacated ==
    ASSUME VacatedInv, RowsInv', NEW t \in Thread, JoinSaves(t)
    PROVE  VacatedInv' /\ VacatesEmptyHanded
<1>0. RowsInv /\ thread \in [Thread -> Handler] /\ nextPlayerId \in Nat
  BY Zenon DEF VacatedInv, RowsInv, GameThreadsTypeOK
<1>1. /\ thread[t].op = "join" /\ Joining(t) /\ At(t, "join", "save")
      /\ UNCHANGED <<cardPlayers, disturbed, nextPlayerId>>
  BY DEF JoinSaves, At, Joining, cards
<1>2. thread'[t] = NoHandler /\ \A u \in Thread : u # t => thread'[u] = thread[u]
  BY <1>0, Returns, Zenon DEF JoinSaves
<1>3. JoinUndisturbed(t)' /\ LeaveUndisturbed(t)' /\ thread'[t].op \notin {"join", "leave", "deal", "play"}
  BY <1>2, ReturnedUndisturbed, Zenon
<1>4. nextPlayerId' \in Nat /\ nextPlayerId' >= nextPlayerId
  BY <1>0, <1>1, Counting, Zenon
<1>5. CASE UNCHANGED gameEntity
  <2>1. VacatedInv'
    BY <1>1, <1>2, <1>3, <1>4, <1>5, RowsStay, ZenonT(40)
  <2> QED BY <1>5, <2>1, Zenon DEF VacatesEmptyHanded, Vacates, Seats
<1>6. CASE disturbed /\ SavesGame(thread[t].gameId, thread[t].game)
  BY <1>1, <1>6, Zenon DEF VacatedInv, VacatesEmptyHanded
<1>7. CASE ~disturbed /\ SavesGame(thread[t].gameId, thread[t].game)
  <2>1. PICK g, game, p :
          /\ game \in GameEntity
          /\ g = thread[t].gameId /\ game = thread[t].game /\ p = thread[t].player
          /\ game.player2 = p /\ SavesGame(g, game)
    BY <1>0, <1>1, <1>7, ZenonT(40) DEF RowsInv, RowInHand
  <2>2. /\ g \in DOMAIN gameEntity /\ game.player1 = gameEntity[g].player1
        /\ HoldsNothing(p)
        /\ gameEntity[g].player2 = NoPlayer \/ HoldsNothing(gameEntity[g].player2)
    BY <1>1, <1>7, <2>1, Zenon DEF VacatedInv, JoinUndisturbed
  <2>3. /\ DOMAIN gameEntity' = DOMAIN gameEntity /\ gameEntity'[g] = game
        /\ \A h \in DOMAIN gameEntity : h # g => gameEntity'[h] = gameEntity[h]
    BY <1>0, <2>1, <2>2, SavesGameRows
  <2>4. ASSUME NEW u \in Thread, u # t
        PROVE  JoinUndisturbed(u)' /\ LeaveUndisturbed(u)'
    <3>1. JoinUndisturbed(u) /\ LeaveUndisturbed(u) /\ thread'[u] = thread[u]
      BY <1>2, <1>7, <2>4, ZenonT(40) DEF VacatedInv
    <3>2. thread[u].op # "leave"
      BY <1>1, <2>4, <3>1, Zenon DEF LeaveUndisturbed
    <3>3. PICK h : h = thread[u].gameId
      BY Zenon
    <3>0. \A v \in Thread : thread'[v].op \notin {"deal", "play"}
      <4>1. thread'[t].op = "none"
        BY <1>2, ReturnedUndisturbed, Zenon
      <4> QED BY <1>1, <1>2, <1>7, <4>1, JoinWithoutDeals, Zenon
    <3>4. CASE h = g
      BY <1>1, <2>1, <2>2, <2>3, <3>0, <3>1, <3>2, <3>3, <3>4, ZenonT(40)
         DEF JoinUndisturbed, LeaveUndisturbed, Joining, At, HoldsNothing
    <3>5. CASE h # g
      BY <1>1, <2>3, <3>0, <3>1, <3>2, <3>3, <3>5, ZenonT(40)
         DEF JoinUndisturbed, LeaveUndisturbed, Joining, At, HoldsNothing
    <3> QED BY <3>4, <3>5, Zenon
  <2>5. VacatedInv'
    BY <1>3, <1>4, <2>4, <1>1, OwnersFresh, ZenonT(40) DEF VacatedInv
  <2>6. VacatesEmptyHanded
    <3> SUFFICES ASSUME NEW h \in DOMAIN gameEntity, NEW q \in DOMAIN playerEntity,
                        Vacates(h, q)
                 PROVE  \A c \in Card : cardPlayers'[c] # q
      BY Zenon DEF VacatesEmptyHanded
    <3>1. h = g /\ q = gameEntity[g].player2 /\ q # NoPlayer
      BY <2>1, <2>2, <2>3, Zenon DEF Vacates, Seats
    <3> QED BY <1>1, <2>2, <3>1, ZenonT(40) DEF HoldsNothing
  <2> QED BY <2>5, <2>6, Zenon
<1> QED BY <1>5, <1>6, <1>7 DEF JoinSaves

\* leaveGame starts, finds its player, and deals.
LEMMA LeaveVacated ==
    ASSUME VacatedInv, RowsInv', NEW t \in Thread,
           \/ \E g \in GameId, s \in Session : ReceiveLeave(t, g, s)
           \/ LeaveFinds(t) \/ LeaveDeals(t)
    PROVE  VacatedInv'
<1>0. RowsInv /\ thread \in [Thread -> Handler] /\ nextPlayerId \in Nat
  BY Zenon DEF VacatedInv, RowsInv, GameThreadsTypeOK
<1>1. ASSUME NEW g \in GameId, NEW s \in Session, ReceiveLeave(t, g, s)
      PROVE  VacatedInv'
  <2>1. /\ UNCHANGED <<gameEntity, cardPlayers, nextPlayerId>>
        /\ disturbed' = (disturbed \/ Running({"join", "leave", "deal", "play"}))
        /\ thread[t] = NoHandler /\ g \in DOMAIN gameEntity
    BY <1>1, Zenon DEF ReceiveLeave, tables, ids
  <2>2. /\ thread'[t].op = "leave" /\ thread'[t].pc = "find" /\ thread'[t].gameId = g
        /\ thread'[t].game = gameEntity[g]
        /\ \A u \in Thread : u # t => thread'[u] = thread[u]
    BY <1>0, <1>1 DEF ReceiveLeave
  <2>3. ASSUME ~disturbed', NEW u \in Thread
        PROVE  JoinUndisturbed(u)' /\ LeaveUndisturbed(u)'
    <3>1. \A v \in Thread : thread[v].op \notin {"join", "leave", "deal", "play"}
      BY <2>1, <2>3, ZenonT(40) DEF Running
    <3>2. CASE u = t
      BY <2>1, <2>2, <3>1, <3>2, Zenon DEF JoinUndisturbed, LeaveUndisturbed, Joining, At
    <3>3. CASE u # t
      BY <2>2, <3>1, <3>3, Bystander, Zenon
    <3> QED BY <3>2, <3>3, Zenon
  <2>4. \A c \in Card : cardPlayers'[c] # NoPlayer => cardPlayers'[c] < nextPlayerId'
    BY <2>1, Zenon DEF VacatedInv
  <2> QED BY <2>3, <2>4, ZenonT(40) DEF VacatedInv
<1>2. ASSUME Return(t), UNCHANGED <<gameEntity, cardPlayers, disturbed, nextPlayerId>>
      PROVE  VacatedInv'
  <2>1. thread'[t] = NoHandler /\ \A u \in Thread : u # t => thread'[u] = thread[u]
    BY <1>0, <1>2, Returns, ZenonT(40)
  <2>2. JoinUndisturbed(t)' /\ LeaveUndisturbed(t)' /\ thread'[t].op \notin {"join", "leave", "deal", "play"}
    <3>1. NoHandler.op \notin {"join", "leave", "deal", "play"}
      BY DEF NoHandler
    <3> QED BY <2>1, <3>1, Bystander, Zenon
  <2>3. nextPlayerId' \in Nat /\ nextPlayerId' >= nextPlayerId
    BY <1>0, <1>2
  <2> QED BY <1>2, <2>1, <2>2, <2>3, RowsStay, Zenon
<1>3. CASE LeaveFinds(t)
  <2>1. /\ thread[t] \in LeaveHandler /\ thread[t].op = "leave" /\ thread[t].pc = "find"
        /\ UNCHANGED <<gameEntity, cardPlayers, disturbed, nextPlayerId>>
    BY <1>0, <1>3, HandlerKind, ZenonT(40) DEF LeaveFinds, At, tables, ids
  <2>2. CASE Return(t)
    BY <1>2, <2>1, <2>2, ZenonT(40)
  <2>3. CASE ~Return(t)
    <3>1. PICK p : p = FindPlayerBySessionId(thread[t].session)
      BY Zenon
    <3>2. p \in PlayerId
      <4>1. Cardinality(PlayersBySession(thread[t].session)) = 1
        BY <1>3, <2>3, Zenon DEF LeaveFinds
      <4>2. PlayersBySession(thread[t].session) # {}
        BY <4>1, OneIsSome, Zenon
      <4> QED BY <1>0, <3>1, <4>2, NamedKeys, ZenonT(40)
                 DEF FindPlayerBySessionId, PlayersBySession
    <3>3. PICK seated, deck :
            /\ seated = (p \in {thread[t].game.player1, thread[t].game.player2})
            /\ deck \in IF seated THEN DeckShuffles ELSE {<<>>}
            /\ thread' = [thread EXCEPT
                  ![t].player = p, ![t].game = WithoutPlayer(thread[t].game, p),
                  ![t].todo = deck, ![t].pc = IF seated THEN "deal" ELSE "game"]
      BY <1>3, <2>3, <3>1, ZenonT(40) DEF LeaveFinds
    <3>4. PICK row : row = WithoutPlayer(thread[t].game, p)
      OBVIOUS
    <3>5. thread'[t] = [thread[t] EXCEPT !.player = p, !.game = row, !.todo = deck,
                                         !.pc = IF seated THEN "deal" ELSE "game"]
      BY <1>0, <3>3, <3>4
    <3>6. /\ thread'[t].op = "leave" /\ thread'[t].game = row /\ thread'[t].todo = deck
          /\ thread'[t].pc = (IF seated THEN "deal" ELSE "game")
          /\ thread'[t].player = p /\ thread'[t].gameId = thread[t].gameId
      BY <2>1, <3>5 DEF LeaveHandler
    <3>7. \A u \in Thread : u # t => thread'[u] = thread[u]
      BY <1>0, <3>3
    <3>8. seated => Range(deck) = Card
      BY <3>3, WholeDeck
    <3>9. ~seated => deck = <<>>
      BY <3>3, Zenon
    <3>10. ASSUME ~disturbed PROVE JoinUndisturbed(t)' /\ LeaveUndisturbed(t)'
      <4>1. LeaveUndisturbed(t)
        BY <3>10 DEF VacatedInv
      <4>2. PICK g : g = thread[t].gameId
        BY Zenon
      <4>3. /\ g \in DOMAIN gameEntity /\ thread[t].game = gameEntity[g]
            /\ \A u \in Thread \ {t} : thread[u].op \notin {"join", "leave", "deal", "play"}
        BY <2>1, <4>1, <4>2, ZenonT(40) DEF LeaveUndisturbed
      <4>4. row = WithoutPlayer(gameEntity[g], p)
        BY <3>4, <4>3, Zenon
      <4>5. (p \in {gameEntity[g].player1, gameEntity[g].player2}) = seated
        BY <3>3, <4>3
      <4>6. WithoutPlayer(gameEntity[g], p)' = WithoutPlayer(gameEntity[g], p)
        BY <2>1, Zenon DEF WithoutPlayer
      <4>7. /\ \A u \in Thread \ {t} : thread'[u].op \notin {"join", "leave", "deal", "play"}
            /\ thread'[t].gameId \in DOMAIN gameEntity'
            /\ thread'[t].player \in PlayerId
            /\ thread'[t].game = WithoutPlayer(gameEntity[thread[t].gameId], thread[t].player)'
        <5>1. WithoutPlayer(gameEntity[thread[t].gameId], thread[t].player)'
                = WithoutPlayer(gameEntity[g], p)'
          BY <3>6, <4>2, Zenon DEF WithoutPlayer
        <5> QED BY <2>1, <3>2, <3>6, <3>7, <4>2, <4>3, <4>4, <4>6, <5>1, ZenonT(40)
      <4>8. /\ thread'[t].player \in {gameEntity'[thread'[t].gameId].player1,
                                      gameEntity'[thread'[t].gameId].player2} =>
                  \A c \in Card \ Range(thread'[t].todo) : cardPlayers'[c] # thread'[t].player
            /\ thread'[t].pc = "game" => thread'[t].todo = <<>>
            /\ thread'[t].pc # "find" /\ thread'[t].pc # "delete"
        BY <2>1, <3>6, <3>8, <3>9, <4>2, <4>5, ZenonT(40)
      <4>9. LeaveUndisturbed(t)'
        BY <3>6, <4>7, <4>8, Zenon DEF LeaveUndisturbed
      <4> QED BY <3>6, <4>9, Zenon DEF JoinUndisturbed, Joining, At
    <3>11. nextPlayerId' \in Nat /\ nextPlayerId' >= nextPlayerId
      BY <1>0, <2>1
    <3> QED BY <2>1, <3>6, <3>7, <3>10, <3>11, RowsStay, Zenon
  <2> QED BY <2>2, <2>3, Zenon
<1>4. CASE LeaveDeals(t)
  <2>1. /\ thread[t] \in LeaveHandler /\ thread[t].op = "leave" /\ thread[t].pc = "deal"
        /\ UNCHANGED <<gameEntity, disturbed, nextPlayerId>>
    BY <1>0, <1>4, HandlerKind, Zenon DEF LeaveDeals, At, ids
  <2>2. CASE Return(t) /\ UNCHANGED cards
    BY <1>2, <2>1, <2>2, Zenon DEF cards
  <2>3. CASE ~(Return(t) /\ UNCHANGED cards)
    <3>1. PICK todo \in Seq(Card) : todo = thread[t].todo /\ todo # <<>>
      BY <1>0, <2>1, Zenon DEF RowsInv, RowInHand, LeaveHandler, At
    <3>2. PICK i : i = 2 * HalfDeck - Len(todo)
      OBVIOUS
    <3>3. PICK owner :
            owner = IF i < HalfDeck THEN thread[t].game.player1 ELSE thread[t].game.player2
      OBVIOUS
    <3>4. /\ owner = NoPlayer \/ owner \in DOMAIN playerEntity
          /\ cardPlayers' = [cardPlayers EXCEPT ![Head(todo)] = owner]
          /\ thread' = [thread EXCEPT
                ![t].todo = Tail(todo),
                ![t].pc = IF Len(todo) = 1 THEN "game" ELSE "deal"]
      BY <1>4, <2>3, <3>1, <3>2, <3>3, Zenon DEF LeaveDeals
    <3>5. thread'[t] = [thread[t] EXCEPT !.todo = Tail(todo),
                                         !.pc = IF Len(todo) = 1 THEN "game" ELSE "deal"]
      BY <1>0, <3>4
    <3>6. /\ thread'[t].op = "leave" /\ thread'[t].game = thread[t].game
          /\ thread'[t].player = thread[t].player /\ thread'[t].gameId = thread[t].gameId
          /\ thread'[t].todo = Tail(todo)
          /\ thread'[t].pc = IF Len(todo) = 1 THEN "game" ELSE "deal"
      BY <2>1, <3>5, Zenon DEF LeaveHandler
    <3>7. \A u \in Thread : u # t => thread'[u] = thread[u]
      BY <1>0, <3>4
    <3>8. /\ cardPlayers \in [Card -> PlayerId \cup {NoPlayer}] /\ Head(todo) \in Card
          /\ \A c \in Card : c # Head(todo) => cardPlayers'[c] = cardPlayers[c]
          /\ cardPlayers'[Head(todo)] = owner
      BY <1>0, <3>1, <3>4, HeadTailProperties, ZenonT(40)
         DEF RowsInv, GameThreadsTypeOK, TypeOK, TablesTypeOK
    <3>9. \A c \in Card : cardPlayers'[c] # NoPlayer => cardPlayers'[c] < nextPlayerId'
      BY <1>0, <2>1, <3>4, <3>8, NamedKeys, ZenonT(40) DEF VacatedInv
    <3>10. /\ \A c \in Card : c \notin Range(Tail(todo)) => c = Head(todo) \/ c \notin Range(todo)
           /\ Len(todo) = 1 => Tail(todo) = <<>>
      BY <3>1, WorkedOff, Zenon
    <3>11. ASSUME ~disturbed, NEW u \in Thread
           PROVE  JoinUndisturbed(u)' /\ LeaveUndisturbed(u)'
      <4>1. LeaveUndisturbed(t)
        BY <3>11 DEF VacatedInv
      <4>2. PICK g, p, row : g = thread[t].gameId /\ p = thread[t].player /\ row = thread[t].game
        BY ZenonT(40)
      <4>3. /\ g \in DOMAIN gameEntity /\ p \in PlayerId
            /\ row = WithoutPlayer(gameEntity[g], p)
            /\ \A v \in Thread \ {t} : thread[v].op \notin {"join", "leave", "deal", "play"}
            /\ p \in {gameEntity[g].player1, gameEntity[g].player2} =>
                  \A c \in Card \ Range(todo) : cardPlayers[c] # p
        BY <2>1, <3>1, <4>1, <4>2, Zenon DEF LeaveUndisturbed
      <4>4. p \notin {row.player1, row.player2}
        BY <1>0, <4>3, NamedKeys, WithoutPlayerRow, ZenonT(40)
      <4>5. owner # p
        BY <3>3, <4>2, <4>4, Zenon
      <4>6. WithoutPlayer(gameEntity[thread[t].gameId], thread[t].player)'
              = WithoutPlayer(gameEntity[g], p)
        BY <2>1, <3>6, <4>2, Zenon DEF WithoutPlayer
      <4>7. p \in {gameEntity[g].player1, gameEntity[g].player2} =>
               \A c \in Card \ Range(Tail(todo)) : cardPlayers'[c] # p
        BY <3>8, <3>10, <4>3, <4>5, ZenonT(40)
      <4>8. LeaveUndisturbed(t)'
        BY <2>1, <3>6, <3>7, <3>10, <4>2, <4>3, <4>6, <4>7, ZenonT(40) DEF LeaveUndisturbed
      <4>9. CASE u = t
        BY <3>6, <4>8, <4>9, ZenonT(40) DEF JoinUndisturbed, Joining, At
      <4>10. CASE u # t
        BY <3>7, <4>3, <4>10, Bystander, ZenonT(40)
      <4> QED BY <4>9, <4>10, Zenon
    <3> QED BY <2>1, <3>9, <3>11, Zenon DEF VacatedInv
  <2> QED BY <2>2, <2>3
<1> QED BY <1>1, <1>3, <1>4, Zenon

\* leaveGame saves or deletes the game: the seat it empties is of its player,
\* whose cards are dealt.
LEMMA LeaveSavesVacated ==
    ASSUME VacatedInv, RowsInv', NEW t \in Thread, LeaveSaves(t)
    PROVE  VacatedInv' /\ VacatesEmptyHanded
<1>0. RowsInv /\ thread \in [Thread -> Handler] /\ nextPlayerId \in Nat
  BY DEF VacatedInv, RowsInv, GameThreadsTypeOK
<1>1. /\ thread[t] \in LeaveHandler /\ thread[t].op = "leave" /\ thread[t].pc = "game"
      /\ thread[t].game \in GameEntity
      /\ UNCHANGED <<cardPlayers, disturbed, nextPlayerId>>
  <2>1. /\ thread[t].op = "leave" /\ thread[t].pc = "game"
        /\ UNCHANGED <<cardPlayers, disturbed, nextPlayerId>>
    BY Zenon DEF LeaveSaves, At, cards
  <2>2. thread[t] \in LeaveHandler
    BY <1>0, <2>1, HandlerKind, Zenon
  <2> QED BY <2>1, <2>2, Zenon DEF LeaveHandler
<1>2. \A c \in Card : cardPlayers'[c] # NoPlayer => cardPlayers'[c] < nextPlayerId'
  BY <1>1, Zenon DEF VacatedInv
<1>3. CASE disturbed
  BY <1>1, <1>2, <1>3, Zenon DEF VacatedInv, VacatesEmptyHanded
<1>4. CASE ~disturbed
  <2>1. PICK g, p, row, game :
          /\ g = thread[t].gameId /\ p = thread[t].player /\ row = thread[t].game
          /\ game = [row EXCEPT !.gameState = "GAME_ENDED"]
    BY Zenon
  <2>2. /\ g \in DOMAIN gameEntity /\ p \in PlayerId
        /\ row = WithoutPlayer(gameEntity[g], p) /\ row \in GameEntity
        /\ \A u \in Thread \ {t} : thread[u].op \notin {"join", "leave", "deal", "play"}
        /\ p \in {gameEntity[g].player1, gameEntity[g].player2} => HoldsNothing(p)
    <3>1. LeaveUndisturbed(t)
      BY <1>4 DEF VacatedInv
    <3>2. Range(<<>>) = {}
      BY DEF Range
    <3> QED BY <1>1, <2>1, <3>1, <3>2, ZenonT(40) DEF LeaveUndisturbed, HoldsNothing
  <2>3. game \in GameEntity /\ game.player1 = row.player1 /\ game.player2 = row.player2
    BY <2>1, <2>2 DEF GameEntity, GameState
  <2>4. \A q \in {gameEntity[g].player1, gameEntity[g].player2} :
           q # p => q \in {game.player1, game.player2}
    <3>1. gameEntity[g] \in GameEntity /\ RowCoherent(gameEntity[g])
      BY <1>0, <2>2, NamedKeys, ZenonT(40)
    <3>2. \A q \in {gameEntity[g].player1, gameEntity[g].player2} :
             q # p => q \in {row.player1, row.player2}
      BY <2>2, <3>1, WithoutPlayerRow, SMT, Z3
    <3> QED BY <2>3, <3>2, Zenon
  <2>5. /\ \A u \in Thread : u # t => thread'[u] = thread[u]
        /\ \/ thread'[t].op = "leave" /\ thread'[t].pc = "delete"
           \/ thread'[t].op = "none"
    <3>1. CASE thread' = [thread EXCEPT ![t].pc = "delete"]
      <4>1. thread'[t] = [thread[t] EXCEPT !.pc = "delete"]
        BY <1>0, <3>1
      <4>2. thread'[t].op = "leave" /\ thread'[t].pc = "delete"
        BY <1>1, <4>1, Zenon DEF LeaveHandler
      <4> QED BY <1>0, <3>1, <4>2, SMT, Z3
    <3>2. CASE Return(t)
      BY <1>0, <3>2, Returns, ReturnedUndisturbed, Zenon
    <3> QED BY <3>1, <3>2 DEF LeaveSaves
  <2>6. ASSUME NEW u \in Thread PROVE JoinUndisturbed(u)' /\ LeaveUndisturbed(u)'
    <3>1. CASE u = t /\ thread'[t].op = "leave"
      BY <2>2, <2>5, <3>1, ZenonT(40) DEF JoinUndisturbed, LeaveUndisturbed, Joining, At
    <3>2. CASE u # t \/ thread'[t].op # "leave"
      BY <2>2, <2>5, <3>2, Bystander, ZenonT(40)
    <3> QED BY <3>1, <3>2, Zenon
  <2>7. VacatedInv'
    BY <1>2, <2>6, ZenonT(40) DEF VacatedInv
  <2>8. /\ \A h \in DOMAIN gameEntity : h # g =>
              h \in DOMAIN gameEntity' /\ gameEntity'[h] = gameEntity[h]
        /\ \/ g \in DOMAIN gameEntity' /\ gameEntity'[g] \in {game, gameEntity[g]}
           \/ game.player1 = NoPlayer /\ game.player2 = NoPlayer
    <3>1. CASE SavesGame(g, game)
      BY <1>0, <2>2, <2>3, <3>1, SavesGameRows, Zenon
    <3>2. CASE UNCHANGED gameEntity
      BY <2>2, <3>2, Zenon
    <3>3. CASE /\ game.player1 = NoPlayer /\ game.player2 = NoPlayer
               /\ gameEntity' = Delete(gameEntity, g)
      BY <3>3, Zenon DEF Delete, Restrict
    <3> QED BY <2>1, <3>1, <3>2, <3>3, Zenon DEF LeaveSaves
  <2>9. VacatesEmptyHanded
    <3> SUFFICES ASSUME NEW h \in DOMAIN gameEntity, NEW q \in DOMAIN playerEntity,
                        Vacates(h, q)
                 PROVE  \A c \in Card : cardPlayers'[c] # q
      BY DEF VacatesEmptyHanded
    <3>1. h = g /\ q \in {gameEntity[g].player1, gameEntity[g].player2} \ {NoPlayer}
      BY <2>8, Zenon DEF Vacates, Seats
    <3>2. q = p
      BY <2>4, <2>8, <3>1, Zenon DEF Vacates, Seats
    <3> QED BY <1>1, <2>2, <3>1, <3>2, Zenon DEF HoldsNothing
  <2> QED BY <2>7, <2>9
<1> QED BY <1>3, <1>4, Zenon

\* leaveGame deletes the player's row.
LEMMA LeaveDeletesVacated ==
    ASSUME VacatedInv, RowsInv', NEW t \in Thread, LeaveDeletes(t)
    PROVE  VacatedInv'
<1>0. RowsInv /\ thread \in [Thread -> Handler] /\ nextPlayerId \in Nat
  BY DEF VacatedInv, RowsInv, GameThreadsTypeOK
<1>1. UNCHANGED <<gameEntity, cardPlayers, disturbed, nextPlayerId>>
  BY DEF LeaveDeletes, cards, ids
<1>2. thread'[t] = NoHandler /\ \A u \in Thread : u # t => thread'[u] = thread[u]
  BY <1>0, Returns, Zenon DEF LeaveDeletes
<1>3. JoinUndisturbed(t)' /\ LeaveUndisturbed(t)' /\ thread'[t].op \notin {"join", "leave", "deal", "play"}
  BY <1>2, ReturnedUndisturbed, Zenon
<1>4. nextPlayerId' \in Nat /\ nextPlayerId' >= nextPlayerId
  BY <1>0, <1>1
<1> QED BY <1>1, <1>2, <1>3, <1>4, RowsStay, ZenonT(40)

\* A deal or a play begins or saves: beside a join or a leave it disturbs.
LEMMA CardsVacated ==
    ASSUME VacatedInv, RowsInv', NEW t \in Thread,
           \/ \E g \in GameId, s \in Session, seat \in {1, 2} : ReceiveDeal(t, g, s, seat)
           \/ \E p \in PlayerId : ReceivePlay(t, p)
           \/ SavesCard(t)
    PROVE  VacatedInv' /\ UNCHANGED gameEntity
<1>0. RowsInv /\ thread \in [Thread -> Handler]
  BY Zenon DEF VacatedInv, RowsInv, GameThreadsTypeOK
<1>1. ASSUME NEW op \in {"deal", "play"}, NEW player, NEW rows,
             CardsHandlerFor(t, op, player, rows)
      PROVE  VacatedInv' /\ UNCHANGED gameEntity
  <2>1. /\ UNCHANGED <<gameEntity, cardPlayers, nextPlayerId>>
        /\ disturbed' = (disturbed \/ Running({"join", "leave"}))
    BY <1>1, Zenon DEF CardsHandlerFor, tables, ids
  <2>2. thread'[t].op = op /\ \A u \in Thread : u # t => thread'[u] = thread[u]
    BY <1>0, <1>1, Zenon DEF CardsHandlerFor
  <2>3. ASSUME ~disturbed', NEW u \in Thread
        PROVE  JoinUndisturbed(u)' /\ LeaveUndisturbed(u)'
    <3>1. \A v \in Thread : thread[v].op \notin {"join", "leave"}
      BY <2>1, <2>3, Zenon DEF Running
    <3>2. op \notin {"join", "leave"}
      OBVIOUS
    <3>3. thread'[u].op \notin {"join", "leave"}
      BY <2>2, <3>1, <3>2, Zenon
    <3> QED BY <3>3, Bystander, Zenon
  <2>4. \A c \in Card : cardPlayers'[c] # NoPlayer => cardPlayers'[c] < nextPlayerId'
    BY <2>1, Zenon DEF VacatedInv
  <2> QED BY <2>1, <2>3, <2>4, Zenon DEF VacatedInv
<1>2. CASE SavesCard(t)
  <2>1. /\ thread[t].op \in {"deal", "play"}
        /\ UNCHANGED <<gameEntity, disturbed, nextPlayerId>>
        /\ \A u \in Thread : u # t => thread'[u] = thread[u]
        /\ thread'[t].op \in {"deal", "play", "none"}
        /\ \A c \in Card : \/ cardPlayers'[c] = cardPlayers[c]
                            \/ cardPlayers'[c] = NoPlayer
                            \/ cardPlayers'[c] < nextPlayerId
    BY <1>0, <1>2, CardSaved, Zenon DEF ids
  <2>2. ASSUME ~disturbed, NEW u \in Thread
        PROVE  JoinUndisturbed(u)' /\ LeaveUndisturbed(u)'
    <3>1. JoinUndisturbed(u) /\ LeaveUndisturbed(u)
      BY <2>2, Zenon DEF VacatedInv
    <3>2. thread[u].op \notin {"join", "leave"}
      <4>1. CASE u = t
        BY <2>1, <4>1
      <4>2. CASE u # t
        BY <2>1, <3>1, <4>2, Zenon DEF JoinUndisturbed, LeaveUndisturbed
      <4> QED BY <4>1, <4>2, Zenon
    <3>3. thread'[t].op \notin {"join", "leave"}
      BY <2>1
    <3>4. thread'[u].op \notin {"join", "leave"}
      BY <2>1, <3>2, <3>3, Zenon
    <3> QED BY <3>4, Bystander, Zenon
  <2>3. \A c \in Card : cardPlayers'[c] # NoPlayer => cardPlayers'[c] < nextPlayerId'
    BY <2>1, Zenon DEF VacatedInv
  <2> QED BY <2>1, <2>2, <2>3, Zenon DEF VacatedInv
<1>3. ASSUME NEW g \in GameId, NEW s \in Session, NEW seat \in {1, 2}, ReceiveDeal(t, g, s, seat)
      PROVE  VacatedInv' /\ UNCHANGED gameEntity
  <2>1. PICK rows : CardsHandlerFor(t, "deal", FindPlayerBySessionId(s), rows)
    BY <1>3, Zenon DEF ReceiveDeal
  <2> QED BY <1>1, <2>1, Zenon
<1>4. ASSUME NEW p \in PlayerId, ReceivePlay(t, p)
      PROVE  VacatedInv' /\ UNCHANGED gameEntity
  <2>1. PICK rows : CardsHandlerFor(t, "play", p, rows)
    BY <1>4, Zenon DEF ReceivePlay
  <2> QED BY <1>1, <2>1, Zenon
<1> QED BY <1>2, <1>3, <1>4, Zenon

LEMMA VacatedInit == Init => VacatedInv
<1> SUFFICES ASSUME Init PROVE VacatedInv
  OBVIOUS
<1>1. \A t \in Thread : thread[t] = NoHandler
  BY ZenonT(40) DEF Init
<1>2. \A t \in Thread : JoinUndisturbed(t) /\ LeaveUndisturbed(t)
  <2>1. \A t \in Thread : thread[t].op = "none"
    BY <1>1 DEF NoHandler
  <2> QED BY <2>1, Zenon DEF JoinUndisturbed, LeaveUndisturbed, Joining, At
<1>3. \A c \in Card : cardPlayers[c] = NoPlayer
  BY DEF Init, GamesInit, SeededCards
<1> QED BY <1>2, <1>3, RowsInit, Zenon DEF VacatedInv

\* Any step keeps VacatedInv, and nobody who loses a seat by it holds a card.
LEMMA VacatedStep ==
    VacatedInv /\ [Next]_vars => VacatedInv' /\ (UNCHANGED vars \/ VacatesEmptyHanded)
<1> SUFFICES ASSUME VacatedInv, [Next]_vars
             PROVE  VacatedInv' /\ (UNCHANGED vars \/ VacatesEmptyHanded)
  OBVIOUS
<1>0. RowsInv' /\ RowsInv
  BY RowsStep, Zenon DEF VacatedInv
<1>1. CASE UNCHANGED vars
  <2>1. UNCHANGED <<gameEntity, cardPlayers, thread, disturbed, nextPlayerId>>
    BY <1>1 DEF vars, tables, ids
  <2>2. ASSUME ~disturbed, NEW t \in Thread PROVE JoinUndisturbed(t)' /\ LeaveUndisturbed(t)'
    <3>1. JoinUndisturbed(t) /\ LeaveUndisturbed(t)
      BY <2>2, Zenon DEF VacatedInv
    <3>2. JoinUndisturbed(t)'
      BY <2>1, <3>1, Zenon DEF JoinUndisturbed, Joining, At, HoldsNothing
    <3>3. LeaveUndisturbed(t)'
      BY <2>1, <3>1, ZenonT(40) DEF LeaveUndisturbed
    <3> QED BY <3>2, <3>3, Zenon
  <2> QED BY <1>0, <1>1, <2>1, <2>2, Zenon DEF VacatedInv
<1>2. ASSUME \A g \in DOMAIN gameEntity : g \in DOMAIN gameEntity' /\ gameEntity'[g] = gameEntity[g]
      PROVE  VacatesEmptyHanded
  BY <1>2, Zenon DEF VacatesEmptyHanded, Vacates, Seats
<1>3. ASSUME NEW t \in Thread,
             \/ \E s \in Session, name \in Name : ReceiveCreate(t, name, s)
             \/ CreateNewGame(t)
      PROVE  VacatedInv' /\ VacatesEmptyHanded
  <2>1. nextGameId \notin DOMAIN gameEntity
    <3>1. nextGameId \in Nat
      BY <1>0, Zenon DEF RowsInv, GameThreadsTypeOK
    <3> QED BY <1>0, <3>1, NamedKeys, Counting, Zenon
  <2>2. \A g \in DOMAIN gameEntity : g \in DOMAIN gameEntity' /\ gameEntity'[g] = gameEntity[g]
    BY <1>3, <2>1, Zenon DEF ReceiveCreate, CreateNewGame, Insert
  <2> QED BY <1>0, <1>2, <1>3, <2>2, CreateVacated, ZenonT(40)
<1>4. ASSUME NEW t \in Thread,
             \/ \E g \in GameId, s \in Session, name \in Name : ReceiveJoin(t, g, name, s)
             \/ JoinCreatesPlayer(t) \/ JoinReads(t)
      PROVE  VacatedInv' /\ VacatesEmptyHanded
  <2>1. UNCHANGED gameEntity
    BY <1>4 DEF ReceiveJoin, JoinCreatesPlayer, JoinReads, tables
  <2> QED BY <1>0, <1>2, <1>4, <2>1, JoinVacated, ZenonT(40)
<1>5. ASSUME NEW t \in Thread,
             \/ \E g \in GameId, s \in Session : ReceiveLeave(t, g, s)
             \/ LeaveFinds(t) \/ LeaveDeals(t)
      PROVE  VacatedInv' /\ VacatesEmptyHanded
  <2>1. UNCHANGED gameEntity
    BY <1>5, Zenon DEF ReceiveLeave, LeaveFinds, LeaveDeals, tables
  <2> QED BY <1>0, <1>2, <1>5, <2>1, LeaveVacated, Zenon
<1>6. ASSUME NEW t \in Thread, LeaveDeletes(t) PROVE VacatedInv' /\ VacatesEmptyHanded
  <2>1. UNCHANGED gameEntity
    BY <1>6 DEF LeaveDeletes
  <2> QED BY <1>0, <1>2, <1>6, <2>1, LeaveDeletesVacated, Zenon
<1>7. ASSUME NEW g \in GameId, GamePlayPage(g) PROVE VacatedInv' /\ VacatesEmptyHanded
  <2>1. UNCHANGED <<gameEntity, cardPlayers, thread, disturbed, nextPlayerId>>
    BY <1>7, Zenon DEF GamePlayPage, tables, ids
  <2>2. ASSUME ~disturbed, NEW t \in Thread PROVE JoinUndisturbed(t)' /\ LeaveUndisturbed(t)'
    <3>1. JoinUndisturbed(t) /\ LeaveUndisturbed(t)
      BY <2>2, Zenon DEF VacatedInv
    <3>2. JoinUndisturbed(t)'
      BY <2>1, <3>1, Zenon DEF JoinUndisturbed, Joining, At, HoldsNothing
    <3>3. LeaveUndisturbed(t)'
      BY <2>1, <3>1, Zenon DEF LeaveUndisturbed
    <3> QED BY <3>2, <3>3
  <2> QED BY <1>0, <1>2, <2>1, <2>2, ZenonT(40) DEF VacatedInv
<1>8. CASE Crash
  <2>1. UNCHANGED <<gameEntity, cardPlayers, disturbed, nextPlayerId>>
    BY <1>8, Zenon DEF Crash, Restart, tables, ids
  <2>2. \A t \in Thread : JoinUndisturbed(t)' /\ LeaveUndisturbed(t)'
    <3>1. \A t \in Thread : thread'[t].op = "none"
      BY <1>8 DEF Crash, NoHandler
    <3> QED BY <3>1, Bystander, Zenon
  <2> QED BY <1>0, <1>2, <2>1, <2>2, ZenonT(40) DEF VacatedInv
<1>9. ASSUME NEW t \in Thread,
             \/ \E g \in GameId, s \in Session, seat \in {1, 2} : ReceiveDeal(t, g, s, seat)
             \/ \E p \in PlayerId : ReceivePlay(t, p)
             \/ SavesCard(t)
      PROVE  VacatedInv' /\ VacatesEmptyHanded
  BY <1>0, <1>2, <1>9, CardsVacated, Zenon
<1>10. ASSUME NEW t \in Thread, Receive(t) \/ Run(t) PROVE VacatedInv' /\ VacatesEmptyHanded
  BY <1>0, <1>3, <1>4, <1>5, <1>6, <1>9, <1>10, JoinSavesVacated, LeaveSavesVacated, Zenon
     DEF Receive, Run
<1> QED BY <1>1, <1>7, <1>8, <1>10, Zenon DEF Next

\* Whoever loses a seat holds no card any more, as long as leaves run alone and
\* joins without deals and plays beside them, for any number of threads, games
\* and cards and wherever the server stops between two saves of leaveGame.
THEOREM GameThreadsVacatedHoldsNothing == Spec => VacatedHoldsNothing
<1>1. VacatedInv /\ [Next]_vars => [VacatesEmptyHanded]_vars
  BY VacatedStep
<1>2. VacatedInv /\ [Next]_vars => VacatedInv'
  BY VacatedStep
<1> QED BY <1>1, <1>2, VacatedInit, PTL DEF Spec, VacatedHoldsNothing
=============================================================================

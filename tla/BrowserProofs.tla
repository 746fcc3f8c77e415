---------------------------- MODULE BrowserProofs ----------------------------
(***************************************************************************)
(* Any number of browsers, games and sessions: the buttons a page shows    *)
(* are its own player's, and the first seat is lost only through "Leave"   *)
(* in the first player's browser, however old the pages are that others    *)
(* click on.                                                               *)
(***************************************************************************)
EXTENDS Browser, ServiceProofs, FiniteSetTheorems

-----------------------------------------------------------------------------
(* What the handlers do to the rows a page was rendered from.              *)

\* Keys are never used again, a row keeps its session, a game gets no other
\* first player, and no row goes whose session another row has too.
RowsMove ==
    /\ nextGameId' \in Nat /\ nextGameId <= nextGameId'
    /\ nextPlayerId' \in Nat /\ nextPlayerId <= nextPlayerId'
    /\ \A g \in DOMAIN gameEntity' :
          \/ g \notin DOMAIN gameEntity /\ nextGameId <= g
          \/ /\ g \in DOMAIN gameEntity
             /\ gameEntity'[g].player1 \in {gameEntity[g].player1, NoPlayer}
    /\ \A p \in DOMAIN playerEntity' :
          \/ p \notin DOMAIN playerEntity /\ nextPlayerId <= p
          \/ p \in DOMAIN playerEntity /\ playerEntity'[p] = playerEntity[p]
    /\ \A p, q \in DOMAIN playerEntity :
          p # q /\ playerEntity[p].sessionId = playerEntity[q].sessionId
             => p \in DOMAIN playerEntity'

LEMMA NothingMoves ==
    ASSUME GamesInv, UNCHANGED <<playerEntity, gameEntity, ids>>
    PROVE  RowsMove
BY DEF RowsMove, GamesInv, ids

LEMMA CreateMoves ==
    ASSUME GamesInv, NEW name \in Name, NEW s \in Session, CreateGameAndPlayer(name, s)
    PROVE  RowsMove
<1>1. nextPlayerId \in Nat /\ nextGameId \in Nat
  BY DEF GamesInv
<1>2. nextPlayerId \notin DOMAIN playerEntity /\ nextGameId \notin DOMAIN gameEntity
  BY <1>1, NextPlayerFresh DEF GamesInv, IdsFresh
<1>3. /\ nextGameId' = nextGameId + 1 /\ nextPlayerId' = nextPlayerId + 1
      /\ DOMAIN gameEntity' = DOMAIN gameEntity \cup {nextGameId}
      /\ \A g \in DOMAIN gameEntity : gameEntity'[g] = gameEntity[g]
      /\ DOMAIN playerEntity' = DOMAIN playerEntity \cup {nextPlayerId}
      /\ \A p \in DOMAIN playerEntity : playerEntity'[p] = playerEntity[p]
  BY <1>2 DEF CreateGameAndPlayer, CreateNewPlayer, Insert
<1> QED BY <1>1, <1>2, <1>3 DEF RowsMove

LEMMA JoinMoves ==
    ASSUME GamesInv, NEW g, NEW name \in Name, NEW s \in Session, JoinGame(g, name, s)
    PROVE  RowsMove
<1>1. nextPlayerId \in Nat /\ nextGameId \in Nat
  BY DEF GamesInv
<1>2. nextPlayerId \notin DOMAIN playerEntity
  BY NextPlayerFresh
<1>3. /\ nextGameId' = nextGameId /\ nextPlayerId' = nextPlayerId + 1
      /\ DOMAIN playerEntity' = DOMAIN playerEntity \cup {nextPlayerId}
      /\ \A p \in DOMAIN playerEntity : playerEntity'[p] = playerEntity[p]
  BY <1>2 DEF JoinGame, CreateNewPlayer, Insert
<1>4. /\ DOMAIN gameEntity' = DOMAIN gameEntity
      /\ \A h \in DOMAIN gameEntity : gameEntity'[h].player1 = gameEntity[h].player1
  BY JoinGameInv, Zenon
<1> QED BY <1>1, <1>2, <1>3, <1>4 DEF RowsMove

\* Two rows of a session are too many for findPlayerBySessionId.
LEMMA TwoRowsThrow ==
    ASSUME GamesInv, NEW s, NEW p \in PlayersBySession(s), NEW q \in PlayersBySession(s),
           p # q
    PROVE  ~AtMostOneRow(s)
<1>1. PICK n \in Nat : n = nextPlayerId
  BY DEF GamesInv
<1>2. DOMAIN playerEntity \subseteq 0..n
  BY <1>1, GameServiceAssumption
     DEF GamesInv, IdsFresh, ServiceInv, TypeOK, TablesTypeOK
<1>3. IsFiniteSet(PlayersBySession(s))
  <2>1. IsFiniteSet(0..n)
    BY <1>1, FS_Interval
  <2> QED BY <1>2, <2>1, FS_Subset DEF PlayersBySession
<1>4. Cardinality({p, q}) = 2
  <2>1. IsFiniteSet({p}) /\ Cardinality({p}) = 1
    BY FS_Singleton, Zenon
  <2>2. {p, q} = {p} \cup {q} /\ q \notin {p}
    OBVIOUS
  <2> QED BY <2>1, <2>2, FS_AddElement
<1>5. {p, q} \subseteq PlayersBySession(s)
  OBVIOUS
<1>6. Cardinality({p, q}) <= Cardinality(PlayersBySession(s))
  BY <1>3, <1>5, FS_Subset
<1>7. Cardinality(PlayersBySession(s)) \in Nat
  BY <1>3, FS_CardinalityType
<1> QED BY <1>4, <1>6, <1>7 DEF AtMostOneRow

LEMMA LeaveMoves ==
    ASSUME GamesInv, NEW g, NEW s, LeaveGame(g, s)
    PROVE  RowsMove
<1>1. PICK p : p = FindPlayerBySessionId(s)
  OBVIOUS
<1>2. p \in DOMAIN playerEntity /\ playerEntity[p].sessionId = s /\ AtMostOneRow(s)
  BY <1>1, LeaverHasRow, Zenon DEF LeaveGame
<1>3. UNCHANGED ids /\ nextPlayerId \in Nat /\ nextGameId \in Nat
  BY DEF GamesInv, LeaveGame
<1>4. playerEntity' = playerEntity \/ playerEntity' = Delete(playerEntity, p)
  BY <1>1, Zenon DEF LeaveGame
<1>5. /\ DOMAIN playerEntity' \subseteq DOMAIN playerEntity
      /\ DOMAIN playerEntity \ {p} \subseteq DOMAIN playerEntity'
      /\ \A q \in DOMAIN playerEntity' : playerEntity'[q] = playerEntity[q]
  BY <1>4 DEF Delete, Restrict
<1>6. \A q, r \in DOMAIN playerEntity :
         q # r /\ playerEntity[q].sessionId = playerEntity[r].sessionId
            => q \in DOMAIN playerEntity'
  BY <1>2, <1>5, TwoRowsThrow DEF PlayersBySession
<1>7. \A h \in DOMAIN gameEntity' :
         /\ h \in DOMAIN gameEntity
         /\ gameEntity'[h].player1 \in {gameEntity[h].player1, NoPlayer}
  <2>1. /\ gameEntity \in [DOMAIN gameEntity -> GameEntity] /\ g \in DOMAIN gameEntity
        /\ WithoutPlayer(gameEntity[g], p) \in GameEntity
        /\ WithoutPlayer(gameEntity[g], p).player1 \in {gameEntity[g].player1, NoPlayer}
    <3>1. gameEntity \in [DOMAIN gameEntity -> GameEntity] /\ g \in DOMAIN gameEntity
      BY DEF GamesInv, ServiceInv, TypeOK, TablesTypeOK, LeaveGame
    <3>2. gameEntity[g] \in GameEntity
      BY <3>1
    <3> QED BY <3>1, <3>2, Zenon DEF WithoutPlayer, GameEntity
  <2>2. \/ gameEntity' = Delete(gameEntity, g)
        \/ gameEntity' = [gameEntity EXCEPT ![g] =
              [WithoutPlayer(gameEntity[g], p) EXCEPT !.gameState = "GAME_ENDED"]]
    BY <1>1, Zenon DEF LeaveGame
  <2>3. [WithoutPlayer(gameEntity[g], p) EXCEPT !.gameState = "GAME_ENDED"].player1
           = WithoutPlayer(gameEntity[g], p).player1
    BY <2>1 DEF GameEntity
  <2>4. CASE gameEntity' = Delete(gameEntity, g)
    BY <2>4 DEF Delete, Restrict
  <2>5. CASE gameEntity' = [gameEntity EXCEPT ![g] =
              [WithoutPlayer(gameEntity[g], p) EXCEPT !.gameState = "GAME_ENDED"]]
    BY <2>1, <2>3, <2>5
  <2> QED BY <2>2, <2>4, <2>5
<1> QED BY <1>3, <1>5, <1>6, <1>7 DEF RowsMove, ids

\* A page that is true stays so.
LEMMA PageStaysTrue ==
    ASSUME GamesInv, RowsMove, NEW p \in Page, PageHolds(p)
    PROVE  PageHolds(p)'
<1>1. p.gameId \in Nat /\ p.player1 \in Nat /\ nextGameId \in Nat /\ nextPlayerId \in Nat
  BY GameServiceAssumption, Zenon DEF Page, GamesInv
<1>2. p.gameId < nextGameId' /\ p.player1 < nextPlayerId'
  BY <1>1 DEF RowsMove, PageHolds
<1>3. p.gameId \in DOMAIN gameEntity' => gameEntity'[p.gameId].player1 \in {p.player1, NoPlayer}
  BY <1>1 DEF RowsMove, PageHolds
<1>4. p.player1 \in DOMAIN playerEntity' =>
         playerEntity'[p.player1].sessionId = p.player1Session
  BY <1>1 DEF RowsMove, PageHolds
<1>5. ASSUME p.player1Session = p.player2Session
      PROVE  (\E q, r \in PlayersBySession(p.player1Session) : q # r)'
  <2>1. PICK q, r \in DOMAIN playerEntity :
           /\ playerEntity[q].sessionId = p.player1Session
           /\ playerEntity[r].sessionId = p.player1Session /\ q # r
    BY <1>5 DEF PageHolds, PlayersBySession
  <2>2. /\ q \in DOMAIN playerEntity' /\ playerEntity'[q] = playerEntity[q]
        /\ r \in DOMAIN playerEntity' /\ playerEntity'[r] = playerEntity[r]
    BY <2>1 DEF RowsMove
  <2> QED BY <2>1, <2>2 DEF PlayersBySession
<1> QED BY <1>2, <1>3, <1>4, <1>5 DEF PageHolds

\* A page is true when it is rendered.
LEMMA PageOfHolds ==
    ASSUME GamesInv, NEW g, Renders(g)
    PROVE  /\ PageHolds(PageOf(g))
           /\ PageOf(g).player2 # NoPlayer => PageOf(g).player2Session # NoSession
<1>1. PICK row : row = gameEntity[g]
  OBVIOUS
<1>2. /\ g \in DOMAIN gameEntity /\ g < nextGameId /\ row \in GameEntity
      /\ row.player1 # NoPlayer /\ row.player1 # row.player2
      /\ \A p \in DOMAIN playerEntity :
            playerEntity[p].sessionId \in Session /\ p < nextPlayerId
      /\ {row.player1, row.player2} \subseteq DOMAIN playerEntity \cup {NoPlayer}
  <2>1. g \in DOMAIN gameEntity /\ row.player1 # NoPlayer
    BY <1>1 DEF Renders
  <2>2. row \in GameEntity /\ \A p \in DOMAIN playerEntity : playerEntity[p] \in PlayersEntity
    BY <1>1, <2>1, SMT, Z3 DEF GamesInv, ServiceInv, TypeOK, TablesTypeOK
  <2>3. g < nextGameId /\ \A p \in DOMAIN playerEntity : p < nextPlayerId
    BY <2>1 DEF GamesInv, IdsFresh
  <2>4. row.player1 # row.player2
    BY <1>1, <2>1, ZenonT(40) DEF GamesInv, SeatsCoherent, GameRowsCoherent
  <2>5. {row.player1, row.player2} \subseteq DOMAIN playerEntity \cup {NoPlayer}
    BY <1>1, <2>1 DEF GamesInv, SeatsCoherent, GameRowsCoherent, Seats
  <2> QED BY <2>1, <2>2, <2>3, <2>4, <2>5, SMT, Z3 DEF PlayersEntity
<1>3. PICK p : p = PageOf(g)
  OBVIOUS
<1>4. /\ p.gameId = g /\ p.player1 = row.player1 /\ p.player2 = row.player2
      /\ p.player1Session = SessionOf(row.player1)
      /\ p.player2Session = SessionOf(row.player2)
  BY <1>1, <1>3 DEF PageOf
<1>5. p.player1Session = playerEntity[row.player1].sessionId /\ p.player1Session \in Session
  BY <1>2, <1>4, Zenon DEF SessionOf
<1>6. p.player2 # NoPlayer =>
         /\ p.player2Session = playerEntity[row.player2].sessionId
         /\ p.player2Session # NoSession
  BY <1>2, <1>4, GameServiceAssumption DEF SessionOf
<1>7. p.player1Session = p.player2Session =>
         \E q, r \in PlayersBySession(p.player1Session) : q # r
  <2>1. p.player2 = NoPlayer => p.player2Session = NoSession
    BY <1>4 DEF SessionOf
  <2> QED BY <1>2, <1>4, <1>5, <1>6, <2>1, GameServiceAssumption, Zenon DEF PlayersBySession
<1>8. PageHolds(p)
  BY <1>1, <1>2, <1>4, <1>5, <1>7, ZenonT(40) DEF PageHolds
<1> QED BY <1>3, <1>6, <1>8

-----------------------------------------------------------------------------
(* The pages.                                                              *)

\* What BrowserInv says of the page of one browser.
OwnPage(b) ==
    /\ button[b] = "play1" => Mine(b, page[b].player1Session)
    /\ button[b] = "play2" => Mine(b, page[b].player2Session)
    /\ OnGamePage(b) => PageHolds(page[b])
    /\ label2[b] => OnGamePage(b) /\ page[b].player2Session # NoSession

\* The types of the browsers' own variables.
ClientTypeOK ==
    /\ page \in [Browsers -> Page \cup {StartPage, ErrorPage}]
    /\ link \in [Browsers -> BOOLEAN]
    /\ local \in [Browsers -> Session \cup {NoSession}]
    /\ button \in [Browsers -> {"start", "play1", "play2", "none"}]
    /\ label2 \in [Browsers -> BOOLEAN]
    /\ inbox \in [Browsers -> SUBSET Message]
    /\ requests \subseteq Request
    /\ gone \subseteq Browsers

SessionsApart ==
    /\ SessionsFresh
    /\ \A b, c \in Browsers : b # c /\ local[b] # NoSession => local[b] # local[c]

AnsweredDeals == \A r \in requests : r.session # NoSession

LEMMA BrowserInvParts ==
    BrowserInv <=> /\ GamesInv /\ ClientTypeOK /\ SessionsApart /\ AnsweredDeals
                   /\ \A b \in Browsers : OwnPage(b)
<1>1. GamesInv => TypeOK
  BY DEF GamesInv, ServiceInv
<1> QED BY <1>1 DEF BrowserInv, BrowserTypeOK, ClientTypeOK, SessionsApart, AnsweredDeals,
                    OwnPage, ButtonIsOwn

LEMMA BrowserInvNext ==
    ASSUME GamesInv', ClientTypeOK', SessionsApart', AnsweredDeals',
           \A b \in Browsers : OwnPage(b)'
    PROVE  BrowserInv'
<1>1. TypeOK'
  BY DEF GamesInv, ServiceInv
<1> QED BY <1>1 DEF BrowserInv, BrowserTypeOK, ClientTypeOK, SessionsApart, AnsweredDeals,
                    OwnPage, ButtonIsOwn

\* A page that only loses its second name, in a browser that keeps its session,
\* stays right while handlers run.
LEMMA PageKept ==
    ASSUME BrowserInv, RowsMove, NEW b \in Browsers,
           page'[b] = page[b], label2'[b] => label2[b], button'[b] = button[b],
           local[b] # NoSession => local'[b] = local[b]
    PROVE  OwnPage(b)'
<1>1. GamesInv /\ OwnPage(b) /\ page[b] \in Page \cup {StartPage, ErrorPage}
  BY BrowserInvParts DEF ClientTypeOK
<1>2. OnGamePage(b) => PageHolds(page[b])'
  <2> SUFFICES ASSUME OnGamePage(b) PROVE PageHolds(page[b])'
    OBVIOUS
  <2>1. PICK p \in Page : p = page[b]
    BY <1>1, Zenon DEF OnGamePage
  <2>2. PageHolds(p)'
    BY <1>1, <2>1, PageStaysTrue, SMT, Z3 DEF OwnPage
  <2>3. page'[b] = p
    BY <2>1
  <2> QED BY <2>2, <2>3 DEF PageHolds, PlayersBySession
<1> QED BY <1>1, <1>2, Zenon DEF OwnPage, OnGamePage, Mine

\* Another page is shown: it is not connected, and its buttons are nobody's.
LEMMA ShowPage ==
    ASSUME BrowserInv, NEW b \in Browsers, NEW new \in Page \cup {StartPage, ErrorPage},
           Show(b, new),
           new \in Page =>
              PageHolds(new)' /\ (new.player2 # NoPlayer => new.player2Session # NoSession)
    PROVE  /\ page' \in [Browsers -> Page \cup {StartPage, ErrorPage}]
           /\ link' \in [Browsers -> BOOLEAN]
           /\ button' \in [Browsers -> {"start", "play1", "play2", "none"}]
           /\ label2' \in [Browsers -> BOOLEAN]
           /\ \A c \in Browsers \ {b} :
                 page'[c] = page[c] /\ button'[c] = button[c] /\ label2'[c] = label2[c]
           /\ OwnPage(b)'
<1>1. ClientTypeOK
  BY BrowserInvParts
<1>2. /\ page' = [page EXCEPT ![b] = new]
      /\ link' = [link EXCEPT ![b] = FALSE]
      /\ button' = [button EXCEPT ![b] = IF new \in {StartPage, ErrorPage} THEN "none" ELSE "start"]
      /\ label2' = [label2 EXCEPT ![b] = new \notin {StartPage, ErrorPage} /\ new.player2 # NoPlayer]
  BY DEF Show
<1>3. /\ page' \in [Browsers -> Page \cup {StartPage, ErrorPage}]
      /\ link' \in [Browsers -> BOOLEAN]
      /\ button' \in [Browsers -> {"start", "play1", "play2", "none"}]
  BY <1>1, <1>2 DEF ClientTypeOK
<1>4. label2' \in [Browsers -> BOOLEAN]
  BY <1>1, <1>2, Zenon DEF ClientTypeOK
<1>5. \A c \in Browsers \ {b} :
         page'[c] = page[c] /\ button'[c] = button[c] /\ label2'[c] = label2[c]
  BY <1>1, <1>2 DEF ClientTypeOK
<1>6. page'[b] = new /\ button'[b] \in {"none", "start"}
  BY <1>1, <1>2 DEF ClientTypeOK
<1>7. label2'[b] => new \notin {StartPage, ErrorPage} /\ new.player2 # NoPlayer
  BY <1>1, <1>2, Zenon DEF ClientTypeOK
<1>8. OnGamePage(b)' <=> new \in Page
  BY <1>6, BrowserAssumption, Zenon DEF OnGamePage
<1>9. new \in Page => PageHolds(page[b])'
  BY <1>6 DEF PageHolds, PlayersBySession
<1>10. OwnPage(b)'
  BY <1>6, <1>7, <1>8, <1>9, Zenon DEF OwnPage
<1> QED BY <1>3, <1>4, <1>5, <1>10, ZenonT(40)

\* redirectToGameplayPage shows the page of the game as it is, or an error.
LEMMA RedirectPage ==
    ASSUME BrowserInv, NEW b \in Browsers, NEW g, Redirect(b, g), UNCHANGED server
    PROVE  /\ page' \in [Browsers -> Page \cup {StartPage, ErrorPage}]
           /\ link' \in [Browsers -> BOOLEAN]
           /\ button' \in [Browsers -> {"start", "play1", "play2", "none"}]
           /\ label2' \in [Browsers -> BOOLEAN]
           /\ inbox' \in [Browsers -> SUBSET Message]
           /\ \A c \in Browsers \ {b} :
                 page'[c] = page[c] /\ button'[c] = button[c] /\ label2'[c] = label2[c]
           /\ OwnPage(b)'
<1>1. GamesInv /\ ClientTypeOK
  BY BrowserInvParts
<1>2. PICK new : new = IF Renders(g) THEN PageOf(g) ELSE ErrorPage
  OBVIOUS
<1>3. Show(b, new) /\ inbox' = [inbox EXCEPT ![b] = {}]
  BY <1>2, Zenon DEF Redirect
<1>4. inbox' \in [Browsers -> SUBSET Message]
  BY <1>1, <1>3 DEF ClientTypeOK
<1>5. /\ new \in Page \cup {ErrorPage}
      /\ new \in Page =>
            PageHolds(new) /\ (new.player2 # NoPlayer => new.player2Session # NoSession)
  BY <1>1, <1>2, PageOfType, PageOfHolds, BrowserAssumption, ZenonT(40)
<1>6. UNCHANGED <<playerEntity, gameEntity, ids>>
  BY DEF server, tables
<1>7. new \in Page => PageHolds(new)'
  BY <1>1, <1>5, <1>6, NothingMoves, PageStaysTrue, ZenonT(40)
<1> QED BY <1>3, <1>4, <1>5, <1>7, ShowPage, ZenonT(40)

\* getSessionId gives the browser a session that no other has.
LEMMA KeepsSession ==
    ASSUME BrowserInv, NEW b \in Browsers, KeepSession(b)
    PROVE  /\ local' \in [Browsers -> Session \cup {NoSession}]
           /\ SessionsApart'
           /\ \A c \in Browsers : local[c] # NoSession => local'[c] = local[c]
           /\ SessionId(b) \in Session /\ local'[b] = SessionId(b)
<1>1. ClientTypeOK /\ SessionsApart
  BY BrowserInvParts
<1>2. PICK s : s = SessionId(b)
  OBVIOUS
<1>3. /\ s \in Session /\ s \in Nat /\ s # NoSession
      /\ local' = [local EXCEPT ![b] = s] /\ local \in [Browsers -> Session \cup {NoSession}]
      /\ nextSession \in Nat
  BY <1>1, <1>2, BrowserAssumption, GameServiceAssumption, Zenon
     DEF KeepSession, ClientTypeOK, SessionsApart, SessionsFresh
<1>4. /\ local[b] # NoSession => s = local[b] /\ nextSession' = nextSession
      /\ local[b] = NoSession => s = nextSession /\ nextSession' = nextSession + 1
  BY <1>2 DEF KeepSession, SessionId
<1>5. \A c \in Browsers : local'[c] = IF c = b THEN s ELSE local[c]
  BY <1>3
<1>6. \A c \in Browsers : local[c] # NoSession => local'[c] = local[c]
  BY <1>4, <1>5
<1>7. \A c \in Browsers : local[c] # NoSession => local[c] \in Nat /\ local[c] < nextSession
  BY <1>1, <1>3, BrowserAssumption, Zenon DEF SessionsApart, SessionsFresh
<1>8. SessionsFresh'
  BY <1>3, <1>4, <1>5, <1>7 DEF SessionsFresh
<1>9. ASSUME NEW c \in Browsers, NEW d \in Browsers, c # d, local'[c] # NoSession
      PROVE  local'[c] # local'[d]
  <2>1. CASE local[b] # NoSession
    BY <1>1, <1>4, <1>5, <1>9, <2>1, ZenonT(40) DEF SessionsApart
  <2>2. CASE local[b] = NoSession
    <3>1. s = nextSession
      BY <1>4, <2>2, ZenonT(40)
    <3>2. \A e \in Browsers : e # b => local'[e] # s
      BY <1>3, <1>5, <1>7, <3>1, SMT, Z3
    <3> QED BY <1>1, <1>5, <1>9, <3>2, ZenonT(40) DEF SessionsApart
  <2> QED BY <2>1, <2>2, Zenon
<1>10. SessionsApart'
  BY <1>8, <1>9 DEF SessionsApart
<1> QED BY <1>2, <1>3, <1>5, <1>6, <1>10, ZenonT(40)

-----------------------------------------------------------------------------
(* The steps.                                                              *)

\* What a step has to show besides its own browser's page.
LEMMA OnePageMoves ==
    ASSUME BrowserInv, GamesInv', RowsMove, ClientTypeOK', SessionsApart', AnsweredDeals',
           NEW b \in Browsers, OwnPage(b)',
           \A c \in Browsers \ {b} :
              /\ page'[c] = page[c] /\ button'[c] = button[c] /\ label2'[c] = label2[c]
              /\ local[c] # NoSession => local'[c] = local[c]
    PROVE  BrowserInv'
<1>1. \A c \in Browsers \ {b} : OwnPage(c)'
  BY PageKept, Zenon
<1>2. \A c \in Browsers : OwnPage(c)'
  BY <1>1
<1> QED BY <1>2, BrowserInvNext, Zenon

LEMMA NoPageMoves ==
    ASSUME BrowserInv, GamesInv', RowsMove, ClientTypeOK', SessionsApart', AnsweredDeals',
           UNCHANGED <<page, button, label2>>,
           \A c \in Browsers : local[c] # NoSession => local'[c] = local[c]
    PROVE  BrowserInv'
<1>1. \A c \in Browsers : OwnPage(c)'
  BY PageKept
<1> QED BY <1>1, BrowserInvNext, Zenon

\* A message of a topic arrives at pages only.
LEMMA SendType ==
    ASSUME ClientTypeOK, NEW m \in Message, Send(m)
    PROVE  inbox' \in [Browsers -> SUBSET Message]
BY DEF Send, ClientTypeOK

LEMMA BrowserInitInv == Init => BrowserInv
<1> SUFFICES ASSUME Init PROVE BrowserInv
  OBVIOUS
<1>1. GamesInv
  BY GamesInitInv, Zenon DEF Init
<1>2. ClientTypeOK /\ AnsweredDeals
  BY DEF Init, ClientTypeOK, AnsweredDeals
<1>3. SessionsApart
  BY DEF Init, SessionsApart, SessionsFresh
<1>4. \A b \in Browsers : OwnPage(b)
  BY DEF Init, OwnPage, OnGamePage
<1> QED BY <1>1, <1>2, <1>3, <1>4, BrowserInvParts, ZenonT(40)

\* A step after which every game still has its first player.
FirstSeatsStay ==
    \A g \in DOMAIN gameEntity :
        g \in DOMAIN gameEntity' /\ gameEntity'[g].player1 = gameEntity[g].player1

LEMMA NobodyLeaves == FirstSeatsStay => FirstSeatLostByOwn
BY DEF FirstSeatsStay, FirstSeatLostByOwn

\* A step of the browser alone.
LEMMA ServerStays ==
    ASSUME BrowserInv, UNCHANGED server
    PROVE  GamesInv' /\ RowsMove /\ FirstSeatsStay
<1>1. GamesInv
  BY BrowserInvParts
<1>2. UNCHANGED <<tables, service, ids, refused>>
  BY DEF server
<1>3. UNCHANGED <<playerEntity, gameEntity, ids>>
  BY <1>2 DEF tables
<1> QED BY <1>1, <1>2, <1>3, ServerUnchangedInv, NothingMoves, ZenonT(40) DEF FirstSeatsStay

LEMMA SubmitUsernameInv ==
    ASSUME BrowserInv, NEW b \in Browsers, NEW name \in Name, SubmitUsername(b, name)
    PROVE  BrowserInv' /\ FirstSeatsStay
<1>1. GamesInv /\ ClientTypeOK /\ AnsweredDeals
  BY BrowserInvParts
<1>2. PICK s, g : s = SessionId(b) /\ g = nextGameId
  BY Zenon
<1>3. /\ local' \in [Browsers -> Session \cup {NoSession}]
      /\ SessionsApart' /\ s \in Session
      /\ \A c \in Browsers : local[c] # NoSession => local'[c] = local[c]
  BY <1>2, KeepsSession, Zenon DEF SubmitUsername
<1>4. CreateGameAndPlayer(name, s) /\ g \in GameId
  BY <1>2 DEF SubmitUsername, CreateGameAndPlayer
<1>5. GamesInv' /\ RowsMove
  BY <1>1, <1>3, <1>4, CreateGameInv, CreateMoves, Zenon
<1>6. FirstSeatsStay
  <2>1. g \notin DOMAIN gameEntity
    BY <1>1, <1>2 DEF GamesInv, IdsFresh
  <2> QED BY <1>2, <1>4, <2>1, Zenon DEF CreateGameAndPlayer, Insert, FirstSeatsStay
<1>7. inbox' \in [Browsers -> SUBSET Message]
  <2>1. [type |-> "created", gameId |-> g, session |-> s] \in Message
    BY <1>3, <1>4, Zenon DEF Message
  <2> QED BY <1>1, <1>2, <2>1, SendType, ZenonT(40) DEF SubmitUsername
<1>8. UNCHANGED <<page, link, button, label2, requests, gone>>
  BY DEF SubmitUsername
<1>9. ClientTypeOK' /\ AnsweredDeals'
  BY <1>1, <1>3, <1>7, <1>8, ZenonT(40) DEF ClientTypeOK, AnsweredDeals
<1>10. BrowserInv'
  BY <1>3, <1>5, <1>8, <1>9, NoPageMoves, ZenonT(40)
<1> QED BY <1>6, <1>10

LEMMA SubmitGameIdInv ==
    ASSUME BrowserInv, NEW b \in Browsers, NEW g \in GameId, NEW name \in Name,
           SubmitGameId(b, g, name)
    PROVE  BrowserInv' /\ FirstSeatsStay
<1>1. GamesInv /\ ClientTypeOK /\ AnsweredDeals
  BY BrowserInvParts
<1>2. PICK s : s = SessionId(b)
  BY Zenon
<1>3. /\ local' \in [Browsers -> Session \cup {NoSession}]
      /\ SessionsApart' /\ s \in Session
      /\ \A c \in Browsers : local[c] # NoSession => local'[c] = local[c]
  BY <1>2, KeepsSession, ZenonT(40) DEF SubmitGameId
<1>4. GamesInv' /\ RowsMove /\ FirstSeatsStay
  <2>1. CASE UNCHANGED server
    BY <2>1, ServerStays, Zenon
  <2>2. CASE JoinGame(g, name, s)
    BY <1>1, <1>3, <2>2, JoinGameInv, JoinMoves, ZenonT(40) DEF FirstSeatsStay
  <2> QED BY <1>2, <2>1, <2>2, Zenon DEF SubmitGameId
<1>5. inbox' \in [Browsers -> SUBSET Message]
  <2>1. [type |-> "notFound"] \in Message /\ [type |-> "joined", gameId |-> g] \in Message
    BY DEF Message
  <2>2. CASE UNCHANGED inbox
    BY <1>1, <2>2, Zenon DEF ClientTypeOK
  <2>3. CASE Send([type |-> "notFound"]) \/ Send([type |-> "joined", gameId |-> g])
    BY <1>1, <2>1, <2>3, SendType, ZenonT(40)
  <2> QED BY <2>2, <2>3, ZenonT(40) DEF SubmitGameId
<1>6. UNCHANGED <<page, link, button, label2, requests, gone>>
  BY DEF SubmitGameId
<1>7. ClientTypeOK' /\ AnsweredDeals'
  BY <1>1, <1>3, <1>5, <1>6, Zenon DEF ClientTypeOK, AnsweredDeals
<1>8. BrowserInv'
  BY <1>3, <1>4, <1>6, <1>7, NoPageMoves, ZenonT(40)
<1> QED BY <1>4, <1>8

\* Only a page that names a second player sends the deals.
LEMMA ClickStartInv ==
    ASSUME BrowserInv, NEW b \in Browsers, ClickStart(b)
    PROVE  BrowserInv' /\ FirstSeatsStay
<1>1. GamesInv /\ ClientTypeOK /\ AnsweredDeals /\ SessionsApart /\ OwnPage(b)
  BY BrowserInvParts, Zenon
<1>2. /\ UNCHANGED <<server, page, link, local, nextSession, button, label2, inbox, gone>>
      /\ label2[b]
  BY DEF ClickStart, client
<1>3. GamesInv' /\ RowsMove /\ FirstSeatsStay
  BY <1>2, ServerStays, Zenon
<1>4. page[b] \in Page /\ page[b].player2Session # NoSession
  BY <1>1, <1>2 DEF OwnPage, OnGamePage, ClientTypeOK
<1>5. PICK s1, s2 : s1 = page[b].player1Session /\ s2 = page[b].player2Session
  OBVIOUS
<1>6. s1 \in Session /\ s2 \in Session
  BY <1>4, <1>5, Zenon DEF Page
<1>7. requests' = requests \cup {[op |-> "deal1", session |-> s1], [op |-> "deal2", session |-> s2]}
  BY <1>5, Zenon DEF ClickStart
<1>8. requests' \subseteq Request /\ AnsweredDeals'
  BY <1>1, <1>6, <1>7, GameServiceAssumption, SMT, Z3 DEF Request, ClientTypeOK, AnsweredDeals
<1>9. ClientTypeOK' /\ SessionsApart'
  BY <1>1, <1>2, <1>8, Zenon DEF ClientTypeOK, SessionsApart, SessionsFresh
<1>10. BrowserInv'
  BY <1>2, <1>3, <1>8, <1>9, NoPageMoves, ZenonT(40)
<1> QED BY <1>3, <1>10

LEMMA HandleDealsInv ==
    ASSUME BrowserInv, HandleDeals
    PROVE  BrowserInv' /\ FirstSeatsStay
<1>1. GamesInv /\ ClientTypeOK /\ AnsweredDeals /\ SessionsApart
  BY BrowserInvParts
<1>2. PICK r \in requests : HandleDeal(r) \/ DealThrows(r)
  BY DEF HandleDeals
<1>3. r.session \in Session
  BY <1>1, <1>2, Zenon DEF ClientTypeOK, AnsweredDeals, Request
<1>4. UNCHANGED <<page, link, local, nextSession, button, label2, gone>>
  BY <1>2 DEF HandleDeal, DealThrows, client
<1>5. requests' \subseteq requests
  BY <1>2 DEF HandleDeal, DealThrows
<1>6. GamesInv' /\ RowsMove /\ FirstSeatsStay
  <2>1. CASE DealThrows(r)
    BY <2>1, ServerStays DEF DealThrows
  <2>2. CASE HandleDeal(r)
    <3>1. UNCHANGED <<ids, refused>> /\ (DealCards1(r.session) \/ DealCards2(r.session))
      BY <2>2 DEF HandleDeal
    <3>2. GamesInv' /\ UNCHANGED <<playerEntity, gameEntity>>
      BY <1>1, <3>1, CardsHandlersInv
    <3> QED BY <1>1, <3>1, <3>2, NothingMoves, Zenon DEF FirstSeatsStay
  <2> QED BY <1>2, <2>1, <2>2
<1>7. inbox' \in [Browsers -> SUBSET Message]
  <2>1. CASE DealThrows(r)
    BY <1>1, <2>1 DEF DealThrows, client, ClientTypeOK
  <2>2. CASE HandleDeal(r)
    <3>1. [type |-> "dealt", session |-> r.session] \in Message
      BY <1>3 DEF Message
    <3> QED BY <1>1, <2>2, <3>1, SendType, Zenon DEF HandleDeal
  <2> QED BY <1>2, <2>1, <2>2
<1>8. ClientTypeOK' /\ AnsweredDeals' /\ SessionsApart'
  BY <1>1, <1>4, <1>5, <1>7, Zenon DEF ClientTypeOK, AnsweredDeals, SessionsApart, SessionsFresh
<1>9. BrowserInv'
  BY <1>4, <1>6, <1>8, NoPageMoves, Zenon
<1> QED BY <1>6, <1>9

\* Leave's answer names sessions of rows.
LEMMA LeftType ==
    ASSUME GamesInv', NEW g, g \in DOMAIN gameEntity'
    PROVE  /\ SessionOf(gameEntity[g].player1)' \in Session \cup {NoSession}
           /\ SessionOf(gameEntity[g].player2)' \in Session \cup {NoSession}
<1>1. \A p \in DOMAIN playerEntity' : playerEntity'[p].sessionId \in Session
  BY Zenon DEF GamesInv, ServiceInv, TypeOK, TablesTypeOK, PlayersEntity
<1>2. {gameEntity'[g].player1, gameEntity'[g].player2} \subseteq DOMAIN playerEntity' \cup {NoPlayer}
  BY Zenon DEF GamesInv, SeatsCoherent, GameRowsCoherent, Seats
<1> QED BY <1>1, <1>2, Zenon DEF SessionOf

\* A leave takes the first seat only from the player it is asked for.
LEMMA LeaveFirstSeat ==
    ASSUME GamesInv, NEW g, NEW s, LeaveGame(g, s), NEW h \in DOMAIN gameEntity,
           gameEntity[h].player1 # NoPlayer,
           h \in DOMAIN gameEntity' => gameEntity'[h].player1 # gameEntity[h].player1
    PROVE  h = g /\ gameEntity[h].player1 = FindPlayerBySessionId(s)
<1>1. PICK p : p = FindPlayerBySessionId(s)
  OBVIOUS
<1>2. CASE p \in Seats(g)
  <2>1. /\ h # g => h \in DOMAIN gameEntity' /\ gameEntity'[h] = gameEntity[h]
        /\ g \in DOMAIN gameEntity' => (p # gameEntity[g].player1 =>
              gameEntity'[g].player1 = gameEntity[g].player1)
        /\ g \notin DOMAIN gameEntity' => Seats(g) = {p}
    BY <1>1, <1>2, LeaveSeatInv, Zenon
  <2>2. h = g
    BY <2>1, Zenon
  <2> QED BY <1>1, <2>1, <2>2, Zenon DEF Seats
<1>3. CASE p \notin Seats(g)
  BY <1>1, <1>3, LeaveOtherInv, Zenon
<1> QED BY <1>2, <1>3, Zenon

\* "Leave" leaves for player 1 only in player 1's browser: where the page has
\* one session in both seats, leaveGame throws.
LEMMA LeaverIsOwn ==
    ASSUME BrowserInv, NEW b \in Browsers, OnGamePage(b),
           NEW g, g = page[b].gameId, NEW s, s = Leaver(b),
           LeaveGame(g, s), gameEntity[g].player1 = FindPlayerBySessionId(s)
    PROVE  local[b] = s /\ s \in Session
<1>0. PICK p : p = page[b]
  BY Zenon
<1>1. GamesInv /\ p \in Page /\ PageHolds(p)
  BY <1>0, BrowserInvParts, Zenon DEF OwnPage, ClientTypeOK, OnGamePage
<1>2. PICK q : q = FindPlayerBySessionId(s)
  OBVIOUS
<1>3. q \in DOMAIN playerEntity /\ playerEntity[q].sessionId = s /\ AtMostOneRow(s)
  BY <1>2, LeaverHasRow, ZenonT(40) DEF LeaveGame
<1>4. q # NoPlayer /\ s \in Session
  <2>1. /\ q \in PlayerId /\ playerEntity[q] \in PlayersEntity
    BY <1>1, <1>3, ZenonT(40) DEF GamesInv, ServiceInv, TypeOK, TablesTypeOK
  <2>2. playerEntity[q].sessionId \in Session
    BY <2>1 DEF PlayersEntity
  <2> QED BY <1>3, <2>1, <2>2, RepositoriesAssumption, Zenon
<1>5. g \in DOMAIN gameEntity
  BY DEF LeaveGame
<1>6. p.player1 = q /\ p.player1Session = s
  BY <1>0, <1>1, <1>2, <1>3, <1>4, <1>5, Zenon DEF PageHolds
<1>7. p.player2Session # s
  <2> SUFFICES ASSUME p.player2Session = s PROVE FALSE
    BY Zenon
  <2>1. \E r, t \in PlayersBySession(s) : r # t
    BY <1>1, <1>6 DEF PageHolds
  <2> QED BY <1>1, <1>3, <2>1, TwoRowsThrow, Zenon
<1> QED BY <1>0, <1>4, <1>6, <1>7, Zenon DEF Leaver

LEMMA ClickLeaveInv ==
    ASSUME BrowserInv, NEW b \in Browsers, ClickLeave(b)
    PROVE  BrowserInv' /\ FirstSeatLostByOwn
<1>1. GamesInv /\ ClientTypeOK /\ AnsweredDeals /\ SessionsApart
  BY BrowserInvParts
<1>2. PICK g, s : g = page[b].gameId /\ s = Leaver(b)
  BY Zenon
<1>3. /\ OnGamePage(b)
      /\ local' = [local EXCEPT ![b] = NoSession]
      /\ Show(b, StartPage)
      /\ UNCHANGED <<nextSession, requests, gone>>
      /\ LeaveGame(g, s) \/ UNCHANGED server
  BY <1>2, Zenon DEF ClickLeave, LeavesNothing
<1>4. GamesInv' /\ RowsMove
  BY <1>1, <1>3, LeaveGameInv, LeaveMoves, ServerStays, Zenon
<1>5. local'[b] = NoSession /\ \A c \in Browsers : c # b => local'[c] = local[c]
  BY <1>1, <1>3 DEF ClientTypeOK
<1>6. inbox' \in [Browsers -> SUBSET Message]
  <2>1. PICK m :
          m = [type |-> "left", session1 |-> SessionOf(gameEntity[g].player1)',
                                session2 |-> SessionOf(gameEntity[g].player2)']
    BY ZenonT(40)
  <2>2. g \in DOMAIN gameEntity' => m \in Message
    BY <1>4, <2>1, LeftType, Zenon DEF Message
  <2>3. inbox' = [c \in Browsers |->
               IF c = b THEN {}
               ELSE IF link[c] /\ g \in DOMAIN gameEntity' /\ ~LeaveThrows(s)
               THEN inbox[c] \cup {m}
               ELSE inbox[c]]
    BY <1>2, <2>1, ZenonT(40) DEF ClickLeave
  <2> QED BY <1>1, <2>2, <2>3, Zenon DEF ClientTypeOK
<1>7. /\ page' \in [Browsers -> Page \cup {StartPage, ErrorPage}]
      /\ link' \in [Browsers -> BOOLEAN]
      /\ button' \in [Browsers -> {"start", "play1", "play2", "none"}]
      /\ label2' \in [Browsers -> BOOLEAN]
      /\ \A c \in Browsers \ {b} :
            page'[c] = page[c] /\ button'[c] = button[c] /\ label2'[c] = label2[c]
      /\ OwnPage(b)'
  BY <1>3, ShowPage, BrowserAssumption, Zenon
<1>8. ClientTypeOK' /\ AnsweredDeals'
  BY <1>1, <1>3, <1>6, <1>7, Zenon DEF ClientTypeOK, AnsweredDeals
<1>9. SessionsApart'
  BY <1>1, <1>3, <1>5, ZenonT(40) DEF SessionsApart, SessionsFresh
<1>10. BrowserInv'
  BY <1>4, <1>5, <1>7, <1>8, <1>9, OnePageMoves, ZenonT(40)
<1>11. FirstSeatLostByOwn
  <2>1. CASE UNCHANGED server
    BY <2>1, ServerStays, NobodyLeaves, Zenon
  <2>2. CASE LeaveGame(g, s)
    <3> SUFFICES ASSUME NEW h \in DOMAIN gameEntity, gameEntity[h].player1 # NoPlayer,
                        h \in DOMAIN gameEntity' =>
                           gameEntity'[h].player1 # gameEntity[h].player1
                 PROVE  /\ Mine(b, SessionOf(gameEntity[h].player1))
                        /\ local'[b] = NoSession
      BY Zenon DEF FirstSeatLostByOwn
    <3>1. h = g /\ gameEntity[g].player1 = FindPlayerBySessionId(s)
      BY <1>1, <2>2, LeaveFirstSeat, ZenonT(40)
    <3>2. local[b] = s /\ s \in Session
      BY <1>2, <1>3, <2>2, <3>1, LeaverIsOwn, ZenonT(40)
    <3>3. SessionOf(gameEntity[h].player1) = s
      BY <2>2, <3>1, LeaverHasRow, Zenon DEF SessionOf
    <3> QED BY <1>5, <3>2, <3>3, GameServiceAssumption, Zenon DEF Mine
  <2> QED BY <1>3, <2>1, <2>2, SMT, Z3
<1> QED BY <1>10, <1>11

\* A page is loaded: reloaded, the start page, or the last one.
LEMMA LoadInv ==
    ASSUME BrowserInv, NEW b \in Browsers, Reload(b) \/ OpenStartPage(b) \/ Close(b)
    PROVE  BrowserInv' /\ FirstSeatsStay
<1>1. ClientTypeOK /\ AnsweredDeals /\ SessionsApart
  BY BrowserInvParts, Zenon
<1>2. UNCHANGED <<server, local, nextSession, requests>> /\ gone' \subseteq Browsers
  BY <1>1, Zenon DEF Reload, OpenStartPage, Close, ClientTypeOK
<1>3. /\ page' \in [Browsers -> Page \cup {StartPage, ErrorPage}]
      /\ link' \in [Browsers -> BOOLEAN]
      /\ button' \in [Browsers -> {"start", "play1", "play2", "none"}]
      /\ label2' \in [Browsers -> BOOLEAN]
      /\ inbox' \in [Browsers -> SUBSET Message]
      /\ \A c \in Browsers \ {b} :
            page'[c] = page[c] /\ button'[c] = button[c] /\ label2'[c] = label2[c]
      /\ OwnPage(b)'
  <2>1. CASE Reload(b)
    <3>1. PICK g : g = page[b].gameId
      OBVIOUS
    <3>2. Redirect(b, g)
      BY <2>1, <3>1, Zenon DEF Reload
    <3> QED BY <1>2, <3>2, RedirectPage, ZenonT(40)
  <2>2. CASE OpenStartPage(b) \/ Close(b)
    <3>1. Show(b, StartPage) /\ inbox' = [inbox EXCEPT ![b] = {}]
      BY <2>2 DEF OpenStartPage, Close
    <3>2. inbox' \in [Browsers -> SUBSET Message]
      BY <1>1, <3>1, Zenon DEF ClientTypeOK
    <3> QED BY <3>1, <3>2, ShowPage, BrowserAssumption, Zenon
  <2> QED BY <2>1, <2>2, ZenonT(40)
<1>4. ClientTypeOK' /\ AnsweredDeals' /\ SessionsApart'
  BY <1>1, <1>2, <1>3 DEF ClientTypeOK, AnsweredDeals, SessionsApart, SessionsFresh
<1>5. GamesInv' /\ RowsMove /\ FirstSeatsStay
  BY <1>2, ServerStays
<1> QED BY <1>2, <1>3, <1>4, <1>5, OnePageMoves, Zenon

\* Nothing is loaded and nothing handled: the scripts connect, or nothing moves.
LEMMA ConnectInv ==
    ASSUME BrowserInv, (\E b \in Browsers : Connect(b)) \/ UNCHANGED vars
    PROVE  BrowserInv' /\ FirstSeatsStay
<1>1. ClientTypeOK /\ AnsweredDeals /\ SessionsApart
  BY BrowserInvParts
<1>2. UNCHANGED <<server, page, local, nextSession, button, label2, inbox, requests, gone>>
  BY DEF Connect, vars, client
<1>3. link' \in [Browsers -> BOOLEAN]
  BY <1>1, Zenon DEF Connect, ClientTypeOK, vars, client
<1>4. ClientTypeOK' /\ AnsweredDeals' /\ SessionsApart'
  BY <1>1, <1>2, <1>3 DEF ClientTypeOK, AnsweredDeals, SessionsApart, SessionsFresh
<1>5. GamesInv' /\ RowsMove /\ FirstSeatsStay
  BY <1>2, ServerStays, Zenon
<1> QED BY <1>2, <1>4, <1>5, NoPageMoves, ZenonT(40)

\* A message shows buttons, a page or a session only to whom it concerns.
LEMMA ReceiveInv ==
    ASSUME BrowserInv, NEW b \in Browsers, Receive(b)
    PROVE  BrowserInv' /\ FirstSeatsStay
<1>1. ClientTypeOK /\ AnsweredDeals /\ SessionsApart /\ OwnPage(b)
  BY BrowserInvParts, Zenon
<1>2. PICK m \in inbox[b] : ReceiveRedirect(b, m) \/ ReceiveDealt(b, m) \/ ReceiveLeft(b, m)
  BY Zenon DEF Receive
<1>3. UNCHANGED <<server, requests, gone>>
  BY SMT, Z3 DEF Receive
<1>4. GamesInv' /\ RowsMove /\ FirstSeatsStay
  BY <1>3, ServerStays
<1>5. ASSUME Done(b, m) PROVE inbox' \in [Browsers -> SUBSET Message]
  BY <1>1, <1>5, Zenon DEF Done, ClientTypeOK
<1>6. CASE ReceiveRedirect(b, m)
  <2>1. /\ local' \in [Browsers -> Session \cup {NoSession}] /\ SessionsApart'
        /\ \A c \in Browsers : local[c] # NoSession => local'[c] = local[c]
    BY <1>6, KeepsSession, Zenon DEF ReceiveRedirect
  <2>2. CASE Redirect(b, m.gameId)
    <3>1. /\ page' \in [Browsers -> Page \cup {StartPage, ErrorPage}]
          /\ link' \in [Browsers -> BOOLEAN]
          /\ button' \in [Browsers -> {"start", "play1", "play2", "none"}]
          /\ label2' \in [Browsers -> BOOLEAN]
          /\ inbox' \in [Browsers -> SUBSET Message]
          /\ \A c \in Browsers \ {b} :
                page'[c] = page[c] /\ button'[c] = button[c] /\ label2'[c] = label2[c]
          /\ OwnPage(b)'
      BY <1>3, <2>2, RedirectPage, ZenonT(40)
    <3>2. ClientTypeOK' /\ AnsweredDeals'
      BY <1>1, <1>3, <2>1, <3>1, Zenon DEF ClientTypeOK, AnsweredDeals
    <3> QED BY <1>4, <2>1, <3>1, <3>2, OnePageMoves, ZenonT(40)
  <2>3. CASE Done(b, m) /\ UNCHANGED <<page, link, button, label2>>
    <3>1. ClientTypeOK' /\ AnsweredDeals'
      BY <1>1, <1>3, <1>5, <2>1, <2>3, Zenon DEF ClientTypeOK, AnsweredDeals
    <3> QED BY <1>4, <2>1, <2>3, <3>1, NoPageMoves, ZenonT(40)
  <2> QED BY <1>6, <2>2, <2>3, Zenon DEF ReceiveRedirect
<1>7. CASE ReceiveDealt(b, m)
  <2>1. UNCHANGED <<page, link, label2, local, nextSession>> /\ Done(b, m)
    BY <1>7 DEF ReceiveDealt
  <2>2. PICK s : s = m.session
    BY Zenon
  <2>3. \/ button' = button
        \/ /\ Mine(b, s)
           /\ button' = [button EXCEPT ![b] =
                           IF s = page[b].player1Session THEN "play1"
                           ELSE IF s = page[b].player2Session THEN "play2"
                           ELSE "none"]
    BY <1>7, <2>2, Zenon DEF ReceiveDealt
  <2>4. /\ button' \in [Browsers -> {"start", "play1", "play2", "none"}]
        /\ \A c \in Browsers \ {b} : button'[c] = button[c]
        /\ button'[b] = "play1" => button[b] = "play1" \/ Mine(b, page[b].player1Session)
        /\ button'[b] = "play2" => button[b] = "play2" \/ Mine(b, page[b].player2Session)
    BY <1>1, <2>3, Zenon DEF ClientTypeOK
  <2>5. OwnPage(b)'
    <3>1. OnGamePage(b)' <=> OnGamePage(b)
      BY <2>1, Zenon DEF OnGamePage
    <3>2. PageHolds(page[b]) => PageHolds(page[b])'
      BY <1>3, <2>1, Zenon DEF PageHolds, PlayersBySession, server, tables, ids
    <3> QED BY <1>1, <2>1, <2>4, <3>1, <3>2, ZenonT(40) DEF OwnPage, Mine
  <2>6. ClientTypeOK' /\ AnsweredDeals' /\ SessionsApart'
    BY <1>1, <1>3, <1>5, <2>1, <2>4, ZenonT(40)
       DEF ClientTypeOK, AnsweredDeals, SessionsApart, SessionsFresh
  <2> QED BY <1>4, <2>1, <2>4, <2>5, <2>6, OnePageMoves, ZenonT(40)
<1>8. CASE ReceiveLeft(b, m)
  <2>1. /\ local' \in [Browsers -> Session \cup {NoSession}] /\ SessionsApart'
        /\ \A c \in Browsers : local[c] # NoSession => local'[c] = local[c]
    BY <1>8, KeepsSession, ZenonT(40) DEF ReceiveLeft
  <2>2. UNCHANGED <<page, link, button>> /\ Done(b, m)
    BY <1>8 DEF ReceiveLeft
  <2>3. label2' \in {label2, [label2 EXCEPT ![b] = FALSE]}
    BY <1>8, Zenon DEF ReceiveLeft
  <2>4. /\ label2' \in [Browsers -> BOOLEAN]
        /\ \A c \in Browsers \ {b} : label2'[c] = label2[c]
        /\ label2'[b] => label2[b]
    BY <1>1, <2>3, ZenonT(40) DEF ClientTypeOK
  <2>5. OwnPage(b)'
    BY <1>4, <2>1, <2>2, <2>4, PageKept, ZenonT(40)
  <2>6. ClientTypeOK' /\ AnsweredDeals'
    BY <1>1, <1>3, <1>5, <2>1, <2>2, <2>4, Zenon DEF ClientTypeOK, AnsweredDeals
  <2> QED BY <1>4, <2>1, <2>2, <2>4, <2>5, <2>6, OnePageMoves, ZenonT(40)
<1> QED BY <1>2, <1>6, <1>7, <1>8, ZenonT(40)

\* Every click, message and deal keeps the invariant, and the first seat is lost
\* only by the player who has it.
LEMMA BrowserStep ==
    BrowserInv /\ [Next]_vars => BrowserInv' /\ FirstSeatLostByOwn
<1> SUFFICES ASSUME BrowserInv, [Next]_vars PROVE BrowserInv' /\ FirstSeatLostByOwn
  OBVIOUS
<1>1. ASSUME NEW b \in Browsers, Click(b) PROVE BrowserInv' /\ FirstSeatLostByOwn
  BY <1>1, SubmitUsernameInv, SubmitGameIdInv, ClickStartInv, ClickLeaveInv, LoadInv,
     NobodyLeaves, ZenonT(40) DEF Click
<1>2. ASSUME NEW b \in Browsers, Receive(b) PROVE BrowserInv' /\ FirstSeatLostByOwn
  BY <1>2, ReceiveInv, NobodyLeaves, SMT, Z3
<1>3. CASE (\E b \in Browsers : Connect(b)) \/ UNCHANGED vars
  BY <1>3, ConnectInv, NobodyLeaves, SMT, Z3
<1>4. CASE HandleDeals
  BY <1>4, HandleDealsInv, NobodyLeaves, SMT, Z3
<1> QED BY <1>1, <1>2, <1>3, <1>4, ZenonT(40) DEF Next

LEMMA BrowserInvariant == Spec => []BrowserInv
<1>1. BrowserInv /\ [Next]_vars => BrowserInv'
  BY BrowserStep
<1> QED BY <1>1, BrowserInitInv, PTL DEF Spec

\* Every page, message and request has its type: in particular gamePlayPage
\* never renders a game that has no first player.
THEOREM BrowserTypeCorrect == Spec => []BrowserTypeOK
<1>1. BrowserInv => BrowserTypeOK
  BY DEF BrowserInv
<1> QED BY <1>1, BrowserInvariant, PTL

\* Any number of browsers: each shows only the button of its own player, and no
\* two browsers have one session, in whatever order messages, redirects, leaves
\* and new sessions come.
THEOREM BrowserButtonIsOwn == Spec => []ButtonIsOwn
<1>1. BrowserInv => ButtonIsOwn
  BY Zenon DEF BrowserInv
<1> QED BY <1>1, BrowserInvariant, PTL

\* What the clicks of any number of browsers write to the rows of games and
\* players fits together, stale pages and throwing handlers included.
THEOREM BrowserSeatsCoherent == Spec => []SeatsCoherent
<1>1. BrowserInv => SeatsCoherent
  BY DEF BrowserInv, GamesInv
<1> QED BY <1>1, BrowserInvariant, PTL

\* The first seat is lost only through "Leave" in its player's own browser,
\* whatever old pages other browsers click on, and whoever joined twice.
THEOREM BrowserFirstSeatIsSafe == Spec => FirstSeatIsSafe
<1>1. BrowserInv /\ [Next]_vars => [FirstSeatLostByOwn]_vars
  BY BrowserStep
<1>2. Spec => [][Next]_vars
  BY PTL DEF Spec
<1> QED BY <1>1, <1>2, BrowserInvariant, PTL DEF FirstSeatIsSafe
=============================================================================

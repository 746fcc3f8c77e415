------------------------------- MODULE Browser -------------------------------
(***************************************************************************)
(* static/app.js, websocket.js and gamePlay.js in several browsers,        *)
(* composed with the handlers of GameService.  A browser shows one page;   *)
(* its scripts connect some time after the page was rendered, and what the *)
(* server sends to a topic reaches, in any order, the pages subscribed at  *)
(* that moment.  A load drops the connection and what was on its way.      *)
(* A request is handled when its button is clicked, except the two deals   *)
(* of "Start Game", which are handled one by one, in any order.  Playing,  *)
(* and what is only drawn (cards, counts, banners, the winner), is left    *)
(* out: it changes nothing about what a page can be clicked for.           *)
(***************************************************************************)
EXTENDS GameService

CONSTANTS
    Browsers, StartPage, ErrorPage,
    MaxInbox        \* bound on the messages on their way to one page

ASSUME BrowserAssumption ==
    /\ Session \subseteq Nat /\ MaxInbox \in Nat
    /\ {StartPage, ErrorPage} \cap Page = {} /\ StartPage # ErrorPage

VARIABLES
    page,           \* StartPage, ErrorPage, or the game page shown
    link,           \* is the page's script connected and subscribed?
    local,          \* sessionId in localStorage, NoSession when there is none
    nextSession,    \* the next UUID; Session bounds them
    button,         \* "start", "play1", "play2" or "none": the button to click
    label2,         \* does the page name a second player?
    inbox,          \* messages of the topics on their way to the page
    requests,       \* deals on their way to the server
    gone            \* browsers that were closed

client == <<page, link, local, nextSession, button, label2, inbox, gone>>
server == <<tables, service, ids, refused>>
vars == <<server, client, requests>>

Message ==
    [type : {"created"}, gameId : GameId, session : Session]
      \cup [type : {"joined"}, gameId : GameId] \cup [type : {"notFound"}]
      \cup [type : {"dealt"}, session : Session]
      \cup [type : {"left"}, session1 : Session \cup {NoSession},
                             session2 : Session \cup {NoSession}]

Request == [op : {"deal1", "deal2"}, session : Session \cup {NoSession}]

\* Every variable of the browsers has its type.
BrowserTypeOK ==
    /\ TypeOK
    /\ page \in [Browsers -> Page \cup {StartPage, ErrorPage}]
    /\ link \in [Browsers -> BOOLEAN]
    /\ local \in [Browsers -> Session \cup {NoSession}]
    /\ button \in [Browsers -> {"start", "play1", "play2", "none"}]
    /\ label2 \in [Browsers -> BOOLEAN]
    /\ inbox \in [Browsers -> SUBSET Message]
    /\ requests \subseteq Request
    /\ gone \subseteq Browsers

Init ==
    /\ GamesInit
    /\ page = [b \in Browsers |-> StartPage]
    /\ link = [b \in Browsers |-> FALSE]
    /\ local = [b \in Browsers |-> NoSession]
    /\ nextSession = 1
    /\ button = [b \in Browsers |-> "none"]
    /\ label2 = [b \in Browsers |-> FALSE]
    /\ inbox = [b \in Browsers |-> {}]
    /\ requests = {} /\ gone = {}

Alive(b) == b \notin gone
OnGamePage(b) == page[b] \notin {StartPage, ErrorPage}

\* convertAndSend or @SendTo: every connected page gets it.
MaySend == \A b \in Browsers : Cardinality(inbox[b]) < MaxInbox
Send(m) ==
    /\ MaySend
    /\ inbox' = [b \in Browsers |-> IF link[b] THEN inbox[b] \cup {m} ELSE inbox[b]]

\* The browser goes to another page, which is not connected yet.
Show(b, new) ==
    /\ page' = [page EXCEPT ![b] = new]
    /\ link' = [link EXCEPT ![b] = FALSE]
    /\ button' = [button EXCEPT ![b] = IF new \in {StartPage, ErrorPage} THEN "none" ELSE "start"]
    /\ label2' = [label2 EXCEPT ![b] = new \notin {StartPage, ErrorPage} /\ new.player2 # NoPlayer]

\* Mutant: the page of a game without a first player is rendered too.
Redirect_AnySeats(b, g) ==
    /\ Show(b, IF g \in DOMAIN gameEntity THEN PageOf(g) ELSE ErrorPage)
    /\ inbox' = [inbox EXCEPT ![b] = {}]

\* redirectToGameplayPage: GET /gameplay renders the game as it is now.
Redirect(b, g) ==
    /\ Show(b, IF Renders(g) THEN PageOf(g) ELSE ErrorPage)
    /\ inbox' = [inbox EXCEPT ![b] = {}]

\* The user reloads a game page.
Reload(b) ==
    /\ Alive(b) /\ OnGamePage(b)
    /\ Redirect(b, page[b].gameId)
    /\ UNCHANGED <<server, local, nextSession, requests, gone>>

\* connectToWebSocket, on DOMContentLoaded.
Connect(b) ==
    /\ Alive(b) /\ ~link[b] /\ page[b] # ErrorPage
    /\ link' = [link EXCEPT ![b] = TRUE]
    /\ UNCHANGED <<server, page, local, nextSession, button, label2, inbox, requests,
                   gone>>

\* getSessionId: the browser's session, or a new one.
SessionId(b) == IF local[b] = NoSession THEN nextSession ELSE local[b]
KeepSession(b) ==
    /\ SessionId(b) \in Session
    /\ local' = [local EXCEPT ![b] = SessionId(b)]
    /\ nextSession' = IF local[b] = NoSession THEN nextSession + 1 ELSE nextSession

-----------------------------------------------------------------------------
(* The start page.                                                         *)

CanSubmit(b) == Alive(b) /\ link[b] /\ page[b] = StartPage

SubmitUsername(b, name) ==
    /\ CanSubmit(b) /\ KeepSession(b)
    /\ CreateGameAndPlayer(name, SessionId(b))
    /\ Send([type |-> "created", gameId |-> nextGameId, session |-> SessionId(b)])
    /\ UNCHANGED <<page, link, button, label2, requests, gone>>

\* A join that got the seat is answered, and one of an unknown game; a refused
\* one has no answer.
SubmitGameId(b, g, name) ==
    /\ CanSubmit(b) /\ KeepSession(b)
    /\ \/ /\ g \notin DOMAIN gameEntity
          /\ Send([type |-> "notFound"])
          /\ UNCHANGED server
       \/ /\ JoinGame(g, name, SessionId(b))
          /\ IF gameEntity' # gameEntity THEN Send([type |-> "joined", gameId |-> g])
             ELSE UNCHANGED inbox
    /\ UNCHANGED <<page, link, button, label2, requests, gone>>

-----------------------------------------------------------------------------
(* The game page.                                                          *)

\* "Start Game", unless the page says to wait for player 2.
ClickStart(b) ==
    /\ Alive(b) /\ link[b] /\ button[b] = "start" /\ label2[b]
    /\ requests' = requests \cup
         {[op |-> "deal1", session |-> page[b].player1Session],
          [op |-> "deal2", session |-> page[b].player2Session]}
    /\ UNCHANGED <<server, client>>

HandleDeal(r) ==
    /\ requests' = requests \ {r}
    /\ IF r.op = "deal1" THEN DealCards1(r.session) ELSE DealCards2(r.session)
    /\ Send([type |-> "dealt", session |-> r.session])
    /\ UNCHANGED <<ids, refused, page, link, local, nextSession, button, label2, gone>>

\* Two rows have the session: the handler throws and there is no answer.
DealThrows(r) ==
    /\ ~AtMostOneRow(r.session)
    /\ requests' = requests \ {r}
    /\ UNCHANGED <<server, client>>

\* Mutant: "Leave" leaves for player 1 unless it is clicked by player 2.
Leaver_First(b) ==
    IF local[b] = page[b].player2Session THEN page[b].player2Session
    ELSE page[b].player1Session

\* "Leave" leaves for player 1 in player 1's browser, for player 2 in others.
Leaver(b) ==
    IF local[b] = page[b].player1Session THEN page[b].player1Session
    ELSE page[b].player2Session

\* leaveGame finds no game or no player and changes nothing.
LeavesNothing(g, s) ==
    /\ g \notin DOMAIN gameEntity \/ PlayersBySession(s) = {}
    /\ UNCHANGED server

\* leaveGame throws: several rows have the session, or the player's row is
\* still referred to (then it is still there at the end).
LeaveThrows(s) == PlayersBySession(s) # {} /\ PlayersBySession(s)' # {}

ClickLeave(b) ==
    /\ Alive(b) /\ link[b] /\ OnGamePage(b) /\ MaySend
    /\ \E g \in {page[b].gameId}, s \in {Leaver(b)} :
         /\ \/ LeaveGame(g, s)
            \/ LeavesNothing(g, s)
            \/ ~AtMostOneRow(s) /\ UNCHANGED server
         /\ inbox' = [c \in Browsers |->
               IF c = b THEN {}
               ELSE IF link[c] /\ g \in DOMAIN gameEntity' /\ ~LeaveThrows(s)
               THEN inbox[c] \cup
                      {[type |-> "left", session1 |-> SessionOf(gameEntity[g].player1)',
                                         session2 |-> SessionOf(gameEntity[g].player2)']}
               ELSE inbox[c]]
    /\ local' = [local EXCEPT ![b] = NoSession]
    /\ Show(b, StartPage)
    /\ UNCHANGED <<nextSession, requests, gone>>

-----------------------------------------------------------------------------
(* Messages of the topics.                                                 *)

Done(b, m) == inbox' = [inbox EXCEPT ![b] = @ \ {m}]
Mine(b, s) == s # NoSession /\ local[b] = s

\* /topic/createGame redirects the creator, /topic/joinGame everybody, unless
\* the game was not found.  Both ask for the session id, and so make one.
ReceiveRedirect(b, m) ==
    /\ m.type \in {"created", "joined", "notFound"}
    /\ KeepSession(b)
    /\ IF m.type = "joined" \/ (m.type = "created" /\ Mine(b, m.session))
       THEN Redirect(b, m.gameId)
       ELSE Done(b, m) /\ UNCHANGED <<page, link, button, label2>>

\* Mutant: the buttons are shown whoever the cards were dealt to.
ReceiveDealt_Anybody(b, m) ==
    /\ m.type = "dealt"
    /\ Done(b, m)
    /\ button' = IF OnGamePage(b) /\ button[b] = "start"
                 THEN [button EXCEPT ![b] = "play1"] ELSE button
    /\ UNCHANGED <<page, link, label2, local, nextSession>>

\* handlePlayCardButtonVisibility, for the player the cards were dealt to.
\* It throws, before it shows a button, when there is no "Start Game".
ReceiveDealt(b, m) ==
    /\ m.type = "dealt"
    /\ Done(b, m)
    /\ button' = IF Mine(b, m.session) /\ OnGamePage(b) /\ button[b] = "start"
                 THEN [button EXCEPT ![b] =
                         IF m.session = page[b].player1Session THEN "play1"
                         ELSE IF m.session = page[b].player2Session THEN "play2"
                         ELSE "none"]
                 ELSE button
    /\ UNCHANGED <<page, link, label2, local, nextSession>>

\* updateUIAfterLeaving, which asks for the session id too.
ReceiveLeft(b, m) ==
    /\ m.type = "left"
    /\ KeepSession(b)
    /\ Done(b, m)
    /\ label2' = IF Mine(b, m.session1) THEN [label2 EXCEPT ![b] = FALSE] ELSE label2
    /\ UNCHANGED <<page, link, button>>

Receive(b) ==
    /\ Alive(b) /\ link[b]
    /\ \E m \in inbox[b] : ReceiveRedirect(b, m) \/ ReceiveDealt(b, m) \/ ReceiveLeft(b, m)
    /\ UNCHANGED <<server, requests, gone>>

-----------------------------------------------------------------------------
\* The user opens the start page, or closes the browser.  The listener of
\* SessionDisconnectEvent finds no username in the session, for nothing ever
\* puts one there, and does nothing.
OpenStartPage(b) ==
    /\ Alive(b) /\ page[b] # StartPage
    /\ Show(b, StartPage)
    /\ inbox' = [inbox EXCEPT ![b] = {}]
    /\ UNCHANGED <<server, local, nextSession, requests, gone>>

Close(b) ==
    /\ Alive(b)
    /\ gone' = gone \cup {b}
    /\ Show(b, StartPage)
    /\ inbox' = [inbox EXCEPT ![b] = {}]
    /\ UNCHANGED <<server, local, nextSession, requests>>

Click(b) ==
    \/ \E name \in Name : SubmitUsername(b, name)
    \/ \E g \in GameId, name \in Name : SubmitGameId(b, g, name)
    \/ ClickStart(b) \/ ClickLeave(b) \/ Reload(b) \/ OpenStartPage(b) \/ Close(b)

HandleDeals == \E r \in requests : HandleDeal(r) \/ DealThrows(r)

Next ==
    \/ \E b \in Browsers : Connect(b) \/ Receive(b) \/ Click(b)
    \/ HandleDeals

\* Scripts connect, messages arrive and requests are handled; nobody needs to
\* click.
Spec ==
    /\ Init /\ [][Next]_vars
    /\ \A b \in Browsers : WF_vars(Connect(b)) /\ WF_vars(Receive(b))
    /\ WF_vars(HandleDeals)

-----------------------------------------------------------------------------
(* Properties.                                                             *)

\* A page shows the button of a player only in the browser of that player, and
\* in one browser only: cards dealt, redirects, leaves and new sessions never
\* let a browser play for somebody else.
ButtonIsOwn ==
    /\ \A b \in Browsers :
         /\ button[b] = "play1" => Mine(b, page[b].player1Session)
         /\ button[b] = "play2" => Mine(b, page[b].player2Session)
    /\ \A b, c \in Browsers : b # c /\ local[b] # NoSession => local[b] # local[c]

FirstSeatLostByOwn ==
    \A g \in DOMAIN gameEntity :
         /\ gameEntity[g].player1 # NoPlayer
         /\ g \in DOMAIN gameEntity' => gameEntity'[g].player1 # gameEntity[g].player1
         => \E b \in Browsers :
               /\ Mine(b, SessionOf(gameEntity[g].player1))
               /\ local'[b] = NoSession

\* The first seat is lost only through "Leave" in player 1's own browser, which
\* then forgets its session: neither a stale page, nor a page that a redirect
\* opened in somebody else's browser, leaves for player 1.
FirstSeatIsSafe == [][FirstSeatLostByOwn]_vars

\* Player 1's page still says "Player 2" although somebody has the seat.
Waiting(b) ==
    /\ Alive(b) /\ OnGamePage(b)
    /\ Mine(b, page[b].player1Session) /\ ~label2[b]
    /\ page[b].gameId \in DOMAIN gameEntity
    /\ gameEntity[page[b].gameId].player1 = page[b].player1
    /\ gameEntity[page[b].gameId].player2 # NoPlayer

\* Player 1 gets to see that player 2 has joined.
Player1SeesPlayer2 == \A b \in Browsers : Waiting(b) ~> ~Waiting(b)

-----------------------------------------------------------------------------
(* Why they hold.                                                          *)

\* The session the next browser makes is in no browser yet.
SessionsFresh ==
    /\ nextSession \in Nat
    /\ \A b \in Browsers : local[b] # NoSession => local[b] < nextSession

\* What a game page, however old, still says truly about the tables: its game
\* gets no other first player, and the row of its first player, while it is
\* there, no other session.  A session in both seats has two rows, and so no
\* leave is ever handled for it.
PageHolds(p) ==
    /\ p.gameId < nextGameId /\ p.player1 < nextPlayerId
    /\ p.gameId \in DOMAIN gameEntity =>
          gameEntity[p.gameId].player1 \in {p.player1, NoPlayer}
    /\ p.player1 \in DOMAIN playerEntity =>
          playerEntity[p.player1].sessionId = p.player1Session
    /\ p.player1Session = p.player2Session =>
          \E q, r \in PlayersBySession(p.player1Session) : q # r

BrowserInv ==
    /\ GamesInv
    /\ BrowserTypeOK
    /\ SessionsFresh
    /\ ButtonIsOwn
    /\ \A r \in requests : r.session # NoSession
    /\ \A b \in Browsers :
         /\ OnGamePage(b) => PageHolds(page[b])
         /\ label2[b] => OnGamePage(b) /\ page[b].player2Session # NoSession
=============================================================================

# War card game: TLA+ models and proofs

The system is the Spring Boot server and the pages under `src/warcardgame`: two
players in two browsers play War over STOMP messages; the deck, the players and
the games are rows of a PostgreSQL database. Below, `Services/`, `Controllers/`
and so on are packages of `com.war.warcardgame`.

## 1. The system

| Part | State | Operations |
|---|---|---|
| `Services/CardsService` (one bean for all games) | whose turn it is, the two cards on the table, the two piles of captured cards | `dealCards1`, `dealCards2`, `playCard1`, `playCard2` with `gameRound` and `war`, `declareWinner`, `resetTurn`, `resetCapturedCards` |
| `Services/GameService`, `Services/PlayerService` | none (rows only) | `createNewPlayer`, `createNewGame`, `joinGame`, `leaveGame` with `reDealCards` |
| `Controllers/` | none | one STOMP mapping per operation, and the game page |
| `Repositories/`, `Models/`, `db/migration` | `player_entity`, `game_entity`, `card_entity` | `findAll`, `findById`, the two derived queries, `save`, `delete` |
| `static/*.js`, `templates/` | the session id in the browser; the ids and sessions a page was rendered with; the button it shows | the forms and buttons: create, join, start, play, leave; what the topics' messages do to a page |
| `Configuration/` | none | the broker and its thread pools; a disconnect listener that never finds the attribute it reads |

What makes it hard:

- No service opens a transaction. Every repository call commits alone, objects
  are detached after it, and `save` writes all columns of the object. A setter
  without a `save` is lost: `game.setWinner` in `declareWinner` is one.
- Some state is in the tables (`is_played`, owner, deal order), some in the bean
  (turn, table cards, piles). A restart keeps the first and loses the second.
- The two deals of one click are separate messages; each calls `findAll()`, which
  has no order, and takes a half.
- `war()` draws from both hands, may run out at each draw, and calls itself.
- A leave deals the whole deck anew, deletes rows under foreign keys and only then
  resets the bean.
- A page keeps its ids for as long as it is open.
- Handlers run on the thread pool of `clientInboundChannel`, several at a time and
  in no fixed order; nothing is synchronized, and both deals even keep their list
  in a field of the bean.
- Topics reach every subscribed page, in no fixed order, and no page that has not
  subscribed yet.

## 2. The modules

| Module | What it is |
|---|---|
| `Repositories` | the tables and the queries over them |
| `WarRules` | the abstract game: stocks, hands, table, piles, announcements |
| `CardsService` | the bean: one action per handler, `war()` one step per draw |
| `CardTable` | one seated game over `CardsService`; its properties; it implements `WarRules`, but for tied wars |
| `CardsThreads` | the same game with handlers on threads, one step per repository call or field access; it implements `WarRules` as long as requests come in order |
| `GameService` | creating, joining, leaving and the page, one action per handler |
| `GameServer` | the whole server: `GameService`, `CardsService` and requests from rendered pages |
| `GameThreads` | creating, joining and leaving on threads, one step per repository call, with crashes and with what deals and plays save |
| `Browser` | the pages and topics in several browsers, composed with `GameService` |
| `MCCardTable`, `MCCardsThreads`, `MCGameServer`, `MCGameThreads`, `MCBrowser` | decks, orders, shuffles and symmetry for TLC |
| `ServiceProofs` | every operation of `CardsService` keeps `ServiceInv`, every operation on games and players `GamesInv` |
| `CardTableProofs` | the theorems about the table |
| `CardsThreadsProofs` | the theorems about types, turns and piles of the table with threads |
| `ThreadsTableProofs` | lemmas: deals, clicks and reveals on threads follow `WarRules` |
| `ThreadsRulesProofs` | rounds, wars and the end too: the table with threads implements `WarRules` as long as requests come in order |
| `GameServerProofs`, `GameThreadsProofs`, `BrowserProofs` | the theorems about the server, the handlers on threads, the browsers |

```
WarRules   <== CardTable    --> CardsService --> Repositories
           <== CardsThreads -------------------> Repositories
GameServer, GameThreads, Browser --> GameService --> CardsService
```

(`-->` extends, `<==` is implemented by, under the conditions of section 5.)

**State.** A table is a function from the keys present to rows (`playerEntity`,
`gameEntity`); the card rows are never inserted or deleted, so each of their
changing columns is a function on `Card` (`cardPlayers`, `isPlayed`,
`dealOrder`). The bean's fields keep their names. `warCards` is the local list of
`war()`, and `call` the arguments of the `playCard2` that runs it; between
handlers the list is empty (`Idle`). `winnerTopic` is what was sent to
`/topic/game/winner`. Other messages of a game only redraw pages and are left out.

**Actions.** A handler that runs to its end without `war()` is one step. A handler
that throws before it changes anything, or that only answers "not your turn", is a
stuttering step: its guard is the condition under which it does more. Where a
handler throws later, the action keeps what it has saved: `JoinGame` on a full
game leaves the player's row, `LeaveGame` with a blocked delete skips the resets,
`WarAborts` leaves the turn where it was.

- `DealCards1/2` choose an order of `findAll` and a shuffle of the half.
- `PlayCard2` fixes `call.lastCard` when it reads player 2's list: this is what
  `allCardsPlayed` will answer, since the cards drawn by `war()` are objects of
  other queries.
- `GameRound` takes the card just played, because `playedCard2` is assigned right
  before the call.
- `EndOfRound` is the tail of `playCard2`; whatever ends the round performs it.
- `WarDraw`, `WarOutOfCards`, `WarAborts`, `WarCompare` are the steps of `war()`.
  No handler starts meanwhile; `CardsThreads` is the model in which one does.
- `Restart` constructs the bean anew, at any point, also inside a war.
- In `GameServer` each request comes from a page that was rendered once
  (`pages`). Any such page may be clicked at any time, in any order, and a session
  may be used again after a leave; the pages hide some buttons and a browser draws
  a new session id after its own leave, so the model allows more than the pages do.

**Threads.** In `CardsThreads` and `GameThreads` a thread is a record: the handler it
runs, where it is, its locals. A query copies what it returns into the locals; a
save writes all columns back, whatever has happened since.

- `dealCards1/2` read the field `allCards` once as the receiver of `subList` and once
  for each `size()` in its arguments (`SubListReceiver`, `SubListFrom`, `SubListTo`);
  bounds that do not fit make `subList` throw.
- `playCard1/2` read the hand (`ReceivePlay`) before they test the turn (`CheckTurn`).
- `Patient` says whether a player waits for the answer to a click before the next;
  `DealsOverlap` whether the two deals of a click may run together. The pages enforce
  neither. Patient players may still click before it is their turn.
- `orderly` is a history variable: so far each deal was requested once and ran apart
  from the other, `findAll` returned the rows as they were seeded, and every click was
  made in turn, after the answer to the last. It restricts nothing; properties use it.
- A comparison in `gameRound` and the captures it leads to are one step, and the
  fields are read in program order although they are not volatile: the models show
  what interleaving alone does. Two deals of the same player never overlap in the
  runs (they would shuffle one list at once): "Start Game" is clicked once
  (`MaxStarts`).
- `SavesGame` is the merge of a detached game: it overwrites the row, inserts a new
  one with a new id if the row was deleted, and throws if it names a missing player.
- `Crash` loses the bean and every running handler; what was committed stays.
- In `GameThreads` deals and plays are handlers too, of which the writes to
  `card_entity` are modelled (`ReceiveDeal`, `ReceivePlay`, `SavesCard`): the player and
  the rows are read first and saved card by card, whoever has left since. The bean's
  turn and piles are the matter of `CardsThreads`, and so is the list two deals share.

**Browsers.** A page is the start page, an error page, or what `gamePlayPage` rendered.
It is connected some time after it is shown; only then is it reached by topics and can
it send. `inbox` holds the messages on their way to it, taken out in any order; a page
load drops them. `getSessionId` makes a session where there is none, also when it is
called on receipt of a message. Requests are handled as they are sent, except the two
deals of "Start Game". Users may click, reload, go to the start page or close
(`Close`) at any time.

The project's definitions ending in `_Something` next to the ones they resemble
are deliberate mistakes, each marked "Mutant": every property is shown to fail
when one of them replaces the definition it follows.

## 3. Properties

`CardsService` (for whoever calls it):

- `TypeOK`; `CapturedOnce`: no card is captured twice and only played cards are;
- `RevealedCardWaits`: on player 2's turn `playedCard1` is a revealed card that
  nobody has captured;
- `WarCardsApart`: the cards of a war repeat nowhere and are in no pile, also after
  `war()` has called itself.

`CardTable`: `HandsInStep` (the hands shrink together),
`NoStrandedHand` (player 1 is never out of cards on their turn while player 2 has
some), `WinnerOnlyAtEnd`, `WinnerMatchesPiles` (the name sent last is the one the
final piles show), `LeaderKeepsLead` (an unfinished war does not change who is
ahead), `WarEnds`; and `WinnerDeclared`, `DeckDividedEvenly` and `FollowsRules`, which
the rules on the start page promise and the code does not keep.

`CardTable` and `CardsThreads` are compared with the rules: under a refinement mapping a
step is a step of `WarRules` or changes nothing there. `WarRules` follows the rules on
the start page; only `WarRunsOut` is taken from the code, for the page says nothing of
it. In the rules a tied war is fought again for all the cards (`WarTied`, which collects
them in `stake`). `war()` forgets them instead, so `FollowsRules` does not hold; the
properties that do allow this one other step, `TieForfeits`, and nothing else:
`FollowsRulesButTies` for the table, and `FollowsRulesInOrder` for threads, which says
that any further step against the rules comes after something went out of order
(`orderly` is false).

`GameService`, `GameServer`: `ServerTypeOK`; `GameRowsCoherent` (no game without players,
two different ones, a winner who sits in the game, rows for all of them);
`SeatsCoherent` (the same, one seat per player, and a game whose page cannot be rendered
any more, for its first player has left, is over and won by the other);
`RowsAccountedFor` (a row without a seat comes from a refused join); `LeaveCompletes` (the
delete in `leaveGame` is never stopped by a foreign key when a seat is vacated, so the
resets happen); and `CardsStayInGame` (as long as every session has one row, a card
passes only between the players of one game), which the code does not keep even while
everybody stays (`SpecStay`).

`CardsThreads`: `ThreadsTypeOK`; `TurnIsLock` (between the test of the turn and its
hand-over a handler is alone at the table; for patient players); `HandlersReturn`;
`CapturedOnceInOrder` and `FollowsRulesInOrder`, which judge a behaviour until something
goes out of order; and `CapturedOnce`, which an early click breaks.

`GameThreads`: `GameThreadsTypeOK`; `GameRowsCoherent` with several handlers at a time;
`VacatedHoldsNothing` (whoever loses a seat holds no card, so a leave cut short by a
crash can be done again; stated for behaviours in which no leave has run beside a join,
another leave, a deal or a play, and no join beside a deal or a play, which the history
variable `disturbed` records: a deal beside a leave gives cards back to the player who
leaves, and nothing in the code prevents it); and `SeatIsKept`,
which threads break. `SeatsCoherent` is not a property of threads: with a leave and two
joins at a time both joins insert the deleted game again, and player 1 sits in two games.

`Browser`: `BrowserTypeOK`; `ButtonIsOwn` (a browser shows the play button of its own
player only, and no two browsers share a session); `FirstSeatIsSafe` (player 1 is taken
out of the game only by "Leave" in player 1's own browser); and
`Player1SeesPlayer2`, which the pages do not keep.

## 4. The runs

| Run | Configuration | Result |
|---|---|---|
| `card_table` | `CardTable8` | all of section 3's properties of the table that the code keeps; about 80,000 states |
| `game_server` | `GameServer` | the properties of the server that the code keeps, and `WarCardsApart`, with restarts, also inside wars, and rows that move in `findAll`; about 1.2 million states |
| `cards_threads` | `CardsThreads` | types, `TurnIsLock`, `CapturedOnceInOrder`, `FollowsRulesInOrder` and `HandlersReturn` for patient players, with overlapping deals, moved rows and early clicks; about 280,000 states |
| `game_threads` | `GameThreads` | types, `GameRowsCoherent`, `VacatedHoldsNothing` with two handlers at a time, deals and plays among them, and crashes; about 3.4 million states |
| `browser` | `Browser` | types, `ButtonIsOwn`, `FirstSeatIsSafe` with three browsers; about 750,000 states |

The remaining runs show where the code does something else than the rules on the
start page (`templates/index.html:52`), its messages or its own declarations say:

| Run | What happens |
|---|---|
| `no_winner_after_war` | a war takes the last cards of both hands: `allCardsPlayed` sees a stale list and no winner is sent |
| `tied_war` | a war ties and is fought again: the cards it drew are in no list any more and go to nobody |
| `uneven_deal` | the two deals of a start see two orders of `findAll()`: cards of player 1 are dealt to player 2 |
| `two_games_one_deck` | two games of four browsers, nobody has left: a deal in one game takes the cards of the other |
| `early_click` | player 1, clicking once but early, has read the hand before player 2's war: a card of that war is played and captured again |
| `two_joins` | two joins find one free seat: both are told it is theirs, the second save takes it |
| `late_connect` | player 2 joins before player 1's page has subscribed: the page says "Wait for player2 to join!" until it is reloaded |

The passing runs rest on conditions that the code itself does not guarantee:

- `card_table` has one order of `findAll()`, which promises none: PostgreSQL gives an
  updated row a new place, and then the second deal may take cards of the first
  (`uneven_deal`). Its handlers run one at a time, so it says nothing of double clicks.
- It has no restarts; `game_server` has. A restart while player 1's card waits gives player 1 the turn
  again: player 1 runs out first and player 2's last card cannot be played.
- It has distinct names. `declareWinnerAndAddWarCards` compares names, so with equal
  ones player 1 gets the cards of an unfinished war.
- `TurnIsLock` needs players who wait for an answer: two clicks of one player may both
  pass the test of the turn. Overlapping deals and early clicks are in `cards_threads`;
  from the first of them on, `CapturedOnceInOrder` and `FollowsRulesInOrder` say nothing.
- In `cards_threads` "Start Game" is clicked once. A second click during a play writes
  the old `is_played` back; what the rules want then is not written anywhere.
- `VacatedHoldsNothing` needs leaves that run alone.
- A session may have several rows, after which its deals and leaves throw; the runs
  on the server and on browsers include this.
- `FirstSeatIsSafe` has no counterpart for the second seat: a join redirects every
  connected browser, and "Leave" in one that is neither player's leaves for player 2.

**Bounds.** `Deck8` is the eight-card deck that
`V2__InsertIntoTables.sql` keeps in a comment: four cards each are exactly one
card and the three draws of a war, so wars are completed, run out at each of
player 1's draws (player 2's never, see section 5), tie and call themselves. All 24 shuffles of each half are tried. `MaxDeals = 3` allows
one deal to be repeated, in any place. In `uneven_deal` a four-card deck with all 24
orders of `findAll` is enough for deals that overlap in zero, one or two cards.
The server runs with two games, four players and two browsers, so a seat
is vacated and taken again, a join is refused, and two games are open together;
`PlayerId` and `GameId` bound the generated keys. Its four cards with `WarDraws = 1` have
wars that are decided, that run out at the first or at a later draw, that abort because
a row is gone, and that a restart cuts short; a war that calls itself needs more cards and is in `card_table` and `cards_threads`. Browsers are interchangeable and
declared symmetric; `game_server` has no liveness property.
`CardsThreads` has two threads: a deal beside a deal, a play beside a deal or a war. Its
six cards, with `WarDraws = 1` and three shuffles of a half, have rounds and wars won by
either player, a round after a war, a war that ties and is decided by the next, and one
that ties and runs out. `findAll` returns the rows as seeded, or those of the first half
last, as after their update.
`GameThreads` has two threads, three players and two games: each pair of a create, join,
leave, deal and play overlaps; a deck of two cards, in either order, stands for the two
halves. Three threads (a leave and two joins) are covered by the proofs.
`Browser` has the two players
and a bystander, one game, three sessions and at most two messages on their way to a
page (`MaxInbox`), which is what it takes to reorder them; `late_connect` has
four of each, so that no bound stops a fair step in it. Threads and browsers are
declared symmetric in `game_threads` and `browser`, which check invariants and action properties only.

**Deadlock** is not checked: when all cards are played and no key is left, nothing
more happens, as in the program.

**Fairness.** Weak fairness on the steps of `war()` only: the thread that runs it
keeps running. `CardsThreads`: weak fairness on the steps of each thread that runs a
handler, for the same reason. `Browser`: weak fairness on connecting, on receiving and on
the handling of deals, for a page that stays open connects and messages on an open
connection arrive. Nobody has to click.

## 5. What is proved

Every safety property of the passing runs is a theorem, for
any deck, any number of war draws, shuffles, players, games, pages, threads and
browsers, as far as the module has them.

| Theorem | Property | Under |
|---|---|---|
| `TypeCorrect`, `CapturedOnceRestart`, `RevealedWaitsRestart`, `WarApartRestart` | `TypeOK`, `CapturedOnce`, `RevealedCardWaits`, `WarCardsApart` of the table | nothing; any orders of `findAll`, restarts |
| `StableHandsInStep`, `StableNoStrandedHand`, `StableWinnerOnlyAtEnd` | `HandsInStep`, `NoStrandedHand`, `WinnerOnlyAtEnd` | `StableOrder`, no restarts |
| `StableWinnerMatchesPiles`, `StableLeaderKeepsLead`, `StableFollowsRulesButTies` | `WinnerMatchesPiles`, `LeaderKeepsLead`, `FollowsRulesButTies` | `StableOrder`, no restarts, distinct names |
| `ThreadsTypeCorrect` | `ThreadsTypeOK` | nothing |
| `ThreadsTurnIsLock` | `TurnIsLock` | `Patient` |
| `ThreadsCapturedOnceInOrder` | `CapturedOnceInOrder` | nothing; the property speaks of requests in order |
| `ThreadsFollowsRulesInOrder` | `FollowsRulesInOrder` | distinct names; the same |
| `ServerTypeCorrect`, `ServerCapturedOnce`, `ServerRevealedWaits`, `ServerWarCardsApart`, `ServerSeatsCoherent`, `ServerRowsAccountedFor`, `ServerLeaveCompletes` | the properties of `game_server` | nothing; restarts |
| `GameThreadsTypeCorrect`, `GameThreadsRowsCoherent`, `GameThreadsVacatedHoldsNothing` | the properties of `game_threads` | nothing; crashes |
| `BrowserTypeCorrect`, `BrowserButtonIsOwn`, `BrowserSeatsCoherent`, `BrowserFirstSeatIsSafe` | the properties of `browser`, and `SeatsCoherent` | nothing |

The conditions are hypotheses of the theorems, not assumptions on the constants, and
section 4 says what happens without each of them. Where the table above says nothing,
only the modules' assumptions are used: the deck is finite and `findAll` returns every
card once, null is no key, players and sessions of a table are distinct, generated keys
are natural numbers, the deck has an even number of cards, and nobody is called
"It was a tie". `ServiceProofs` serves the table too; no proof about the table cites
what `GameService` assumes.

Each group rests on one inductive invariant. They are defined at the end of the model's
module, and TLC has checked each on the configuration of its run before it was proved.

**The piles: `ServiceInv`.** `CapturedOnce` alone is not inductive: to add the cards of
a round one must know that they are in no pile yet. `RevealedCardWaits` says so of
player 1's card, `WarCardsApart` of the list of a war and, because `war()` starts
anew from the two cards on the table, of `playedCard2` too. `ServiceInv` is their
conjunction with `TypeOK`. `ServiceProofs` has one lemma per operation;
`CaptureInv` is the common case of a list added to one pile, and `ConcatApart` the
fact about lists beneath it. These lemmas do not mention the table, so the server's
proofs use them too.

**The hands: `StepInv`.** With one order, player 1 can only own the first half and
player 2 the second. `StepInv` counts the unplayed cards of the two halves instead
of the hands: level between rounds, one apart while player 1's card waits, and
apart by the parity of the list in a war. It follows that player 2 never runs out
first in a war and that a war ends by an empty hand only when both are empty, so
`declareWinner` is called at the end only.

**The winner and the rules: `RulesInv`.** It adds to both that a half that was not dealt
has lost no card (so a deal gives exactly the stock), that a war keeps its first two
cards and starts before any winner was sent, and that a war begun with player 2's last
card draws nothing. The last is why the second announcement of one `playCard2`, after
the cards of an unfinished war were given away, repeats the first: those cards go to
whoever is ahead (`RunsOut`). Names must differ, for `declareWinnerAndAddWarCards` finds
the player by name. For each action one lemma (`DealRules` to `WarCompareRules`) shows
which step of `WarRules` it is; a pile, a list here and a set there, has as many cards as
it is long because it does not repeat (`PileSize`).

**The server: `GamesInv`, `ServerInv`.** `SeatsCoherent` needs that keys of the sequences
are new (`IdsFresh`), `RowsAccountedFor` that the refused players are known, and
`LeaveCompletes` all of these: whoever vacates a seat holds no card after `reDealCards`,
is no winner and sits nowhere else, so no foreign key refers to the row that is deleted.

**Threads: `TypeInv`, `LockInv`, `HalvesInv`, `TableInv`.** `TypeInv` adds what the local
variables of a handler hold at each point. `LockInv`: a handler between its test and its
hand-over has its own flag up and the other down, or, between the two assignments of a
hand-over, both down; and no two handlers of one player run. `HalvesInv` follows the
shared list `allCards` through the two deals and says which rows are still to be saved.
`TableInv` joins the two: a handler's card, read before its test of the turn, is still
unplayed when it is saved, for whoever clicked in turn still has the turn (`TurnKept`).
`HalvesInv`, `TableInv` and `RulesInv` hold as long as `orderly` does. What is inductive
is `orderly => TableInv`: `orderly` never comes back once it is lost (`OrderlyBefore`), and
the step that loses it has nothing to show.

**Threads and the rules: `RulesInv` of `CardsThreads`.** A handler saves a card before it
puts it on the table, and the table of the abstract game is partly in the bean's fields and
partly in a handler's list. The mapping (`TheTable`, `Hidden`) shows player 1's card on the
table from its save, player 2's from `gameRound`. `TableInv` keeps the cards apart but says nothing
of how many are left, and that decides when a winner may be sent. `RulesInv` adds that
whoever sees the play button has been dealt the whole half (`Served`), that the halves
shrink together but for the card that waits (`Level`), and what each handler has learnt
that still holds when it acts on it (`Knows`): the `last` it read before its test is
true, an empty query means an empty hand, and the first two cards of a war are the two on
the table. One lemma per kind of action (`DealFollows` to `LastCardFollows`) names its
step of `WarRules`; `QuietTable` serves those that leave the table alone. `FirstDealt` shows that a query for the next card finds nothing only if nothing
is left.

**Rows on threads: `RowsInv`, `VacatedInv`.** A handler saves a row it read earlier, so the
coherence of the rows is stated of the copies in the handlers' hands too (`RowInHand`),
and a joining player has no first seat in a table or in any such copy (`NewcomersNew`).
`VacatedInv` adds, as long as `disturbed` is false, that the row a
leave has read is still the one in the table, and that the cards still to be dealt are
the only ones the leaving player may hold.

**Browsers: `BrowserInv`.** `GamesInv`, sessions that are new when they are drawn, and of
every open page that the ids it was rendered with are never given to others
(`PageHolds`): game and first player keep their ids, and the first player's row its
session. If both players of a page have one session, that session has two rows, so a
leave from the page throws and no seat is lost.

## 6. Only model-checked

- Liveness: `WarEnds`, `HandlersReturn`, and the counterexample to `Player1SeesPlayer2`.
  The provers have no rule for fairness.
- The runs that end in a violation.

## 7. Not modelled

The texts, animation and layout of the pages, and what the topics of played cards,
piles, wars and winners draw; the broker's configuration calls; reordering by the Java
memory model; `WarCardGameApplication`; the prototype `src/WardCardGame2`, which is not
part of the game. `src/redis-7.2.4` is an unmodified copy of the Redis server. Nothing
in the game refers to it, so it is no part of the system verified here, although it
is nearly all of the repository by volume.

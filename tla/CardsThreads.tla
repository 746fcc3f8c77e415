---------------------------- MODULE CardsThreads ----------------------------
(***************************************************************************)
(* Services/CardsService.java on the thread pool of clientInboundChannel:  *)
(* the handlers of one table run at the same time, and take one step per   *)
(* repository call and per access to a shared field.  Between its query    *)
(* and its save a handler works on detached objects, and a save writes all *)
(* their columns.                                                          *)
(* The steps of a handler are in program order, although nothing makes the *)
(* fields volatile; a comparison and the captures that follow it are one   *)
(* step.  The rows of both players and of the game stay.                   *)
(***************************************************************************)
EXTENDS Repositories

CONSTANTS
    Thread,                     \* of the pool
    Deck,                       \* the rows of cards_entity as they were inserted
    Orders,                     \* the orders in which findAll() may return them
    Shuffles,                   \* the permutations Collections.shuffle may apply
    WarDraws,                   \* cards each player draws in one war
    Player1, Player2, Game,     \* the seated players and their game
    Session1, Session2,         \* their browsers
    Username1, Username2, Tie,  \* what may be sent to /topic/game/winner
    MaxStarts,                  \* bound on the clicks on "Start Game"
    DealsOverlap,               \* may two deals run at the same time?
    Patient                     \* do players wait for an answer to their click
                                \* before they click again?

ASSUME CardsThreadsAssumption ==
    /\ Deck \in Orders
    /\ \A order \in Orders :
          order \in Seq(Card) /\ Range(order) = Card /\ IsInjective(order)
    /\ Len(Deck) % 2 = 0 /\ WarDraws \in Nat \ {0} /\ MaxStarts \in Nat
    /\ {Player1, Player2} \subseteq PlayerId /\ Player1 # Player2 /\ Game \in GameId
    /\ {Session1, Session2} \subseteq Session /\ {Username1, Username2} \subseteq Name
    /\ DealsOverlap \in BOOLEAN /\ Patient \in BOOLEAN

VARIABLES
    allCards,                       \* the field: a list of card objects
    player1Turn, player2Turn,
    playedCard1, playedCard2,
    player1CapturedCards, player2CapturedCards,
    winnerTopic,
    thread,     \* the handler each thread runs: its arguments, its locals and
                \* where it is
    begun,      \* deal requests received, by operation
    buttons,    \* the players whose page shows the button that plays a card
    orderly     \* history: so far each deal was requested once and ran alone,
                \* findAll returned Deck, and players clicked when the turn was
                \* theirs and their last click was answered

cardRows == <<cardPlayers, isPlayed, dealOrder>>
turns == <<player1Turn, player2Turn>>
played == <<playedCard1, playedCard2>>
piles == <<player1CapturedCards, player2CapturedCards>>
requests == <<begun, buttons, orderly>>
vars == <<tables, allCards, turns, played, piles, winnerTopic, thread, requests>>

NoHandler == [op |-> "none", pc |-> "idle"]

Entity == [card : Card, isPlayed : BOOLEAN, order : Int]
DealHandler ==
    [op : {"deal1", "deal2"}, pc : {"findAll", "receiver", "from", "to", "save"},
     list : Seq(Entity), from : Nat, todo : Seq(Entity)]
PlayHandler ==
    [op : {"play1", "play2"},
     pc : {"turn", "reveal", "table", "pass1", "pass2", "round", "draw", "drawn",
           "runOut", "compare", "return2", "return1", "last"},
     card : Card \cup {NoCard}, order : Int, last : BOOLEAN, warCards : Seq(Card)]

\* Every field, column and local variable has its type.
ThreadsTypeOK ==
    /\ TablesTypeOK
    /\ allCards \in Seq(Entity)
    /\ player1Turn \in BOOLEAN /\ player2Turn \in BOOLEAN
    /\ playedCard1 \in Card \cup {NoCard} /\ playedCard2 \in Card \cup {NoCard}
    /\ player1CapturedCards \in Seq(Card) /\ player2CapturedCards \in Seq(Card)
    /\ winnerTopic \in Seq({Username1, Username2, Tie})
    /\ thread \in [Thread -> DealHandler \cup PlayHandler \cup {NoHandler}]
    /\ begun \in [{"deal1", "deal2"} -> 0..MaxStarts]
    /\ buttons \subseteq {Player1, Player2}
    /\ orderly \in BOOLEAN

Init ==
    /\ playerEntity = [p \in {Player1, Player2} |->
          IF p = Player1 THEN [username |-> Username1, sessionId |-> Session1]
          ELSE [username |-> Username2, sessionId |-> Session2]]
    /\ gameEntity = [g \in {Game} |->
          [player1 |-> Player1, player2 |-> Player2,
           winner |-> NoPlayer, gameState |-> "NEW_GAME"]]
    /\ SeededCards
    /\ allCards = <<>>
    /\ player1Turn = TRUE /\ player2Turn = FALSE
    /\ playedCard1 = NoCard /\ playedCard2 = NoCard
    /\ player1CapturedCards = <<>> /\ player2CapturedCards = <<>>
    /\ winnerTopic = <<>>
    /\ thread = [t \in Thread |-> NoHandler]
    /\ begun = [op \in {"deal1", "deal2"} |-> 0]
    /\ buttons = {}
    /\ orderly = TRUE

At(t, pc) == thread[t].pc = pc
Goto(t, pc) == thread' = [thread EXCEPT ![t].pc = pc]
Return(t) == thread' = [thread EXCEPT ![t] = NoHandler]

Player(op) == IF op \in {"deal1", "play1"} THEN Player1 ELSE Player2
Running(ops) == {t \in Thread : thread[t].op \in ops}

\* save(card): all columns of the row are overwritten.
Save(card, player, order, flag) ==
    /\ cardPlayers' = [cardPlayers EXCEPT ![card] = player]
    /\ dealOrder' = [dealOrder EXCEPT ![card] = order]
    /\ isPlayed' = [isPlayed EXCEPT ![card] = flag]
    /\ UNCHANGED <<playerEntity, gameEntity>>

-----------------------------------------------------------------------------
(* dealCards1 and dealCards2.                                              *)

\* The request arrives; allCards = new ArrayList<>().
ReceiveDeal(t, op) ==
    /\ thread[t] = NoHandler
    /\ begun[op] < MaxStarts
    /\ DealsOverlap \/ Running({"deal1", "deal2"}) = {}
    /\ begun' = [begun EXCEPT ![op] = @ + 1]
    /\ orderly' = (orderly /\ begun[op] = 0 /\ Running({"deal1", "deal2"}) = {})
    /\ allCards' = <<>>
    /\ thread' = [thread EXCEPT ![t] = [op |-> op, pc |-> "findAll", list |-> <<>>,
                                        from |-> 0, todo |-> <<>>]]
    /\ UNCHANGED <<tables, turns, played, piles, winnerTopic, buttons>>

\* allCards = cardsRepository.findAll(): a query without ORDER BY.
FindAll(t) ==
    /\ At(t, "findAll")
    /\ \E order \in Orders :
         /\ allCards' = [i \in DOMAIN order |->
               [card |-> order[i], order |-> dealOrder[order[i]],
                isPlayed |-> isPlayed[order[i]]]]
         /\ orderly' = (orderly /\ order = Deck)
    /\ Goto(t, "receiver")
    /\ UNCHANGED <<tables, turns, played, piles, winnerTopic, begun, buttons>>

\* allCards.subList(from, to) reads the field once for the list, and once for
\* each allCards.size() in its arguments.
SubListReceiver(t) ==
    /\ At(t, "receiver")
    /\ thread' = [thread EXCEPT ![t].list = allCards,
                                ![t].pc = IF thread[t].op = "deal1" THEN "to" ELSE "from"]
    /\ UNCHANGED <<tables, allCards, turns, played, piles, winnerTopic, requests>>

SubListFrom(t) ==
    /\ At(t, "from")
    /\ thread' = [thread EXCEPT ![t].from = Len(allCards) \div 2, ![t].pc = "to"]
    /\ UNCHANGED <<tables, allCards, turns, played, piles, winnerTopic, requests>>

\* Out of bounds: subList throws and nothing is dealt.  Otherwise the part is
\* shuffled, and each card gets its place in it.
SubListTo(t) ==
    /\ At(t, "to")
    /\ LET list == thread[t].list
           from == thread[t].from
           to == IF thread[t].op = "deal1" THEN Len(allCards) \div 2 ELSE Len(allCards)
           size == to - from
       IN IF size < 0 \/ to > Len(list) THEN Return(t)
          ELSE \E shuffle \in Shuffles :
                 /\ shuffle \in Bijection(1..size, 1..size)
                 /\ thread' = [thread EXCEPT
                       ![t].todo = [i \in 1..size |->
                                      [list[from + shuffle[i]] EXCEPT !.order = i - 1]],
                       ![t].pc = "save"]
    /\ UNCHANGED <<tables, allCards, turns, played, piles, winnerTopic, requests>>

\* save(card), with is_played as findAll read it.
DealSave(t) ==
    /\ At(t, "save") /\ thread[t].todo # <<>>
    /\ LET entity == Head(thread[t].todo)
       IN Save(entity.card, Player(thread[t].op), entity.order, entity.isPlayed)
    /\ thread' = [thread EXCEPT ![t].todo = Tail(@)]
    /\ UNCHANGED <<allCards, turns, played, piles, winnerTopic, requests>>

\* The answer makes the player's page show its button.
DealAnswer(t) ==
    /\ At(t, "save") /\ thread[t].todo = <<>>
    /\ buttons' = buttons \cup {Player(thread[t].op)}
    /\ Return(t)
    /\ UNCHANGED <<tables, allCards, turns, played, piles, winnerTopic, begun, orderly>>

Deal(t) ==
    \/ FindAll(t) \/ SubListReceiver(t) \/ SubListFrom(t) \/ SubListTo(t)
    \/ DealSave(t) \/ DealAnswer(t)

-----------------------------------------------------------------------------
(* playCard1, and playCard2 up to gameRound.                               *)

MyTurn(op) == IF op = "play1" THEN player1Turn ELSE player2Turn

\* The query, whose list fixes the card that the loop will find.
Pick(player) == IF NextCards(player) = {} THEN {NoCard} ELSE NextCards(player)
OrderOf(card) == IF card = NoCard THEN -1 ELSE dealOrder[card]

ReceivePlay(t, op) ==
    /\ thread[t] = NoHandler
    /\ Player(op) \in buttons
    /\ Patient => Running({op}) = {}
    /\ orderly' = (orderly /\ Running({op}) = {} /\ MyTurn(op))
    /\ \E card \in Pick(Player(op)) :
         thread' = [thread EXCEPT ![t] =
            [op |-> op, pc |-> "turn", card |-> card, order |-> OrderOf(card),
             last |-> Unplayed(Player(op)) \subseteq {card}, warCards |-> <<>>]]
    /\ UNCHANGED <<tables, allCards, turns, played, piles, winnerTopic, begun, buttons>>

\* if (player1Turn) for (card ...) if (!card.isPlayed()).
CheckTurn(t) ==
    /\ At(t, "turn")
    /\ IF MyTurn(thread[t].op) /\ thread[t].card # NoCard
       THEN Goto(t, "reveal")
       ELSE Return(t)
    /\ UNCHANGED <<tables, allCards, turns, played, piles, winnerTopic, requests>>

\* card.setPlayed(true); save(card).
Reveal(t) ==
    /\ At(t, "reveal")
    /\ Save(thread[t].card, Player(thread[t].op), thread[t].order, TRUE)
    /\ Goto(t, "table")
    /\ UNCHANGED <<allCards, turns, played, piles, winnerTopic, requests>>

\* Mutant: player 2 gets the turn while player 1 still holds it.
PutOnTable_EarlyTurn(t) ==
    /\ At(t, "table") /\ thread[t].op = "play1"
    /\ playedCard1' = thread[t].card
    /\ player2Turn' = TRUE
    /\ Goto(t, "pass1")
    /\ UNCHANGED <<tables, allCards, player1Turn, playedCard2, piles, winnerTopic, requests>>

\* playedCard1 = card, or playedCard2 = card.
PutOnTable(t) ==
    /\ At(t, "table")
    /\ \/ /\ thread[t].op = "play1"
          /\ playedCard1' = thread[t].card
          /\ Goto(t, "pass1")
          /\ UNCHANGED playedCard2
       \/ /\ thread[t].op = "play2"
          /\ playedCard2' = thread[t].card
          /\ Goto(t, "round")
          /\ UNCHANGED playedCard1
    /\ UNCHANGED <<tables, allCards, turns, piles, winnerTopic, requests>>

\* player1Turn = false; player2Turn = true; return.
Pass1(t) ==
    /\ At(t, "pass1")
    /\ player1Turn' = FALSE
    /\ Goto(t, "pass2")
    /\ UNCHANGED <<tables, allCards, player2Turn, played, piles, winnerTopic, requests>>

Pass2(t) ==
    /\ At(t, "pass2")
    /\ player2Turn' = TRUE
    /\ Return(t)
    /\ UNCHANGED <<tables, allCards, player1Turn, played, piles, winnerTopic, requests>>

Play(t) == CheckTurn(t) \/ Reveal(t) \/ PutOnTable(t) \/ Pass1(t) \/ Pass2(t)

-----------------------------------------------------------------------------
(* gameRound, war and the end of playCard2.                                *)

Verdict ==
    IF Len(player1CapturedCards) > Len(player2CapturedCards) THEN Username1
    ELSE IF Len(player1CapturedCards) < Len(player2CapturedCards) THEN Username2
    ELSE Tie

Capture1(cards) ==
    /\ player1CapturedCards' = player1CapturedCards \o cards
    /\ UNCHANGED player2CapturedCards
Capture2(cards) ==
    /\ player2CapturedCards' = player2CapturedCards \o cards
    /\ UNCHANGED player1CapturedCards

\* Mutant: a round that player 1 wins adds player 1's card twice.
GameRound_Twice(t) ==
    /\ At(t, "round") /\ Rank[playedCard1] > Rank[playedCard2]
    /\ Capture1(<<playedCard1, playedCard1>>) /\ Goto(t, "return2")
    /\ UNCHANGED <<tables, allCards, turns, played, winnerTopic, requests>>

\* gameRound compares the two fields; it throws when playedCard1 is null.
GameRound(t) ==
    /\ At(t, "round")
    /\ LET cards == <<playedCard1, playedCard2>>
       IN IF playedCard1 = NoCard THEN Return(t) /\ UNCHANGED piles
          ELSE \/ /\ Rank[playedCard1] > Rank[playedCard2]
                  /\ Capture1(cards) /\ Goto(t, "return2")
               \/ /\ Rank[playedCard1] < Rank[playedCard2]
                  /\ Capture2(cards) /\ Goto(t, "return2")
               \/ /\ Rank[playedCard1] = Rank[playedCard2]
                  /\ thread' = [thread EXCEPT ![t].warCards = cards, ![t].pc = "draw"]
                  /\ UNCHANGED piles
    /\ UNCHANGED <<tables, allCards, turns, played, winnerTopic, requests>>

Drawer(t) == IF Len(thread[t].warCards) % 2 = 0 THEN Player1 ELSE Player2

\* Mutant: drawNextCard's null is not tested for.
WarQuery_NoNull(t) ==
    /\ At(t, "draw")
    /\ \E card \in Pick(Drawer(t)) :
         thread' = [thread EXCEPT ![t].card = card, ![t].order = OrderOf(card),
                                  ![t].pc = "drawn"]
    /\ UNCHANGED <<tables, allCards, turns, played, piles, winnerTopic, requests>>

\* drawNextCard: the query, then the save, or null.
WarQuery(t) ==
    /\ At(t, "draw")
    /\ \E card \in Pick(Drawer(t)) :
         thread' = [thread EXCEPT ![t].card = card, ![t].order = OrderOf(card),
                                  ![t].pc = IF card = NoCard THEN "runOut" ELSE "drawn"]
    /\ UNCHANGED <<tables, allCards, turns, played, piles, winnerTopic, requests>>

WarSave(t) ==
    /\ At(t, "drawn")
    /\ Save(thread[t].card, Drawer(t), thread[t].order, TRUE)
    /\ thread' = [thread EXCEPT
          ![t].warCards = Append(@, thread[t].card),
          ![t].pc = IF Len(thread[t].warCards) + 1 = 2 + 2 * WarDraws
                    THEN "compare" ELSE "draw"]
    /\ UNCHANGED <<allCards, turns, played, piles, winnerTopic, requests>>

\* Mutant: a war without a card to draw tries to draw again.
WarRunsOut_Retries(t) ==
    /\ At(t, "runOut")
    /\ Goto(t, "draw")
    /\ UNCHANGED <<tables, allCards, turns, played, piles, winnerTopic, requests>>

\* declareWinnerAndAddWarCards: it compares names, player 1's first.
WarRunsOut(t) ==
    /\ At(t, "runOut")
    /\ \/ Verdict = Username1 /\ Capture1(thread[t].warCards)
       \/ Verdict = Username2 /\ Username1 # Username2 /\ Capture2(thread[t].warCards)
       \/ Verdict \notin {Username1, Username2} /\ UNCHANGED piles
    /\ winnerTopic' = Append(winnerTopic, Verdict)
    /\ Goto(t, "return2")
    /\ UNCHANGED <<tables, allCards, turns, played, requests>>

\* The last two cards decide; a tie calls war() again, which reads the fields
\* again.
WarCompare(t) ==
    /\ At(t, "compare")
    /\ LET warCards == thread[t].warCards
           lastCard1 == warCards[Len(warCards) - 1]
           lastCard2 == warCards[Len(warCards)]
       IN \/ /\ Rank[lastCard1] > Rank[lastCard2]
             /\ Capture1(warCards) /\ Goto(t, "return2")
          \/ /\ Rank[lastCard1] < Rank[lastCard2]
             /\ Capture2(warCards) /\ Goto(t, "return2")
          \/ /\ Rank[lastCard1] = Rank[lastCard2]
             /\ thread' = [thread EXCEPT ![t].warCards = played, ![t].pc = "draw"]
             /\ UNCHANGED piles
    /\ UNCHANGED <<tables, allCards, turns, played, winnerTopic, requests>>

\* player2Turn = false; player1Turn = true; the winner, if the list read at
\* the start is all played.
Return2(t) ==
    /\ At(t, "return2")
    /\ player2Turn' = FALSE
    /\ Goto(t, "return1")
    /\ UNCHANGED <<tables, allCards, player1Turn, played, piles, winnerTopic, requests>>

\* Mutant: the winner is sent after every round.
Return1_Always(t) ==
    /\ At(t, "return1")
    /\ player1Turn' = TRUE
    /\ Goto(t, "last")
    /\ UNCHANGED <<tables, allCards, player2Turn, played, piles, winnerTopic, requests>>

Return1(t) ==
    /\ At(t, "return1")
    /\ player1Turn' = TRUE
    /\ IF thread[t].last THEN Goto(t, "last") ELSE Return(t)
    /\ UNCHANGED <<tables, allCards, player2Turn, played, piles, winnerTopic, requests>>

LastCard(t) ==
    /\ At(t, "last")
    /\ winnerTopic' = Append(winnerTopic, Verdict)
    /\ Return(t)
    /\ UNCHANGED <<tables, allCards, turns, played, piles, requests>>

EndRound(t) ==
    \/ GameRound(t) \/ WarQuery(t) \/ WarSave(t) \/ WarRunsOut(t) \/ WarCompare(t)
    \/ Return2(t) \/ Return1(t) \/ LastCard(t)

-----------------------------------------------------------------------------
Run(t) == Deal(t) \/ Play(t) \/ EndRound(t)

Receive(t) ==
    \/ \E op \in {"deal1", "deal2"} : ReceiveDeal(t, op)
    \/ \E op \in {"play1", "play2"} : ReceivePlay(t, op)

Next == \E t \in Thread : Receive(t) \/ Run(t)

\* A thread that runs a handler keeps running; nobody needs to click.
Spec == Init /\ [][Next]_vars /\ \A t \in Thread : WF_vars(Run(t))

-----------------------------------------------------------------------------
(* Properties.                                                             *)

\* A handler that found the turn to be its player's and has not yet given it
\* to the other.
HoldsTurn(t) ==
    thread[t].pc \in {"reveal", "table", "pass1", "pass2", "round", "draw", "drawn",
                      "runOut", "compare", "return2", "return1"}

\* The two turn flags are a lock: between its check of the flag and the
\* hand-over, through saves and wars, a handler is alone at the table, although
\* check and hand-over are far apart and nothing is synchronized.
TurnIsLock == \A t, u \in Thread : HoldsTurn(t) /\ HoldsTurn(u) => t = u

\* No card is captured twice, and only cards that left their hand are.
CapturedOnce ==
    /\ IsInjective(player1CapturedCards)
    /\ IsInjective(player2CapturedCards)
    /\ Range(player1CapturedCards) \cap Range(player2CapturedCards) = {}
    /\ \A c \in Range(player1CapturedCards) \cup Range(player2CapturedCards) :
          isPlayed[c]

\* The handler whose locals say what is on the table, if there is one.
Dealer(op, pcs) == {t \in Running({op}) : thread[t].pc \in pcs}
AtWar == Dealer("play2", {"draw", "drawn", "runOut", "compare"})
Revealing == Dealer("play1", {"table", "pass1", "pass2"})
Hidden == {thread[t].card : t \in Dealer("play2", {"table", "round"})}

Half1 == {Deck[i] : i \in 1..(Len(Deck) \div 2)}
Half2 == Card \ Half1

\* The cards on the table, player 1's from its save and player 2's from gameRound.
TheTable ==
    IF AtWar # {} THEN thread[CHOOSE t \in AtWar : TRUE].warCards
    ELSE IF Revealing # {} THEN <<thread[CHOOSE t \in Revealing : TRUE].card>>
    ELSE IF player2Turn /\ Dealer("play2", {"return2"}) = {} THEN <<playedCard1>>
    ELSE <<>>

Rules == INSTANCE WarRules WITH
    HalfDeck <- Len(Deck) \div 2,
    First <- Username1, Second <- Username2, Even <- Tie,
    stock1 <- Half1 \ FindCardsByPlayer(Player1),
    stock2 <- Half2 \ FindCardsByPlayer(Player2),
    hand1 <- Unplayed(Player1),
    hand2 <- Unplayed(Player2) \cup Hidden,
    table <- TheTable,
    stake <- {},
    pile1 <- Range(player1CapturedCards),
    pile2 <- Range(player2CapturedCards),
    verdicts <- winnerTopic

\* As long as everything went in order, no card is captured twice, although
\* the second deal and the plays run at the same time.
CapturedOnceInOrder == orderly => CapturedOnce

\* Whatever the handlers, step by step and at the same time, do against the
\* rules, they do after something went out of order, or it is a tied war whose
\* cards war() forgets.
FollowsRulesInOrder ==
    /\ Rules!Init
    /\ [][orderly' => Rules!NextButTies]_(Rules!vars)

\* Every request is answered: each handler returns, its wars end.
HandlersReturn ==
    \A t \in Thread : thread[t] # NoHandler ~> thread[t] = NoHandler

-----------------------------------------------------------------------------
(* Why they hold.                                                          *)

\* A handler has a card when it saves one, and the fields it compares are set.
LocalsSet ==
    \A t \in Thread :
        /\ thread[t].pc \in {"reveal", "table", "drawn"} => thread[t].card \in Card
        /\ thread[t].pc \in {"round", "draw", "drawn", "runOut", "compare"} =>
              playedCard2 \in Card
        /\ thread[t].pc \in {"draw", "drawn", "runOut", "compare"} => playedCard1 \in Card

TypeInv == ThreadsTypeOK /\ LocalsSet

\* Where playCard1 and playCard2 may be.
PlaysInOrder ==
    \A t \in Thread :
        /\ thread[t].op = "play1" =>
              thread[t].pc \in {"turn", "reveal", "table", "pass1", "pass2"}
        /\ thread[t].op = "play2" => thread[t].pc \notin {"pass1", "pass2"}

\* A player whose click is not answered does not click again.
OneEach ==
    \A t, u \in Thread :
        thread[t].op \in {"play1", "play2"} /\ thread[u].op = thread[t].op => t = u

\* The handler that holds the turn has one flag up, until it lowers it.
HolderHasFlag ==
    \A t \in Thread : HoldsTurn(t) =>
        \/ /\ thread[t].op = "play1" /\ ~player2Turn
           /\ player1Turn = (thread[t].pc # "pass2")
        \/ /\ thread[t].op = "play2" /\ ~player1Turn
           /\ player2Turn = (thread[t].pc # "return1")

LockInv ==
    /\ TypeInv
    /\ PlaysInOrder
    /\ OneEach
    /\ ~(player1Turn /\ player2Turn)
    /\ HolderHasFlag
    /\ TurnIsLock

\* A deal gives a player cards of the player's own half, and no card is played
\* before it is dealt.
OwnHalf ==
    \A c \in Card :
        /\ cardPlayers[c] \in {NoPlayer, IF c \in Half1 THEN Player1 ELSE Player2}
        /\ cardPlayers[c] = NoPlayer => ~isPlayed[c]

HalfOf(op) == IF op = "deal1" THEN Half1 ELSE Half2
Undealt(op) == HalfOf(op) \ FindCardsByPlayer(Player(op))

\* allCards is the table, with is_played as it still is in the half to deal.
AllCardsRead(op) ==
    /\ Len(allCards) = Len(Deck)
    /\ \A i \in 1..Len(Deck) :
          allCards[i].card = Deck[i] /\ (Deck[i] \in HalfOf(op) => ~allCards[i].isPlayed)

\* How far the only deal of a player's cards is.
DealProgress(t) ==
    LET op == thread[t].op
        pc == thread[t].pc
        todo == thread[t].todo
    IN /\ begun[op] > 0
       /\ pc # "save" => Undealt(op) = HalfOf(op)
       /\ pc \in {"receiver", "from", "to"} => AllCardsRead(op)
       /\ pc \in {"from", "to"} => thread[t].list = allCards
       /\ op = "deal1" => pc # "from" /\ thread[t].from = 0
       /\ op = "deal2" /\ pc = "to" => thread[t].from = Len(Deck) \div 2
       /\ pc = "save" =>
             /\ {todo[i].card : i \in DOMAIN todo} = Undealt(op)
             /\ \A i, j \in DOMAIN todo : todo[i].card = todo[j].card => i = j
             /\ \A i \in DOMAIN todo : ~todo[i].isPlayed

HalvesInv ==
    /\ OwnHalf
    /\ \A t, u \in Running({"deal1", "deal2"}) : t = u
    /\ \A op \in {"deal1", "deal2"} :
          /\ begun[op] = 0 => Undealt(op) = HalfOf(op)
          /\ begun[op] > 0 /\ Running({op}) = {} => Undealt(op) = {}
    /\ \A t \in Running({"deal1", "deal2"}) : DealProgress(t)

\* Who clicked in turn still has the turn when the handler looks.
TurnKept == \A t \in Thread : At(t, "turn") => MyTurn(thread[t].op)

\* A card on its way from a hand to the table, and a card on the table.
InHand(c, player) == c \in Unplayed(player)
OnTable(c) ==
    /\ isPlayed[c]
    /\ c \notin Range(player1CapturedCards) \cup Range(player2CapturedCards)

\* playedCard1 lies on the table from player 1's turn until the round is over.
FirstCardLies ==
    \/ Dealer("play1", {"pass1", "pass2"}) # {}
    \/ player2Turn /\ Dealer("play2", {"return2"}) = {}
    => playedCard1 \in FindCardsByPlayer(Player1) /\ OnTable(playedCard1)

\* What a handler knows of the cards in its locals.
CardsOf(t) ==
    LET h == thread[t]
    IN /\ h.pc \in {"turn", "reveal"} /\ h.card # NoCard => InHand(h.card, Player(h.op))
       /\ h.pc = "drawn" => InHand(h.card, Drawer(t))
       /\ h.pc = "table" => h.card \in FindCardsByPlayer(Player(h.op)) /\ OnTable(h.card)
       /\ h.pc \in {"round", "draw", "drawn", "runOut", "compare"} =>
             playedCard2 \in FindCardsByPlayer(Player2) /\ OnTable(playedCard2)
       /\ h.pc \in {"draw", "drawn", "runOut", "compare"} =>
             IsInjective(h.warCards) /\ \A c \in Range(h.warCards) : OnTable(c)

TableInv ==
    /\ LockInv
    /\ HalvesInv
    /\ TurnKept
    /\ FirstCardLies
    /\ \A t \in Thread : CardsOf(t)
    /\ CapturedOnce

\* Whose page shows the button has got all cards of the half, and player 2
\* has the turn only after player 1.
Served ==
    /\ \A op \in {"deal1", "deal2"} : Player(op) \in buttons => Undealt(op) = {}
    /\ \A t \in Thread :
          thread[t].op \in {"play1", "play2"} => Player(thread[t].op) \in buttons
    /\ player2Turn => Player1 \in buttons

\* The cards of a half that are not on the table or in a pile, dealt or not.
Rest1 == {c \in Half1 : ~isPlayed[c]}
Rest2 == {c \in Half2 : ~isPlayed[c]} \cup Hidden

\* The halves shrink together, except while player 1's card, or the one player
\* 1 has drawn in a war, waits for player 2's.
Level == Cardinality(Rest2) = Cardinality(Rest1) + (Len(TheTable) % 2)

\* What a handler knows of the table, and of the hands when it runs out of
\* cards or has read that its card is player 2's last.
Knows(t) ==
    LET h == thread[t]
    IN /\ h.pc \in {"pass1", "pass2"} => playedCard1 = h.card
       /\ h.pc = "round" => playedCard2 = h.card
       /\ h.pc \in {"draw", "drawn", "runOut", "compare"} =>
             /\ Len(h.warCards) \in 2..(2 + 2 * WarDraws)
             /\ h.pc = "compare" <=> Len(h.warCards) = 2 + 2 * WarDraws
             /\ h.warCards[1] = playedCard1 /\ h.warCards[2] = playedCard2
       /\ h.pc = "runOut" => Unplayed(Drawer(t)) = {}
       /\ h.op = "play2" /\ h.last =>
             Unplayed(Player2) \subseteq (IF h.pc \in {"turn", "reveal"} THEN {h.card} ELSE {})
       /\ h.pc = "last" => \A c \in Card : isPlayed[c]

RulesInv ==
    /\ TableInv
    /\ Served
    /\ Level
    /\ \A t \in Thread : Knows(t)
=============================================================================

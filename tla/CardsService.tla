---------------------------- MODULE CardsService ----------------------------
(***************************************************************************)
(* Services/CardsService.java: dealing, playing, the round and the war,    *)
(* the winner.  The bean is a singleton, so its fields are shared by every *)
(* game.  Here a handler runs alone: each is one action, except that the   *)
(* loop of war(), inside playCard2, takes one step per card drawn and one  *)
(* per comparison; no other handler starts until it returns.               *)
(* Replies that only redraw a page (the dealt cards, "not your turn", the  *)
(* war banner) are not recorded; a handler that changes no state is then a *)
(* stuttering step.                                                        *)
(***************************************************************************)
EXTENDS Repositories

CONSTANTS
    HalfDeck,   \* allCards.size() / 2 (26 in production)
    WarDraws,   \* cards each player draws in one war (3 in the code)
    Orders,     \* the row orders findAll(), which has no ORDER BY, may return
    Shuffles,   \* the permutations Collections.shuffle may apply to a half
    Tie         \* the text "It was a tie"

ASSUME CardsServiceAssumption ==
    /\ HalfDeck \in Nat \ {0}
    /\ WarDraws \in Nat \ {0}
    /\ Orders # {}
    /\ Orders \subseteq Bijection(1..(2 * HalfDeck), Card)
    /\ Shuffles \subseteq Bijection(1..HalfDeck, 1..HalfDeck)
    /\ Tie \notin Name

VARIABLES
    player1Turn, player2Turn,       \* Boolean fields
    playedCard1, playedCard2,       \* the cards on the table, or null
    player1CapturedCards,           \* lists, in capture order
    player2CapturedCards,
    warCards,                       \* local list of war(); empty: no war runs
    call,                           \* the playCard2 call that runs war()
    winnerTopic                     \* what was sent to /topic/game/winner

turns == <<player1Turn, player2Turn>>
piles == <<player1CapturedCards, player2CapturedCards>>
service == <<turns, playedCard1, playedCard2, piles, warCards, call,
             winnerTopic>>

\* The arguments of playCard2, and what allCardsPlayed(player2Cards) will
\* answer at its end: the list is read at its start, and the cards that
\* war() draws are other objects, so the answer is fixed by the first card.
Calls == [player1Id : PlayerId, player2Id : PlayerId, gameId : GameId,
          lastCard : BOOLEAN]
NoCall == [player1Id |-> NoPlayer, player2Id |-> NoPlayer,
           gameId |-> NoGame, lastCard |-> FALSE]

Idle == warCards = <<>>

\* Every variable has the type of its column or field.
TypeOK ==
    /\ TablesTypeOK
    /\ player1Turn \in BOOLEAN /\ player2Turn \in BOOLEAN
    /\ playedCard1 \in Card \cup {NoCard}
    /\ playedCard2 \in Card \cup {NoCard}
    /\ player1CapturedCards \in Seq(Card)
    /\ player2CapturedCards \in Seq(Card)
    /\ warCards \in Seq(Card)
    /\ call \in Calls \cup {NoCall}
    /\ winnerTopic \in Seq(Name \cup {Tie})

\* The field initialisers and the constructor.
ServiceInit ==
    /\ player1Turn = TRUE /\ player2Turn = FALSE
    /\ playedCard1 = NoCard /\ playedCard2 = NoCard
    /\ player1CapturedCards = <<>> /\ player2CapturedCards = <<>>
    /\ warCards = <<>> /\ call = NoCall

-----------------------------------------------------------------------------
(* Dealing.                                                                *)

FirstHalf(order) == [i \in 1..HalfDeck |-> order[i]]

\* Mutant: the second half starts one card too early.
SecondHalf_OffByOne(order) == [i \in 1..HalfDeck |-> order[HalfDeck + i - 1]]

SecondHalf(order) == [i \in 1..HalfDeck |-> order[HalfDeck + i]]

\* for (i ...) { card.setDealOrder(i); card.setPlayers(player); save(card) }
\* over the shuffled half: the other columns are saved as they were read.
DealHalf(half, player) ==
    /\ \E shuffle \in Shuffles :
         LET At(c) == {i \in 1..HalfDeck : half[shuffle[i]] = c}
         IN dealOrder' = [c \in Card |-> IF At(c) # {}
                                         THEN (CHOOSE i \in At(c) : TRUE) - 1
                                         ELSE dealOrder[c]]
    /\ cardPlayers' = [c \in Card |-> IF c \in Range(half) THEN player
                                      ELSE cardPlayers[c]]
    /\ UNCHANGED <<playerEntity, gameEntity, isPlayed, service>>

\* dealCards1: the first half of findAll() goes to the session's player, or
\* to nobody when the session has none.  Played flags, turn and piles stay.
DealCards1(s) ==
    /\ Idle /\ AtMostOneRow(s)
    /\ \E order \in Orders : DealHalf(FirstHalf(order), FindPlayerBySessionId(s))

\* dealCards2: the same with the second half of another call of findAll().
DealCards2(s) ==
    /\ Idle /\ AtMostOneRow(s)
    /\ \E order \in Orders : DealHalf(SecondHalf(order), FindPlayerBySessionId(s))

-----------------------------------------------------------------------------
(* Playing.  findById(...).get() throws when the player's row is gone.     *)

\* Mutant: the card on the table is not remembered.
PlayCard1_Forgotten(player1Id) ==
    /\ Idle /\ player1Id \in DOMAIN playerEntity
    /\ player1Turn
    /\ \E card \in NextCards(player1Id) :
         isPlayed' = [isPlayed EXCEPT ![card] = TRUE]
    /\ player1Turn' = FALSE /\ player2Turn' = TRUE
    /\ UNCHANGED <<playerEntity, gameEntity, cardPlayers, dealOrder, playedCard1,
                   playedCard2, piles, warCards, call, winnerTopic>>

\* Mutant: player 1 keeps the turn.
PlayCard1_KeepsTurn(player1Id) ==
    /\ Idle /\ player1Id \in DOMAIN playerEntity
    /\ player1Turn
    /\ \E card \in NextCards(player1Id) :
         /\ isPlayed' = [isPlayed EXCEPT ![card] = TRUE]
         /\ playedCard1' = card
    /\ player2Turn' = TRUE
    /\ UNCHANGED <<playerEntity, gameEntity, cardPlayers, dealOrder, player1Turn,
                   playedCard2, piles, warCards, call, winnerTopic>>

PlayCard1(player1Id) ==
    /\ Idle /\ player1Id \in DOMAIN playerEntity
    /\ player1Turn
    /\ \E card \in NextCards(player1Id) :
         /\ isPlayed' = [isPlayed EXCEPT ![card] = TRUE]
         /\ playedCard1' = card
    /\ player1Turn' = FALSE /\ player2Turn' = TRUE
    /\ UNCHANGED <<playerEntity, gameEntity, cardPlayers, dealOrder,
                   playedCard2, piles, warCards, call, winnerTopic>>

\* The rows declareWinner reads exist; otherwise its get() throws.
Found(request) ==
    /\ request.gameId \in DOMAIN gameEntity
    /\ {request.player1Id, request.player2Id} \subseteq DOMAIN playerEntity

\* declareWinner: its game.setWinner(...) changes a detached object that is
\* not saved, so the name it returns is its only effect.
DeclareWinner(captured1, captured2, request) ==
    IF Len(captured1) > Len(captured2)
    THEN playerEntity[request.player1Id].username
    ELSE IF Len(captured1) < Len(captured2)
    THEN playerEntity[request.player2Id].username
    ELSE Tie

\* What playCard2 does once gameRound has returned: the turn goes back to
\* player 1, and the winner is sent if the list it read is all played.
EndOfRound(captured1, captured2, sent, request) ==
    /\ player1CapturedCards' = captured1
    /\ player2CapturedCards' = captured2
    /\ player2Turn' = FALSE /\ player1Turn' = TRUE
    /\ winnerTopic' = IF request.lastCard /\ Found(request)
                      THEN Append(sent, DeclareWinner(captured1, captured2, request))
                      ELSE sent
    /\ warCards' = <<>> /\ call' = NoCall

\* Mutant: the round adds the field playedCard2 before it is assigned.
GameRound_Stale(card, request) ==
    /\ Rank[playedCard1] # Rank[card]
    /\ EndOfRound(player1CapturedCards \o <<playedCard1, playedCard2>>,
                  player2CapturedCards, winnerTopic, request)

\* gameRound: the higher card takes both; equal cards start a war.
GameRound(card, request) ==
    \/ /\ Rank[playedCard1] > Rank[card]
       /\ EndOfRound(player1CapturedCards \o <<playedCard1, card>>,
                     player2CapturedCards, winnerTopic, request)
    \/ /\ Rank[playedCard1] < Rank[card]
       /\ EndOfRound(player1CapturedCards,
                     player2CapturedCards \o <<playedCard1, card>>,
                     winnerTopic, request)
    \/ /\ Rank[playedCard1] = Rank[card]
       /\ warCards' = <<playedCard1, card>>
       /\ call' = request
       /\ UNCHANGED <<turns, piles, winnerTopic>>

\* Mutant: allCardsPlayed leaves out the last card of the list.
PlayCard2_EarlyEnd(player1Id, player2Id, gameId) ==
    /\ Idle /\ player2Id \in DOMAIN playerEntity
    /\ player2Turn
    /\ \E card \in NextCards(player2Id) :
         /\ isPlayed' = [isPlayed EXCEPT ![card] = TRUE]
         /\ playedCard2' = card
         /\ GameRound(card, [player1Id |-> player1Id, player2Id |-> player2Id,
                             gameId |-> gameId,
                             lastCard |-> Cardinality(Unplayed(player2Id)) <= 2])
    /\ UNCHANGED <<playerEntity, gameEntity, cardPlayers, dealOrder, playedCard1>>

PlayCard2(player1Id, player2Id, gameId) ==
    /\ Idle /\ player2Id \in DOMAIN playerEntity
    /\ player2Turn
    /\ \E card \in NextCards(player2Id) :
         /\ isPlayed' = [isPlayed EXCEPT ![card] = TRUE]
         /\ playedCard2' = card
         /\ GameRound(card, [player1Id |-> player1Id, player2Id |-> player2Id,
                             gameId |-> gameId,
                             lastCard |-> Unplayed(player2Id) = {card}])
    /\ UNCHANGED <<playerEntity, gameEntity, cardPlayers, dealOrder, playedCard1>>

-----------------------------------------------------------------------------
(* war().  Its list starts with the two cards on the table, then player 1  *)
(* and player 2 draw in turn.                                              *)

WarFull == Len(warCards) = 2 + 2 * WarDraws

Drawer == IF Len(warCards) % 2 = 0 THEN call.player1Id ELSE call.player2Id

\* drawNextCard found a card.
WarDraw ==
    /\ ~Idle /\ ~WarFull
    /\ \E card \in NextCards(Drawer) :
         /\ isPlayed' = [isPlayed EXCEPT ![card] = TRUE]
         /\ warCards' = Append(warCards, card)
    /\ UNCHANGED <<playerEntity, gameEntity, cardPlayers, dealOrder, turns,
                   playedCard1, playedCard2, piles, call, winnerTopic>>

\* Mutant: the war cards go to the player who is behind.
WarOutOfCards_ToLoser ==
    /\ ~Idle /\ ~WarFull
    /\ Unplayed(Drawer) = {}
    /\ Found(call)
    /\ LET winner == DeclareWinner(player1CapturedCards, player2CapturedCards, call)
           to1 == winner = playerEntity[call.player2Id].username
           to2 == ~to1 /\ winner = playerEntity[call.player1Id].username
       IN EndOfRound(IF to1 THEN player1CapturedCards \o warCards
                     ELSE player1CapturedCards,
                     IF to2 THEN player2CapturedCards \o warCards
                     ELSE player2CapturedCards,
                     Append(winnerTopic, winner), call)
    /\ UNCHANGED <<tables, playedCard1, playedCard2>>

\* Mutant: an empty hand of player 1 is drawn from again.
WarOutOfCards_Retries ==
    /\ ~Idle /\ ~WarFull
    /\ Drawer = call.player2Id
    /\ Unplayed(Drawer) = {}
    /\ Found(call)
    /\ EndOfRound(player1CapturedCards, player2CapturedCards, winnerTopic, call)
    /\ UNCHANGED <<tables, playedCard1, playedCard2>>

\* drawNextCard returned null: declareWinnerAndAddWarCards names the winner
\* by the piles as they are, gives the war cards to the player with that
\* name (to nobody on a tie) and sends the name.
WarOutOfCards ==
    /\ ~Idle /\ ~WarFull
    /\ Unplayed(Drawer) = {}
    /\ Found(call)
    /\ LET winner == DeclareWinner(player1CapturedCards, player2CapturedCards, call)
           to1 == winner = playerEntity[call.player1Id].username
           to2 == ~to1 /\ winner = playerEntity[call.player2Id].username
       IN EndOfRound(IF to1 THEN player1CapturedCards \o warCards
                     ELSE player1CapturedCards,
                     IF to2 THEN player2CapturedCards \o warCards
                     ELSE player2CapturedCards,
                     Append(winnerTopic, winner), call)
    /\ UNCHANGED <<tables, playedCard1, playedCard2>>

\* The same, but a row is gone: get() throws out of playCard2, before the
\* turn goes back to player 1.
WarAborts ==
    /\ ~Idle /\ ~WarFull
    /\ Unplayed(Drawer) = {}
    /\ ~Found(call)
    /\ warCards' = <<>> /\ call' = NoCall
    /\ UNCHANGED <<tables, turns, playedCard1, playedCard2, piles, winnerTopic>>

\* Mutant: the war that follows a tie goes on with the list of the first and
\* adds the two cards on the table again.
WarCompare_Readds ==
    /\ WarFull
    /\ Rank[warCards[Len(warCards) - 1]] = Rank[warCards[Len(warCards)]]
    /\ warCards' = warCards \o <<playedCard1, playedCard2>>
    /\ UNCHANGED <<tables, turns, playedCard1, playedCard2, piles, call, winnerTopic>>

\* Mutant: the first two cards drawn decide.
WarCompare_FirstDrawn ==
    /\ WarFull
    /\ IF Rank[warCards[3]] >= Rank[warCards[4]]
       THEN EndOfRound(player1CapturedCards \o warCards, player2CapturedCards,
                       winnerTopic, call)
       ELSE EndOfRound(player1CapturedCards, player2CapturedCards \o warCards,
                       winnerTopic, call)
    /\ UNCHANGED <<tables, playedCard1, playedCard2>>

\* The last two cards decide.  When they are equal too war() calls itself:
\* the new list starts again from the two cards on the table only.
WarCompare ==
    /\ WarFull
    /\ LET lastCard1 == warCards[Len(warCards) - 1]
           lastCard2 == warCards[Len(warCards)]
       IN \/ /\ Rank[lastCard1] > Rank[lastCard2]
             /\ EndOfRound(player1CapturedCards \o warCards,
                           player2CapturedCards, winnerTopic, call)
          \/ /\ Rank[lastCard1] < Rank[lastCard2]
             /\ EndOfRound(player1CapturedCards,
                           player2CapturedCards \o warCards, winnerTopic, call)
          \/ /\ Rank[lastCard1] = Rank[lastCard2]
             /\ warCards' = <<playedCard1, playedCard2>>
             /\ UNCHANGED <<turns, piles, call, winnerTopic>>
    /\ UNCHANGED <<tables, playedCard1, playedCard2>>

War == WarDraw \/ WarOutOfCards \/ WarAborts \/ WarCompare

-----------------------------------------------------------------------------
(* Resets.                                                                 *)

\* Mutants: the turn stays; only one pile is emptied.
ResetTurn_Nothing == UNCHANGED turns
ResetCapturedCards_OnlyFirst ==
    /\ player1CapturedCards' = <<>>
    /\ UNCHANGED player2CapturedCards

\* resetTurn and resetCapturedCards, called by GameService.leaveGame.
ResetTurn == player1Turn' = TRUE /\ player2Turn' = FALSE
ResetCapturedCards == player1CapturedCards' = <<>> /\ player2CapturedCards' = <<>>

\* The server process stops, whatever it is doing, and starts again: the
\* bean is constructed anew, the tables are what the saves left.
Restart ==
    /\ ResetTurn
    /\ ResetCapturedCards
    /\ playedCard1' = NoCard /\ playedCard2' = NoCard
    /\ warCards' = <<>> /\ call' = NoCall
    /\ UNCHANGED <<tables, winnerTopic>>

-----------------------------------------------------------------------------
(* What holds of the service whoever calls it.                             *)

\* No card is captured twice, by one player or by both, and only cards that
\* left their hand are captured: what gameRound, war and
\* declareWinnerAndAddWarCards add to the piles never repeats.
CapturedOnce ==
    /\ IsInjective(player1CapturedCards)
    /\ IsInjective(player2CapturedCards)
    /\ Range(player1CapturedCards) \cap Range(player2CapturedCards) = {}
    /\ \A c \in Range(player1CapturedCards) \cup Range(player2CapturedCards) :
          isPlayed[c]

\* While it is player 2's turn, playedCard1 is a card player 1 has revealed
\* and nobody has captured: gameRound never reads a null playedCard1, nor one
\* of an earlier round.
RevealedCardWaits ==
    player2Turn =>
        /\ playedCard1 \in Card /\ isPlayed[playedCard1]
        /\ playedCard1 \notin Range(player1CapturedCards)
        /\ playedCard1 \notin Range(player2CapturedCards)

\* While a war runs it is player 2's turn, the cards it has drawn and the two
\* on the table have left their hands, repeat nowhere and are in no pile: the
\* list that war() gives to a player, also after it calls itself, is sound.
WarCardsApart ==
    ~Idle =>
        /\ player2Turn
        /\ call \in Calls
        /\ playedCard2 \in Card /\ playedCard2 # playedCard1
        /\ IsInjective(warCards)
        /\ \A c \in Range(warCards) \cup {playedCard2} :
             /\ isPlayed[c]
             /\ c \notin Range(player1CapturedCards)
             /\ c \notin Range(player2CapturedCards)

ServiceInv == TypeOK /\ CapturedOnce /\ RevealedCardWaits /\ WarCardsApart
=============================================================================

\* findAll in any order, as SQL leaves it: do both players get half of the deck?
SPECIFICATION Spec
CONSTANTS
    Card <- Card4
    Rank <- Rank4
    HalfDeck = 2
    WarDraws = 3
    Orders <- AnyOrder4
    Shuffles <- Shuffles2
    MaxDeals = 2
    PlayerId = {p1, p2}
    GameId = {g}
    Session = {s1, s2}
    Name = {ann, bob}
    Player1 = p1
    Player2 = p2
    Game = g
    Session1 = s1
    Session2 = s2
    Username1 = ann
    Username2 = bob
    NoCard = NoCard
    NoPlayer = NoPlayer
    NoGame = NoGame
    Tie = Tie
INVARIANT DeckDividedEvenly
CHECK_DEADLOCK FALSE

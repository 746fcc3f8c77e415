\* A war that takes the last cards: is a winner sent?
SPECIFICATION Spec
CONSTANTS
    Card <- Card8
    Rank <- Rank8
    HalfDeck = 4
    WarDraws = 3
    Orders <- InOrder8
    Shuffles <- Shuffles4
    MaxDeals = 2
    PlayerId = {p1, p2}
    GameId = {g}
    Session = {s1, s2}
    Name = {ann, bob}
    Player1 = p1
    Player2 = p2
    Game = g
    Session1 = s1
    Session2 = s2
    Username1 = ann
    Username2 = bob
    NoCard = NoCard
    NoPlayer = NoPlayer
    NoGame = NoGame
    Tie = Tie
INVARIANT WinnerDeclared
CHECK_DEADLOCK FALSE

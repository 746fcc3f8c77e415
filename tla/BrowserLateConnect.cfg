\* A join between rendering and connecting: does player 1 see player 2?
SPECIFICATION Spec
CONSTANTS
    Browsers = {b1, b2}
    Card <- Card2
    Rank <- Rank2
    HalfDeck = 1
    WarDraws = 3
    Orders <- InOrder2
    Shuffles <- Unshuffled1
    DeckShuffles <- InOrder2
    PlayerId = {1, 2}
    GameId = {1}
    Session = {1, 2, 3, 4}
    MaxInbox = 4
    Name = {n}
    StartPage = StartPage
    ErrorPage = ErrorPage
    NoCard = NoCard
    NoPlayer = NoPlayer
    NoGame = NoGame
    NoSession = NoSession
    Tie = Tie
PROPERTY Player1SeesPlayer2
CHECK_DEADLOCK FALSE

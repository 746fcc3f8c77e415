\* Three browsers, one game: whose buttons do they show, and who loses a seat?
SPECIFICATION Spec
CONSTANTS
    Browsers = {b1, b2, b3}
    Card <- Card2
    Rank <- Rank2
    HalfDeck = 1
    WarDraws = 3
    Orders <- InOrder2
    Shuffles <- Unshuffled1
    DeckShuffles <- InOrder2
    PlayerId = {1, 2}
    GameId = {1}
    Session = {1, 2, 3}
    MaxInbox = 2
    Name = {n}
    StartPage = StartPage
    ErrorPage = ErrorPage
    NoCard = NoCard
    NoPlayer = NoPlayer
    NoGame = NoGame
    NoSession = NoSession
    Tie = Tie
SYMMETRY BrowserSymmetry
INVARIANTS
    BrowserTypeOK
    ButtonIsOwn
PROPERTIES
    FirstSeatIsSafe
CHECK_DEADLOCK FALSE

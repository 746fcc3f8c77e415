\* Two games of two players each, one deck.
SPECIFICATION SpecStay
CONSTANTS
    Card <- Card4
    Rank <- Rank4
    HalfDeck = 2
    WarDraws = 3
    Orders <- InOrder4
    Shuffles <- Unshuffled2
    DeckShuffles <- InOrder4
    PlayerId = {1, 2, 3, 4}
    GameId = {1, 2}
    Session = {s1, s2, s3, s4}
    Name = {n}
    NoCard = NoCard
    NoPlayer = NoPlayer
    NoGame = NoGame
    NoSession = NoSession
    Tie = Tie
PROPERTY
    CardsStayInGame
CHECK_DEADLOCK FALSE

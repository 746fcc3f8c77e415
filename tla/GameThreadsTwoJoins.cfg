\* Two joins at the same time: does the first keep its seat?
SPECIFICATION Spec
CONSTANTS
    Thread = {t1, t2}
    Card <- Card2
    Rank <- Rank2
    HalfDeck = 1
    WarDraws = 3
    Orders <- AnyOrder2
    Shuffles <- Unshuffled1
    DeckShuffles <- AnyOrder2
    PlayerId = {1, 2, 3}
    GameId = {1}
    Session = {s1, s2}
    Name = {n}
    NoCard = NoCard
    NoPlayer = NoPlayer
    NoGame = NoGame
    NoSession = NoSession
    Tie = Tie
SYMMETRY Symmetry
PROPERTY SeatIsKept
CHECK_DEADLOCK FALSE

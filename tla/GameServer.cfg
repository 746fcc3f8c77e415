\* Two games, four players, two browsers, one deck of four cards, stale pages, restarts.
SPECIFICATION Spec
CONSTANTS
    Card <- Card4
    Rank <- Rank4
    HalfDeck = 2
    WarDraws = 1
    Orders <- Moved4
    Shuffles <- Unshuffled2
    DeckShuffles <- InOrder4
    PlayerId = {1, 2, 3, 4}
    GameId = {1, 2}
    Session = {s1, s2}
    Name = {n}
    NoCard = NoCard
    NoPlayer = NoPlayer
    NoGame = NoGame
    NoSession = NoSession
    Tie = Tie
SYMMETRY BrowserSymmetry
INVARIANTS
    ServerTypeOK
    CapturedOnce
    RevealedCardWaits
    WarCardsApart
    SeatsCoherent
    RowsAccountedFor
PROPERTIES
    LeaveCompletes
CHECK_DEADLOCK FALSE

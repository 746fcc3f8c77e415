\* Player 1 clicks before the turn comes back: is a card captured twice?
SPECIFICATION Spec
CONSTANTS
    Thread = {t1, t2}
    Deck <- Deck6
    Orders <- InOrder6
    Shuffles <- SomeShuffles
    Card <- Card6
    Rank <- Rank6
    WarDraws = 1
    MaxStarts = 1
    DealsOverlap = FALSE
    Patient = TRUE
    PlayerId = {p1, p2}
    GameId = {g}
    Session = {s1, s2}
    Name = {ann, bob}
    Player1 = p1
    Player2 = p2
    Game = g
    Session1 = s1
    Session2 = s2
    Username1 = ann
    Username2 = bob
    NoCard = NoCard
    NoPlayer = NoPlayer
    NoGame = NoGame
    Tie = Tie
INVARIANT CapturedOnce
CHECK_DEADLOCK FALSE

\* Patient players, the deals of one click at the same time: the turn flags, and every handler returns.
SPECIFICATION Spec
CONSTANTS
    Thread = {t1, t2}
    Deck <- Deck6
    Orders <- Moved6
    Shuffles <- SomeShuffles
    Card <- Card6
    Rank <- Rank6
    WarDraws = 1
    MaxStarts = 1
    DealsOverlap = TRUE
    Patient = TRUE
    PlayerId = {p1, p2}
    GameId = {g}
    Session = {s1, s2}
    Name = {ann, bob}
    Player1 = p1
    Player2 = p2
    Game = g
    Session1 = s1
    Session2 = s2
    Username1 = ann
    Username2 = bob
    NoCard = NoCard
    NoPlayer = NoPlayer
    NoGame = NoGame
    Tie = Tie
INVARIANTS
    ThreadsTypeOK
    TurnIsLock
    CapturedOnceInOrder
PROPERTIES
    FollowsRulesInOrder
    HandlersReturn
CHECK_DEADLOCK FALSE

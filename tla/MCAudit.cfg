SPECIFICATION AuditSpec
CONSTANTS
    Seats = {0, 1, 2}
    SmallBlind = 1
    BigBlind = 2
    MinBuyIn = 1
    MaxBuyIn = 1
    TimeBank = 0
    AllInOrFold = FALSE
    PotLimit = FALSE
    WebClient = TRUE
    Requests = {}
    Scores = {1, 2, 3}
    Wallets = {0}
    Deposits = {}
    RakePercent = 10
    RakeCap = 2
    MaxAmount = 6
    MaxActed = 4
    MaxHands = 1
    Stacks = {6}
INVARIANTS
    EveryoneHasActed

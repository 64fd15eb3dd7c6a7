SPECIFICATION HandSpec
CONSTANTS
    Seats = {0, 1, 2}
    SmallBlind = 1
    BigBlind = 2
    MinBuyIn = 1
    MaxBuyIn = 1
    TimeBank = 0
    AllInOrFold = FALSE
    PotLimit = FALSE
    WebClient = TRUE
    Requests = {}
    Scores = {1, 2, 3}
    Wallets = {0}
    Deposits = {}
    RakePercent = 0
    RakeCap = 0
    MaxAmount = 0
    MaxActed = 4
    MaxHands = 3
    Stacks = {3}
PROPERTIES
    ShowdownConserves

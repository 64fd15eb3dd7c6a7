SPECIFICATION TableSpec
CHECK_DEADLOCK FALSE
CONSTANTS
    Seats = {0, 1, 2}
    SmallBlind = 1
    BigBlind = 2
    MinBuyIn = 4
    MaxBuyIn = 4
    TimeBank = 1
    AllInOrFold = TRUE
    PotLimit = FALSE
    WebClient = TRUE
    Requests = {"set_offline"}
    Scores = {1, 2}
    Wallets = {4}
    Deposits = {2}
    RakePercent = 0
    RakeCap = 0
    MaxAmount = 0
    MaxHands = 2
    Stacks = {4}
    Parties = {{0, 1, 2}}
    MaxActed = 4
    MaxRequests = 1
    Slow = {0, 1, 2}
PROPERTIES
    OfflineStaysOut

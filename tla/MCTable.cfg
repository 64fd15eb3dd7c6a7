SPECIFICATION TableSpec
CHECK_DEADLOCK FALSE
CONSTANTS
    Seats = {0, 1, 2}
    SmallBlind = 1
    BigBlind = 2
    MinBuyIn = 4
    MaxBuyIn = 4
    TimeBank = 1
    AllInOrFold = TRUE
    PotLimit = FALSE
    WebClient = TRUE
    Requests = {"join", "leave", "toggle_sit_out", "add_chips", "add_chips_vault", "set_offline", "set_online", "toggle_lnbb", "force_cleanup"}
    Scores = {1, 2}
    Wallets = {4}
    Deposits = {2}
    RakePercent = 0
    RakeCap = 0
    MaxAmount = 0
    MaxHands = 2
    Stacks = {4}
    Parties = {{0, 1, 2}}
    MaxActed = 4
    MaxRequests = 2
    Slow = {0}
INVARIANTS
    TypeOK
    Solvent
    CardsMatchHand
PROPERTIES
    BreakRespected
    NoMoneyMade
    ImplementsShell

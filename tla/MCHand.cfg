SPECIFICATION PromptSpec
CONSTANTS
    Seats = {0, 1, 2}
    SmallBlind = 1
    BigBlind = 2
    MinBuyIn = 1
    MaxBuyIn = 1
    TimeBank = 1
    AllInOrFold = FALSE
    PotLimit = FALSE
    WebClient = TRUE
    Requests = {}
    Scores = {1, 2, 3}
    Wallets = {0}
    Deposits = {}
    RakePercent = 10
    RakeCap = 2
    MaxAmount = 5
    MaxActed = 4
    MaxHands = 1
    Stacks = {1, 3, 5}
INVARIANTS
    Solvent
    PotIsContributions
    RoundBalanced
    TurnIsLive
PROPERTIES
    BettingConservesChips
    ShowdownPaysTheContested
    AllInCap
    PotsArePaid

SPECIFICATION MCSpec
CHECK_DEADLOCK FALSE
CONSTANTS
    a1 = a1  a2 = a2  b1 = b1  alice = alice  bob = bob  Nobody = nobody
    h1 = h1  h2 = h2  h3 = h3  t1 = t1  t2 = t2  r1 = r1  r2 = r2  r3 = r3
    Sockets = {a1, a2, b1}
    Users = {alice, bob}
    Owner <- MCOwner
    Places = {0, 1}
    MaxEvents = 5
    Hands = {h1, h2, h3}
    Tables = {t1, t2}
    TableOf <- MCTableOf
    IdOf <- MCIdOf
    RakeOf <- MCRakeOf
    MaxFaults = 3
    Entrants = {alice, bob}
    Requests = {r1, r2, r3}
    ByUser <- MCByUser
    SeatCap = 1
    Prices = {1, 2}
    Fee = 1
    Guaranteed = 2
    Savings = 4
    MaxReprices = 1
    Pictures <- MCPictures
    MaxPictures = 4
    MaxWire = 3
    MaxDrops = 2
    Deck <- MCDeck
    HoleSizes = {2, 4}
    Scenes <- MCScenes
    MaxScenes = 4
    Seats = {0, 1, 2, 3}
    RakePercent = 10
    RakeCap = 6
    Bets = {0, 7, 20, 33}
    DeadMoney = {0, 5}
    HandValues = {1, 2}
INVARIANTS
    OwnSeatOnly
    OnlineWhileHere
    RakeOnce
    TourBooks
    CountersMatch
    FlushIsIdle
    SaysTheBest
    FairShare
    PotsShown
PROPERTIES
    OfflineLeaves
    HandsKept
    DisplayCatchesUp
    ShownInOrder
    ViewCatchesUp
    ScenesPlay

SPECIFICATION MCSpec
CHECK_DEADLOCK FALSE
CONSTANTS
    Seats = {0, 1, 2}
    Requests = {"act", "join"}
    Overlap = TRUE
    Banks = {0}
    MaxHands = 2
    MaxBets = 1
    MaxTasks = 2
    MaxTimers = 3
    Parties = {{0, 1}}
    MaxRequests = 1
PROPERTIES
    DealsOverNothing

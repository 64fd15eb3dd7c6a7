SPECIFICATION MCSpec
CHECK_DEADLOCK FALSE
CONSTANTS
    Seats = {0, 1, 2}
    Requests = {"act", "act_out_of_turn", "leave", "sit_out", "join", "sweep", "leave_next_bb", "add_chips", "reconnect", "maintenance", "pause", "reopen", "fail"}
    Overlap = FALSE
    Banks = {0}
    MaxHands = 2
    MaxBets = 1
    MaxTasks = 2
    MaxTimers = 3
    Parties = {{0}, {0, 1}}
    MaxRequests = 1
INVARIANTS
    ClockRuns
    OneClock
    StartPending
PROPERTIES
    DealsOverNothing
    PauseHolds
    HandsEnd

SPECIFICATION MCSpec
CHECK_DEADLOCK FALSE
CONSTANTS
    Users = {alice}
    Nobody = nobody
    Seats = {0}
    Savings = 2
    BuyIns = {1}
    Finals = {2}
    Requests = {"cashier", "process"}
    MaxTasks = 1
    MaxEvents = 3
PROPERTY
    RejectedIsRefunded

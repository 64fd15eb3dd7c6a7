SPECIFICATION MCSpec
CHECK_DEADLOCK FALSE
CONSTANTS
    Users = {alice, bob}
    Nobody = nobody
    Seats = {0, 1}
    Savings = 2
    BuyIns = {1}
    Finals = {2}
    Requests = {"join", "add_chips", "rebuy", "auto_rebuy", "leave", "reap", "settle_fails", "redeliver", "cashier", "process", "adjust", "heal", "audit", "play", "close", "restart"}
    MaxTasks = 2
    MaxEvents = 3
INVARIANTS
    RefundedOnce
PROPERTIES
    NoOverdraft
    MoneyKept
    BooksBalance
    AuditIsRight

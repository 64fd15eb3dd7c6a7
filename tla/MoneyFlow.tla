----------------------------- MODULE MoneyFlow ------------------------------
(***************************************************************************)
(* Money between the wallets in Postgres and one table in Redis:           *)
(* wallet.service.ts, cashout.processor.ts, the buy-in and leave handlers  *)
(* of game.gateway.ts, rebuy of game.service.ts, player-reaper.service.ts, *)
(* reconciliation.service.ts, and the audit and the healer of              *)
(* cron.service.ts.                                                        *)
(*                                                                         *)
(* A task is a handler at one of its awaits.  Each script and each         *)
(* Postgres transaction is one step; a transaction reads committed rows,   *)
(* and what it read before its writes may be out of date.                  *)
(***************************************************************************)
EXTENDS Integers, Sequences, SequencesExt, FiniteSets, FiniteSetsExt

CONSTANTS
    Users,
    Seats,
    Nobody,         \* not a user
    Savings,        \* what everybody has deposited at first
    BuyIns,         \* what players bring to the table at once
    Finals,         \* what an admin may find was really deposited
    Requests,       \* what is done in this instance
    MaxTasks        \* bound: handlers in flight

ASSUME PlacesAssumption ==
    /\ IsFiniteSet(Users) /\ Nobody \notin Users
    /\ IsFiniteSet(Seats) /\ Seats # {}
    /\ MaxTasks \in Nat

ASSUME AmountsAssumption == Savings \in Nat /\ BuyIns \subseteq Nat /\ Finals \subseteq Nat

VARIABLES
    wallet,         \* Wallet.realBalance
    rows,           \* the Transaction table
    aged,           \* how many of its rows are older than two hours
    cache,          \* user:{id}:balance
    seats,          \* table:{id}:players
    pot,            \* table:{id}.pot
    jobs,           \* the cashout-settlement queue
    tasks,          \* handlers in flight
    audit,          \* how many of its queries the audit has had answered, and their total
    missed,         \* history: what has come, since, to what the audit had read already
    lockdown,       \* has the audit pulled the kill switch
    closing         \* what the admin closing the table found at its seats, and is it refunded

money == <<wallet, rows, aged, cache, seats, pot, jobs, tasks, audit, missed, lockdown, closing>>
bank == <<wallet, rows>>
ring == <<seats, pot>>
desk == <<aged, audit, lockdown, closing>>

Empty == [user |-> Nobody, chips |-> 0, bet |-> 0, later |-> 0]
\* later: chips of a rebuy made during a hand (pendingTopUp).
Stack(u, n) == [user |-> u, chips |-> n, bet |-> 0, later |-> 0]

\* ref: the row's session (referenceId), which is the number of its buy-in; 0 if it has none.
Row(u, kind, n, status, ref) ==
    [user |-> u, kind |-> kind, amount |-> n, status |-> status, ref |-> ref]

Task(op, at, u, s, n) ==
    [op |-> op, at |-> at, user |-> u, seat |-> s, amount |-> n, saw |-> Empty,
     given |-> FALSE, refs |-> {}]
NoAudit == [read |-> 0, total |-> 0]
NoTask == Task("none", "idle", Nobody, CHOOSE s \in Seats : TRUE, 0)

(***************************************************************************)
(* Helpers.                                                                *)
(***************************************************************************)
SeatsOf(u) == {s \in Seats : seats[s].user = u}

Busy == {i \in 1..MaxTasks : tasks[i] # NoTask}

Begin(task) ==
    \E i \in (1..MaxTasks) \ Busy :
        /\ \A k \in (1..MaxTasks) \ Busy : i <= k
        /\ tasks' = [tasks EXCEPT ![i] = task]

Go(i, at) == tasks' = [tasks EXCEPT ![i].at = at]
End(i) == tasks' = [tasks EXCEPT ![i] = NoTask]

At(i, op, at) == tasks[i].op \in op /\ tasks[i].at = at

Credit(u, n) == wallet' = [wallet EXCEPT ![u] = @ + n]

NewRow(row) == rows' = Append(rows, row)

\* settleCashOut as its callers use it: no session is named.
CashOut(u, n) ==
    /\ Credit(u, n)
    /\ NewRow(Row(u, "cash_out", n, "completed", 0))

(***************************************************************************)
(* Taking a seat and adding chips: the wallet's balance is copied to Redis *)
(* (sync_balance.lua), the script takes the chips from there, and lockFunds*)
(* debits the wallet afterwards.                                           *)
(***************************************************************************)
Join(u, s) ==
    /\ "join" \in Requests /\ ~lockdown
    /\ \E n \in BuyIns : Begin([Task("join", "sync", u, s, n) EXCEPT !.saw.chips = wallet[u]])
    /\ UNCHANGED <<bank, cache, ring, jobs, desk>>

AddChips(u, s) ==
    /\ "add_chips" \in Requests /\ ~lockdown
    /\ seats[s].user = u
    /\ \E n \in BuyIns : Begin([Task("add", "sync", u, s, n) EXCEPT !.saw.chips = wallet[u]])
    /\ UNCHANGED <<bank, cache, ring, jobs, desk>>

Sync(i) ==
    /\ At(i, {"join", "add"}, "sync")
    /\ cache' = [cache EXCEPT ![tasks[i].user] = tasks[i].saw.chips]
    /\ Go(i, "script")
    /\ UNCHANGED <<bank, ring, jobs, desk>>

\* join_table.lua: who is seated already is reconnected and not charged there.
JoinScript(i) ==
    LET u == tasks[i].user  s == tasks[i].seat  n == tasks[i].amount
    IN  /\ At(i, {"join"}, "script")
        /\ \/ /\ SeatsOf(u) # {}
              /\ Go(i, "lock")
              /\ UNCHANGED <<cache, seats>>
           \/ /\ SeatsOf(u) = {}
              /\ seats[s] # Empty \/ cache[u] < n
              /\ End(i)
              /\ UNCHANGED <<cache, seats>>
           \/ /\ SeatsOf(u) = {} /\ seats[s] = Empty /\ cache[u] >= n
              /\ cache' = [cache EXCEPT ![u] = @ - n]
              /\ seats' = [seats EXCEPT ![s] = Stack(u, n)]
              /\ tasks' = [tasks EXCEPT ![i].at = "lock", ![i].given = TRUE]
        /\ UNCHANGED <<bank, pot, jobs, desk>>

\* add_chips.lua asks who sits there only for his status.
AddScript(i) ==
    LET u == tasks[i].user  s == tasks[i].seat  n == tasks[i].amount
    IN  /\ At(i, {"add"}, "script")
        /\ \/ /\ seats[s] = Empty \/ seats[s].bet > 0 \/ cache[u] < n
              /\ End(i)
              /\ UNCHANGED <<cache, seats>>
           \/ /\ seats[s] # Empty /\ seats[s].bet = 0 /\ cache[u] >= n
              /\ cache' = [cache EXCEPT ![u] = @ - n]
              /\ seats' = [seats EXCEPT ![s].chips = @ + n]
              /\ tasks' = [tasks EXCEPT ![i].at = "lock", ![i].given = TRUE]
        /\ UNCHANGED <<bank, pot, jobs, desk>>

\* The balance is looked at before the transaction and not in its update.
BuggyCovers(u, n) == wallet[u] >= n \/ Cardinality(Busy) > 1

\* updateMany: the debit is conditional on the balance.
Covers(u, n) == wallet[u] >= n

\* lockFunds, and what each of its callers does when it throws.
Lock(i) ==
    LET u == tasks[i].user  n == tasks[i].amount
    IN  /\ tasks[i].at = "lock"
        /\ \/ /\ Covers(u, n)
              /\ Credit(u, -n)
              /\ NewRow(Row(u, "buy_in", n, "completed", Len(rows) + 1))
              /\ IF tasks[i].op = "rebuy" THEN Go(i, "vault") ELSE End(i)
              /\ UNCHANGED cache
           \/ /\ ~Covers(u, n)
              /\ cache' = IF tasks[i].op = "rebuy" THEN cache ELSE [cache EXCEPT ![u] = @ + n]
              /\ tasks' = [tasks EXCEPT ![i].at = "undo",
                              ![i].saw = IF tasks[i].op = "add" THEN seats[tasks[i].seat] ELSE @]
              /\ UNCHANGED bank
        /\ UNCHANGED <<ring, jobs, desk>>

\* The record that the failed caller leaves at the seat: none after a join, the one read
\* less the chips after a top-up, the one read before an automatic rebuy.
Undone(task) ==
    IF task.op = "join" THEN Empty
    ELSE [task.saw EXCEPT !.chips = IF task.op = "add" THEN Max({0, @ - task.amount}) ELSE @]

Undo(i) ==
    /\ tasks[i].at = "undo"
    /\ seats' = IF tasks[i].op # "join" /\ tasks[i].saw = Empty THEN seats
                ELSE [seats EXCEPT ![tasks[i].seat] = Undone(tasks[i])]
    /\ End(i)
    /\ UNCHANGED <<bank, cache, pot, jobs, desk>>

(***************************************************************************)
(* rebuy: the wallet first, then the seat that was the player's when the   *)
(* request came; and the wallet again when the script refuses.             *)
(***************************************************************************)
Rebuy(u, s) ==
    /\ "rebuy" \in Requests
    /\ seats[s].user = u
    /\ \E n \in BuyIns : Begin(Task("rebuy", "lock", u, s, n))
    /\ UNCHANGED <<bank, cache, ring, jobs, desk>>

\* startNewHand's sweep over the seats without chips; it keeps the record it read.
AutoRebuy(s) ==
    /\ "auto_rebuy" \in Requests
    /\ seats[s] # Empty /\ seats[s].chips = 0 /\ pot = 0
    /\ \E n \in BuyIns :
          Begin([Task("rebuy", "lock", seats[s].user, s, n) EXCEPT !.saw = seats[s]])
    /\ UNCHANGED <<bank, cache, ring, jobs, desk>>

\* add_chips_vault.lua: during a hand the chips are set aside.
Vault(i) ==
    LET s == tasks[i].seat  n == tasks[i].amount
    IN  /\ tasks[i].at = "vault"
        /\ \/ /\ seats[s] = Empty
              /\ Go(i, "refund")
              /\ UNCHANGED seats
           \/ /\ seats[s] # Empty
              /\ seats' = IF seats[s].bet > 0 THEN [seats EXCEPT ![s].later = @ + n]
                                              ELSE [seats EXCEPT ![s].chips = @ + n]
              /\ End(i)
        /\ UNCHANGED <<bank, cache, pot, jobs, desk>>

Refund(i) ==
    /\ tasks[i].at = "refund"
    /\ CashOut(tasks[i].user, tasks[i].amount)
    /\ IF tasks[i].saw = Empty THEN End(i) ELSE Go(i, "undo")
    /\ UNCHANGED <<cache, ring, jobs, desk>>

(***************************************************************************)
(* Leaving: leave_table.lua, then a job for the worker.  The reaper pays   *)
(* out what it read before.                                                *)
(***************************************************************************)
LeaveScript(s) ==
    /\ cache' = [cache EXCEPT ![seats[s].user] = @ + seats[s].chips]
    /\ seats' = [seats EXCEPT ![s] = Empty]

\* handleLeaveTable and forceStandUp.
Leave(u, s) ==
    /\ "leave" \in Requests
    /\ seats[s].user = u
    /\ LeaveScript(s)
    /\ Begin(Task("leave", "enqueue", u, s, seats[s].chips))
    /\ UNCHANGED <<bank, pot, jobs, desk>>

\* The sweep finds a player who has been gone for too long.
Notice(s) ==
    /\ "reap" \in Requests
    /\ seats[s] # Empty
    /\ Begin(Task("reap", "kick", seats[s].user, s, seats[s].chips))
    /\ UNCHANGED <<bank, cache, ring, jobs, desk>>

Kick(i) ==
    LET s == tasks[i].seat
    IN  /\ tasks[i].at = "kick"
        /\ \/ seats[s].user # tasks[i].user /\ End(i) /\ UNCHANGED <<cache, seats>>
           \/ seats[s].user = tasks[i].user /\ LeaveScript(s) /\ Go(i, "enqueue")
        /\ UNCHANGED <<bank, pot, jobs, desk>>

\* if (refundedAmount > 0)
Owed(n) == n > 0

\* The refund is forgotten.
BuggyEnqueue(i) ==
    /\ tasks[i].at = "enqueue"
    /\ End(i)
    /\ UNCHANGED <<bank, cache, ring, jobs, desk>>

Job(u, n) == [user |-> u, amount |-> n]

Enqueue(i) ==
    /\ tasks[i].at = "enqueue"
    /\ jobs' = IF Owed(tasks[i].amount) THEN Append(jobs, Job(tasks[i].user, tasks[i].amount))
                                      ELSE jobs
    /\ End(i)
    /\ UNCHANGED <<bank, cache, ring, desk>>

\* CashOutProcessor and settleCashOut, which logs any error and resolves.
Settle ==
    /\ jobs # <<>>
    /\ CashOut(Head(jobs).user, Head(jobs).amount)
    /\ jobs' = Tail(jobs)
    /\ UNCHANGED <<cache, ring, desk, tasks>>

SettleFails ==
    /\ "settle_fails" \in Requests
    /\ jobs # <<>>
    /\ jobs' = Tail(jobs)
    /\ UNCHANGED <<bank, cache, ring, desk, tasks>>

\* The worker dies after the transaction and before the job is marked as done.
Redeliver ==
    /\ "redeliver" \in Requests
    /\ jobs # <<>>
    /\ CashOut(Head(jobs).user, Head(jobs).amount)
    /\ UNCHANGED <<cache, ring, jobs, desk, tasks>>

(***************************************************************************)
(* The cashier: deposits and withdrawals are requested by players and      *)
(* processed by admins, who read the row before they write.                *)
(***************************************************************************)
Deposit(u) ==
    /\ "cashier" \in Requests
    /\ \E n \in BuyIns : NewRow(Row(u, "deposit", n, "pending", 0))
    /\ UNCHANGED <<wallet, cache, ring, jobs, tasks, desk>>

Withdraw(u) ==
    /\ "cashier" \in Requests
    /\ \E n \in BuyIns :
          /\ Covers(u, n)
          /\ Credit(u, -n)
          /\ NewRow(Row(u, "withdraw", n, "pending", 0))
    /\ UNCHANGED <<cache, ring, jobs, tasks, desk>>

\* The page offers both only for deposits and withdrawals.
Examine(r) ==
    /\ "process" \in Requests
    /\ rows[r].status = "pending" /\ rows[r].kind \in {"deposit", "withdraw"}
    /\ \E op \in {"approve", "reject"} :
          Begin([Task(op, "process", rows[r].user, NoTask.seat, rows[r].amount) EXCEPT !.refs = {r}])
    /\ UNCHANGED <<bank, cache, ring, jobs, desk>>

\* The amount that came in is booked, the one asked for is credited.
BuggyApprove(r, asked) ==
    /\ \E n \in Finals \cup {asked} : rows' = [rows EXCEPT ![r].status = "completed", ![r].amount = n]
    /\ Credit(rows[r].user, IF rows[r].kind = "deposit" THEN asked ELSE 0)

\* What came in is credited; a withdrawal was taken from the wallet when it was asked for.
PayIn(r, n) == IF rows[r].kind = "deposit" THEN Credit(rows[r].user, n) ELSE UNCHANGED wallet

\* The amount that came in is booked and credited, if the admin gives one.  The route for
\* deposits takes it, and takes the id of a withdrawal as well.
Approve(r, asked) ==
    \/ \E n \in Finals :
          /\ rows' = [rows EXCEPT ![r].status = "completed", ![r].amount = n]
          /\ PayIn(r, n)
    \/ /\ rows' = [rows EXCEPT ![r].status = "completed"]
       /\ PayIn(r, asked)

\* A withdrawal's amount is stored negated and is added as it is: its money is taken twice.
Reject(r, asked) ==
    /\ rows' = [rows EXCEPT ![r].status = "rejected"]
    /\ IF rows[r].kind = "withdraw" THEN Credit(rows[r].user, -asked) ELSE UNCHANGED wallet

\* adminProcessTransaction after its check.
Process(i) ==
    /\ tasks[i].at = "process"
    /\ \E r \in tasks[i].refs : IF tasks[i].op = "approve" THEN Approve(r, tasks[i].amount)
                                                           ELSE Reject(r, tasks[i].amount)
    /\ End(i)
    /\ UNCHANGED <<cache, ring, jobs, desk>>

\* adminAdjustBalance locks the wallet's row first.
Adjust(u) ==
    /\ "adjust" \in Requests
    /\ \E n \in {k \in BuyIns \cup {-b : b \in BuyIns} : wallet[u] + k >= 0} :
          /\ Credit(u, n)
          /\ NewRow(Row(u, "admin", n, "completed", 0))
    /\ UNCHANGED <<cache, ring, jobs, tasks, desk>>

(***************************************************************************)
(* The healer: a buy-in without a cash-out of the same session is refunded *)
(* to a player who is not seated; an admin may do it to any such row.      *)
(***************************************************************************)
HoursPass ==
    /\ "heal" \in Requests
    /\ aged < Len(rows)
    /\ aged' = Len(rows)
    /\ UNCHANGED <<bank, cache, ring, jobs, tasks, audit, lockdown, closing>>

Closed(r) == \E c \in ToSet(rows) : c.kind = "cash_out" /\ c.ref = r

Orphans == {r \in DOMAIN rows : rows[r].kind = "buy_in" /\ ~Closed(r)}

\* findOrphanedTransactions, and resolveDrift's selection by an admin.
FindOrphans ==
    /\ "heal" \in Requests
    /\ \/ LET found == {r \in Orphans : r <= aged /\ SeatsOf(rows[r].user) = {}}
          IN  /\ found # {}
              /\ Begin([Task("heal", "heal", Nobody, NoTask.seat, 0) EXCEPT !.refs = found])
       \/ \E r \in Orphans :
              Begin([Task("resolve", "heal", Nobody, NoTask.seat, 0) EXCEPT !.refs = {r}])
    /\ UNCHANGED <<bank, cache, ring, jobs, desk>>

\* The unique index on session and type is missing.
BuggyTaken(r) == FALSE

\* P2002: another cash-out of the session has been committed.
Taken(r) == Closed(r)

Heal(i) ==
    /\ tasks[i].at = "heal"
    /\ \E r \in tasks[i].refs :
          /\ IF Taken(r) THEN UNCHANGED bank
             ELSE /\ Credit(rows[r].user, rows[r].amount)
                  /\ NewRow(Row(rows[r].user, "cash_out", rows[r].amount, "completed", r))
          /\ IF tasks[i].refs = {r} THEN End(i)
             ELSE tasks' = [tasks EXCEPT ![i].refs = @ \ {r}]
    /\ UNCHANGED <<cache, ring, jobs, desk>>

(***************************************************************************)
(* An admin closes the table: the stacks he finds are refunded one by one, *)
(* then the table's keys are deleted with whatever is in them by then.     *)
(***************************************************************************)
Close ==
    /\ "close" \in Requests
    /\ closing = {} /\ \E s \in Seats : seats[s] # Empty
    /\ closing' = {[seat |-> s, user |-> seats[s].user, chips |-> seats[s].chips,
                    refunded |-> seats[s].chips = 0] : s \in {r \in Seats : seats[r] # Empty}}
    /\ UNCHANGED <<bank, cache, ring, jobs, tasks, aged, audit, lockdown>>

Refunded(c) == [c EXCEPT !.refunded = TRUE]

\* The loop over the seats found.
ComesNext(c) == ~c.refunded /\ \A d \in closing : d.refunded \/ c.seat <= d.seat

\* Its row names no status and remains pending, the column's default.
CloseRefund(c) ==
    /\ ComesNext(c)
    /\ Credit(c.user, c.chips)
    /\ NewRow(Row(c.user, "cash_out", c.chips, "pending", 0))
    /\ closing' = (closing \ {c}) \cup {Refunded(c)}
    /\ UNCHANGED <<cache, ring, jobs, tasks, aged, audit, lockdown>>

\* A refund that fails is only logged.
CloseRefundFails(c) ==
    /\ "settle_fails" \in Requests
    /\ ComesNext(c)
    /\ closing' = (closing \ {c}) \cup {Refunded([c EXCEPT !.chips = 0])}
    /\ UNCHANGED <<bank, cache, ring, jobs, tasks, aged, audit, lockdown>>

CloseDelete ==
    /\ closing # {} /\ \A c \in closing : c.refunded
    /\ seats' = [s \in Seats |-> Empty] /\ pot' = 0
    /\ closing' = {}
    /\ UNCHANGED <<bank, cache, jobs, tasks, aged, audit, lockdown>>

(***************************************************************************)
(* The audit: what is in the wallets and at the table, less what was paid  *)
(* in.  It awaits one query after the other, and money moves in between.   *)
(***************************************************************************)
RowSum(of(_)) ==
    SumFunction([r \in DOMAIN rows |-> IF rows[r].status = "completed" THEN of(rows[r]) ELSE 0])

Chips == SumFunction([s \in Seats |-> seats[s].chips + seats[s].bet])

Deposits == RowSum(LAMBDA r : IF r.kind = "deposit" THEN r.amount ELSE 0)
Withdrawals == RowSum(LAMBDA r : IF r.kind = "withdraw" THEN r.amount ELSE 0)
AdminCredits == RowSum(LAMBDA r : IF r.kind = "admin" /\ r.amount > 0 THEN r.amount ELSE 0)
AdminDebits == RowSum(LAMBDA r : IF r.kind = "admin" /\ r.amount < 0 THEN -r.amount ELSE 0)

\* Money an admin gave or took is forgotten.
BuggyQueries == <<-Deposits, Withdrawals, 0, 0, SumFunction(wallet), pot, Chips>>

\* In their order, each as it counts in the discrepancy.
Queries ==
    <<-Deposits, Withdrawals, -AdminCredits, AdminDebits, SumFunction(wallet), pot, Chips>>

LastQuery == 7

Answer(k) == audit' = [read |-> k, total |-> audit.total + Queries[k]]

Audit ==
    /\ "audit" \in Requests
    /\ audit = NoAudit
    /\ Answer(1)
    /\ UNCHANGED <<bank, cache, ring, jobs, tasks, aged, lockdown, closing>>

AuditGoesOn ==
    /\ audit.read \in 1..(LastQuery - 1)
    /\ Answer(audit.read + 1)
    /\ UNCHANGED <<bank, cache, ring, jobs, tasks, aged, lockdown, closing>>

\* A discrepancy is published, and every table freezes.
Decide ==
    /\ audit.read = LastQuery
    /\ lockdown' = (lockdown \/ audit.total # 0)
    /\ audit' = NoAudit
    /\ UNCHANGED <<bank, cache, ring, jobs, tasks, aged, closing>>

\* History: a step that moves money, and what it adds to what the audit in progress has
\* read already.
TotalOf(n) == SumFunction(SubSeq(Queries, 1, n))

Misses ==
    \E n \in {audit.read} :
        missed' = IF audit'.read = 0 THEN 0
                  ELSE IF UNCHANGED <<bank, ring>> THEN missed
                  ELSE missed + TotalOf(n)' - TotalOf(n)

LiftLockdown ==
    /\ lockdown
    /\ lockdown' = FALSE
    /\ UNCHANGED <<bank, cache, ring, jobs, tasks, aged, audit, closing>>

(***************************************************************************)
(* The table, as far as money goes, and a restart of the server: what was  *)
(* in flight is gone, and the boot janitor empties the seats and queues    *)
(* the refunds; a queue that refuses one is only logged.                   *)
(***************************************************************************)
Bet(s) ==
    /\ "play" \in Requests
    /\ seats[s].chips > 0
    /\ seats' = [seats EXCEPT ![s].chips = @ - 1, ![s].bet = @ + 1]
    /\ pot' = pot + 1
    /\ UNCHANGED <<bank, cache, jobs, tasks, desk>>

Award(s) ==
    /\ pot > 0
    /\ seats[s].bet > 0
    /\ pot' = 0
    /\ seats' = [r \in Seats |->
          [seats[r] EXCEPT !.bet = 0, !.later = 0,
                           !.chips = @ + seats[r].later + (IF r = s THEN pot ELSE 0)]]
    /\ UNCHANGED <<bank, cache, jobs, tasks, desk>>

Refundable(s) == seats[s].chips + seats[s].bet

RefundJobs(S) ==
    LET order == SetToSeq(S)
    IN  [k \in DOMAIN order |-> Job(seats[order[k]].user, Refundable(order[k]))]

Restart ==
    /\ "restart" \in Requests
    /\ LET due == {s \in Seats : Refundable(s) > 0}
       IN  /\ cache' = [u \in Users |-> cache[u]
                          + SumFunctionOnSet([s \in Seats |-> Refundable(s)],
                                             {s \in due : seats[s].user = u})]
           /\ \E kept \in SUBSET due : jobs' = jobs \o RefundJobs(kept)
    /\ seats' = [s \in Seats |-> Empty]
    /\ pot' = 0
    /\ tasks' = [i \in 1..MaxTasks |-> NoTask]
    /\ closing' = {}
    /\ audit' = NoAudit
    /\ UNCHANGED <<bank, aged, lockdown>>

(***************************************************************************)
(* The specification.                                                      *)
(***************************************************************************)
TaskNext(i) ==
    \/ Sync(i)
    \/ JoinScript(i)
    \/ AddScript(i)
    \/ Lock(i)
    \/ Undo(i)
    \/ Vault(i)
    \/ Refund(i)
    \/ Kick(i)
    \/ Enqueue(i)
    \/ Process(i)
    \/ Heal(i)

\* What the server goes on with by itself.
ServerNext ==
    \/ \E i \in 1..MaxTasks : TaskNext(i)
    \/ Settle
    \/ \E c \in closing : CloseRefund(c)
    \/ CloseDelete
    \/ AuditGoesOn
    \/ Decide

EventNext ==
    \/ \E u \in Users :
          \/ \E s \in Seats : Join(u, s) \/ AddChips(u, s) \/ Rebuy(u, s) \/ Leave(u, s)
          \/ Deposit(u)
          \/ Withdraw(u)
          \/ Adjust(u)
    \/ \E s \in Seats : AutoRebuy(s) \/ Notice(s) \/ Bet(s) \/ Award(s)
    \/ \E r \in DOMAIN rows : Examine(r)
    \/ SettleFails
    \/ \E c \in closing : CloseRefundFails(c)
    \/ Redeliver
    \/ Close
    \/ HoursPass
    \/ FindOrphans
    \/ Audit
    \/ LiftLockdown
    \/ Restart

\* Everybody has made a deposit, and some have taken seats with a part of it.
MoneyInit ==
    /\ seats \in [Seats -> {Empty} \cup {Stack(u, n) : u \in Users, n \in BuyIns}]
    /\ \A u \in Users : Cardinality(SeatsOf(u)) <= 1
    /\ rows = SetToSeq({Row(u, "deposit", Savings, "completed", 0) : u \in Users})
               \o SetToSeq({Row(seats[s].user, "buy_in", seats[s].chips, "completed",
                                 Cardinality(Users) + Cardinality({r \in Seats : seats[r] # Empty /\ r <= s})) :
                            s \in {r \in Seats : seats[r] # Empty}})
    /\ wallet = [u \in Users |->
          Savings - SumFunctionOnSet([s \in Seats |-> seats[s].chips], SeatsOf(u))]
    /\ cache = wallet
    /\ aged = 0
    /\ pot = 0
    /\ jobs = <<>>
    /\ tasks = [i \in 1..MaxTasks |-> NoTask]
    /\ audit = NoAudit
    /\ missed = 0
    /\ lockdown = FALSE
    /\ closing = {}

MoneySpec == MoneyInit /\ [][(ServerNext \/ EventNext) /\ Misses]_money
=============================================================================

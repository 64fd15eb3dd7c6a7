----------------------------- MODULE MoneyProps -----------------------------
(***************************************************************************)
(* Whose money it is, stated of MoneyFlow.                                 *)
(***************************************************************************)
EXTENDS MoneyFlow

\* Money a handler in flight still has to hand over, or (negative) to collect.
Carried(t) ==
    IF t.at \in {"vault", "refund", "enqueue"} THEN t.amount
    ELSE IF t.given /\ t.at \in {"lock", "undo"} THEN -t.amount ELSE 0

\* What of an amount is u's when it is its owner's.
Share(u, owner, amount) == IF owner = u THEN amount ELSE 0

CarriedFor(u) ==
    SumFunction([i \in 1..MaxTasks |-> Share(u, tasks[i].user, Carried(tasks[i]))])

AtTable(u) ==
    SumFunction([s \in Seats |->
        Share(u, seats[s].user, seats[s].chips + seats[s].bet + seats[s].later)])

Queued(u) == SumFunction([k \in DOMAIN jobs |-> Share(u, jobs[k].user, jobs[k].amount)])

\* What the admin who closes the table has refunded, and is about to take from the seats.
Returned(u) ==
    SumFunction([c \in closing |-> Share(u, c.user, IF c.refunded THEN c.chips ELSE 0)])

\* What player u has, wherever it is.
Worth(u) == wallet[u] + AtTable(u) + Queued(u) + CarriedFor(u) - Returned(u)

\* What he paid in and took out at the cashier.
Paid(r) ==
    IF r.kind = "deposit" /\ r.status = "completed" THEN r.amount
    ELSE IF r.kind = "admin" THEN r.amount
    ELSE IF r.kind = "withdraw" /\ r.status # "rejected" THEN -r.amount ELSE 0

PaidIn(u) == SumFunction([r \in DOMAIN rows |-> Share(u, rows[r].user, Paid(rows[r]))])

\* His wallet as the Transaction table tells it.
Entry(r) ==
    IF r.kind = "buy_in" THEN -r.amount ELSE IF r.kind = "cash_out" THEN r.amount ELSE Paid(r)

Booked(u) == SumFunction([r \in DOMAIN rows |-> Share(u, rows[r].user, Entry(rows[r]))])

\* Where the code is known to move money that is not accounted for; each is described
\* in the README.
Slip(i) ==
    LET t == tasks[i]  there == seats[t.seat]
    IN  /\ tasks'[i] # t
        /\ \/ t.op = "join" /\ ~t.given /\ t.at \in {"lock", "undo"}
           \/ t.op = "join" /\ t.at = "undo" /\ there # Stack(t.user, t.amount)
           \/ t.op # "join" /\ t.at = "undo"
              /\ (there # t.saw \/ there.user # t.user \/ there.chips < t.amount)
           \/ t.op = "add" /\ t.at = "script" /\ there.user # t.user
           \/ t.at = "vault" /\ there # Empty /\ there.user # t.user
           \/ t.at = "kick" /\ there # Stack(t.user, t.amount)
           \/ t.at = "process" /\ \E r \in t.refs : rows[r].status # "pending"
           \/ t.op = "reject" /\ \E r \in t.refs : rows[r].kind = "withdraw"
           \/ t.op = "approve" /\ \E r \in t.refs : rows[r].kind = "withdraw" /\ rows'[r].amount # rows[r].amount
           \/ t.at = "heal"

Forfeit == \E u \in Users, s \in Seats : Leave(u, s) /\ seats[s].bet + seats[s].later > 0

\* A table closed in the middle of a hand, or whose stacks have changed since.
LossyClose ==
    /\ CloseDelete
    /\ {<<s, seats[s]>> : s \in {r \in Seats : seats[r] # Empty}}
          # {<<c.seat, Stack(c.user, c.chips)>> : c \in closing}

LossyRestart ==
    /\ Restart
    /\ \/ \E c \in closing : c.refunded
       \/ \E i \in Busy : Carried(tasks[i]) # 0
       \/ \E s \in Seats : seats[s].later > 0
       \/ Len(jobs') - Len(jobs) < Cardinality({s \in Seats : Refundable(s) > 0})

Faults == SettleFails \/ Redeliver \/ LossyRestart \/ LossyClose

\* Nobody's money is made, lost or given to another outside of a hand: through wallet,
\* seat, queue and handlers in flight, what a player has changes only by what he pays in
\* or takes out at the cashier (the buy-in, rebuy, leave and cash-out sagas under any
\* interleaving, short of the known slips).
MoneyKept ==
    [][\/ \A u \in Users : Worth(u)' - Worth(u) = PaidIn(u)' - PaidIn(u)
       \/ \E s \in Seats : Award(s)
       \/ \E i \in 1..MaxTasks : Slip(i)
       \/ Forfeit
       \/ Faults]_money

\* Concurrent debits never overdraw a wallet: lockFunds and withdrawals check the
\* balance before their transaction, when another one may be about to take it
\* (wallet.service.ts "Race Condition Detected"); only a withdrawal that is rejected, and
\* so taken twice, may.
NoOverdraft ==
    [][\/ \A u \in Users : wallet'[u] < 0 => wallet'[u] >= wallet[u]
       \/ \E i \in 1..MaxTasks : tasks[i].op = "reject" /\ Slip(i)]_money

\* The Transaction table tells the balance of every wallet, whatever is processed
\* concurrently; only a row processed by two admins at once, and a rejected withdrawal,
\* change a balance by something else.
BooksBalance ==
    [][\/ \A u \in Users : wallet'[u] - wallet[u] = Booked(u)' - Booked(u)
       \/ \E i \in 1..MaxTasks : tasks[i].at = "process" /\ Slip(i)]_money

\* A withdrawal that is rejected is paid back: "Refund the user since we decremented at
\* request" (wallet.service.ts:422).  Violated: the row's amount is negative.
RejectedIsRefunded ==
    [][\A r \in DOMAIN rows :
          rows[r].kind = "withdraw" /\ rows[r].status = "pending" /\ rows'[r].status = "rejected" =>
              wallet'[rows[r].user] = wallet[rows[r].user] + rows[r].amount]_money

\* However many healers and admins refund a session, it is refunded once (the unique
\* index on referenceId and type).
RefundedOnce ==
    \A r \in DOMAIN rows :
        Cardinality({c \in DOMAIN rows : rows[c].kind = "cash_out" /\ rows[c].ref = r}) <= 1

\* The money there is, less the money that was paid in.
Surplus ==
    SumFunction([u \in Users |-> Worth(u) - PaidIn(u)]) + pot
        - SumFunction([s \in Seats |-> seats[s].bet])

InFlight ==
    \/ jobs # <<>> \/ closing # {}
    \/ \E i \in Busy : Carried(tasks[i]) # 0
    \/ \E s \in Seats : seats[s].bet + seats[s].later > 0
    \/ \E r \in ToSet(rows) : r.kind = "withdraw" /\ r.status = "pending"

\* When no money is on its way at the moment of decision, the audit freezes the tables if
\* and only if the surplus of money, which may be negative, differs from what has moved into
\* what it had read already (runAudit): a transfer between two of its queries hides a loss
\* or makes one up.
AuditIsRight ==
    [][Decide => InFlight \/ lockdown' = (lockdown \/ Surplus # missed)]_money
=============================================================================

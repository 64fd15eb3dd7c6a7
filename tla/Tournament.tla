----------------------------- MODULE Tournament -----------------------------
(***************************************************************************)
(* One tournament: registrations and withdrawals as concurrent database    *)
(* transactions (read committed; a registration holds the lock of the      *)
(* player's wallet and no lock on the tournament), what the administrator  *)
(* changes, and the lifecycle job that runs every minute.                  *)
(***************************************************************************)
EXTENDS Integers, FiniteSets, FiniteSetsExt

CONSTANTS
    Entrants,       \* users
    Requests,       \* their requests; two of one user may overlap
    ByUser,         \* whose request it is
    SeatCap,
    Prices, Fee,    \* what a buy-in may be, and the fee on top of it
    Guaranteed,     \* guaranteedPrizePool
    Savings,        \* what is in each wallet at first
    MaxReprices     \* bound on price changes

ASSUME EntrantsAssumption == ByUser \in [Requests -> Entrants] /\ IsFiniteSet(Requests)

ASSUME PricesAssumption ==
    /\ Prices \subseteq Nat /\ Fee \in Nat /\ Guaranteed \in Nat /\ Savings \in Nat
    /\ SeatCap \in Nat /\ MaxReprices \in Nat

VARIABLES
    status,
    hour,           \* where the clock is: "early", "open", "start" or "late"
    lateReg,        \* is late registration allowed
    price, entries, totalEntries, prizePool,
    savings,        \* the wallets
    request,        \* what each request is doing, and what it read
    cron,           \* the transition the lifecycle job is about to make
    overlapped,     \* history: an entry or withdrawal read the tournament before another
                    \* was committed
    settled,        \* history: an entry or withdrawal was committed
    missed,         \* history: entries, less withdrawals, committed between what the last
                    \* one to commit had read and its commit
    repriced,       \* history: how often the price was changed
    paid,           \* history: what the player paid for the entry he has
    spilled         \* history: refunds at another price, entries deleted unrefunded

field == <<status, lateReg, price, entries, totalEntries, prizePool, savings>>
past == <<overlapped, settled, missed, repriced, paid, spilled>>
tour == <<field, hour, request, cron, past>>

Statuses == {"ANNOUNCED", "REGISTERING", "LATE_REG", "RUNNING", "DELETED"}
NoRequest == [kind |-> "none"]
NoRule == [due |-> {}, to |-> "none"]

\* create names no prize pool: it is the column's default, whatever is guaranteed.
TourInit ==
    /\ status = "ANNOUNCED" /\ hour = "early" /\ lateReg \in BOOLEAN /\ price \in Prices
    /\ entries = {} /\ totalEntries = 0 /\ prizePool = 0
    /\ savings = [u \in Entrants |-> Savings]
    /\ request = [r \in Requests |-> NoRequest] /\ cron = NoRule
    /\ overlapped = FALSE /\ settled = FALSE /\ missed = 0 /\ repriced = 0
    /\ paid = [u \in Entrants |-> 0] /\ spilled = [u \in Entrants |-> 0]

InFlight(kind) == {r \in Requests : request[r].kind = kind}

Cost(buyIn) == buyIn + Fee
Pool(buyIn, n) == Max({buyIn * n, Guaranteed})

(***************************************************************************)
(* registerPlayer and unregisterPlayer: what each reads, and its commit.   *)
(***************************************************************************)
Reads(r, kind) ==
    request' = [request EXCEPT ![r] =
                   [kind |-> kind, entries |-> totalEntries, buyIn |-> price]]

\* SELECT ... FOR UPDATE on the wallet.
WalletFree(u) == \A r \in InFlight("enter") : ByUser[r] # u

AskEnter(r) ==
    LET u == ByUser[r]
    IN  /\ request[r] = NoRequest
        /\ WalletFree(u)
        /\ status \in {"REGISTERING", "LATE_REG"}
        /\ totalEntries < SeatCap
        /\ u \notin entries /\ savings[u] >= Cost(price)
        /\ Reads(r, "enter")
        /\ UNCHANGED <<field, hour, cron, past>>

\* The counters are written from what was read.
BuggyCount(r, change) == request[r].entries + change

\* The counters are incremented by the database; the prize pool is written from what
\* was read.
Count(r, change) == totalEntries + change

Settle(r, change) ==
    /\ totalEntries' = Count(r, change)
    /\ prizePool' = Pool(request[r].buyIn, request[r].entries + change)
    /\ settled' = TRUE
    /\ missed' = totalEntries - request[r].entries
    /\ overlapped' = (overlapped \/ missed' # 0)
    /\ request' = [request EXCEPT ![r] = NoRequest]

\* The commit, refused if the entry exists or the tournament is gone.
Enter(r) ==
    LET u == ByUser[r]
        cost == Cost(request[r].buyIn)
    IN  /\ request[r].kind = "enter"
        /\ status # "DELETED" /\ u \notin entries /\ savings[u] >= cost
        /\ entries' = entries \cup {u}
        /\ savings' = [savings EXCEPT ![u] = @ - cost]
        /\ paid' = [paid EXCEPT ![u] = cost]
        /\ Settle(r, 1)
        /\ UNCHANGED <<status, lateReg, price, hour, cron, repriced, spilled>>

AskLeave(r) ==
    /\ request[r] = NoRequest
    /\ status \in {"ANNOUNCED", "REGISTERING"}
    /\ ByUser[r] \in entries
    /\ Reads(r, "leave")
    /\ UNCHANGED <<field, hour, cron, past>>

\* deleteMany instead of delete.
BuggyStillIn(u) == TRUE

\* Deleting a row that is gone fails, and with it the transaction.
StillIn(u) == u \in entries

\* The refund is today's price.
Withdraw(r) ==
    LET u == ByUser[r]
        cost == Cost(request[r].buyIn)
    IN  /\ request[r].kind = "leave"
        /\ status # "DELETED" /\ StillIn(u)
        /\ entries' = entries \ {u}
        /\ savings' = [savings EXCEPT ![u] = @ + cost]
        /\ spilled' = [spilled EXCEPT ![u] = IF u \in entries THEN @ + cost - paid[u] ELSE @]
        /\ paid' = [paid EXCEPT ![u] = 0]
        /\ Settle(r, -1)
        /\ UNCHANGED <<status, lateReg, price, hour, cron, repriced>>

\* Nothing is changed by a transaction that fails.
Abort(r) ==
    /\ request[r] # NoRequest
    /\ request' = [request EXCEPT ![r] = NoRequest]
    /\ UNCHANGED <<field, hour, cron, past>>

(***************************************************************************)
(* The administrator and the lifecycle job.                                *)
(***************************************************************************)
Reprice(p) ==
    /\ status \in {"ANNOUNCED", "REGISTERING", "LATE_REG"} /\ p # price
    /\ repriced < MaxReprices
    /\ price' = p /\ repriced' = repriced + 1
    /\ UNCHANGED <<status, lateReg, entries, totalEntries, prizePool, savings, hour, request, cron,
                   overlapped, settled, missed, paid, spilled>>

\* The start is put off, which update allows in any status but the last ones.
PutOff ==
    /\ status \in {"ANNOUNCED", "REGISTERING", "LATE_REG"} /\ hour # "early"
    /\ hour' = "early"
    /\ UNCHANGED <<field, request, cron, past>>

\* The entries go with the tournament; nobody is refunded.
Delete ==
    /\ status \in {"ANNOUNCED", "REGISTERING", "LATE_REG"}
    /\ status' = "DELETED" /\ entries' = {}
    /\ spilled' = [u \in Entrants |-> spilled[u] - paid[u]]
    /\ paid' = [u \in Entrants |-> 0]
    /\ UNCHANGED <<lateReg, price, totalEntries, prizePool, savings, hour, request, cron, overlapped,
                   settled, missed, repriced>>

TimePasses ==
    /\ hour # "late"
    /\ hour' = CASE hour = "early" -> "open" [] hour = "open" -> "start" [] OTHER -> "late"
    /\ UNCHANGED <<field, request, cron, past>>

\* The rules of the lifecycle: the status they find, when, and the one they set.
Rules ==
    { [from |-> "ANNOUNCED", hours |-> {"open", "start", "late"}, to |-> "REGISTERING"],
      [from |-> "REGISTERING", hours |-> {"start", "late"},
       to |-> IF lateReg THEN "LATE_REG" ELSE "RUNNING"],
      [from |-> "LATE_REG", hours |-> {"late"}, to |-> "RUNNING"] }

\* Each rule looks for the tournaments that are due and then moves them.
Look(rule) ==
    /\ cron = NoRule
    /\ status = rule.from /\ hour \in rule.hours
    /\ cron' = [due |-> {status}, to |-> rule.to]
    /\ UNCHANGED <<field, hour, request, past>>

Transition ==
    /\ cron # NoRule
    /\ status' = IF status = "DELETED" THEN status ELSE cron.to
    /\ cron' = NoRule
    /\ UNCHANGED <<lateReg, price, entries, totalEntries, prizePool, savings, hour, request, past>>

Lifecycle == Transition \/ \E rule \in Rules : Look(rule)

TourNext ==
    \/ \E r \in Requests : AskEnter(r) \/ Enter(r) \/ AskLeave(r) \/ Withdraw(r) \/ Abort(r)
    \/ \E p \in Prices : Reprice(p)
    \/ PutOff \/ Delete \/ TimePasses \/ Lifecycle

TourSpec == TourInit /\ [][TourNext]_tour

(***************************************************************************)
(* Properties.                                                             *)
(***************************************************************************)
\* Every wallet has what it had less what its owner paid for the entry he holds, whatever
\* requests of his overlap; except for price changes and deleted tournaments.
TourBooks ==
    \A u \in Entrants :
        /\ savings[u] = Savings - paid[u] + spilled[u]
        /\ u \notin entries => paid[u] = 0

\* The number of entries is right whatever overlaps.  Requests that overlap may exceed the
\* seat cap, by fewer than there are of them.  At a price nobody changed, the prize pool is
\* wrong by exactly the entries that the last request to commit had not read, and right
\* again with the first that overlaps none; until one commits it is 0.
CountersMatch ==
    status # "DELETED" =>
        /\ totalEntries = Cardinality(entries)
        /\ overlapped \/ Cardinality(entries) <= SeatCap
        /\ entries # {} => Cardinality(entries) < SeatCap + Cardinality(Requests)
        /\ repriced > 0 \/ prizePool = IF settled THEN Pool(price, totalEntries - missed) ELSE 0
=============================================================================

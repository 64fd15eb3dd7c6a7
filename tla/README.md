# A verification project for the card room

This directory holds TLA+ models of the poker card room in `src/`, the TLC runs
that check them on small instances, and TLAPS proofs of what holds at every
table. The models are written from the code: the Lua scripts that are the only
writers of a table's state while it is played, the gateway and the timers around
them, the services that move money and archive hands, and the parts of the
browser that keep a state of their own. `PROJECT.json` gives, for every
definition, the lines it stands for, and lists the hazards the properties are
for.

## 1. The system

A browser speaks to the **game gateway** (NestJS, Socket.IO). The gateway runs
**Lua scripts** in Redis; each script is atomic and reads and writes the hashes
`table:{id}` and `table:{id}:players`. What a script replies tells the gateway
what to do next: arm a turn timer, turn a street, judge a showdown, start a
hand. Turn timers are BullMQ jobs, the pauses between hands are Node timers;
money outside a table lives in Postgres, written by the wallet service and by a
cash-out worker behind a queue. Finished hands go to a Redis stream and from
there to an archive. State is broadcast to the browsers, which queue it for
display.

| Component | State it keeps | Operations | What makes it correct | Module |
|---|---|---|---|---|
| `bet.lua` | turn, bets, pot, contributions, actions taken | fold, check, call, raise, all-in; closes rounds, returns uncalled bets, pays a hand won by folds | chips conserved; rounds close exactly when everyone has answered; the turn is a player who can act | TableEngine |
| `timeout.lua` | time bank, bench flag | open the bank, fold and bench | hands end without cooperation | TableEngine |
| `next_street.lua` | phase, street bets | turn a street, run out the board | a street starts from a clean round | TableEngine |
| `showdown.lua` | stacks, house rake | rake, side pots, reset | each layer of the pot to the best hand that paid for it | SidePots, TableEngine |
| `next_hand.lua` | statuses, button, blinds, cards | top-ups, ghosts, promotion, leave-next-BB, blinds, deal | only who is ready is dealt in; nothing of the last hand survives | TableEngine |
| seat scripts (`join_table`, `leave_table`, `toggle_sit_out`, `toggle_lnbb`, `add_chips`, `add_chips_vault`, `set_offline`, `set_online`, `force_cleanup`) | seat records, Redis balances | come, go, pause, top up, drop off, return, hard reset | money moves once; flags are honoured by the next deal | TableEngine |
| game gateway: the hand | `autoAdvanceTimers`, handlers at an await | handle an action, advance, judge, start a hand, seat requests | one continuation per hand; none lost | TableFlow |
| timer service, turn-timer processor | one job key per table | schedule, cancel, fire | a job fires for the turn it was made for | TableFlow |
| game gateway: sockets | sessions, rooms, seat index, sweepers | connect, subscribe, join, leave, kick, broadcast | a socket acts for, and sees, its own player only | Sessions |
| player reaper | none (one snapshot per sweep) | kick players offline for a minute | acts on whom it read | Sessions, MoneyFlow |
| wallet service, cash-out worker | Postgres wallets and ledger, the queue | lockFunds, settleCashOut, deposits, withdrawals, adjustments | every chip that leaves a table reaches a wallet once | MoneyFlow |
| buy-in, rebuy and leave sagas | Redis balance cache, handlers at an await | sync, script, lock, undo | no saga leaves half its effects | MoneyFlow |
| reconciliation, cron audit and healer, closing a table | none; lockdown switch | reset at boot, compare totals, refund orphans | refunds once; alarms if and only if money is wrong | MoneyFlow |
| stream consumer, hand-history worker | consumer group, jobs, archive rows | read, queue, acknowledge, archive | every hand once, its rake once | HandHistory |
| tournaments | registrations, counters, wallets | register, withdraw, reprice, delete, lifecycle job | seat cap, prize pool and refunds respected | Tournament |
| web client: a tab | connected, joined, joining, its slice of state | connect, subscribe, join, leave, receive | shows the table as it is | ClientTable |
| web client: display | network and display state, queue | queue a picture, gather, show, flush | every picture, in order | Orchestrator |
| web client: animations | queue, scenes on the screen | start a scene, play, skip, settle | what is essential is played, and nothing stays on the screen | Motion |
| web client: pots, hand names | none | compute side pots, rank a hand | says what the server will do | ClientPots, HandRanks |
| hand evaluator | none | pick five cards, compare | Omaha uses two and three | HandRanks |
| wait list, settings scripts, shuffle, Lua runner | lists, flags, a deck | | | not modelled |
| admin: pause, resume, reopen | the table's phase | overwrite it | a paused hand stays paused | TableFlow |
| admin panels, users, auth, chat, notifications, config, audit log, e-mail, leaderboard | rows | request and response | nothing at a table depends on them | not modelled |

**Hard behaviours.** Scripts are atomic but the gateway is not: it awaits between
reading a phase and acting on it, and holds timers in memory. Players leave,
drop off and ask for a break in the middle of a hand, from several tabs. Several
all-ins build side pots with rounding and rake. A record is reset in branches,
and what no branch resets reaches the next hand. Money is moved by sagas of a
Redis script and a Postgres transaction, with a queue behind them, and a crash
separates the two. `PROJECT.json` lists these hazards at the lines where they
bite, each with the properties that cover it or the reason none does.

## 2. The modules

```
SeatMath ─┬─ SidePots ─┬─ TableEngine ── TableProps ─┬─ MCHand ─┬─ MCTable
          │            │                      │      │          └─ MCAudit
          │            │                      │      └ INSTANCE TableShell (refinement)
          │            └─ ClientPots ─ PotSplit
          └─ TableShell ─ TableFlow ─ FlowProps ─ MCFlow

MoneyFlow ─ MoneyProps ─ MCMoney
Sessions, HandHistory, Tournament, Orchestrator, Motion,
  ClientTable, HandRanks, PotSplit ─ MCServices

proofs:
SidePots ─ SidePotProofs ─┬─ (TableProps) TableEngineProofs ─ (MCHand) HandProofs
                          │                                     └─ (MCTable) OpenProofs
                          └─ (FlowProps) FlowProofs
SumProofs ─┬─ (MoneyProps) MoneyProofs
           └─ (Tournament, HandHistory, Orchestrator, Sessions;
               HandRanks; PotSplit, with SidePotProofs) ServiceProofs
```

### The table

* **SeatMath** — the ten-seat loops: sums, maxima, the clockwise search
  (`getNextActiveSeat`). Written out over seats 0..9, without recursion, so that
  the prover can use them. `Seats` is the set of seats anyone ever asks for.
* **SidePots** — `showdown.lua`'s division of a pot, as an operator
  `Payouts(contrib, alive, score, gross, net)`: the *set* of results the script
  may produce. It is a set because `pairs()` has no fixed order (who gets the odd
  chips) and because `slice * (net / gross)` in double precision may fall short of
  an exact integer by one rounding.
* **TableEngine** — one table. `table` and `players` are the two hashes, with one
  record per seat; `balance` is the wallet of the user who plays that seat;
  `house` is `house:rake`; `reply` is what the last script left the gateway to
  do. Each script is one action: `Fold`, `Check`, `Call`, `AllIn`, `Raise` are
  the branches of `bet.lua` with everything it does afterwards (time-bank billing,
  `HandWon`, `RoundOver` with its refund, `PlayOn`); `TimeoutExtend` and
  `TimeoutFold` are `timeout.lua`; `NextStreet`, `Showdown`, `TooFewToDeal` and
  `Deal` (the two outcomes of `next_hand.lua`); and one action for each seat
  script. Guards are the scripts' early returns.
* **TableShell** — the same scripts without chips: phase, turn, the *standing* of
  each seat (its status, coarser: `out` is `sitting_out`; `busted` and `leaving`
  are `parked`), whether there is a pot, hands dealt. What a script answers is a
  parameter of its operator.
* **TableProps** — the properties of the engine, among them
  `ImplementsShell == Shell!ShellSpec`: TableEngine implements TableShell under
  `standing <- StandingOf(status)`, `pot <- table.pot > 0`,
  `hands <- table.handNumber`. This is what entitles TableFlow to play the
  gateway over TableShell's scripts instead of the full ones.
* **TableFlow** — the gateway around one table. A *task* is an asynchronous
  function at one of its awaits: `stop`/`clock`/`arm` are `handleAction` after
  `bet.lua` and the two halves of `scheduleTimeout` (cancel, then add);
  `expire`/`fine` the turn-timer processor (its check, `timeout.lua` and what
  follows); `advance`/`turn` are `advanceStreet`; `judge`/`settle` are
  `handleShowdown`; `start`/`deal` are `startNewHand` (its phase guard and,
  after more awaits, `next_hand.lua`); `leave` is `handleLeaveTable` or
  `forceStandUp` once they reach their script. `Pause`, `Resume` and `Reopen` are an
  administrator writing the phase: the first two from the table's settings
  (`admin-game.controller.ts:307`), the last by `updateStatus` with `OPEN` (`:524`), which
  the web admin never sends and which looks at no phase. A seat asked to sit out keeps its
  place if it holds cards; outside of a hand either may be the case (`HoldsCards`), since a
  hand that was written over leaves its cards. `timers` are Node timers, of which
  the map `autoAdvanceTimers` remembers one (`slot`); `jobs` are BullMQ's
  delayed jobs, of which the table's key remembers one (`key`).
* **FlowProps** — its properties.
* **ClientPots, PotSplit** — the pots the browser shows, and the pot split alone:
  each pot divided once, against a reference that deals with one layer of chips
  at a time and knows nothing of side pots.

### Around it

* **MoneyFlow** — wallets and `Transaction` rows, the Redis balance cache, the
  seats' chips, the cash-out queue, and handlers at their awaits: joining (sync,
  script, `lockFunds`, and the reversal when it fails), `add_chips`, rebuy and
  the automatic rebuy that writes back an older record, leaving, the reaper, the
  cashier's deposits and withdrawals with their two-step processing, adjustments,
  the healer of orphaned buy-ins, closing a table, and restarts with
  the boot janitor. The audit (`Audit`, `AuditGoesOn`, `Decide`) awaits its queries one
  after the other, as `runAudit` does, and anything may happen between two of them; a table
  is read at once, and the house's wallet, which nothing here changes, is left out. `Bet` and `Award` stand for the hands played in between:
  chips go into the pot and to one of those who bet.
* **MoneyProps** — what a player is worth (wallet, seats, queue, handlers in
  flight), what he paid in at the cashier, and the properties.
* **Sessions** — sockets, their sessions and rooms, the seat index, the offline
  flag, broadcasts that read the room before they send, sit-out sweepers, the
  reaper's snapshot. Two `history` variables record through which socket a
  stale session came about.
* **HandHistory** — streams of two tables, the consumer group, the loop's
  discover/read/queue/acknowledge, jobs with three attempts, stalls, the look-up
  and the transaction.
* **Tournament** — registrations and withdrawals as two steps (read, write) under
  read-committed isolation, from a tournament as `create` leaves it (prize pool 0), price changes, deletion, the minute job.
* **ClientTable** — one tab: what it believes against the truth, snapshots in
  flight, requests whose answer a lost connection swallows.
* **Orchestrator** — the display queue in half seconds: each animation lasts up
  to its ceiling, the gather picture, the safety flush.
* **Motion** — the animations: which change of the picture starts which scene,
  the queue as React state (an effect works on what it was rendered with), the
  skipping of folds in a backlog, and the list of what is on the screen.
* **HandRanks** — the browser's rank and score of a hand against the rule book's
  order, over the five-card hands each side considers.

MC modules only give constants, bounds and, in MCTable, MCMoney and MCServices, a
counter of requests. Operators named `Buggy...` (and `UnguardedStart`) are slips
one could make in the definition they precede. Nothing uses them;
`PROJECT.json` names, for each property of a passing run, the one that property
notices.

### What is abstracted

* Cards: at the table a seat has hole cards or not, scores are chosen at
  showdown. The deck, and running out of it, is not in the model. HandRanks has
  the cards. The comparison of two hands on the server is a library's
  (`poker-evaluator`) and is taken to follow the rule book.
* Clocks: a turn timer may fire whenever its player is to act; the time bank
  billed for a move is any part of what is left. Node timers fire in the order
  their delays allow.
* In TableEngine the gateway is **prompt**: a street or showdown that is due is
  executed before the next bet (`MayBet`), and start-of-hand checks are one step
  with the deal. TableFlow is about what happens when it is not.
* In TableEngine one user plays a seat: he never joins twice or elsewhere; that
  is Sessions' subject. Statuses `disconnected` and `left`, which some scripts
  test for, are left out: no script ever writes them as the gateway calls it.
* Raises are those the web client's slider and presets can send when `WebClient`
  is TRUE (all runs); FALSE lets in whatever `bet.lua` accepts, and the proofs
  cover both. `PotLimit` is modelled and proved about, but no run sets it.
* A Postgres transaction is one step, with what its caller read before it as a
  separate one.

## 3. The runs

### Passing

* **hand_play** (`MCHand.cfg`) — three players, stacks from {1, 3, 5} in every
  mix around the button, blinds 1/2, 10 % rake capped at 2, three hand values, a
  time bank of 1 for everybody, one whole hand. A stack of 1 is shorter than the
  big blind, 3 is all-in after one raise, 5 leaves room for a raise and a shove over
  it; three values give every order and every tie of three hands; three seats
  give a main pot and a side pot plus uncalled chips. Nobody raises on his time
  bank here (`RaisesInTime`): that is `time_bank_raise`. Checks `Solvent`,
  `PotIsContributions`, `RoundBalanced`, `TurnIsLive`, `BettingConservesChips`,
  `ShowdownPaysTheContested`, `AllInCap` and, under fairness, `PotsArePaid`: the
  bank delays a turn once, never for ever. About 114,000 states.
* **table_life** (`MCTable.cfg`) — three players, two hands of all-in-or-fold,
  and any two of the nine seat requests at any point. All-in-or-fold keeps the
  betting small while every status still occurs; two hands are what a leftover of
  the first needs to do harm; two requests are what a request and its undoing
  need. One player is slow and has a time bank of 1, so that it is opened and
  used up. `MaxActed` bounds `playersActedCount`, which the code lets grow when
  bets arrive while the table is idle. Checks `TypeOK`, `Solvent`,
  `CardsMatchHand`, `BreakRespected`, `NoMoneyMade` and the refinement
  `ImplementsShell`. About 273,000 states.
* **table_flow** (`MCFlow.cfg`) — three seats, one or two of them taken at first,
  two hands, one open bet per street, a time bank for one seat, one request of a
  client or an administrator or one failure at any point, up to three timers and two functions in
  flight. One event is worked on to its end before the next begins
  (`Overlap = FALSE`); timers and jobs still fire in any order their delays
  allow. Checks `ClockRuns`, `OneClock`, `StartPending`, `DealsOverNothing`,
  `PauseHolds` (no start that was pending deals at a paused table) and, under
  fairness, `HandsEnd`. About 340,000 states. With two handlers in flight
  see `double_start` and section 4.
* **money** (`MCMoney.cfg`) — two users, two seats, any three events out of
  sixteen kinds, two handlers interleaved at every await, jobs lost or delivered
  twice, restarts. Three events are a buy-in, what disturbs it, and its undoing;
  amounts of 1 against savings of 2 leave one more buy-in in the wallet, which is
  what a double debit needs. Checks `NoOverdraft`, `RefundedOnce`, `MoneyKept`,
  `BooksBalance`, `AuditIsRight`. An audit is one of the three events, so two others fall
  between its queries. Users are alike, so those seated at first are those whose
  deposits come first. About 327,000 states.
* **services** (`MCServices.cfg`) — eight parts that share no state, one of them
  played in each behaviour (`focus`), so that the run is their sum and not their
  product: three sockets of two users at two seats with five client events;
  three hands of two tables, two of which end in the same millisecond, with three
  faults; three requests of two entrants for one place, at a price and a fee, with one
  price change; four pictures, and four changes of one with four folds at once,
  enough for a backlog; three messages on the wire and two lost connections; a deck of
  ten cards with two or four hole cards; and every pot of four seats with contributions from
  {0, 7, 20, 33}, every set of survivors, two hand values, 0 or 5 chips that no
  seat is recorded for. (Four sizes give three layers and the seat that put in
  nothing; 7, 20 and 33 make the slices indivisible by two and three winners and
  by the rake; contributions rise with the seat, since seats are alike.) Checks
  `OwnSeatOnly`,
  `OnlineWhileHere`, `OfflineLeaves` (sessions), `RakeOnce`, `HandsKept`
  (archive), `TourBooks`, `CountersMatch` (tournament), `FlushIsIdle`,
  `ShownInOrder`, `DisplayCatchesUp` (display), `ViewCatchesUp` (tab),
  `ScenesPlay` (animations), `SaysTheBest` (hand ranking), `FairShare` (the
  division of the pot against the layer-by-layer reference) and `PotsShown`: what
  the browser shows are those layers, when no folded player's contribution lies
  strictly between two levels of those still in (`FoldsAligned`). About 332,000
  states.

Runs end when their bounds are reached. All but `hand_play` turn
deadlock checking off, because table, desk and services really rest then;
`hand_play` keeps it on, with a resting step (`Finished`) for the end of
the hand, so a hand that gets stuck in the middle is reported.

### Violations

Each states one sentence of a comment or a test, and TLC shows the code doing
otherwise:

* **skipped_player** — `EveryoneHasActed` ("All active players have acted in this
  round", `bet.lua:458`): the count of actions is compared with the number of
  players active now.
* **time_bank_raise** — `PotIsContributions`: a raise on the time bank is dropped
  from the raiser's `totalContribution` (`bet.lua:325` saves an older copy).
* **stale_contribution** — `ShowdownConserves`: a folded player without chips
  keeps his contribution into the next hand (`next_hand.lua:160`).
* **cleanup_loses_chips** — `CleanupReturnsTheStakes`: the reset refunds
  `chips + currentBet` and loses earlier streets (`force_cleanup.lua:40`).
* **offline_dealt_in** — `OfflineStaysOut`: a disconnected player who is still
  `active` is dealt in (`next_hand.lua:147` and `187`).
* **double_start** — `DealsOverNothing` with two handlers in flight: a third
  player joins while a timer's start is between the phase guard ("to prevent
  double-start", `game.gateway.ts:1758`) and `next_hand.lua`, and the second start
  deals over the first hand.
* **withdrawal_rejected** — `RejectedIsRefunded` ("Refund the user since we
  decremented at request", `wallet.service.ts:422`): the row's amount is stored
  negated (`:174`), so the refund takes the money a second time.

### What the passing properties set apart

A property that passes names, in its own text, the known ways in which the code
departs from it, so that they do not hide others:

* `hand_play` has no raises on a time bank; `NoMoneyMade` sets apart the hard reset and a
  showdown whose records exceed its pot (the defects above).
* `ClockRuns`, `StartPending`, `HandsEnd`, `DealsOverNothing` leave out the
  *upsets* that happened in the hand. `left`: a player who leaves on his turn
  leaves the turn on an empty seat, and a leave clears the timer of the hand being
  celebrated. `refused`: `handleAction` cancels the clock before it knows whether
  the bet is accepted (`game.gateway.ts:1645`, "STOP TIMER"). `failed`: the
  recovery timer of a failed settlement deals over an unpaid pot
  (`game.gateway.ts:2147`). `online`: a reconnection makes a player ready and
  starts nothing. `paused`: the pause is written over the phase of a running hand
  (`admin-game.controller.ts:310`), although `admin-table.dto.ts:84` calls it one of
  the "Safe fields only for running tables"; no script but `next_street.lua` minds it, and
  resuming sets `waiting` and starts nothing, so the next start deals over the
  pot; a hand won by folds meanwhile lifts the pause. Reopening a table writes `waiting`
  over a running hand nobody paused, with the same effect, and counts as `paused`.
* `StartPending` asks for two players who are `Ready`: after a hand, all who can be dealt
  in; at a table at rest, those `handleAddChips` counts (`game.gateway.ts:1573`), which a
  seat folded by a late job is not (section 4).
* `MoneyKept` sets apart `Slip` — a buy-in that is undone after somebody else
  took the seat or the chips were played, a lock that failed half-way, a rebuy
  that writes back an older record, a top-up whose rollback takes the chips from
  whoever sits there by then, chips added to a seat that changed hands (from the
  vault: to another player's), the reaper paying what it read, a row processed by two admins at once, the healer's
  refund of a session that is still seated — `Forfeit` (leaving with chips in the
  pot, which is the rule, or set aside, which is not), and the faults: a cash-out
  job whose error is logged and swallowed, one delivered twice (cash-out jobs
  carry no reference, although ARCHITECTURE.md:87 says "Jobs must be safe to run
  twice"), a restart with money in flight (`LossyRestart`), a table closed while
  it is played (`LossyClose`). `BooksBalance` sets apart only the doubly processed
  row, a rejected withdrawal, and a withdrawal approved at another amount, `NoOverdraft`
  only the second. The last: `adminProcessTransaction` books `finalAmount` whatever the row
  is (`wallet.service.ts:398`), though only a deposit is credited by it; the route for
  deposits gives one, and it takes any row's id.
* `AuditIsRight` speaks of decisions made when no money is on its way (`InFlight`). At
  other times `cron.service.ts:23` ("off by even $0.01, a bug has occurred") is not
  so: the audit counts neither queued cash-outs nor handlers in flight, and it
  adds current bets to a pot that `bet.lua:188` has already put them in. When nothing is on
  its way the queries may still have been torn: `missed` is what moved, while the audit
  ran, into what it had read already, and the verdict is that of the surplus less `missed`,
  to the chip. With `missed` 0 it is the verdict the comment promises; otherwise see
  section 4.
* `OwnSeatOnly` and `OnlineWhileHere` set apart sockets whose session outlives
  the seat (`orphaned`: given up through another tab, a sweeper or the reaper,
  none of which ends that session) and sessions given to a tab after its player
  was marked offline (`excused`).
* `HandsKept` sets apart `dropped` hands (the group is created at `$`, a delivery
  lost to a restart is never claimed, three attempts) and a hand archived under
  the id of another table's hand that ended in the same millisecond.
* `TourBooks` sets apart, as `spilled`, refunds at another price than was paid and entries
  deleted unrefunded. `CountersMatch` follows the prize pool at an unchanged price only,
  and says how far requests that overlap carry cap and pool: past the cap by fewer than
  there are requests, and a pool off by just what the last one to commit had not read
  (`missed`, the tournament's). It speaks of no deleted tournament.
* `ScenesPlay` sets apart scenes added between a rendering of the queue and its
  effect (`lost`), which the effect overwrites.
* `ViewCatchesUp` sets apart a tab that believes it joined and lost its seat
  elsewhere (`Deceived`): it never subscribes again.

### Fairness

* TableEngine: `WF_vars(GatewayNext)`, the turn timer, a due street and a due
  showdown. The timer is a delayed job armed whenever a script names the next to
  act; streets and showdowns are called in the handler that made them due or on
  an in-memory timer. `hand_play` has no leavers.
* TableFlow: weak fairness of the functions in flight (the event loop goes on),
  strong fairness of timers and jobs, because clients may keep the gateway busy
  again and again between their firings.
* Sessions: the minute passes and the reaper's interval runs on. HandHistory: the
  consumer loop and the workers run on and a failed job is tried again (up to its
  attempts). Orchestrator: time passes and a promise that has settled continues.
  Motion: the browser renders what changed, runs effects, frames and timers.
  ClientTable: Socket.IO reconnects, messages on an open connection arrive,
  handlers answer, and the table plays on, so there is another broadcast.

Nothing is assumed of clients, of faults or of administrators.

## 4. Met while modelling, without a run

* `bet.lua` reads the phase (line 86) and never asks whether a hand is played.
  A showdown leaves `turnSeat` on a player; the third player's `join_table` makes
  those who wait `active`; whoever the old turn names can then bet before the next
  start, and `next_hand.lua` overwrites the pot those chips went into. If he was
  all-in he even starts the next hand without chips, with the old bet: `Solvent`
  fails in a behaviour of twelve steps, at three seats with stacks of 5 and 3, one
  join and blinds of 1 and 2; with equal stacks of 4 and `AllInOrFold = FALSE` in one
  of eighteen (a bet of 4 against a pot of 3). The web client offers no bet between
  hands, and in `table_life` everybody who joins brings the same stack of 4 and goes
  all-in or folds, which leaves nothing to bet with.
* Cards of a past hand can outlive it when clients both top up from the vault and drop off.
  `toggle_sit_out.lua` and `set_online.lua` bring a player back to `waiting` without asking
  for chips, so one without any is dealt in and may win an empty pot, all-in for
  nothing; a top-up then makes him `waiting` with his cards, and `next_hand.lua`, which
  leaves an offline record as it is, starts a hand in which he holds cards and is
  not in it: `CardsMatchHand` fails after eleven requests in 24 states, found while the
  theorem on it was attempted. `table_life` has two requests.
* With two handlers in flight `OneClock` and `ClockRuns` fail as well: the next
  player's action may arrive between the first handler's broadcast and its
  `scheduleTimeout`, whose cancel then removes the newer clock, or whose add
  leaves two, contrary to `timer.service.ts:23` ("First cancel any existing
  timeout for this table to be safe"). `StartPending` and `DealsOverNothing` held
  there in an exploration of 5.7 million states with bets only, too large for a
  run kept here. `bet.lua:469` leaves the turn on the next player although the
  street is over; the window that opens is of the same kind.
* A run-out's timer may outlive its hand. It is armed while one player can still act; if he
  folds, the next `set` of `autoAdvanceTimers` overwrites its entry without clearing it
  (`game.gateway.ts:1715`, `:1938`, `:2145`), although `clearTableTimer` is "the Kill Switch
  that prevents zombie timers from processing a hand that no longer exists" (`:375`). It
  then turns a street of the next hand in the middle of a round, which leaves a turn job
  behind when that hand ends; it may fold a seat at a table at rest, whom `add_chips` then does
  not count as ready, so it starts nothing. TLC needs four requests, three hands and 46
  states for this (more than `table_flow` has); an attempt to prove `StartPending` as it
  was stated before led to it.
* `useGameTable.ts:62` ("sum(pots) === totalPot (always)") and `:102` ("same as
  showdown.lua"): what nobody else can contest is left out of the pots shown, and
  folded contributions that are not aligned with a level are added to the main
  pot. `PotsShown` says when it is right.
* An audit can raise an alarm, or hide a loss, with nothing in flight when it decides: a
  buy-in completed between the query of the wallets and that of the tables is counted
  twice, contrary to `cron.service.ts:23`. `AuditIsRight` without `missed` fails in the
  `money` run, in ten states.
* A tournament's prize pool is 0 until its first registration (`tournament.service.ts:43`,
  `schema.prisma:458`), whatever is guaranteed; the web client shows the guarantee for a
  pool of 0 (`tournaments/page.tsx:41`). Two entries that overlap leave the pool one short
  until the next commit.
* Two `@Processor` classes on one queue each complete jobs of the other's names
  (`cron/processors/audit.processor.ts:6`, `stats.processor.ts:15`).
* `handNumber` is incremented by the script and again by the gateway
  (`game.gateway.ts:1822`); nothing at the table reads it.
* `referenceId` has millisecond resolution (`wallet.service.ts:232`), so two
  entries of one user in a millisecond collide.
* `waitlist.lua`'s pop has no caller; `sit_out_start` is never written, so the
  reaper's rule on absent players never fires; `forceSit` and `forceStand` write a
  field `seat` no script reads.
* A scene added between a rendering of the animation queue and its effect is
  overwritten by `queue: rest` (`useAnimationQueue.ts:84`, `:95`): it is not
  played, although "Never skip essential animations" (`:59`), and its picture
  stays on the screen. `clearAnimations`, which the comment says is "called by
  Safety Flush" (`MotionOrchestrator.tsx:137`), has no caller.
* The gateway's two listeners (`game.gateway.ts:230` and `:282`) call `connect()`
  on a duplicated client. ioredis, as locked in `package-lock.json`, connects a
  duplicate by itself and rejects a second `connect()`, so both may end in their
  catch blocks and the lockdown flag is then never set. The modules model the
  lockdown as the code means it to work: they allow it and its absence.
* The web client keeps no refresh token (`login/page.tsx:89`), so a refused
  access token always ends in a logout.

## 5. The proofs

TLC checks each property of section 3 on one small instance; the theorems below say
the same for every value of the constants, under these named assumptions, which the
runs evaluate:

| Module | Assumption | Why |
|---|---|---|
| SeatMath | `SeatsAssumption`: seats are among 0..9 | the scripts loop over ten seats |
| SidePots | `RakeAssumption`: a whole percentage up to 10, a cap | the form that creates tables |
| TableEngine | `StakesAssumption`: natural stakes, a positive big blind not below the small one; `RulesAssumption`, `BoundsAssumption`: types | `libs/shared/src/table.dto.ts:99` |
| MCHand | `StacksAssumption`: stacks are positive | `join_table.lua` seats nobody without chips |
| TableFlow | `FlowBounds`: room for at least one task and one timer | bounds of the model |
| MoneyFlow | `PlacesAssumption`, `AmountsAssumption`: finitely many users and seats, no negative amounts | DTO validation |
| Sessions | `UsersAssumption`, `PlacesAssumption`: a socket has one user; seats are numbers | the authenticated handshake |
| HandHistory | `HandsAssumption`: a hand is of one table | stream keys |
| Tournament | `EntrantsAssumption`, `PricesAssumption`: finitely many requests, each of one user; prices, fee and cap are natural | DTO validation |
| Orchestrator | `PicturesAssumption`: before the flop there are no board cards | `next_hand.lua` |
| PotSplit | `PotAssumption`: contributions, dead money and hand scores are natural | chips are counted; a score is above `bestScore = -1` (`showdown.lua`) |
| HandRanks | `DeckAssumption`: a card has a rank from 2 to 14 and one of four suits | `RANK_VALUES` and the suits of `handEvaluator.ts` |

### Each script at any table (TableEngineProofs)

* **`TypeCorrect`: `Spec => []TypeOK`.** `TypeOK` is inductive as it stands. It is
  proved with one lemma per script; the work is in the helpers: `NextOf` yields
  a seat of its set or `NoSeat` (the minimum of the clockwise offsets exists and
  lies in the set), sums and maxima of integer-valued functions are integers, and
  every member of `Payouts` is an integer-valued function of the seats.
* **`BettingConserves`: `Spec => BettingConservesChips`.** Stacks plus pot are
  unchanged by every bet, timeout and street. `TypeOK` is the invariant it
  needs. A move is split in two: *putting* chips moves the same amount from one
  stack to the pot, and *what follows* either pays the whole pot to the single
  player left, or refunds the uncalled parts out of the pot, or changes neither.
  The theorem covers raw clients, pot limit, the time bank and any stakes.
* **`BreaksRespected`: `Spec => BreakRespected`.** Only a deal raises
  `handNumber` (a lemma over all steps). In a deal, a record with a reason to stay
  out keeps that reason through the top-ups and the ghost protocol, and leaves the
  promotion pass sitting out with nothing contributed; the button and the blinds
  are searched among active players, the seat kicked at its big blind is one of
  them, so the record is neither charged nor dealt to.
* **`ScriptsImplementShell`: `Spec => ImplementsShell`.** Every script is a step of
  TableShell under the refinement mapping, or stutters. The invariant is
  `ShellInv == TypeOK /\ SeatsNeat`: an empty seat has no pending bench or sit-out
  flag. Without it an empty record could be swept into `sitting_out`, which the
  shell, where an empty seat has no flags, cannot do.

### Hands at a closed table (HandProofs)

`ClosedTable` is any number of hands with any stacks at any stakes, where nobody comes,
goes or asks for anything and bets are what the web client offers (`WebClient`); both
specifications that MCHand's runs use imply it (`RunsAreClosed`). Here are the theorems
that speak of what a seat has put in; those on chips, cards and turns hold at open tables
as well, under the conditions of the next part. The inductive invariant is

    HandInv == TypeOK /\ HandFacts(players, table) /\ DueFits /\ RoundBalanced

* `HandFacts`, of each seat and of the table: nothing is negative; who waits has
  chips; who holds cards is in the hand, and who is in it holds cards; nobody in the
  hand has bet more than the bet to call; before the flop who has no chips left has a
  bet that says why (a short blind stays `active` with nothing). The pot covers the
  bets of the players in the hand, and exceeds them from the flop on.
* `DueFits`, of `reply`, the phase and the number of players in the hand: a street,
  a showdown or a turn is due only to a table where there is one to turn, judge or
  take; between hands at most one player of the last one is left, with chips.

`Solvent` alone is not inductive: an uncalled bet is given back out of the pot, which is
solvent only if the pot covers *all* live bets, which a call keeps only if nobody
has bet more than the bet to call, which `next_hand.lua` establishes only if the sweep
leaves nobody in the hand with a bet. TLC checked `HandInv` at three seats with stacks
of 1, 3 and 4 over two hands (3.0 million states) before it was proved, one lemma per
script.

* **`StacksAndPotSolvent`, `RoundsCloseBalanced`, `TurnsAreLive`,
  `CardsAreForTheHand`** — `Solvent`, `RoundBalanced`, `TurnIsLive`, `CardsMatchHand` in
  every reachable state.
* **`AllInWinsItsShare`, `ShowdownsPayTheContested`** — `AllInCap`: a
  showdown pays nobody more than the others put in up to his own contribution; and
  `ShowdownPaysTheContested`: what it pays in all is what is contested, less rake and
  rounding. They rest on two lemmas of SidePotProofs about *every* pot, `PayoutCapped`
  and `PayoutTotal`: the slices of the layers telescope, by a least counterexample over
  the levels, since induction over the recursive loop itself is out of reach.
* **`NoHandMakesMoney`** — `NoMoneyMade`: what everybody owns, with pot and house,
  never grows. Sweeps change nobody's worth (stack plus pending top-up); a deal moves
  the blinds from two different stacks into the pot, where the old pot is
  overwritten; a showdown pays at most the net pot when the records do not exceed it,
  and the property sets apart the showdown where they do.
* **`RecordsMatchThePot`** — `PotIsContributions`, at a table where nobody raises on his
  time bank and nobody folds without chips before another hand: the two defects of
  `time_bank_raise` and `stale_contribution` are the *only* ways for the records and
  the pot to part. In the first hand the second cannot happen, so for
  `MaxHands = 1` the theorem holds of `PromptSpec`, which is what `hand_play` runs. Its
  invariant adds `RecordInv`: a record that is not zero belongs to a player who will be
  paid, judged or swept (`Tidy`), what is bet in a round is part of the record
  (`Recorded`: otherwise a refund, which stops at zero, takes less from the record than
  from the pot), and nobody is to act before the first deal (`FirstHand`).

### Tables whose players come and go (OpenProofs)

`OpenTable` is any number of hands between which, and in the middle of which, anybody may
take a seat, leave, sit out, buy chips, top up, drop off and return, and the reset
at boot may strike. All three specifications that TLC plays at a table imply it
(`RunsAreOpen`). The inductive invariant is

    OpenInv == TypeOK /\ OpenFacts(players, table) /\ DueHolds

* `OpenFacts`: each record is `Sound` (nothing negative; who is in the hand holds cards,
  and who holds cards is in it or between two hands), and the pot is what
  backs the bets of the players in the hand (`Backed`).
* `DueHolds`: what is still true of the street, showdown or turn that is due. A leave in
  mid-hand may take it all away: the turn stays on an empty seat or the street is due
  to a table with one player. So with leavers `TurnRests` is all that is known, and without
  them `TurnFits` and, for the web client's bets, `StreetFits`.

It is weaker than `HandInv` where players come and go, and its proof has one lemma per
script and request: bets and timeouts (`Moves`), streets and showdowns, the deal (whose
sweep, top-ups and blinds now find newcomers, leavers' gaps and offline records), and the
requests, which change one record (`Requested`) and keep it sound (`Passes`).

* **`OpenTableSolvent`** — `Solvent`, for any client and any requests.
* **`OpenTableCards`** — `CardsMatchHand`, for any client.
* **`OpenTurnsAreLive`, `OpenRoundsBalanced`** — `TurnIsLive` and `RoundBalanced`,
  if nobody leaves.
* **`OpenTableMakesNoMoney`** — `NoMoneyMade`, with leavers: what somebody takes along is
  what his seat and wallet lose; what he leaves in the pot is for the others.

Each hypothesis is there because TLC breaks the claim without it. `MaxActed = 0` says that
nobody bets between two hands, and `CardsApart` that clients do not both top up from the
vault and drop off (the first two counterexamples of section 4). `leave_table.lua` does not
pass the turn on, so with leavers `TurnIsLive` fails at once. A raw client may raise to less
than his own bet (`bet.lua:259`), which leaves a round unbalanced: `OpenRoundsBalanced` has
`WebClient`. So has `OpenTableMakesNoMoney`, but there the proof needs it (what a raw
client takes back from his bet is counted in his record): 3.8 million simulated states
without it broke nothing.

### The gateway, one event at a time (FlowProofs)

For any seats, requests, time banks and bounds, and any number of hands and requests, if
the gateway works on one event to its end before the next (`Overlap = FALSE`; timers and
jobs still come in any order) and nobody bets between hands (`act_between_hands` is not
among the requests; the web client offers no such bet). With overlapping events the claims are
not true: `double_start` breaks `DealsOverNothing`, and section 4 says what breaks the
clocks. The inductive invariant is

    FlowInv == FlowTypeOK /\ OneTask /\ (Quiet => FlowOK(Idle)) /\ \A i \in Busy : FlowOK(tasks[i])

`FlowOK(t)` says what holds while the function at work is at the await `t.at`, or none is:

* `HandOK` — what it found before its earlier awaits still holds: a deal still meets a
  table at rest, a judgement two players and a showdown, an `arm` no other job.
* `ClockOK` — who looks after the hand: the table (`Watched`: a street timer, or a job for a
  seat to act that can act), or the function itself, which is on its way to set a clock.
* `PotOK` — a pot at a table at rest is being settled, or an upset left it.
* `KeyOK` — the key names the one job there is.
* `StartOK` — a start is pending, or the function at work makes one, or fewer than two are
  ready.

None of the five properties is inductive: each holds at rest only, and what holds at an
await depends on which one it is. There is one lemma per request, per await and for the
firing of timers and jobs; TLC had checked `FlowInv` with two requests (4.5 million states)
before. Three lemmas serve all: a function begins (`BeginOne`), goes on (`GoesOn`) or ends
(`Ends`), and `Lands` reduces the invariant after the step to `FlowOK` of where it went.

* **`HandsAreWatched`, `OneJobWaits`, `StartsArePending`** — `ClockRuns`, `OneClock`,
  `StartPending` in every reachable state.
* **`NoPotIsDealtOver`, `PausesHold`** — `DealsOverNothing`, `PauseHolds` of every step.

### Money (SumProofs, MoneyProofs)

For any users, seats, amounts and number of handlers in flight. **`MoneyTyped`** is the
invariant `MoneyInv`: types, no negative amount but an administrator's, and what each
handler at each await still knows of its rows and its seat. From it:
**`WalletsNotOverdrawn`** (`NoOverdraft`), **`BooksTellBalances`** (`BooksBalance`: a
wallet changes as its ledger rows do), **`SessionsRefundedOnce`** (`RefundedOnce`,
with `RefsOK`: no two cash-outs name one session), and **`NobodysMoneyMoves`**
(`MoneyKept`, with `HoldsOK`: chips are given before they are paid for in a join or
a top-up only, and a closing administrator finds each seat once). The last is an
accounting proof: a player's worth is a sum over wallet, seats, jobs and handlers; every step moves an amount between two summands, or is one of
the named slips. **`AuditsAreRight`** (`AuditIsRight`) follows the audit from query to query: what it
has added up is the total of the queries it has asked, *as they would be answered now*, less
`missed` (`AuditOK`, kept by every step, `AuditSteps`). So at the decision it has the total
of all seven, less `missed`; and at rest that total is the players' surplus
(`TotalIsSurplus`): nothing is queued, carried or bet, a grant of the administrator is final
(`GrantsOK`), what each owner has, summed over the owners, is what there is
(`SumByOwner`), and four of the sums over rows are what all have paid in (`PoolAtRest`). SumProofs has the facts on `SumFunctionOnSet` and on sums over
sequences (append, tail, change at one place) it needs; the library proves none.

### Services (ServiceProofs)

* **`TourBooksBalance`, `CountersAreRight`** — `TourBooks` and `CountersMatch`, for
  any entrants, finitely many requests, any prices, fees and cap. The first is of wallets
  only: this code pays no prizes. The invariant adds what a request has read and
  may still rely on (`ReadsHold`), and that those who are in and those about to be
  are fewer than the cap and the requests together (`CapBound`).
* **`RakeCreditedOnce`** — `RakeOnce`. `HistInv` says that what is read, queued or being
  saved comes from a stream (`FromStreams`), and that there is a set of hands, one for
  each archived id, whose rake the house has (`RakeCredited`): two hands with
  one id are archived once and paid once.
* **`FlushOnlyAtRest`, `DisplayInOrder`** — `FlushIsIdle` and `ShownInOrder`. `OrchInv`:
  queue numbers are consecutive up to the last broadcast, exactly one animation is
  awaited while the display is busy, it is of the picture after the one shown, and it is
  over before the flush falls due.
* **`SocketsKeepToTheirSeats`, `OpenTabsAreOnline`** — `OwnSeatOnly` and
  `OnlineWhileHere`. `SessInv` is stronger than both: the session's seat, *and the seat a
  handler in flight is about to write into it*, is its user's unless the socket is
  orphaned; a socket that has not connected is known nowhere.
* **`SharesAreFair`, `PotsAreShown`** — `FairShare` and `PotsShown`, of any pot of natural
  contributions, dead money and hand values at up to ten seats. `showdown.lua` takes slice
  by slice what the reference takes layer by layer. The layers between two neighbouring
  levels have the same players, so a slice is the sum of its layers (`LevelByLevel`: a
  least counterexample over the levels; `SlicesOfLayers`), each winner's part of it is
  within the odd chips and the roundings (`FairPart`), and the parts add up over the levels.
  A part is compared as a multiple of 1/2520, which every number of winners up to ten divides.
  For the client, the layers that two survivors hold are the slices of two survivors
  (`ContestHolds`), and what folded players put in is spread over the levels as their
  contributions reach (`FullHolds`), the rest being dead money in the lowest pot (`DeadIs`).
* **`BestIsSaid`** — `SaysTheBest`, for any deck of ranks and suits. Five cards have one of
  six shapes (`Shapes`); with straights and flushes that makes nine kinds of hands, and
  each hand is of a kind `k` with a list of ranks `v`, for the browser (`SaidOf(k, v)`) as
  by the book (`BookOf(k, v)`): `HandIs`. The book's patterns order the kinds as the
  browser numbers them (`OtherKind`); within a kind both sides are decided by the first
  rank that differs (`SameKind`; `NumberOrder`: no digit carries into the one before it).
  So of any two hands one wins on both sides or they tie on both (`Decided`), and the best
  are the same (`SameBest`). The only invariant needed is that the cards come from the deck.

### Only model-checked

* Liveness under fairness, out of the prover's reach: `PotsArePaid`, `HandsEnd`,
  `HandsKept`, `OfflineLeaves`, `DisplayCatchesUp`, `ViewCatchesUp`, `ScenesPlay`.
* The gateway with overlapping events, where some of its promises fail.
* `PotIsContributions`, `AllInCap` and `ShowdownPaysTheContested` at tables whose players
  come and go: HandProofs has them for closed tables. `TurnIsLive` and `RoundBalanced`
  with leavers are not true.

## 6. What is left

In this order:

1. Theorems: `NoMoneyMade` for raw clients; the showdown's at open tables; what remains
   true of clocks and starts when events overlap.
2. TableFlow with two handlers in flight on an instance small enough to keep, and
   with leavers followed to the end.
3. Runs of TableEngine with `PotLimit = TRUE` and with raw clients; the deck and
   its exhaustion (ten seats of six cards).
4. The shuffle, the statistics written along with a hand, and how a table's
   settings reach Redis when they are edited before it is first opened.

### Not modelled

* **Wait list, table settings, Lua runner** — single commands on a list or flag;
  nothing pops the list, and no modelled script reads the flags during a hand.
* **Users, authentication, tokens, chat, notifications, e-mail, leaderboard,
  configuration, audit log, replayer, table CRUD, statistics** — requests that
  read or write rows of their own; nothing at a table depends on the result.
* **Admin: force-sit, force-stand** — they write a field of the seat's record
  that no script reads.
* **The rest of the browser** — pages, forms, panels, sounds and layout:
  they render what the server says. These, with the CRUD above, are
  the bulk of the TypeScript, and have no state a model would tell apart; the
  map covers about a tenth of it, and nearly all of the Lua the table is made of.
* **The shuffle and the library's comparison of hands** — a permutation of a deck
  the model does not hold, and third-party code.
* One-off repair scripts, generated code and build output.

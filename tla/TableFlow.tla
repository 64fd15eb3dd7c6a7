----------------------------- MODULE TableFlow ------------------------------
(***************************************************************************)
(* The gateway around one table: game.gateway.ts, timer.service.ts and     *)
(* turn-timer.processor.ts.  The scripts are those of TableShell; between  *)
(* two of them the gateway awaits, and other work may come in between.     *)
(*                                                                         *)
(* A task is an asynchronous function at one of its awaits: at names what  *)
(* it does next, seat and answer are the values it carries from before.    *)
(* timers are Node's timeouts, of which autoAdvanceTimers remembers the    *)
(* last one that was stored (slot); jobs are BullMQ's delayed jobs, of     *)
(* which the key timer:job:{table} remembers one.                          *)
(***************************************************************************)
EXTENDS TableShell, Sequences, SequencesExt

CONSTANTS
    Requests,       \* what clients do in this instance
    Overlap,        \* does a new event begin while another is being worked on
    Banks,          \* the seats with a time bank
    MaxHands,       \* bound: hands dealt
    MaxBets,        \* bound: bets of a street that leave it open
    MaxTasks,       \* bound: functions in flight
    MaxTimers       \* bound: nothing new begins while that many timers wait

ASSUME FlowBounds == MaxTasks \in Nat \ {0} /\ MaxTimers \in Nat \ {0}

VARIABLES
    tasks,          \* the functions in flight, one record per slot
    timers,         \* Node timers that have not fired, in the order they were set
    slot,           \* the timer autoAdvanceTimers holds for the table, or NoTimer
    jobs,           \* turn-timeout jobs that have not fired
    key,            \* the job the table's key names, or NoTimer
    bets,           \* bets since the street began
    aside,          \* seats benched or asked to sit out when the next hand is dealt
    lnbb,           \* seats that leave on their next big blind
    banks,          \* seats that can still extend their time
    lockdown,       \* maintenanceLockdown
    upsets          \* history: what went wrong since the last deal

flow == <<tasks, timers, slot, jobs, key, bets, aside, lnbb, banks, lockdown, upsets>>
others == <<bets, aside, lnbb, banks, lockdown, upsets>>
flowVars == <<shell, flow>>

NoTimer == 0
Idle == [at |-> "idle", seat |-> NoSeat, answer |-> "none", by |-> "none", kicked |-> NoSeat]
\* Seconds.  "advance" turns the next street of a run-out; the others start a hand:
\* after a hand ("celebrate"), one without hands to compare ("fallback"), a failed
\* showdown ("recover"), a hand that a time-out ended ("resume"), or a seat request
\* ("auto").
Delay == [advance |-> 2, celebrate |-> 15, fallback |-> 3, recover |-> 5, resume |-> 5,
          auto |-> 1]

(***************************************************************************)
(* Tasks, timers and jobs.                                                 *)
(***************************************************************************)
Busy == {i \in 1..MaxTasks : tasks[i] # Idle}
Quiet == Busy = {}

LeastOf(S) == CHOOSE n \in S : \A m \in S : n <= m

Task(at, seat, answer, by) ==
    [at |-> at, seat |-> seat, answer |-> answer, by |-> by, kicked |-> NoSeat]

Begin(task) ==
    /\ Cardinality(Busy) < MaxTasks
    /\ tasks' = [tasks EXCEPT ![LeastOf((1..MaxTasks) \ Busy)] = task]

Go(i, at, seat) ==
    tasks' = [tasks EXCEPT ![i].at = at, ![i].seat = seat, ![i].answer = "none"]

GoKicking(i, seat, kicked) ==
    tasks' = [tasks EXCEPT ![i].at = "clock", ![i].seat = seat, ![i].kicked = kicked]

End(i) == tasks' = [tasks EXCEPT ![i] = Idle]

FreeId(used, kept) == LeastOf((1..MaxTimers + 1) \ ({t.id : t \in used} \cup {kept}))

SetTimeout(kind, id) ==
    /\ id <= MaxTimers
    /\ timers' = Append(timers, [id |-> id, kind |-> kind])

\* The timer is stored under the table; one stored before runs on.
ArmTracked(kind) ==
    /\ SetTimeout(kind, FreeId(ToSet(timers), slot))
    /\ slot' = FreeId(ToSet(timers), slot)

\* The timer is not stored anywhere.
ArmBare(kind) ==
    /\ SetTimeout(kind, FreeId(ToSet(timers), slot))
    /\ UNCHANGED slot

\* The stored timer is cleared; it may have fired.
ClearTimeout ==
    \/ \E n \in DOMAIN timers : timers[n].id = slot /\ timers' = RemoveAt(timers, n)
    \/ (\A n \in DOMAIN timers : timers[n].id # slot) /\ UNCHANGED timers

\* The job stays although its key is deleted.
BuggyCancelled == jobs

\* timer.service.ts cancelTimeout: the job the key names is removed.
Cancelled == {j \in jobs : j.id # key}

CancelTimeout == jobs' = Cancelled /\ key' = NoTimer

(***************************************************************************)
(* What clients send.                                                      *)
(***************************************************************************)
MayBegin == Overlap \/ Quiet

Room == Len(timers) < MaxTimers

MayAsk(request) == request \in Requests /\ MayBegin /\ Room

\* handleAction, up to bet.lua; the rest of it is Stop and what follows.  The script
\* does not look at the phase; the web client offers no action between hands.
Act(s) ==
    /\ MayAsk("act")
    /\ phase \in Streets \cup {"paused"} \/ "act_between_hands" \in Requests
    /\ ~lockdown
    /\ \E to \in {"active", "folded", "all-in"}, answer \in {"complete", "street", "play"} :
          /\ BetScript(s, to, answer)
          /\ pot' = (answer # "complete")
          /\ answer = "play" => bets < MaxBets
          /\ bets' = IF answer = "play" THEN bets + 1 ELSE bets
          /\ Begin(Task("stop", turnSeat', answer, "none"))
    /\ UNCHANGED <<timers, slot, jobs, key, aside, lnbb, banks, lockdown, upsets>>

\* bet.lua answers a player who is not to act that it is not his turn.
ActOutOfTurn(s) ==
    /\ MayAsk("act_out_of_turn")
    /\ ~lockdown
    /\ standing[s] # "empty"
    /\ turnSeat # s \/ standing[s] # "active"
    /\ Begin(Task("stop", NoSeat, "refused", "none"))
    /\ upsets' = upsets \cup {"refused"}
    /\ UNCHANGED <<shell, timers, slot, jobs, key, bets, aside, lnbb, banks, lockdown>>

\* Seats that leave_table.lua and toggle_sit_out.lua count as active.
Counted(st) == Standing(st, Standings \ {"empty", "out"})

\* After a seat request a hand is started a second later if the table looks idle.
MayAutoStart ==
    IF phase' = "waiting" /\ Cardinality(Counted(standing')) >= 2
      THEN ArmBare("auto") ELSE UNCHANGED <<timers, slot>>

\* handleLeaveTable clears the table's timer before it runs the script.
AskToLeave(s) ==
    /\ MayAsk("leave")
    /\ standing[s] # "empty"
    /\ ClearTimeout
    /\ slot' = NoTimer
    /\ Begin(Task("leave", s, "none", "none"))
    /\ upsets' = IF phase = "waiting" THEN upsets ELSE upsets \cup {"left"}
    /\ UNCHANGED <<shell, jobs, key, bets, aside, lnbb, banks, lockdown>>

\* The sit-out sweeper: the seat still rests when its bank is used up.
SweepOut(s) ==
    /\ MayAsk("sweep")
    /\ standing[s] = "out"
    /\ Begin(Task("leave", s, "none", "none"))
    /\ UNCHANGED <<shell, timers, slot, jobs, key, others>>

\* handleLeaveTable and forceStandUp from leave_table.lua on.
LeaveTable(i) ==
    LET s == tasks[i].seat
    IN  /\ tasks[i].at = "leave"
        /\ \/ /\ standing[s] = "empty"
              /\ UNCHANGED <<shell, timers, slot, aside, lnbb>>
           \/ /\ LeaveScript(s)
              /\ MayAutoStart
              /\ aside' = aside \ {s}
              /\ lnbb' = lnbb \ {s}
        /\ End(i)
        /\ UNCHANGED <<jobs, key, bets, banks, lockdown, upsets>>

\* Does the player at seat s hold cards?  Who is in a hand does; outside of one an active
\* seat has them if the hand they were dealt for was written over (Pause, Reopen).
HoldsCards(s) ==
    IF standing[s] \notin {"active", "all-in"} THEN {FALSE}
    ELSE IF phase \in Streets \cup {"showdown"} THEN {TRUE} ELSE BOOLEAN

\* handleToggleSitOut: with cards in hand only the flag changes.
ToggleSitOut(s) ==
    /\ MayAsk("sit_out")
    /\ standing[s] \in Standings \ {"empty", "parked"}
    /\ \E holds \in HoldsCards(s) :
          /\ StandScript(s, IF holds THEN standing[s]
                            ELSE IF standing[s] = "out" THEN "waiting" ELSE "out")
          /\ aside' = IF ~holds THEN aside
                      ELSE IF s \in aside THEN aside \ {s} ELSE aside \cup {s}
    /\ MayAutoStart
    /\ UNCHANGED <<tasks, jobs, key, bets, lnbb, banks, lockdown, upsets>>

\* handleToggleLNBB.
ToggleLNBB(s) ==
    /\ MayAsk("leave_next_bb")
    /\ standing[s] # "empty"
    /\ lnbb' = IF s \in lnbb THEN lnbb \ {s} ELSE lnbb \cup {s}
    /\ UNCHANGED <<shell, tasks, timers, slot, jobs, key, bets, aside, banks, lockdown, upsets>>

\* handleAddChips, from a seat that rests: it counts who waits or plays.
AddChips(s) ==
    /\ MayAsk("add_chips")
    /\ ~lockdown
    /\ standing[s] \in {"out", "waiting"}
    /\ StandScript(s, "waiting")
    /\ IF phase = "waiting" /\ Cardinality(Standing(standing', {"active", "waiting"})) >= 2
         THEN ArmBare("auto") ELSE UNCHANGED <<timers, slot>>
    /\ UNCHANGED <<tasks, jobs, key, others>>

\* handleConnection: set_online brings the player back, and nothing is started.
ComeBack(s) ==
    /\ MayAsk("reconnect")
    /\ standing[s] = "out"
    /\ StandScript(s, "waiting")
    /\ upsets' = upsets \cup {"online"}
    /\ UNCHANGED <<tasks, timers, slot, jobs, key, bets, aside, lnbb, banks, lockdown>>

\* handleJoinTable: the second player who is ready starts a hand in the same handler.
JoinTable(s) ==
    LET starts == phase = "waiting"
                  /\ Cardinality(Counted([standing EXCEPT ![s] = "waiting"])) >= 2
    IN  /\ MayAsk("join")
        /\ ~lockdown
        /\ JoinScript(s, starts)
        /\ IF starts THEN Begin(Task("start", NoSeat, "none", "none")) ELSE UNCHANGED tasks
        /\ UNCHANGED <<timers, slot, jobs, key, others>>

\* The admin's pause is written over the phase of the hand (updateTableConfig,
\* updateStatus); no script knows it, and none but next_street.lua minds.
Pause ==
    /\ MayAsk("pause")
    /\ phase' = "paused"
    /\ upsets' = upsets \cup {"paused"}
    /\ UNCHANGED <<turnSeat, standing, pot, hands, tasks, timers, slot, jobs, key>>
    /\ UNCHANGED <<bets, aside, lnbb, banks, lockdown>>

\* A table resumed is a table at rest, whatever was going on when it was paused, and
\* nothing is started.
Resume ==
    /\ MayBegin
    /\ phase = "paused"
    /\ phase' = "waiting"
    /\ UNCHANGED <<turnSeat, standing, pot, hands, flow>>

\* updateStatus makes the table one at rest whatever it is doing, and starts nothing.  The
\* route is there; the web admin does not use it.
Reopen ==
    /\ MayAsk("reopen")
    /\ phase' = "waiting"
    /\ upsets' = upsets \cup {"paused"}
    /\ UNCHANGED <<turnSeat, standing, pot, hands, tasks, timers, slot, jobs, key>>
    /\ UNCHANGED <<bets, aside, lnbb, banks, lockdown>>

\* system:maintenance and system:maintenance:lift.
Maintenance ==
    /\ MayAsk("maintenance")
    /\ lockdown' = ~lockdown
    /\ UNCHANGED <<shell, tasks, timers, slot, jobs, key, bets, aside, lnbb, banks, upsets>>

(***************************************************************************)
(* handleAction and the turn-timer processor after their scripts.          *)
(***************************************************************************)
\* The next player's clock is forgotten.
BuggyStop(i) ==
    /\ tasks[i].at = "stop"
    /\ IF tasks[i].answer = "street" THEN Go(i, "advance", NoSeat) ELSE End(i)
    /\ IF tasks[i].answer = "complete" THEN ArmTracked("celebrate") ELSE UNCHANGED <<timers, slot>>
    /\ CancelTimeout
    /\ UNCHANGED <<shell, others>>

\* The turn timer is stopped whether or not the bet was accepted.
Stop(i) ==
    /\ tasks[i].at = "stop"
    /\ CancelTimeout
    /\ \/ /\ tasks[i].answer = "refused"
          /\ End(i)
          /\ UNCHANGED <<timers, slot>>
       \/ /\ tasks[i].answer = "complete"
          /\ ArmTracked("celebrate")
          /\ End(i)
       \/ /\ tasks[i].answer = "street"
          /\ Go(i, "advance", NoSeat)
          /\ UNCHANGED <<timers, slot>>
       \/ /\ tasks[i].answer = "play"
          /\ Go(i, "clock", tasks[i].seat)
          /\ UNCHANGED <<timers, slot>>
    /\ UNCHANGED <<shell, others>>

\* scheduleTimeout: cancel what the key names, then add a job and name that one.
Clock(i) ==
    /\ tasks[i].at = "clock"
    /\ CancelTimeout
    /\ Go(i, "arm", tasks[i].seat)
    /\ UNCHANGED <<shell, timers, slot, others>>

Arm(i) ==
    LET id == FreeId(jobs, key)
    IN  /\ tasks[i].at = "arm"
        /\ id <= MaxTimers
        /\ jobs' = jobs \cup {[id |-> id, seat |-> tasks[i].seat]}
        /\ key' = id
        /\ IF tasks[i].kicked = NoSeat THEN End(i)
           ELSE tasks' = [tasks EXCEPT ![i] = Task("leave", tasks[i].kicked, "none", "none")]
        /\ UNCHANGED <<shell, timers, slot, others>>

\* The worker takes the next job when it is done with the last one.
JobFires(j) ==
    /\ MayBegin /\ Room
    /\ \A i \in Busy : tasks[i].by # "job"
    /\ jobs' = jobs \ {j}
    /\ Begin(Task("expire", j.seat, "none", "job"))
    /\ UNCHANGED <<shell, timers, slot, key, others>>

Expire(i) ==
    /\ tasks[i].at = "expire"
    /\ IF turnSeat = tasks[i].seat THEN Go(i, "fine", tasks[i].seat) ELSE End(i)
    /\ UNCHANGED <<shell, timers, slot, jobs, key, others>>

\* timeout.lua and what the worker does with its answer: it refuses, it gives the
\* player his time bank, or it folds him.
Fine(i) ==
    LET s == tasks[i].seat
    IN  /\ tasks[i].at = "fine"
        /\ UNCHANGED <<jobs, key, bets, lnbb, lockdown, upsets>>
        /\ \/ /\ turnSeat # s \/ standing[s] = "empty"
              /\ End(i)
              /\ UNCHANGED <<shell, timers, slot, aside, banks>>
           \/ /\ s \in banks
              /\ TimeoutScript(s, "extended")
              /\ banks' = banks \ {s}
              /\ Go(i, "clock", s)
              /\ UNCHANGED <<timers, slot, aside>>
           \/ /\ s \notin banks
              /\ \E answer \in {"complete", "street", "play"} :
                    /\ TimeoutScript(s, answer)
                    /\ answer # "complete" => pot' = pot
                    /\ IF answer = "complete" THEN End(i) /\ ArmBare("resume")
                       ELSE /\ UNCHANGED <<timers, slot>>
                            /\ IF answer = "street" THEN Go(i, "advance", NoSeat)
                                                    ELSE Go(i, "clock", turnSeat')
              /\ aside' = aside \cup {s}
              /\ UNCHANGED banks

(***************************************************************************)
(* advanceStreet and handleShowdown: each reads the phase, then runs its   *)
(* script.                                                                 *)
(***************************************************************************)
Advance(i) ==
    /\ tasks[i].at = "advance"
    /\ IF phase = "waiting" THEN End(i) /\ slot' = NoTimer
                            ELSE Go(i, "turn", NoSeat) /\ UNCHANGED slot
    /\ UNCHANGED <<shell, timers, jobs, key, others>>

\* The run-out of a table without bettors is forgotten.
BuggyTurn(i) ==
    /\ tasks[i].at = "turn"
    /\ \E answer \in Answers :
          /\ NextStreetScript(answer)
          /\ IF answer = "showdown" THEN Go(i, "judge", NoSeat)
             ELSE IF answer = "play" THEN Go(i, "clock", turnSeat') ELSE End(i)
    /\ bets' = 0
    /\ UNCHANGED <<timers, slot, jobs, key, aside, lnbb, banks, lockdown, upsets>>

Turn(i) ==
    /\ tasks[i].at = "turn"
    /\ \/ /\ phase \notin Streets                           \* the script refuses
          /\ End(i)
          /\ UNCHANGED <<shell, timers, slot, bets>>
       \/ /\ \/ /\ NextStreetScript("showdown")
                /\ Go(i, "judge", NoSeat)
                /\ UNCHANGED <<timers, slot>>
             \/ /\ NextStreetScript("runout")
                /\ End(i)
                /\ ArmTracked("advance")
             \/ /\ NextStreetScript("play")
                /\ Go(i, "clock", turnSeat')
                /\ UNCHANGED <<timers, slot>>
          /\ bets' = 0
    /\ UNCHANGED <<jobs, key, aside, lnbb, banks, lockdown, upsets>>

Judge(i) ==
    /\ tasks[i].at = "judge"
    /\ \/ phase # "showdown" /\ End(i) /\ UNCHANGED <<timers, slot>>
       \/ /\ phase = "showdown" /\ Live(standing) = {}
          /\ End(i)
          /\ ArmTracked("fallback")
       \/ /\ phase = "showdown" /\ Live(standing) # {}
          /\ Go(i, "settle", NoSeat)
          /\ UNCHANGED <<timers, slot>>
    /\ UNCHANGED <<shell, jobs, key, others>>

\* Players who were all-in may be broke afterwards.
Settle(i) ==
    /\ tasks[i].at = "settle"
    /\ \E broke \in SUBSET Standing(standing, {"all-in"}) :
          /\ Live(standing) \ broke # {} \/ Live(standing) = {}
          /\ ShowdownScript(broke)
    /\ ArmTracked("celebrate")
    /\ End(i)
    /\ UNCHANGED <<jobs, key, others>>

\* An error on the way to the script: a new hand is tried all the same.
SettleFails(i) ==
    /\ "fail" \in Requests
    /\ tasks[i].at = "settle"
    /\ ArmTracked("recover")
    /\ End(i)
    /\ upsets' = upsets \cup {"failed"}
    /\ UNCHANGED <<shell, jobs, key, bets, aside, lnbb, banks, lockdown>>

(***************************************************************************)
(* Timers, and startNewHand: it reads the phase, and deals after more      *)
(* awaits.  A timer fires after those set before it with a shorter delay.  *)
(***************************************************************************)
TimerFires(n) ==
    LET t == timers[n]
    IN  /\ MayBegin
        /\ \A m \in 1..(n - 1) : Delay[timers[m].kind] > Delay[t.kind]
        /\ timers' = RemoveAt(timers, n)
        /\ slot' = IF t.kind \notin {"resume", "auto"} THEN NoTimer ELSE slot
        /\ Begin(Task(IF t.kind = "advance" THEN "advance" ELSE "start",
                      NoSeat, "none", "none"))
        /\ UNCHANGED <<shell, jobs, key, others>>

\* No phase guard at all.
UnguardedStart(i) ==
    /\ tasks[i].at = "start"
    /\ Go(i, "deal", NoSeat)
    /\ UNCHANGED <<shell, timers, slot, jobs, key, others>>

\* The phase guard without the phase a hand won by folds leaves behind.
BuggyStart(i) ==
    /\ tasks[i].at = "start"
    /\ IF phase = "waiting" THEN Go(i, "deal", NoSeat) ELSE End(i)
    /\ UNCHANGED <<shell, timers, slot, jobs, key, others>>

Start(i) ==
    /\ tasks[i].at = "start"
    /\ IF phase \in {"waiting", "showdown"} THEN Go(i, "deal", NoSeat) ELSE End(i)
    /\ UNCHANGED <<shell, timers, slot, jobs, key, others>>

\* next_hand.lua sets aside who sits out; the big blind who wanted to leave on it is
\* sent off by forceStandUp, for which nobody waits.
Deal(i) ==
    /\ tasks[i].at = "deal"
    /\ hands < MaxHands
    /\ \E kicked \in {NoSeat} \cup ((lnbb \cap Dealable) \ aside) :
          LET stay == Dealable \ (aside \cup {kicked})
              asides == [s \in Seats |-> IF s = kicked THEN "parked"
                                         ELSE IF s \in aside \cap Dealable THEN "out"
                                         ELSE standing[s]]
          IN  /\ kicked # NoSeat => Cardinality(Dealable \ aside) >= 2
              /\ \/ /\ NextHandScript(stay, asides, "few")
                    /\ IF kicked = NoSeat THEN End(i) ELSE Go(i, "leave", kicked)
                    /\ UNCHANGED upsets
                 \/ /\ NextHandScript(stay, asides, "dealt")
                    /\ pot'
                    /\ GoKicking(i, turnSeat', kicked)
                    /\ upsets' = {}
              /\ lnbb' = lnbb \ {kicked}
    /\ bets' = 0
    /\ aside' = {}
    /\ UNCHANGED <<timers, slot, jobs, key, banks, lockdown>>

(***************************************************************************)
(* The specification.                                                      *)
(***************************************************************************)
ClientNext ==
    \/ \E s \in Seats :
          \/ ActOutOfTurn(s)
          \/ AskToLeave(s)
          \/ SweepOut(s)
          \/ ToggleSitOut(s)
          \/ ToggleLNBB(s)
          \/ AddChips(s)
          \/ ComeBack(s)
          \/ JoinTable(s)
    \/ Maintenance
    \/ Pause
    \/ Reopen

TaskNext(i) ==
    \/ Stop(i)
    \/ Clock(i)
    \/ Arm(i)
    \/ Expire(i)
    \/ Fine(i)
    \/ Advance(i)
    \/ Turn(i)
    \/ Judge(i)
    \/ Settle(i)
    \/ SettleFails(i)
    \/ Start(i)
    \/ Deal(i)
    \/ LeaveTable(i)

GatewayNext ==
    \/ \E s \in Seats : Act(s)
    \/ \E i \in 1..MaxTasks : TaskNext(i)
    \/ \E n \in DOMAIN timers : TimerFires(n)
    \/ \E j \in jobs : JobFires(j)

FlowNext == ClientNext \/ GatewayNext \/ Resume

\* The players of the first hand have sat down and its start is pending.
FlowInit ==
    /\ phase = "waiting"
    /\ turnSeat = NoSeat
    /\ standing \in [Seats -> {"empty", "waiting"}]
    /\ pot = FALSE
    /\ hands = 0
    /\ tasks = [i \in 1..MaxTasks |-> Idle]
    /\ timers = IF Cardinality(Counted(standing)) >= 2
                  THEN <<[id |-> 1, kind |-> "auto"]>> ELSE <<>>
    /\ slot = NoTimer
    /\ jobs = {}
    /\ key = NoTimer
    /\ bets = 0
    /\ aside = {}
    /\ lnbb = {}
    /\ banks = Banks
    /\ lockdown = FALSE
    /\ upsets = {}

\* The event loop goes on with the functions in flight, and timers and jobs fire,
\* however often clients come first; nothing is assumed of the clients.
FlowFairness ==
    /\ WF_flowVars(\E i \in 1..MaxTasks : TaskNext(i))
    /\ SF_flowVars(\E n \in DOMAIN timers : TimerFires(n))
    /\ SF_flowVars(\E j \in jobs : JobFires(j))

FlowSpec == FlowInit /\ [][FlowNext]_flowVars /\ FlowFairness
=============================================================================

----------------------------- MODULE FlowProofs -----------------------------
(***************************************************************************)
(* The gateway around a table, one event worked on at a time               *)
(* (Overlap = FALSE): the safety properties of FlowProps, about            *)
(* clocks, deals and pauses, for any seats, requests and bounds.           *)
(***************************************************************************)
EXTENDS FlowProps, SidePotProofs

(***************************************************************************)
(* The inductive invariant.                                                *)
(***************************************************************************)
Phases == {"waiting", "showdown", "paused"} \cup Streets
SeatOrNone == Seats \cup {NoSeat}
Ats == {"idle", "stop", "clock", "arm", "expire", "fine", "advance", "turn", "judge", "settle",
        "start", "deal", "leave"}
TaskType == [at : Ats, seat : SeatOrNone, answer : {"none", "refused", "complete", "street", "play"},
             by : {"none", "job"}, kicked : SeatOrNone]
Ids == 1..MaxTimers
TimerType == [id : Ids, kind : DOMAIN Delay]

\* The types; hands and lockdown, which no argument below looks at, are left out.
FlowTypeOK ==
    /\ phase \in Phases
    /\ turnSeat \in SeatOrNone
    /\ standing \in [Seats -> Standings]
    /\ pot \in BOOLEAN
    /\ tasks \in [1..MaxTasks -> TaskType]
    /\ timers \in Seq(TimerType)
    /\ slot \in Ids \cup {NoTimer}
    /\ \A j \in jobs : j.seat \in Seats

OneTask == \A i, j \in Busy : i = j

\* The pot may be left unpaid; the clock may be lost; a start may be forgotten.
Unpaid == upsets \cap {"failed", "left", "paused"} # {}
Lost == upsets \cap {"left", "refused"} # {}
Astray == upsets \cap {"left", "online", "paused"} # {}

\* Two players are left in the hand.
Rivals == \E r, s \in Live(standing) : r # s

\* The street will be turned, a hand will be started; the seat to act can; somebody
\* watches the hand.
Advancing == \E n \in DOMAIN timers : timers[n].kind = "advance"
MayMove == turnSeat \in Seats /\ standing[turnSeat] = "active"
Starting == \E n \in DOMAIN timers : timers[n].kind # "advance"
Watched == Advancing \/ (MayMove /\ \E j \in jobs : j.seat = turnSeat)

\* What the one handler at work (t, or Idle) found when it began still holds at its later
\* awaits.
HandOK(t) ==
    /\ t.at = "deal" => phase \in {"waiting", "showdown"}
    /\ t.at \in {"judge", "settle"} => phase = "showdown"
    /\ t.at = "judge" => "left" \in upsets \/ Rivals
    /\ t.at = "stop" => t.answer \in {"refused", "complete", "street", "play"}
    /\ t.at = "arm" => jobs = {}
    /\ t.at \in {"clock", "arm", "expire", "fine"} => t.seat \in Seats
    /\ t.at = "stop" /\ t.answer = "play" => t.seat \in Seats
    /\ t.at = "leave" => /\ t.seat \in Seats /\ standing[t.seat] # "empty"
                         /\ \/ phase = "waiting" \/ "left" \in upsets
                            \/ standing[t.seat] \in {"out", "parked"}
    /\ t.kicked # NoSeat => t.at \in {"clock", "arm"} /\ standing[t.kicked] = "parked"

\* While a hand is played the handler at work will set the clock, or it runs.
ClockOK(t) ==
    phase \in Streets /\ ~Lost =>
        /\ t.at \in {"idle", "start", "leave"} => Watched
        /\ t.at = "stop" => /\ t.answer # "complete"
                            /\ t.answer = "refused" => "refused" \in upsets
                            /\ t.answer = "play" => t.seat = turnSeat /\ MayMove
        /\ t.at \in {"clock", "arm"} => Advancing \/ (t.seat = turnSeat /\ MayMove)
        /\ t.at \in {"expire", "fine"} => Watched \/ (t.seat = turnSeat /\ MayMove)

\* A pot that stands when nothing is played is being settled, or was left by an upset.
PotOK(t) ==
    /\ phase = "waiting" /\ pot => Unpaid
    /\ phase = "showdown" /\ pot => Unpaid \/ t.at \in {"judge", "settle"}
    /\ phase = "paused" => "paused" \in upsets
    /\ phase \in Streets => "left" \in upsets \/ Rivals

\* The key names the one job there is.
KeyOK == \A j \in jobs : j.id = key

\* While none is played a start is pending, or the handler at work makes one or arms it.
StartOK(t) ==
    phase \in {"waiting", "showdown"} /\ ~Astray =>
        \/ Starting
        \/ phase = "waiting" /\ Cardinality(Ready) < 2
        \/ t.at \in {"start", "deal", "judge", "settle"}
        \/ t.at = "stop" /\ t.answer = "complete"
        \/ t.at = "leave" /\ phase = "waiting"

FlowOK(t) == HandOK(t) /\ ClockOK(t) /\ PotOK(t) /\ KeyOK /\ StartOK(t)

FlowInv ==
    /\ FlowTypeOK
    /\ OneTask
    /\ Quiet => FlowOK(Idle)
    /\ \A i \in Busy : FlowOK(tasks[i])

(***************************************************************************)
(* One event at a time, from clients that act while a hand is played.      *)
(***************************************************************************)
OneAtATime == Overlap = FALSE /\ "act_between_hands" \notin Requests

\* After a step the handler at work is t, or none when t is Idle.
Becomes(t) ==
    /\ tasks' \in [1..MaxTasks -> TaskType]
    /\ OneTask'
    /\ \A i \in Busy' : tasks'[i] = t
    /\ t # Idle => ~Quiet'

(***************************************************************************)
(* Tasks.                                                                  *)
(***************************************************************************)
LEMMA IdleType == Idle \in TaskType
BY DEF Idle, TaskType, Ats, SeatOrNone

LEMMA TaskIs ==
    ASSUME NEW at \in Ats, NEW seat \in SeatOrNone,
           NEW answer \in {"none", "refused", "complete", "street", "play"},
           NEW by \in {"none", "job"}
    PROVE  Task(at, seat, answer, by) \in TaskType
BY DEF Task, TaskType, SeatOrNone

\* The invariant holds after a step that leaves it of the handler then at work.
LEMMA Lands ==
    ASSUME NEW t, Becomes(t), FlowTypeOK', FlowOK(t)'
    PROVE  FlowInv'
<1>1. ASSUME Quiet'
      PROVE  FlowOK(Idle)'
  <2>1. t = Idle
    BY <1>1 DEF Becomes
  <2> QED
    BY <2>1
<1>2. \A i \in Busy' : FlowOK(tasks[i])'
  <2> SUFFICES ASSUME NEW i \in Busy'
               PROVE  FlowOK(tasks[i])'
    OBVIOUS
  <2>1. tasks'[i] = t
    BY DEF Becomes
  <2> QED
    BY <2>1 DEF FlowOK, HandOK, ClockOK, PotOK, StartOK
<1> QED
  BY <1>1, <1>2 DEF Becomes, FlowInv

\* A task begun at rest is the only one.
LEMMA BeginOne ==
    ASSUME FlowTypeOK, Quiet, NEW t \in TaskType, Begin(t)
    PROVE  Becomes(t)
<1>1. MaxTasks \in Nat /\ MaxTasks > 0
  <2>1. Cardinality(Busy) = 0
    BY FS_EmptySet DEF Quiet
  <2> QED
    BY <2>1, FlowBounds DEF Begin
<1>2. PICK k : k = LeastOf((1..MaxTasks) \ Busy)
  OBVIOUS
<1>3. k \in 1..MaxTasks
  <2>1. 1 \in 1..MaxTasks /\ \A m \in 1..MaxTasks : 1 <= m
    BY <1>1
  <2>2. (1..MaxTasks) \ Busy = 1..MaxTasks
    BY DEF Quiet
  <2> QED
    BY <1>2, <2>1, <2>2 DEF LeastOf
<1>4. tasks' = [tasks EXCEPT ![k] = t]
  BY <1>2 DEF Begin
<1>5. \A i \in 1..MaxTasks : tasks[i] = Idle
  BY DEF Quiet, Busy
<1>6. tasks \in [1..MaxTasks -> TaskType]
  BY DEF FlowTypeOK
<1> QED
  BY <1>3, <1>4, <1>5, <1>6 DEF Becomes, OneTask, Quiet, Busy

\* The handler at work goes on as t.
LEMMA OneGoesOn ==
    ASSUME FlowTypeOK, OneTask, NEW i \in Busy, NEW t \in TaskType, tasks' = [tasks EXCEPT ![i] = t]
    PROVE  Becomes(t)
<1>1. \A k \in 1..MaxTasks : k # i => tasks[k] = Idle
  BY DEF OneTask, Busy
<1>2. i \in 1..MaxTasks /\ tasks \in [1..MaxTasks -> TaskType]
  BY DEF FlowTypeOK, Busy
<1> QED
  BY <1>1, <1>2 DEF Becomes, OneTask, Quiet, Busy

\* Nothing begins, and nothing was at work.
LEMMA StillQuiet ==
    ASSUME FlowTypeOK, Quiet, UNCHANGED tasks
    PROVE  Becomes(Idle)
BY DEF FlowTypeOK, Becomes, OneTask, Quiet, Busy

(***************************************************************************)
(* Timers.                                                                 *)
(***************************************************************************)
LEMMA FreeIdType ==
    ASSUME FlowTypeOK
    PROVE  FreeId(ToSet(timers), slot) \in 1..(MaxTimers + 1)
<1>1. PICK used : used = {t.id : t \in ToSet(timers)} \cup {slot}
  OBVIOUS
<1>2. used \in SUBSET (Ids \cup {NoTimer})
  <2>1. timers \in Seq(TimerType)
    BY DEF FlowTypeOK
  <2>2. \A t \in ToSet(timers) : t \in TimerType
    BY <2>1 DEF ToSet
  <2> QED
    BY <1>1, <2>2 DEF FlowTypeOK, TimerType
<1>3. PICK free : free = (1..(MaxTimers + 1)) \ used
  OBVIOUS
<1>4. MaxTimers + 1 \in free /\ free \in SUBSET Nat
  BY <1>2, <1>3, FlowBounds DEF Ids, NoTimer
<1>5. \E m \in free : \A n \in free : m <= n
  BY <1>4, LeastElement
<1>6. LeastOf(free) \in free
  BY <1>5 DEF LeastOf
<1> QED
  BY <1>1, <1>3, <1>6 DEF FreeId

\* Setting a timer leaves the others.
LEMMA ArmSets ==
    ASSUME FlowTypeOK, NEW kind \in DOMAIN Delay, ArmBare(kind) \/ ArmTracked(kind)
    PROVE  /\ timers' \in Seq(TimerType) /\ slot' \in Ids \cup {NoTimer}
           /\ Advancing => Advancing'
           /\ Starting => Starting'
           /\ kind = "advance" => Advancing'
           /\ kind # "advance" => Starting'
<1>1. PICK id : id = FreeId(ToSet(timers), slot)
  OBVIOUS
<1>2. SetTimeout(kind, id) /\ slot' \in {slot, id}
  BY <1>1 DEF ArmBare, ArmTracked
<1>3. id \in Ids
  BY <1>1, <1>2, FreeIdType, FlowBounds DEF SetTimeout, Ids
<1>4. PICK t \in TimerType : t = [id |-> id, kind |-> kind]
  BY <1>3 DEF TimerType
<1>5. timers \in Seq(TimerType) /\ timers' = Append(timers, t)
  BY <1>2, <1>4 DEF FlowTypeOK, SetTimeout
<1>6. /\ timers' \in Seq(TimerType)
      /\ Len(timers') = Len(timers) + 1
      /\ \A n \in 1..Len(timers) : timers'[n] = timers[n]
      /\ timers'[Len(timers) + 1] = t
  BY <1>5
<1>7. /\ DOMAIN timers = 1..Len(timers) /\ DOMAIN timers' = 1..(Len(timers) + 1)
      /\ Len(timers) \in Nat
  BY <1>5, <1>6
<1>8. slot' \in Ids \cup {NoTimer}
  BY <1>2, <1>3 DEF FlowTypeOK
<1>9. \A n \in DOMAIN timers : n \in DOMAIN timers' /\ timers'[n] = timers[n]
  BY <1>6, <1>7
<1>10. Len(timers) + 1 \in DOMAIN timers' /\ timers'[Len(timers) + 1].kind = kind
  BY <1>4, <1>6, <1>7
<1> QED
  BY <1>6, <1>8, <1>9, <1>10 DEF Advancing, Starting

LEMMA SecondPart ==
    ASSUME NEW S, NEW a \in Seq(S), NEW b \in Seq(S), NEW k \in 1..Len(b)
    PROVE  (a \o b)[Len(a) + k] = b[k]
<1>1. PICK m : m = Len(a) + k
  OBVIOUS
<1>2. m \in 1..(Len(a) + Len(b)) /\ ~(m <= Len(a)) /\ m - Len(a) = k
  BY <1>1
<1>3. (a \o b)[m] = b[m - Len(a)]
  BY <1>2
<1> QED
  BY <1>1, <1>2, <1>3

\* Taking one away leaves those of another kind.
LEMMA RemoveLeaves ==
    ASSUME NEW s \in Seq(TimerType), NEW n \in DOMAIN s, NEW r, r = RemoveAt(s, n)
    PROVE  /\ r \in Seq(TimerType)
           /\ \A m \in DOMAIN s \ {n} : \E k \in DOMAIN r : r[k] = s[m]
<1>1. Len(s) \in Nat /\ DOMAIN s = 1..Len(s) /\ n \in 1..Len(s)
  OBVIOUS
<1>2. PICK a : a = SubSeq(s, 1, n - 1)
  OBVIOUS
<1>3. PICK b : b = SubSeq(s, n + 1, Len(s))
  OBVIOUS
<1>4. /\ a \in Seq(TimerType) /\ Len(a) = n - 1
      /\ \A k \in 1..(n - 1) : a[k] = s[k]
  BY <1>1, <1>2
<1>5. /\ b \in Seq(TimerType) /\ Len(b) = Len(s) - n
      /\ \A k \in 1..(Len(s) - n) : b[k] = s[n + k]
  BY <1>1, <1>3
<1>6. r = a \o b
  BY <1>2, <1>3 DEF RemoveAt
<1>7. /\ r \in Seq(TimerType) /\ DOMAIN r = 1..(Len(s) - 1)
      /\ \A k \in 1..(n - 1) : r[k] = s[k]
      /\ \A k \in 1..(Len(s) - n) : r[n - 1 + k] = s[n + k]
  <2>1. r \in Seq(TimerType) /\ Len(r) = Len(a) + Len(b)
    BY <1>4, <1>5, <1>6
  <2>2. DOMAIN r = 1..(Len(s) - 1)
    BY <1>1, <1>4, <1>5, <2>1
  <2>3. ASSUME NEW k \in 1..(n - 1)
        PROVE  r[k] = s[k]
    BY <1>1, <1>4, <1>5, <1>6, <2>3
  <2>4. ASSUME NEW k \in 1..(Len(s) - n)
        PROVE  r[n - 1 + k] = s[n + k]
    <3>1. a \in Seq(TimerType) /\ b \in Seq(TimerType)
      BY <1>4, <1>5
    <3>2. k \in 1..Len(b) /\ n - 1 + k = Len(a) + k
      BY <1>1, <1>4, <1>5
    <3>3. (a \o b)[Len(a) + k] = b[k]
      BY <3>1, <3>2, SecondPart
    <3>4. r[n - 1 + k] = b[k]
      BY <1>6, <3>2, <3>3, Zenon
    <3> QED
      BY <1>5, <3>4
  <2> QED
    BY <2>1, <2>2, <2>3, <2>4
<1>8. ASSUME NEW m \in DOMAIN s \ {n}
      PROVE  \E k \in DOMAIN r : r[k] = s[m]
  <2>1. CASE m < n
    BY <1>1, <1>7, <2>1
  <2>2. CASE m > n
    <3>1. m - n \in 1..(Len(s) - n) /\ n - 1 + (m - n) = m - 1 /\ n + (m - n) = m
      BY <1>1, <2>2
    <3>2. m - 1 \in DOMAIN r
      BY <1>1, <1>7, <2>2
    <3> QED
      BY <1>7, <3>1, <3>2
  <2> QED
    BY <1>1, <2>1, <2>2
<1> QED
  BY <1>7, <1>8

(***************************************************************************)
(* Seats.                                                                  *)
(***************************************************************************)
\* A subset of seats is no larger.
LEMMA Fewer ==
    ASSUME NEW T \in SUBSET Seats, NEW U \in SUBSET T
    PROVE  /\ Cardinality(T) \in Nat /\ Cardinality(U) \in Nat
           /\ Cardinality(U) <= Cardinality(T)
BY SeatsFinite, FS_Subset

\* Two seats, two different seats.
LEMMA TwoSeats ==
    ASSUME NEW T \in SUBSET Seats, Cardinality(T) >= 2
    PROVE  \E r, s \in T : r # s
<1>1. IsFiniteSet(T) /\ T # {}
  BY SeatsFinite
<1>2. PICK s \in T : TRUE
  BY <1>1
<1>3. Cardinality(T \ {s}) = Cardinality(T) - 1
  BY <1>1, <1>2, FS_RemoveElement
<1>4. Cardinality(T \ {s}) # 0
  BY <1>3, SeatsFinite
<1>5. T \ {s} # {}
  BY <1>4, FS_EmptySet
<1> QED
  BY <1>5

\* At a table at rest, who is ready counts.
LEMMA ReadyCounts ==
    ASSUME phase' = "waiting", Cardinality(Counted(standing')) < 2
    PROVE  Cardinality(Ready)' < 2
<1>1. PICK T : T = Counted(standing')
  OBVIOUS
<1>2. PICK U : U = Standing(standing', {"active", "waiting"})
  OBVIOUS
<1>3. T \in SUBSET Seats /\ U \in SUBSET T
  BY <1>1, <1>2 DEF Counted, Standing, Standings
<1>4. Ready' = U
  BY <1>2 DEF Ready, Standing
<1>5. Cardinality(U) < 2
  BY <1>1, <1>3, Fewer
<1> QED
  BY <1>4, <1>5

\* After a seat request at a table at rest a start is pending, if one is wanted.
LEMMA AutoStarts ==
    ASSUME FlowTypeOK, MayAutoStart
    PROVE  /\ timers' \in Seq(TimerType) /\ slot' \in Ids \cup {NoTimer}
           /\ Advancing => Advancing'
           /\ Starting => Starting'
           /\ phase' = "waiting" => Starting' \/ Cardinality(Ready)' < 2
<1>1. CASE ArmBare("auto") /\ phase' = "waiting"
  <2>1. "auto" \in DOMAIN Delay
    BY DEF Delay
  <2> QED
    BY <1>1, <2>1, ArmSets
<1>2. CASE UNCHANGED <<timers, slot>>
             /\ ~(phase' = "waiting" /\ Cardinality(Counted(standing')) >= 2)
  <2>1. phase' = "waiting" => Cardinality(Ready)' < 2
    <3> SUFFICES ASSUME phase' = "waiting"
                 PROVE  Cardinality(Ready)' < 2
      OBVIOUS
    <3>1. Counted(standing') \in SUBSET Seats
      BY DEF Counted, Standing
    <3>2. PICK n : n = Cardinality(Counted(standing'))
      OBVIOUS
    <3>3. n \in Nat
      BY <3>1, <3>2, SeatsFinite
    <3>4. n < 2
      BY <1>2, <3>2, <3>3
    <3> QED
      BY <3>2, <3>4, ReadyCounts
  <2> QED
    BY <1>2, <2>1 DEF Advancing, Starting, FlowTypeOK
<1> QED
  BY <1>1, <1>2 DEF MayAutoStart

\* Who is in the hand stays in it, and who is to act can.
LEMMA LiveKept ==
    ASSUME UNCHANGED turnSeat, \A s \in Live(standing) : standing'[s] = standing[s]
    PROVE  /\ Rivals => Rivals'
           /\ MayMove => MayMove'
<1>1. Live(standing) \subseteq Live(standing')
  BY DEF Live, Standing
<1> QED
  BY <1>1 DEF Rivals, MayMove, Live, Standing

\* A request served at once keeps the invariant when it leaves the hand alone and at a
\* table at rest sees to the start.
LEMMA Served ==
    ASSUME FlowInv, Quiet, FlowTypeOK', UNCHANGED <<phase, turnSeat, pot, tasks, jobs, key>>,
           upsets \subseteq upsets',
           phase \in Streets => \A s \in Live(standing) : standing'[s] = standing[s],
           Advancing => Advancing', Starting => Starting',
           phase = "waiting" => Starting' \/ Cardinality(Ready)' < 2 \/ Astray'
    PROVE  FlowInv'
<1>0. FlowOK(Idle)
  BY DEF FlowInv
<1>1. Becomes(Idle)
  BY StillQuiet DEF FlowInv
<1>2. HandOK(Idle)'
  BY DEF HandOK, Idle
<1>3. phase \in Streets => (Rivals => Rivals') /\ (MayMove => MayMove')
  BY LiveKept
<1>4. phase \in Streets /\ Watched => Watched'
  BY <1>3 DEF Watched
<1>5. (~Lost)' => ~Lost
  BY DEF Lost
<1>6. ClockOK(Idle)'
  BY <1>0, <1>4, <1>5 DEF FlowOK, ClockOK, Idle
<1>7. Unpaid => Unpaid'
  BY DEF Unpaid
<1>8. PotOK(Idle)'
  BY <1>0, <1>3, <1>7 DEF FlowOK, PotOK, Idle
<1>9. KeyOK'
  BY <1>0 DEF FlowOK, KeyOK
<1>10. (~Astray)' => ~Astray
  BY DEF Astray
<1>11. StartOK(Idle)'
  BY <1>0, <1>10 DEF FlowOK, StartOK, Idle
<1> QED
  BY <1>1, <1>2, <1>6, <1>8, <1>9, <1>11, Lands DEF FlowOK

(***************************************************************************)
(* What clients send: it comes when the gateway is at rest.                *)
(***************************************************************************)
LEMMA AtRest ==
    ASSUME OneAtATime, MayBegin
    PROVE  Quiet
BY DEF OneAtATime, MayBegin

\* One seat goes to another standing.
LEMMA StandType ==
    ASSUME FlowTypeOK, NEW s \in Seats, NEW to \in Standings, StandScript(s, to)
    PROVE  /\ standing' \in [Seats -> Standings]
           /\ \A r \in Seats \ {s} : standing'[r] = standing[r]
           /\ standing'[s] = to
           /\ UNCHANGED <<phase, turnSeat, pot, hands>>
BY DEF FlowTypeOK, StandScript

LEMMA ToggleSitOutKeeps ==
    ASSUME FlowInv, OneAtATime, NEW s \in Seats, ToggleSitOut(s)
    PROVE  FlowInv'
<1>1. Quiet /\ FlowTypeOK /\ MayAutoStart
  BY AtRest DEF ToggleSitOut, MayAsk, FlowInv
<1>2. PICK to \in Standings : StandScript(s, to)
                              /\ (standing[s] \in {"active", "all-in"} /\ phase \in Streets => to = standing[s])
  <2>1. standing[s] \in Standings
    BY <1>1 DEF FlowTypeOK
  <2> QED
    BY <2>1 DEF ToggleSitOut, HoldsCards, Standings
<1>3. /\ standing' \in [Seats -> Standings] /\ UNCHANGED <<phase, turnSeat, pot, hands>>
      /\ phase \in Streets => \A r \in Live(standing) : standing'[r] = standing[r]
  BY <1>1, <1>2, StandType DEF Live, Standing, Streets
<1>4. UNCHANGED <<tasks, jobs, key, upsets>>
  BY DEF ToggleSitOut
<1>5. FlowTypeOK'
  BY <1>1, <1>3, <1>4, AutoStarts DEF FlowTypeOK
<1> QED
  BY <1>1, <1>3, <1>4, <1>5, AutoStarts, Served

LEMMA AddChipsKeeps ==
    ASSUME FlowInv, OneAtATime, NEW s \in Seats, AddChips(s)
    PROVE  FlowInv'
<1>1. Quiet /\ FlowTypeOK
  BY AtRest DEF AddChips, MayAsk, FlowInv
<1>2. /\ standing' \in [Seats -> Standings] /\ UNCHANGED <<phase, turnSeat, pot, hands>>
      /\ \A r \in Live(standing) : standing'[r] = standing[r]
  <2>1. StandScript(s, "waiting") /\ "waiting" \in Standings /\ standing[s] \in {"out", "waiting"}
    BY DEF AddChips, Standings
  <2> QED
    BY <1>1, <2>1, StandType DEF Live, Standing
<1>3. UNCHANGED <<tasks, jobs, key, upsets>>
  BY DEF AddChips, others
<1>4. /\ timers' \in Seq(TimerType) /\ slot' \in Ids \cup {NoTimer}
      /\ Advancing => Advancing'
      /\ Starting => Starting'
      /\ phase' = "waiting" => Starting' \/ Cardinality(Ready)' < 2
  <2>1. CASE ArmBare("auto")
    <3>1. "auto" \in DOMAIN Delay
      BY DEF Delay
    <3> QED
      BY <1>1, <2>1, <3>1, ArmSets
  <2>2. CASE UNCHANGED <<timers, slot>>
             /\ ~(phase = "waiting" /\ Cardinality(Standing(standing', {"active", "waiting"})) >= 2)
    <3>1. PICK n : n = Cardinality(Standing(standing', {"active", "waiting"}))
      OBVIOUS
    <3>2. n \in Nat
      BY <3>1, SeatsFinite DEF Standing
    <3>3. phase' = "waiting" => Ready' = Standing(standing', {"active", "waiting"})
      BY DEF Ready, Standing
    <3>4. phase' = "waiting" => n < 2
      BY <1>2, <2>2, <3>1, <3>2
    <3>5. phase' = "waiting" => Cardinality(Ready)' < 2
      BY <3>1, <3>3, <3>4
    <3> QED
      BY <1>1, <2>2, <3>5 DEF Advancing, Starting, FlowTypeOK
  <2> QED
    BY <2>1, <2>2 DEF AddChips
<1>5. FlowTypeOK'
  BY <1>1, <1>2, <1>3, <1>4 DEF FlowTypeOK
<1> QED
  BY <1>1, <1>2, <1>3, <1>4, <1>5, Served

LEMMA ComeBackKeeps ==
    ASSUME FlowInv, OneAtATime, NEW s \in Seats, ComeBack(s)
    PROVE  FlowInv'
<1>1. Quiet /\ FlowTypeOK
  BY AtRest DEF ComeBack, MayAsk, FlowInv
<1>2. /\ standing' \in [Seats -> Standings] /\ UNCHANGED <<phase, turnSeat, pot, hands>>
      /\ \A r \in Live(standing) : standing'[r] = standing[r]
  <2>1. StandScript(s, "waiting") /\ "waiting" \in Standings /\ standing[s] = "out"
    BY DEF ComeBack, Standings
  <2> QED
    BY <1>1, <2>1, StandType DEF Live, Standing
<1>3. UNCHANGED <<tasks, jobs, key, timers, slot>> /\ upsets' = upsets \cup {"online"}
  BY DEF ComeBack
<1>4. FlowTypeOK' /\ Astray' /\ (Advancing => Advancing') /\ (Starting => Starting')
  BY <1>1, <1>2, <1>3 DEF FlowTypeOK, Astray, Advancing, Starting
<1> QED
  BY <1>1, <1>2, <1>3, <1>4, Served

LEMMA FlagsKeep ==
    ASSUME FlowInv, OneAtATime, Maintenance \/ \E s \in Seats : ToggleLNBB(s)
    PROVE  FlowInv'
<1>1. Quiet /\ FlowTypeOK
  BY AtRest DEF Maintenance, ToggleLNBB, MayAsk, FlowInv
<1>2. UNCHANGED <<shell, tasks, timers, slot, jobs, key, upsets>>
  BY DEF Maintenance, ToggleLNBB
<1>3. FlowTypeOK' /\ (Advancing => Advancing') /\ (Starting => Starting')
  BY <1>1, <1>2 DEF FlowTypeOK, Advancing, Starting, shell
<1>4. UNCHANGED <<phase, turnSeat, standing, pot>>
  BY <1>2 DEF shell
<1>5. StartOK(Idle)
  BY <1>1 DEF FlowInv, FlowOK
<1>6. phase = "waiting" => Starting' \/ Cardinality(Ready)' < 2 \/ Astray'
  BY <1>2, <1>3, <1>4, <1>5 DEF StartOK, Idle, Astray, Ready, Standing, Dealable
<1> QED
  BY <1>1, <1>2, <1>3, <1>4, <1>6, Served

LEMMA PauseKeeps ==
    ASSUME FlowInv, OneAtATime, Pause
    PROVE  FlowInv'
<1>1. Quiet /\ FlowTypeOK
  BY AtRest DEF Pause, MayAsk, FlowInv
<1>2. Becomes(Idle)
  BY <1>1, StillQuiet DEF Pause
<1>3. FlowTypeOK'
  BY <1>1 DEF Pause, FlowTypeOK, Phases
<1>4. KeyOK
  BY <1>1 DEF FlowInv, FlowOK
<1>5. FlowOK(Idle)'
  BY <1>4 DEF FlowOK, HandOK, ClockOK, PotOK, KeyOK, StartOK, Idle, Pause, Streets
<1> QED
  BY <1>2, <1>3, <1>5, Lands

LEMMA ReopenKeeps ==
    ASSUME FlowInv, OneAtATime, Reopen
    PROVE  FlowInv'
<1>1. Quiet /\ FlowTypeOK
  BY AtRest DEF Reopen, MayAsk, FlowInv
<1>2. Becomes(Idle)
  BY <1>1, StillQuiet DEF Reopen
<1>3. FlowTypeOK'
  BY <1>1 DEF Reopen, FlowTypeOK, Phases
<1>4. KeyOK
  BY <1>1 DEF FlowInv, FlowOK
<1>5. Unpaid' /\ Astray'
  BY DEF Reopen, Unpaid, Astray
<1>6. FlowOK(Idle)'
  BY <1>4, <1>5 DEF FlowOK, HandOK, ClockOK, PotOK, KeyOK, StartOK, Idle, Reopen, Streets
<1> QED
  BY <1>2, <1>3, <1>6, Lands

LEMMA ResumeKeeps ==
    ASSUME FlowInv, OneAtATime, Resume
    PROVE  FlowInv'
<1>1. Quiet /\ FlowTypeOK
  BY AtRest DEF Resume, FlowInv
<1>2. Becomes(Idle)
  BY <1>1, StillQuiet DEF Resume, flow
<1>3. FlowTypeOK'
  BY <1>1 DEF Resume, FlowTypeOK, Phases, flow
<1>4. KeyOK /\ "paused" \in upsets
  BY <1>1 DEF FlowInv, FlowOK, PotOK, Resume
<1>5. Unpaid' /\ Astray'
  BY <1>4 DEF Resume, flow, Unpaid, Astray
<1>6. FlowOK(Idle)'
  BY <1>4, <1>5 DEF FlowOK, HandOK, ClockOK, PotOK, KeyOK, StartOK, Idle, Resume, Streets, flow
<1> QED
  BY <1>2, <1>3, <1>6, Lands

LEMMA ActOutOfTurnKeeps ==
    ASSUME FlowInv, OneAtATime, NEW s \in Seats, ActOutOfTurn(s)
    PROVE  FlowInv'
<1>1. Quiet /\ FlowTypeOK /\ FlowOK(Idle)
  BY AtRest DEF ActOutOfTurn, MayAsk, FlowInv
<1>2. PICK t \in TaskType : t = Task("stop", NoSeat, "refused", "none")
  BY TaskIs DEF Ats, SeatOrNone
<1>3. UNCHANGED <<phase, turnSeat, standing, pot, timers, slot, jobs, key>>
      /\ upsets' = upsets \cup {"refused"}
  BY DEF ActOutOfTurn, shell
<1>4. Becomes(t)
  BY <1>1, <1>2, BeginOne DEF ActOutOfTurn
<1>5. FlowTypeOK'
  BY <1>1, <1>3, <1>4 DEF FlowTypeOK, Becomes
<1>6. t.at = "stop" /\ t.answer = "refused" /\ t.kicked = NoSeat
  BY <1>2 DEF Task
<1>7. HandOK(t)' /\ ClockOK(t)' /\ KeyOK'
  BY <1>1, <1>3, <1>6 DEF FlowOK, HandOK, ClockOK, KeyOK
<1>8. PotOK(t)'
  BY <1>1, <1>3, <1>6 DEF FlowOK, PotOK, Idle, Unpaid, Rivals, Live, Standing
<1>9. StartOK(t)'
  BY <1>1, <1>3, <1>6 DEF FlowOK, StartOK, Idle, Astray, Starting, Ready, Standing, Dealable
<1> QED
  BY <1>4, <1>5, <1>7, <1>8, <1>9, Lands DEF FlowOK

\* clearTimeout leaves the timers a sequence.
LEMMA ClearType ==
    ASSUME FlowTypeOK, ClearTimeout
    PROVE  timers' \in Seq(TimerType)
BY RemoveLeaves DEF ClearTimeout, FlowTypeOK

LEMMA AskToLeaveKeeps ==
    ASSUME FlowInv, OneAtATime, NEW s \in Seats, AskToLeave(s)
    PROVE  FlowInv'
<1>1. Quiet /\ FlowTypeOK /\ FlowOK(Idle)
  BY AtRest DEF AskToLeave, MayAsk, FlowInv
<1>2. PICK t \in TaskType : t = Task("leave", s, "none", "none")
  BY TaskIs DEF Ats, SeatOrNone
<1>3. /\ UNCHANGED <<phase, turnSeat, standing, pot, jobs, key>> /\ slot' = NoTimer
      /\ upsets \subseteq upsets' /\ (phase # "waiting" => "left" \in upsets')
      /\ standing[s] # "empty"
  BY DEF AskToLeave, shell
<1>4. Becomes(t)
  BY <1>1, <1>2, BeginOne DEF AskToLeave
<1>5. FlowTypeOK'
  BY <1>1, <1>3, <1>4, ClearType DEF FlowTypeOK, Becomes, AskToLeave
<1>6. t.at = "leave" /\ t.seat = s /\ t.kicked = NoSeat
  BY <1>2 DEF Task
<1>7. HandOK(t)' /\ ClockOK(t)' /\ KeyOK' /\ StartOK(t)'
  BY <1>1, <1>3, <1>6 DEF FlowOK, HandOK, ClockOK, KeyOK, StartOK, Lost, Astray, Streets
<1>8. PotOK(t)'
  BY <1>1, <1>3, <1>6 DEF FlowOK, PotOK, Idle, Unpaid, Rivals, Live, Standing
<1> QED
  BY <1>4, <1>5, <1>7, <1>8, Lands DEF FlowOK

LEMMA SweepOutKeeps ==
    ASSUME FlowInv, OneAtATime, NEW s \in Seats, SweepOut(s)
    PROVE  FlowInv'
<1>1. Quiet /\ FlowTypeOK /\ FlowOK(Idle)
  BY AtRest DEF SweepOut, MayAsk, FlowInv
<1>2. PICK t \in TaskType : t = Task("leave", s, "none", "none")
  BY TaskIs DEF Ats, SeatOrNone
<1>3. /\ UNCHANGED <<phase, turnSeat, standing, pot, timers, slot, jobs, key, upsets>>
      /\ standing[s] = "out"
  BY DEF SweepOut, shell, others
<1>4. Becomes(t)
  BY <1>1, <1>2, BeginOne DEF SweepOut
<1>5. FlowTypeOK'
  BY <1>1, <1>3, <1>4 DEF FlowTypeOK, Becomes
<1>6. t.at = "leave" /\ t.seat = s /\ t.kicked = NoSeat
  BY <1>2 DEF Task
<1>7. HandOK(t)' /\ KeyOK'
  BY <1>1, <1>3, <1>6 DEF FlowOK, HandOK, KeyOK
<1>8. ClockOK(t)'
  BY <1>1, <1>3, <1>6 DEF FlowOK, ClockOK, Idle, Lost, Watched, Advancing, MayMove
<1>9. PotOK(t)'
  BY <1>1, <1>3, <1>6 DEF FlowOK, PotOK, Idle, Unpaid, Rivals, Live, Standing
<1>10. StartOK(t)'
  BY <1>1, <1>3, <1>6 DEF FlowOK, StartOK, Idle, Astray, Starting
<1> QED
  BY <1>4, <1>5, <1>7, <1>8, <1>9, <1>10, Lands DEF FlowOK

LEMMA JoinTableKeeps ==
    ASSUME FlowInv, OneAtATime, NEW s \in Seats, JoinTable(s)
    PROVE  FlowInv'
<1>1. Quiet /\ FlowTypeOK /\ FlowOK(Idle)
  BY AtRest DEF JoinTable, MayAsk, FlowInv
<1>2. PICK starts \in BOOLEAN :
         /\ starts <=> phase = "waiting"
                       /\ Cardinality(Counted([standing EXCEPT ![s] = "waiting"])) >= 2
         /\ JoinScript(s, starts)
         /\ IF starts THEN Begin(Task("start", NoSeat, "none", "none")) ELSE UNCHANGED tasks
  BY DEF JoinTable
<1>3. /\ standing[s] = "empty" /\ standing' \in [Seats -> Standings]
      /\ UNCHANGED <<phase, turnSeat, pot, hands, timers, slot, jobs, key, upsets>>
      /\ ~starts => /\ standing' = [standing EXCEPT ![s] = "waiting"]
                    /\ \A r \in Live(standing) : standing'[r] = standing[r]
  BY <1>1, <1>2 DEF JoinTable, JoinScript, others, FlowTypeOK, Standings, Live, Standing
<1>4. CASE ~starts
  <2>1. FlowTypeOK' /\ (Advancing => Advancing') /\ (Starting => Starting')
    BY <1>1, <1>2, <1>3, <1>4 DEF FlowTypeOK, Advancing, Starting
  <2>2. ASSUME phase = "waiting"
        PROVE  Cardinality(Ready)' < 2
    <3>1. PICK n : n = Cardinality(Counted(standing'))
      OBVIOUS
    <3>2. n \in Nat
      BY <3>1, SeatsFinite DEF Counted, Standing
    <3>3. ~(n >= 2)
      BY <1>2, <1>3, <1>4, <2>2, <3>1
    <3>4. n < 2
      BY <3>2, <3>3
    <3> QED
      BY <1>3, <2>2, <3>1, <3>4, ReadyCounts
  <2> QED
    BY <1>1, <1>2, <1>3, <1>4, <2>1, <2>2, Served
<1>5. CASE starts
  <2>1. PICK t \in TaskType : t = Task("start", NoSeat, "none", "none")
    BY TaskIs DEF Ats, SeatOrNone
  <2>2. Becomes(t)
    BY <1>1, <1>2, <1>5, <2>1, BeginOne
  <2>3. FlowTypeOK'
    BY <1>1, <1>3, <2>2 DEF FlowTypeOK, Becomes
  <2>4. t.at = "start" /\ t.kicked = NoSeat
    BY <2>1 DEF Task
  <2>5. phase = "waiting" /\ phase' = "waiting"
    BY <1>2, <1>3, <1>5
  <2>6. FlowOK(t)'
    BY <1>1, <1>3, <2>4, <2>5
       DEF FlowOK, HandOK, ClockOK, PotOK, KeyOK, StartOK, Streets, Unpaid
  <2> QED
    BY <2>2, <2>3, <2>6, Lands
<1> QED
  BY <1>4, <1>5

(***************************************************************************)
(* bet.lua and timeout.lua.                                                *)
(***************************************************************************)
\* Where a move leaves the phase and the turn.
LEMMA MovedIs ==
    ASSUME FlowTypeOK, NEW s \in Seats, NEW st \in [Seats -> Standings],
           NEW answer \in {"complete", "street", "play"}, Moved(s, st, answer)
    PROVE  /\ standing' = st /\ turnSeat' \in SeatOrNone
           /\ answer = "complete" => phase' = "showdown" /\ pot' = FALSE
           /\ answer # "complete" => phase' = phase /\ Cardinality(Live(st)) # 1
           /\ answer = "play" => MayMove'
<1>1. Acting(st) \in SUBSET Seats /\ s \in -1..9
  BY SeatsAssumption DEF Acting, Standing
<1>2. PICK n : n = NextOf(Acting(st), s)
  OBVIOUS
<1>3. n \in SeatOrNone
  BY <1>1, <1>2, NextOfType DEF SeatOrNone
<1>4. Acting(st) # {} => n \in Seats /\ st[n] = "active"
  BY <1>1, <1>2, NextOfFinds DEF Acting, Standing
<1> QED
  BY <1>2, <1>3, <1>4 DEF Moved, SeatOrNone, MayMove

\* When one of at least two players moves and it was not the end of it, two remain.
LEMMA RivalsStay ==
    ASSUME FlowTypeOK, Rivals, NEW s \in Seats, standing' \in [Seats -> Standings],
           \A r \in Seats \ {s} : standing'[r] = standing[r], Cardinality(Live(standing')) # 1
    PROVE  Rivals'
<1>1. PICK a, b \in Live(standing) : a # b
  BY DEF Rivals
<1>2. Live(standing') \in SUBSET Seats
  BY DEF Live, Standing
<1>3. a \in Live(standing') \/ b \in Live(standing')
  BY <1>1 DEF Live, Standing
<1>4. PICK n : n = Cardinality(Live(standing'))
  OBVIOUS
<1>5. n \in Nat /\ n # 0 /\ n # 1
  BY <1>2, <1>3, <1>4, SeatsFinite
<1>6. n >= 2
  BY <1>5
<1> QED
  BY <1>2, <1>4, <1>6, TwoSeats DEF Rivals

LEMMA ActKeeps ==
    ASSUME FlowInv, OneAtATime, NEW s \in Seats, Act(s)
    PROVE  FlowInv'
<1>1. Quiet /\ FlowTypeOK /\ FlowOK(Idle)
  BY AtRest DEF Act, MayAsk, FlowInv
<1>2. phase \in Streets \cup {"paused"}
  BY DEF Act, OneAtATime
<1>3. PICK to \in {"active", "folded", "all-in"}, answer \in {"complete", "street", "play"} :
         /\ BetScript(s, to, answer)
         /\ Begin(Task("stop", turnSeat', answer, "none"))
  BY DEF Act
<1>4. PICK st : st = [standing EXCEPT ![s] = to]
  OBVIOUS
<1>5. st \in [Seats -> Standings] /\ \A r \in Seats \ {s} : st[r] = standing[r]
  BY <1>1, <1>4 DEF FlowTypeOK, Standings
<1>6. pot' \in BOOLEAN /\ Moved(s, st, answer)
  BY <1>3, <1>4 DEF BetScript
<1>7. /\ standing' = st /\ turnSeat' \in SeatOrNone
      /\ answer = "complete" => phase' = "showdown" /\ pot' = FALSE
      /\ answer # "complete" => phase' = phase /\ Cardinality(Live(st)) # 1
      /\ answer = "play" => MayMove'
  BY <1>1, <1>5, <1>6, MovedIs
<1>8. UNCHANGED <<timers, slot, jobs, key, upsets>>
  BY DEF Act
<1>9. PICK t \in TaskType : t = Task("stop", turnSeat', answer, "none")
  <2>1. "stop" \in Ats
    BY DEF Ats
  <2>2. Task("stop", turnSeat', answer, "none") \in TaskType
    BY <1>7, <2>1, TaskIs
  <2> QED
    BY <2>2
<1>10. Becomes(t)
  BY <1>1, <1>3, <1>9, BeginOne
<1>11. FlowTypeOK'
  BY <1>1, <1>5, <1>6, <1>7, <1>8, <1>10 DEF FlowTypeOK, Becomes, Phases
<1>12. t.at = "stop" /\ t.seat = turnSeat' /\ t.answer = answer /\ t.kicked = NoSeat
  BY <1>9 DEF Task
<1>13. HandOK(t)' /\ ClockOK(t)' /\ KeyOK' /\ StartOK(t)'
  BY <1>1, <1>2, <1>7, <1>8, <1>12 DEF FlowOK, HandOK, ClockOK, KeyOK, StartOK, Streets, MayMove
<1>14. answer # "complete" /\ Rivals => Rivals'
  BY <1>1, <1>5, <1>7, RivalsStay
<1>15. PotOK(t)'
  BY <1>1, <1>2, <1>7, <1>8, <1>14 DEF FlowOK, PotOK, Streets
<1> QED
  BY <1>10, <1>11, <1>13, <1>15, Lands DEF FlowOK

(***************************************************************************)
(* Timers and jobs fire.                                                   *)
(***************************************************************************)
LEMMA JobFiresKeeps ==
    ASSUME FlowInv, OneAtATime, NEW j \in jobs, JobFires(j)
    PROVE  FlowInv'
<1>1. Quiet /\ FlowTypeOK /\ FlowOK(Idle)
  BY AtRest DEF JobFires, FlowInv
<1>2. PICK t \in TaskType : t = Task("expire", j.seat, "none", "job")
  BY <1>1, TaskIs DEF Ats, SeatOrNone, FlowTypeOK
<1>3. /\ UNCHANGED <<phase, turnSeat, standing, pot, timers, slot, key, upsets>>
      /\ jobs' = jobs \ {j}
  BY DEF JobFires, shell, others
<1>4. Becomes(t)
  BY <1>1, <1>2, BeginOne DEF JobFires
<1>5. FlowTypeOK'
  BY <1>1, <1>3, <1>4 DEF FlowTypeOK, Becomes
<1>6. t.at = "expire" /\ t.seat = j.seat /\ t.kicked = NoSeat
  BY <1>2 DEF Task
<1>7. HandOK(t)' /\ KeyOK'
  BY <1>1, <1>3, <1>6 DEF FlowOK, HandOK, KeyOK, FlowTypeOK
<1>8. ClockOK(t)'
  BY <1>1, <1>3, <1>6 DEF FlowOK, ClockOK, Idle, Lost, Watched, Advancing, MayMove
<1>9. PotOK(t)'
  BY <1>1, <1>3, <1>6 DEF FlowOK, PotOK, Idle, Unpaid, Rivals, Live, Standing
<1>10. StartOK(t)'
  BY <1>1, <1>3, <1>6 DEF FlowOK, StartOK, Idle, Astray, Starting, Ready, Standing, Dealable
<1> QED
  BY <1>4, <1>5, <1>7, <1>8, <1>9, <1>10, Lands DEF FlowOK

LEMMA TimerFiresKeeps ==
    ASSUME FlowInv, OneAtATime, NEW n \in DOMAIN timers, TimerFires(n)
    PROVE  FlowInv'
<1>1. Quiet /\ FlowTypeOK /\ FlowOK(Idle)
  BY AtRest DEF TimerFires, FlowInv
<1>2. PICK at \in {"advance", "start"} :
         /\ at = "advance" <=> timers[n].kind = "advance"
         /\ Begin(Task(at, NoSeat, "none", "none"))
  BY DEF TimerFires
<1>3. PICK t \in TaskType : t = Task(at, NoSeat, "none", "none")
  BY TaskIs DEF Ats, SeatOrNone
<1>4. /\ UNCHANGED <<phase, turnSeat, standing, pot, jobs, key, upsets>>
      /\ timers' = RemoveAt(timers, n) /\ slot' \in {slot, NoTimer}
  BY DEF TimerFires, shell, others
<1>5. Becomes(t)
  BY <1>1, <1>2, <1>3, BeginOne
<1>6. /\ timers' \in Seq(TimerType)
      /\ \A m \in DOMAIN timers \ {n} : \E k \in DOMAIN timers' : timers'[k] = timers[m]
  BY <1>1, <1>4, RemoveLeaves DEF FlowTypeOK
<1>7. FlowTypeOK'
  BY <1>1, <1>4, <1>5, <1>6 DEF FlowTypeOK, Becomes
<1>8. t.at = at /\ t.kicked = NoSeat
  BY <1>3 DEF Task
<1>9. (at = "start" /\ Advancing => Advancing') /\ (at = "advance" /\ Starting => Starting')
  BY <1>2, <1>6 DEF Advancing, Starting
<1>10. HandOK(t)' /\ KeyOK'
  BY <1>1, <1>4, <1>8 DEF FlowOK, HandOK, KeyOK
<1>11. ClockOK(t)'
  BY <1>1, <1>4, <1>8, <1>9 DEF FlowOK, ClockOK, Idle, Lost, Watched, MayMove
<1>12. PotOK(t)'
  BY <1>1, <1>4, <1>8 DEF FlowOK, PotOK, Idle, Unpaid, Rivals, Live, Standing
<1>13. StartOK(t)'
  BY <1>1, <1>4, <1>8, <1>9 DEF FlowOK, StartOK, Idle, Astray, Ready, Standing, Dealable
<1> QED
  BY <1>5, <1>7, <1>10, <1>11, <1>12, <1>13, Lands DEF FlowOK

(***************************************************************************)
(* The handler at work.                                                    *)
(***************************************************************************)
\* Slot i is the handler at work when it is not idle, and the invariant is about it.
LEMMA AtWork ==
    ASSUME FlowInv, NEW i \in 1..MaxTasks, tasks[i].at # "idle"
    PROVE  /\ FlowTypeOK /\ OneTask /\ i \in Busy
           /\ FlowOK(tasks[i])
           /\ tasks[i] \in TaskType
BY DEF FlowInv, FlowTypeOK, Busy, Idle

LEMMA Ends ==
    ASSUME FlowTypeOK, OneTask, NEW i \in Busy, End(i)
    PROVE  Becomes(Idle)
BY OneGoesOn, IdleType DEF End

LEMMA ThreeFields ==
    ASSUME NEW D, NEW R, NEW f \in [D -> R], NEW i \in D, NEW a, NEW b, NEW c
    PROVE  [f EXCEPT ![i].at = a, ![i].seat = b, ![i].answer = c]
             = [f EXCEPT ![i] = [f[i] EXCEPT !.at = a, !.seat = b, !.answer = c]]
<1>1. PICK g : g = [f EXCEPT ![i].at = a]
  OBVIOUS
<1>2. PICK h : h = [g EXCEPT ![i].seat = b]
  OBVIOUS
<1>3. PICK r : r = [f[i] EXCEPT !.at = a]
  OBVIOUS
<1>4. PICK q : q = [r EXCEPT !.seat = b]
  OBVIOUS
<1>5. g = [f EXCEPT ![i] = r]
  BY <1>1, <1>3
<1>6. h = [f EXCEPT ![i] = q]
  BY <1>2, <1>4, <1>5
<1>7. [h EXCEPT ![i].answer = c] = [f EXCEPT ![i] = [q EXCEPT !.answer = c]]
  BY <1>6
<1> QED
  BY <1>1, <1>2, <1>3, <1>4, <1>7

LEMMA GoesOn ==
    ASSUME FlowTypeOK, OneTask, NEW i \in Busy, NEW at \in Ats, NEW seat \in SeatOrNone,
           Go(i, at, seat)
    PROVE  \E t \in TaskType : /\ Becomes(t)
                               /\ t.at = at /\ t.seat = seat /\ t.kicked = tasks[i].kicked
<1>1. tasks \in [1..MaxTasks -> TaskType] /\ i \in 1..MaxTasks
  BY DEF FlowTypeOK, Busy
<1>2. PICK u \in TaskType : u = tasks[i]
  BY <1>1
<1>3. PICK t : t = [u EXCEPT !.at = at, !.seat = seat, !.answer = "none"]
  OBVIOUS
<1>4. t \in TaskType /\ t.at = at /\ t.seat = seat /\ t.kicked = u.kicked
  BY <1>3 DEF TaskType
<1>5. tasks' = [tasks EXCEPT ![i].at = at, ![i].seat = seat, ![i].answer = "none"]
  BY DEF Go
<1>6. [tasks EXCEPT ![i].at = at, ![i].seat = seat, ![i].answer = "none"]
        = [tasks EXCEPT ![i] = [tasks[i] EXCEPT !.at = at, !.seat = seat, !.answer = "none"]]
  BY <1>1, ThreeFields
<1>7. tasks' = [tasks EXCEPT ![i] = t]
  BY <1>2, <1>3, <1>5, <1>6
<1> QED
  BY <1>2, <1>4, <1>7, OneGoesOn

\* Cancelling the one job there is leaves none.
LEMMA CancelsAll ==
    ASSUME KeyOK, CancelTimeout
    PROVE  jobs' = {}
BY DEF KeyOK, CancelTimeout, Cancelled

\* What the parts of the invariant that look at the shell say holds on while it stays.
LEMMA ShellStays ==
    ASSUME UNCHANGED <<phase, turnSeat, standing, pot, upsets>>
    PROVE  /\ Unpaid' = Unpaid /\ Lost' = Lost /\ Astray' = Astray
           /\ Rivals' = Rivals /\ MayMove' = MayMove
           /\ Cardinality(Ready)' = Cardinality(Ready)
BY DEF Unpaid, Lost, Astray, Rivals, MayMove, Live, Ready, Dealable, Standing

LEMMA StopKeeps ==
    ASSUME FlowInv, NEW i \in 1..MaxTasks, Stop(i)
    PROVE  FlowInv'
<1>1. PICK u \in TaskType : u = tasks[i]
  BY AtWork DEF Stop
<1>2. FlowTypeOK /\ OneTask /\ i \in Busy /\ FlowOK(u) /\ u.at = "stop"
  BY <1>1, AtWork DEF Stop
<1>3. UNCHANGED <<phase, turnSeat, standing, pot, upsets>>
  BY DEF Stop, shell, others
<1>4. jobs' = {}
  BY <1>2, CancelsAll DEF Stop, FlowOK
<1>5. u.kicked = NoSeat
  BY <1>2 DEF FlowOK, HandOK
<1>6. \E t \in TaskType :
         /\ Becomes(t) /\ t.kicked = NoSeat
         /\ \/ u.answer = "refused" /\ t = Idle /\ UNCHANGED <<timers, slot>>
            \/ u.answer = "complete" /\ t = Idle /\ ArmTracked("celebrate")
            \/ u.answer = "street" /\ t.at = "advance" /\ UNCHANGED <<timers, slot>>
            \/ u.answer = "play" /\ t.at = "clock" /\ t.seat = u.seat /\ UNCHANGED <<timers, slot>>
  <2>1. NoSeat \in SeatOrNone /\ u.seat \in SeatOrNone /\ {"advance", "clock"} \subseteq Ats
    BY <1>1 DEF SeatOrNone, TaskType, Ats
  <2>2. Idle.kicked = NoSeat /\ Idle \in TaskType
    BY IdleType DEF Idle
  <2> QED
    BY <1>1, <1>2, <1>5, <2>1, <2>2, Ends, GoesOn DEF Stop
<1>7. PICK t \in TaskType :
         /\ Becomes(t) /\ t.kicked = NoSeat
         /\ \/ u.answer = "refused" /\ t = Idle /\ UNCHANGED <<timers, slot>>
            \/ u.answer = "complete" /\ t = Idle /\ ArmTracked("celebrate")
            \/ u.answer = "street" /\ t.at = "advance" /\ UNCHANGED <<timers, slot>>
            \/ u.answer = "play" /\ t.at = "clock" /\ t.seat = u.seat /\ UNCHANGED <<timers, slot>>
  BY <1>6
<1>8. /\ timers' \in Seq(TimerType) /\ slot' \in Ids \cup {NoTimer}
      /\ Advancing => Advancing'
      /\ Starting => Starting'
      /\ u.answer = "complete" => Starting'
  <2>1. "celebrate" \in DOMAIN Delay
    BY DEF Delay
  <2> QED
    BY <1>2, <1>7, <2>1, ArmSets DEF Advancing, Starting, FlowTypeOK
<1>9. FlowTypeOK'
  BY <1>2, <1>3, <1>4, <1>7, <1>8 DEF FlowTypeOK, Becomes
<1>10. HandOK(t)' /\ KeyOK'
  BY <1>2, <1>4, <1>7 DEF FlowOK, HandOK, KeyOK, Idle
<1>11. ClockOK(t)'
  BY <1>2, <1>3, <1>7, ShellStays DEF FlowOK, ClockOK, Idle, Lost
<1>12. PotOK(t)'
  BY <1>2, <1>3, <1>7, ShellStays DEF FlowOK, PotOK, Idle
<1>13. StartOK(t)'
  BY <1>2, <1>3, <1>7, <1>8, ShellStays DEF FlowOK, StartOK, Idle
<1> QED
  BY <1>7, <1>9, <1>10, <1>11, <1>12, <1>13, Lands DEF FlowOK

LEMMA ClockKeeps ==
    ASSUME FlowInv, NEW i \in 1..MaxTasks, Clock(i)
    PROVE  FlowInv'
<1>1. PICK u \in TaskType : u = tasks[i]
  BY AtWork DEF Clock
<1>2. FlowTypeOK /\ OneTask /\ i \in Busy /\ FlowOK(u) /\ u.at = "clock"
  BY <1>1, AtWork DEF Clock
<1>3. UNCHANGED <<phase, turnSeat, standing, pot, upsets, timers, slot>>
  BY DEF Clock, shell, others
<1>4. jobs' = {}
  BY <1>2, CancelsAll DEF Clock, FlowOK
<1>5. u.seat \in SeatOrNone /\ "arm" \in Ats
  BY DEF TaskType, Ats
<1>6. PICK t \in TaskType : Becomes(t) /\ t.at = "arm" /\ t.seat = u.seat /\ t.kicked = u.kicked
  BY <1>1, <1>2, <1>5, GoesOn DEF Clock
<1>7. FlowTypeOK'
  BY <1>2, <1>3, <1>4, <1>6 DEF FlowTypeOK, Becomes
<1>8. HandOK(t)' /\ KeyOK'
  BY <1>2, <1>3, <1>4, <1>6 DEF FlowOK, HandOK, KeyOK
<1>9. ClockOK(t)'
  BY <1>2, <1>3, <1>6, ShellStays DEF FlowOK, ClockOK, Advancing
<1>10. PotOK(t)'
  BY <1>2, <1>3, <1>6, ShellStays DEF FlowOK, PotOK
<1>11. StartOK(t)'
  BY <1>2, <1>3, <1>6, ShellStays DEF FlowOK, StartOK, Starting
<1> QED
  BY <1>6, <1>7, <1>8, <1>9, <1>10, <1>11, Lands DEF FlowOK

LEMMA ArmKeeps ==
    ASSUME FlowInv, NEW i \in 1..MaxTasks, Arm(i)
    PROVE  FlowInv'
<1>1. PICK u \in TaskType : u = tasks[i]
  BY AtWork DEF Arm
<1>2. FlowTypeOK /\ OneTask /\ i \in Busy /\ FlowOK(u) /\ u.at = "arm"
  BY <1>1, AtWork DEF Arm
<1>3. UNCHANGED <<phase, turnSeat, standing, pot, upsets, timers, slot>>
  BY DEF Arm, shell, others
<1>4. PICK id : jobs' = {[id |-> id, seat |-> u.seat]} /\ key' = id
  BY <1>1, <1>2 DEF Arm, FlowOK, HandOK
<1>5. u.seat \in Seats /\ u.kicked \in SeatOrNone
  BY <1>2 DEF TaskType, FlowOK, HandOK
<1>6. PICK t \in TaskType :
         /\ Becomes(t) /\ t.kicked = NoSeat
         /\ \/ u.kicked = NoSeat /\ t = Idle
            \/ u.kicked # NoSeat /\ t.at = "leave" /\ t.seat = u.kicked
  <2>1. CASE u.kicked = NoSeat
    <3>1. Idle.kicked = NoSeat /\ Idle \in TaskType
      BY IdleType DEF Idle
    <3> QED
      BY <1>1, <1>2, <2>1, <3>1, Ends DEF Arm
  <2>2. CASE u.kicked # NoSeat
    <3>1. PICK t \in TaskType : t = Task("leave", u.kicked, "none", "none")
      BY <1>5, TaskIs DEF Ats
    <3>2. Becomes(t)
      BY <1>1, <1>2, <2>2, <3>1, OneGoesOn DEF Arm
    <3>3. t.at = "leave" /\ t.seat = u.kicked /\ t.kicked = NoSeat
      BY <3>1 DEF Task
    <3> QED
      BY <2>2, <3>2, <3>3
  <2> QED
    BY <2>1, <2>2
<1>7. FlowTypeOK'
  BY <1>2, <1>3, <1>4, <1>5, <1>6 DEF FlowTypeOK, Becomes
<1>8. HandOK(t)'
  BY <1>2, <1>3, <1>5, <1>6 DEF FlowOK, HandOK, Idle, SeatOrNone
<1>9. KeyOK'
  BY <1>4 DEF KeyOK
<1>10. ClockOK(t)'
  <2>1. u.seat = turnSeat /\ MayMove => Watched'
    BY <1>3, <1>4, ShellStays DEF Watched
  <2>2. Advancing => Watched'
    BY <1>3 DEF Watched, Advancing
  <2> QED
    BY <1>2, <1>3, <1>6, <2>1, <2>2, ShellStays DEF FlowOK, ClockOK, Idle
<1>11. PotOK(t)'
  BY <1>2, <1>3, <1>6, ShellStays DEF FlowOK, PotOK, Idle
<1>12. StartOK(t)'
  BY <1>2, <1>3, <1>6, ShellStays DEF FlowOK, StartOK, Idle, Starting
<1> QED
  BY <1>6, <1>7, <1>8, <1>9, <1>10, <1>11, <1>12, Lands DEF FlowOK

LEMMA ExpireKeeps ==
    ASSUME FlowInv, NEW i \in 1..MaxTasks, Expire(i)
    PROVE  FlowInv'
<1>1. PICK u \in TaskType : u = tasks[i]
  BY AtWork DEF Expire
<1>2. FlowTypeOK /\ OneTask /\ i \in Busy /\ FlowOK(u) /\ u.at = "expire"
  BY <1>1, AtWork DEF Expire
<1>3. UNCHANGED <<phase, turnSeat, standing, pot, upsets, timers, slot, jobs, key>>
  BY DEF Expire, shell, others
<1>4. u.seat \in SeatOrNone /\ "fine" \in Ats /\ u.kicked = NoSeat
  BY <1>2 DEF TaskType, Ats, FlowOK, HandOK
<1>5. PICK t \in TaskType :
         /\ Becomes(t) /\ t.kicked = NoSeat
         /\ \/ u.seat # turnSeat /\ t = Idle
            \/ u.seat = turnSeat /\ t.at = "fine" /\ t.seat = u.seat
  <2>1. Idle.kicked = NoSeat /\ Idle \in TaskType
    BY IdleType DEF Idle
  <2> QED
    BY <1>1, <1>2, <1>4, <2>1, Ends, GoesOn DEF Expire
<1>6. FlowTypeOK'
  BY <1>2, <1>3, <1>5 DEF FlowTypeOK, Becomes
<1>7. HandOK(t)' /\ KeyOK'
  BY <1>2, <1>3, <1>5 DEF FlowOK, HandOK, KeyOK, Idle
<1>8. ClockOK(t)'
  BY <1>2, <1>3, <1>5, ShellStays DEF FlowOK, ClockOK, Idle, Watched, Advancing
<1>9. PotOK(t)'
  BY <1>2, <1>3, <1>5, ShellStays DEF FlowOK, PotOK, Idle
<1>10. StartOK(t)'
  BY <1>2, <1>3, <1>5, ShellStays DEF FlowOK, StartOK, Idle, Starting
<1> QED
  BY <1>5, <1>6, <1>7, <1>8, <1>9, <1>10, Lands DEF FlowOK

LEMMA FineKeeps ==
    ASSUME FlowInv, NEW i \in 1..MaxTasks, Fine(i)
    PROVE  FlowInv'
<1>1. PICK u \in TaskType : u = tasks[i]
  BY AtWork DEF Fine
<1>2. FlowTypeOK /\ OneTask /\ i \in Busy /\ FlowOK(u) /\ u.at = "fine"
  BY <1>1, AtWork DEF Fine
<1>3. UNCHANGED <<jobs, key, upsets>>
  BY DEF Fine
<1>4. PICK s \in Seats : s = u.seat
  BY <1>2 DEF FlowOK, HandOK
<1>5. u.kicked = NoSeat /\ {"clock", "advance"} \subseteq Ats /\ NoSeat \in SeatOrNone
      /\ s \in SeatOrNone
  BY <1>2 DEF Ats, FlowOK, HandOK, SeatOrNone
<1>6. KeyOK'
  BY <1>2, <1>3 DEF FlowOK, KeyOK
<1>7. CASE /\ turnSeat # s \/ standing[s] = "empty"
           /\ End(i)
           /\ UNCHANGED <<shell, timers, slot, aside, banks>>
  <2>1. Becomes(Idle)
    BY <1>2, <1>7, Ends
  <2>2. UNCHANGED <<phase, turnSeat, standing, pot, upsets, timers, slot, jobs, key>>
    BY <1>3, <1>7 DEF shell
  <2>3. FlowTypeOK' /\ HandOK(Idle)'
    BY <1>2, <2>1, <2>2 DEF FlowTypeOK, Becomes, HandOK, Idle
  <2>4. ClockOK(Idle)'
    BY <1>2, <1>4, <1>7, <2>2, ShellStays DEF FlowOK, ClockOK, Idle, Watched, Advancing, MayMove
  <2>5. PotOK(Idle)' /\ StartOK(Idle)'
    BY <1>2, <2>2, ShellStays DEF FlowOK, PotOK, StartOK, Idle, Starting
  <2> QED
    BY <1>6, <2>1, <2>3, <2>4, <2>5, Lands DEF FlowOK
<1>8. CASE TimeoutScript(s, "extended") /\ Go(i, "clock", s) /\ UNCHANGED <<timers, slot, aside>>
  <2>1. PICK t \in TaskType : Becomes(t) /\ t.at = "clock" /\ t.seat = s /\ t.kicked = NoSeat
    BY <1>1, <1>2, <1>5, <1>8, GoesOn
  <2>2. /\ UNCHANGED <<phase, turnSeat, standing, pot, upsets, timers, slot, jobs, key>>
        /\ turnSeat = s
    BY <1>3, <1>8 DEF TimeoutScript, Moved, shell
  <2>3. FlowTypeOK' /\ HandOK(t)'
    BY <1>2, <2>1, <2>2 DEF FlowTypeOK, Becomes, HandOK
  <2>4. ClockOK(t)'
    BY <1>2, <1>4, <2>1, <2>2, ShellStays DEF FlowOK, ClockOK, Watched, Advancing
  <2>5. PotOK(t)' /\ StartOK(t)'
    BY <1>2, <2>1, <2>2, ShellStays DEF FlowOK, PotOK, StartOK, Starting
  <2> QED
    BY <1>6, <2>1, <2>3, <2>4, <2>5, Lands DEF FlowOK
<1>9. CASE \E answer \in {"complete", "street", "play"} :
              /\ TimeoutScript(s, answer)
              /\ answer # "complete" => pot' = pot
              /\ IF answer = "complete" THEN End(i) /\ ArmBare("resume")
                 ELSE /\ UNCHANGED <<timers, slot>>
                      /\ IF answer = "street" THEN Go(i, "advance", NoSeat)
                                              ELSE Go(i, "clock", turnSeat')
  <2>1. PICK answer \in {"complete", "street", "play"} :
              /\ TimeoutScript(s, answer)
              /\ answer # "complete" => pot' = pot
              /\ IF answer = "complete" THEN End(i) /\ ArmBare("resume")
                 ELSE /\ UNCHANGED <<timers, slot>>
                      /\ IF answer = "street" THEN Go(i, "advance", NoSeat)
                                              ELSE Go(i, "clock", turnSeat')
    BY <1>9
  <2>2. PICK st : st = [standing EXCEPT ![s] = "folded"]
    OBVIOUS
  <2>3. /\ st \in [Seats -> Standings] /\ st[s] = "folded"
        /\ \A r \in Seats \ {s} : st[r] = standing[r]
    BY <1>2, <2>2 DEF FlowTypeOK, Standings
  <2>4. Moved(s, st, answer) /\ pot' \in {pot, FALSE}
    BY <2>1, <2>2 DEF TimeoutScript
  <2>5. /\ standing' = st /\ turnSeat' \in SeatOrNone
        /\ answer = "complete" => phase' = "showdown" /\ pot' = FALSE
        /\ answer # "complete" => phase' = phase /\ Cardinality(Live(st)) # 1
        /\ answer = "play" => MayMove'
    BY <1>2, <2>3, <2>4, MovedIs
  <2>6. PICK t \in TaskType :
           /\ Becomes(t) /\ t.kicked = NoSeat
           /\ \/ answer = "complete" /\ t = Idle
              \/ answer = "street" /\ t.at = "advance"
              \/ answer = "play" /\ t.at = "clock" /\ t.seat = turnSeat'
    <3>1. Idle.kicked = NoSeat /\ Idle \in TaskType
      BY IdleType DEF Idle
    <3> QED
      BY <1>1, <1>2, <1>5, <2>1, <2>5, <3>1, Ends, GoesOn
  <2>7. /\ timers' \in Seq(TimerType) /\ slot' \in Ids \cup {NoTimer}
        /\ Starting => Starting'
        /\ answer = "complete" => Starting'
    <3>1. "resume" \in DOMAIN Delay
      BY DEF Delay
    <3> QED
      BY <1>2, <2>1, <3>1, ArmSets DEF Starting, FlowTypeOK
  <2>8. FlowTypeOK'
    BY <1>2, <1>3, <2>3, <2>4, <2>5, <2>6, <2>7 DEF FlowTypeOK, Becomes, Phases
  <2>9. HandOK(t)' /\ ClockOK(t)'
    BY <2>5, <2>6 DEF HandOK, ClockOK, Idle, MayMove, Streets
  <2>10. answer # "complete" /\ Rivals => Rivals'
    BY <1>2, <2>3, <2>5, RivalsStay
  <2>11. PotOK(t)'
    BY <1>2, <1>3, <2>1, <2>5, <2>6, <2>10 DEF FlowOK, PotOK, Idle, Unpaid, Streets
  <2>12. StartOK(t)'
    <3>1. CASE answer = "complete"
      BY <2>7, <3>1 DEF StartOK
    <3>2. CASE answer # "complete" /\ phase = "waiting" /\ Cardinality(Ready) < 2
      <4>1. PICK T : T = Ready
        OBVIOUS
      <4>2. PICK U : U = Ready'
        OBVIOUS
      <4>3. T \in SUBSET Seats /\ U \in SUBSET T
        BY <2>3, <2>5, <3>2, <4>1, <4>2 DEF Ready, Standing
      <4>4. Cardinality(U) < 2
        BY <3>2, <4>1, <4>3, Fewer
      <4> QED
        BY <2>5, <3>2, <4>2, <4>4 DEF StartOK
    <3>3. CASE answer # "complete" /\ ~(phase = "waiting" /\ Cardinality(Ready) < 2)
      BY <1>2, <1>3, <2>5, <2>7, <3>3 DEF FlowOK, StartOK, Astray
    <3> QED
      BY <3>1, <3>2, <3>3
  <2> QED
    BY <1>6, <2>6, <2>8, <2>9, <2>11, <2>12, Lands DEF FlowOK
<1> QED
  BY <1>1, <1>4, <1>7, <1>8, <1>9 DEF Fine

(***************************************************************************)
(* Streets and showdowns.                                                  *)
(***************************************************************************)
LEMMA AdvanceKeeps ==
    ASSUME FlowInv, NEW i \in 1..MaxTasks, Advance(i)
    PROVE  FlowInv'
<1>1. PICK u \in TaskType : u = tasks[i]
  BY AtWork DEF Advance
<1>2. FlowTypeOK /\ OneTask /\ i \in Busy /\ FlowOK(u) /\ u.at = "advance"
  BY <1>1, AtWork DEF Advance
<1>3. /\ UNCHANGED <<phase, turnSeat, standing, pot, upsets, timers, jobs, key>>
      /\ slot' \in {slot, NoTimer}
  BY DEF Advance, shell, others
<1>4. NoSeat \in SeatOrNone /\ "turn" \in Ats /\ u.kicked = NoSeat
  BY <1>2 DEF SeatOrNone, Ats, FlowOK, HandOK
<1>5. PICK t \in TaskType :
         /\ Becomes(t) /\ t.kicked = NoSeat
         /\ \/ phase = "waiting" /\ t = Idle
            \/ phase # "waiting" /\ t.at = "turn"
  <2>1. Idle.kicked = NoSeat /\ Idle \in TaskType
    BY IdleType DEF Idle
  <2> QED
    BY <1>1, <1>2, <1>4, <2>1, Ends, GoesOn DEF Advance
<1>6. FlowTypeOK'
  BY <1>2, <1>3, <1>5 DEF FlowTypeOK, Becomes
<1>7. HandOK(t)' /\ KeyOK'
  BY <1>2, <1>3, <1>5 DEF FlowOK, HandOK, KeyOK, Idle
<1>8. ClockOK(t)'
  BY <1>3, <1>5 DEF ClockOK, Idle, Streets
<1>9. PotOK(t)'
  BY <1>2, <1>3, <1>5, ShellStays DEF FlowOK, PotOK, Idle
<1>10. StartOK(t)'
  BY <1>2, <1>3, <1>5, ShellStays DEF FlowOK, StartOK, Idle, Starting
<1> QED
  BY <1>5, <1>6, <1>7, <1>8, <1>9, <1>10, Lands DEF FlowOK

\* Where a street leaves the phase and the turn.
LEMMA StreetIs ==
    ASSUME NEW answer, NextStreetScript(answer)
    PROVE  /\ phase \in Streets /\ UNCHANGED <<standing, pot, hands>>
           /\ turnSeat' \in SeatOrNone
           /\ answer = "showdown" => phase' = "showdown"
           /\ answer # "showdown" => phase' \in Streets
           /\ answer = "play" => MayMove'
<1>1. phase = "river" <=> answer = "showdown"
  BY DEF NextStreetScript
<1>2. phase' = StreetAfter[phase] /\ phase \in {"preflop", "flop", "turn", "river"}
  BY DEF NextStreetScript, Streets
<1>3. (phase = "river" => phase' = "showdown") /\ (phase # "river" => phase' \in Streets)
  BY <1>2 DEF StreetAfter, Streets
<1>4. answer = "play" => Acting(standing) # {}
  BY DEF NextStreetScript, RunsOut
<1>5. \A s \in Acting(standing) : s \in Seats /\ standing[s] = "active"
  BY DEF Acting, Standing
<1> QED
  BY <1>1, <1>3, <1>4, <1>5 DEF NextStreetScript, SeatOrNone, MayMove

LEMMA TurnKeeps ==
    ASSUME FlowInv, NEW i \in 1..MaxTasks, Turn(i)
    PROVE  FlowInv'
<1>1. PICK u \in TaskType : u = tasks[i]
  BY AtWork DEF Turn
<1>2. FlowTypeOK /\ OneTask /\ i \in Busy /\ FlowOK(u) /\ u.at = "turn"
  BY <1>1, AtWork DEF Turn
<1>3. UNCHANGED <<jobs, key, upsets>>
  BY DEF Turn
<1>4. u.kicked = NoSeat /\ {"judge", "clock"} \subseteq Ats /\ NoSeat \in SeatOrNone
  BY <1>2 DEF SeatOrNone, Ats, FlowOK, HandOK
<1>5. KeyOK'
  BY <1>2, <1>3 DEF FlowOK, KeyOK
<1>6. CASE phase \notin Streets /\ End(i) /\ UNCHANGED <<shell, timers, slot, bets>>
  <2>1. Becomes(Idle)
    BY <1>2, <1>6, Ends
  <2>2. UNCHANGED <<phase, turnSeat, standing, pot, upsets, timers, slot, jobs, key>>
    BY <1>3, <1>6 DEF shell
  <2>3. FlowTypeOK' /\ HandOK(Idle)' /\ ClockOK(Idle)'
    BY <1>2, <1>6, <2>1, <2>2 DEF FlowTypeOK, Becomes, HandOK, ClockOK, Idle
  <2>4. PotOK(Idle)' /\ StartOK(Idle)'
    BY <1>2, <2>2, ShellStays DEF FlowOK, PotOK, StartOK, Idle, Starting
  <2> QED
    BY <1>5, <2>1, <2>3, <2>4, Lands DEF FlowOK
<1>7. CASE \/ NextStreetScript("showdown") /\ Go(i, "judge", NoSeat) /\ UNCHANGED <<timers, slot>>
           \/ NextStreetScript("runout") /\ End(i) /\ ArmTracked("advance")
           \/ NextStreetScript("play") /\ Go(i, "clock", turnSeat') /\ UNCHANGED <<timers, slot>>
  <2>1. PICK answer \in {"showdown", "runout", "play"} :
           /\ NextStreetScript(answer)
           /\ \/ answer = "showdown" /\ Go(i, "judge", NoSeat) /\ UNCHANGED <<timers, slot>>
              \/ answer = "runout" /\ End(i) /\ ArmTracked("advance")
              \/ answer = "play" /\ Go(i, "clock", turnSeat') /\ UNCHANGED <<timers, slot>>
    BY <1>7
  <2>2. /\ phase \in Streets /\ UNCHANGED <<standing, pot, hands>>
        /\ turnSeat' \in SeatOrNone
        /\ answer = "showdown" => phase' = "showdown"
        /\ answer # "showdown" => phase' \in Streets
        /\ answer = "play" => MayMove'
    BY <2>1, StreetIs
  <2>3. PICK t \in TaskType :
           /\ Becomes(t) /\ t.kicked = NoSeat
           /\ \/ answer = "showdown" /\ t.at = "judge"
              \/ answer = "runout" /\ t = Idle
              \/ answer = "play" /\ t.at = "clock" /\ t.seat = turnSeat'
    <3>1. Idle.kicked = NoSeat /\ Idle \in TaskType
      BY IdleType DEF Idle
    <3> QED
      BY <1>1, <1>2, <1>4, <2>1, <2>2, <3>1, Ends, GoesOn
  <2>4. /\ timers' \in Seq(TimerType) /\ slot' \in Ids \cup {NoTimer}
        /\ answer = "runout" => Advancing'
    <3>1. "advance" \in DOMAIN Delay
      BY DEF Delay
    <3> QED
      BY <1>2, <2>1, <3>1, ArmSets DEF FlowTypeOK
  <2>5. FlowTypeOK'
    BY <1>2, <1>3, <2>2, <2>3, <2>4 DEF FlowTypeOK, Becomes, Phases
  <2>6. "left" \in upsets' \/ Rivals'
    BY <1>2, <1>3, <2>2 DEF FlowOK, PotOK, Rivals, Live, Standing
  <2>7. HandOK(t)'
    BY <2>2, <2>3, <2>6 DEF HandOK, Idle, MayMove
  <2>8. ClockOK(t)'
    BY <2>2, <2>3, <2>4 DEF ClockOK, Idle, Streets, Watched
  <2>9. PotOK(t)' /\ StartOK(t)'
    BY <2>2, <2>3, <2>6 DEF PotOK, StartOK, Streets
  <2> QED
    BY <1>5, <2>3, <2>5, <2>7, <2>8, <2>9, Lands DEF FlowOK
<1> QED
  BY <1>6, <1>7 DEF Turn

LEMMA JudgeKeeps ==
    ASSUME FlowInv, NEW i \in 1..MaxTasks, Judge(i)
    PROVE  FlowInv'
<1>1. PICK u \in TaskType : u = tasks[i]
  BY AtWork DEF Judge
<1>2. FlowTypeOK /\ OneTask /\ i \in Busy /\ FlowOK(u) /\ u.at = "judge"
  BY <1>1, AtWork DEF Judge
<1>3. UNCHANGED <<phase, turnSeat, standing, pot, upsets, jobs, key>>
  BY DEF Judge, shell, others
<1>4. /\ phase = "showdown" /\ u.kicked = NoSeat
      /\ "left" \in upsets \/ Live(standing) # {}
      /\ NoSeat \in SeatOrNone /\ "settle" \in Ats
  BY <1>2 DEF FlowOK, HandOK, SeatOrNone, Ats, Rivals
<1>5. PICK t \in TaskType :
         /\ Becomes(t) /\ t.kicked = NoSeat
         /\ \/ "left" \in upsets /\ t = Idle /\ ArmTracked("fallback")
            \/ t.at = "settle" /\ UNCHANGED <<timers, slot>>
  <2>1. Idle.kicked = NoSeat /\ Idle \in TaskType
    BY IdleType DEF Idle
  <2> QED
    BY <1>1, <1>2, <1>4, <2>1, Ends, GoesOn DEF Judge
<1>6. timers' \in Seq(TimerType) /\ slot' \in Ids \cup {NoTimer} /\ (t = Idle => Starting')
  <2>1. "fallback" \in DOMAIN Delay
    BY DEF Delay
  <2>2. t.at = "settle" => t # Idle
    BY DEF Idle
  <2> QED
    BY <1>2, <1>5, <2>1, <2>2, ArmSets DEF FlowTypeOK
<1>7. FlowTypeOK'
  BY <1>2, <1>3, <1>5, <1>6 DEF FlowTypeOK, Becomes
<1>8. HandOK(t)' /\ KeyOK' /\ ClockOK(t)'
  BY <1>2, <1>3, <1>4, <1>5 DEF FlowOK, HandOK, KeyOK, ClockOK, Idle, Streets
<1>9. PotOK(t)'
  BY <1>3, <1>4, <1>5 DEF PotOK, Unpaid, Streets
<1>10. StartOK(t)'
  BY <1>5, <1>6 DEF StartOK
<1> QED
  BY <1>5, <1>7, <1>8, <1>9, <1>10, Lands DEF FlowOK

LEMMA SettleKeeps ==
    ASSUME FlowInv, NEW i \in 1..MaxTasks, Settle(i)
    PROVE  FlowInv'
<1>1. PICK u \in TaskType : u = tasks[i]
  BY AtWork DEF Settle
<1>2. FlowTypeOK /\ OneTask /\ i \in Busy /\ FlowOK(u)
  BY <1>1, AtWork DEF Settle
<1>3. PICK broke : ShowdownScript(broke)
  BY DEF Settle
<1>4. /\ UNCHANGED <<turnSeat, upsets, jobs, key>> /\ phase' = "waiting" /\ pot' = FALSE
      /\ standing' \in [Seats -> Standings]
  BY <1>2, <1>3 DEF Settle, ShowdownScript, others, FlowTypeOK, Standings
<1>5. Becomes(Idle)
  BY <1>2, Ends DEF Settle
<1>6. timers' \in Seq(TimerType) /\ slot' \in Ids \cup {NoTimer} /\ Starting'
  <2>1. "celebrate" \in DOMAIN Delay
    BY DEF Delay
  <2> QED
    BY <1>2, <2>1, ArmSets DEF Settle
<1>7. FlowTypeOK'
  BY <1>2, <1>4, <1>5, <1>6 DEF FlowTypeOK, Becomes, Phases
<1>8. FlowOK(Idle)'
  BY <1>2, <1>4, <1>6 DEF FlowOK, HandOK, ClockOK, PotOK, KeyOK, StartOK, Idle, Streets
<1> QED
  BY <1>5, <1>7, <1>8, Lands

LEMMA SettleFailsKeeps ==
    ASSUME FlowInv, NEW i \in 1..MaxTasks, SettleFails(i)
    PROVE  FlowInv'
<1>1. PICK u \in TaskType : u = tasks[i]
  BY AtWork DEF SettleFails
<1>2. FlowTypeOK /\ OneTask /\ i \in Busy /\ FlowOK(u) /\ u.at = "settle"
  BY <1>1, AtWork DEF SettleFails
<1>3. /\ UNCHANGED <<phase, turnSeat, standing, pot, jobs, key>> /\ phase = "showdown"
      /\ upsets' = upsets \cup {"failed"}
  BY <1>2 DEF SettleFails, shell, FlowOK, HandOK
<1>4. Becomes(Idle)
  BY <1>2, Ends DEF SettleFails
<1>5. timers' \in Seq(TimerType) /\ slot' \in Ids \cup {NoTimer} /\ Starting'
  <2>1. "recover" \in DOMAIN Delay
    BY DEF Delay
  <2> QED
    BY <1>2, <2>1, ArmSets DEF SettleFails
<1>6. FlowTypeOK'
  BY <1>2, <1>3, <1>4, <1>5 DEF FlowTypeOK, Becomes
<1>7. Unpaid'
  BY <1>3 DEF Unpaid
<1>8. FlowOK(Idle)'
  BY <1>2, <1>3, <1>5, <1>7 DEF FlowOK, HandOK, ClockOK, PotOK, KeyOK, StartOK, Idle, Streets
<1> QED
  BY <1>4, <1>6, <1>8, Lands

(***************************************************************************)
(* A new hand, and a seat given up.                                        *)
(***************************************************************************)
LEMMA StartKeeps ==
    ASSUME FlowInv, NEW i \in 1..MaxTasks, Start(i)
    PROVE  FlowInv'
<1>1. PICK u \in TaskType : u = tasks[i]
  BY AtWork DEF Start
<1>2. FlowTypeOK /\ OneTask /\ i \in Busy /\ FlowOK(u) /\ u.at = "start"
  BY <1>1, AtWork DEF Start
<1>3. UNCHANGED <<phase, turnSeat, standing, pot, upsets, timers, slot, jobs, key>>
  BY DEF Start, shell, others
<1>4. NoSeat \in SeatOrNone /\ "deal" \in Ats /\ u.kicked = NoSeat
  BY <1>2 DEF SeatOrNone, Ats, FlowOK, HandOK
<1>5. PICK t \in TaskType :
         /\ Becomes(t) /\ t.kicked = NoSeat
         /\ \/ phase \in {"waiting", "showdown"} /\ t.at = "deal"
            \/ phase \notin {"waiting", "showdown"} /\ t = Idle
  <2>1. Idle.kicked = NoSeat /\ Idle \in TaskType
    BY IdleType DEF Idle
  <2> QED
    BY <1>1, <1>2, <1>4, <2>1, Ends, GoesOn DEF Start
<1>6. FlowTypeOK'
  BY <1>2, <1>3, <1>5 DEF FlowTypeOK, Becomes
<1>7. HandOK(t)' /\ KeyOK'
  BY <1>2, <1>3, <1>5 DEF FlowOK, HandOK, KeyOK, Idle
<1>8. ClockOK(t)'
  BY <1>2, <1>3, <1>5, ShellStays DEF FlowOK, ClockOK, Idle, Watched, Advancing
<1>9. PotOK(t)'
  BY <1>2, <1>3, <1>5, ShellStays DEF FlowOK, PotOK, Idle
<1>10. StartOK(t)'
  BY <1>3, <1>5 DEF StartOK
<1> QED
  BY <1>5, <1>6, <1>7, <1>8, <1>9, <1>10, Lands DEF FlowOK

\* The clock of a new hand, and the seat to be sent off.
LEMMA GoesKicking ==
    ASSUME FlowTypeOK, OneTask, NEW i \in Busy, NEW seat \in SeatOrNone,
           NEW kicked \in SeatOrNone, GoKicking(i, seat, kicked)
    PROVE  \E t \in TaskType : Becomes(t) /\ t.at = "clock" /\ t.seat = seat /\ t.kicked = kicked
<1>1. tasks \in [1..MaxTasks -> TaskType] /\ i \in 1..MaxTasks
  BY DEF FlowTypeOK, Busy
<1>2. PICK u \in TaskType : u = tasks[i]
  BY <1>1
<1>3. PICK f : f = [tasks EXCEPT ![i].at = "clock"]
  OBVIOUS
<1>4. PICK g : g = [f EXCEPT ![i].seat = seat]
  OBVIOUS
<1>5. PICK r : r = [u EXCEPT !.at = "clock"]
  OBVIOUS
<1>6. PICK q : q = [r EXCEPT !.seat = seat]
  OBVIOUS
<1>7. PICK t : t = [q EXCEPT !.kicked = kicked]
  OBVIOUS
<1>8. f = [tasks EXCEPT ![i] = r]
  BY <1>1, <1>2, <1>3, <1>5
<1>9. g = [tasks EXCEPT ![i] = q]
  BY <1>1, <1>4, <1>6, <1>8
<1>10. tasks' = [g EXCEPT ![i].kicked = kicked]
  BY <1>3, <1>4 DEF GoKicking
<1>11. tasks' = [tasks EXCEPT ![i] = t]
  BY <1>1, <1>7, <1>9, <1>10
<1>12. r \in TaskType
  BY <1>5 DEF TaskType, Ats
<1>13. q \in TaskType
  BY <1>6, <1>12 DEF TaskType
<1>14. t \in TaskType /\ t.at = "clock" /\ t.seat = seat /\ t.kicked = kicked
  BY <1>5, <1>6, <1>7, <1>12, <1>13 DEF TaskType
<1> QED
  BY <1>11, <1>14, OneGoesOn

LEMMA DealKeeps ==
    ASSUME FlowInv, NEW i \in 1..MaxTasks, Deal(i)
    PROVE  FlowInv'
<1>1. PICK u \in TaskType : u = tasks[i]
  BY AtWork DEF Deal
<1>2. FlowTypeOK /\ OneTask /\ i \in Busy /\ FlowOK(u) /\ u.at = "deal"
  BY <1>1, AtWork DEF Deal
<1>3. UNCHANGED <<timers, slot, jobs, key>>
  BY DEF Deal
<1>4. PICK kicked \in {NoSeat} \cup ((lnbb \cap Dealable) \ aside) :
        LET stay == Dealable \ (aside \cup {kicked})
            asides == [s \in Seats |-> IF s = kicked THEN "parked"
                                       ELSE IF s \in aside \cap Dealable THEN "out"
                                       ELSE standing[s]]
        IN  \/ /\ NextHandScript(stay, asides, "few")
               /\ IF kicked = NoSeat THEN End(i) ELSE Go(i, "leave", kicked)
               /\ UNCHANGED upsets
            \/ /\ NextHandScript(stay, asides, "dealt")
               /\ pot'
               /\ GoKicking(i, turnSeat', kicked)
               /\ upsets' = {}
  BY DEF Deal
<1>5. PICK stay : stay = Dealable \ (aside \cup {kicked})
  OBVIOUS
<1>6. PICK asides : asides = [s \in Seats |-> IF s = kicked THEN "parked"
                                              ELSE IF s \in aside \cap Dealable THEN "out"
                                              ELSE standing[s]]
  OBVIOUS
<1>7. /\ stay \in SUBSET Seats /\ asides \in [Seats -> Standings] /\ kicked \in SeatOrNone
      /\ kicked # NoSeat => kicked \in Seats \ stay /\ asides[kicked] = "parked"
      /\ \A s \in Seats \ stay : asides[s] \notin {"active", "waiting"}
  <2>1. Dealable \in SUBSET Seats /\ standing \in [Seats -> Standings]
    BY <1>2 DEF Dealable, Standing, FlowTypeOK
  <2>2. \A s \in Seats : standing[s] \in {"active", "waiting"} => s \in Dealable
    BY DEF Dealable, Standing
  <2> QED
    BY <1>4, <1>5, <1>6, <2>1, <2>2 DEF Standings, SeatOrNone
<1>8. /\ phase \in {"waiting", "showdown"} /\ u.kicked = NoSeat
      /\ pot => Unpaid
      /\ NoSeat \in SeatOrNone /\ "leave" \in Ats /\ NoSeat \notin Seats
  BY <1>2, SeatsAssumption DEF FlowOK, HandOK, PotOK, SeatOrNone, Ats, NoSeat
<1>9. KeyOK'
  BY <1>2, <1>3 DEF FlowOK, KeyOK
<1>10. CASE /\ NextHandScript(stay, asides, "few")
            /\ IF kicked = NoSeat THEN End(i) ELSE Go(i, "leave", kicked)
            /\ UNCHANGED upsets
  <2>1. /\ standing' = [s \in Seats |-> IF s \in stay THEN "active" ELSE asides[s]]
        /\ phase' = "waiting" /\ UNCHANGED <<turnSeat, pot>>
        /\ Cardinality(stay) < 2
    BY <1>10 DEF NextHandScript, Swept
  <2>2. PICK t \in TaskType :
           /\ Becomes(t) /\ t.kicked = NoSeat
           /\ \/ kicked = NoSeat /\ t = Idle
              \/ kicked # NoSeat /\ t.at = "leave" /\ t.seat = kicked
    <3>1. Idle.kicked = NoSeat /\ Idle \in TaskType
      BY IdleType DEF Idle
    <3> QED
      BY <1>1, <1>2, <1>7, <1>8, <1>10, <3>1, Ends, GoesOn
  <2>3. FlowTypeOK'
    BY <1>2, <1>3, <1>7, <2>1, <2>2 DEF FlowTypeOK, Becomes, Phases, Standings
  <2>4. kicked # NoSeat => standing'[kicked] = "parked"
    BY <1>7, <2>1
  <2>5. HandOK(t)' /\ ClockOK(t)'
    BY <1>7, <2>1, <2>2, <2>4 DEF HandOK, ClockOK, Idle, Streets
  <2>6. PotOK(t)'
    BY <1>8, <1>10, <2>1 DEF PotOK, Unpaid, Streets
  <2>7. StartOK(t)'
    <3>1. PICK U : U = Ready'
      OBVIOUS
    <3>2. U \in SUBSET stay
      BY <1>7, <2>1, <3>1 DEF Ready, Standing
    <3>3. Cardinality(U) < 2
      BY <1>7, <2>1, <3>2, Fewer
    <3> QED
      BY <2>1, <3>1, <3>3 DEF StartOK
  <2> QED
    BY <1>9, <2>2, <2>3, <2>5, <2>6, <2>7, Lands DEF FlowOK
<1>11. CASE /\ NextHandScript(stay, asides, "dealt")
            /\ pot'
            /\ GoKicking(i, turnSeat', kicked)
            /\ upsets' = {}
  <2>1. /\ standing' = [s \in Seats |-> IF s \in stay THEN "active" ELSE asides[s]]
        /\ phase' = "preflop" /\ turnSeat' \in stay /\ pot' \in BOOLEAN
        /\ Cardinality(stay) >= 2
    BY <1>11 DEF NextHandScript, Swept
  <2>2. PICK t \in TaskType :
           Becomes(t) /\ t.at = "clock" /\ t.seat = turnSeat' /\ t.kicked = kicked
    <3>1. turnSeat' \in SeatOrNone
      BY <1>7, <2>1 DEF SeatOrNone
    <3> QED
      BY <1>2, <1>7, <1>11, <3>1, GoesKicking
  <2>3. FlowTypeOK'
    BY <1>2, <1>3, <1>7, <2>1, <2>2 DEF FlowTypeOK, Becomes, Phases, Standings, SeatOrNone, Streets
  <2>4. MayMove' /\ Rivals'
    <3>1. stay \subseteq Live(standing')
      BY <1>7, <2>1 DEF Live, Standing
    <3>2. \E r, s \in stay : r # s
      BY <1>7, <2>1, TwoSeats
    <3> QED
      BY <1>7, <2>1, <3>1, <3>2 DEF MayMove, Rivals
  <2>5. kicked # NoSeat => standing'[kicked] = "parked"
    BY <1>7, <2>1
  <2>6. HandOK(t)'
    BY <1>7, <2>1, <2>2, <2>5 DEF HandOK
  <2>7. ClockOK(t)' /\ PotOK(t)' /\ StartOK(t)'
    BY <2>1, <2>2, <2>4 DEF ClockOK, PotOK, StartOK
  <2> QED
    BY <1>9, <2>2, <2>3, <2>6, <2>7, Lands DEF FlowOK
<1> QED
  BY <1>4, <1>5, <1>6, <1>10, <1>11

LEMMA LeaveTableKeeps ==
    ASSUME FlowInv, NEW i \in 1..MaxTasks, LeaveTable(i)
    PROVE  FlowInv'
<1>1. PICK u \in TaskType : u = tasks[i]
  BY AtWork DEF LeaveTable
<1>2. FlowTypeOK /\ OneTask /\ i \in Busy /\ FlowOK(u) /\ u.at = "leave"
  BY <1>1, AtWork DEF LeaveTable
<1>3. PICK s \in Seats : s = u.seat
  BY <1>2 DEF FlowOK, HandOK
<1>4. /\ standing[s] # "empty"
      /\ \/ phase = "waiting" \/ "left" \in upsets \/ standing[s] \in {"out", "parked"}
  BY <1>2, <1>3 DEF FlowOK, HandOK
<1>5. LeaveScript(s) /\ MayAutoStart /\ End(i) /\ UNCHANGED <<jobs, key, upsets>>
  BY <1>1, <1>3, <1>4 DEF LeaveTable
<1>6. Becomes(Idle)
  BY <1>2, <1>5, Ends
<1>7. PICK left : left = [standing EXCEPT ![s] = "empty"]
  OBVIOUS
<1>8. /\ left \in [Seats -> Standings]
      /\ \A r \in Seats \ {s} : left[r] = standing[r]
  BY <1>2, <1>7 DEF FlowTypeOK, Standings
<1>9. PICK alone \in BOOLEAN :
         /\ standing' = [r \in Seats |->
               IF alone /\ left[r] # "empty" THEN "waiting" ELSE left[r]]
         /\ IF alone THEN phase' = "waiting" /\ turnSeat' = NoSeat /\ pot' = FALSE
                     ELSE UNCHANGED <<phase, turnSeat, pot>>
  <2>1. PICK alone \in BOOLEAN :
           alone <=> Cardinality(Standing(left, Standings \ {"empty"})) = 1
    OBVIOUS
  <2> QED
    BY <1>5, <1>7, <2>1 DEF LeaveScript
<1>10. /\ timers' \in Seq(TimerType) /\ slot' \in Ids \cup {NoTimer}
       /\ Advancing => Advancing'
       /\ Starting => Starting'
       /\ phase' = "waiting" => Starting' \/ Cardinality(Ready)' < 2
  BY <1>2, <1>5, AutoStarts
<1>11. FlowTypeOK'
  <2>1. standing' \in [Seats -> Standings]
    BY <1>8, <1>9 DEF Standings
  <2> QED
    BY <1>2, <1>5, <1>6, <1>9, <1>10, <2>1 DEF FlowTypeOK, Becomes, Phases, SeatOrNone
<1>12. HandOK(Idle)' /\ KeyOK'
  BY <1>2, <1>5 DEF FlowOK, HandOK, KeyOK, Idle
<1>13. ~alone /\ phase \in Streets /\ "left" \notin upsets =>
          (Rivals => Rivals') /\ (MayMove => MayMove')
  <2> SUFFICES ASSUME ~alone, phase \in Streets, "left" \notin upsets
               PROVE  (Rivals => Rivals') /\ (MayMove => MayMove')
    OBVIOUS
  <2>1. standing[s] \in {"out", "parked"}
    BY <1>4 DEF Streets
  <2>2. standing' = left /\ UNCHANGED turnSeat
    BY <1>8, <1>9
  <2>3. \A r \in Live(standing) : standing'[r] = standing[r]
    BY <1>8, <2>1, <2>2 DEF Live, Standing
  <2> QED
    BY <2>2, <2>3, LiveKept
<1>14. ClockOK(Idle)'
  BY <1>2, <1>5, <1>9, <1>10, <1>13 DEF FlowOK, ClockOK, Idle, Lost, Watched, Streets
<1>15. PotOK(Idle)'
  BY <1>2, <1>5, <1>9, <1>13 DEF FlowOK, PotOK, Idle, Unpaid, Streets
<1>16. StartOK(Idle)'
  BY <1>2, <1>5, <1>9, <1>10 DEF FlowOK, StartOK, Idle, Astray
<1> QED
  BY <1>6, <1>11, <1>12, <1>14, <1>15, <1>16, Lands DEF FlowOK

(***************************************************************************)
(* The invariant holds.                                                    *)
(***************************************************************************)
LEMMA FlowInvInit == FlowInit => FlowInv
<1> SUFFICES ASSUME FlowInit
             PROVE  FlowInv
  OBVIOUS
<1>1. tasks \in [1..MaxTasks -> TaskType] /\ \A i \in 1..MaxTasks : tasks[i] = Idle
  BY IdleType DEF FlowInit
<1>2. Busy = {} /\ OneTask
  BY <1>1 DEF Busy, OneTask
<1>3. PICK two \in BOOLEAN : two <=> Cardinality(Counted(standing)) >= 2
  OBVIOUS
<1>4. PICK t : t = [id |-> 1, kind |-> "auto"]
  OBVIOUS
<1>5. t \in TimerType /\ t.kind = "auto"
  BY <1>4, FlowBounds DEF TimerType, Ids, Delay
<1>6. timers = IF two THEN <<t>> ELSE <<>>
  BY <1>3, <1>4 DEF FlowInit
<1>7. timers \in Seq(TimerType) /\ (two => Starting)
  <2>1. CASE two
    <3>1. timers = <<t>>
      BY <1>6, <2>1
    <3>2. 1 \in DOMAIN timers /\ timers[1].kind # "advance"
      BY <1>5, <3>1
    <3> QED
      BY <1>5, <3>1, <3>2 DEF Starting
  <2>2. CASE ~two
    BY <1>6, <2>2
  <2> QED
    BY <2>1, <2>2
<1>8. FlowTypeOK
  BY <1>1, <1>7 DEF FlowInit, FlowTypeOK, Phases, SeatOrNone, Standings
<1>9. ~two => Cardinality(Ready) < 2
  <2> SUFFICES ASSUME ~two
               PROVE  Cardinality(Ready) < 2
    OBVIOUS
  <2>1. PICK T : T = Counted(standing)
    OBVIOUS
  <2>2. PICK U : U = Ready
    OBVIOUS
  <2>3. T \in SUBSET Seats /\ U \in SUBSET T
    BY <2>1, <2>2 DEF Counted, Standing, Standings, Ready, FlowInit
  <2>4. Cardinality(T) \in Nat /\ Cardinality(U) \in Nat /\ Cardinality(U) <= Cardinality(T)
    BY <2>3, Fewer
  <2>5. ~(Cardinality(T) >= 2)
    BY <1>3, <2>1
  <2> QED
    BY <2>2, <2>4, <2>5
<1>10. FlowOK(Idle)
  BY <1>7, <1>9
     DEF FlowInit, FlowOK, HandOK, ClockOK, PotOK, KeyOK, StartOK, Idle, Streets
<1> QED
  BY <1>2, <1>8, <1>10 DEF FlowInv

LEMMA FlowInvStep == ASSUME FlowInv, OneAtATime, [FlowNext]_flowVars PROVE FlowInv'
<1>1. ASSUME NEW s \in Seats,
             \/ ActOutOfTurn(s) \/ AskToLeave(s) \/ SweepOut(s) \/ ToggleSitOut(s)
             \/ ToggleLNBB(s) \/ AddChips(s) \/ ComeBack(s) \/ JoinTable(s) \/ Act(s)
      PROVE  FlowInv'
  BY <1>1, ActOutOfTurnKeeps, AskToLeaveKeeps, SweepOutKeeps, ToggleSitOutKeeps, FlagsKeep,
     AddChipsKeeps, ComeBackKeeps, JoinTableKeeps, ActKeeps
<1>2. CASE Maintenance \/ Pause \/ Reopen \/ Resume
  BY <1>2, FlagsKeep, PauseKeeps, ReopenKeeps, ResumeKeeps
<1>3. ASSUME NEW i \in 1..MaxTasks, TaskNext(i)
      PROVE  FlowInv'
  BY <1>3, StopKeeps, ClockKeeps, ArmKeeps, ExpireKeeps, FineKeeps, AdvanceKeeps, TurnKeeps,
     JudgeKeeps, SettleKeeps, SettleFailsKeeps, StartKeeps, DealKeeps, LeaveTableKeeps
     DEF TaskNext
<1>4. CASE \E n \in DOMAIN timers : TimerFires(n)
  BY <1>4, TimerFiresKeeps
<1>5. CASE \E j \in jobs : JobFires(j)
  BY <1>5, JobFiresKeeps
<1>6. CASE UNCHANGED flowVars
  <2>1. /\ UNCHANGED <<phase, turnSeat, standing, pot, upsets>>
        /\ UNCHANGED <<tasks, timers, slot, jobs, key>>
    BY <1>6 DEF flowVars, flow, shell
  <2>2. FlowTypeOK'
    BY <2>1 DEF FlowInv, FlowTypeOK
  <2>3. Quiet' = Quiet /\ Busy' = Busy /\ OneTask' = OneTask
    BY <2>1 DEF Quiet, Busy, OneTask
  <2>4. \A t : FlowOK(t) => FlowOK(t)'
    BY <2>1, ShellStays
       DEF FlowOK, HandOK, ClockOK, PotOK, KeyOK, StartOK, Watched, Advancing, Starting
  <2>5. \A i \in Busy : FlowOK(tasks[i])'
    <3> SUFFICES ASSUME NEW i \in Busy
                 PROVE  FlowOK(tasks[i])'
      OBVIOUS
    <3>1. PICK t : t = tasks[i]
      OBVIOUS
    <3>2. FlowOK(t)' /\ tasks'[i] = t
      BY <2>1, <2>4, <3>1 DEF FlowInv
    <3> QED
      BY <3>2 DEF FlowOK, HandOK, ClockOK, PotOK, StartOK
  <2> QED
    BY <2>2, <2>3, <2>4, <2>5 DEF FlowInv
<1> QED
  BY <1>1, <1>2, <1>3, <1>4, <1>5, <1>6 DEF FlowNext, ClientNext, GatewayNext

LEMMA FlowInvHolds ==
    ASSUME Overlap = FALSE, "act_between_hands" \notin Requests
    PROVE  FlowSpec => []FlowInv
<1>1. FlowInv /\ [FlowNext]_flowVars => FlowInv'
  BY FlowInvStep DEF OneAtATime
<1> QED
  BY <1>1, FlowInvInit, PTL DEF FlowSpec

(***************************************************************************)
(* Which steps deal, and which turn a street.                              *)
(***************************************************************************)
LEMMA DealsOnly ==
    ASSUME [FlowNext]_flowVars
    PROVE  \/ UNCHANGED hands
           \/ hands' = hands + 1 /\ \E i \in 1..MaxTasks : Deal(i)
<1>1. ASSUME NEW s \in Seats,
             \/ ActOutOfTurn(s) \/ AskToLeave(s) \/ SweepOut(s) \/ ToggleSitOut(s)
             \/ ToggleLNBB(s) \/ AddChips(s) \/ ComeBack(s) \/ JoinTable(s) \/ Act(s)
      PROVE  UNCHANGED hands
  BY <1>1 DEF ActOutOfTurn, AskToLeave, SweepOut, ToggleSitOut, ToggleLNBB, AddChips, ComeBack,
     JoinTable, Act, BetScript, Moved, StandScript, JoinScript, shell
<1>2. CASE Maintenance \/ Pause \/ Reopen \/ Resume
  BY <1>2 DEF Maintenance, Pause, Reopen, Resume, shell
<1>3. ASSUME NEW i \in 1..MaxTasks, TaskNext(i)
      PROVE  UNCHANGED hands \/ (hands' = hands + 1 /\ Deal(i))
  <2>1. CASE Deal(i)
    BY <2>1 DEF Deal, NextHandScript
  <2>2. CASE \/ Stop(i) \/ Clock(i) \/ Arm(i) \/ Expire(i) \/ Advance(i) \/ Judge(i)
             \/ SettleFails(i) \/ Start(i)
    BY <2>2 DEF Stop, Clock, Arm, Expire, Advance, Judge, SettleFails, Start, shell
  <2>3. CASE Turn(i)
    BY <2>3 DEF Turn, NextStreetScript, shell
  <2>4. CASE Settle(i)
    BY <2>4 DEF Settle, ShowdownScript
  <2>5. CASE LeaveTable(i)
    BY <2>5 DEF LeaveTable, LeaveScript, shell
  <2>6. CASE Fine(i)
    BY <2>6 DEF Fine, TimeoutScript, Moved, shell
  <2> QED
    BY <1>3, <2>1, <2>2, <2>3, <2>4, <2>5, <2>6 DEF TaskNext
<1>4. CASE \E n \in DOMAIN timers : TimerFires(n)
  BY <1>4 DEF TimerFires, shell
<1>5. CASE \E j \in jobs : JobFires(j)
  BY <1>5 DEF JobFires, shell
<1>6. CASE UNCHANGED flowVars
  BY <1>6 DEF flowVars, shell
<1> QED
  BY <1>1, <1>2, <1>3, <1>4, <1>5, <1>6 DEF FlowNext, ClientNext, GatewayNext

LEMMA StreetsOnly ==
    ASSUME [FlowNext]_flowVars
    PROVE  \/ phase' \in {phase, "waiting", "showdown", "paused"}
           \/ phase \in Streets
           \/ \E i \in 1..MaxTasks : Deal(i)
<1>1. ASSUME NEW s \in Seats,
             \/ ActOutOfTurn(s) \/ AskToLeave(s) \/ SweepOut(s) \/ ToggleSitOut(s)
             \/ ToggleLNBB(s) \/ AddChips(s) \/ ComeBack(s) \/ JoinTable(s) \/ Act(s)
      PROVE  phase' \in {phase, "waiting", "showdown", "paused"}
  BY <1>1 DEF ActOutOfTurn, AskToLeave, SweepOut, ToggleSitOut, ToggleLNBB, AddChips, ComeBack,
     JoinTable, Act, BetScript, Moved, StandScript, JoinScript, shell
<1>2. CASE Maintenance \/ Pause \/ Reopen \/ Resume
  BY <1>2 DEF Maintenance, Pause, Reopen, Resume, shell
<1>3. ASSUME NEW i \in 1..MaxTasks, TaskNext(i)
      PROVE  phase' \in {phase, "waiting", "showdown", "paused"} \/ phase \in Streets \/ Deal(i)
  <2>2. CASE \/ Stop(i) \/ Clock(i) \/ Arm(i) \/ Expire(i) \/ Advance(i) \/ Judge(i)
             \/ SettleFails(i) \/ Start(i)
    BY <2>2 DEF Stop, Clock, Arm, Expire, Advance, Judge, SettleFails, Start, shell
  <2>3. CASE Turn(i)
    BY <2>3 DEF Turn, NextStreetScript, shell
  <2>4. CASE Settle(i)
    BY <2>4 DEF Settle, ShowdownScript
  <2>5. CASE LeaveTable(i)
    BY <2>5 DEF LeaveTable, LeaveScript, shell
  <2>6. CASE Fine(i)
    BY <2>6 DEF Fine, TimeoutScript, Moved, shell
  <2> QED
    BY <1>3, <2>2, <2>3, <2>4, <2>5, <2>6 DEF TaskNext
<1>4. CASE \E n \in DOMAIN timers : TimerFires(n)
  BY <1>4 DEF TimerFires, shell
<1>5. CASE \E j \in jobs : JobFires(j)
  BY <1>5 DEF JobFires, shell
<1>6. CASE UNCHANGED flowVars
  BY <1>6 DEF flowVars, shell
<1> QED
  BY <1>1, <1>2, <1>3, <1>4, <1>5, <1>6 DEF FlowNext, ClientNext, GatewayNext

LEMMA HandsCount == FlowSpec => [](hands \in Nat)
<1>1. FlowInit => hands \in Nat
  BY DEF FlowInit
<1>2. hands \in Nat /\ [FlowNext]_flowVars => (hands \in Nat)'
  BY DealsOnly
<1> QED
  BY <1>1, <1>2, PTL DEF FlowSpec

(***************************************************************************)
(* The theorems.                                                           *)
(***************************************************************************)

\* Whenever the gateway is done with everything it was told, a hand that is being played
\* runs out by itself or has a clock for the seat to act (scheduleTimeout, advanceStreet),
\* unless a player left in the middle of it or an action was refused.
THEOREM HandsAreWatched ==
    ASSUME Overlap = FALSE, "act_between_hands" \notin Requests
    PROVE  FlowSpec => []ClockRuns
<1>1. FlowInv => ClockRuns
  <2> SUFFICES ASSUME FlowInv, Quiet, InProgress, upsets \cap {"left", "refused"} = {}
               PROVE  \/ \E t \in ToSet(timers) : t.kind = "advance"
                      \/ \E j \in jobs : j.seat = turnSeat
    BY DEF ClockRuns
  <2>1. Watched
    BY DEF FlowInv, FlowOK, ClockOK, InProgress, Lost, Idle
  <2> QED
    BY <2>1 DEF Watched, Advancing, ToSet
<1> QED
  BY <1>1, FlowInvHolds, PTL

\* Nobody is timed out by the clock of an earlier turn: cancelTimeout leaves no job but the
\* one the key names.
THEOREM OneJobWaits ==
    ASSUME Overlap = FALSE, "act_between_hands" \notin Requests
    PROVE  FlowSpec => []OneClock
<1>1. FlowInv => OneClock
  BY DEF FlowInv, FlowOK, KeyOK, OneClock
<1> QED
  BY <1>1, FlowInvHolds, PTL

\* An idle table with two players who can be dealt in has a start pending, whatever was
\* joined, left, sat out, bought or timed out before (startNewHand and its timers).
THEOREM StartsArePending ==
    ASSUME Overlap = FALSE, "act_between_hands" \notin Requests
    PROVE  FlowSpec => []StartPending
<1>1. FlowInv => StartPending
  <2> SUFFICES ASSUME FlowInv, Quiet, ~InProgress, Cardinality(Ready) >= 2,
                      upsets \cap {"left", "online", "paused"} = {}
               PROVE  \E t \in ToSet(timers) : t.kind # "advance"
    BY DEF StartPending
  <2>1. FlowOK(Idle) /\ FlowTypeOK
    BY DEF FlowInv
  <2>2. phase \in {"waiting", "showdown"}
    BY <2>1 DEF FlowOK, FlowTypeOK, Phases, PotOK, InProgress
  <2>3. ~(Cardinality(Ready) < 2)
    <3>1. PICK n : n = Cardinality(Ready)
      OBVIOUS
    <3>2. n \in Nat
      BY <3>1, SeatsFinite DEF Ready, Dealable, Standing
    <3> QED
      BY <3>1, <3>2
  <2>4. Starting
    BY <2>1, <2>2, <2>3 DEF FlowOK, StartOK, Astray, Idle
  <2> QED
    BY <2>4 DEF Starting, ToSet
<1> QED
  BY <1>1, FlowInvHolds, PTL

\* startNewHand deals over no pot, unless its settlement failed, players left in the middle
\* of the hand, or it was paused and the table was resumed as one at rest.
THEOREM NoPotIsDealtOver ==
    ASSUME Overlap = FALSE, "act_between_hands" \notin Requests
    PROVE  FlowSpec => DealsOverNothing
<1>1. /\ FlowInv /\ hands \in Nat /\ [FlowNext]_flowVars
      => [hands' > hands => ~pot \/ upsets \cap {"failed", "left", "paused"} # {}]_flowVars
  <2> SUFFICES ASSUME FlowInv, hands \in Nat, [FlowNext]_flowVars, hands' > hands
               PROVE  ~pot \/ Unpaid
    BY DEF Unpaid
  <2>1. PICK i \in 1..MaxTasks : Deal(i)
    BY DealsOnly
  <2>2. FlowOK(tasks[i]) /\ tasks[i].at = "deal"
    BY <2>1, AtWork DEF Deal
  <2> QED
    BY <2>2 DEF FlowOK, HandOK, PotOK
<1> QED
  BY <1>1, FlowInvHolds, HandsCount, PTL DEF FlowSpec, DealsOverNothing

\* While a table is paused nothing is dealt at it, whatever timers were running when it was
\* paused, and no street is turned (updateStatus, next_street.lua).
THEOREM PausesHold ==
    ASSUME Overlap = FALSE, "act_between_hands" \notin Requests
    PROVE  FlowSpec => PauseHolds
<1>1. /\ FlowInv /\ [FlowNext]_flowVars
      => [phase = "paused" => hands' = hands /\ phase' \notin Streets]_flowVars
  <2> SUFFICES ASSUME FlowInv, [FlowNext]_flowVars, phase = "paused"
               PROVE  hands' = hands /\ phase' \notin Streets
    OBVIOUS
  <2>1. ASSUME NEW i \in 1..MaxTasks
        PROVE  ~Deal(i)
    <3>1. Deal(i) => FlowOK(tasks[i]) /\ tasks[i].at = "deal"
      BY AtWork DEF Deal
    <3> QED
      BY <3>1 DEF FlowOK, HandOK
  <2> QED
    BY <2>1, DealsOnly, StreetsOnly DEF Streets
<1> QED
  BY <1>1, FlowInvHolds, PTL DEF FlowSpec, PauseHolds
=============================================================================

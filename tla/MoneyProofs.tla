---------------------------- MODULE MoneyProofs -----------------------------
(***************************************************************************)
(* Whose money it is, for any number of users, seats, amounts and handlers *)
(* in flight: the types, then nothing refunded twice or overdrawn and the  *)
(* books balanced; and from there on, nobody's money made, lost or given   *)
(* to another.                                                             *)
(***************************************************************************)
EXTENDS MoneyProps, SumProofs, SequenceTheorems

(***************************************************************************)
(* The inductive invariant.                                                *)
(***************************************************************************)
Record == [user : Users, chips : Nat, bet : Nat, later : Nat]
SeatRecord == Record \cup {Empty}

Kinds == {"deposit", "withdraw", "admin", "buy_in", "cash_out"}
RowType == [user : Users, kind : Kinds, amount : Int, ref : Nat,
            status : {"pending", "completed", "rejected"}]

Ops == {"none", "join", "add", "rebuy", "leave", "reap", "approve", "reject", "heal", "resolve"}
Ats == {"idle", "sync", "script", "lock", "undo", "vault", "refund", "kick", "enqueue", "process",
        "heal"}
Saw == [user : Users \cup {Nobody}, chips : Int, bet : Nat, later : Nat]
TaskType == [op : Ops, at : Ats, user : Users \cup {Nobody}, seat : Seats, amount : Nat,
             saw : Saw, given : BOOLEAN, refs : SUBSET Nat]
JobType == [user : Users, amount : Nat]
Found == [seat : Seats, user : Users, chips : Nat, refunded : BOOLEAN]

\* The types of both stores, of the queue and of what the handlers keep.
MoneyTypeOK ==
    /\ wallet \in [Users -> Int]
    /\ rows \in Seq(RowType)
    /\ seats \in [Seats -> SeatRecord]
    /\ pot \in Nat
    /\ jobs \in Seq(JobType)
    /\ tasks \in [1..MaxTasks -> TaskType]
    /\ closing \in SUBSET Found

\* Only a grant of the administrator may be negative.
RowsOK == \A r \in DOMAIN rows : rows[r].kind # "admin" => rows[r].amount >= 0

\* Whose a task is, which request it may serve at which await, which record it may put
\* back, and which rows of rs it may process.
TaskOK(t, rs) ==
    /\ t.at \notin {"idle", "heal"} => t.user \in Users
    /\ t.at \in {"sync", "script", "lock", "undo"} => t.op \in {"join", "add", "rebuy"}
    /\ t.at \in {"vault", "refund"} => t.op = "rebuy"
    /\ t.at = "process" => t.op \in {"approve", "reject"}
    /\ t.op = "rebuy" \/ (t.at = "undo" /\ t.op # "join") => t.saw \in SeatRecord
    /\ t.at = "process" => \A r \in t.refs :
          /\ r \in DOMAIN rs /\ rs[r].kind \in {"deposit", "withdraw"}
          /\ rs[r].status = "pending" => rs[r].amount = t.amount
    /\ t.at = "heal" => \A r \in t.refs : r \in DOMAIN rs /\ rs[r].kind = "buy_in"

TasksOK == \A i \in 1..MaxTasks : TaskOK(tasks[i], rows)

MoneyInv == MoneyTypeOK /\ RowsOK /\ TasksOK

\* No two cash-outs name the same session.
RefsOK ==
    \A c, d \in DOMAIN rows :
        rows[c].kind = "cash_out" /\ rows[d].kind = "cash_out" /\ rows[c].ref = rows[d].ref =>
            c = d \/ rows[c].ref = 0

(***************************************************************************)
(* Records, sequences and sets.                                            *)
(***************************************************************************)

\* Rows, jobs and tasks are made of what they are made of.
LEMMA MadeOf ==
    /\ \A u \in Users, kind \in Kinds, n \in Int, ref \in Nat,
          status \in {"pending", "completed", "rejected"} :
          Row(u, kind, n, status, ref) \in RowType
    /\ \A u \in Users, n \in Nat : Job(u, n) \in JobType
    /\ \A u \in Users, n \in Nat : Stack(u, n) \in Record
    /\ \A r \in Record : r.user \in Users /\ r.chips \in Nat /\ r.bet \in Nat /\ r.later \in Nat
    /\ Empty \in Saw /\ Record \subseteq Saw /\ Empty \notin Record
  BY PlacesAssumption
     DEF Row, RowType, Job, JobType, Stack, Record, Empty, Saw

\* So is the record of every seat.
LEMMA SeatFields ==
    ASSUME NEW r \in SeatRecord
    PROVE  /\ r.user \in Users \cup {Nobody} /\ r.chips \in Nat /\ r.bet \in Nat /\ r.later \in Nat
           /\ r \in Saw
           /\ r = Empty => r.user = Nobody /\ r.chips = 0 /\ r.bet = 0 /\ r.later = 0
           /\ r # Empty => r \in Record
  BY MadeOf DEF SeatRecord, Empty

\* The fields of a task.
LEMMA TaskFields ==
    ASSUME NEW t \in TaskType
    PROVE  /\ t.op \in Ops /\ t.at \in Ats /\ t.user \in Users \cup {Nobody} /\ t.seat \in Seats
           /\ t.amount \in Nat /\ t.saw \in Saw /\ t.given \in BOOLEAN /\ t.refs \in SUBSET Nat
  BY DEF TaskType

\* A task that begins, one that is over, and one that goes on.
LEMMA TaskMakes ==
    /\ \A op \in Ops, at \in Ats, u \in Users \cup {Nobody}, s \in Seats, n \in Nat :
          /\ Task(op, at, u, s, n) \in TaskType
          /\ Task(op, at, u, s, n).op = op /\ Task(op, at, u, s, n).at = at
          /\ Task(op, at, u, s, n).user = u /\ Task(op, at, u, s, n).amount = n
          /\ Task(op, at, u, s, n).saw = Empty /\ Task(op, at, u, s, n).refs = {}
    /\ \A t \in TaskType, at \in Ats : [t EXCEPT !.at = at] \in TaskType
    /\ NoTask \in TaskType /\ NoTask.at = "idle" /\ NoTask.op = "none" /\ NoTask.user = Nobody
    /\ NoTask.seat \in Seats
<1>1. ASSUME NEW op \in Ops, NEW at \in Ats, NEW u \in Users \cup {Nobody}, NEW s \in Seats,
             NEW n \in Nat
      PROVE  /\ Task(op, at, u, s, n) \in TaskType
             /\ Task(op, at, u, s, n).op = op /\ Task(op, at, u, s, n).at = at
             /\ Task(op, at, u, s, n).user = u /\ Task(op, at, u, s, n).amount = n
             /\ Task(op, at, u, s, n).saw = Empty /\ Task(op, at, u, s, n).refs = {}
  BY MadeOf DEF Task, TaskType
<1>2. ASSUME NEW t \in TaskType, NEW at \in Ats
      PROVE  [t EXCEPT !.at = at] \in TaskType
  BY DEF TaskType
<1> DEFINE first == CHOOSE s \in Seats : TRUE
<1>3. first \in Seats
  BY PlacesAssumption
<1>4. NoTask = Task("none", "idle", Nobody, first, 0)
  BY DEF NoTask
<1> HIDE DEF first
<1>5. NoTask \in TaskType /\ NoTask.at = "idle" /\ NoTask.op = "none" /\ NoTask.user = Nobody
      /\ NoTask.seat \in Seats
  <2>1. "none" \in Ops /\ "idle" \in Ats /\ Nobody \in Users \cup {Nobody} /\ 0 \in Nat
    BY DEF Ops, Ats
  <2>2. NoTask.seat = first
    BY <1>4 DEF Task
  <2>3. NoTask \in TaskType /\ NoTask.at = "idle" /\ NoTask.op = "none"
        /\ NoTask.user = Nobody
    <3>1. Task("none", "idle", Nobody, first, 0) \in TaskType
      BY <1>1, <1>3, <2>1, Zenon
    <3>2. NoTask \in TaskType
      BY <1>4, <3>1, Zenon
    <3> QED
      BY <1>4, <3>2 DEF Task
  <2> QED
    BY <1>3, <2>2, <2>3
<1> QED
  BY <1>1, <1>2, <1>5

\* A task about rows.
RowTask(op, at, u, n, refs) == [Task(op, at, u, NoTask.seat, n) EXCEPT !.refs = refs]

\* Its fields.
LEMMA TaskWith ==
    ASSUME NEW op \in Ops, NEW at \in Ats, NEW u \in Users \cup {Nobody}, NEW n \in Nat,
           NEW refs \in SUBSET Nat
    PROVE  LET t == RowTask(op, at, u, n, refs)
           IN  /\ t \in TaskType /\ t.op = op /\ t.at = at /\ t.user = u /\ t.amount = n
               /\ t.refs = refs
<1> DEFINE s == NoTask.seat
<1>2. s \in Seats
  BY TaskMakes
<1> HIDE DEF s
<1>1. Empty \in Saw
  BY MadeOf
<1> QED
  BY <1>1, <1>2 DEF Task, TaskType, RowTask, s

\* The records that scripts write to a seat.
LEMMA RecordUpdates ==
    ASSUME NEW r \in Record, NEW c \in Nat, NEW b \in Nat
    PROVE  /\ [r EXCEPT !.chips = c] \in Record
           /\ [r EXCEPT !.later = c] \in Record
           /\ [r EXCEPT !.chips = c, !.bet = b] \in Record
           /\ [r EXCEPT !.bet = 0, !.later = 0, !.chips = c] \in Record
<1>1. /\ [r EXCEPT !.chips = c] \in Record
      /\ [r EXCEPT !.later = c] \in Record
      /\ [r EXCEPT !.chips = c, !.bet = b] \in Record
      /\ [r EXCEPT !.bet = 0] \in Record
  BY DEF Record
<1>2. \A q \in Record : [q EXCEPT !.later = 0] \in Record /\ [q EXCEPT !.chips = c] \in Record
  BY DEF Record
<1> QED
  BY <1>1, <1>2

\* An award gives nothing to an empty seat.
LEMMA EmptyUpdate == [Empty EXCEPT !.bet = 0, !.later = 0, !.chips = 0] = Empty
<1>1. [Empty EXCEPT !.bet = 0] = Empty
  BY DEF Empty
<1>2. [Empty EXCEPT !.later = 0] = Empty
  BY DEF Empty
<1>3. [Empty EXCEPT !.chips = 0] = Empty
  BY DEF Empty
<1> QED
  BY <1>1, <1>2, <1>3

\* A finite set can be put in a sequence (SetToSeq).
LEMMA SequenceOf ==
    ASSUME NEW S, IsFiniteSet(S)
    PROVE  SetToSeq(S) \in [1..Cardinality(S) -> S] /\ Cardinality(S) \in Nat
<1>1. PICK f : f \in Bijection(1..Cardinality(S), S)
  BY FS_CardinalityType DEF ExistsBijection
<1>2. f \in [1..Cardinality(S) -> S] /\ IsInjective(f)
  BY <1>1 DEF Bijection, Injection
<1> QED
  BY <1>2, FS_CardinalityType DEF SetToSeq

(***************************************************************************)
(* What a change of the rows means to the tasks.                           *)
(***************************************************************************)
Extends(rs, rt) ==
    \A r \in DOMAIN rs :
        /\ r \in DOMAIN rt /\ rt[r].kind = rs[r].kind
        /\ rt[r].status = "pending" => rs[r].status = "pending" /\ rt[r].amount = rs[r].amount

\* A task is as right as it was when rows are added or processed.
LEMMA TaskKept ==
    ASSUME NEW t \in TaskType, NEW rs, NEW rt, TaskOK(t, rs), Extends(rs, rt)
    PROVE  TaskOK(t, rt)
  BY DEF TaskOK, Extends

\* A row more.
LEMMA RowAdded ==
    ASSUME NEW rs \in Seq(RowType), NEW row \in RowType
    PROVE  /\ Append(rs, row) \in Seq(RowType)
           /\ Len(Append(rs, row)) = Len(rs) + 1
           /\ DOMAIN Append(rs, row) = DOMAIN rs \cup {Len(rs) + 1}
           /\ Len(rs) + 1 \notin DOMAIN rs
           /\ Append(rs, row)[Len(rs) + 1] = row
           /\ \A r \in DOMAIN rs : Append(rs, row)[r] = rs[r]
           /\ Extends(rs, Append(rs, row))
  BY DEF Extends

\* The rows of an action that writes one row.
LEMMA Booking ==
    ASSUME MoneyInv, NEW row \in RowType, row.kind # "admin" => row.amount >= 0, NewRow(row)
    PROVE  rows' \in Seq(RowType) /\ Extends(rows, rows') /\ RowsOK'
<1>1. rows \in Seq(RowType) /\ rows' = Append(rows, row)
  BY DEF MoneyInv, MoneyTypeOK, NewRow
<1>2. /\ rows' \in Seq(RowType) /\ Extends(rows, rows')
      /\ DOMAIN rows' = DOMAIN rows \cup {Len(rows) + 1} /\ rows'[Len(rows) + 1] = row
      /\ \A r \in DOMAIN rows : rows'[r] = rows[r]
  BY <1>1, RowAdded
<1>3. RowsOK'
  BY <1>2 DEF MoneyInv, RowsOK
<1> QED
  BY <1>2, <1>3

\* Rows that are left alone.
LEMMA RowsStay ==
    ASSUME MoneyInv, rows' = rows
    PROVE  rows' \in Seq(RowType) /\ Extends(rows, rows') /\ RowsOK'
  BY DEF MoneyInv, MoneyTypeOK, RowsOK, Extends

\* A wallet that is credited, or debited.
LEMMA Credited ==
    ASSUME MoneyInv, NEW u \in Users, NEW n \in Int, Credit(u, n)
    PROVE  wallet' \in [Users -> Int]
  BY DEF MoneyInv, MoneyTypeOK, Credit

\* A cash-out.
LEMMA CashedOut ==
    ASSUME MoneyInv, NEW u \in Users, NEW n \in Nat, CashOut(u, n)
    PROVE  wallet' \in [Users -> Int] /\ rows' \in Seq(RowType) /\ Extends(rows, rows') /\ RowsOK'
<1> DEFINE row == Row(u, "cash_out", n, "completed", 0)
<1>1. row \in RowType
  BY MadeOf DEF Kinds
<1>2. row.amount = n
  BY DEF Row
<1>3. NewRow(row) /\ Credit(u, n)
  BY DEF CashOut
<1> HIDE DEF row
<1> QED
  BY <1>1, <1>2, <1>3, Booking, Credited

(***************************************************************************)
(* What a step does to the tasks.                                          *)
(***************************************************************************)

\* One task is replaced by another.
LEMMA TaskReplaced ==
    ASSUME MoneyInv, Extends(rows, rows'), NEW i \in 1..MaxTasks, NEW t \in TaskType,
           TaskOK(t, rows'), tasks' = [tasks EXCEPT ![i] = t]
    PROVE  tasks' \in [1..MaxTasks -> TaskType] /\ TasksOK'
<1>1. tasks \in [1..MaxTasks -> TaskType] /\ TasksOK
  BY DEF MoneyInv, MoneyTypeOK
<1>2. tasks' \in [1..MaxTasks -> TaskType]
  BY <1>1
<1>3. ASSUME NEW k \in 1..MaxTasks PROVE TaskOK(tasks'[k], rows')
  <2>1. CASE k = i
    BY <1>1, <2>1
  <2>2. CASE k # i
    <3>1. tasks'[k] = tasks[k] /\ tasks[k] \in TaskType /\ TaskOK(tasks[k], rows)
      BY <1>1, <2>2 DEF TasksOK
    <3>2. TaskOK(tasks[k], rows')
      BY <3>1, TaskKept
    <3> QED
      BY <3>1, <3>2
  <2> QED
    BY <2>1, <2>2
<1> QED
  BY <1>2, <1>3 DEF TasksOK

\* The tasks go on with theirs.
LEMMA TasksStay ==
    ASSUME MoneyInv, Extends(rows, rows'), tasks' = tasks
    PROVE  tasks' \in [1..MaxTasks -> TaskType] /\ TasksOK'
<1>1. tasks \in [1..MaxTasks -> TaskType] /\ TasksOK
  BY DEF MoneyInv, MoneyTypeOK
<1>2. ASSUME NEW k \in 1..MaxTasks PROVE TaskOK(tasks[k], rows')
  <2>1. tasks[k] \in TaskType /\ TaskOK(tasks[k], rows)
    BY <1>1 DEF TasksOK
  <2> QED
    BY <2>1, TaskKept
<1> QED
  BY <1>1, <1>2 DEF TasksOK

\* A task begins.
LEMMA TaskBegun ==
    ASSUME MoneyInv, rows' = rows, NEW t \in TaskType, TaskOK(t, rows), Begin(t)
    PROVE  tasks' \in [1..MaxTasks -> TaskType] /\ TasksOK'
<1>1. PICK i \in 1..MaxTasks : tasks' = [tasks EXCEPT ![i] = t]
  BY DEF Begin
<1> QED
  BY <1>1, RowsStay, TaskReplaced

\* A task is over.
LEMMA TaskEnded ==
    ASSUME MoneyInv, Extends(rows, rows'), NEW i \in 1..MaxTasks, End(i)
    PROVE  tasks' \in [1..MaxTasks -> TaskType] /\ TasksOK'
<1>1. TaskOK(NoTask, rows') /\ NoTask \in TaskType
  BY TaskMakes DEF TaskOK
<1> QED
  BY <1>1, TaskReplaced DEF End

\* A task goes on where nothing is asked of what it saw.
LEMMA TaskGoesOn ==
    ASSUME MoneyInv, Extends(rows, rows'), NEW i \in 1..MaxTasks,
           tasks[i].at \notin {"idle", "heal"},
           NEW at \in {"script", "lock", "vault", "refund", "enqueue"}, Go(i, at),
           at \in {"script", "lock"} => tasks[i].op \in {"join", "add", "rebuy"},
           at \in {"vault", "refund"} => tasks[i].op = "rebuy"
    PROVE  tasks' \in [1..MaxTasks -> TaskType] /\ TasksOK'
<1> DEFINE t == [tasks[i] EXCEPT !.at = at]
<1>1. tasks[i] \in TaskType /\ TaskOK(tasks[i], rows) /\ at \in Ats
  BY DEF MoneyInv, MoneyTypeOK, TasksOK, Ats
<1>2. t \in TaskType
  BY <1>1, TaskMakes
<1>3. t.at = at /\ t.op = tasks[i].op /\ t.user = tasks[i].user /\ t.saw = tasks[i].saw
  BY <1>1 DEF TaskType
<1>4. TaskOK(t, rows')
  BY <1>1, <1>3 DEF TaskOK
<1>5. tasks' = [tasks EXCEPT ![i] = t]
  BY DEF Go
<1> HIDE DEF t
<1> QED
  BY <1>2, <1>4, <1>5, TaskReplaced

(***************************************************************************)
(* The invariant is kept by what clients, administrators and the table do. *)
(***************************************************************************)

\* The parts of the invariant that an action may disturb.
LEMMA Parts ==
    /\ MoneyInv => /\ wallet \in [Users -> Int] /\ rows \in Seq(RowType)
                   /\ seats \in [Seats -> SeatRecord] /\ pot \in Nat /\ jobs \in Seq(JobType)
                   /\ tasks \in [1..MaxTasks -> TaskType] /\ closing \in SUBSET Found
                   /\ RowsOK /\ TasksOK
    /\ \A i \in 1..MaxTasks : MoneyInv => tasks[i] \in TaskType /\ TaskOK(tasks[i], rows)
    /\ \A s \in Seats : MoneyInv => seats[s] \in SeatRecord
    /\ \A n \in BuyIns \cup Finals : n \in Nat
  BY AmountsAssumption DEF MoneyInv, MoneyTypeOK, TasksOK

\* Requests for a seat or for chips (join, add chips, rebuy).
LEMMA RequestKeeps ==
    ASSUME MoneyInv, NEW u \in Users, NEW s \in Seats,
           Join(u, s) \/ AddChips(u, s) \/ Rebuy(u, s)
    PROVE  MoneyInv'
<1>1. /\ wallet' = wallet /\ rows' = rows /\ seats' = seats /\ pot' = pot /\ jobs' = jobs
      /\ closing' = closing
  BY DEF Join, AddChips, Rebuy, bank, ring, desk
<1>2. PICK n \in BuyIns, op \in {"join", "add"} :
        \/ Begin(Task("rebuy", "lock", u, s, n))
        \/ Begin([Task(op, "sync", u, s, n) EXCEPT !.saw.chips = wallet[u]])
  BY DEF Join, AddChips, Rebuy
<1>3. n \in Nat /\ wallet[u] \in Int
  BY Parts
<1>4. CASE Begin(Task("rebuy", "lock", u, s, n))
  <2> DEFINE t == Task("rebuy", "lock", u, s, n)
  <2>1. "rebuy" \in Ops /\ "lock" \in Ats
    BY DEF Ops, Ats
  <2>2. t \in TaskType /\ t.at = "lock" /\ t.op = "rebuy" /\ t.user = u /\ t.saw = Empty
    BY <1>3, <2>1, TaskMakes
  <2>3. TaskOK(t, rows)
    BY <2>2 DEF TaskOK, SeatRecord
  <2> HIDE DEF t
  <2> QED
    BY <1>1, <1>4, <2>2, <2>3, TaskBegun, RowsStay DEF MoneyInv, MoneyTypeOK, t
<1>5. CASE Begin([Task(op, "sync", u, s, n) EXCEPT !.saw.chips = wallet[u]])
  <2> DEFINE t == [Task(op, "sync", u, s, n) EXCEPT !.saw.chips = wallet[u]]
  <2>1. t.at = "sync" /\ t.op = op /\ t.user = u /\ t \in TaskType
    BY <1>3 DEF Task, TaskType, Ops, Ats, Saw, Empty
  <2>2. TaskOK(t, rows)
    BY <2>1 DEF TaskOK
  <2> HIDE DEF t
  <2> QED
    BY <1>1, <1>5, <2>1, <2>2, TaskBegun, RowsStay DEF MoneyInv, MoneyTypeOK, t
<1> QED
  BY <1>2, <1>4, <1>5

\* The rebuys that the start of a hand makes by itself.
LEMMA AutoRebuyKeeps == ASSUME MoneyInv, NEW s \in Seats, AutoRebuy(s) PROVE MoneyInv'
<1>1. /\ wallet' = wallet /\ rows' = rows /\ seats' = seats /\ pot' = pot /\ jobs' = jobs
      /\ closing' = closing
  BY DEF AutoRebuy, bank, ring, desk
<1>2. PICK n \in BuyIns :
        Begin([Task("rebuy", "lock", seats[s].user, s, n) EXCEPT !.saw = seats[s]])
  BY DEF AutoRebuy
<1> DEFINE t == [Task("rebuy", "lock", seats[s].user, s, n) EXCEPT !.saw = seats[s]]
<1>3. seats[s] \in SeatRecord /\ seats[s] \in Saw /\ seats[s].user \in Users /\ n \in Nat
  BY Parts, SeatFields, MadeOf DEF AutoRebuy
<1>4. /\ t \in TaskType /\ t.at = "lock" /\ t.op = "rebuy" /\ t.user \in Users
      /\ t.saw \in SeatRecord
  BY <1>3 DEF Task, TaskType, Ops, Ats
<1>5. TaskOK(t, rows)
  BY <1>4 DEF TaskOK
<1> HIDE DEF t
<1>6. tasks' \in [1..MaxTasks -> TaskType] /\ TasksOK'
  BY <1>1, <1>2, <1>4, <1>5, TaskBegun DEF t
<1> QED
  BY <1>1, <1>6, RowsStay DEF MoneyInv, MoneyTypeOK

\* A seat is emptied.
LEMMA SeatEmptied ==
    ASSUME MoneyInv, NEW s \in Seats, LeaveScript(s)
    PROVE  seats' \in [Seats -> SeatRecord]
  BY Parts DEF LeaveScript, SeatRecord

\* A player leaves (handleLeaveTable), or is found to be gone (the reaper's sweep).
LEMMA LeaveKeeps ==
    ASSUME MoneyInv, NEW s \in Seats, (\E u \in Users : Leave(u, s)) \/ Notice(s)
    PROVE  MoneyInv'
<1>1. /\ wallet' = wallet /\ rows' = rows /\ pot' = pot /\ jobs' = jobs /\ closing' = closing
  BY DEF Leave, Notice, bank, ring, desk
<1>2. seats' \in [Seats -> SeatRecord]
  BY Parts, SeatEmptied DEF Leave, Notice, ring
<1>3. seats[s].chips \in Nat /\ seats[s].user \in Users
  BY Parts, SeatFields, MadeOf, PlacesAssumption DEF Leave, Notice
<1>4. PICK op \in {"leave", "reap"}, at \in {"enqueue", "kick"} :
        Begin(Task(op, at, seats[s].user, s, seats[s].chips))
  BY DEF Leave, Notice
<1> DEFINE t == Task(op, at, seats[s].user, s, seats[s].chips)
<1>5. op \in Ops /\ at \in Ats
  BY DEF Ops, Ats
<1>6. t \in TaskType /\ t.at = at /\ t.op = op /\ t.user \in Users
  BY <1>3, <1>5, TaskMakes
<1>7. TaskOK(t, rows)
  BY <1>6 DEF TaskOK
<1> HIDE DEF t
<1>8. tasks' \in [1..MaxTasks -> TaskType] /\ TasksOK'
  BY <1>1, <1>4, <1>6, <1>7, TaskBegun DEF t
<1> QED
  BY <1>1, <1>2, <1>8, RowsStay DEF MoneyInv, MoneyTypeOK

\* Requests at the cashier and grants of the administrator.
LEMMA CashierKeeps ==
    ASSUME MoneyInv, NEW u \in Users, Deposit(u) \/ Withdraw(u) \/ Adjust(u)
    PROVE  MoneyInv'
<1>1. /\ seats' = seats /\ pot' = pot /\ jobs' = jobs /\ closing' = closing /\ tasks' = tasks
  BY DEF Deposit, Withdraw, Adjust, ring, desk
<1>2. PICK kind \in {"deposit", "withdraw", "admin"}, n \in Int, status \in {"pending", "completed"} :
        /\ NewRow(Row(u, kind, n, status, 0))
        /\ kind # "admin" => n >= 0
        /\ wallet' = wallet \/ \E k \in Int : Credit(u, k)
  <2>1. CASE Deposit(u)
    <3>1. PICK n \in BuyIns : NewRow(Row(u, "deposit", n, "pending", 0))
      BY <2>1 DEF Deposit
    <3> QED
      BY <2>1, <3>1, Parts DEF Deposit
  <2>2. CASE Withdraw(u)
    <3>1. PICK n \in BuyIns : Credit(u, -n) /\ NewRow(Row(u, "withdraw", n, "pending", 0))
      BY <2>2 DEF Withdraw
    <3>2. n \in Nat /\ -n \in Int
      BY Parts
    <3> QED
      BY <3>1, <3>2
  <2>3. CASE Adjust(u)
    <3>1. PICK n \in BuyIns \cup {-b : b \in BuyIns} :
            Credit(u, n) /\ NewRow(Row(u, "admin", n, "completed", 0))
      BY <2>3 DEF Adjust
    <3>2. n \in Int
      BY Parts
    <3> QED
      BY <3>1, <3>2
  <2> QED
    BY <2>1, <2>2, <2>3
<1>3. Row(u, kind, n, status, 0) \in RowType
  BY MadeOf DEF Kinds
<1>4. Row(u, kind, n, status, 0).kind = kind /\ Row(u, kind, n, status, 0).amount = n
  BY DEF Row
<1>5. rows' \in Seq(RowType) /\ Extends(rows, rows') /\ RowsOK'
  BY <1>2, <1>3, <1>4, Booking
<1>6. wallet' \in [Users -> Int]
  BY <1>2, Credited, Parts
<1>7. tasks' \in [1..MaxTasks -> TaskType] /\ TasksOK'
  BY <1>1, <1>5, TasksStay
<1> QED
  BY <1>1, <1>5, <1>6, <1>7, Parts DEF MoneyInv, MoneyTypeOK

\* What an admin does with rows (Examine), what the healer finds, time, the audit.
LEMMA DeskKeeps ==
    ASSUME MoneyInv,
           \/ \E r \in DOMAIN rows : Examine(r)
           \/ FindOrphans \/ HoursPass \/ Audit \/ AuditGoesOn \/ Decide \/ LiftLockdown
    PROVE  MoneyInv'
<1>1. CASE HoursPass \/ Audit \/ AuditGoesOn \/ Decide \/ LiftLockdown
  <2>1. /\ wallet' = wallet /\ rows' = rows /\ seats' = seats /\ pot' = pot /\ jobs' = jobs
        /\ closing' = closing /\ tasks' = tasks
    BY <1>1 DEF HoursPass, Audit, AuditGoesOn, Decide, LiftLockdown, bank, ring
  <2> QED
    BY <2>1, TasksStay, RowsStay DEF MoneyInv, MoneyTypeOK
<1>2. ASSUME NEW r \in DOMAIN rows, Examine(r) PROVE MoneyInv'
  <2>1. /\ wallet' = wallet /\ rows' = rows /\ seats' = seats /\ pot' = pot /\ jobs' = jobs
        /\ closing' = closing
    BY <1>2 DEF Examine, bank, ring, desk
  <2>2. PICK op \in {"approve", "reject"} :
          Begin([Task(op, "process", rows[r].user, NoTask.seat, rows[r].amount) EXCEPT !.refs = {r}])
    BY <1>2 DEF Examine
  <2> DEFINE t == RowTask(op, "process", rows[r].user, rows[r].amount, {r})
  <2>3. rows[r].kind \in {"deposit", "withdraw"}
    BY <1>2 DEF Examine
  <2>4. rows[r].user \in Users /\ rows[r].amount \in Nat /\ r \in Nat
    <3>1. rows[r] \in RowType /\ r \in Nat
      BY Parts
    <3>2. rows[r].amount >= 0
      BY <2>3, Parts DEF RowsOK
    <3> QED
      BY <3>1, <3>2 DEF RowType
  <2>5. /\ t \in TaskType /\ t.at = "process" /\ t.op = op /\ t.user \in Users
        /\ t.amount = rows[r].amount /\ t.refs = {r}
    <3>1. op \in Ops /\ "process" \in Ats /\ {r} \in SUBSET Nat
      BY <2>4, TaskMakes DEF Ops, Ats
    <3> QED
      BY <2>4, <3>1, TaskWith
  <2>6. TaskOK(t, rows)
    BY <2>3, <2>5 DEF TaskOK
  <2> HIDE DEF t
  <2> QED
    BY <2>1, <2>2, <2>5, <2>6, TaskBegun, RowsStay
       DEF MoneyInv, MoneyTypeOK, t, RowTask
<1>3. CASE FindOrphans
  <2>1. /\ wallet' = wallet /\ rows' = rows /\ seats' = seats /\ pot' = pot /\ jobs' = jobs
        /\ closing' = closing
    BY <1>3 DEF FindOrphans, bank, ring, desk
  <2>2. PICK op \in {"heal", "resolve"}, found \in SUBSET Orphans :
          Begin([Task(op, "heal", Nobody, NoTask.seat, 0) EXCEPT !.refs = found])
    BY <1>3 DEF FindOrphans
  <2> DEFINE t == RowTask(op, "heal", Nobody, 0, found)
  <2>3. \A r \in found : r \in DOMAIN rows /\ rows[r].kind = "buy_in"
    BY DEF Orphans
  <2>4. found \in SUBSET Nat
    BY <2>3, Parts
  <2>5. t \in TaskType /\ t.at = "heal" /\ t.op = op /\ t.refs = found
    <3>1. op \in Ops /\ "heal" \in Ats /\ Nobody \in Users \cup {Nobody} /\ 0 \in Nat
      BY TaskMakes DEF Ops, Ats
    <3>2. /\ t \in TaskType /\ t.op = op /\ t.at = "heal" /\ t.user = Nobody /\ t.amount = 0
          /\ t.refs = found
      BY <2>4, <3>1, TaskWith
    <3> QED
      BY <3>2
  <2>6. TaskOK(t, rows)
    BY <2>3, <2>5 DEF TaskOK
  <2> HIDE DEF t
  <2> QED
    BY <2>1, <2>2, <2>5, <2>6, TaskBegun, RowsStay
       DEF MoneyInv, MoneyTypeOK, t, RowTask
<1> QED
  BY <1>1, <1>2, <1>3

\* The moves of the table.
LEMMA PlayKeeps ==
    ASSUME MoneyInv, NEW s \in Seats, Bet(s) \/ Award(s)
    PROVE  MoneyInv'
<1>1. wallet' = wallet /\ rows' = rows /\ jobs' = jobs /\ closing' = closing /\ tasks' = tasks
  BY DEF Bet, Award, bank, desk
<1>2. \A r \in Seats : /\ seats[r] \in SeatRecord /\ seats[r].user \in Users \cup {Nobody}
                       /\ seats[r].chips \in Nat
                       /\ seats[r].bet \in Nat /\ seats[r].later \in Nat
                       /\ seats[r] = Empty => seats[r].chips = 0 /\ seats[r].bet = 0
                       /\ seats[r] # Empty => seats[r] \in Record
  BY Parts, SeatFields
<1>3. CASE Bet(s)
  <2>1. seats[s] \in Record /\ pot' \in Nat
    BY <1>2, <1>3, Parts DEF Bet
  <2>2. [seats[s] EXCEPT !.chips = @ - 1, !.bet = @ + 1] \in Record
    <3>1. seats[s].chips - 1 \in Nat /\ seats[s].bet + 1 \in Nat
      BY <1>2, <1>3 DEF Bet
    <3> QED
      BY <2>1, <3>1, RecordUpdates
  <2>3. seats' = [seats EXCEPT ![s] = [seats[s] EXCEPT !.chips = @ - 1, !.bet = @ + 1]]
    BY <1>3 DEF Bet
  <2>4. seats' \in [Seats -> SeatRecord]
    BY <2>2, <2>3, Parts DEF SeatRecord
  <2> QED
    BY <1>1, <2>1, <2>4, TasksStay, RowsStay DEF MoneyInv, MoneyTypeOK
<1>4. CASE Award(s)
  <2> DEFINE paid(r) == [seats[r] EXCEPT !.bet = 0, !.later = 0,
                            !.chips = @ + seats[r].later + (IF r = s THEN pot ELSE 0)]
  <2>1. pot \in Nat
    BY Parts
  <2>2. ASSUME NEW r \in Seats PROVE paid(r) \in SeatRecord
    <3>1. CASE seats[r] # Empty
      <4>1. seats[r] \in Record
        BY <1>2, <3>1
      <4>2. paid(r) \in Record
        <5>1. seats[r].chips + seats[r].later + (IF r = s THEN pot ELSE 0) \in Nat
          BY <1>2, <2>1
        <5> QED
          BY <4>1, <5>1, RecordUpdates
      <4> QED
        BY <4>2 DEF SeatRecord
    <3>2. CASE seats[r] = Empty
      <4>1. r # s
        <5>1. seats[s].bet > 0
          BY <1>4 DEF Award
        <5>2. seats[r].bet = 0
          BY <1>2, <3>2
        <5> QED
          BY <5>1, <5>2
      <4>2. paid(r) = Empty
        <5>1. seats[r].chips + seats[r].later + (IF r = s THEN pot ELSE 0) = 0
          BY <3>2, <4>1 DEF Empty
        <5> QED
          BY <3>2, <5>1, EmptyUpdate
      <4> QED
        BY <4>2 DEF SeatRecord
    <3> QED
      BY <3>1, <3>2
  <2>3. seats' = [r \in Seats |-> paid(r)] /\ pot' = 0
    BY <1>4 DEF Award
  <2> HIDE DEF paid
  <2>4. seats' \in [Seats -> SeatRecord] /\ pot' \in Nat
    BY <2>2, <2>3
  <2> QED
    BY <1>1, <2>4, TasksStay, RowsStay DEF MoneyInv, MoneyTypeOK
<1> QED
  BY <1>3, <1>4

(***************************************************************************)
(* The invariant is kept by the handlers in flight.                        *)
(***************************************************************************)

\* What the invariant says of one of them.
LEMMA TaskSays ==
    ASSUME MoneyInv, NEW i \in 1..MaxTasks
    PROVE  /\ tasks[i] \in TaskType /\ TaskOK(tasks[i], rows)
           /\ tasks[i].amount \in Nat /\ tasks[i].seat \in Seats
           /\ tasks[i].at \notin {"idle", "heal"} => tasks[i].user \in Users
           /\ seats[tasks[i].seat] \in SeatRecord
           /\ seats[tasks[i].seat] # Empty => seats[tasks[i].seat] \in Record
<1>1. tasks[i] \in TaskType /\ TaskOK(tasks[i], rows)
  BY Parts
<1>2. tasks[i].amount \in Nat /\ tasks[i].seat \in Seats
  BY <1>1, TaskFields
<1>3. seats[tasks[i].seat] \in SeatRecord
  BY <1>2, Parts
<1> QED
  BY <1>1, <1>2, <1>3, SeatFields DEF TaskOK

\* A task whose chips have been given goes on to be charged.
LEMMA TaskGiven ==
    ASSUME MoneyInv, rows' = rows, NEW i \in 1..MaxTasks,
           tasks[i].op \in {"join", "add"}, tasks[i].at = "script",
           tasks' = [tasks EXCEPT ![i].at = "lock", ![i].given = TRUE]
    PROVE  tasks' \in [1..MaxTasks -> TaskType] /\ TasksOK'
<1> DEFINE t == [[tasks[i] EXCEPT !.at = "lock"] EXCEPT !.given = TRUE]
<1>1. tasks[i] \in TaskType /\ tasks[i].user \in Users /\ tasks \in [1..MaxTasks -> TaskType]
  BY TaskSays, Parts
<1>2. /\ t \in TaskType /\ t.at = "lock" /\ t.op = tasks[i].op /\ t.user = tasks[i].user
  BY <1>1 DEF TaskType, Ats
<1>3. TaskOK(t, rows)
  BY <1>1, <1>2 DEF TaskOK
<1>4. tasks' = [tasks EXCEPT ![i] = t]
  BY <1>1
<1> HIDE DEF t
<1> QED
  BY <1>2, <1>3, <1>4, TaskReplaced, RowsStay

\* The balance is copied to Redis (sync_balance.lua).
LEMMA SyncKeeps == ASSUME MoneyInv, NEW i \in 1..MaxTasks, Sync(i) PROVE MoneyInv'
<1>1. /\ wallet' = wallet /\ rows' = rows /\ seats' = seats /\ pot' = pot /\ jobs' = jobs
      /\ closing' = closing
  BY DEF Sync, bank, ring, desk
<1>2. Go(i, "script") /\ tasks[i].op \in {"join", "add"} /\ tasks[i].at = "sync"
  BY DEF Sync, At
<1>3. tasks' \in [1..MaxTasks -> TaskType] /\ TasksOK'
  BY <1>1, <1>2, TaskGoesOn, RowsStay
<1> QED
  BY <1>1, <1>3, RowsStay DEF MoneyInv, MoneyTypeOK

\* join_table.lua and add_chips.lua.
LEMMA ScriptKeeps ==
    ASSUME MoneyInv, NEW i \in 1..MaxTasks, JoinScript(i) \/ AddScript(i)
    PROVE  MoneyInv'
<1>1. wallet' = wallet /\ rows' = rows /\ pot' = pot /\ jobs' = jobs /\ closing' = closing
  BY DEF JoinScript, AddScript, bank, desk
<1> DEFINE u == tasks[i].user  s == tasks[i].seat  n == tasks[i].amount
<1>2. /\ tasks[i].op \in {"join", "add"} /\ tasks[i].at = "script"
      /\ u \in Users /\ s \in Seats /\ n \in Nat /\ seats[s] \in SeatRecord
  BY TaskSays DEF JoinScript, AddScript, At
<1>3. \/ seats' = seats
      \/ seats' = [seats EXCEPT ![s] = Stack(u, n)]
      \/ seats[s] # Empty /\ seats' = [seats EXCEPT ![s].chips = @ + n]
  BY DEF JoinScript, AddScript
<1>4. \/ Go(i, "lock")
      \/ End(i)
      \/ tasks' = [tasks EXCEPT ![i].at = "lock", ![i].given = TRUE]
  BY DEF JoinScript, AddScript
<1>5. tasks' \in [1..MaxTasks -> TaskType] /\ TasksOK'
  <2>1. CASE Go(i, "lock")
    BY <1>1, <1>2, <2>1, TaskGoesOn, RowsStay
  <2>2. CASE End(i)
    BY <1>1, <2>2, TaskEnded, RowsStay
  <2>3. CASE tasks' = [tasks EXCEPT ![i].at = "lock", ![i].given = TRUE]
    BY <1>1, <1>2, <2>3, TaskGiven
  <2> QED
    BY <1>4, <2>1, <2>2, <2>3
<1>6. seats' \in [Seats -> SeatRecord]
  <2>1. CASE seats' = seats
    BY <2>1, Parts
  <2>2. CASE seats' = [seats EXCEPT ![s] = Stack(u, n)]
    <3>1. Stack(u, n) \in SeatRecord
      BY <1>2, MadeOf DEF SeatRecord
    <3> QED
      BY <2>2, <3>1, Parts
  <2>3. CASE seats[s] # Empty /\ seats' = [seats EXCEPT ![s].chips = @ + n]
    <3>1. seats[s] \in Record /\ seats[s].chips + n \in Nat
      BY <1>2, <2>3, SeatFields
    <3>2. [seats[s] EXCEPT !.chips = seats[s].chips + n] \in SeatRecord
      BY <3>1, RecordUpdates DEF SeatRecord
    <3> QED
      BY <2>3, <3>2, Parts
  <2> QED
    BY <1>3, <2>1, <2>2, <2>3
<1> HIDE DEF u, s, n
<1> QED
  BY <1>1, <1>5, <1>6, RowsStay DEF MoneyInv, MoneyTypeOK

\* The debit, and the handler that is refused it (lockFunds).
LEMMA LockKeeps == ASSUME MoneyInv, NEW i \in 1..MaxTasks, Lock(i) PROVE MoneyInv'
<1>1. seats' = seats /\ pot' = pot /\ jobs' = jobs /\ closing' = closing
  BY DEF Lock, ring, desk
<1> DEFINE u == tasks[i].user  n == tasks[i].amount  row == Row(u, "buy_in", n, "completed", Len(rows) + 1)
<1>2. /\ tasks[i].at = "lock" /\ u \in Users /\ n \in Nat /\ -n \in Int
      /\ tasks[i] \in TaskType /\ TaskOK(tasks[i], rows) /\ tasks[i].op \in {"join", "add", "rebuy"}
      /\ seats[tasks[i].seat] \in SeatRecord
  BY TaskSays DEF Lock, TaskOK
<1>3. CASE Credit(u, -n) /\ NewRow(row) /\ (IF tasks[i].op = "rebuy" THEN Go(i, "vault") ELSE End(i))
  <2>1. row \in RowType
    BY <1>2, Parts, MadeOf DEF Kinds
  <2>2. row.amount = n
    BY DEF Row
  <2> HIDE DEF row
  <2>3. rows' \in Seq(RowType) /\ Extends(rows, rows') /\ RowsOK'
    BY <1>2, <1>3, <2>1, <2>2, Booking
  <2>4. wallet' \in [Users -> Int]
    BY <1>2, <1>3, Credited
  <2>5. tasks' \in [1..MaxTasks -> TaskType] /\ TasksOK'
    <3>1. CASE tasks[i].op = "rebuy" /\ Go(i, "vault")
      BY <1>2, <2>3, <3>1, TaskGoesOn
    <3>2. CASE End(i)
      BY <2>3, <3>2, TaskEnded
    <3> QED
      BY <1>3, <3>1, <3>2
  <2> QED
    BY <1>1, <2>3, <2>4, <2>5, Parts DEF MoneyInv, MoneyTypeOK
<1>4. CASE /\ wallet' = wallet /\ rows' = rows
           /\ tasks' = [tasks EXCEPT ![i].at = "undo",
                            ![i].saw = IF tasks[i].op = "add" THEN seats[tasks[i].seat] ELSE @]
  <2> DEFINE saw == IF tasks[i].op = "add" THEN seats[tasks[i].seat] ELSE tasks[i].saw
             t == [[tasks[i] EXCEPT !.at = "undo"] EXCEPT !.saw = saw]
  <2>1. saw \in Saw /\ (tasks[i].op # "join" => saw \in SeatRecord)
    BY <1>2, SeatFields, TaskFields DEF TaskOK
  <2>2. tasks' = [tasks EXCEPT ![i] = t]
    BY <1>2, <1>4, Parts
  <2> HIDE DEF saw
  <2>3. /\ t \in TaskType /\ t.at = "undo" /\ t.op = tasks[i].op /\ t.user = u /\ t.saw = saw
    BY <1>2, <2>1 DEF TaskType, Ats
  <2>4. TaskOK(t, rows)
    BY <1>2, <2>1, <2>3 DEF TaskOK
  <2> HIDE DEF t
  <2>5. tasks' \in [1..MaxTasks -> TaskType] /\ TasksOK'
    BY <1>4, <2>2, <2>3, <2>4, TaskReplaced, RowsStay
  <2> QED
    BY <1>1, <1>4, <2>5, RowsStay DEF MoneyInv, MoneyTypeOK
<1> QED
  BY <1>3, <1>4 DEF Lock, bank

\* The record that is put back when the charge has failed.
LEMMA UndoKeeps == ASSUME MoneyInv, NEW i \in 1..MaxTasks, Undo(i) PROVE MoneyInv'
<1>1. wallet' = wallet /\ rows' = rows /\ pot' = pot /\ jobs' = jobs /\ closing' = closing
  BY DEF Undo, bank, desk
<1> DEFINE t == tasks[i]  s == tasks[i].seat
<1>2. t \in TaskType /\ TaskOK(t, rows) /\ s \in Seats /\ t.at = "undo" /\ t.amount \in Nat
  BY TaskSays DEF Undo
<1>3. seats' = seats \/ (Undone(t) \in SeatRecord /\ seats' = [seats EXCEPT ![s] = Undone(t)])
  <2>1. CASE t.op = "join"
    <3>1. Undone(t) = Empty /\ seats' = [seats EXCEPT ![s] = Undone(t)]
      BY <2>1 DEF Undone, Undo
    <3> QED
      BY <3>1 DEF SeatRecord
  <2>2. CASE t.op # "join" /\ t.saw = Empty
    BY <2>2 DEF Undo
  <2>3. CASE t.op # "join" /\ t.saw # Empty
    <3>1. t.saw \in Record /\ t.saw.chips \in Nat
      BY <1>2, <2>3, SeatFields DEF TaskOK
    <3> DEFINE c == IF t.op = "add" THEN Max({0, t.saw.chips - t.amount}) ELSE t.saw.chips
    <3>2. c \in Nat
      <4>1. t.saw.chips - t.amount \in Int
        BY <1>2, <3>1
      <4>2. \A k \in Int : Max({0, k}) \in Nat
        BY DEF Max
      <4> QED
        BY <3>1, <4>1, <4>2
    <3>3. Undone(t) = [t.saw EXCEPT !.chips = c]
      BY <2>3 DEF Undone
    <3> HIDE DEF c
    <3>4. Undone(t) \in SeatRecord
      BY <3>1, <3>2, <3>3, RecordUpdates DEF SeatRecord
    <3>5. seats' = [seats EXCEPT ![s] = Undone(t)]
      BY <2>3 DEF Undo
    <3> QED
      BY <3>4, <3>5
  <2> QED
    BY <2>1, <2>2, <2>3
<1>4. seats' \in [Seats -> SeatRecord]
  BY <1>2, <1>3, Parts
<1>5. tasks' \in [1..MaxTasks -> TaskType] /\ TasksOK'
  BY <1>1, TaskEnded, RowsStay DEF Undo
<1> QED
  BY <1>1, <1>4, <1>5, RowsStay DEF MoneyInv, MoneyTypeOK

\* add_chips_vault.lua.
LEMMA VaultKeeps == ASSUME MoneyInv, NEW i \in 1..MaxTasks, Vault(i) PROVE MoneyInv'
<1>1. wallet' = wallet /\ rows' = rows /\ pot' = pot /\ jobs' = jobs /\ closing' = closing
  BY DEF Vault, bank, desk
<1> DEFINE s == tasks[i].seat  n == tasks[i].amount
<1>2. /\ tasks[i].at = "vault" /\ tasks[i].op = "rebuy" /\ s \in Seats /\ n \in Nat
      /\ seats[s] \in SeatRecord /\ (seats[s] # Empty => seats[s] \in Record)
  BY TaskSays DEF Vault, TaskOK
<1>3. CASE seats[s] = Empty /\ Go(i, "refund") /\ seats' = seats
  <2>1. tasks' \in [1..MaxTasks -> TaskType] /\ TasksOK'
    BY <1>1, <1>2, <1>3, TaskGoesOn, RowsStay
  <2> QED
    BY <1>1, <1>3, <2>1, RowsStay DEF MoneyInv, MoneyTypeOK
<1>4. CASE /\ seats[s] # Empty /\ End(i)
           /\ seats' = IF seats[s].bet > 0 THEN [seats EXCEPT ![s].later = @ + n]
                                           ELSE [seats EXCEPT ![s].chips = @ + n]
  <2>1. seats[s] \in Record /\ seats[s].chips + n \in Nat /\ seats[s].later + n \in Nat
    BY <1>2, <1>4, SeatFields
  <2>2. /\ [seats[s] EXCEPT !.chips = seats[s].chips + n] \in SeatRecord
        /\ [seats[s] EXCEPT !.later = seats[s].later + n] \in SeatRecord
    BY <2>1, RecordUpdates DEF SeatRecord
  <2>3. seats' \in [Seats -> SeatRecord]
    BY <1>2, <1>4, <2>2, Parts
  <2>4. tasks' \in [1..MaxTasks -> TaskType] /\ TasksOK'
    BY <1>1, <1>4, TaskEnded, RowsStay
  <2> QED
    BY <1>1, <2>3, <2>4, RowsStay DEF MoneyInv, MoneyTypeOK
<1> HIDE DEF s, n
<1> QED
  BY <1>3, <1>4 DEF Vault, s, n

\* The refund of a rebuy that found an empty seat.
LEMMA RefundKeeps == ASSUME MoneyInv, NEW i \in 1..MaxTasks, Refund(i) PROVE MoneyInv'
<1>1. seats' = seats /\ pot' = pot /\ jobs' = jobs /\ closing' = closing
  BY DEF Refund, ring, desk
<1>2. /\ tasks[i].at = "refund" /\ tasks[i].op = "rebuy" /\ tasks[i].user \in Users
      /\ tasks[i].amount \in Nat /\ tasks[i] \in TaskType /\ TaskOK(tasks[i], rows)
      /\ tasks[i].saw \in SeatRecord
  BY TaskSays DEF Refund, TaskOK
<1>3. wallet' \in [Users -> Int] /\ rows' \in Seq(RowType) /\ Extends(rows, rows') /\ RowsOK'
  BY <1>2, CashedOut DEF Refund
<1>4. tasks' \in [1..MaxTasks -> TaskType] /\ TasksOK'
  <2>1. CASE End(i)
    BY <1>3, <2>1, TaskEnded
  <2>2. CASE Go(i, "undo")
    <3> DEFINE t == [tasks[i] EXCEPT !.at = "undo"]
    <3>1. "undo" \in Ats
      BY DEF Ats
    <3>2. t \in TaskType
      BY <1>2, <3>1, TaskMakes
    <3>3. t.at = "undo" /\ t.op = "rebuy" /\ t.user = tasks[i].user /\ t.saw = tasks[i].saw
      BY <1>2 DEF TaskType
    <3>4. TaskOK(t, rows')
      BY <1>2, <3>3 DEF TaskOK
    <3>5. tasks' = [tasks EXCEPT ![i] = t]
      BY <2>2 DEF Go
    <3> HIDE DEF t
    <3> QED
      BY <1>3, <3>2, <3>4, <3>5, TaskReplaced
  <2> QED
    BY <2>1, <2>2 DEF Refund
<1> QED
  BY <1>1, <1>3, <1>4, Parts DEF MoneyInv, MoneyTypeOK

\* The reaper's kick, and the job for the cash-out worker.
LEMMA PayoutKeeps ==
    ASSUME MoneyInv, NEW i \in 1..MaxTasks, Kick(i) \/ Enqueue(i)
    PROVE  MoneyInv'
<1>1. wallet' = wallet /\ rows' = rows /\ pot' = pot /\ closing' = closing
  BY DEF Kick, Enqueue, bank, ring, desk
<1>2. /\ tasks[i].at \in {"kick", "enqueue"} /\ tasks[i].user \in Users
      /\ tasks[i].amount \in Nat /\ tasks[i].seat \in Seats
  BY TaskSays DEF Kick, Enqueue
<1>3. jobs' \in Seq(JobType)
  <2>1. Job(tasks[i].user, tasks[i].amount) \in JobType /\ jobs \in Seq(JobType)
    BY <1>2, MadeOf, Parts
  <2> QED
    BY <2>1 DEF Kick, Enqueue
<1>4. seats' \in [Seats -> SeatRecord]
  BY <1>2, SeatEmptied, Parts DEF Kick, Enqueue, ring
<1>5. tasks' \in [1..MaxTasks -> TaskType] /\ TasksOK'
  <2>1. CASE End(i)
    BY <1>1, <2>1, TaskEnded, RowsStay
  <2>2. CASE Go(i, "enqueue")
    BY <1>1, <1>2, <2>2, TaskGoesOn, RowsStay
  <2> QED
    BY <2>1, <2>2 DEF Kick, Enqueue
<1> QED
  BY <1>1, <1>3, <1>4, <1>5, RowsStay DEF MoneyInv, MoneyTypeOK

\* What an admin changes in a row: its status, and perhaps its amount.
Done(row, status) == [row EXCEPT !.status = status]
DoneFor(row, status, n) == [Done(row, status) EXCEPT !.amount = n]

\* What is left of it.
LEMMA RowChanges ==
    ASSUME NEW row \in RowType, NEW n \in Int, NEW status \in {"completed", "rejected"}
    PROVE  /\ LET done == Done(row, status)
              IN  /\ done \in RowType /\ done.kind = row.kind /\ done.user = row.user
                  /\ done.status = status /\ done.amount = row.amount /\ done.ref = row.ref
           /\ LET done == DoneFor(row, status, n)
              IN  /\ done \in RowType /\ done.kind = row.kind /\ done.user = row.user
                  /\ done.status = status /\ done.amount = n /\ done.ref = row.ref
<1>1. LET done == Done(row, status)
      IN  /\ done \in RowType /\ done.kind = row.kind /\ done.user = row.user
          /\ done.status = status /\ done.amount = row.amount /\ done.ref = row.ref
  BY DEF RowType, Done
<1>2. \A q \in RowType : LET done == [q EXCEPT !.amount = n]
                         IN  /\ done \in RowType /\ done.kind = q.kind /\ done.user = q.user
                             /\ done.status = q.status /\ done.amount = n /\ done.ref = q.ref
  BY DEF RowType
<1> QED
  BY <1>1, <1>2 DEF DoneFor

\* A row is processed: it is no longer pending, and its amount is not negative.
LEMMA RowProcessed ==
    ASSUME MoneyInv, NEW r \in DOMAIN rows, NEW n \in Nat, NEW status \in {"completed", "rejected"},
           \/ rows' = [rows EXCEPT ![r].status = status]
           \/ rows' = [rows EXCEPT ![r].status = status, ![r].amount = n]
    PROVE  rows' \in Seq(RowType) /\ Extends(rows, rows') /\ RowsOK'
<1>1. rows \in Seq(RowType) /\ rows[r] \in RowType /\ RowsOK
  BY Parts
<1>2. PICK row \in {Done(rows[r], status), DoneFor(rows[r], status, n)} :
        rows' = [rows EXCEPT ![r] = row]
  BY <1>1 DEF Done, DoneFor
<1>7. row \in RowType /\ row.kind = rows[r].kind /\ row.status = status
      /\ (row.amount = n \/ row.amount = rows[r].amount)
  BY <1>1, RowChanges
<1>3. rows' \in Seq(RowType)
  BY <1>1, <1>2, <1>7
<1>4. DOMAIN rows' = DOMAIN rows /\ rows'[r] = row
      /\ \A k \in DOMAIN rows : k # r => rows'[k] = rows[k]
  BY <1>1, <1>2
<1>5. Extends(rows, rows')
  BY <1>7, <1>4 DEF Extends
<1>6. RowsOK'
  BY <1>1, <1>7, <1>4 DEF RowsOK
<1> QED
  BY <1>3, <1>5, <1>6

\* A deposit or a withdrawal is processed.
LEMMA ProcessKeeps == ASSUME MoneyInv, NEW i \in 1..MaxTasks, Process(i) PROVE MoneyInv'
<1>1. seats' = seats /\ pot' = pot /\ jobs' = jobs /\ closing' = closing
  BY DEF Process, ring, desk
<1> DEFINE asked == tasks[i].amount
<1>2. PICK r \in tasks[i].refs : Approve(r, asked) \/ Reject(r, asked)
  BY DEF Process
<1>3. r \in DOMAIN rows /\ rows[r].user \in Users /\ asked \in Nat /\ -asked \in Int
  <2>1. r \in DOMAIN rows /\ asked \in Nat
    BY TaskSays DEF Process, TaskOK
  <2>2. rows[r] \in RowType
    BY <2>1, Parts
  <2> QED
    BY <2>1, <2>2 DEF RowType
<1>4. PICK n \in Nat, status \in {"completed", "rejected"} :
        \/ rows' = [rows EXCEPT ![r].status = status]
        \/ rows' = [rows EXCEPT ![r].status = status, ![r].amount = n]
  <2>1. CASE \E n \in Finals : rows' = [rows EXCEPT ![r].status = "completed", ![r].amount = n]
    BY <2>1, Parts
  <2>2. CASE rows' = [rows EXCEPT ![r].status = "completed"]
    BY <2>2, <1>3
  <2>3. CASE rows' = [rows EXCEPT ![r].status = "rejected"]
    BY <2>3, <1>3
  <2> QED
    BY <1>2, <2>1, <2>2, <2>3 DEF Approve, Reject
<1>5. rows' \in Seq(RowType) /\ Extends(rows, rows') /\ RowsOK'
  BY <1>3, <1>4, RowProcessed
<1>6. wallet' \in [Users -> Int]
  <2>1. wallet' = wallet \/ \E k \in Int : Credit(rows[r].user, k)
    <3>1. CASE \E k \in Finals : Credit(rows[r].user, k)
      BY <3>1, Parts
    <3>2. CASE Credit(rows[r].user, asked) \/ Credit(rows[r].user, -asked) \/ wallet' = wallet
      BY <3>2, <1>3
    <3> QED
      BY <1>2, <3>1, <3>2 DEF Approve, PayIn, Reject
  <2> QED
    BY <1>3, <2>1, Credited, Parts
<1>7. tasks' \in [1..MaxTasks -> TaskType] /\ TasksOK'
  BY <1>5, TaskEnded DEF Process
<1> QED
  BY <1>1, <1>5, <1>6, <1>7, Parts DEF MoneyInv, MoneyTypeOK

\* A session is refunded by the healer or by an admin.
LEMMA HealKeeps == ASSUME MoneyInv, NEW i \in 1..MaxTasks, Heal(i) PROVE MoneyInv'
<1>1. seats' = seats /\ pot' = pot /\ jobs' = jobs /\ closing' = closing
  BY DEF Heal, ring, desk
<1>2. PICK r \in tasks[i].refs :
        /\ IF Taken(r) THEN UNCHANGED bank
           ELSE /\ Credit(rows[r].user, rows[r].amount)
                /\ NewRow(Row(rows[r].user, "cash_out", rows[r].amount, "completed", r))
        /\ IF tasks[i].refs = {r} THEN End(i)
           ELSE tasks' = [tasks EXCEPT ![i].refs = @ \ {r}]
  BY DEF Heal
<1>3. tasks[i].at = "heal" /\ tasks[i] \in TaskType /\ TaskOK(tasks[i], rows)
  BY TaskSays DEF Heal
<1>4. r \in DOMAIN rows /\ r \in Nat /\ rows[r].user \in Users /\ rows[r].amount \in Nat
  <2>1. r \in DOMAIN rows /\ rows[r].kind = "buy_in"
    BY <1>3 DEF TaskOK
  <2>2. rows[r] \in RowType /\ r \in Nat /\ rows[r].amount >= 0
    BY <2>1, Parts DEF RowsOK
  <2> QED
    BY <2>1, <2>2 DEF RowType
<1>5. wallet' \in [Users -> Int] /\ rows' \in Seq(RowType) /\ Extends(rows, rows') /\ RowsOK'
  <2>1. CASE wallet' = wallet /\ rows' = rows
    BY <2>1, RowsStay, Parts
  <2>2. CASE /\ Credit(rows[r].user, rows[r].amount)
             /\ NewRow(Row(rows[r].user, "cash_out", rows[r].amount, "completed", r))
    <3> DEFINE row == Row(rows[r].user, "cash_out", rows[r].amount, "completed", r)
    <3>1. row \in RowType
      BY <1>4, MadeOf DEF Kinds
    <3>2. row.amount = rows[r].amount
      BY DEF Row
    <3> HIDE DEF row
    <3> QED
      BY <1>4, <2>2, <3>1, <3>2, Booking, Credited DEF row
  <2> QED
    BY <1>2, <2>1, <2>2 DEF bank
<1>6. tasks' \in [1..MaxTasks -> TaskType] /\ TasksOK'
  <2>1. CASE End(i)
    BY <1>5, <2>1, TaskEnded
  <2>2. CASE tasks' = [tasks EXCEPT ![i].refs = @ \ {r}]
    <3> DEFINE t == [tasks[i] EXCEPT !.refs = @ \ {r}]
    <3>1. t \in TaskType /\ t.at = "heal" /\ t.op = tasks[i].op /\ t.saw = tasks[i].saw
          /\ t.refs \subseteq tasks[i].refs
      BY <1>3 DEF TaskType
    <3>2. TaskOK(t, rows)
      BY <1>3, <3>1 DEF TaskOK
    <3>3. TaskOK(t, rows')
      BY <1>5, <3>1, <3>2, TaskKept
    <3>4. tasks' = [tasks EXCEPT ![i] = t]
      BY <2>2
    <3> HIDE DEF t
    <3> QED
      BY <1>5, <3>1, <3>3, <3>4, TaskReplaced
  <2> QED
    BY <1>2, <2>1, <2>2
<1> QED
  BY <1>1, <1>5, <1>6, Parts DEF MoneyInv, MoneyTypeOK

\* The cash-out worker, with its failures and repetitions.
LEMMA QueueKeeps ==
    ASSUME MoneyInv, Settle \/ SettleFails \/ Redeliver
    PROVE  MoneyInv'
<1>1. seats' = seats /\ pot' = pot /\ closing' = closing /\ tasks' = tasks
  BY DEF Settle, SettleFails, Redeliver, ring, desk
<1>2. /\ jobs \in Seq(JobType) /\ jobs # <<>> /\ Head(jobs) \in JobType
      /\ Tail(jobs) \in Seq(JobType)
  BY Parts DEF Settle, SettleFails, Redeliver
<1>3. jobs' \in Seq(JobType)
  BY <1>2 DEF Settle, SettleFails, Redeliver
<1>4. Head(jobs).user \in Users /\ Head(jobs).amount \in Nat
  BY <1>2 DEF JobType
<1>5. wallet' \in [Users -> Int] /\ rows' \in Seq(RowType) /\ Extends(rows, rows') /\ RowsOK'
  <2>1. CASE CashOut(Head(jobs).user, Head(jobs).amount)
    BY <1>4, <2>1, CashedOut
  <2>2. CASE SettleFails
    BY <2>2, RowsStay, Parts DEF SettleFails, bank
  <2> QED
    BY <2>1, <2>2 DEF Settle, Redeliver
<1>6. tasks' \in [1..MaxTasks -> TaskType] /\ TasksOK'
  BY <1>1, <1>5, TasksStay
<1> QED
  BY <1>1, <1>3, <1>5, <1>6, Parts DEF MoneyInv, MoneyTypeOK

\* An admin closes the table.
LEMMA CloseKeeps ==
    ASSUME MoneyInv,
           Close \/ CloseDelete \/ \E c \in closing : CloseRefund(c) \/ CloseRefundFails(c)
    PROVE  MoneyInv'
<1>1. jobs' = jobs /\ tasks' = tasks
  BY DEF Close, CloseDelete, CloseRefund, CloseRefundFails
<1>2. ASSUME NEW c \in Found
      PROVE  /\ c.user \in Users /\ c.chips \in Nat
             /\ Refunded(c) \in Found /\ Refunded([c EXCEPT !.chips = 0]) \in Found
  <2>1. ASSUME NEW d \in Found PROVE Refunded(d) \in Found
    BY DEF Found, Refunded
  <2>2. c.user \in Users /\ c.chips \in Nat /\ [c EXCEPT !.chips = 0] \in Found
    BY DEF Found
  <2> QED
    BY <2>1, <2>2
<1>3. CASE Close
  <2>1. wallet' = wallet /\ rows' = rows /\ seats' = seats /\ pot' = pot
    BY <1>3 DEF Close, bank, ring
  <2>2. closing' \in SUBSET Found
    <3>1. ASSUME NEW s \in Seats, seats[s] # Empty
          PROVE  [seat |-> s, user |-> seats[s].user, chips |-> seats[s].chips,
                  refunded |-> seats[s].chips = 0] \in Found
      <4>1. seats[s].user \in Users /\ seats[s].chips \in Nat
        BY <3>1, Parts, SeatFields, MadeOf
      <4>2. (seats[s].chips = 0) \in BOOLEAN
        OBVIOUS
      <4> QED
        BY <4>1, <4>2, Zenon DEF Found
    <3> QED
      BY <1>3, <3>1 DEF Close
  <2> QED
    BY <1>1, <2>1, <2>2, TasksStay, RowsStay DEF MoneyInv, MoneyTypeOK
<1>4. CASE CloseDelete
  <2>1. wallet' = wallet /\ rows' = rows /\ pot' = 0 /\ closing' = {}
        /\ seats' = [s \in Seats |-> Empty]
    BY <1>4 DEF CloseDelete, bank
  <2>2. seats' \in [Seats -> SeatRecord]
    BY <2>1 DEF SeatRecord
  <2> QED
    BY <1>1, <2>1, <2>2, TasksStay, RowsStay DEF MoneyInv, MoneyTypeOK
<1>5. ASSUME NEW c \in closing, CloseRefund(c) PROVE MoneyInv'
  <2>1. c \in Found
    BY Parts
  <2>2. c.user \in Users /\ c.chips \in Nat /\ Refunded(c) \in Found
    BY <1>2, <2>1
  <2> DEFINE row == Row(c.user, "cash_out", c.chips, "pending", 0)
  <2>3. row \in RowType
    BY <2>2, MadeOf DEF Kinds
  <2>4. row.amount = c.chips
    BY DEF Row
  <2>5. seats' = seats /\ pot' = pot /\ closing' = (closing \ {c}) \cup {Refunded(c)}
        /\ Credit(c.user, c.chips) /\ NewRow(row)
    BY <1>5 DEF CloseRefund, ring
  <2> HIDE DEF row
  <2>6. rows' \in Seq(RowType) /\ Extends(rows, rows') /\ RowsOK' /\ wallet' \in [Users -> Int]
    BY <2>2, <2>3, <2>4, <2>5, Booking, Credited
  <2>7. closing' \in SUBSET Found
    BY <2>2, <2>5, Parts
  <2>8. tasks' \in [1..MaxTasks -> TaskType] /\ TasksOK'
    BY <1>1, <2>6, TasksStay
  <2> QED
    BY <1>1, <2>5, <2>6, <2>7, <2>8, Parts DEF MoneyInv, MoneyTypeOK
<1>6. ASSUME NEW c \in closing, CloseRefundFails(c) PROVE MoneyInv'
  <2>1. /\ wallet' = wallet /\ rows' = rows /\ seats' = seats /\ pot' = pot
        /\ closing' = (closing \ {c}) \cup {Refunded([c EXCEPT !.chips = 0])}
    BY <1>6 DEF CloseRefundFails, bank, ring
  <2>2. c \in Found /\ closing \in SUBSET Found
    BY Parts
  <2>3. closing' \in SUBSET Found
    BY <1>2, <2>1, <2>2
  <2> QED
    BY <1>1, <2>1, <2>3, TasksStay, RowsStay DEF MoneyInv, MoneyTypeOK
<1> QED
  BY <1>3, <1>4, <1>5, <1>6

\* The server restarts, and its boot janitor queues the refunds.
LEMMA RestartKeeps == ASSUME MoneyInv, Restart PROVE MoneyInv'
<1>1. /\ wallet' = wallet /\ rows' = rows /\ seats' = [s \in Seats |-> Empty] /\ pot' = 0
      /\ tasks' = [i \in 1..MaxTasks |-> NoTask] /\ closing' = {}
  BY DEF Restart, bank
<1>2. seats' \in [Seats -> SeatRecord]
  BY <1>1 DEF SeatRecord
<1>3. tasks' \in [1..MaxTasks -> TaskType] /\ TasksOK'
  <2>1. NoTask \in TaskType /\ TaskOK(NoTask, rows')
    BY TaskMakes DEF TaskOK
  <2> QED
    BY <1>1, <2>1 DEF TasksOK
<1>4. jobs' \in Seq(JobType)
  <2>1. PICK kept \in SUBSET {s \in Seats : Refundable(s) > 0} : jobs' = jobs \o RefundJobs(kept)
    BY DEF Restart
  <2> DEFINE order == SetToSeq(kept)  n == Cardinality(kept)
  <2>2. IsFiniteSet(kept)
    BY <2>1, PlacesAssumption, FS_Subset
  <2>3. order \in [1..n -> kept] /\ n \in Nat
    BY <2>2, SequenceOf
  <2>4. \A s \in kept : Job(seats[s].user, Refundable(s)) \in JobType
    <3>1. ASSUME NEW s \in kept PROVE Job(seats[s].user, Refundable(s)) \in JobType
      <4>1. s \in Seats /\ Refundable(s) > 0
        BY <2>1
      <4>2. seats[s] \in SeatRecord
        BY <4>1, Parts
      <4>3. seats[s] # Empty /\ seats[s].chips \in Nat /\ seats[s].bet \in Nat
        BY <4>1, <4>2, SeatFields DEF Refundable
      <4>4. seats[s].user \in Users
        BY <4>2, <4>3, SeatFields, MadeOf
      <4>5. Refundable(s) \in Nat
        BY <4>3 DEF Refundable
      <4> QED
        BY <4>4, <4>5, MadeOf
    <3> QED
      BY <3>1
  <2>5. RefundJobs(kept) = [k \in 1..n |-> Job(seats[order[k]].user, Refundable(order[k]))]
    BY <2>3 DEF RefundJobs
  <2> HIDE DEF order, n
  <2>6. RefundJobs(kept) \in [1..n -> JobType]
    BY <2>3, <2>4, <2>5
  <2>7. RefundJobs(kept) \in Seq(JobType)
    BY <2>3, <2>6
  <2> QED
    BY <2>1, <2>7, Parts
<1> QED
  BY <1>1, <1>2, <1>3, <1>4, RowsStay, Parts DEF MoneyInv, MoneyTypeOK

(***************************************************************************)
(* The invariant holds of every behaviour.                                 *)
(***************************************************************************)

\* A finite set's image is finite.
LEMMA FiniteImage ==
    ASSUME NEW S, IsFiniteSet(S), NEW f
    PROVE  IsFiniteSet({f[x] : x \in S})
<1> DEFINE T == {f[x] : x \in S}
           g == [x \in S |-> f[x]]
<1>1. g \in [S -> T] /\ \A y \in T : \E x \in S : g[x] = y
  OBVIOUS
<1> HIDE DEF g, T
<1>2. g \in Surjection(S, T)
  BY <1>1 DEF Surjection
<1>3. IsFiniteSet(T)
  BY <1>2, FS_Surjection
<1> QED
  BY <1>3 DEF T

\* What the Transaction table holds at first: everybody's deposit, and a buy-in for
\* everybody who is seated.
LEMMA FirstRows ==
    ASSUME MoneyInit
    PROVE  /\ rows \in Seq(RowType)
           /\ \A r \in DOMAIN rows : rows[r].kind \in {"deposit", "buy_in"} /\ rows[r].amount >= 0
<1> DEFINE users == Cardinality(Users)
           taken == {s \in Seats : seats[s] # Empty}
           number(s) == users + Cardinality({r \in Seats : seats[r] # Empty /\ r <= s})
           deposit == [u \in Users |-> Row(u, "deposit", Savings, "completed", 0)]
           buyin == [s \in taken |->
                        Row(seats[s].user, "buy_in", seats[s].chips, "completed", number(s))]
           A == {deposit[u] : u \in Users}
           B == {buyin[s] : s \in taken}
           Good == {r \in RowType : r.kind \in {"deposit", "buy_in"} /\ r.amount >= 0}
<1>1. rows = SetToSeq(A) \o SetToSeq(B)
  <2>1. A = {Row(u, "deposit", Savings, "completed", 0) : u \in Users}
    OBVIOUS
  <2>2. B = {Row(seats[s].user, "buy_in", seats[s].chips, "completed", number(s)) : s \in taken}
    OBVIOUS
  <2> HIDE DEF A, B
  <2> QED
    BY <2>1, <2>2 DEF MoneyInit
<1>2. A \subseteq Good /\ IsFiniteSet(A)
  <2>1. ASSUME NEW u \in Users PROVE deposit[u] \in Good
    <3>1. Row(u, "deposit", Savings, "completed", 0) \in RowType
      BY MadeOf, AmountsAssumption DEF Kinds
    <3> QED
      BY <3>1, AmountsAssumption DEF Row
  <2>2. IsFiniteSet(A)
    <3> HIDE DEF deposit
    <3> QED
      BY PlacesAssumption, FiniteImage
  <2> QED
    BY <2>1, <2>2
<1>3. B \subseteq Good /\ IsFiniteSet(B)
  <2>1. ASSUME NEW s \in taken PROVE buyin[s] \in Good
    <3>1. PICK u \in Users, n \in BuyIns : seats[s] = Stack(u, n)
      BY DEF MoneyInit
    <3>2. seats[s].user = u /\ seats[s].chips = n /\ n \in Nat
      BY <3>1, AmountsAssumption DEF Stack
    <3>3. number(s) \in Nat
      <4>1. IsFiniteSet({r \in Seats : seats[r] # Empty /\ r <= s})
        BY PlacesAssumption, FS_Subset
      <4> QED
        BY <4>1, PlacesAssumption, FS_CardinalityType
    <3> HIDE DEF number
    <3>4. Row(u, "buy_in", n, "completed", number(s)) \in RowType
      BY <3>2, <3>3, MadeOf DEF Kinds
    <3> QED
      BY <3>2, <3>4 DEF Row
  <2>2. IsFiniteSet(taken)
    BY PlacesAssumption, FS_Subset
  <2>3. IsFiniteSet(B)
    <3> HIDE DEF taken, number, buyin
    <3> QED
      BY <2>2, FiniteImage
  <2> QED
    BY <2>1, <2>3
<1> HIDE DEF A, B
<1>4. SetToSeq(A) \in Seq(Good) /\ SetToSeq(B) \in Seq(Good)
  <2>1. SetToSeq(A) \in [1..Cardinality(A) -> A] /\ Cardinality(A) \in Nat
    BY <1>2, SequenceOf
  <2>2. SetToSeq(B) \in [1..Cardinality(B) -> B] /\ Cardinality(B) \in Nat
    BY <1>3, SequenceOf
  <2> HIDE DEF Good
  <2>3. SetToSeq(A) \in [1..Cardinality(A) -> Good]
    BY <1>2, <2>1
  <2>4. SetToSeq(B) \in [1..Cardinality(B) -> Good]
    BY <1>3, <2>2
  <2> QED
    BY <2>1, <2>2, <2>3, <2>4
<1>5. rows \in Seq(Good)
  <2> HIDE DEF Good
  <2> QED
    BY <1>1, <1>4
<1>6. \A r \in DOMAIN rows : rows[r] \in Good
  <2> HIDE DEF Good
  <2> QED
    BY <1>5
<1>7. rows \in Seq(RowType)
  BY <1>5, <1>6
<1> QED
  BY <1>6, <1>7

\* The initial state satisfies the invariant.
LEMMA MoneyInvInit == ASSUME MoneyInit PROVE MoneyInv
<1>1. rows \in Seq(RowType) /\ RowsOK
  BY FirstRows DEF RowsOK
<1>2. seats \in [Seats -> SeatRecord]
  <2>1. \A u \in Users, n \in BuyIns : Stack(u, n) \in SeatRecord
    BY MadeOf, AmountsAssumption DEF SeatRecord
  <2> QED
    BY <2>1 DEF MoneyInit, SeatRecord
<1>3. wallet \in [Users -> Int]
  <2>1. ASSUME NEW u \in Users
        PROVE  SumFunctionOnSet([s \in Seats |-> seats[s].chips], SeatsOf(u)) \in Int
    <3>1. IsFiniteSet(SeatsOf(u)) /\ SeatsOf(u) \subseteq Seats
      BY PlacesAssumption, FS_Subset DEF SeatsOf
    <3>2. \A s \in Seats : seats[s].chips \in Int
      BY <1>2, SeatFields
    <3> QED
      BY <3>1, <3>2, SumType
  <2> QED
    BY <2>1, AmountsAssumption DEF MoneyInit
<1>4. tasks \in [1..MaxTasks -> TaskType] /\ TasksOK
  <2>1. NoTask \in TaskType /\ TaskOK(NoTask, rows)
    BY TaskMakes DEF TaskOK
  <2> QED
    BY <2>1 DEF TasksOK, MoneyInit
<1> QED
  BY <1>1, <1>2, <1>3, <1>4 DEF MoneyInv, MoneyTypeOK, MoneyInit

\* Every step keeps the invariant.
LEMMA MoneyInvStep == ASSUME MoneyInv, ServerNext \/ EventNext PROVE MoneyInv'
<1>1. CASE ServerNext
  <2>1. ASSUME NEW i \in 1..MaxTasks, TaskNext(i) PROVE MoneyInv'
    BY <2>1, SyncKeeps, ScriptKeeps, LockKeeps, UndoKeeps, VaultKeeps, RefundKeeps, PayoutKeeps,
       ProcessKeeps, HealKeeps DEF TaskNext
  <2> QED
    BY <1>1, <2>1, QueueKeeps, CloseKeeps, DeskKeeps DEF ServerNext
<1>2. CASE EventNext
  <2>1. ASSUME NEW u \in Users,
               \/ \E s \in Seats : Join(u, s) \/ AddChips(u, s) \/ Rebuy(u, s) \/ Leave(u, s)
               \/ Deposit(u) \/ Withdraw(u) \/ Adjust(u)
        PROVE  MoneyInv'
    BY <2>1, RequestKeeps, LeaveKeeps, CashierKeeps
  <2>2. ASSUME NEW s \in Seats, AutoRebuy(s) \/ Notice(s) \/ Bet(s) \/ Award(s)
        PROVE  MoneyInv'
    BY <2>2, AutoRebuyKeeps, LeaveKeeps, PlayKeeps
  <2> QED
    BY <1>2, <2>1, <2>2, DeskKeeps, QueueKeeps, CloseKeeps, RestartKeeps DEF EventNext
<1> QED
  BY <1>1, <1>2

\* A step that changes nothing keeps it.
LEMMA MoneyInvStutter == ASSUME MoneyInv, UNCHANGED money PROVE MoneyInv'
<1>1. /\ wallet' = wallet /\ rows' = rows /\ seats' = seats /\ pot' = pot /\ jobs' = jobs
      /\ tasks' = tasks /\ closing' = closing
  BY DEF money
<1> QED
  BY <1>1, TasksStay, RowsStay DEF MoneyInv, MoneyTypeOK

\* What every step of the specification is.
LEMMA MoneySteps == MoneySpec => MoneyInit /\ [][ServerNext \/ EventNext]_money
<1>1. [(ServerNext \/ EventNext) /\ Misses]_money => [ServerNext \/ EventNext]_money
  OBVIOUS
<1> QED
  BY <1>1, PTL DEF MoneySpec

\* In every reachable state the wallets, the rows, the seats, the queue and the handlers in
\* flight are of their types, only a grant of the administrator is negative, every handler
\* at an await that pays or charges has a player, and the rows an admin's handler or the
\* healer will process are there.
THEOREM MoneyTyped == MoneySpec => []MoneyInv
<1>1. MoneyInit => MoneyInv
  BY MoneyInvInit
<1>2. MoneyInv /\ [ServerNext \/ EventNext]_money => MoneyInv'
  BY MoneyInvStep, MoneyInvStutter
<1> QED
  BY <1>1, <1>2, MoneySteps, PTL

(***************************************************************************)
(* How a step moves a wallet and the Transaction table.                    *)
(***************************************************************************)

\* One row is written, and the wallet of its user moves by what the row says: never below
\* zero by a debit, and never for a session that is closed already; a grant is final.
Books(row) ==
    /\ NewRow(row)
    /\ Credit(row.user, Entry(row))
    /\ Entry(row) >= 0 \/ wallet[row.user] + Entry(row) >= 0
    /\ row.kind = "cash_out" => row.ref = 0 \/ ~Closed(row.ref)
    /\ row.kind = "admin" => row.status = "completed"

\* What the row of a session, and one of the cashier, says.
LEMMA EntryOf ==
    ASSUME NEW u \in Users, NEW n \in Int, NEW ref \in Nat,
           NEW status \in {"pending", "completed", "rejected"}
    PROVE  /\ Entry(Row(u, "buy_in", n, status, ref)) = -n
           /\ Entry(Row(u, "cash_out", n, status, ref)) = n
           /\ Entry(Row(u, "admin", n, status, ref)) = n
           /\ Entry(Row(u, "deposit", n, "pending", ref)) = 0
           /\ Entry(Row(u, "withdraw", n, "pending", ref)) = -n
           /\ \A kind \in Kinds : /\ Row(u, kind, n, status, ref).user = u
                                  /\ Row(u, kind, n, status, ref).ref = ref
                                  /\ Row(u, kind, n, status, ref).kind = kind
                                  /\ Row(u, kind, n, status, ref).status = status
  BY DEF Entry, Paid, Row

\* A cash-out without a session.
LEMMA CashOutBooks ==
    ASSUME MoneyInv, NEW u \in Users, NEW n \in Nat, NEW status \in {"pending", "completed"},
           Credit(u, n), NewRow(Row(u, "cash_out", n, status, 0))
    PROVE  \E row \in RowType : Books(row)
<1> DEFINE row == Row(u, "cash_out", n, status, 0)
<1>1. row \in RowType /\ row.user = u /\ row.ref = 0 /\ Entry(row) = n /\ row.kind = "cash_out"
  BY MadeOf, EntryOf DEF Kinds
<1> HIDE DEF row
<1>2. Books(row)
  BY <1>1 DEF Books, row
<1> QED
  BY <1>1, <1>2

\* What the handlers in flight do.
LEMMA TaskBooks ==
    ASSUME MoneyInv, NEW i \in 1..MaxTasks, TaskNext(i)
    PROVE  UNCHANGED bank \/ Process(i) \/ \E row \in RowType : Books(row)
<1> DEFINE u == tasks[i].user  n == tasks[i].amount
<1>1. tasks[i].at \notin {"idle", "heal"} => u \in Users /\ n \in Nat /\ -n \in Int
  BY TaskSays
<1>2. CASE Sync(i) \/ JoinScript(i) \/ AddScript(i) \/ Undo(i) \/ Vault(i) \/ Kick(i) \/ Enqueue(i)
  BY <1>2 DEF Sync, JoinScript, AddScript, Undo, Vault, Kick, Enqueue
<1>3. CASE Lock(i)
  <2>1. CASE UNCHANGED bank
    BY <2>1
  <2>2. CASE /\ Covers(u, n) /\ Credit(u, -n)
             /\ NewRow(Row(u, "buy_in", n, "completed", Len(rows) + 1))
    <3> DEFINE row == Row(u, "buy_in", n, "completed", Len(rows) + 1)
    <3>1. u \in Users /\ n \in Nat /\ wallet[u] \in Int /\ Len(rows) + 1 \in Nat
      BY <1>1, <1>3, Parts DEF Lock
    <3>2. row \in RowType /\ row.user = u /\ row.kind = "buy_in" /\ Entry(row) = -n
      BY <3>1, MadeOf, EntryOf DEF Kinds
    <3> HIDE DEF row
    <3>3. wallet[u] + Entry(row) >= 0
      BY <2>2, <3>1, <3>2 DEF Covers
    <3>4. Books(row)
      BY <2>2, <3>2, <3>3 DEF Books, row
    <3> QED
      BY <3>2, <3>4
  <2> QED
    BY <1>3, <2>1, <2>2 DEF Lock
<1>4. CASE Refund(i)
  <2>1. u \in Users /\ n \in Nat /\ Credit(u, n) /\ NewRow(Row(u, "cash_out", n, "completed", 0))
    BY <1>1, <1>4 DEF Refund, CashOut
  <2> QED
    BY <2>1, CashOutBooks
<1>5. CASE Heal(i)
  <2>1. CASE UNCHANGED bank
    BY <2>1
  <2>2. CASE \E r \in tasks[i].refs :
               /\ ~Taken(r) /\ Credit(rows[r].user, rows[r].amount)
               /\ NewRow(Row(rows[r].user, "cash_out", rows[r].amount, "completed", r))
    <3>1. PICK r \in tasks[i].refs :
             /\ ~Taken(r) /\ Credit(rows[r].user, rows[r].amount)
             /\ NewRow(Row(rows[r].user, "cash_out", rows[r].amount, "completed", r))
      BY <2>2
    <3>2. r \in DOMAIN rows /\ rows[r].kind = "buy_in"
      BY <1>5, TaskSays DEF Heal, TaskOK
    <3>3. r \in Nat /\ rows[r] \in RowType /\ rows[r].amount >= 0
      BY <3>2, Parts DEF RowsOK
    <3> DEFINE owner == rows[r].user  k == rows[r].amount  row == Row(owner, "cash_out", k, "completed", r)
    <3>4. owner \in Users /\ k \in Nat
      BY <3>3 DEF RowType
    <3> HIDE DEF owner, k
    <3>5. row \in RowType /\ row.user = owner /\ row.ref = r /\ Entry(row) = k
          /\ row.kind = "cash_out"
      BY <3>3, <3>4, MadeOf, EntryOf DEF Kinds
    <3>6. Credit(owner, k) /\ NewRow(row) /\ ~Closed(r)
      BY <3>1 DEF owner, k, Taken
    <3> HIDE DEF row
    <3>7. Books(row)
      BY <3>4, <3>5, <3>6 DEF Books
    <3> QED
      BY <3>5, <3>7
  <2> QED
    BY <1>5, <2>1, <2>2 DEF Heal
<1> QED
  BY <1>2, <1>3, <1>4, <1>5 DEF TaskNext

\* What players and administrators do at the cashier.
LEMMA CashierBooks ==
    ASSUME MoneyInv, NEW u \in Users, Deposit(u) \/ Withdraw(u) \/ Adjust(u)
    PROVE  \E row \in RowType : Books(row)
<1>1. wallet[u] \in Int /\ wallet \in [Users -> Int]
  BY Parts
<1>2. CASE Deposit(u)
  <2>1. PICK n \in BuyIns : NewRow(Row(u, "deposit", n, "pending", 0)) /\ wallet' = wallet
    BY <1>2 DEF Deposit
  <2> DEFINE row == Row(u, "deposit", n, "pending", 0)
  <2>2. row \in RowType /\ row.user = u /\ row.kind = "deposit" /\ Entry(row) = 0
    BY Parts, MadeOf, EntryOf DEF Kinds
  <2> HIDE DEF row
  <2>3. [wallet EXCEPT ![u] = @ + 0] = wallet
    BY <1>1
  <2>4. Books(row)
    BY <2>1, <2>2, <2>3 DEF Books, Credit, row
  <2> QED
    BY <2>2, <2>4
<1>3. CASE Withdraw(u)
  <2>1. PICK n \in BuyIns : /\ Covers(u, n) /\ Credit(u, -n)
                            /\ NewRow(Row(u, "withdraw", n, "pending", 0))
    BY <1>3 DEF Withdraw
  <2> DEFINE row == Row(u, "withdraw", n, "pending", 0)
  <2>5. n \in Nat /\ n \in Int
    BY Parts
  <2>2. row \in RowType /\ row.user = u /\ row.kind = "withdraw" /\ Entry(row) = -n /\ n \in Nat
    BY <2>5, MadeOf, EntryOf DEF Kinds
  <2> HIDE DEF row
  <2>3. wallet[u] + Entry(row) >= 0
    BY <1>1, <2>1, <2>2 DEF Covers
  <2>4. Books(row)
    BY <2>1, <2>2, <2>3 DEF Books, row
  <2> QED
    BY <2>2, <2>4
<1>4. CASE Adjust(u)
  <2>1. PICK n \in BuyIns \cup {-b : b \in BuyIns} :
          wallet[u] + n >= 0 /\ Credit(u, n) /\ NewRow(Row(u, "admin", n, "completed", 0))
    BY <1>4 DEF Adjust
  <2> DEFINE row == Row(u, "admin", n, "completed", 0)
  <2>2. n \in Int
    BY Parts
  <2>3. /\ row \in RowType /\ row.user = u /\ row.kind = "admin" /\ Entry(row) = n
        /\ row.status = "completed"
    BY <2>2, MadeOf, EntryOf DEF Kinds
  <2> HIDE DEF row
  <2>4. Books(row)
    BY <2>1, <2>3 DEF Books, row
  <2> QED
    BY <2>3, <2>4
<1> QED
  BY <1>2, <1>3, <1>4

\* Every step leaves wallets and rows alone, processes a row, or books one.
LEMMA StepBooks ==
    ASSUME MoneyInv, ServerNext \/ EventNext
    PROVE  \/ UNCHANGED bank
           \/ \E i \in 1..MaxTasks : Process(i)
           \/ \E row \in RowType : Books(row)
<1>1. ASSUME jobs # <<>>, CashOut(Head(jobs).user, Head(jobs).amount)
      PROVE  \E row \in RowType : Books(row)
  <2>1. Head(jobs) \in JobType
    BY <1>1, Parts
  <2>2. Head(jobs).user \in Users /\ Head(jobs).amount \in Nat
    BY <2>1 DEF JobType
  <2> QED
    BY <1>1, <2>2, CashOutBooks DEF CashOut
<1>2. ASSUME NEW c \in closing, CloseRefund(c)
      PROVE  \E row \in RowType : Books(row)
  <2>1. c \in Found
    BY Parts
  <2>2. c.user \in Users /\ c.chips \in Nat
    BY <2>1 DEF Found
  <2> QED
    BY <1>2, <2>2, CashOutBooks DEF CloseRefund
<1>3. CASE ServerNext
  BY <1>1, <1>2, <1>3, TaskBooks DEF ServerNext, Settle, CloseDelete, AuditGoesOn, Decide
<1>4. CASE EventNext
  <2>1. ASSUME NEW u \in Users, NEW s \in Seats,
               Join(u, s) \/ AddChips(u, s) \/ Rebuy(u, s) \/ Leave(u, s)
        PROVE  UNCHANGED bank
    BY <2>1 DEF Join, AddChips, Rebuy, Leave
  <2>2. ASSUME NEW s \in Seats, AutoRebuy(s) \/ Notice(s) \/ Bet(s) \/ Award(s)
        PROVE  UNCHANGED bank
    BY <2>2 DEF AutoRebuy, Notice, Bet, Award
  <2>3. ASSUME \/ \E r \in DOMAIN rows : Examine(r)
               \/ SettleFails \/ (\E c \in closing : CloseRefundFails(c)) \/ Close \/ HoursPass
               \/ FindOrphans \/ Audit \/ LiftLockdown \/ Restart
        PROVE  UNCHANGED bank
    BY <2>3 DEF Examine, SettleFails, CloseRefundFails, Close, HoursPass, FindOrphans, Audit,
                LiftLockdown, Restart
  <2>4. ASSUME Redeliver PROVE \E row \in RowType : Books(row)
    BY <1>1, <2>4 DEF Redeliver
  <2> QED
    BY <1>4, <2>1, <2>2, <2>3, <2>4, CashierBooks DEF EventNext
<1> QED
  BY <1>3, <1>4

\* What an admin's handler makes of a row, and of the wallet of its user: k is added.
Processes(i, r, row, k) ==
    /\ rows' = [rows EXCEPT ![r] = row]
    /\ wallet' = [wallet EXCEPT ![rows[r].user] = @ + k]
    /\ rows[r].kind \in {"deposit", "withdraw"}
    /\ row.kind = rows[r].kind /\ row.user = rows[r].user /\ row.ref = rows[r].ref
    /\ k >= 0 \/ Slip(i)
    /\ k = Entry(row) - Entry(rows[r]) \/ Slip(i)

\* What it makes of it, unless it slips, is what the wallet gets.
LEMMA ProcessBooks ==
    ASSUME MoneyInv, NEW i \in 1..MaxTasks, Process(i)
    PROVE  /\ tasks[i].at = "process"
           /\ tasks[i].op = "reject" \/ \A u \in Users : wallet'[u] >= wallet[u]
           /\ \E r \in DOMAIN rows, row \in RowType, k \in Int : Processes(i, r, row, k)
<1> DEFINE t == tasks[i]  asked == tasks[i].amount
<1>1. PICK r \in t.refs : IF t.op = "approve" THEN Approve(r, asked) ELSE Reject(r, asked)
  BY DEF Process
<1>2. /\ t.at = "process" /\ t.op \in {"approve", "reject"} /\ asked \in Nat
      /\ r \in DOMAIN rows /\ rows[r].kind \in {"deposit", "withdraw"}
      /\ rows[r].status = "pending" => rows[r].amount = asked
  BY TaskSays DEF Process, TaskOK
<1>3. /\ rows[r] \in RowType /\ rows[r].user \in Users /\ rows[r].amount \in Nat
      /\ rows[r].status \in {"pending", "completed", "rejected"}
  <2>1. rows[r] \in RowType /\ rows[r].amount >= 0
    BY <1>2, Parts DEF RowsOK
  <2> QED
    BY <2>1 DEF RowType
<1>4. rows \in Seq(RowType) /\ wallet \in [Users -> Int]
  BY Parts
<1>5. tasks'[i] # t
  BY <1>2, TaskMakes, Parts DEF Process, End
<1>6. rows[r].status # "pending" => Slip(i)
  BY <1>2, <1>5 DEF Slip
<1>7. t.op = "reject" /\ rows[r].kind = "withdraw" => Slip(i)
  BY <1>5 DEF Slip
<1>8. \A k \in Int : Credit(rows[r].user, k) =>
         wallet' = [wallet EXCEPT ![rows[r].user] = @ + k]
  BY DEF Credit
<1>9. wallet = [wallet EXCEPT ![rows[r].user] = @ + 0]
  BY <1>3, <1>4
<1>10. ASSUME NEW row \in RowType, NEW k \in Int, Processes(i, r, row, k),
              t.op = "reject" \/ k >= 0
       PROVE  /\ tasks[i].at = "process"
              /\ tasks[i].op = "reject" \/ \A u \in Users : wallet'[u] >= wallet[u]
              /\ \E q \in DOMAIN rows, s \in RowType, n \in Int : Processes(i, q, s, n)
  <2>1. t.op = "reject" \/ \A u \in Users : wallet'[u] >= wallet[u]
    BY <1>4, <1>10 DEF Processes
  <2> QED
    BY <1>2, <1>10, <2>1
<1> HIDE DEF t, asked
<1>11. CASE /\ t.op = "approve"
            /\ \E n \in Finals :
                  /\ rows' = [rows EXCEPT ![r].status = "completed", ![r].amount = n]
                  /\ PayIn(r, n)
  <2>1. PICK n \in Finals : /\ rows' = [rows EXCEPT ![r].status = "completed", ![r].amount = n]
                            /\ PayIn(r, n)
    BY <1>11
  <2>2. n \in Nat /\ n \in Int
    BY Parts
  <2> DEFINE row == DoneFor(rows[r], "completed", n)
             k == IF rows[r].kind = "deposit" THEN n ELSE 0
  <2>3. rows' = [rows EXCEPT ![r] = row] /\ wallet' = [wallet EXCEPT ![rows[r].user] = @ + k]
    BY <1>2, <1>4, <1>8, <1>9, <2>1, <2>2 DEF Done, DoneFor, PayIn
  <2>4. /\ row \in RowType /\ row.kind = rows[r].kind /\ row.user = rows[r].user
        /\ row.ref = rows[r].ref /\ row.status = "completed" /\ row.amount = n
    BY <1>3, <2>2, RowChanges
  <2>6. k \in Int /\ k >= 0
    BY <2>2
  <2> HIDE DEF row
  <2>8. rows[r].kind = "withdraw" => n = rows[r].amount \/ Slip(i)
    <3>1. rows'[r].amount = n
      BY <1>2, <1>4, <2>3, <2>4
    <3> QED
      BY <1>5, <1>11, <3>1 DEF Slip, t
  <2>5. k = Entry(row) - Entry(rows[r]) \/ Slip(i)
    BY <1>2, <1>3, <1>6, <2>2, <2>4, <2>8 DEF Entry, Paid
  <2> HIDE DEF k
  <2>7. Processes(i, r, row, k)
    BY <1>2, <2>3, <2>4, <2>5, <2>6, Zenon DEF Processes
  <2> QED
    BY <1>10, <2>4, <2>6, <2>7
<1>12. CASE /\ t.op = "approve" /\ rows' = [rows EXCEPT ![r].status = "completed"]
            /\ PayIn(r, asked)
  <2> DEFINE row == Done(rows[r], "completed")
             k == IF rows[r].kind = "deposit" THEN asked ELSE 0
  <2>1. asked \in Nat /\ k \in Int /\ k >= 0
    BY <1>2 DEF asked
  <2>2. rows' = [rows EXCEPT ![r] = row]
    BY <1>12 DEF Done
  <2>3. wallet' = [wallet EXCEPT ![rows[r].user] = @ + k]
    BY <1>8, <1>9, <1>12, <2>1 DEF PayIn
  <2>4. /\ row \in RowType /\ row.kind = rows[r].kind /\ row.user = rows[r].user
        /\ row.ref = rows[r].ref /\ row.status = "completed" /\ row.amount = rows[r].amount
    BY <1>3, RowChanges
  <2> HIDE DEF row
  <2>5. k = Entry(row) - Entry(rows[r]) \/ Slip(i)
    <3>1. rows[r].status = "pending" => rows[r].amount = asked
      BY <1>2 DEF asked
    <3> QED
      BY <1>2, <1>3, <1>6, <2>1, <2>4, <3>1 DEF Entry, Paid
  <2> HIDE DEF k
  <2>6. Processes(i, r, row, k)
    BY <1>2, <2>1, <2>2, <2>3, <2>4, <2>5, Zenon DEF Processes
  <2> QED
    BY <1>10, <2>1, <2>4, <2>6
<1>13. CASE t.op = "reject" /\ Reject(r, asked)
  <2> DEFINE row == Done(rows[r], "rejected")
             k == IF rows[r].kind = "withdraw" THEN -asked ELSE 0
  <2>1. k \in Int /\ -asked \in Int
    BY <1>2 DEF asked
  <2>2. rows' = [rows EXCEPT ![r] = row]
    BY <1>13 DEF Done, Reject
  <2>3. wallet' = [wallet EXCEPT ![rows[r].user] = @ + k]
    BY <1>8, <1>9, <1>13, <2>1 DEF Reject
  <2>4. /\ row \in RowType /\ row.kind = rows[r].kind /\ row.user = rows[r].user
        /\ row.ref = rows[r].ref /\ row.status = "rejected" /\ row.amount = rows[r].amount
    BY <1>3, RowChanges
  <2> HIDE DEF row
  <2>5. k = Entry(row) - Entry(rows[r]) \/ Slip(i)
    BY <1>2, <1>3, <1>6, <1>7, <1>13, <2>4 DEF Entry, Paid
  <2>6. k >= 0 \/ Slip(i)
    BY <1>7, <1>13
  <2> HIDE DEF k
  <2>7. Processes(i, r, row, k)
    BY <1>2, <2>2, <2>3, <2>4, <2>5, <2>6, Zenon DEF Processes
  <2> QED
    BY <1>10, <1>13, <2>1, <2>4, <2>7
<1>14. \/ t.op = "approve" /\ Approve(r, asked)
       \/ t.op = "reject" /\ Reject(r, asked)
  BY <1>1, <1>2 DEF t, asked
<1> QED
  BY <1>11, <1>12, <1>13, <1>14 DEF Approve

(***************************************************************************)
(* A session is refunded once.                                             *)
(***************************************************************************)

\* A step keeps the sessions of the cash-outs apart.
LEMMA RefsKept ==
    ASSUME MoneyInv, RefsOK, [ServerNext \/ EventNext]_money
    PROVE  RefsOK'
<1>1. rows \in Seq(RowType)
  BY Parts
<1>2. CASE rows' = rows
  BY <1>2 DEF RefsOK
<1>3. ASSUME NEW i \in 1..MaxTasks, Process(i) PROVE RefsOK'
  <2>1. PICK r \in DOMAIN rows, row \in RowType, k \in Int : Processes(i, r, row, k)
    BY <1>3, ProcessBooks
  <2>2. DOMAIN rows' = DOMAIN rows
        /\ \A c \in DOMAIN rows : rows'[c].kind = rows[c].kind /\ rows'[c].ref = rows[c].ref
    BY <1>1, <2>1 DEF Processes
  <2> QED
    BY <2>2 DEF RefsOK
<1>4. ASSUME NEW row \in RowType, Books(row) PROVE RefsOK'
  <2> DEFINE new == Len(rows) + 1
  <2>1. /\ DOMAIN rows' = DOMAIN rows \cup {new} /\ rows'[new] = row
        /\ \A c \in DOMAIN rows : rows'[c] = rows[c]
    BY <1>1, <1>4, RowAdded DEF Books, NewRow
  <2>2. row.kind = "cash_out" /\ row.ref # 0 =>
          \A c \in DOMAIN rows : rows[c].kind = "cash_out" => rows[c].ref # row.ref
    BY <1>4 DEF Books, Closed, ToSet
  <2> QED
    BY <2>1, <2>2 DEF RefsOK
<1> QED
  BY <1>2, <1>3, <1>4, StepBooks DEF bank, money

\* However many healers and administrators process the same session, and in any
\* interleaving with each other and with the cash-out worker, the Transaction table never
\* holds two cash-outs of it (resolveDrift and the unique index on referenceId and type).
THEOREM SessionsRefundedOnce == MoneySpec => []RefundedOnce
<1>1. MoneyInit => MoneyInv /\ RefsOK
  <2>1. MoneyInit => RefsOK
    BY FirstRows DEF RefsOK
  <2> QED
    BY <2>1, MoneyInvInit
<1>2. MoneyInv /\ RefsOK /\ [ServerNext \/ EventNext]_money => MoneyInv' /\ RefsOK'
  BY MoneyInvStep, MoneyInvStutter, RefsKept
<1>3. MoneyInv /\ RefsOK => RefundedOnce
  <2> SUFFICES ASSUME MoneyInv, RefsOK, NEW r \in DOMAIN rows
               PROVE  Cardinality({c \in DOMAIN rows : rows[c].kind = "cash_out" /\ rows[c].ref = r}) <= 1
    BY DEF RefundedOnce
  <2> DEFINE S == {c \in DOMAIN rows : rows[c].kind = "cash_out" /\ rows[c].ref = r}
  <2>1. r # 0
    BY Parts
  <2>2. \A c, d \in S : c = d
    BY <2>1 DEF RefsOK
  <2>3. S = {} \/ \E c : S = {c}
    BY <2>2
  <2> HIDE DEF S
  <2>4. Cardinality(S) \in {0, 1}
    <3>1. ASSUME NEW c, S = {c} PROVE Cardinality(S) = 1
      BY <3>1, FS_Singleton
    <3> QED
      BY <2>3, <3>1, FS_EmptySet
  <2>5. \A n \in {0, 1} : n <= 1
    OBVIOUS
  <2> QED
    BY <2>4, <2>5 DEF S
<1> QED
  BY <1>1, <1>2, <1>3, MoneySteps, PTL

(***************************************************************************)
(* No debit overdraws a wallet.                                            *)
(***************************************************************************)

\* Whatever buy-ins, rebuys, withdrawals and grants of the administrator are under way at
\* the same time, none takes a wallet below zero (the condition in lockFunds' update, the
\* check of the balance in the withdrawal's transaction): a wallet below zero only rises,
\* but for a withdrawal that is rejected and so taken twice.
THEOREM WalletsNotOverdrawn == MoneySpec => NoOverdraft
<1> DEFINE Step == \/ \A u \in Users : wallet'[u] < 0 => wallet'[u] >= wallet[u]
                   \/ \E i \in 1..MaxTasks : tasks[i].op = "reject" /\ Slip(i)
<1>1. MoneyInit => MoneyInv
  BY MoneyInvInit
<1>2. MoneyInv /\ [ServerNext \/ EventNext]_money => MoneyInv'
  BY MoneyInvStep, MoneyInvStutter
<1>3. MoneyInv /\ [ServerNext \/ EventNext]_money => [Step]_money
  <2> SUFFICES ASSUME MoneyInv, ServerNext \/ EventNext PROVE Step
    OBVIOUS
  <2>1. wallet \in [Users -> Int]
    BY Parts
  <2>2. CASE UNCHANGED bank
    BY <2>1, <2>2 DEF bank
  <2>3. ASSUME NEW i \in 1..MaxTasks, Process(i) PROVE Step
    <3>1. CASE Slip(i) /\ tasks[i].op = "reject"
      BY <3>1
    <3>2. CASE ~Slip(i)
      <4>1. PICK r \in DOMAIN rows, row \in RowType, k \in Int : Processes(i, r, row, k)
        BY <2>3, ProcessBooks
      <4>2. k >= 0 /\ wallet' = [wallet EXCEPT ![rows[r].user] = @ + k]
        BY <3>2, <4>1 DEF Processes
      <4> QED
        BY <2>1, <4>2
    <3>3. CASE tasks[i].op # "reject"
      BY <2>3, <3>3, ProcessBooks
    <3> QED
      BY <3>1, <3>2, <3>3
  <2>4. ASSUME NEW row \in RowType, Books(row) PROVE Step
    <3>1. row.user \in Users /\ Entry(row) \in Int
      BY DEF RowType, Entry, Paid
    <3>2. wallet' = [wallet EXCEPT ![row.user] = @ + Entry(row)]
      BY <2>4 DEF Books, Credit
    <3>3. Entry(row) >= 0 \/ wallet[row.user] + Entry(row) >= 0
      BY <2>4 DEF Books
    <3> QED
      BY <2>1, <3>1, <3>2, <3>3
  <2> QED
    BY <2>2, <2>3, <2>4, StepBooks
<1> QED
  BY <1>1, <1>2, <1>3, MoneySteps, PTL DEF NoOverdraft

(***************************************************************************)
(* The Transaction table tells the balance of every wallet.                *)
(***************************************************************************)

\* What a row says of u's wallet.
Entries(u) == [row \in RowType |-> Share(u, row.user, Entry(row))]

\* What the rows say of it.
LEMMA BookedSum ==
    ASSUME NEW rs \in Seq(RowType), NEW u
    PROVE  /\ \A row \in RowType : Entry(row) \in Int /\ Entries(u)[row] \in Int
           /\ SumFunction([r \in DOMAIN rs |-> Share(u, rs[r].user, Entry(rs[r]))])
                = SeqSum(Entries(u), rs)
<1>1. ASSUME NEW row \in RowType
      PROVE  Entry(row) \in Int /\ Share(u, row.user, Entry(row)) \in Int
  BY DEF Share, Entry, Paid, RowType
<1>2. [r \in DOMAIN rs |-> Share(u, rs[r].user, Entry(rs[r]))]
         = [r \in DOMAIN rs |-> Entries(u)[rs[r]]]
  BY DEF Entries
<1> QED
  BY <1>1, <1>2 DEF SumFunction, SeqSum, Entries

\* Through deposits, withdrawals, grants, buy-ins, rebuys, cash-outs and refunds in any
\* interleaving, each wallet changes by exactly what the Transaction table says of it, but
\* for a row that two administrators process at once and a withdrawal that is rejected.
THEOREM BooksTellBalances == MoneySpec => BooksBalance
<1> DEFINE Step == \/ \A u \in Users : wallet'[u] - wallet[u] = Booked(u)' - Booked(u)
                   \/ \E i \in 1..MaxTasks : tasks[i].at = "process" /\ Slip(i)
<1>1. MoneyInit => MoneyInv
  BY MoneyInvInit
<1>2. MoneyInv /\ [ServerNext \/ EventNext]_money => MoneyInv'
  BY MoneyInvStep, MoneyInvStutter
<1>3. MoneyInv /\ [ServerNext \/ EventNext]_money => [Step]_money
  <2> SUFFICES ASSUME MoneyInv, ServerNext \/ EventNext,
                      ~\E i \in 1..MaxTasks : tasks[i].at = "process" /\ Slip(i),
                      NEW u \in Users
               PROVE  wallet'[u] - wallet[u] = Booked(u)' - Booked(u)
    OBVIOUS
  <2>1. wallet \in [Users -> Int] /\ wallet' \in [Users -> Int] /\ rows \in Seq(RowType)
    BY <1>2, Parts DEF MoneyInv, MoneyTypeOK
  <2>2. Booked(u) = SeqSum(Entries(u), rows) /\ Booked(u)' = SeqSum(Entries(u), rows')
    <3>1. rows' \in Seq(RowType)
      BY <1>2 DEF MoneyInv, MoneyTypeOK
    <3> QED
      BY <2>1, <3>1, BookedSum DEF Booked
  <2>3. SeqSum(Entries(u), rows) \in Int
    BY <2>1, BookedSum, SeqSumType
  <2>4. \A row \in RowType : /\ Entry(row) \in Int /\ Entries(u)[row] \in Int
                             /\ Entries(u)[row] = Share(u, row.user, Entry(row))
    BY <2>1, BookedSum DEF Entries
  <2>5. CASE UNCHANGED bank
    BY <2>1, <2>2, <2>3, <2>5 DEF bank
  <2>6. ASSUME NEW i \in 1..MaxTasks, Process(i)
        PROVE  wallet'[u] - wallet[u] = Booked(u)' - Booked(u)
    <3>1. tasks[i].at = "process"
      BY <2>6, ProcessBooks
    <3>2. PICK r \in DOMAIN rows, row \in RowType, k \in Int : Processes(i, r, row, k)
      BY <2>6, ProcessBooks
    <3>3. /\ rows' = [rows EXCEPT ![r] = row] /\ row.user = rows[r].user
          /\ wallet' = [wallet EXCEPT ![row.user] = @ + k]
          /\ k = Entry(row) - Entry(rows[r])
      BY <3>1, <3>2 DEF Processes
    <3>4. SeqSum(Entries(u), rows')
            = SeqSum(Entries(u), rows) + Entries(u)[row] - Entries(u)[rows[r]]
      <4>1. /\ rows \in Seq(RowType) /\ rows' \in Seq(RowType) /\ DOMAIN rows' = DOMAIN rows
            /\ rows'[r] = row /\ \A q \in DOMAIN rows : q # r => rows'[q] = rows[q]
            /\ \A q \in RowType : Entries(u)[q] \in Int
        BY <2>1, <2>4, <3>3
      <4> HIDE DEF RowType, Entries
      <4> QED
        BY <4>1, SeqSumChange
    <3>9. rows[r] \in RowType
      BY <2>1
    <3>5. Entry(row) \in Int /\ Entry(rows[r]) \in Int
      BY <2>4, <3>9
    <3>6. wallet'[u] - wallet[u] = Share(u, row.user, k)
      BY <2>1, <3>3 DEF Share
    <3>7. Share(u, row.user, k) = Share(u, row.user, Entry(row)) - Share(u, row.user, Entry(rows[r]))
      BY <3>3 DEF Share
    <3>8. /\ Entries(u)[row] = Share(u, row.user, Entry(row)) /\ Entries(u)[row] \in Int
          /\ Entries(u)[rows[r]] = Share(u, row.user, Entry(rows[r])) /\ Entries(u)[rows[r]] \in Int
      BY <2>4, <3>3, <3>9
    <3> QED
      BY <2>2, <2>3, <3>4, <3>6, <3>7, <3>8
  <2>7. ASSUME NEW row \in RowType, Books(row)
        PROVE  wallet'[u] - wallet[u] = Booked(u)' - Booked(u)
    <3>1. rows' = Append(rows, row) /\ wallet' = [wallet EXCEPT ![row.user] = @ + Entry(row)]
      BY <2>7 DEF Books, NewRow, Credit
    <3>2. SeqSum(Entries(u), rows') = SeqSum(Entries(u), rows) + Entries(u)[row]
      <4>1. /\ rows \in Seq(RowType) /\ row \in RowType /\ rows' = Append(rows, row)
            /\ \A q \in RowType : Entries(u)[q] \in Int
        BY <2>1, <2>4, <3>1
      <4> HIDE DEF RowType, Entries
      <4> QED
        BY <4>1, SeqSumAppend
    <3>3. Entry(row) \in Int
      BY <2>4
    <3>4. wallet'[u] - wallet[u] = Share(u, row.user, Entry(row))
      BY <2>1, <3>1, <3>3 DEF Share
    <3>5. Entries(u)[row] = Share(u, row.user, Entry(row)) /\ Entries(u)[row] \in Int
      BY <2>4
    <3> QED
      BY <2>2, <2>3, <3>2, <3>4, <3>5
  <2> QED
    BY <2>5, <2>6, <2>7, StepBooks
<1> QED
  BY <1>1, <1>2, <1>3, MoneySteps, PTL DEF BooksBalance

(***************************************************************************)
(* What the invariant of MoneyProofs does not say.                         *)
(***************************************************************************)

\* Only a join and a top-up are given chips before they are paid for, a top-up always.
GivenOK(t) ==
    /\ t.at \in {"sync", "script"} \/ t.op = "rebuy" => ~t.given
    /\ t.op = "add" /\ t.at \in {"lock", "undo"} => t.given

\* The administrator who closes the table finds each seat once.
ClosingOK == \A c, d \in closing : c.seat = d.seat => c = d

HoldsOK == (\A i \in 1..MaxTasks : GivenOK(tasks[i])) /\ ClosingOK

Kept(u) == Worth(u)' - Worth(u) = PaidIn(u)' - PaidIn(u)

Excused ==
    \/ \E s \in Seats : Award(s)
    \/ \E i \in 1..MaxTasks : Slip(i)
    \/ Forfeit
    \/ Faults

(***************************************************************************)
(* The summands.                                                           *)
(***************************************************************************)

\* What the record of a seat holds.
Held(r) == r.chips + r.bet + r.later

\* What a seat that has been found returns.
Back(c) == IF c.refunded THEN c.chips ELSE 0

\* What rows and jobs mean for u.
Payments(u) == [row \in RowType |-> Share(u, row.user, Paid(row))]
Dues(u) == [job \in JobType |-> Share(u, job.user, job.amount)]

\* What a handler carries, by its await.
LEMMA CarriedOf ==
    ASSUME NEW t \in TaskType, GivenOK(t)
    PROVE  /\ Carried(t) \in Int
           /\ t.at \in {"idle", "sync", "script", "kick", "process", "heal"} => Carried(t) = 0
           /\ t.at \in {"vault", "refund", "enqueue"} => Carried(t) = t.amount
           /\ t.at \in {"lock", "undo"} /\ t.op = "rebuy" => Carried(t) = 0
           /\ t.at \in {"lock", "undo"} /\ t.op = "add" => Carried(t) = -t.amount
           /\ t.at \in {"lock", "undo"} /\ t.given => Carried(t) = -t.amount
<1>1. t.amount \in Int
  BY TaskFields
<1> QED
  BY <1>1 DEF Carried, GivenOK

\* Shares of numbers are numbers.
LEMMA ShareOf ==
    ASSUME NEW u, NEW v, NEW n \in Int
    PROVE  /\ Share(u, v, n) \in Int /\ Share(u, v, 0) = 0
           /\ Share(u, v, -n) = -Share(u, v, n)
           /\ \A k \in Int : Share(u, v, n + k) = Share(u, v, n) + Share(u, v, k)
  BY DEF Share

\* Nobody's money by rows and jobs.
LEMMA PaymentSum ==
    ASSUME NEW rs \in Seq(RowType), NEW u
    PROVE  /\ \A row \in RowType : Paid(row) \in Int /\ Payments(u)[row] \in Int
           /\ \A row \in RowType : Payments(u)[row] = Share(u, row.user, Paid(row))
           /\ SumFunction([r \in DOMAIN rs |-> Share(u, rs[r].user, Paid(rs[r]))])
                = SeqSum(Payments(u), rs)
<1>1. ASSUME NEW row \in RowType
      PROVE  Paid(row) \in Int /\ Share(u, row.user, Paid(row)) \in Int
  BY DEF Share, Paid, RowType
<1>2. [r \in DOMAIN rs |-> Share(u, rs[r].user, Paid(rs[r]))]
         = [r \in DOMAIN rs |-> Payments(u)[rs[r]]]
  BY DEF Payments
<1> QED
  BY <1>1, <1>2 DEF SumFunction, SeqSum, Payments

\* What the queue holds.
LEMMA DueSum ==
    ASSUME NEW js \in Seq(JobType), NEW u
    PROVE  /\ \A job \in JobType : /\ Dues(u)[job] \in Int
                                   /\ Dues(u)[job] = Share(u, job.user, job.amount)
           /\ SumFunction([k \in DOMAIN js |-> Share(u, js[k].user, js[k].amount)])
                = SeqSum(Dues(u), js)
<1>1. ASSUME NEW job \in JobType PROVE Share(u, job.user, job.amount) \in Int
  BY DEF Share, JobType
<1>2. [k \in DOMAIN js |-> Share(u, js[k].user, js[k].amount)]
         = [k \in DOMAIN js |-> Dues(u)[js[k]]]
  BY DEF Dues
<1> QED
  BY <1>1, <1>2 DEF SumFunction, SeqSum, Dues

\* The seats found are finitely many.
LEMMA ClosingFinite == ASSUME MoneyInv, HoldsOK PROVE IsFiniteSet(closing)
<1> DEFINE f == [c \in closing |-> c.seat]
<1>1. \A c \in closing : c.seat \in Seats
  BY Parts DEF Found
<1>2. f \in [closing -> Seats] /\ \A c, d \in closing : f[c] = f[d] => c = d
  BY <1>1 DEF HoldsOK, ClosingOK
<1>3. f \in Injection(closing, Seats)
  BY <1>2 DEF Injection, IsInjective
<1> QED
  BY <1>3, PlacesAssumption, FS_Injection

\* All of it are numbers.
LEMMA WorthTypes ==
    ASSUME MoneyInv, HoldsOK, NEW u \in Users
    PROVE  /\ wallet[u] \in Int /\ AtTable(u) \in Int /\ Queued(u) \in Int
           /\ CarriedFor(u) \in Int /\ Returned(u) \in Int /\ PaidIn(u) \in Int
           /\ Queued(u) = SeqSum(Dues(u), jobs) /\ PaidIn(u) = SeqSum(Payments(u), rows)
           /\ \A s \in Seats : Held(seats[s]) \in Int /\ Share(u, seats[s].user, Held(seats[s])) \in Int
           /\ \A i \in 1..MaxTasks : Share(u, tasks[i].user, Carried(tasks[i])) \in Int
           /\ \A c \in closing : Share(u, c.user, Back(c)) \in Int
<1>1. wallet[u] \in Int /\ rows \in Seq(RowType) /\ jobs \in Seq(JobType)
  BY Parts
<1>2. ASSUME NEW s \in Seats
      PROVE  Held(seats[s]) \in Int /\ Share(u, seats[s].user, Held(seats[s])) \in Int
  <2>1. seats[s] \in SeatRecord
    BY Parts
  <2>2. Held(seats[s]) \in Int
    BY <2>1, SeatFields DEF Held
  <2> QED
    BY <2>2, ShareOf
<1>3. ASSUME NEW i \in 1..MaxTasks PROVE Share(u, tasks[i].user, Carried(tasks[i])) \in Int
  <2>1. Carried(tasks[i]) \in Int
    BY Parts, CarriedOf DEF HoldsOK
  <2> QED
    BY <2>1, ShareOf
<1>4. ASSUME NEW c \in closing PROVE Share(u, c.user, Back(c)) \in Int
  <2>1. Back(c) \in Int
    BY Parts DEF Found, Back
  <2> QED
    BY <2>1, ShareOf
<1>5. AtTable(u) \in Int
  <2> DEFINE f == [s \in Seats |-> Share(u, seats[s].user, Held(seats[s]))]
  <2>1. \A s \in Seats : f[s] \in Int
    BY <1>2
  <2>2. AtTable(u) = SumFunctionOnSet(f, Seats)
    BY DEF AtTable, SumFunction, Held
  <2> HIDE DEF f
  <2> QED
    BY <2>1, <2>2, PlacesAssumption, SumType
<1>6. CarriedFor(u) \in Int
  <2> DEFINE f == [i \in 1..MaxTasks |-> Share(u, tasks[i].user, Carried(tasks[i]))]
  <2>1. (\A i \in 1..MaxTasks : f[i] \in Int) /\ IsFiniteSet(1..MaxTasks)
    BY <1>3, PlacesAssumption, FS_Interval
  <2>2. CarriedFor(u) = SumFunctionOnSet(f, 1..MaxTasks)
    BY DEF CarriedFor, SumFunction
  <2> HIDE DEF f
  <2> QED
    BY <2>1, <2>2, SumType
<1>7. Returned(u) \in Int
  <2> DEFINE f == [c \in closing |-> Share(u, c.user, Back(c))]
  <2>1. (\A c \in closing : f[c] \in Int) /\ IsFiniteSet(closing)
    BY <1>4, ClosingFinite
  <2>2. Returned(u) = SumFunctionOnSet(f, closing)
    BY DEF Returned, SumFunction, Back
  <2> HIDE DEF f
  <2> QED
    BY <2>1, <2>2, SumType
<1>8. Queued(u) = SeqSum(Dues(u), jobs) /\ Queued(u) \in Int
  <2>1. Queued(u) = SeqSum(Dues(u), jobs) /\ \A job \in JobType : Dues(u)[job] \in Int
    BY <1>1, DueSum DEF Queued
  <2>2. SeqSum(Dues(u), jobs) \in Int
    BY <1>1, <2>1, SeqSumType
  <2> QED
    BY <2>1, <2>2
<1>9. PaidIn(u) = SeqSum(Payments(u), rows) /\ PaidIn(u) \in Int
  <2>1. PaidIn(u) = SeqSum(Payments(u), rows) /\ \A row \in RowType : Payments(u)[row] \in Int
    BY <1>1, PaymentSum DEF PaidIn
  <2>2. SeqSum(Payments(u), rows) \in Int
    BY <1>1, <2>1, SeqSumType
  <2> QED
    BY <2>1, <2>2
<1> QED
  BY <1>1, <1>2, <1>3, <1>4, <1>5, <1>6, <1>7, <1>8, <1>9

(***************************************************************************)
(* How each summand moves.                                                 *)
(***************************************************************************)

\* One handler moves.
LEMMA CarryMoves ==
    ASSUME MoneyInv, MoneyInv', HoldsOK, NEW i \in 1..MaxTasks,
           \A k \in 1..MaxTasks : k # i => tasks'[k] = tasks[k], GivenOK(tasks'[i]), NEW u \in Users
    PROVE  /\ \A k \in 1..MaxTasks : GivenOK(tasks'[k])
           /\ tasks'[i] \in TaskType /\ Share(u, tasks'[i].user, Carried(tasks'[i])) \in Int
           /\ CarriedFor(u)' = CarriedFor(u) + Share(u, tasks'[i].user, Carried(tasks'[i]))
                                             - Share(u, tasks[i].user, Carried(tasks[i]))
<1> DEFINE f == [k \in 1..MaxTasks |-> Share(u, tasks[k].user, Carried(tasks[k]))]
           g == [k \in 1..MaxTasks |-> Share(u, tasks'[k].user, Carried(tasks'[k]))]
<1>1. \A k \in 1..MaxTasks : GivenOK(tasks'[k]) /\ tasks'[k] \in TaskType
  BY DEF HoldsOK, MoneyInv, MoneyTypeOK
<1>2. ASSUME NEW k \in 1..MaxTasks PROVE f[k] \in Int /\ g[k] \in Int
  <2>1. Carried(tasks'[k]) \in Int
    BY <1>1, CarriedOf
  <2>2. g[k] \in Int
    BY <2>1, ShareOf
  <2> QED
    BY <2>2, WorthTypes
<1>3. \A k \in 1..MaxTasks : k # i => g[k] = f[k]
  OBVIOUS
<1>4. CarriedFor(u) = SumFunctionOnSet(f, 1..MaxTasks)
      /\ CarriedFor(u)' = SumFunctionOnSet(g, 1..MaxTasks)
  BY DEF CarriedFor, SumFunction
<1>5. IsFiniteSet(1..MaxTasks)
  BY PlacesAssumption, FS_Interval
<1>6. g[i] = Share(u, tasks'[i].user, Carried(tasks'[i]))
      /\ f[i] = Share(u, tasks[i].user, Carried(tasks[i]))
  OBVIOUS
<1> HIDE DEF f, g
<1>7. SumFunctionOnSet(g, 1..MaxTasks) = SumFunctionOnSet(f, 1..MaxTasks) + g[i] - f[i]
  BY <1>2, <1>3, <1>5, SumChange
<1> QED
  BY <1>1, <1>2, <1>4, <1>6, <1>7

\* One seat moves.
LEMMA SeatMoves ==
    ASSUME MoneyInv, MoneyInv', HoldsOK, NEW s \in Seats,
           \A r \in Seats : r # s => seats'[r] = seats[r], NEW u \in Users
    PROVE  /\ seats'[s] \in SeatRecord /\ Held(seats'[s]) \in Int
           /\ Share(u, seats'[s].user, Held(seats'[s])) \in Int
           /\ AtTable(u)' = AtTable(u) + Share(u, seats'[s].user, Held(seats'[s]))
                                       - Share(u, seats[s].user, Held(seats[s]))
<1> DEFINE f == [r \in Seats |-> Share(u, seats[r].user, Held(seats[r]))]
           g == [r \in Seats |-> Share(u, seats'[r].user, Held(seats'[r]))]
<1>1. ASSUME NEW r \in Seats
      PROVE  f[r] \in Int /\ g[r] \in Int /\ Held(seats'[r]) \in Int /\ seats'[r] \in SeatRecord
  <2>1. seats'[r] \in SeatRecord
    BY DEF MoneyInv, MoneyTypeOK
  <2>2. Held(seats'[r]) \in Int
    BY <2>1, SeatFields DEF Held
  <2>3. g[r] \in Int
    BY <2>2, ShareOf
  <2> QED
    BY <2>1, <2>2, <2>3, WorthTypes
<1>3. \A r \in Seats : r # s => g[r] = f[r]
  OBVIOUS
<1>4. AtTable(u) = SumFunctionOnSet(f, Seats) /\ AtTable(u)' = SumFunctionOnSet(g, Seats)
  BY DEF AtTable, SumFunction, Held
<1>6. g[s] = Share(u, seats'[s].user, Held(seats'[s]))
      /\ f[s] = Share(u, seats[s].user, Held(seats[s]))
  OBVIOUS
<1> HIDE DEF f, g
<1>7. SumFunctionOnSet(g, Seats) = SumFunctionOnSet(f, Seats) + g[s] - f[s]
  BY <1>1, <1>3, PlacesAssumption, SumChange
<1> QED
  BY <1>1, <1>4, <1>6, <1>7

\* A row is booked.
LEMMA PaymentMoves ==
    ASSUME MoneyInv, HoldsOK, NEW row \in RowType, NewRow(row), NEW u \in Users
    PROVE  /\ Paid(row) \in Int
           /\ PaidIn(u)' = PaidIn(u) + Share(u, row.user, Paid(row))
<1>1. rows \in Seq(RowType) /\ rows' = Append(rows, row) /\ rows' \in Seq(RowType)
  BY Parts DEF NewRow
<1>2. /\ PaidIn(u)' = SeqSum(Payments(u), rows') /\ PaidIn(u) = SeqSum(Payments(u), rows)
      /\ \A q \in RowType : Payments(u)[q] \in Int /\ Paid(q) \in Int
      /\ \A q \in RowType : Payments(u)[q] = Share(u, q.user, Paid(q))
  BY <1>1, PaymentSum DEF PaidIn
<1>3. SeqSum(Payments(u), Append(rows, row)) = SeqSum(Payments(u), rows) + Payments(u)[row]
  BY <1>1, <1>2, SeqSumAppend
<1> QED
  BY <1>1, <1>2, <1>3

\* A wallet is credited.
LEMMA WalletMoves ==
    ASSUME MoneyInv, NEW v, NEW n \in Int, Credit(v, n), NEW u \in Users
    PROVE  wallet'[u] = wallet[u] + Share(u, v, n)
  BY Parts DEF Credit, Share

\* What has to add up.
LEMMA Balance ==
    ASSUME MoneyInv, HoldsOK, NEW u \in Users, NEW w \in Int, NEW a \in Int, NEW q \in Int,
           NEW c \in Int, NEW r \in Int, NEW p \in Int,
           wallet'[u] = wallet[u] + w, AtTable(u)' = AtTable(u) + a, Queued(u)' = Queued(u) + q,
           CarriedFor(u)' = CarriedFor(u) + c, Returned(u)' = Returned(u) + r,
           PaidIn(u)' = PaidIn(u) + p,
           w + a + q + c - r = p
    PROVE  Kept(u)
  BY WorthTypes DEF Kept, Worth

\* What stays.
LEMMA Stays ==
    ASSUME MoneyInv, HoldsOK, NEW u \in Users
    PROVE  /\ wallet' = wallet => wallet'[u] = wallet[u] + 0
           /\ rows' = rows => PaidIn(u)' = PaidIn(u) + 0
           /\ seats' = seats => AtTable(u)' = AtTable(u) + 0
           /\ jobs' = jobs => Queued(u)' = Queued(u) + 0
           /\ tasks' = tasks => CarriedFor(u)' = CarriedFor(u) + 0
           /\ closing' = closing => Returned(u)' = Returned(u) + 0
<1>1. /\ wallet' = wallet => wallet'[u] = wallet[u]
      /\ rows' = rows => PaidIn(u)' = PaidIn(u)
      /\ seats' = seats => AtTable(u)' = AtTable(u)
      /\ jobs' = jobs => Queued(u)' = Queued(u)
      /\ tasks' = tasks => CarriedFor(u)' = CarriedFor(u)
      /\ closing' = closing => Returned(u)' = Returned(u)
  BY DEF PaidIn, AtTable, Queued, CarriedFor, Returned
<1> QED
  BY <1>1, WorthTypes

\* A handler begins.
LEMMA BeginMoves ==
    ASSUME MoneyInv, MoneyInv', HoldsOK, NEW t, Begin(t), GivenOK(t), NEW u \in Users
    PROVE  /\ \A k \in 1..MaxTasks : GivenOK(tasks'[k])
           /\ t \in TaskType /\ Carried(t) \in Int /\ Share(u, t.user, Carried(t)) \in Int
           /\ CarriedFor(u)' = CarriedFor(u) + Share(u, t.user, Carried(t))
<1>1. PICK i \in (1..MaxTasks) \ Busy : tasks' = [tasks EXCEPT ![i] = t]
  BY DEF Begin
<1>2. i \in 1..MaxTasks /\ tasks[i] = NoTask /\ tasks'[i] = t
      /\ \A k \in 1..MaxTasks : k # i => tasks'[k] = tasks[k]
  BY <1>1, Parts DEF Busy
<1>3. Carried(NoTask) = 0
  BY TaskMakes DEF Carried
<1>4. /\ \A k \in 1..MaxTasks : GivenOK(tasks'[k])
      /\ tasks'[i] \in TaskType
      /\ CarriedFor(u)' = CarriedFor(u) + Share(u, tasks'[i].user, Carried(tasks'[i]))
                                        - Share(u, tasks[i].user, Carried(tasks[i]))
  BY <1>2, CarryMoves
<1>5. Share(u, NoTask.user, 0) = 0
  BY DEF Share
<1>6. Carried(t) \in Int
  BY <1>2, <1>4, CarriedOf
<1>7. Share(u, t.user, Carried(t)) \in Int
  BY <1>6, ShareOf
<1> QED
  BY <1>2, <1>3, <1>4, <1>5, <1>6, <1>7, WorthTypes

\* A handler is over.
LEMMA EndMoves ==
    ASSUME MoneyInv, MoneyInv', HoldsOK, NEW i \in 1..MaxTasks, End(i), NEW u \in Users
    PROVE  /\ \A k \in 1..MaxTasks : GivenOK(tasks'[k])
           /\ CarriedFor(u)' = CarriedFor(u) - Share(u, tasks[i].user, Carried(tasks[i]))
<1>1. tasks'[i] = NoTask /\ \A k \in 1..MaxTasks : k # i => tasks'[k] = tasks[k]
  BY Parts DEF End
<1>2. Carried(NoTask) = 0
  BY TaskMakes DEF Carried
<1>3. GivenOK(NoTask)
  <2>1. ~NoTask.given
    BY DEF NoTask, Task
  <2> QED
    BY <2>1, TaskMakes DEF GivenOK
<1>4. /\ \A k \in 1..MaxTasks : GivenOK(tasks'[k])
      /\ CarriedFor(u)' = CarriedFor(u) + Share(u, tasks'[i].user, Carried(tasks'[i]))
                                        - Share(u, tasks[i].user, Carried(tasks[i]))
  BY <1>1, <1>3, CarryMoves
<1>5. Share(u, NoTask.user, 0) = 0
  BY DEF Share
<1> QED
  BY <1>1, <1>2, <1>4, <1>5, WorthTypes

\* A handler goes on to another await.
LEMMA GoMoves ==
    ASSUME MoneyInv, MoneyInv', HoldsOK, NEW i \in 1..MaxTasks, NEW at, Go(i, at),
           GivenOK([tasks[i] EXCEPT !.at = at]), NEW u \in Users
    PROVE  LET t == [tasks[i] EXCEPT !.at = at]
           IN  /\ \A k \in 1..MaxTasks : GivenOK(tasks'[k])
               /\ t \in TaskType /\ Carried(t) \in Int
               /\ CarriedFor(u)' = CarriedFor(u) + Share(u, tasks[i].user, Carried(t))
                                                 - Share(u, tasks[i].user, Carried(tasks[i]))
<1> DEFINE t == [tasks[i] EXCEPT !.at = at]
<1>1. tasks'[i] = t /\ \A k \in 1..MaxTasks : k # i => tasks'[k] = tasks[k]
  BY Parts DEF Go
<1>2. t.user = tasks[i].user
  BY Parts DEF TaskType
<1> HIDE DEF t
<1>3. GivenOK(t)
  BY DEF t
<1>4. /\ \A k \in 1..MaxTasks : GivenOK(tasks'[k])
      /\ t \in TaskType
      /\ CarriedFor(u)' = CarriedFor(u) + Share(u, t.user, Carried(t))
                                        - Share(u, tasks[i].user, Carried(tasks[i]))
  BY <1>1, <1>3, CarryMoves
<1>5. Carried(t) \in Int
  BY <1>3, <1>4, CarriedOf
<1> QED
  BY <1>2, <1>4, <1>5 DEF t

(***************************************************************************)
(* Nothing is made, lost or given away: the actions one by one.            *)
(***************************************************************************)

\* A handler that carries nothing begins and nothing else happens.
LEMMA BeginKept ==
    ASSUME MoneyInv, MoneyInv', HoldsOK, NEW t, Begin(t), GivenOK(t), Carried(t) = 0,
           wallet' = wallet, rows' = rows, seats' = seats, jobs' = jobs, closing' = closing
    PROVE  HoldsOK' /\ \A u \in Users : Kept(u)
<1>1. ASSUME NEW u \in Users
      PROVE  (\A k \in 1..MaxTasks : GivenOK(tasks'[k])) /\ CarriedFor(u)' = CarriedFor(u) + 0
  <2>1. Share(u, t.user, 0) = 0
    BY DEF Share
  <2> QED
    BY <2>1, BeginMoves
<1>2. ASSUME NEW u \in Users PROVE Kept(u)
  <2>1. /\ wallet'[u] = wallet[u] + 0 /\ AtTable(u)' = AtTable(u) + 0
        /\ Queued(u)' = Queued(u) + 0 /\ CarriedFor(u)' = CarriedFor(u) + 0
        /\ Returned(u)' = Returned(u) + 0 /\ PaidIn(u)' = PaidIn(u) + 0
    BY <1>1, Stays
  <2>2. 0 \in Int /\ 0 + 0 + 0 + 0 - 0 = 0
    OBVIOUS
  <2> QED
    BY <2>1, <2>2, Balance
<1>3. HoldsOK'
  <2>1. ClosingOK'
    BY DEF HoldsOK, ClosingOK
  <2>2. \A k \in 1..MaxTasks : GivenOK(tasks'[k])
    <3>1. PICK i \in 1..MaxTasks : tasks' = [tasks EXCEPT ![i] = t]
      BY DEF Begin
    <3> QED
      BY <3>1, Parts DEF HoldsOK
  <2> QED
    BY <2>1, <2>2 DEF HoldsOK
<1> QED
  BY <1>2, <1>3

\* A handler begins that has been given nothing, is not to be paid and only asks.
LEMMA FreshKept ==
    ASSUME MoneyInv, MoneyInv', HoldsOK, NEW t, Begin(t), t.given = FALSE,
           t.at \in {"sync", "lock", "kick", "process", "heal"}, t.op # "add" \/ t.at = "sync",
           wallet' = wallet, rows' = rows, seats' = seats, jobs' = jobs, closing' = closing
    PROVE  HoldsOK' /\ \A u \in Users : Kept(u)
<1>1. GivenOK(t) /\ Carried(t) = 0
  BY DEF GivenOK, Carried
<1> QED
  BY <1>1, BeginKept

\* Requests for a seat or for chips, and what the sweeps of seats and rows find.
LEMMA RequestKept ==
    ASSUME MoneyInv, MoneyInv', HoldsOK,
           \/ \E u \in Users, s \in Seats : Join(u, s) \/ AddChips(u, s) \/ Rebuy(u, s)
           \/ \E s \in Seats : AutoRebuy(s) \/ Notice(s)
           \/ \E r \in DOMAIN rows : Examine(r)
           \/ FindOrphans
    PROVE  HoldsOK' /\ \A u \in Users : Kept(u)
<1> DEFINE Idle == wallet' = wallet /\ rows' = rows /\ seats' = seats /\ jobs' = jobs
                   /\ closing' = closing
<1>1. Idle
  BY DEF Join, AddChips, Rebuy, AutoRebuy, Notice, Examine, FindOrphans, bank, ring, desk
<1>2. \E t : /\ Begin(t) /\ t.given = FALSE
             /\ t.at \in {"sync", "lock", "kick", "process", "heal"}
             /\ t.op # "add" \/ t.at = "sync"
  <2>1. CASE \E u \in Users, s \in Seats : Join(u, s)
    <3>1. PICK u \in Users, s \in Seats, n \in BuyIns :
              Begin([Task("join", "sync", u, s, n) EXCEPT !.saw.chips = wallet[u]])
      BY <2>1 DEF Join
    <3> QED
      BY <3>1 DEF Task
  <2>2. CASE \E u \in Users, s \in Seats : AddChips(u, s)
    <3>1. PICK u \in Users, s \in Seats, n \in BuyIns :
              Begin([Task("add", "sync", u, s, n) EXCEPT !.saw.chips = wallet[u]])
      BY <2>2 DEF AddChips
    <3> QED
      BY <3>1 DEF Task
  <2>3. CASE \E u \in Users, s \in Seats : Rebuy(u, s)
    <3>1. PICK u \in Users, s \in Seats, n \in BuyIns : Begin(Task("rebuy", "lock", u, s, n))
      BY <2>3 DEF Rebuy
    <3> QED
      BY <3>1 DEF Task
  <2>4. CASE \E s \in Seats : AutoRebuy(s)
    <3>1. PICK s \in Seats, n \in BuyIns :
              Begin([Task("rebuy", "lock", seats[s].user, s, n) EXCEPT !.saw = seats[s]])
      BY <2>4 DEF AutoRebuy
    <3> QED
      BY <3>1 DEF Task
  <2>5. CASE \E s \in Seats : Notice(s)
    <3>1. PICK s \in Seats : Begin(Task("reap", "kick", seats[s].user, s, seats[s].chips))
      BY <2>5 DEF Notice
    <3> QED
      BY <3>1 DEF Task
  <2>6. CASE \E r \in DOMAIN rows : Examine(r)
    <3>1. PICK r \in DOMAIN rows, op \in {"approve", "reject"} :
              Begin([Task(op, "process", rows[r].user, NoTask.seat, rows[r].amount) EXCEPT !.refs = {r}])
      BY <2>6 DEF Examine
    <3> QED
      BY <3>1 DEF Task
  <2>7. CASE FindOrphans
    <3>1. \E op \in {"heal", "resolve"}, found \in SUBSET DOMAIN rows :
              Begin([Task(op, "heal", Nobody, NoTask.seat, 0) EXCEPT !.refs = found])
      BY <2>7 DEF FindOrphans, Orphans
    <3>2. PICK op \in {"heal", "resolve"}, found \in SUBSET DOMAIN rows :
              Begin([Task(op, "heal", Nobody, NoTask.seat, 0) EXCEPT !.refs = found])
      BY <3>1
    <3> QED
      BY <3>2 DEF Task
  <2> QED
    BY <2>1, <2>2, <2>3, <2>4, <2>5, <2>6, <2>7
<1> HIDE DEF Idle
<1>3. PICK t : /\ Begin(t) /\ t.given = FALSE
               /\ t.at \in {"sync", "lock", "kick", "process", "heal"}
               /\ t.op # "add" \/ t.at = "sync"
  BY <1>2
<1> QED
  BY <1>1, <1>3, FreshKept DEF Idle

\* Nothing of what is counted moves.
LEMMA StayKept ==
    ASSUME MoneyInv, HoldsOK, wallet' = wallet, rows' = rows, seats' = seats, jobs' = jobs,
           tasks' = tasks, closing' = closing
    PROVE  HoldsOK' /\ \A u \in Users : Kept(u)
<1>1. HoldsOK'
  BY DEF HoldsOK, ClosingOK
<1>2. ASSUME NEW u \in Users PROVE Kept(u)
  <2>1. 0 \in Int /\ 0 + 0 + 0 + 0 - 0 = 0
    OBVIOUS
  <2> QED
    BY <2>1, Stays, Balance
<1> QED
  BY <1>1, <1>2

\* What is asked of handlers survives a step of one of them.
LEMMA HoldsMoved ==
    ASSUME MoneyInv, HoldsOK, NEW i \in 1..MaxTasks,
           \A k \in 1..MaxTasks : k # i => tasks'[k] = tasks[k], GivenOK(tasks'[i]),
           closing' = closing
    PROVE  HoldsOK'
  BY DEF HoldsOK, ClosingOK

\* A handler begins, goes on or is over.
LEMMA HoldsOn ==
    ASSUME MoneyInv, HoldsOK, closing' = closing
    PROVE  /\ \A i \in 1..MaxTasks : End(i) => HoldsOK'
           /\ \A i \in 1..MaxTasks, at \in Ats :
                 Go(i, at) /\ GivenOK([tasks[i] EXCEPT !.at = at]) => HoldsOK'
           /\ \A t \in TaskType : Begin(t) /\ GivenOK(t) => HoldsOK'
<1>1. ASSUME NEW i \in 1..MaxTasks, NEW t, GivenOK(t), tasks' = [tasks EXCEPT ![i] = t]
      PROVE  HoldsOK'
  <2>1. tasks'[i] = t /\ \A k \in 1..MaxTasks : k # i => tasks'[k] = tasks[k]
    BY <1>1, Parts
  <2> QED
    BY <1>1, <2>1, HoldsMoved
<1>2. GivenOK(NoTask)
  <2>1. ~NoTask.given
    BY DEF NoTask, Task
  <2> QED
    BY <2>1, TaskMakes DEF GivenOK
<1>3. ASSUME NEW i \in 1..MaxTasks, End(i) PROVE HoldsOK'
  BY <1>1, <1>2, <1>3 DEF End
<1>4. ASSUME NEW i \in 1..MaxTasks, NEW at \in Ats, Go(i, at), GivenOK([tasks[i] EXCEPT !.at = at])
      PROVE  HoldsOK'
  BY <1>1, <1>4 DEF Go
<1>5. ASSUME NEW t \in TaskType, Begin(t), GivenOK(t) PROVE HoldsOK'
  BY <1>1, <1>5 DEF Begin
<1> QED
  BY <1>3, <1>4, <1>5

\* A player leaves (handleLeaveTable).
LEMMA LeaveKept ==
    ASSUME MoneyInv, MoneyInv', HoldsOK, NEW v \in Users, NEW s \in Seats, Leave(v, s)
    PROVE  HoldsOK' /\ (Excused \/ \A u \in Users : Kept(u))
<1> DEFINE n == seats[s].chips
           t == Task("leave", "enqueue", v, s, n)
<1>1. /\ wallet' = wallet /\ rows' = rows /\ jobs' = jobs /\ closing' = closing
      /\ seats[s].user = v /\ seats' = [seats EXCEPT ![s] = Empty] /\ Begin(t)
  BY DEF Leave, LeaveScript, bank, desk
<1>2. seats[s] \in SeatRecord /\ n \in Nat /\ seats[s].bet \in Nat /\ seats[s].later \in Nat
  BY Parts, SeatFields
<1>3. t \in TaskType /\ GivenOK(t) /\ t.user = v /\ Carried(t) = n
  <2>1. "leave" \in Ops /\ "enqueue" \in Ats /\ v \in Users \cup {Nobody} /\ n \in Nat
    BY <1>2 DEF Ops, Ats
  <2>2. t \in TaskType /\ t.op = "leave" /\ t.at = "enqueue" /\ t.user = v /\ t.amount = n
    BY <2>1, TaskMakes
  <2> HIDE DEF t
  <2> QED
    BY <2>2 DEF GivenOK, Carried
<1>4. seats'[s] = Empty /\ \A r \in Seats : r # s => seats'[r] = seats[r]
  BY <1>1, Parts
<1> HIDE DEF t
<1>5. HoldsOK'
  BY <1>1, <1>3, HoldsOn
<1>6. CASE seats[s].bet + seats[s].later > 0
  BY <1>5, <1>6 DEF Excused, Forfeit
<1>7. CASE ~ seats[s].bet + seats[s].later > 0
  <2>1. Held(seats[s]) = n /\ Held(Empty) = 0
    BY <1>2, <1>7 DEF Held, Empty
  <2>2. ASSUME NEW u \in Users PROVE Kept(u)
    <3>1. /\ Share(u, v, n) \in Int /\ Share(u, Empty.user, 0) = 0
      BY <1>2 DEF Share
    <3>2. CarriedFor(u)' = CarriedFor(u) + Share(u, v, n)
      BY <1>1, <1>3, BeginMoves
    <3>3. AtTable(u)' = AtTable(u) + 0 - Share(u, v, n)
      BY <1>1, <1>4, <2>1, <3>1, SeatMoves
    <3>4. AtTable(u)' = AtTable(u) + (-Share(u, v, n)) /\ -Share(u, v, n) \in Int
          /\ 0 + (-Share(u, v, n)) + 0 + Share(u, v, n) - 0 = 0
      BY <3>1, <3>3, WorthTypes
    <3> HIDE DEF n
    <3> QED
      BY <1>1, <3>1, <3>2, <3>4, Stays, Balance
  <2> QED
    BY <1>5, <2>2
<1> QED
  BY <1>6, <1>7

\* Deposits, withdrawals and grants.
LEMMA CashierKept ==
    ASSUME MoneyInv, MoneyInv', HoldsOK, NEW v \in Users, Deposit(v) \/ Withdraw(v) \/ Adjust(v)
    PROVE  HoldsOK' /\ \A u \in Users : Kept(u)
<1>1. seats' = seats /\ jobs' = jobs /\ tasks' = tasks /\ closing' = closing
  BY DEF Deposit, Withdraw, Adjust, ring, desk
<1>2. \E row \in RowType, k \in Int :
         /\ NewRow(row) /\ row.user = v /\ Paid(row) = k
         /\ Credit(v, k) \/ (wallet' = wallet /\ k = 0)
  <2>1. CASE Deposit(v)
    <3>1. PICK n \in BuyIns : NewRow(Row(v, "deposit", n, "pending", 0)) /\ wallet' = wallet
      BY <2>1 DEF Deposit
    <3>2. Row(v, "deposit", n, "pending", 0) \in RowType
      BY Parts, MadeOf DEF Kinds
    <3>3. Paid(Row(v, "deposit", n, "pending", 0)) = 0 /\ Row(v, "deposit", n, "pending", 0).user = v
      BY DEF Paid, Row
    <3> QED
      BY <3>1, <3>2, <3>3
  <2>2. CASE Withdraw(v)
    <3>1. PICK n \in BuyIns : Credit(v, -n) /\ NewRow(Row(v, "withdraw", n, "pending", 0))
      BY <2>2 DEF Withdraw
    <3>2. n \in Nat /\ -n \in Int /\ Row(v, "withdraw", n, "pending", 0) \in RowType
      BY Parts, MadeOf DEF Kinds
    <3>3. Paid(Row(v, "withdraw", n, "pending", 0)) = -n
          /\ Row(v, "withdraw", n, "pending", 0).user = v
      BY DEF Paid, Row
    <3> QED
      BY <3>1, <3>2, <3>3
  <2>3. CASE Adjust(v)
    <3>1. PICK n \in BuyIns \cup {-b : b \in BuyIns} :
              Credit(v, n) /\ NewRow(Row(v, "admin", n, "completed", 0))
      BY <2>3 DEF Adjust
    <3>2. n \in Int /\ Row(v, "admin", n, "completed", 0) \in RowType
      <4>1. n \in Int
        BY Parts
      <4> QED
        BY <4>1, MadeOf DEF Kinds
    <3>3. Paid(Row(v, "admin", n, "completed", 0)) = n /\ Row(v, "admin", n, "completed", 0).user = v
      BY DEF Paid, Row
    <3> QED
      BY <3>1, <3>2, <3>3
  <2> QED
    BY <2>1, <2>2, <2>3
<1>3. PICK row \in RowType, k \in Int :
         /\ NewRow(row) /\ row.user = v /\ Paid(row) = k
         /\ Credit(v, k) \/ (wallet' = wallet /\ k = 0)
  BY <1>2
<1>4. HoldsOK'
  BY <1>1 DEF HoldsOK, ClosingOK
<1>5. ASSUME NEW u \in Users PROVE Kept(u)
  <2>1. PaidIn(u)' = PaidIn(u) + Share(u, v, k) /\ Share(u, v, k) \in Int /\ Share(u, v, 0) = 0
    BY <1>3, PaymentMoves, ShareOf
  <2>2. wallet'[u] = wallet[u] + Share(u, v, k)
    BY <1>3, <2>1, WalletMoves, WorthTypes
  <2>3. Share(u, v, k) + 0 + 0 + 0 - 0 = Share(u, v, k)
    BY <2>1
  <2> QED
    BY <1>1, <2>1, <2>2, <2>3, Stays, Balance
<1> QED
  BY <1>4, <1>5

\* The balance is copied to Redis.
LEMMA SyncKept ==
    ASSUME MoneyInv, MoneyInv', HoldsOK, NEW i \in 1..MaxTasks, Sync(i)
    PROVE  HoldsOK' /\ \A u \in Users : Kept(u)
<1>1. /\ wallet' = wallet /\ rows' = rows /\ seats' = seats /\ jobs' = jobs /\ closing' = closing
      /\ Go(i, "script") /\ tasks[i].at = "sync" /\ tasks[i].op \in {"join", "add"}
  BY DEF Sync, At, bank, ring, desk
<1> DEFINE t == [tasks[i] EXCEPT !.at = "script"]
<1>2. tasks[i] \in TaskType /\ GivenOK(tasks[i])
  BY Parts DEF HoldsOK
<1>3. t.at = "script" /\ t.op = tasks[i].op /\ t.given = tasks[i].given
  BY <1>2 DEF TaskType
<1> HIDE DEF t
<1>4. GivenOK(t) /\ Carried(t) = 0 /\ Carried(tasks[i]) = 0
  BY <1>1, <1>2, <1>3 DEF GivenOK, Carried
<1>5. HoldsOK'
  BY <1>1, <1>4, HoldsOn DEF t, Ats
<1>6. ASSUME NEW u \in Users PROVE Kept(u)
  <2>1. Share(u, tasks[i].user, 0) = 0
    BY DEF Share
  <2>2. CarriedFor(u)' = CarriedFor(u) + Share(u, tasks[i].user, Carried(t))
                                       - Share(u, tasks[i].user, Carried(tasks[i]))
    BY <1>1, <1>4, GoMoves DEF t
  <2>3. CarriedFor(u)' = CarriedFor(u) + 0 /\ 0 \in Int /\ 0 + 0 + 0 + 0 - 0 = 0
    BY <1>4, <2>1, <2>2, WorthTypes
  <2> QED
    BY <1>1, <2>3, Stays, Balance
<1> QED
  BY <1>5, <1>6

\* What is v's: nobody's nothing is, too.
Its(v, owner, n) == owner = v \/ n = 0

LEMMA ItsShare ==
    ASSUME NEW u, NEW v, NEW owner, NEW n \in Int, Its(v, owner, n)
    PROVE  Share(u, owner, n) = Share(u, v, n)
  BY DEF Its, Share

\* A handler of v's moves: his wallet by w, the seat s by a, the queue by q, and what the
\* handler carries by c.
HandlerMoves(i, v, s, w, a, q, c) ==
    /\ i \in 1..MaxTasks /\ v \in Users /\ s \in Seats
    /\ w \in Int /\ a \in Int /\ q \in Int /\ c \in Int /\ w + a + q + c = 0
    /\ closing' = closing
    /\ tasks[i].user = v /\ \A k \in 1..MaxTasks : k # i => tasks'[k] = tasks[k]
    /\ GivenOK(tasks'[i]) /\ Its(v, tasks'[i].user, Carried(tasks'[i]))
    /\ Carried(tasks'[i]) = Carried(tasks[i]) + c
    /\ Credit(v, w) \/ (wallet' = wallet /\ w = 0)
    /\ rows' = rows \/ \E row \in RowType : NewRow(row) /\ Paid(row) = 0
    /\ \A r \in Seats : r # s => seats'[r] = seats[r]
    /\ \/ seats'[s] = seats[s] /\ a = 0
       \/ /\ Its(v, seats[s].user, Held(seats[s])) /\ Its(v, seats'[s].user, Held(seats'[s]))
          /\ Held(seats'[s]) = Held(seats[s]) + a
    /\ (jobs' = jobs /\ q = 0) \/ (q \in Nat /\ jobs' = Append(jobs, Job(v, q)))

LEMMA HandlerKept ==
    ASSUME MoneyInv, MoneyInv', HoldsOK, NEW i, NEW v, NEW s, NEW w, NEW a, NEW q, NEW c,
           HandlerMoves(i, v, s, w, a, q, c)
    PROVE  HoldsOK' /\ \A u \in Users : Kept(u)
<1>0. i \in 1..MaxTasks /\ v \in Users /\ s \in Seats
      /\ w \in Int /\ a \in Int /\ q \in Int /\ c \in Int /\ w + a + q + c = 0
      /\ closing' = closing
  BY DEF HandlerMoves
<1>1. HoldsOK'
  BY <1>0, HoldsMoved DEF HandlerMoves
<1>2. ASSUME NEW u \in Users PROVE Kept(u)
  <2> DEFINE S(n) == Share(u, v, n)
  <2>1. /\ S(w) \in Int /\ S(a) \in Int /\ S(q) \in Int /\ S(c) \in Int
        /\ S(w) + S(a) + S(q) + S(c) - 0 = 0
        /\ S(0) = 0
    BY <1>0 DEF Share
  <2>2. wallet'[u] = wallet[u] + S(w)
    <3>1. CASE Credit(v, w)
      BY <1>0, <3>1, WalletMoves
    <3>2. CASE wallet' = wallet /\ w = 0
      <4>1. wallet'[u] = wallet[u] + 0
        BY <1>0, <3>2, Stays
      <4> QED
        BY <1>0, <2>1, <3>2, <4>1
    <3> QED
      BY <1>0, <3>1, <3>2 DEF HandlerMoves
  <2>3. CarriedFor(u)' = CarriedFor(u) + S(c)
    <3>1. Carried(tasks[i]) \in Int /\ Carried(tasks'[i]) \in Int
      <4>1. tasks[i] \in TaskType /\ tasks'[i] \in TaskType
        BY <1>0 DEF MoneyInv, MoneyTypeOK
      <4> QED
        BY <1>0, <4>1, CarriedOf DEF HoldsOK, HandlerMoves
    <3>2. /\ Share(u, tasks'[i].user, Carried(tasks'[i])) = S(Carried(tasks'[i]))
          /\ S(Carried(tasks'[i])) = S(Carried(tasks[i])) + S(c)
          /\ S(Carried(tasks[i])) \in Int
      <4>1. Share(u, tasks'[i].user, Carried(tasks'[i])) = S(Carried(tasks'[i]))
        BY <1>0, <3>1, ItsShare DEF HandlerMoves
      <4>2. S(Carried(tasks[i]) + c) = S(Carried(tasks[i])) + S(c) /\ S(Carried(tasks[i])) \in Int
        BY <1>0, <3>1, ShareOf
      <4> QED
        BY <1>0, <4>1, <4>2 DEF HandlerMoves
    <3>3. CarriedFor(u)' = CarriedFor(u) + Share(u, tasks'[i].user, Carried(tasks'[i]))
                                         - Share(u, v, Carried(tasks[i]))
      BY <1>0, CarryMoves DEF HandlerMoves
    <3> QED
      BY <1>0, <2>1, <3>2, <3>3, WorthTypes
  <2>4. PaidIn(u)' = PaidIn(u) + 0
    <3>1. CASE rows' = rows
      BY <1>0, <3>1, Stays
    <3>2. CASE \E row \in RowType : NewRow(row) /\ Paid(row) = 0
      <4>1. PICK row \in RowType : NewRow(row) /\ Paid(row) = 0
        BY <1>0, <3>2
      <4>2. PaidIn(u)' = PaidIn(u) + Share(u, row.user, 0) /\ Share(u, row.user, 0) = 0
        BY <1>0, <4>1, PaymentMoves DEF Share
      <4> QED
        BY <1>0, <4>2
    <3> QED
      BY <1>0, <3>1, <3>2 DEF HandlerMoves
  <2>5. AtTable(u)' = AtTable(u) + S(a)
    <3>1. CASE seats'[s] = seats[s] /\ a = 0
      <4>1. AtTable(u)' = AtTable(u) + Share(u, seats[s].user, Held(seats[s]))
                                     - Share(u, seats[s].user, Held(seats[s]))
        BY <1>0, <3>1, SeatMoves DEF HandlerMoves
      <4> QED
        BY <1>0, <2>1, <3>1, <4>1, WorthTypes
    <3>2. CASE /\ Its(v, seats[s].user, Held(seats[s])) /\ Its(v, seats'[s].user, Held(seats'[s]))
               /\ Held(seats'[s]) = Held(seats[s]) + a
      <4>1. Held(seats[s]) \in Int /\ Held(seats'[s]) \in Int
        BY <1>0, SeatMoves, WorthTypes DEF HandlerMoves
      <4>2. /\ Share(u, seats[s].user, Held(seats[s])) = S(Held(seats[s]))
            /\ Share(u, seats'[s].user, Held(seats'[s])) = S(Held(seats'[s]))
        BY <1>0, <3>2, <4>1, ItsShare
      <4>3. S(Held(seats[s]) + a) = S(Held(seats[s])) + S(a) /\ S(Held(seats[s])) \in Int
        BY <1>0, <4>1, ShareOf
      <4>4. AtTable(u)' = AtTable(u) + Share(u, seats'[s].user, Held(seats'[s]))
                                     - Share(u, seats[s].user, Held(seats[s]))
        BY <1>0, SeatMoves DEF HandlerMoves
      <4> QED
        BY <1>0, <2>1, <3>2, <4>2, <4>3, <4>4, WorthTypes
    <3> QED
      BY <1>0, <3>1, <3>2 DEF HandlerMoves
  <2>6. Queued(u)' = Queued(u) + S(q)
    <3>1. CASE jobs' = jobs /\ q = 0
      BY <1>0, <2>1, <3>1, Stays
    <3>2. CASE q \in Nat /\ jobs' = Append(jobs, Job(v, q))
      <4>1. jobs \in Seq(JobType) /\ jobs' \in Seq(JobType) /\ Job(v, q) \in JobType
            /\ Job(v, q).user = v /\ Job(v, q).amount = q
        <5>1. Job(v, q).user = v /\ Job(v, q).amount = q
          BY <1>0 DEF Job
        <5>2. jobs' \in Seq(JobType)
          BY <1>0 DEF MoneyInv, MoneyTypeOK
        <5> QED
          BY <1>0, <3>2, <5>1, <5>2, Parts, MadeOf
      <4>2. /\ Queued(u)' = SeqSum(Dues(u), jobs') /\ Queued(u) = SeqSum(Dues(u), jobs)
            /\ \A job \in JobType : Dues(u)[job] \in Int /\ Dues(u)[job] = Share(u, job.user, job.amount)
        BY <1>0, <4>1, DueSum DEF Queued
      <4>3. SeqSum(Dues(u), Append(jobs, Job(v, q))) = SeqSum(Dues(u), jobs) + Dues(u)[Job(v, q)]
        BY <1>0, <4>1, <4>2, SeqSumAppend
      <4> QED
        BY <1>0, <3>2, <4>1, <4>2, <4>3
    <3> QED
      BY <1>0, <3>1, <3>2 DEF HandlerMoves
  <2>7. Returned(u)' = Returned(u) + 0 /\ 0 \in Int
    BY <1>0, Stays
  <2>8. /\ wallet[u] \in Int /\ AtTable(u) \in Int /\ Queued(u) \in Int
        /\ CarriedFor(u) \in Int /\ Returned(u) \in Int /\ PaidIn(u) \in Int
    BY <1>0, WorthTypes
  <2> HIDE DEF S
  <2> QED
    BY <2>1, <2>2, <2>3, <2>4, <2>5, <2>6, <2>7, <2>8 DEF Kept, Worth
<1> QED
  BY <1>1, <1>2

\* What records of seats hold.
LEMMA HeldOf ==
    /\ Held(Empty) = 0 /\ Empty.user = Nobody
    /\ \A u, n : Stack(u, n).user = u /\ (n \in Int => Held(Stack(u, n)) = n)
    /\ \A r \in Record, n \in Nat :
          LET a == [r EXCEPT !.chips = n]  b == [r EXCEPT !.later = n]
          IN  /\ a.user = r.user /\ Held(a) = Held(r) + n - r.chips
              /\ b.user = r.user /\ Held(b) = Held(r) + n - r.later
<1>1. Held(Empty) = 0 /\ Empty.user = Nobody
  BY DEF Held, Empty
<1>2. \A u, n : Stack(u, n).user = u /\ (n \in Int => Held(Stack(u, n)) = n)
  BY DEF Held, Stack
<1>3. ASSUME NEW r \in Record, NEW n \in Nat
      PROVE  LET a == [r EXCEPT !.chips = n]  b == [r EXCEPT !.later = n]
             IN  /\ a.user = r.user /\ Held(a) = Held(r) + n - r.chips
                 /\ b.user = r.user /\ Held(b) = Held(r) + n - r.later
  BY DEF Record, Held
<1> QED
  BY <1>1, <1>2, <1>3

\* A handler is over, or goes on.
LEMMA HandlerEnds ==
    ASSUME MoneyInv, NEW i \in 1..MaxTasks, End(i)
    PROVE  /\ \A k \in 1..MaxTasks : k # i => tasks'[k] = tasks[k]
           /\ tasks'[i] = NoTask /\ tasks'[i].at = "idle" /\ GivenOK(tasks'[i])
           /\ Carried(tasks'[i]) = 0
           /\ \A v : Its(v, tasks'[i].user, Carried(tasks'[i]))
<1>1. tasks'[i] = NoTask /\ \A k \in 1..MaxTasks : k # i => tasks'[k] = tasks[k]
  BY Parts DEF End
<1>2. Carried(NoTask) = 0
  BY TaskMakes DEF Carried
<1>3. GivenOK(NoTask)
  <2>1. ~NoTask.given
    BY DEF NoTask, Task
  <2> QED
    BY <2>1, TaskMakes DEF GivenOK
<1> QED
  BY <1>1, <1>2, <1>3, TaskMakes DEF Its

LEMMA HandlerGoesOn ==
    ASSUME MoneyInv, NEW i \in 1..MaxTasks, NEW at, Go(i, at)
    PROVE  /\ \A k \in 1..MaxTasks : k # i => tasks'[k] = tasks[k]
           /\ tasks'[i].at = at /\ tasks'[i].op = tasks[i].op /\ tasks'[i].user = tasks[i].user
           /\ tasks'[i].amount = tasks[i].amount /\ tasks'[i].given = tasks[i].given
<1>1. tasks'[i] = [tasks[i] EXCEPT !.at = at] /\ \A k \in 1..MaxTasks : k # i => tasks'[k] = tasks[k]
  BY Parts DEF Go
<1>2. tasks[i] \in TaskType
  BY Parts
<1>3. LET t == [tasks[i] EXCEPT !.at = at]
      IN  /\ t.at = at /\ t.op = tasks[i].op /\ t.user = tasks[i].user
          /\ t.amount = tasks[i].amount /\ t.given = tasks[i].given
  BY <1>2 DEF TaskType
<1> QED
  BY <1>1, <1>3

\* A handler at an await, as the invariant has it.
LEMMA HandlerAt ==
    ASSUME MoneyInv, HoldsOK, NEW i \in 1..MaxTasks, tasks[i].at \notin {"idle", "heal"}
    PROVE  /\ tasks[i] \in TaskType /\ GivenOK(tasks[i]) /\ TaskOK(tasks[i], rows)
           /\ tasks[i].user \in Users /\ tasks[i].seat \in Seats
           /\ tasks[i].amount \in Nat /\ -tasks[i].amount \in Int /\ 0 \in Int
           /\ seats[tasks[i].seat] \in SeatRecord
           /\ seats[tasks[i].seat] # Empty => seats[tasks[i].seat] \in Record
           /\ Nobody \notin Users
  BY TaskSays, PlacesAssumption DEF HoldsOK

\* Chips are given by the scripts before they are paid for.
LEMMA GivenMoves ==
    ASSUME MoneyInv, HoldsOK, NEW i \in 1..MaxTasks, tasks[i].at = "script",
           tasks[i].op \in {"join", "add"},
           tasks' = [tasks EXCEPT ![i].at = "lock", ![i].given = TRUE]
    PROVE  /\ \A k \in 1..MaxTasks : k # i => tasks'[k] = tasks[k]
           /\ tasks'[i].at = "lock" /\ tasks'[i].user = tasks[i].user
           /\ GivenOK(tasks'[i]) /\ Carried(tasks'[i]) = -tasks[i].amount
<1> DEFINE t == [[tasks[i] EXCEPT !.at = "lock"] EXCEPT !.given = TRUE]
<1>2. tasks[i] \in TaskType
  BY HandlerAt
<1>3. tasks'[i] = t /\ \A k \in 1..MaxTasks : k # i => tasks'[k] = tasks[k]
  BY Parts
<1>4. /\ t.at = "lock" /\ t.op = tasks[i].op /\ t.user = tasks[i].user /\ t.given = TRUE
      /\ t.amount = tasks[i].amount
  BY <1>2 DEF TaskType
<1> HIDE DEF t
<1> QED
  BY <1>3, <1>4 DEF GivenOK, Carried

\* join_table.lua.
LEMMA JoinKept ==
    ASSUME MoneyInv, MoneyInv', HoldsOK, NEW i \in 1..MaxTasks, JoinScript(i)
    PROVE  HoldsOK' /\ \A u \in Users : Kept(u)
<1> DEFINE v == tasks[i].user  s == tasks[i].seat  n == tasks[i].amount
<1>1. /\ wallet' = wallet /\ rows' = rows /\ jobs' = jobs /\ closing' = closing
      /\ tasks[i].op = "join" /\ tasks[i].at = "script"
  BY DEF JoinScript, At, bank, desk
<1>2. /\ v \in Users /\ s \in Seats /\ n \in Nat /\ -n \in Int /\ 0 \in Int /\ GivenOK(tasks[i])
      /\ tasks[i] \in TaskType
  BY <1>1, HandlerAt
<1>3. Carried(tasks[i]) = 0 /\ ~tasks[i].given
  BY <1>1, <1>2 DEF Carried, GivenOK
<1>4. CASE Go(i, "lock") /\ seats' = seats
  <2>1. HandlerMoves(i, v, s, 0, 0, 0, 0)
    <3>1. /\ \A k \in 1..MaxTasks : k # i => tasks'[k] = tasks[k]
          /\ tasks'[i].at = "lock" /\ tasks'[i].op = "join" /\ tasks'[i].user = v
          /\ ~tasks'[i].given
      BY <1>1, <1>3, <1>4, HandlerGoesOn
    <3>2. GivenOK(tasks'[i]) /\ Carried(tasks'[i]) = 0
      BY <3>1 DEF GivenOK, Carried
    <3> QED
      BY <1>1, <1>2, <1>3, <1>4, <3>1, <3>2 DEF HandlerMoves, Its
  <2> QED
    BY <2>1, HandlerKept
<1>5. CASE End(i) /\ seats' = seats
  <2>1. HandlerMoves(i, v, s, 0, 0, 0, 0)
    BY <1>1, <1>2, <1>3, <1>5, HandlerEnds DEF HandlerMoves
  <2> QED
    BY <2>1, HandlerKept
<1>6. CASE /\ seats[s] = Empty /\ seats' = [seats EXCEPT ![s] = Stack(v, n)]
           /\ tasks' = [tasks EXCEPT ![i].at = "lock", ![i].given = TRUE]
  <2>1. HandlerMoves(i, v, s, 0, n, 0, -n)
    <3>1. seats'[s] = Stack(v, n) /\ \A r \in Seats : r # s => seats'[r] = seats[r]
      BY <1>2, <1>6, Parts
    <3>2. /\ Its(v, seats[s].user, Held(seats[s])) /\ Its(v, seats'[s].user, Held(seats'[s]))
          /\ Held(seats'[s]) = Held(seats[s]) + n
      BY <1>2, <1>6, <3>1, HeldOf DEF Its
    <3>3. /\ \A k \in 1..MaxTasks : k # i => tasks'[k] = tasks[k]
          /\ tasks'[i].user = v /\ GivenOK(tasks'[i]) /\ Carried(tasks'[i]) = -n
      BY <1>1, <1>6, GivenMoves
    <3>4. Carried(tasks'[i]) = Carried(tasks[i]) + (-n)
      BY <1>2, <1>3, <3>3
    <3>5. tasks[i].user = v /\ 0 + n + 0 + (-n) = 0 /\ Its(v, tasks'[i].user, Carried(tasks'[i]))
      BY <1>2, <3>3 DEF Its
    <3> HIDE DEF v, s, n
    <3> QED
      BY <1>1, <1>2, <3>1, <3>2, <3>3, <3>4, <3>5 DEF HandlerMoves
  <2> QED
    BY <2>1, HandlerKept
<1> QED
  BY <1>4, <1>5, <1>6 DEF JoinScript

\* add_chips.lua.
LEMMA AddKept ==
    ASSUME MoneyInv, MoneyInv', HoldsOK, NEW i \in 1..MaxTasks, AddScript(i)
    PROVE  HoldsOK' /\ (Excused \/ \A u \in Users : Kept(u))
<1> DEFINE v == tasks[i].user  s == tasks[i].seat  n == tasks[i].amount
<1>1. /\ wallet' = wallet /\ rows' = rows /\ jobs' = jobs /\ closing' = closing
      /\ tasks[i].op = "add" /\ tasks[i].at = "script"
  BY DEF AddScript, At, bank, desk
<1>2. /\ v \in Users /\ s \in Seats /\ n \in Nat /\ -n \in Int /\ 0 \in Int /\ GivenOK(tasks[i])
      /\ tasks[i] \in TaskType
      /\ seats[s] \in SeatRecord /\ (seats[s] # Empty => seats[s] \in Record)
  BY <1>1, HandlerAt
<1>3. Carried(tasks[i]) = 0 /\ ~tasks[i].given
  BY <1>1, <1>2 DEF Carried, GivenOK
<1>5. CASE End(i) /\ seats' = seats
  <2>1. HandlerMoves(i, v, s, 0, 0, 0, 0)
    BY <1>1, <1>2, <1>3, <1>5, HandlerEnds DEF HandlerMoves
  <2> QED
    BY <2>1, HandlerKept
<1>6. CASE /\ seats[s] # Empty /\ seats' = [seats EXCEPT ![s].chips = @ + n]
           /\ tasks' = [tasks EXCEPT ![i].at = "lock", ![i].given = TRUE]
  <2>3. /\ \A k \in 1..MaxTasks : k # i => tasks'[k] = tasks[k]
        /\ tasks'[i].user = v /\ GivenOK(tasks'[i]) /\ Carried(tasks'[i]) = -n
        /\ tasks'[i].at = "lock"
    BY <1>1, <1>6, GivenMoves
  <2>4. CASE seats[s].user = v
    <3>1. seats'[s] = [seats[s] EXCEPT !.chips = seats[s].chips + n]
          /\ \A r \in Seats : r # s => seats'[r] = seats[r]
      BY <1>2, <1>6, Parts
    <3>2. seats[s] \in Record /\ seats[s].chips \in Nat /\ seats[s].chips + n \in Nat
          /\ Held(seats[s]) \in Int
      BY <1>2, <1>6, SeatFields DEF Held
    <3>3. /\ Its(v, seats[s].user, Held(seats[s])) /\ Its(v, seats'[s].user, Held(seats'[s]))
          /\ Held(seats'[s]) = Held(seats[s]) + n
      <4> DEFINE r == seats[s]  k == seats[s].chips + n
      <4>0. r \in Record /\ k \in Nat /\ seats'[s] = [r EXCEPT !.chips = k]
        BY <3>1, <3>2
      <4> HIDE DEF r, k
      <4>1. seats'[s].user = r.user /\ Held(seats'[s]) = Held(r) + k - r.chips
        BY <4>0 DEF Held, Record
      <4> USE DEF r, k
      <4> QED
        BY <1>2, <2>4, <3>2, <4>1 DEF Its
    <3>4. Carried(tasks'[i]) = Carried(tasks[i]) + (-n)
      BY <1>2, <1>3, <2>3
    <3>5. tasks[i].user = v /\ 0 + n + 0 + (-n) = 0 /\ Its(v, tasks'[i].user, Carried(tasks'[i]))
      BY <1>2, <2>3 DEF Its
    <3>6. HandlerMoves(i, v, s, 0, n, 0, -n)
      <4> HIDE DEF v, s, n
      <4> QED
        BY <1>1, <1>2, <2>3, <3>1, <3>3, <3>4, <3>5 DEF HandlerMoves
    <3> QED
      BY <3>6, HandlerKept
  <2>5. CASE seats[s].user # v
    <3>1. Slip(i)
      BY <1>1, <2>3, <2>5 DEF Slip
    <3>2. HoldsOK'
      BY <1>1, <2>3, HoldsMoved
    <3> QED
      BY <3>1, <3>2 DEF Excused
  <2> QED
    BY <2>4, <2>5
<1> QED
  BY <1>5, <1>6 DEF AddScript

\* The debit, and the handler that is refused it (lockFunds).
LEMMA LockKept ==
    ASSUME MoneyInv, MoneyInv', HoldsOK, NEW i \in 1..MaxTasks, Lock(i)
    PROVE  HoldsOK' /\ (Excused \/ \A u \in Users : Kept(u))
<1> DEFINE v == tasks[i].user  s == tasks[i].seat  n == tasks[i].amount
           row == Row(v, "buy_in", n, "completed", Len(rows) + 1)
<1>1. /\ seats' = seats /\ jobs' = jobs /\ closing' = closing /\ tasks[i].at = "lock"
  BY DEF Lock, ring, desk
<1>2. /\ v \in Users /\ s \in Seats /\ n \in Nat /\ -n \in Int /\ 0 \in Int /\ GivenOK(tasks[i])
      /\ tasks[i] \in TaskType /\ tasks[i].op \in {"join", "add", "rebuy"}
  BY <1>1, HandlerAt DEF TaskOK
<1>3. CASE tasks[i].op = "join" /\ ~tasks[i].given
  <2>1. (\A k \in 1..MaxTasks : k # i => tasks'[k] = tasks[k]) /\ tasks'[i].at # "lock"
        /\ GivenOK(tasks'[i])
    <3>1. CASE End(i)
      BY <3>1, HandlerEnds
    <3>2. CASE tasks' = [tasks EXCEPT ![i].at = "undo",
                            ![i].saw = IF tasks[i].op = "add" THEN seats[tasks[i].seat] ELSE @]
      <4> DEFINE t == [[tasks[i] EXCEPT !.at = "undo"] EXCEPT !.saw = tasks[i].saw]
      <4>1. tasks'[i] = t /\ \A k \in 1..MaxTasks : k # i => tasks'[k] = tasks[k]
        BY <1>3, <3>2, Parts
      <4>2. t.at = "undo" /\ t.op = "join"
        BY <1>2, <1>3 DEF TaskType
      <4> HIDE DEF t
      <4> QED
        BY <4>1, <4>2 DEF GivenOK
    <3> QED
      BY <1>3, <3>1, <3>2 DEF Lock
  <2>2. Slip(i)
    BY <1>1, <1>3, <2>1 DEF Slip
  <2> QED
    BY <1>1, <2>1, <2>2, HoldsMoved DEF Excused
<1>4. CASE tasks[i].given \/ tasks[i].op # "join"
  <2>1. Carried(tasks[i]) = IF tasks[i].op = "rebuy" THEN 0 ELSE -n
    BY <1>1, <1>2, <1>4 DEF Carried, GivenOK
  <2>2. CASE Credit(v, -n) /\ NewRow(row) /\ (IF tasks[i].op = "rebuy" THEN Go(i, "vault") ELSE End(i))
    <3>1. row \in RowType
      BY <1>2, Parts, MadeOf DEF Kinds
    <3>2. Paid(row) = 0
      BY DEF Paid, Row
    <3> HIDE DEF row
    <3>3. CASE tasks[i].op = "rebuy"
      <4>1. /\ \A k \in 1..MaxTasks : k # i => tasks'[k] = tasks[k]
            /\ tasks'[i].at = "vault" /\ tasks'[i].op = "rebuy" /\ tasks'[i].user = v
            /\ tasks'[i].given = tasks[i].given /\ tasks'[i].amount = n
        BY <2>2, <3>3, HandlerGoesOn
      <4>2. GivenOK(tasks'[i]) /\ Carried(tasks'[i]) = n /\ Its(v, tasks'[i].user, Carried(tasks'[i]))
        BY <1>2, <3>3, <4>1 DEF GivenOK, Carried, Its
      <4>3. Carried(tasks'[i]) = Carried(tasks[i]) + n /\ -n + 0 + 0 + n = 0 /\ tasks[i].user = v
        BY <1>2, <2>1, <3>3, <4>2
      <4>4. HandlerMoves(i, v, s, -n, 0, 0, n)
        <5> HIDE DEF v, s, n
        <5> QED
          BY <1>1, <1>2, <2>2, <3>1, <3>2, <4>1, <4>2, <4>3 DEF HandlerMoves
      <4> QED
        BY <4>4, HandlerKept
    <3>4. CASE tasks[i].op # "rebuy"
      <4>1. /\ \A k \in 1..MaxTasks : k # i => tasks'[k] = tasks[k]
            /\ GivenOK(tasks'[i]) /\ Carried(tasks'[i]) = 0 /\ Its(v, tasks'[i].user, Carried(tasks'[i]))
        BY <2>2, <3>4, HandlerEnds
      <4>2. Carried(tasks'[i]) = Carried(tasks[i]) + n /\ -n + 0 + 0 + n = 0 /\ tasks[i].user = v
        BY <1>2, <2>1, <3>4, <4>1
      <4>3. HandlerMoves(i, v, s, -n, 0, 0, n)
        <5> HIDE DEF v, s, n
        <5> QED
          BY <1>1, <1>2, <2>2, <3>1, <3>2, <4>1, <4>2 DEF HandlerMoves
      <4> QED
        BY <4>3, HandlerKept
    <3> QED
      BY <3>3, <3>4
  <2>3. CASE /\ wallet' = wallet /\ rows' = rows
             /\ tasks' = [tasks EXCEPT ![i].at = "undo",
                              ![i].saw = IF tasks[i].op = "add" THEN seats[tasks[i].seat] ELSE @]
    <3> DEFINE saw == IF tasks[i].op = "add" THEN seats[tasks[i].seat] ELSE tasks[i].saw
               t == [[tasks[i] EXCEPT !.at = "undo"] EXCEPT !.saw = saw]
    <3>1. tasks'[i] = t /\ \A k \in 1..MaxTasks : k # i => tasks'[k] = tasks[k]
      BY <2>3, Parts
    <3> HIDE DEF saw
    <3>2. t.at = "undo" /\ t.op = tasks[i].op /\ t.user = v /\ t.given = tasks[i].given /\ t.amount = n
      BY <1>2 DEF TaskType
    <3> HIDE DEF t
    <3>3. GivenOK(tasks'[i]) /\ Carried(tasks'[i]) = Carried(tasks[i])
          /\ Its(v, tasks'[i].user, Carried(tasks'[i]))
      BY <1>1, <1>2, <3>1, <3>2 DEF GivenOK, Carried, Its
    <3>4. /\ Carried(tasks'[i]) = Carried(tasks[i]) + 0 /\ tasks[i].user = v /\ 0 + 0 + 0 + 0 = 0
          /\ wallet' = wallet /\ rows' = rows
      BY <1>2, <2>1, <2>3, <3>3
    <3>5. HandlerMoves(i, v, s, 0, 0, 0, 0)
      <4> HIDE DEF v, s, n
      <4> QED
        BY <1>1, <1>2, <3>1, <3>3, <3>4 DEF HandlerMoves
    <3> QED
      BY <3>5, HandlerKept
  <2> QED
    BY <2>2, <2>3 DEF Lock, bank
<1> QED
  BY <1>3, <1>4

\* The record that is put back when the charge has failed.
LEMMA UndoKept ==
    ASSUME MoneyInv, MoneyInv', HoldsOK, NEW i \in 1..MaxTasks, Undo(i)
    PROVE  HoldsOK' /\ (Excused \/ \A u \in Users : Kept(u))
<1> DEFINE v == tasks[i].user  s == tasks[i].seat  n == tasks[i].amount
<1>1. /\ wallet' = wallet /\ rows' = rows /\ jobs' = jobs /\ closing' = closing
      /\ tasks[i].at = "undo" /\ End(i)
  BY DEF Undo, bank, desk
<1>2. /\ v \in Users /\ s \in Seats /\ n \in Nat /\ -n \in Int /\ 0 \in Int /\ GivenOK(tasks[i])
      /\ tasks[i] \in TaskType /\ tasks[i].op \in {"join", "add", "rebuy"}
      /\ seats[s] \in SeatRecord /\ Nobody \notin Users
  BY <1>1, HandlerAt DEF TaskOK
<1>3. /\ \A k \in 1..MaxTasks : k # i => tasks'[k] = tasks[k]
      /\ GivenOK(tasks'[i]) /\ Carried(tasks'[i]) = 0 /\ Its(v, tasks'[i].user, Carried(tasks'[i]))
      /\ tasks'[i].at = "idle"
  BY <1>1, HandlerEnds
<1>4. tasks'[i] # tasks[i]
  BY <1>1, <1>3
<1>5. CASE \/ tasks[i].op = "join" /\ (~tasks[i].given \/ seats[s] # Stack(v, n))
           \/ tasks[i].op # "join" /\ (seats[s] # tasks[i].saw \/ seats[s].user # v \/ seats[s].chips < n)
  <2>1. Slip(i)
    BY <1>1, <1>4, <1>5 DEF Slip
  <2> QED
    BY <1>1, <1>3, <2>1, HoldsMoved DEF Excused
<1>6. CASE tasks[i].op = "join" /\ tasks[i].given /\ seats[s] = Stack(v, n)
  <2>1. seats'[s] = Empty /\ \A r \in Seats : r # s => seats'[r] = seats[r]
    BY <1>2, <1>6, Parts DEF Undo, Undone
  <2>2. /\ Its(v, seats[s].user, Held(seats[s])) /\ Its(v, seats'[s].user, Held(seats'[s]))
        /\ Held(seats'[s]) = Held(seats[s]) + (-n)
    BY <1>2, <1>6, <2>1, HeldOf DEF Its
  <2>3. Carried(tasks'[i]) = Carried(tasks[i]) + n /\ 0 + (-n) + 0 + n = 0 /\ tasks[i].user = v
    BY <1>1, <1>2, <1>3, <1>6 DEF Carried
  <2>4. HandlerMoves(i, v, s, 0, -n, 0, n)
    <3> HIDE DEF v, s, n
    <3> QED
      BY <1>1, <1>2, <1>3, <2>1, <2>2, <2>3 DEF HandlerMoves
  <2> QED
    BY <2>4, HandlerKept
<1>7. CASE /\ tasks[i].op # "join"
           /\ seats[s] = tasks[i].saw /\ seats[s].user = v /\ ~ seats[s].chips < n
  <2> DEFINE c == IF tasks[i].op = "add" THEN seats[s].chips - n ELSE seats[s].chips
             d == IF tasks[i].op = "add" THEN n ELSE 0
  <2>1. seats[s] # Empty /\ seats[s] \in Record /\ seats[s].chips \in Nat /\ Held(seats[s]) \in Int
    BY <1>2, <1>7, SeatFields DEF Held
  <2>2. c \in Nat /\ d \in Int /\ c - seats[s].chips = -d /\ -d \in Int
    BY <1>2, <1>7, <2>1
  <2>3. Undone(tasks[i]) = [seats[s] EXCEPT !.chips = c]
    <3>1. \A k \in Nat : Max({0, k}) = k
      BY DEF Max
    <3>2. tasks[i].op = "add" => Max({0, seats[s].chips - n}) = c
      BY <2>2, <3>1
    <3>3. CASE tasks[i].op = "add"
      BY <1>7, <3>2, <3>3 DEF Undone
    <3>4. CASE tasks[i].op # "add"
      BY <1>7, <3>4 DEF Undone
    <3> QED
      BY <3>3, <3>4
  <2>4. seats'[s] = [seats[s] EXCEPT !.chips = c] /\ \A r \in Seats : r # s => seats'[r] = seats[r]
    BY <1>2, <1>7, <2>1, <2>3, Parts DEF Undo
  <2>5. Carried(tasks[i]) = -d
    BY <1>1, <1>2, <1>7 DEF Carried, GivenOK
  <2> HIDE DEF c, d
  <2>6. /\ Its(v, seats[s].user, Held(seats[s])) /\ Its(v, seats'[s].user, Held(seats'[s]))
        /\ Held(seats'[s]) = Held(seats[s]) + (-d)
    <3>1. seats'[s].user = seats[s].user /\ Held(seats'[s]) = Held(seats[s]) + c - seats[s].chips
      <4> DEFINE r == seats[s]
      <4>1. r \in Record /\ c \in Nat /\ seats'[s] = [r EXCEPT !.chips = c]
        BY <2>1, <2>2, <2>4
      <4> HIDE DEF r
      <4>2. seats'[s].user = r.user /\ Held(seats'[s]) = Held(r) + c - r.chips
        BY <4>1 DEF Held, Record
      <4> QED
        BY <4>2 DEF r
    <3> QED
      BY <1>7, <2>1, <2>2, <3>1 DEF Its
  <2>7. Carried(tasks'[i]) = Carried(tasks[i]) + d /\ 0 + (-d) + 0 + d = 0 /\ tasks[i].user = v
    BY <1>3, <2>2, <2>5
  <2>8. HandlerMoves(i, v, s, 0, -d, 0, d)
    <3> HIDE DEF v, s, n
    <3> QED
      BY <1>1, <1>2, <1>3, <2>2, <2>4, <2>6, <2>7 DEF HandlerMoves
  <2> QED
    BY <2>8, HandlerKept
<1> QED
  BY <1>5, <1>6, <1>7

\* The rebuy's chips, and the refund when nobody sits there (add_chips_vault.lua).
LEMMA VaultKept ==
    ASSUME MoneyInv, MoneyInv', HoldsOK, NEW i \in 1..MaxTasks, Vault(i)
    PROVE  HoldsOK' /\ (Excused \/ \A u \in Users : Kept(u))
<1> DEFINE v == tasks[i].user  s == tasks[i].seat  n == tasks[i].amount
<1>1. /\ wallet' = wallet /\ rows' = rows /\ jobs' = jobs /\ closing' = closing
      /\ tasks[i].at = "vault"
  BY DEF Vault, bank, desk
<1>2. /\ v \in Users /\ s \in Seats /\ n \in Nat /\ -n \in Int /\ 0 \in Int /\ GivenOK(tasks[i])
      /\ tasks[i] \in TaskType /\ tasks[i].op = "rebuy"
      /\ seats[s] \in SeatRecord /\ Nobody \notin Users
  BY <1>1, HandlerAt DEF TaskOK
<1>3. Carried(tasks[i]) = n /\ ~tasks[i].given
  BY <1>1, <1>2 DEF Carried, GivenOK
<1>4. CASE seats[s] = Empty /\ Go(i, "refund") /\ seats' = seats
  <2>1. /\ \A k \in 1..MaxTasks : k # i => tasks'[k] = tasks[k]
        /\ tasks'[i].at = "refund" /\ tasks'[i].op = "rebuy" /\ tasks'[i].user = v
        /\ ~tasks'[i].given /\ tasks'[i].amount = n
    BY <1>2, <1>3, <1>4, HandlerGoesOn
  <2>2. /\ GivenOK(tasks'[i]) /\ Carried(tasks'[i]) = Carried(tasks[i]) + 0
        /\ Its(v, tasks'[i].user, Carried(tasks'[i]))
        /\ tasks[i].user = v /\ 0 + 0 + 0 + 0 = 0
    BY <1>2, <1>3, <2>1 DEF GivenOK, Carried, Its
  <2>3. HandlerMoves(i, v, s, 0, 0, 0, 0)
    <3> HIDE DEF v, s, n
    <3> QED
      BY <1>1, <1>2, <1>4, <2>1, <2>2 DEF HandlerMoves
  <2> QED
    BY <2>3, HandlerKept
<1>5. CASE /\ seats[s] # Empty /\ End(i)
           /\ seats' = IF seats[s].bet > 0 THEN [seats EXCEPT ![s].later = @ + n]
                                           ELSE [seats EXCEPT ![s].chips = @ + n]
  <2>1. /\ \A k \in 1..MaxTasks : k # i => tasks'[k] = tasks[k]
        /\ GivenOK(tasks'[i]) /\ Carried(tasks'[i]) = 0 /\ Its(v, tasks'[i].user, Carried(tasks'[i]))
        /\ tasks'[i].at = "idle"
    BY <1>5, HandlerEnds
  <2>2. CASE seats[s].user # v
    <3>1. Slip(i)
      BY <1>1, <1>5, <2>1, <2>2 DEF Slip
    <3> QED
      BY <1>1, <2>1, <3>1, HoldsMoved DEF Excused
  <2>3. CASE seats[s].user = v
    <3>1. seats[s] \in Record /\ seats[s].chips \in Nat /\ seats[s].later \in Nat
          /\ Held(seats[s]) \in Int
      BY <1>2, <1>5, SeatFields DEF Held
    <3>2. /\ \/ seats'[s] = [seats[s] EXCEPT !.later = seats[s].later + n]
             \/ seats'[s] = [seats[s] EXCEPT !.chips = seats[s].chips + n]
          /\ \A r \in Seats : r # s => seats'[r] = seats[r]
      BY <1>2, <1>5, Parts
    <3>3. seats'[s].user = seats[s].user /\ Held(seats'[s]) = Held(seats[s]) + n
      <4> DEFINE r == seats[s]
      <4>1. /\ r \in Record /\ n \in Nat
            /\ \/ seats'[s] = [r EXCEPT !.later = r.later + n]
               \/ seats'[s] = [r EXCEPT !.chips = r.chips + n]
        BY <1>2, <3>1, <3>2
      <4> HIDE DEF r, n
      <4>2. seats'[s].user = r.user /\ Held(seats'[s]) = Held(r) + n
        BY <4>1 DEF Held, Record
      <4> QED
        BY <4>2 DEF r
    <3>4. /\ Its(v, seats[s].user, Held(seats[s])) /\ Its(v, seats'[s].user, Held(seats'[s]))
      BY <2>3, <3>3 DEF Its
    <3>5. Carried(tasks'[i]) = Carried(tasks[i]) + (-n) /\ tasks[i].user = v /\ 0 + n + 0 + (-n) = 0
      BY <1>2, <1>3, <2>1
    <3>6. HandlerMoves(i, v, s, 0, n, 0, -n)
      <4> HIDE DEF v, s, n
      <4> QED
        BY <1>1, <1>2, <2>1, <3>2, <3>3, <3>4, <3>5 DEF HandlerMoves
    <3> QED
      BY <3>6, HandlerKept
  <2> QED
    BY <2>2, <2>3
<1> QED
  BY <1>4, <1>5 DEF Vault

\* The refund of a rebuy that came too late.
LEMMA RefundKept ==
    ASSUME MoneyInv, MoneyInv', HoldsOK, NEW i \in 1..MaxTasks, Refund(i)
    PROVE  HoldsOK' /\ \A u \in Users : Kept(u)
<1> DEFINE v == tasks[i].user  s == tasks[i].seat  n == tasks[i].amount
           row == Row(v, "cash_out", n, "completed", 0)
<1>1. /\ seats' = seats /\ jobs' = jobs /\ closing' = closing /\ tasks[i].at = "refund"
      /\ Credit(v, n) /\ NewRow(row) /\ (End(i) \/ Go(i, "undo"))
  BY DEF Refund, CashOut, ring, desk
<1>2. /\ v \in Users /\ s \in Seats /\ n \in Nat /\ n \in Int /\ -n \in Int /\ 0 \in Int
      /\ GivenOK(tasks[i]) /\ tasks[i] \in TaskType /\ tasks[i].op = "rebuy"
  BY <1>1, HandlerAt DEF TaskOK
<1>3. Carried(tasks[i]) = n /\ ~tasks[i].given
  BY <1>1, <1>2 DEF Carried, GivenOK
<1>4. row \in RowType /\ Paid(row) = 0
  <2>1. row \in RowType
    BY <1>2, MadeOf DEF Kinds
  <2>2. Paid(row) = 0
    BY DEF Paid, Row
  <2> QED
    BY <2>1, <2>2
<1>5. /\ \A k \in 1..MaxTasks : k # i => tasks'[k] = tasks[k]
      /\ GivenOK(tasks'[i]) /\ Carried(tasks'[i]) = 0 /\ Its(v, tasks'[i].user, Carried(tasks'[i]))
  <2>1. CASE End(i)
    BY <2>1, HandlerEnds
  <2>2. CASE Go(i, "undo")
    <3>1. /\ \A k \in 1..MaxTasks : k # i => tasks'[k] = tasks[k]
          /\ tasks'[i].at = "undo" /\ tasks'[i].op = "rebuy" /\ ~tasks'[i].given
      BY <1>2, <1>3, <2>2, HandlerGoesOn
    <3> QED
      BY <3>1 DEF GivenOK, Carried, Its
  <2> QED
    BY <1>1, <2>1, <2>2
<1>6. Carried(tasks'[i]) = Carried(tasks[i]) + (-n) /\ tasks[i].user = v /\ n + 0 + 0 + (-n) = 0
  BY <1>2, <1>3, <1>5
<1>7. HandlerMoves(i, v, s, n, 0, 0, -n)
  <2> HIDE DEF v, s, n, row
  <2> QED
    BY <1>1, <1>2, <1>4, <1>5, <1>6 DEF HandlerMoves
<1> QED
  BY <1>7, HandlerKept

\* The reaper stands a player up.
LEMMA KickKept ==
    ASSUME MoneyInv, MoneyInv', HoldsOK, NEW i \in 1..MaxTasks, Kick(i)
    PROVE  HoldsOK' /\ (Excused \/ \A u \in Users : Kept(u))
<1> DEFINE v == tasks[i].user  s == tasks[i].seat  n == tasks[i].amount
<1>1. /\ wallet' = wallet /\ rows' = rows /\ jobs' = jobs /\ closing' = closing
      /\ tasks[i].at = "kick"
  BY DEF Kick, bank, desk
<1>2. /\ v \in Users /\ s \in Seats /\ n \in Nat /\ -n \in Int /\ 0 \in Int /\ GivenOK(tasks[i])
      /\ tasks[i] \in TaskType
  BY <1>1, HandlerAt
<1>3. Carried(tasks[i]) = 0
  BY <1>1 DEF Carried
<1>4. CASE seats[s].user # v /\ End(i)
  <2>1. /\ \A k \in 1..MaxTasks : k # i => tasks'[k] = tasks[k]
        /\ GivenOK(tasks'[i]) /\ tasks'[i].at = "idle"
    BY <1>4, HandlerEnds
  <2>2. Slip(i)
    BY <1>1, <1>4, <2>1, HeldOf DEF Slip
  <2> QED
    BY <1>1, <2>1, <2>2, HoldsMoved DEF Excused
<1>5. CASE seats[s].user = v /\ LeaveScript(s) /\ Go(i, "enqueue")
  <2>1. /\ \A k \in 1..MaxTasks : k # i => tasks'[k] = tasks[k]
        /\ tasks'[i].at = "enqueue" /\ tasks'[i].op = tasks[i].op /\ tasks'[i].user = v
        /\ tasks'[i].given = tasks[i].given /\ tasks'[i].amount = n
    BY <1>5, HandlerGoesOn
  <2>2. GivenOK(tasks'[i]) /\ Carried(tasks'[i]) = n /\ Its(v, tasks'[i].user, Carried(tasks'[i]))
    BY <1>2, <2>1 DEF GivenOK, Carried, Its
  <2>3. CASE seats[s] # Stack(v, n)
    <3>1. Slip(i)
      BY <1>1, <2>1, <2>3 DEF Slip
    <3> QED
      BY <1>1, <2>1, <2>2, <3>1, HoldsMoved DEF Excused
  <2>4. CASE seats[s] = Stack(v, n)
    <3>1. seats'[s] = Empty /\ \A r \in Seats : r # s => seats'[r] = seats[r]
      BY <1>2, <1>5, Parts DEF LeaveScript
    <3>2. /\ Its(v, seats[s].user, Held(seats[s])) /\ Its(v, seats'[s].user, Held(seats'[s]))
          /\ Held(seats'[s]) = Held(seats[s]) + (-n)
      BY <1>2, <2>4, <3>1, HeldOf DEF Its
    <3>3. Carried(tasks'[i]) = Carried(tasks[i]) + n /\ tasks[i].user = v /\ 0 + (-n) + 0 + n = 0
      BY <1>2, <1>3, <2>2
    <3>4. HandlerMoves(i, v, s, 0, -n, 0, n)
      <4> HIDE DEF v, s, n
      <4> QED
        BY <1>1, <1>2, <2>1, <2>2, <3>1, <3>2, <3>3 DEF HandlerMoves
    <3> QED
      BY <3>4, HandlerKept
  <2> QED
    BY <2>3, <2>4
<1> QED
  BY <1>4, <1>5 DEF Kick

\* The job for the worker.
LEMMA EnqueueKept ==
    ASSUME MoneyInv, MoneyInv', HoldsOK, NEW i \in 1..MaxTasks, Enqueue(i)
    PROVE  HoldsOK' /\ \A u \in Users : Kept(u)
<1> DEFINE v == tasks[i].user  s == tasks[i].seat  n == tasks[i].amount
<1>1. /\ wallet' = wallet /\ rows' = rows /\ seats' = seats /\ closing' = closing
      /\ tasks[i].at = "enqueue" /\ End(i)
      /\ jobs' = IF n > 0 THEN Append(jobs, Job(v, n)) ELSE jobs
  BY DEF Enqueue, Owed, bank, ring, desk
<1>2. /\ v \in Users /\ s \in Seats /\ n \in Nat /\ n \in Int /\ -n \in Int /\ 0 \in Int
      /\ tasks[i] \in TaskType
  BY <1>1, HandlerAt
<1>3. Carried(tasks[i]) = n
  BY <1>1 DEF Carried
<1>4. /\ \A k \in 1..MaxTasks : k # i => tasks'[k] = tasks[k]
      /\ GivenOK(tasks'[i]) /\ Carried(tasks'[i]) = 0 /\ Its(v, tasks'[i].user, Carried(tasks'[i]))
  BY <1>1, HandlerEnds
<1>5. Carried(tasks'[i]) = Carried(tasks[i]) + (-n) /\ tasks[i].user = v /\ 0 + 0 + n + (-n) = 0
      /\ ((jobs' = jobs /\ n = 0) \/ (n \in Nat /\ jobs' = Append(jobs, Job(v, n))))
  BY <1>1, <1>2, <1>3, <1>4
<1>6. wallet' = wallet /\ rows' = rows /\ seats' = seats /\ closing' = closing
  BY <1>1
<1>7. HandlerMoves(i, v, s, 0, 0, n, -n)
  <2> HIDE DEF v, s, n
  <2> QED
    BY <1>2, <1>4, <1>5, <1>6 DEF HandlerMoves
<1> QED
  BY <1>7, HandlerKept

\* A deposit or a withdrawal is processed.
LEMMA ProcessKept ==
    ASSUME MoneyInv, MoneyInv', HoldsOK, NEW i \in 1..MaxTasks, Process(i)
    PROVE  HoldsOK' /\ (Excused \/ \A u \in Users : Kept(u))
<1>1. /\ seats' = seats /\ jobs' = jobs /\ closing' = closing /\ End(i) /\ tasks[i].at = "process"
  BY DEF Process, ring, desk
<1>2. HoldsOK'
  BY <1>1, HoldsOn
<1>3. PICK r \in DOMAIN rows, row \in RowType, k \in Int : Processes(i, r, row, k)
  BY ProcessBooks
<1>4. /\ rows' = [rows EXCEPT ![r] = row] /\ wallet' = [wallet EXCEPT ![rows[r].user] = @ + k]
      /\ row.kind = rows[r].kind /\ row.user = rows[r].user /\ rows[r].kind \in {"deposit", "withdraw"}
      /\ k = Entry(row) - Entry(rows[r]) \/ Slip(i)
  BY <1>3, Zenon DEF Processes
<1>5. CASE Slip(i)
  BY <1>2, <1>5 DEF Excused
<1>6. CASE k = Entry(row) - Entry(rows[r])
  <2> DEFINE v == rows[r].user
  <2>1. k = Paid(row) - Paid(rows[r])
    BY <1>4, <1>6 DEF Entry
  <2>2. /\ rows \in Seq(RowType) /\ rows' \in Seq(RowType) /\ DOMAIN rows' = DOMAIN rows
        /\ rows'[r] = row /\ \A q \in DOMAIN rows : q # r => rows'[q] = rows[q]
        /\ rows[r] \in RowType
    BY <1>4, Parts
  <2>3. Credit(v, k)
    BY <1>4 DEF Credit
  <2>4. ASSUME NEW u \in Users PROVE Kept(u)
    <3>1. /\ PaidIn(u)' = SeqSum(Payments(u), rows') /\ PaidIn(u) = SeqSum(Payments(u), rows)
          /\ \A q \in RowType : Payments(u)[q] \in Int /\ Paid(q) \in Int
          /\ \A q \in RowType : Payments(u)[q] = Share(u, q.user, Paid(q))
      BY <2>2, PaymentSum DEF PaidIn
    <3>2. SeqSum(Payments(u), rows') = SeqSum(Payments(u), rows) + Payments(u)[rows'[r]] - Payments(u)[rows[r]]
      BY <2>2, <3>1, SeqSumChange
    <3>3. Share(u, v, Paid(row)) - Share(u, v, Paid(rows[r])) = Share(u, v, k) /\ Share(u, v, k) \in Int
          /\ Share(u, v, Paid(row)) \in Int /\ Share(u, v, Paid(rows[r])) \in Int
      <4>1. Paid(row) \in Int /\ Paid(rows[r]) \in Int
        BY <2>2, <3>1
      <4> QED
        BY <2>1, <4>1 DEF Share
    <3>4. PaidIn(u)' = PaidIn(u) + Share(u, v, k)
      <4>1. Payments(u)[rows'[r]] = Share(u, v, Paid(row)) /\ Payments(u)[rows[r]] = Share(u, v, Paid(rows[r]))
        BY <1>4, <2>2, <3>1
      <4>2. PaidIn(u)' = PaidIn(u) + Share(u, v, Paid(row)) - Share(u, v, Paid(rows[r]))
        BY <3>1, <3>2, <4>1
      <4> QED
        BY <3>3, <4>2, WorthTypes
    <3>5. wallet'[u] = wallet[u] + Share(u, v, k)
      BY <2>3, WalletMoves
    <3>6. CarriedFor(u)' = CarriedFor(u) + 0
      <4>1. Carried(tasks[i]) = 0
        BY <1>1 DEF Carried
      <4>2. CarriedFor(u)' = CarriedFor(u) - Share(u, tasks[i].user, 0)
        BY <1>1, <4>1, EndMoves
      <4>3. Share(u, tasks[i].user, 0) = 0
        BY DEF Share
      <4> QED
        BY <4>2, <4>3, WorthTypes
    <3>7. AtTable(u)' = AtTable(u) + 0 /\ Queued(u)' = Queued(u) + 0 /\ Returned(u)' = Returned(u) + 0
      BY <1>1, Stays
    <3>8. /\ wallet[u] \in Int /\ AtTable(u) \in Int /\ Queued(u) \in Int
          /\ CarriedFor(u) \in Int /\ Returned(u) \in Int /\ PaidIn(u) \in Int
      BY WorthTypes
    <3> QED
      BY <3>3, <3>4, <3>5, <3>6, <3>7, <3>8 DEF Kept, Worth
  <2> QED
    BY <1>2, <2>4
<1> QED
  BY <1>4, <1>5, <1>6

\* A session is refunded by the healer or by an admin: it may have been paid out already.
LEMMA HealKept ==
    ASSUME MoneyInv, MoneyInv', HoldsOK, NEW i \in 1..MaxTasks, Heal(i)
    PROVE  HoldsOK' /\ Excused
<1>1. closing' = closing /\ tasks[i].at = "heal" /\ tasks[i] \in TaskType /\ GivenOK(tasks[i])
  BY Parts DEF Heal, desk, HoldsOK
<1>2. PICK r \in tasks[i].refs : IF tasks[i].refs = {r} THEN End(i)
                                 ELSE tasks' = [tasks EXCEPT ![i].refs = @ \ {r}]
  BY DEF Heal
<1>3. CASE End(i)
  <2>1. tasks'[i] # tasks[i] /\ HoldsOK'
    BY <1>1, <1>3, HandlerEnds, HoldsOn
  <2> QED
    BY <1>1, <2>1 DEF Excused, Slip
<1>4. CASE tasks' = [tasks EXCEPT ![i].refs = @ \ {r}]
  <2> DEFINE t == [tasks[i] EXCEPT !.refs = tasks[i].refs \ {r}]
  <2>1. tasks'[i] = t /\ \A k \in 1..MaxTasks : k # i => tasks'[k] = tasks[k]
    BY <1>4, Parts
  <2>2. t.at = "heal" /\ t.op = tasks[i].op /\ t.given = tasks[i].given /\ t.refs # tasks[i].refs
    BY <1>1, <1>2 DEF TaskType
  <2> HIDE DEF t
  <2>3. tasks'[i] # tasks[i] /\ GivenOK(tasks'[i])
    BY <1>1, <2>1, <2>2 DEF GivenOK
  <2> QED
    BY <1>1, <2>1, <2>3, HoldsMoved DEF Excused, Slip
<1> QED
  BY <1>2, <1>3, <1>4

\* The worker.
LEMMA QueueKept ==
    ASSUME MoneyInv, MoneyInv', HoldsOK, Settle \/ SettleFails \/ Redeliver
    PROVE  HoldsOK' /\ (Excused \/ \A u \in Users : Kept(u))
<1>1. HoldsOK'
  BY DEF Settle, SettleFails, Redeliver, desk, HoldsOK, ClosingOK
<1>2. CASE SettleFails \/ Redeliver
  BY <1>1, <1>2 DEF Excused, Faults
<1>3. CASE Settle
  <2> DEFINE job == Head(jobs)  v == job.user  n == job.amount  row == Row(v, "cash_out", n, "completed", 0)
  <2>1. /\ jobs # <<>> /\ Credit(v, n) /\ NewRow(row) /\ jobs' = Tail(jobs)
        /\ seats' = seats /\ tasks' = tasks /\ closing' = closing
    BY <1>3 DEF Settle, CashOut, ring, desk
  <2>2. jobs \in Seq(JobType) /\ jobs' \in Seq(JobType) /\ job \in JobType
    BY <2>1, Parts
  <2>3. v \in Users /\ n \in Nat /\ n \in Int
    BY <2>2 DEF JobType
  <2>4. row \in RowType /\ Paid(row) = 0
    <3>1. row \in RowType
      BY <2>3, MadeOf DEF Kinds
    <3>2. Paid(row) = 0
      BY DEF Paid, Row
    <3> QED
      BY <3>1, <3>2
  <2> HIDE DEF row
  <2>5. ASSUME NEW u \in Users PROVE Kept(u)
    <3>1. Share(u, row.user, 0) = 0 /\ Share(u, v, n) \in Int
      BY <2>3 DEF Share
    <3>2. PaidIn(u)' = PaidIn(u) + 0
      BY <2>1, <2>4, <3>1, PaymentMoves
    <3>3. wallet'[u] = wallet[u] + Share(u, v, n)
      BY <2>1, <2>3, WalletMoves
    <3>4. Queued(u)' = Queued(u) - Share(u, v, n)
      <4>1. /\ Queued(u)' = SeqSum(Dues(u), jobs') /\ Queued(u) = SeqSum(Dues(u), jobs)
            /\ \A j \in JobType : Dues(u)[j] \in Int /\ Dues(u)[j] = Share(u, j.user, j.amount)
        BY <2>2, DueSum DEF Queued
      <4>2. SeqSum(Dues(u), Tail(jobs)) = SeqSum(Dues(u), jobs) - Dues(u)[Head(jobs)]
        BY <2>1, <2>2, <4>1, SeqSumTail
      <4> QED
        BY <2>1, <2>2, <4>1, <4>2
    <3>5. /\ AtTable(u)' = AtTable(u) + 0 /\ CarriedFor(u)' = CarriedFor(u) + 0
          /\ Returned(u)' = Returned(u) + 0
      BY <2>1, Stays
    <3>6. /\ wallet[u] \in Int /\ AtTable(u) \in Int /\ Queued(u) \in Int
          /\ CarriedFor(u) \in Int /\ Returned(u) \in Int /\ PaidIn(u) \in Int
      BY WorthTypes
    <3> HIDE DEF v, n
    <3> QED
      BY <3>1, <3>2, <3>3, <3>4, <3>5, <3>6 DEF Kept, Worth
  <2> QED
    BY <1>1, <2>5
<1> QED
  BY <1>2, <1>3

(***************************************************************************)
(* The administrator closes the table.                                     *)
(***************************************************************************)

\* Seats that have been found once each are finitely many.
LEMMA FoundOnce ==
    ASSUME NEW C \in SUBSET Found, \A c, d \in C : c.seat = d.seat => c = d
    PROVE  IsFiniteSet(C)
<1> DEFINE f == [c \in C |-> c.seat]
<1>1. \A c \in C : c.seat \in Seats
  BY DEF Found
<1>2. f \in [C -> Seats] /\ \A c, d \in C : f[c] = f[d] => c = d
  BY <1>1
<1>3. f \in Injection(C, Seats)
  BY <1>2 DEF Injection, IsInjective
<1> QED
  BY <1>3, PlacesAssumption, FS_Injection

\* One of the seats found is done with.
LEMMA ClosingMoves ==
    ASSUME MoneyInv, MoneyInv', HoldsOK, NEW c \in closing, ~c.refunded, NEW d \in Found,
           d.seat = c.seat, d.user = c.user, closing' = (closing \ {c}) \cup {d}
    PROVE  /\ ClosingOK'
           /\ \A u \in Users : /\ Share(u, c.user, Back(d)) \in Int
                               /\ Returned(u)' = Returned(u) + Share(u, c.user, Back(d))
<1> DEFINE C == closing \ {c}
<1>1. ClosingOK'
  BY DEF ClosingOK, HoldsOK
<1>2. /\ IsFiniteSet(closing) /\ closing \in SUBSET Found /\ d \notin C
      /\ IsFiniteSet(C) /\ closing' \in SUBSET Found
  <2>1. IsFiniteSet(closing) /\ closing \in SUBSET Found /\ closing' \in SUBSET Found
    BY ClosingFinite DEF MoneyInv, MoneyTypeOK
  <2>2. d \notin C
    BY DEF ClosingOK, HoldsOK
  <2> QED
    BY <2>1, <2>2, FS_RemoveElement
<1>3. ASSUME NEW u \in Users
      PROVE  /\ Share(u, c.user, Back(d)) \in Int
             /\ Returned(u)' = Returned(u) + Share(u, c.user, Back(d))
  <2> DEFINE f == [x \in closing |-> Share(u, x.user, Back(x))]
             g == [x \in closing' |-> Share(u, x.user, Back(x))]
  <2>1. \A x \in Found : Back(x) \in Int /\ Share(u, x.user, Back(x)) \in Int
    <3>1. \A x \in Found : Back(x) \in Int
      BY DEF Found, Back
    <3> QED
      BY <3>1, ShareOf
  <2>2. /\ \A x \in closing : f[x] \in Int
        /\ \A x \in C \cup {d} : g[x] \in Int
        /\ \A x \in C : f[x] = g[x]
        /\ f[c] = 0 /\ g[d] = Share(u, c.user, Back(d))
    <3>1. Share(u, c.user, 0) = 0 /\ Back(c) = 0
      BY DEF Share, Back
    <3> QED
      BY <1>2, <2>1, <3>1
  <2>3. Returned(u) = SumFunctionOnSet(f, closing) /\ Returned(u)' = SumFunctionOnSet(g, C \cup {d})
    BY DEF Returned, SumFunction, Back
  <2> HIDE DEF f, g, C
  <2>4. SumFunctionOnSet(f, closing) = f[c] + SumFunctionOnSet(f, closing \ {c})
    BY <1>2, <2>2, SumTake
  <2>5. SumFunctionOnSet(g, C \cup {d}) = SumFunctionOnSet(g, C) + g[d]
    BY <1>2, <2>2, SumAdd
  <2>6. SumFunctionOnSet(f, C) = SumFunctionOnSet(g, C)
    BY <1>2, <2>2, SumEqual
  <2>7. SumFunctionOnSet(f, C) \in Int
    <3>1. \A x \in C : f[x] \in Int
      BY <2>2 DEF C
    <3> QED
      BY <1>2, <3>1, SumType
  <2>8. Share(u, c.user, Back(d)) \in Int
    BY <2>1, ShareOf
  <2>9. SumFunctionOnSet(f, closing) = f[c] + SumFunctionOnSet(f, C)
    BY <2>4 DEF C
  <2>10. f[c] = 0 /\ g[d] = Share(u, c.user, Back(d))
    BY <2>2
  <2>11. Returned(u)' = SumFunctionOnSet(f, C) + Share(u, c.user, Back(d))
    BY <2>3, <2>5, <2>6, <2>10
  <2>12. Returned(u) = SumFunctionOnSet(f, C)
    BY <2>3, <2>7, <2>9, <2>10
  <2> QED
    BY <2>8, <2>11, <2>12
<1> QED
  BY <1>1, <1>3

\* The refunds, whether they succeed or not.
LEMMA CloseRefundKept ==
    ASSUME MoneyInv, MoneyInv', HoldsOK, NEW c \in closing, CloseRefund(c) \/ CloseRefundFails(c)
    PROVE  HoldsOK' /\ \A u \in Users : Kept(u)
<1>1. ~c.refunded /\ jobs' = jobs /\ tasks' = tasks /\ seats' = seats
  BY DEF CloseRefund, CloseRefundFails, ComesNext, ring
<1>2. c \in Found /\ c.user \in Users /\ c.chips \in Nat /\ c.chips \in Int
  <2>1. c \in Found
    BY Parts
  <2> QED
    BY <2>1 DEF Found
<1>3. PICK d \in Found, n \in {c.chips, 0} :
        /\ d.seat = c.seat /\ d.user = c.user /\ Back(d) = n
        /\ closing' = (closing \ {c}) \cup {d}
        /\ \/ Credit(c.user, n) /\ \E row \in RowType : NewRow(row) /\ Paid(row) = 0
           \/ wallet' = wallet /\ rows' = rows /\ n = 0
  <2>1. CASE CloseRefund(c)
    <3> DEFINE row == Row(c.user, "cash_out", c.chips, "pending", 0)
    <3>1. Credit(c.user, c.chips) /\ NewRow(row) /\ closing' = (closing \ {c}) \cup {Refunded(c)}
      BY <2>1 DEF CloseRefund
    <3>2. /\ Refunded(c) \in Found /\ Refunded(c).seat = c.seat /\ Refunded(c).user = c.user
          /\ Back(Refunded(c)) = c.chips
      BY <1>2 DEF Found, Refunded, Back
    <3>3. row \in RowType
      BY <1>2, MadeOf DEF Kinds
    <3>4. Paid(row) = 0
      BY DEF Paid, Row
    <3> HIDE DEF row
    <3> QED
      BY <3>1, <3>2, <3>3, <3>4
  <2>2. CASE CloseRefundFails(c)
    <3> DEFINE b == [c EXCEPT !.chips = 0]
    <3>1. /\ closing' = (closing \ {c}) \cup {Refunded(b)} /\ wallet' = wallet /\ rows' = rows
      BY <2>2 DEF CloseRefundFails, bank
    <3>2. b \in Found /\ b.seat = c.seat /\ b.user = c.user /\ b.chips = 0
      BY <1>2 DEF Found
    <3> HIDE DEF b
    <3>3. /\ Refunded(b) \in Found /\ Refunded(b).seat = c.seat /\ Refunded(b).user = c.user
          /\ Back(Refunded(b)) = 0
      BY <3>2 DEF Found, Refunded, Back
    <3> QED
      BY <3>1, <3>3
  <2> QED
    BY <2>1, <2>2
<1>4. n \in Int
  BY <1>2
<1>5. /\ ClosingOK'
      /\ \A u \in Users : /\ Share(u, c.user, n) \in Int
                          /\ Returned(u)' = Returned(u) + Share(u, c.user, n)
  <2>1. /\ d \in Found /\ d.seat = c.seat /\ d.user = c.user /\ Back(d) = n
        /\ closing' = (closing \ {c}) \cup {d}
    BY <1>3
  <2> QED
    BY <1>1, <2>1, ClosingMoves
<1>6. HoldsOK'
  BY <1>1, <1>5 DEF HoldsOK
<1>7. ASSUME NEW u \in Users PROVE Kept(u)
  <2>1. wallet'[u] = wallet[u] + Share(u, c.user, n) /\ PaidIn(u)' = PaidIn(u) + 0
    <3>1. CASE Credit(c.user, n) /\ \E row \in RowType : NewRow(row) /\ Paid(row) = 0
      <4>1. PICK row \in RowType : NewRow(row) /\ Paid(row) = 0
        BY <3>1
      <4>2. Share(u, row.user, 0) = 0
        BY DEF Share
      <4>3. PaidIn(u)' = PaidIn(u) + 0
        BY <4>1, <4>2, PaymentMoves
      <4> QED
        BY <1>4, <3>1, <4>3, WalletMoves
    <3>2. CASE wallet' = wallet /\ rows' = rows /\ n = 0
      <4>1. Share(u, c.user, 0) = 0
        BY DEF Share
      <4> QED
        BY <3>2, <4>1, Stays
    <3> QED
      BY <1>3, <3>1, <3>2
  <2>2. /\ AtTable(u)' = AtTable(u) + 0 /\ CarriedFor(u)' = CarriedFor(u) + 0
        /\ Queued(u)' = Queued(u) + 0
    BY <1>1, Stays
  <2>3. /\ wallet[u] \in Int /\ AtTable(u) \in Int /\ Queued(u) \in Int
        /\ CarriedFor(u) \in Int /\ Returned(u) \in Int /\ PaidIn(u) \in Int
    BY WorthTypes
  <2> QED
    BY <1>5, <2>1, <2>2, <2>3 DEF Kept, Worth
<1> QED
  BY <1>6, <1>7

\* The seats are emptied, and nothing is being closed any more.
LEMMA Cleared ==
    ASSUME seats' = [s \in Seats |-> Empty], closing' = {}, NEW u \in Users
    PROVE  AtTable(u)' = 0 /\ Returned(u)' = 0 /\ ClosingOK'
<1> DEFINE f == [s \in Seats |-> Share(u, seats'[s].user, Held(seats'[s]))]
           g == [c \in closing' |-> Share(u, c.user, Back(c))]
<1>1. \A s \in Seats : f[s] = 0
  <2>1. Share(u, Empty.user, 0) = 0 /\ Held(Empty) = 0
    BY HeldOf DEF Share
  <2> QED
    BY <2>1
<1>2. AtTable(u)' = SumFunctionOnSet(f, Seats) /\ Returned(u)' = SumFunctionOnSet(g, {})
  BY DEF AtTable, Returned, SumFunction, Back, Held
<1> HIDE DEF f, g
<1>3. SumFunctionOnSet(f, Seats) = 0
  BY <1>1, PlacesAssumption, SumZero
<1>4. SumFunctionOnSet(g, {}) = 0
  BY FS_EmptySet, SumDefined
<1> QED
  BY <1>2, <1>3, <1>4 DEF ClosingOK

\* The stacks are found: nothing is refunded before, nothing but nothing yet.
LEMMA CloseKept ==
    ASSUME MoneyInv, MoneyInv', HoldsOK, Close
    PROVE  HoldsOK' /\ \A u \in Users : Kept(u)
<1> DEFINE taken == {r \in Seats : seats[r] # Empty}
           found(s) == [seat |-> s, user |-> seats[s].user, chips |-> seats[s].chips,
                        refunded |-> seats[s].chips = 0]
<1>1. /\ wallet' = wallet /\ rows' = rows /\ seats' = seats /\ jobs' = jobs /\ tasks' = tasks
      /\ closing = {} /\ closing' = {found(s) : s \in taken}
  BY DEF Close, bank, ring
<1>2. \A s : Back(found(s)) = 0 /\ found(s).seat = s
  BY DEF Back
<1> HIDE DEF found
<1>3. \A c, d \in closing' : (c.seat = d.seat => c = d) /\ Back(c) = 0
  BY <1>1, <1>2
<1>4. HoldsOK'
  <2>1. ClosingOK'
    BY <1>3 DEF ClosingOK
  <2> QED
    BY <1>1, <2>1 DEF HoldsOK
<1>5. ASSUME NEW u \in Users PROVE Kept(u)
  <2> DEFINE f == [c \in closing' |-> Share(u, c.user, Back(c))]
             g == [c \in closing |-> Share(u, c.user, Back(c))]
  <2>1. \A c \in closing' : f[c] = 0
    <3>1. \A v : Share(u, v, 0) = 0
      BY DEF Share
    <3> QED
      BY <1>3, <3>1
  <2>2. IsFiniteSet(closing')
    <3>1. closing' \in SUBSET Found
      BY DEF MoneyInv, MoneyTypeOK
    <3> QED
      BY <1>3, <3>1, FoundOnce
  <2>3. Returned(u)' = SumFunctionOnSet(f, closing') /\ Returned(u) = SumFunctionOnSet(g, {})
    BY <1>1 DEF Returned, SumFunction, Back
  <2> HIDE DEF f, g
  <2>4. SumFunctionOnSet(f, closing') = 0
    BY <2>1, <2>2, SumZero
  <2>5. SumFunctionOnSet(g, {}) = 0
    BY FS_EmptySet, SumDefined
  <2>6. Returned(u)' = 0 /\ Returned(u) = 0
    BY <2>3, <2>4, <2>5
  <2>7. /\ wallet'[u] = wallet[u] + 0 /\ PaidIn(u)' = PaidIn(u) + 0 /\ AtTable(u)' = AtTable(u) + 0
        /\ CarriedFor(u)' = CarriedFor(u) + 0 /\ Queued(u)' = Queued(u) + 0
    BY <1>1, Stays
  <2>8. /\ wallet[u] \in Int /\ AtTable(u) \in Int /\ Queued(u) \in Int
        /\ CarriedFor(u) \in Int /\ PaidIn(u) \in Int
    BY WorthTypes
  <2> QED
    BY <2>6, <2>7, <2>8 DEF Kept, Worth
<1> QED
  BY <1>4, <1>5

\* The table's keys are deleted: the seats hold what has been refunded, and no more.
LEMMA DeleteKept ==
    ASSUME MoneyInv, MoneyInv', HoldsOK, CloseDelete
    PROVE  HoldsOK' /\ (Excused \/ \A u \in Users : Kept(u))
<1> DEFINE taken == {r \in Seats : seats[r] # Empty}
<1>1. /\ wallet' = wallet /\ rows' = rows /\ jobs' = jobs /\ tasks' = tasks
      /\ seats' = [s \in Seats |-> Empty] /\ closing' = {} /\ \A c \in closing : c.refunded
  BY DEF CloseDelete, bank
<1>2. HoldsOK'
  BY <1>1 DEF HoldsOK, ClosingOK
<1>3. CASE LossyClose
  BY <1>2, <1>3 DEF Excused, Faults
<1>4. CASE ~LossyClose
  <2>1. {<<s, seats[s]>> : s \in taken} = {<<c.seat, Stack(c.user, c.chips)>> : c \in closing}
    BY <1>4 DEF LossyClose
  <2>2. ASSUME NEW c \in closing
        PROVE  c.seat \in taken /\ seats[c.seat] = Stack(c.user, c.chips)
    <3> HIDE DEF taken
    <3>1. <<c.seat, Stack(c.user, c.chips)>> \in {<<s, seats[s]>> : s \in taken}
      BY <2>1
    <3>2. PICK s \in taken : <<c.seat, Stack(c.user, c.chips)>> = <<s, seats[s]>>
      BY <3>1
    <3> QED
      BY <3>2
  <2>3. ASSUME NEW s \in taken PROVE \E c \in closing : c.seat = s
    <3> HIDE DEF taken
    <3>1. <<s, seats[s]>> \in {<<c.seat, Stack(c.user, c.chips)>> : c \in closing}
      BY <2>1
    <3>2. PICK c \in closing : <<s, seats[s]>> = <<c.seat, Stack(c.user, c.chips)>>
      BY <3>1
    <3> QED
      BY <3>2
  <2>4. IsFiniteSet(closing) /\ closing \in SUBSET Found
    BY ClosingFinite, Parts
  <2>5. ASSUME NEW u \in Users PROVE Kept(u)
    <3> DEFINE f == [c \in closing |-> Share(u, c.user, Back(c))]
               g == [s \in Seats |-> Share(u, seats[s].user, Held(seats[s]))]
               h == [c \in closing |-> c.seat]
    <3>1. \A c \in closing : /\ h[c] \in taken /\ f[c] \in Int /\ g[h[c]] = f[c]
      <4> SUFFICES ASSUME NEW c \in closing
                   PROVE  h[c] \in taken /\ f[c] \in Int /\ g[h[c]] = f[c]
        OBVIOUS
      <4>1. Back(c) = c.chips /\ c.chips \in Int /\ h[c] = c.seat /\ f[c] = Share(u, c.user, c.chips)
        BY <1>1, <2>4 DEF Back, Found
      <4>2. seats[c.seat].user = c.user /\ Held(seats[c.seat]) = c.chips /\ c.seat \in taken
        BY <2>2, <4>1, HeldOf
      <4>3. g[c.seat] = Share(u, c.user, c.chips)
        BY <4>2
      <4> QED
        BY <4>1, <4>2, <4>3, ShareOf
    <3>2. \A x, y \in closing : h[x] = h[y] => x = y
      BY DEF HoldsOK, ClosingOK
    <3>3. \A s \in taken : \E c \in closing : s = h[c]
      BY <2>3
    <3>4. \A s \in Seats : g[s] \in Int
      BY WorthTypes
    <3>5. \A s \in Seats \ taken : g[s] = 0
      <4>1. Share(u, Empty.user, 0) = 0 /\ Held(Empty) = 0
        BY HeldOf DEF Share
      <4> QED
        BY <4>1
    <3>6. taken \in SUBSET Seats
      OBVIOUS
    <3>7. AtTable(u) = SumFunctionOnSet(g, Seats) /\ Returned(u) = SumFunctionOnSet(f, closing)
      BY DEF AtTable, Returned, SumFunction, Back, Held
    <3> HIDE DEF f, g, h, taken
    <3>8. SumFunctionOnSet(g, taken) = SumFunctionOnSet(f, closing)
      BY <2>4, <3>1, <3>2, <3>3, SumRename
    <3>9. SumFunctionOnSet(g, Seats) = SumFunctionOnSet(g, taken)
      BY <3>4, <3>5, <3>6, PlacesAssumption, SumRestrict
    <3>10. AtTable(u) = Returned(u)
      BY <3>7, <3>8, <3>9
    <3>11. AtTable(u)' = 0 /\ Returned(u)' = 0
      BY <1>1, Cleared
    <3>12. /\ wallet'[u] = wallet[u] + 0 /\ PaidIn(u)' = PaidIn(u) + 0
           /\ CarriedFor(u)' = CarriedFor(u) + 0 /\ Queued(u)' = Queued(u) + 0
      BY <1>1, Stays
    <3>13. /\ wallet[u] \in Int /\ AtTable(u) \in Int /\ Queued(u) \in Int
           /\ CarriedFor(u) \in Int /\ PaidIn(u) \in Int
      BY WorthTypes
    <3> QED
      BY <3>10, <3>11, <3>12, <3>13 DEF Kept, Worth
  <2> QED
    BY <1>2, <2>5
<1> QED
  BY <1>3, <1>4

(***************************************************************************)
(* The table, and a restart.                                               *)
(***************************************************************************)

\* Chips go into the pot: they are still the player's.
LEMMA BetKept ==
    ASSUME MoneyInv, MoneyInv', HoldsOK, NEW s \in Seats, Bet(s)
    PROVE  HoldsOK' /\ \A u \in Users : Kept(u)
<1>1. /\ wallet' = wallet /\ rows' = rows /\ jobs' = jobs /\ tasks' = tasks /\ closing' = closing
      /\ seats[s].chips > 0
      /\ seats' = [seats EXCEPT ![s].chips = @ - 1, ![s].bet = @ + 1]
  BY DEF Bet, bank, desk
<1>2. HoldsOK'
  BY <1>1 DEF HoldsOK, ClosingOK
<1> DEFINE r == seats[s]  a == [[r EXCEPT !.chips = r.chips - 1] EXCEPT !.bet = r.bet + 1]
<1>3. seats'[s] = a /\ \A q \in Seats : q # s => seats'[q] = seats[q]
  BY <1>1, Parts
<1>4. r \in Record
  BY <1>1, Parts, SeatFields
<1> HIDE DEF r
<1>5. a.user = r.user /\ Held(a) = Held(r)
  BY <1>4 DEF Record, Held
<1> HIDE DEF a
<1>6. ASSUME NEW u \in Users PROVE Kept(u)
  <2>1. AtTable(u)' = AtTable(u) + Share(u, seats'[s].user, Held(seats'[s]))
                                 - Share(u, seats[s].user, Held(seats[s]))
        /\ Share(u, seats'[s].user, Held(seats'[s])) \in Int
    BY <1>3, SeatMoves
  <2>2. Share(u, seats'[s].user, Held(seats'[s])) = Share(u, seats[s].user, Held(seats[s]))
    BY <1>3, <1>5 DEF r
  <2>3. /\ wallet'[u] = wallet[u] + 0 /\ PaidIn(u)' = PaidIn(u) + 0 /\ Returned(u)' = Returned(u) + 0
        /\ CarriedFor(u)' = CarriedFor(u) + 0 /\ Queued(u)' = Queued(u) + 0
    BY <1>1, Stays
  <2>4. /\ wallet[u] \in Int /\ AtTable(u) \in Int /\ Queued(u) \in Int
        /\ CarriedFor(u) \in Int /\ Returned(u) \in Int /\ PaidIn(u) \in Int
    BY WorthTypes
  <2> QED
    BY <2>1, <2>2, <2>3, <2>4 DEF Kept, Worth
<1> QED
  BY <1>2, <1>6

\* A finite set in a sequence: each of its elements once.
LEMMA SequenceOfOnce ==
    ASSUME NEW S, IsFiniteSet(S)
    PROVE  LET order == SetToSeq(S)  n == Cardinality(S)
           IN  /\ n \in Nat /\ IsFiniteSet(1..n) /\ order \in [1..n -> S] /\ DOMAIN order = 1..n
               /\ \A k, l \in 1..n : order[k] = order[l] => k = l
               /\ \A x \in S : \E k \in 1..n : x = order[k]
<1> DEFINE order == SetToSeq(S)  n == Cardinality(S)
<1>1. PICK f : f \in Bijection(1..n, S)
  BY FS_CardinalityType DEF ExistsBijection
<1>2. f \in [1..n -> S] /\ IsInjective(f)
  BY <1>1 DEF Bijection, Injection
<1>3. order \in [1..n -> S] /\ IsInjective(order)
  BY <1>2 DEF SetToSeq
<1>4. n \in Nat /\ IsFiniteSet(1..n) /\ Cardinality(1..n) = n
  BY FS_CardinalityType, FS_Interval
<1> HIDE DEF order, n
<1>5. order \in Injection(1..n, S)
  BY <1>3 DEF Injection
<1>6. order \in Surjection(1..n, S)
  BY <1>4, <1>5, FS_Injection DEF n
<1>7. \A x \in S : \E k \in 1..n : x = order[k]
  BY <1>6 DEF Surjection
<1> QED
  BY <1>3, <1>4, <1>7 DEF IsInjective, order, n

\* What the boot janitor queues for a set of seats is what they hold.
LEMMA RefundsQueued ==
    ASSUME MoneyInv, NEW S \in SUBSET Seats, \A s \in S : Refundable(s) > 0, NEW u \in Users
    PROVE  LET g == [s \in Seats |-> Share(u, seats[s].user, Refundable(s))]
           IN  /\ RefundJobs(S) \in Seq(JobType) /\ Len(RefundJobs(S)) = Cardinality(S)
               /\ SeqSum(Dues(u), RefundJobs(S)) = SumFunctionOnSet(g, S)
<1> DEFINE g == [s \in Seats |-> Share(u, seats[s].user, Refundable(s))]
           order == SetToSeq(S)  n == Cardinality(S)
           f == [k \in 1..n |-> Dues(u)[Job(seats[order[k]].user, Refundable(order[k]))]]
<1>1. IsFiniteSet(S)
  BY PlacesAssumption, FS_Subset
<1>2. /\ n \in Nat /\ IsFiniteSet(1..n) /\ order \in [1..n -> S] /\ DOMAIN order = 1..n
      /\ \A k, l \in 1..n : order[k] = order[l] => k = l
      /\ \A x \in S : \E k \in 1..n : x = order[k]
  BY <1>1, SequenceOfOnce
<1>3. ASSUME NEW s \in S
      PROVE  /\ Job(seats[s].user, Refundable(s)) \in JobType
             /\ g[s] = Dues(u)[Job(seats[s].user, Refundable(s))] /\ g[s] \in Int
  <2>1. seats[s] \in SeatRecord /\ Refundable(s) > 0
    BY Parts
  <2>2. seats[s] # Empty /\ seats[s].chips \in Nat /\ seats[s].bet \in Nat
    BY <2>1, SeatFields DEF Refundable
  <2>3. seats[s].user \in Users /\ Refundable(s) \in Nat
    BY <2>1, <2>2, SeatFields, MadeOf DEF Refundable
  <2>4. Job(seats[s].user, Refundable(s)) \in JobType
    BY <2>3, MadeOf
  <2>5. Share(u, seats[s].user, Refundable(s)) \in Int
    BY <2>3, ShareOf
  <2> QED
    BY <2>4, <2>5 DEF Dues, Job
<1>4. RefundJobs(S) = [k \in 1..n |-> Job(seats[order[k]].user, Refundable(order[k]))]
  BY <1>2 DEF RefundJobs
<1> HIDE DEF order, n
<1>5. RefundJobs(S) \in [1..n -> JobType]
  <2>1. \A k \in 1..n : Job(seats[order[k]].user, Refundable(order[k])) \in JobType
    BY <1>2, <1>3
  <2> QED
    BY <1>4, <2>1
<1>6. RefundJobs(S) \in Seq(JobType) /\ Len(RefundJobs(S)) = n /\ DOMAIN RefundJobs(S) = 1..n
  BY <1>2, <1>5
<1>7. SeqSum(Dues(u), RefundJobs(S)) = SumFunctionOnSet(f, 1..n)
  <2>1. [k \in DOMAIN RefundJobs(S) |-> Dues(u)[RefundJobs(S)[k]]] = f
    BY <1>4, <1>6
  <2> HIDE DEF f
  <2> QED
    BY <1>6, <2>1 DEF SeqSum
<1>8. \A k \in 1..n : order[k] \in S /\ f[k] \in Int /\ g[order[k]] = f[k]
  BY <1>2, <1>3
<1> HIDE DEF f, g
<1>9. SumFunctionOnSet(g, S) = SumFunctionOnSet(f, 1..n)
  <2> DEFINE K == 1..n
  <2>1. /\ IsFiniteSet(K) /\ \A k, l \in K : order[k] = order[l] => k = l
        /\ \A k \in K : order[k] \in S /\ f[k] \in Int /\ g[order[k]] = f[k]
        /\ \A x \in S : \E k \in K : x = order[k]
    BY <1>2, <1>8
  <2> HIDE DEF K
  <2>2. SumFunctionOnSet(g, S) = SumFunctionOnSet(f, K)
    BY ONLY <2>1, SumRename
  <2> QED
    BY <2>2 DEF K
<1> QED
  BY <1>6, <1>7, <1>9 DEF n, g

\* One queue after another.
LEMMA Longer ==
    ASSUME NEW T, NEW p \in Seq(T), NEW q \in Seq(T)
    PROVE  Len(p \o q) = Len(p) + Len(q)
  OBVIOUS

\* A restart between two hands that finds no handler on its way: the seats' stacks are queued.
LEMMA RestartKept ==
    ASSUME MoneyInv, MoneyInv', HoldsOK, Restart
    PROVE  HoldsOK' /\ (Excused \/ \A u \in Users : Kept(u))
<1> DEFINE due == {s \in Seats : Refundable(s) > 0}
<1>1. /\ wallet' = wallet /\ rows' = rows /\ seats' = [s \in Seats |-> Empty]
      /\ tasks' = [i \in 1..MaxTasks |-> NoTask] /\ closing' = {}
  BY DEF Restart, bank
<1>2. PICK kept \in SUBSET due : jobs' = jobs \o RefundJobs(kept)
  BY DEF Restart
<1>3. HoldsOK'
  <2>1. GivenOK(NoTask)
    <3>1. ~NoTask.given
      BY DEF NoTask, Task
    <3> QED
      BY <3>1, TaskMakes DEF GivenOK
  <2> QED
    BY <1>1, <2>1 DEF HoldsOK, ClosingOK
<1>4. CASE LossyRestart
  BY <1>3, <1>4 DEF Excused, Faults
<1>5. CASE ~LossyRestart
  <2>1. /\ \A c \in closing : ~c.refunded
        /\ \A i \in Busy : Carried(tasks[i]) = 0
        /\ \A s \in Seats : ~ seats[s].later > 0
        /\ ~ Len(jobs') - Len(jobs) < Cardinality(due)
    BY <1>5 DEF LossyRestart
  <2>2. ASSUME NEW u \in Users PROVE Kept(u)
    <3> DEFINE g == [s \in Seats |-> Share(u, seats[s].user, Refundable(s))]
    <3>1. /\ jobs \in Seq(JobType) /\ RefundJobs(kept) \in Seq(JobType)
          /\ Len(RefundJobs(kept)) = Cardinality(kept)
          /\ SeqSum(Dues(u), RefundJobs(kept)) = SumFunctionOnSet(g, kept)
      BY <1>2, RefundsQueued, Parts
    <3>2. IsFiniteSet(due) /\ kept = due
      <4>1. IsFiniteSet(due)
        BY PlacesAssumption, FS_Subset
      <4>2. Cardinality(kept) \in Nat /\ Cardinality(due) \in Nat /\ Cardinality(kept) <= Cardinality(due)
            /\ (Cardinality(due) = Cardinality(kept) => due = kept) /\ IsFiniteSet(kept)
        BY <1>2, <4>1, FS_Subset, FS_CardinalityType
      <4>3. Len(jobs') = Len(jobs) + Cardinality(kept)
        <5> DEFINE R == RefundJobs(kept)
        <5>1. jobs \in Seq(JobType) /\ R \in Seq(JobType) /\ Len(R) = Cardinality(kept)
              /\ jobs' = jobs \o R
          BY <1>2, <3>1
        <5> HIDE DEF R, due
        <5>2. Len(jobs') = Len(jobs) + Len(R)
          BY <5>1, Longer
        <5> QED
          BY <5>1, <5>2
      <4>4. Len(jobs) \in Nat
        BY <3>1
      <4>5. ~ Cardinality(kept) < Cardinality(due)
        BY <2>1, <4>2, <4>3, <4>4
      <4> HIDE DEF due
      <4> QED
        BY <4>1, <4>2, <4>5
    <3>3. /\ \A s \in Seats : g[s] \in Int /\ Refundable(s) = Held(seats[s])
          /\ \A s \in Seats \ due : g[s] = 0
      <4>1. ASSUME NEW s \in Seats
            PROVE  /\ Refundable(s) = Held(seats[s]) /\ Refundable(s) \in Nat
                   /\ g[s] \in Int /\ (s \notin due => g[s] = 0)
        <5>1. seats[s].chips \in Nat /\ seats[s].bet \in Nat /\ seats[s].later \in Nat
          BY Parts, SeatFields
        <5>2. Refundable(s) = Held(seats[s]) /\ Refundable(s) \in Nat
          BY <2>1, <5>1 DEF Refundable, Held
        <5> QED
          BY <5>2 DEF Share
      <4> QED
        BY <4>1
    <3>4. AtTable(u) = SumFunctionOnSet(g, Seats)
      <4> DEFINE h == [s \in Seats |-> Share(u, seats[s].user, Held(seats[s]))]
      <4>1. AtTable(u) = SumFunctionOnSet(h, Seats)
        BY DEF AtTable, SumFunction, Held
      <4>2. \A s \in Seats : h[s] = g[s]
        BY <3>3
      <4> HIDE DEF h, g
      <4> QED
        BY <4>1, <4>2, PlacesAssumption, SumEqual
    <3> HIDE DEF g
    <3>5. SumFunctionOnSet(g, Seats) = SumFunctionOnSet(g, due)
      <4>1. due \in SUBSET Seats
        OBVIOUS
      <4> HIDE DEF due
      <4> QED
        BY <3>3, <4>1, PlacesAssumption, SumRestrict
    <3>6. Queued(u)' = Queued(u) + AtTable(u)
      <4>1. jobs' \in Seq(JobType)
        BY <1>2, <3>1
      <4>2. /\ Queued(u)' = SeqSum(Dues(u), jobs') /\ Queued(u) = SeqSum(Dues(u), jobs)
            /\ \A job \in JobType : Dues(u)[job] \in Int
        BY <3>1, <4>1, DueSum DEF Queued
      <4>3. SeqSum(Dues(u), jobs \o RefundJobs(kept))
              = SeqSum(Dues(u), jobs) + SeqSum(Dues(u), RefundJobs(kept))
        BY <3>1, <4>2, SeqSumConcat
      <4>4. SumFunctionOnSet(g, kept) = SumFunctionOnSet(g, due)
        BY <3>2
      <4> QED
        BY <1>2, <3>1, <3>4, <3>5, <4>2, <4>3, <4>4
    <3>7. CarriedFor(u) = 0 /\ CarriedFor(u)' = 0
      <4> DEFINE b == [i \in 1..MaxTasks |-> Share(u, tasks[i].user, Carried(tasks[i]))]
                 c == [i \in 1..MaxTasks |-> Share(u, tasks'[i].user, Carried(tasks'[i]))]
      <4>1. Carried(NoTask) = 0 /\ \A v : Share(u, v, 0) = 0
        BY TaskMakes DEF Carried, Share
      <4>2. \A i \in 1..MaxTasks : Carried(tasks[i]) = 0 /\ Carried(tasks'[i]) = 0
        BY <1>1, <2>1, <4>1 DEF Busy
      <4>3. \A i \in 1..MaxTasks : b[i] = 0 /\ c[i] = 0
        BY <4>1, <4>2
      <4>4. CarriedFor(u) = SumFunctionOnSet(b, 1..MaxTasks)
            /\ CarriedFor(u)' = SumFunctionOnSet(c, 1..MaxTasks)
        BY DEF CarriedFor, SumFunction
      <4>5. IsFiniteSet(1..MaxTasks)
        BY PlacesAssumption, FS_Interval
      <4> HIDE DEF b, c
      <4> QED
        BY <4>3, <4>4, <4>5, SumZero
    <3>8. Returned(u) = 0
      <4> DEFINE r == [c \in closing |-> Share(u, c.user, Back(c))]
      <4>1. \A c \in closing : r[c] = 0
        <5>1. \A c \in closing : Back(c) = 0
          BY <2>1 DEF Back
        <5>2. \A v : Share(u, v, 0) = 0
          BY DEF Share
        <5> QED
          BY <5>1, <5>2
      <4>2. Returned(u) = SumFunctionOnSet(r, closing)
        BY DEF Returned, SumFunction, Back
      <4> HIDE DEF r
      <4> QED
        BY <4>1, <4>2, ClosingFinite, SumZero
    <3>9. AtTable(u)' = 0 /\ Returned(u)' = 0
      BY <1>1, Cleared
    <3>10. wallet'[u] = wallet[u] + 0 /\ PaidIn(u)' = PaidIn(u) + 0
      BY <1>1, Stays
    <3>11. /\ wallet[u] \in Int /\ AtTable(u) \in Int /\ Queued(u) \in Int /\ PaidIn(u) \in Int
      BY WorthTypes
    <3> QED
      BY <3>6, <3>7, <3>8, <3>9, <3>10, <3>11 DEF Kept, Worth
  <2> QED
    BY <1>3, <2>2
<1> QED
  BY <1>4, <1>5

(***************************************************************************)
(* Every step.                                                             *)
(***************************************************************************)

\* The pot goes to a winner: what the play is for.
LEMMA AwardKept == ASSUME MoneyInv, HoldsOK, NEW s \in Seats, Award(s) PROVE HoldsOK' /\ Excused
<1>1. HoldsOK'
  BY DEF Award, desk, HoldsOK, ClosingOK
<1> QED
  BY <1>1 DEF Excused

\* The clock, the audit and the administrator who lifts the lockdown move nothing.
LEMMA QuietKept ==
    ASSUME MoneyInv, HoldsOK, HoursPass \/ Audit \/ AuditGoesOn \/ Decide \/ LiftLockdown
    PROVE  HoldsOK' /\ \A u \in Users : Kept(u)
<1>1. /\ wallet' = wallet /\ rows' = rows /\ seats' = seats /\ jobs' = jobs /\ tasks' = tasks
      /\ closing' = closing
  BY DEF HoursPass, Audit, AuditGoesOn, Decide, LiftLockdown, bank, ring
<1> QED
  BY <1>1, StayKept

\* In the first state no handler is on its way and nobody closes the table.
LEMMA HoldsInit == ASSUME MoneyInit PROVE HoldsOK
<1>1. ~NoTask.given
  BY DEF NoTask, Task
<1>2. GivenOK(NoTask)
  BY <1>1, TaskMakes DEF GivenOK
<1> QED
  BY <1>2 DEF MoneyInit, HoldsOK, ClosingOK

\* Each step keeps what each player has, or is one of those that are known not to.
LEMMA StepKept ==
    ASSUME MoneyInv, MoneyInv', HoldsOK, ServerNext \/ EventNext
    PROVE  HoldsOK' /\ (Excused \/ \A u \in Users : Kept(u))
<1> DEFINE Good == HoldsOK' /\ (Excused \/ \A u \in Users : Kept(u))
<1> SUFFICES Good
  OBVIOUS
<1>1. ASSUME NEW i \in 1..MaxTasks, TaskNext(i) PROVE Good
  <2>1. CASE Sync(i) \/ JoinScript(i) \/ AddScript(i)
    BY <2>1, SyncKept, JoinKept, AddKept
  <2>2. CASE Lock(i) \/ Undo(i) \/ Vault(i) \/ Refund(i)
    BY <2>2, LockKept, UndoKept, VaultKept, RefundKept
  <2>3. CASE Kick(i) \/ Enqueue(i) \/ Process(i) \/ Heal(i)
    BY <2>3, KickKept, EnqueueKept, ProcessKept, HealKept
  <2> QED
    BY <1>1, <2>1, <2>2, <2>3 DEF TaskNext
<1>2. ASSUME NEW c \in closing, CloseRefund(c) \/ CloseRefundFails(c) PROVE Good
  BY <1>2, CloseRefundKept
<1>3. CASE Settle \/ SettleFails \/ Redeliver
  BY <1>3, QueueKept
<1>4. CASE CloseDelete \/ Close \/ Restart
  BY <1>4, DeleteKept, CloseKept, RestartKept
<1>5. CASE HoursPass \/ Audit \/ AuditGoesOn \/ Decide \/ LiftLockdown
  BY <1>5, QuietKept
<1>6. CASE \/ \E u \in Users, s \in Seats : Join(u, s) \/ AddChips(u, s) \/ Rebuy(u, s)
           \/ \E s \in Seats : AutoRebuy(s) \/ Notice(s)
           \/ \E r \in DOMAIN rows : Examine(r)
           \/ FindOrphans
  BY <1>6, RequestKept
<1>7. ASSUME NEW u \in Users, Deposit(u) \/ Withdraw(u) \/ Adjust(u) PROVE Good
  BY <1>7, CashierKept
<1>8. ASSUME NEW u \in Users, NEW s \in Seats, Leave(u, s) PROVE Good
  BY <1>8, LeaveKept
<1>9. ASSUME NEW s \in Seats, Bet(s) \/ Award(s) PROVE Good
  BY <1>9, BetKept, AwardKept
<1> HIDE DEF Good
<1>10. CASE ServerNext
  <2>1. CASE \E i \in 1..MaxTasks : TaskNext(i)
    BY <1>1, <2>1
  <2>2. CASE \E c \in closing : CloseRefund(c)
    BY <1>2, <2>2
  <2> QED
    BY <1>3, <1>4, <1>5, <1>10, <2>1, <2>2 DEF ServerNext
<1>11. CASE EventNext
  <2>1. ASSUME NEW u \in Users,
               \/ \E s \in Seats : Join(u, s) \/ AddChips(u, s) \/ Rebuy(u, s) \/ Leave(u, s)
               \/ Deposit(u) \/ Withdraw(u) \/ Adjust(u)
        PROVE  Good
    <3>1. ASSUME NEW s \in Seats, Join(u, s) \/ AddChips(u, s) \/ Rebuy(u, s) PROVE Good
      BY <1>6, <3>1
    <3> QED
      BY <1>7, <1>8, <2>1, <3>1
  <2>2. ASSUME NEW s \in Seats, AutoRebuy(s) \/ Notice(s) \/ Bet(s) \/ Award(s) PROVE Good
    <3>1. CASE AutoRebuy(s) \/ Notice(s)
      BY <1>6, <3>1
    <3> QED
      BY <1>9, <2>2, <3>1
  <2>3. CASE \E c \in closing : CloseRefundFails(c)
    BY <1>2, <2>3
  <2>4. CASE (\E r \in DOMAIN rows : Examine(r)) \/ FindOrphans
    BY <1>6, <2>4
  <2> QED
    BY <1>3, <1>4, <1>5, <1>11, <2>1, <2>2, <2>3, <2>4 DEF EventNext
<1> QED
  BY <1>10, <1>11

\* Outside of a hand nobody's money is made, lost or given to another: with any number of
\* players, seats, amounts and handlers in flight, in any interleaving of buy-ins, rebuys,
\* top-ups, departures, cash-outs, refunds, restarts and a table that is closed, what a
\* player has in his wallet, at the table, in the queue and with the handlers changes only
\* by what he pays in or takes out at the cashier, but for the slips that MoneyProps names
\* (game.gateway.ts, wallet.service.ts and the scripts of the seats and the chips).
THEOREM NobodysMoneyMoves == MoneySpec => MoneyKept
<1> DEFINE Step == \/ \A u \in Users : Worth(u)' - Worth(u) = PaidIn(u)' - PaidIn(u)
                   \/ \E s \in Seats : Award(s)
                   \/ \E i \in 1..MaxTasks : Slip(i)
                   \/ Forfeit
                   \/ Faults
<1>1. MoneyInit => MoneyInv /\ HoldsOK
  BY MoneyInvInit, HoldsInit
<1>2. MoneyInv /\ HoldsOK /\ [ServerNext \/ EventNext]_money =>
        MoneyInv' /\ HoldsOK' /\ [Step]_money
  <2>1. ASSUME MoneyInv, HoldsOK, ServerNext \/ EventNext PROVE MoneyInv' /\ HoldsOK' /\ Step
    <3>1. MoneyInv'
      BY <2>1, MoneyInvStep
    <3>2. HoldsOK' /\ (Excused \/ \A u \in Users : Kept(u))
      BY <2>1, <3>1, StepKept
    <3> QED
      BY <3>1, <3>2 DEF Excused, Kept
  <2>2. ASSUME MoneyInv, HoldsOK, UNCHANGED money PROVE MoneyInv' /\ HoldsOK'
    <3>1. tasks' = tasks /\ closing' = closing
      BY <2>2 DEF money
    <3>2. HoldsOK'
      BY <2>2, <3>1 DEF HoldsOK, ClosingOK
    <3> QED
      BY <2>2, <3>2, MoneyInvStutter
  <2> HIDE DEF Step
  <2> QED
    BY <2>1, <2>2
<1> QED
  BY <1>1, <1>2, MoneySteps, PTL DEF MoneyKept

(***************************************************************************)
(* The audit, query by query.                                              *)
(***************************************************************************)

\* The sums of the first numbers of a sequence of seven.
LEMMA FirstSums ==
    ASSUME NEW q, \A k \in 1..7 : q[k] \in Int
    PROVE  /\ SumFunction(SubSeq(q, 1, 0)) = 0
           /\ \A n \in 0..7 : SumFunction(SubSeq(q, 1, n)) \in Int
           /\ \A n \in 0..6 : /\ q[n + 1] \in Int
                              /\ SumFunction(SubSeq(q, 1, n + 1))
                                   = SumFunction(SubSeq(q, 1, n)) + q[n + 1]
<1>1. ASSUME NEW n \in 0..7 PROVE SumFunction(SubSeq(q, 1, n)) = SumFunctionOnSet(q, 1..n)
  <2> DEFINE s == SubSeq(q, 1, n)
  <2>1. n \in Int /\ 1 \in Int /\ \A k \in 1..n : q[k] \in Int
    OBVIOUS
  <2>2. s \in Seq(Int) /\ Len(s) = n /\ \A k \in 1..n : s[k] = q[k]
    BY <2>1, SubSeqProperties
  <2> HIDE DEF s
  <2>3. DOMAIN s = 1..n /\ IsFiniteSet(1..n)
    BY <2>1, <2>2, FS_Interval
  <2>4. SumFunctionOnSet(s, 1..n) = SumFunctionOnSet(q, 1..n)
    BY <2>2, <2>3, SumEqual
  <2> QED
    BY <2>3, <2>4 DEF SumFunction, s
<1>2. ASSUME NEW n \in 0..7
      PROVE  /\ IsFiniteSet(1..n) /\ \A k \in 1..n : q[k] \in Int
             /\ SumFunctionOnSet(q, 1..n) \in Int
  <2>1. n \in Int /\ 1 \in Int /\ \A k \in 1..n : q[k] \in Int
    OBVIOUS
  <2>2. IsFiniteSet(1..n)
    BY <2>1, FS_Interval
  <2> QED
    BY <2>1, <2>2, SumType
<1>3. SumFunctionOnSet(q, 1..0) = 0
  <2>1. 1..0 = {}
    OBVIOUS
  <2> QED
    BY <2>1, FS_EmptySet, SumDefined
<1>4. ASSUME NEW n \in 0..6
      PROVE  q[n + 1] \in Int /\ SumFunctionOnSet(q, 1..(n + 1)) = SumFunctionOnSet(q, 1..n) + q[n + 1]
  <2> DEFINE D == 1..n  last == n + 1
  <2>1. 1..(n + 1) = D \cup {last} /\ last \notin D
    OBVIOUS
  <2>2. n \in Int /\ 1 \in Int /\ \A k \in D \cup {last} : q[k] \in Int
    OBVIOUS
  <2>3. IsFiniteSet(D)
    BY <2>2, FS_Interval
  <2> HIDE DEF D, last
  <2>4. SumFunctionOnSet(q, D \cup {last}) = SumFunctionOnSet(q, D) + q[last]
    BY <2>1, <2>2, <2>3, SumAdd
  <2> QED
    BY <2>1, <2>2, <2>4 DEF D, last
<1>5. 0 \in 0..7 /\ \A n \in 0..6 : n \in 0..7 /\ n + 1 \in 0..7
  OBVIOUS
<1> QED
  BY <1>1, <1>2, <1>3, <1>4, <1>5

\* What the rows of a kind add up to.
LEMMA RowSums ==
    MoneyInv => /\ Deposits \in Int /\ Withdrawals \in Int
                /\ AdminCredits \in Int /\ AdminDebits \in Int
<1> SUFFICES ASSUME MoneyInv
             PROVE  /\ Deposits \in Int /\ Withdrawals \in Int
                    /\ AdminCredits \in Int /\ AdminDebits \in Int
  OBVIOUS
<1>1. rows \in Seq(RowType) /\ DOMAIN rows = 1..Len(rows) /\ IsFiniteSet(DOMAIN rows)
  <2>1. rows \in Seq(RowType)
    BY Parts
  <2>2. DOMAIN rows = 1..Len(rows) /\ Len(rows) \in Int
    BY <2>1
  <2> QED
    BY <2>1, <2>2, FS_Interval
<1>2. ASSUME NEW r \in DOMAIN rows PROVE rows[r].amount \in Int
  <2>1. rows[r] \in RowType
    BY <1>1
  <2> QED
    BY <2>1 DEF RowType
<1>3. ASSUME NEW f, DOMAIN f = DOMAIN rows, \A r \in DOMAIN rows : f[r] \in Int
      PROVE  SumFunction(f) \in Int
  BY <1>1, <1>3, SumType DEF SumFunction
<1> DEFINE done(r) == rows[r].status = "completed"
           d == [r \in DOMAIN rows |->
                   IF done(r) THEN IF rows[r].kind = "deposit" THEN rows[r].amount ELSE 0 ELSE 0]
           w == [r \in DOMAIN rows |->
                   IF done(r) THEN IF rows[r].kind = "withdraw" THEN rows[r].amount ELSE 0 ELSE 0]
           c == [r \in DOMAIN rows |->
                   IF done(r) THEN IF rows[r].kind = "admin" /\ rows[r].amount > 0
                                   THEN rows[r].amount ELSE 0 ELSE 0]
           b == [r \in DOMAIN rows |->
                   IF done(r) THEN IF rows[r].kind = "admin" /\ rows[r].amount < 0
                                   THEN -rows[r].amount ELSE 0 ELSE 0]
<1>4. /\ Deposits = SumFunction(d) /\ Withdrawals = SumFunction(w)
      /\ AdminCredits = SumFunction(c) /\ AdminDebits = SumFunction(b)
  BY DEF Deposits, Withdrawals, AdminCredits, AdminDebits, RowSum
<1>5. /\ \A r \in DOMAIN rows : d[r] \in Int /\ w[r] \in Int /\ c[r] \in Int /\ b[r] \in Int
      /\ DOMAIN d = DOMAIN rows /\ DOMAIN w = DOMAIN rows
      /\ DOMAIN c = DOMAIN rows /\ DOMAIN b = DOMAIN rows
  BY <1>2
<1> HIDE DEF d, w, c, b
<1> QED
  BY <1>3, <1>4, <1>5

\* The answers of the queries are numbers, and so are their totals.
QueriesOK ==
    /\ TotalOf(0) = 0
    /\ \A n \in 0..LastQuery : TotalOf(n) \in Int
    /\ \A n \in 0..(LastQuery - 1) : /\ Queries[n + 1] \in Int
                                     /\ TotalOf(n + 1) = TotalOf(n) + Queries[n + 1]

LEMMA QueriesTyped == MoneyInv => QueriesOK
<1> SUFFICES ASSUME MoneyInv PROVE QueriesOK
  OBVIOUS
<1>1. SumFunction(wallet) \in Int /\ pot \in Int
  <2>1. wallet \in [Users -> Int] /\ pot \in Nat
    BY DEF MoneyInv, MoneyTypeOK
  <2>2. SumFunction(wallet) = SumFunctionOnSet(wallet, Users)
    BY <2>1 DEF SumFunction
  <2> QED
    BY <2>1, <2>2, PlacesAssumption, SumType
<1>2. Chips \in Int
  <2> DEFINE chips == [s \in Seats |-> seats[s].chips + seats[s].bet]
  <2>1. \A s \in Seats : chips[s] \in Int
    BY Parts, SeatFields
  <2>2. Chips = SumFunctionOnSet(chips, Seats)
    BY DEF Chips, SumFunction
  <2> HIDE DEF chips
  <2> QED
    BY <2>1, <2>2, PlacesAssumption, SumType
<1>3. \A k \in 1..7 : Queries[k] \in Int
  BY <1>1, <1>2, RowSums DEF Queries
<1> QED
  BY <1>3, FirstSums DEF QueriesOK, TotalOf, LastQuery

\* What the audit has added up, with what it has missed of what came to it since, is what
\* the queries it has had answered would give now.
AuditOK ==
    /\ audit \in [read : 0..LastQuery, total : Int] /\ missed \in Int
    /\ audit.read = 0 => missed = 0
    /\ audit.total + missed = TotalOf(audit.read)

\* The audit rests, is over, or goes on by a query.
AuditMoves ==
    \/ audit' = audit
    \/ audit' = NoAudit
    \/ UNCHANGED <<bank, ring>> /\ audit.read \in 0..(LastQuery - 1) /\ Answer(audit.read + 1)

LEMMA AuditSteps == ASSUME ServerNext \/ EventNext PROVE AuditMoves
<1>1. ASSUME NEW i \in 1..MaxTasks, TaskNext(i) PROVE audit' = audit
  BY <1>1 DEF TaskNext, Sync, JoinScript, AddScript, Lock, Undo, Vault, Refund, Kick, Enqueue,
              Process, Heal, desk
<1>2. ASSUME NEW c \in closing, CloseRefund(c) \/ CloseRefundFails(c) PROVE audit' = audit
  BY <1>2 DEF CloseRefund, CloseRefundFails
<1>3. CASE \/ Settle \/ SettleFails \/ Redeliver \/ CloseDelete \/ Close \/ HoursPass
           \/ FindOrphans \/ LiftLockdown
  BY <1>3 DEF Settle, SettleFails, Redeliver, CloseDelete, Close, HoursPass, FindOrphans,
              LiftLockdown, desk, AuditMoves
<1>4. CASE Decide \/ Restart
  BY <1>4 DEF Decide, Restart, AuditMoves
<1>5. CASE Audit \/ AuditGoesOn
  BY <1>5 DEF Audit, AuditGoesOn, AuditMoves, NoAudit, LastQuery
<1>6. ASSUME NEW u \in Users, NEW s \in Seats,
             Join(u, s) \/ AddChips(u, s) \/ Rebuy(u, s) \/ Leave(u, s)
      PROVE  audit' = audit
  BY <1>6 DEF Join, AddChips, Rebuy, Leave, desk
<1>7. ASSUME NEW u \in Users, Deposit(u) \/ Withdraw(u) \/ Adjust(u) PROVE audit' = audit
  BY <1>7 DEF Deposit, Withdraw, Adjust, desk
<1>8. ASSUME NEW s \in Seats, AutoRebuy(s) \/ Notice(s) \/ Bet(s) \/ Award(s)
      PROVE  audit' = audit
  BY <1>8 DEF AutoRebuy, Notice, Bet, Award, desk
<1>9. ASSUME NEW r \in DOMAIN rows, Examine(r) PROVE audit' = audit
  BY <1>9 DEF Examine, desk
<1>10. CASE ServerNext
  <2>1. (\E i \in 1..MaxTasks : TaskNext(i)) \/ (\E c \in closing : CloseRefund(c)) => AuditMoves
    BY <1>1, <1>2 DEF AuditMoves
  <2> QED
    BY <1>3, <1>4, <1>5, <1>10, <2>1 DEF ServerNext
<1>11. CASE EventNext
  <2>1. \A u \in Users :
          \/ \E s \in Seats : Join(u, s) \/ AddChips(u, s) \/ Rebuy(u, s) \/ Leave(u, s)
          \/ Deposit(u) \/ Withdraw(u) \/ Adjust(u)
          => AuditMoves
    BY <1>6, <1>7 DEF AuditMoves
  <2>2. \/ \E s \in Seats : AutoRebuy(s) \/ Notice(s) \/ Bet(s) \/ Award(s)
        \/ \E r \in DOMAIN rows : Examine(r)
        \/ \E c \in closing : CloseRefundFails(c)
        => AuditMoves
    BY <1>2, <1>8, <1>9 DEF AuditMoves
  <2> QED
    BY <1>3, <1>4, <1>5, <1>11, <2>1, <2>2 DEF EventNext
<1> QED
  BY <1>10, <1>11

\* Answers depend on the two stores only.
LEMMA QueriesStay == ASSUME UNCHANGED <<bank, ring>> PROVE Queries' = Queries
<1>1. wallet' = wallet /\ rows' = rows /\ seats' = seats /\ pot' = pot
  BY DEF bank, ring
<1> QED
  BY <1>1 DEF Queries, Deposits, Withdrawals, AdminCredits, AdminDebits, RowSum, Chips

\* A step keeps the account of what the audit has read.
LEMMA AuditKept ==
    ASSUME MoneyInv, MoneyInv', AuditOK, AuditMoves, Misses
    PROVE  AuditOK'
<1>1. QueriesOK /\ QueriesOK'
  BY QueriesTyped, PTL
<1>2. /\ audit \in [read : 0..LastQuery, total : Int] /\ missed \in Int
      /\ audit.read \in 0..LastQuery /\ audit.total \in Int
      /\ audit.read = 0 => missed = 0 /\ audit.total = 0
      /\ audit.total + missed = TotalOf(audit.read)
  BY <1>1 DEF AuditOK, QueriesOK
<1>3. PICK n \in 0..LastQuery :
        /\ n = audit.read
        /\ missed' = IF audit'.read = 0 THEN 0
                     ELSE IF UNCHANGED <<bank, ring>> THEN missed
                     ELSE missed + TotalOf(n)' - TotalOf(n)
  BY <1>2 DEF Misses
<1>4. TotalOf(n) \in Int /\ TotalOf(n)' \in Int /\ TotalOf(0)' = 0
  BY <1>1 DEF QueriesOK, LastQuery
<1>5. UNCHANGED <<bank, ring>> => TotalOf(n)' = TotalOf(n)
  BY QueriesStay DEF TotalOf
<1>6. CASE audit' = audit
  <2>1. CASE n = 0
    <3>1. audit'.read = 0 /\ missed' = 0 /\ audit'.total = 0
      BY <1>2, <1>3, <1>6, <2>1
    <3> QED
      BY <1>2, <1>4, <1>6, <3>1 DEF AuditOK
  <2>2. CASE n # 0
    <3>1. audit'.read = n /\ audit'.total = audit.total /\ audit'.read # 0
      BY <1>3, <1>6, <2>2
    <3>2. missed' = missed + TotalOf(n)' - TotalOf(n)
      BY <1>2, <1>3, <1>4, <1>5, <3>1
    <3>3. missed' \in Int /\ audit'.total + missed' = TotalOf(n)'
      BY <1>2, <1>3, <1>4, <3>1, <3>2
    <3>4. TotalOf(n)' = TotalOf(audit.read)'
      BY <3>1
    <3> QED
      BY <1>2, <1>6, <3>1, <3>3, <3>4 DEF AuditOK
  <2> QED
    BY <2>1, <2>2
<1>7. CASE audit' = NoAudit
  <2>1. audit'.read = 0 /\ audit'.total = 0 /\ audit' \in [read : 0..LastQuery, total : Int]
    BY <1>7 DEF NoAudit, LastQuery
  <2>2. missed' = 0
    BY <1>3, <2>1
  <2> QED
    BY <1>4, <2>1, <2>2 DEF AuditOK
<1>8. CASE /\ UNCHANGED <<bank, ring>>
           /\ audit.read \in 0..(LastQuery - 1) /\ Answer(audit.read + 1)
  <2>1. n \in 0..(LastQuery - 1) /\ LastQuery = 7
    BY <1>3, <1>8 DEF LastQuery
  <2>2. Queries[n + 1] \in Int /\ TotalOf(n + 1) = TotalOf(n) + Queries[n + 1]
    BY <1>1, <2>1 DEF QueriesOK
  <2>3. audit' = [read |-> n + 1, total |-> audit.total + Queries[n + 1]]
    BY <1>3, <1>8 DEF Answer
  <2>4. TotalOf(n + 1)' = TotalOf(n + 1)
    BY <1>8, QueriesStay DEF TotalOf
  <2>5. audit'.read = n + 1 /\ audit'.total = audit.total + Queries[n + 1]
    BY <2>3
  <2>6. missed' = missed
    BY <1>3, <1>8, <2>1, <2>5
  <2>7. audit'.total + missed' = TotalOf(n + 1)'
    BY <1>2, <1>3, <1>4, <2>2, <2>4, <2>5, <2>6
  <2>8. audit' \in [read : 0..LastQuery, total : Int] /\ missed' \in Int /\ audit'.read # 0
    BY <1>2, <2>1, <2>2, <2>3, <2>5, <2>6
  <2> QED
    BY <2>5, <2>7, <2>8 DEF AuditOK
<1> QED
  BY <1>6, <1>7, <1>8 DEF AuditMoves

\* In the first state there is no audit.
LEMMA AuditInit == ASSUME MoneyInit PROVE AuditOK
<1>1. QueriesOK
  BY MoneyInvInit, QueriesTyped
<1> QED
  BY <1>1 DEF MoneyInit, NoAudit, AuditOK, QueriesOK, LastQuery

(***************************************************************************)
(* The audit is right when no money is on its way.                         *)
(***************************************************************************)

\* What an administrator grants or takes is booked at once.
GrantsOK == \A r \in DOMAIN rows : rows[r].kind = "admin" => rows[r].status = "completed"

\* A step keeps the grants final.
LEMMA GrantsKept ==
    ASSUME MoneyInv, GrantsOK, [ServerNext \/ EventNext]_money
    PROVE  GrantsOK'
<1>1. rows \in Seq(RowType)
  BY Parts
<1>2. CASE rows' = rows
  BY <1>2 DEF GrantsOK
<1>3. ASSUME NEW i \in 1..MaxTasks, Process(i) PROVE GrantsOK'
  <2>1. PICK r \in DOMAIN rows, row \in RowType, k \in Int : Processes(i, r, row, k)
    BY <1>3, ProcessBooks
  <2>2. /\ DOMAIN rows' = DOMAIN rows /\ rows'[r].kind # "admin"
        /\ \A c \in DOMAIN rows : c # r => rows'[c] = rows[c]
    BY <1>1, <2>1 DEF Processes
  <2> QED
    BY <2>2 DEF GrantsOK
<1>4. ASSUME NEW row \in RowType, Books(row) PROVE GrantsOK'
  <2> DEFINE new == Len(rows) + 1
  <2>1. /\ DOMAIN rows' = DOMAIN rows \cup {new} /\ rows'[new] = row
        /\ \A c \in DOMAIN rows : rows'[c] = rows[c]
        /\ row.kind = "admin" => row.status = "completed"
    BY <1>1, <1>4, RowAdded DEF Books, NewRow
  <2> QED
    BY <2>1 DEF GrantsOK
<1> QED
  BY <1>2, <1>3, <1>4, StepBooks DEF bank, money

\* At rest a player has his wallet and his stack.
LEMMA WorthAtRest ==
    ASSUME MoneyInv, HoldsOK, ~InFlight, NEW u \in Users
    PROVE  Worth(u) = wallet[u] + AtTable(u)
<1>1. jobs = <<>> /\ closing = {}
  BY DEF InFlight
<1>2. Queued(u) = 0
  <2> DEFINE f == [k \in DOMAIN jobs |-> Share(u, jobs[k].user, jobs[k].amount)]
  <2>1. DOMAIN f = {}
    BY <1>1
  <2>2. Queued(u) = SumFunctionOnSet(f, DOMAIN f)
    BY DEF Queued, SumFunction
  <2> HIDE DEF f
  <2> QED
    BY <2>1, <2>2, FS_EmptySet, SumDefined
<1>3. Returned(u) = 0
  <2> DEFINE f == [c \in closing |-> Share(u, c.user, Back(c))]
  <2>1. Returned(u) = SumFunctionOnSet(f, {})
    BY <1>1 DEF Returned, SumFunction, Back
  <2> HIDE DEF f
  <2> QED
    BY <2>1, FS_EmptySet, SumDefined
<1>4. CarriedFor(u) = 0
  <2> DEFINE f == [i \in 1..MaxTasks |-> Share(u, tasks[i].user, Carried(tasks[i]))]
  <2>1. ASSUME NEW i \in 1..MaxTasks PROVE f[i] = 0
    <3>1. Carried(tasks[i]) = 0
      <4>1. CASE i \in Busy
        BY <4>1 DEF InFlight
      <4>2. CASE i \notin Busy
        <5>1. tasks[i] = NoTask /\ tasks[i].at = "idle"
          BY <4>2, TaskMakes DEF Busy
        <5> QED
          BY <5>1, Parts, CarriedOf DEF HoldsOK
      <4> QED
        BY <4>1, <4>2
    <3> QED
      BY <3>1 DEF Share
  <2>2. CarriedFor(u) = SumFunctionOnSet(f, 1..MaxTasks) /\ IsFiniteSet(1..MaxTasks)
    BY PlacesAssumption, FS_Interval DEF CarriedFor, SumFunction
  <2> HIDE DEF f
  <2> QED
    BY <2>1, <2>2, SumZero
<1>5. wallet[u] \in Int /\ AtTable(u) \in Int
  BY WorthTypes
<1> QED
  BY <1>2, <1>3, <1>4, <1>5 DEF Worth

\* What the players have at the table is what there is at the seats, of which nothing is
\* bet when no money is on its way.
LEMMA ChipsAtRest ==
    ASSUME MoneyInv, HoldsOK, ~InFlight
    PROVE  /\ SumFunctionOnSet([u \in Users |-> AtTable(u)], Users) = Chips
           /\ SumFunction([s \in Seats |-> seats[s].bet]) = 0
           /\ Chips \in Int
<1> DEFINE amount == [s \in Seats |-> Held(seats[s])]
           owner == [s \in Seats |-> seats[s].user]
           has == [u \in Users |-> AtTable(u)]
           chips == [s \in Seats |-> seats[s].chips + seats[s].bet]
           bets == [s \in Seats |-> seats[s].bet]
<1>1. ASSUME NEW s \in Seats
      PROVE  /\ seats[s].bet = 0 /\ amount[s] = chips[s] /\ amount[s] \in Int
             /\ owner[s] \in Users \/ amount[s] = 0
  <2>1. seats[s] \in SeatRecord
    BY Parts
  <2>2. /\ seats[s].chips \in Nat /\ seats[s].bet \in Nat /\ seats[s].later \in Nat
        /\ seats[s] = Empty => seats[s].chips = 0
        /\ seats[s] # Empty => seats[s].user \in Users
    BY <2>1, SeatFields, MadeOf
  <2>3. ~(seats[s].bet + seats[s].later > 0)
    BY DEF InFlight
  <2>4. seats[s].bet = 0 /\ seats[s].later = 0
    BY <2>2, <2>3
  <2> QED
    BY <2>2, <2>4 DEF Held
<1>2. ASSUME NEW u \in Users
      PROVE  has[u] = SumFunctionOnSet(OwnedBy(u, owner, amount, Seats), Seats)
  <2>1. [s \in Seats |-> Share(u, seats[s].user, seats[s].chips + seats[s].bet + seats[s].later)]
          = OwnedBy(u, owner, amount, Seats)
    BY DEF Share, Held, OwnedBy
  <2> QED
    BY <2>1 DEF AtTable, SumFunction
<1>3. \A s \in Seats : bets[s] = 0
  BY <1>1
<1>4. Chips = SumFunctionOnSet(chips, Seats)
  BY DEF Chips, SumFunction
<1>5. SumFunction([s \in Seats |-> seats[s].bet]) = SumFunctionOnSet(bets, Seats)
  BY DEF SumFunction
<1> HIDE DEF amount, owner, has, chips, bets
<1>6. SumFunctionOnSet(has, Users) = SumFunctionOnSet(amount, Seats)
  BY <1>1, <1>2, PlacesAssumption, SumByOwner
<1>7. SumFunctionOnSet(amount, Seats) = SumFunctionOnSet(chips, Seats)
  BY <1>1, PlacesAssumption, SumEqual
<1>8. SumFunctionOnSet(amount, Seats) \in Int
  BY <1>1, PlacesAssumption, SumType
<1>9. SumFunctionOnSet(bets, Seats) = 0
  BY <1>3, PlacesAssumption, SumZero
<1> QED
  BY <1>4, <1>5, <1>6, <1>7, <1>8, <1>9 DEF has

\* What the players have paid in is what the audit's queries of the rows say of it, when no
\* withdrawal waits for an administrator.
LEMMA PoolAtRest ==
    ASSUME MoneyInv, GrantsOK, ~InFlight
    PROVE  SumFunctionOnSet([u \in Users |-> PaidIn(u)], Users) + Withdrawals + AdminDebits
              = Deposits + AdminCredits
<1> DEFINE done(r) == rows[r].status = "completed"
           amount == [r \in DOMAIN rows |-> Paid(rows[r])]
           owner == [r \in DOMAIN rows |-> rows[r].user]
           has == [u \in Users |-> PaidIn(u)]
           d == [r \in DOMAIN rows |->
                   IF done(r) THEN IF rows[r].kind = "deposit" THEN rows[r].amount ELSE 0 ELSE 0]
           w == [r \in DOMAIN rows |->
                   IF done(r) THEN IF rows[r].kind = "withdraw" THEN rows[r].amount ELSE 0 ELSE 0]
           c == [r \in DOMAIN rows |->
                   IF done(r) THEN IF rows[r].kind = "admin" /\ rows[r].amount > 0
                                   THEN rows[r].amount ELSE 0 ELSE 0]
           b == [r \in DOMAIN rows |->
                   IF done(r) THEN IF rows[r].kind = "admin" /\ rows[r].amount < 0
                                   THEN -rows[r].amount ELSE 0 ELSE 0]
           came == [r \in DOMAIN rows |-> d[r] + c[r]]
           more == [r \in DOMAIN rows |-> amount[r] + w[r]]
<1>1. rows \in Seq(RowType) /\ DOMAIN rows = 1..Len(rows) /\ IsFiniteSet(DOMAIN rows)
  <2>1. rows \in Seq(RowType)
    BY Parts
  <2>2. DOMAIN rows = 1..Len(rows) /\ Len(rows) \in Int
    BY <2>1
  <2> QED
    BY <2>1, <2>2, FS_Interval
<1>2. ASSUME NEW r \in DOMAIN rows
      PROVE  /\ amount[r] \in Int /\ owner[r] \in Users
             /\ d[r] \in Int /\ w[r] \in Int /\ c[r] \in Int /\ b[r] \in Int
             /\ came[r] = d[r] + c[r] /\ more[r] = amount[r] + w[r]
             /\ came[r] = more[r] + b[r] /\ came[r] \in Int /\ more[r] \in Int
  <2>1. rows[r] \in RowType
    BY <1>1
  <2>2. ~(rows[r].kind = "withdraw" /\ rows[r].status = "pending")
    BY DEF InFlight, ToSet
  <2>3. rows[r].kind = "admin" => rows[r].status = "completed"
    BY DEF GrantsOK
  <2>4. /\ rows[r].amount \in Int /\ rows[r].user \in Users /\ rows[r].kind \in Kinds
        /\ rows[r].status \in {"pending", "completed", "rejected"}
    BY <2>1 DEF RowType
  <2> QED
    BY <2>2, <2>3, <2>4 DEF Paid
<1>3. ASSUME NEW u \in Users
      PROVE  has[u] = SumFunctionOnSet(OwnedBy(u, owner, amount, DOMAIN rows), DOMAIN rows)
  <2>1. [r \in DOMAIN rows |-> Share(u, rows[r].user, Paid(rows[r]))]
          = OwnedBy(u, owner, amount, DOMAIN rows)
    BY DEF Share, OwnedBy
  <2> QED
    BY <2>1 DEF PaidIn, SumFunction
<1>4. /\ Deposits = SumFunctionOnSet(d, DOMAIN rows)
      /\ Withdrawals = SumFunctionOnSet(w, DOMAIN rows)
      /\ AdminCredits = SumFunctionOnSet(c, DOMAIN rows)
      /\ AdminDebits = SumFunctionOnSet(b, DOMAIN rows)
  BY DEF Deposits, Withdrawals, AdminCredits, AdminDebits, RowSum, SumFunction
<1>5. /\ Deposits \in Int /\ Withdrawals \in Int /\ AdminCredits \in Int /\ AdminDebits \in Int
  BY RowSums
<1> HIDE DEF amount, owner, has, d, w, c, b, came, more
<1> DEFINE D == DOMAIN rows
<1>6. /\ IsFiniteSet(D) /\ IsFiniteSet(Users)
      /\ \A r \in D : /\ amount[r] \in Int /\ (owner[r] \in Users \/ amount[r] = 0)
                      /\ d[r] \in Int /\ w[r] \in Int /\ c[r] \in Int /\ b[r] \in Int
                      /\ came[r] = d[r] + c[r] /\ more[r] = amount[r] + w[r]
                      /\ came[r] = more[r] + b[r] /\ came[r] \in Int /\ more[r] \in Int
      /\ \A u \in Users : has[u] = SumFunctionOnSet(OwnedBy(u, owner, amount, D), D)
  BY <1>1, <1>2, <1>3, PlacesAssumption
<1> HIDE DEF D
<1>7. SumFunctionOnSet(has, Users) = SumFunctionOnSet(amount, D)
  BY <1>6, SumByOwner
<1>8. SumFunctionOnSet(came, D) = SumFunctionOnSet(d, D) + SumFunctionOnSet(c, D)
  BY <1>6, SumPlus
<1>9. SumFunctionOnSet(more, D) = SumFunctionOnSet(amount, D) + SumFunctionOnSet(w, D)
  BY <1>6, SumPlus
<1>10. SumFunctionOnSet(came, D) = SumFunctionOnSet(more, D) + SumFunctionOnSet(b, D)
  BY <1>6, SumPlus
<1>11. SumFunctionOnSet(amount, D) \in Int
  BY <1>6, SumType
<1>12. /\ SumFunctionOnSet(d, D) = Deposits /\ SumFunctionOnSet(w, D) = Withdrawals
       /\ SumFunctionOnSet(c, D) = AdminCredits /\ SumFunctionOnSet(b, D) = AdminDebits
  BY <1>4 DEF D
<1>13. SumFunctionOnSet(has, Users) + Withdrawals + AdminDebits = Deposits + AdminCredits
  BY <1>5, <1>7, <1>8, <1>9, <1>10, <1>11, <1>12
<1> QED
  BY <1>13 DEF has

\* What the wallets and the tables hold is what is kept plus what was bought in, and what was
\* bought in is what the ledger says: so the kept money and the pot are the seven queries.
LEMMA BooksAddUp ==
    ASSUME NEW inWallets \in Int, NEW onTables \in Int, NEW kept \in Int, NEW bought \in Int,
           NEW d \in Int, NEW w \in Int, NEW c \in Int, NEW b \in Int, NEW p \in Int,
           inWallets + onTables = kept + bought, bought + w + b = d + c
    PROVE  kept + p - 0 = -d + w - c + b + inWallets + p + onTables
OBVIOUS

\* At rest the queries of the audit, all answered at once, would add up to the surplus.
LEMMA TotalIsSurplus ==
    ASSUME MoneyInv, HoldsOK, GrantsOK, ~InFlight
    PROVE  Surplus = TotalOf(LastQuery)
<1> DEFINE worth == [u \in Users |-> wallet[u] + AtTable(u)]
           stack == [u \in Users |-> AtTable(u)]
           paid == [u \in Users |-> PaidIn(u)]
           rest == [u \in Users |-> Worth(u) - PaidIn(u)]
<1>1. ASSUME NEW u \in Users
      PROVE  /\ wallet[u] \in Int /\ stack[u] \in Int /\ paid[u] \in Int /\ rest[u] \in Int
             /\ worth[u] = wallet[u] + stack[u] /\ worth[u] = rest[u] + paid[u]
  <2>1. /\ wallet[u] \in Int /\ AtTable(u) \in Int /\ PaidIn(u) \in Int
        /\ Worth(u) = wallet[u] + AtTable(u)
    BY WorthTypes, WorthAtRest
  <2> QED
    BY <2>1
<1>2. SumFunction(wallet) = SumFunctionOnSet(wallet, Users) /\ pot \in Int
  <2>1. wallet \in [Users -> Int] /\ pot \in Nat
    BY DEF MoneyInv, MoneyTypeOK
  <2> QED
    BY <2>1 DEF SumFunction
<1>3. SumFunction([u \in Users |-> Worth(u) - PaidIn(u)]) = SumFunctionOnSet(rest, Users)
  BY DEF SumFunction
<1>4. /\ SumFunctionOnSet(stack, Users) = Chips /\ Chips \in Int
      /\ SumFunction([s \in Seats |-> seats[s].bet]) = 0
  BY ChipsAtRest
<1>5. SumFunctionOnSet(paid, Users) + Withdrawals + AdminDebits = Deposits + AdminCredits
  BY PoolAtRest
<1> HIDE DEF worth, stack, paid, rest
<1>6. SumFunctionOnSet(worth, Users)
        = SumFunctionOnSet(wallet, Users) + SumFunctionOnSet(stack, Users)
  BY <1>1, PlacesAssumption, SumPlus
<1>7. SumFunctionOnSet(worth, Users)
        = SumFunctionOnSet(rest, Users) + SumFunctionOnSet(paid, Users)
  BY <1>1, PlacesAssumption, SumPlus
<1>8. SumFunctionOnSet(wallet, Users) \in Int /\ SumFunctionOnSet(rest, Users) \in Int
  BY <1>1, PlacesAssumption, SumType
<1>9. Surplus = SumFunctionOnSet(rest, Users) + pot - 0
  BY <1>3, <1>4 DEF Surplus
<1>10. TotalOf(LastQuery) = -Deposits + Withdrawals - AdminCredits + AdminDebits
                              + SumFunction(wallet) + pot + Chips
  <2>1. QueriesOK
    BY QueriesTyped
  <2>2. TotalOf(0) = 0 /\ LastQuery = 7
    BY <2>1 DEF QueriesOK, LastQuery
  <2>3. \A n \in 0..6 : TotalOf(n) \in Int /\ TotalOf(n + 1) = TotalOf(n) + Queries[n + 1]
    BY <2>1 DEF QueriesOK, LastQuery
  <2>4. /\ TotalOf(1) = TotalOf(0) + Queries[1] /\ TotalOf(2) = TotalOf(1) + Queries[2]
        /\ TotalOf(3) = TotalOf(2) + Queries[3] /\ TotalOf(4) = TotalOf(3) + Queries[4]
        /\ TotalOf(5) = TotalOf(4) + Queries[5] /\ TotalOf(6) = TotalOf(5) + Queries[6]
        /\ TotalOf(7) = TotalOf(6) + Queries[7]
    <3>1. ASSUME NEW m \in 1..7 PROVE TotalOf(m) = TotalOf(m - 1) + Queries[m]
      <4>1. m - 1 \in 0..6 /\ (m - 1) + 1 = m
        OBVIOUS
      <4> QED
        BY <2>3, <4>1
    <3>2. /\ 1 - 1 = 0 /\ 2 - 1 = 1 /\ 3 - 1 = 2 /\ 4 - 1 = 3 /\ 5 - 1 = 4 /\ 6 - 1 = 5
          /\ 7 - 1 = 6
      OBVIOUS
    <3> QED
      BY <3>1, <3>2
  <2>5. /\ Queries[1] = -Deposits /\ Queries[2] = Withdrawals /\ Queries[3] = -AdminCredits
        /\ Queries[4] = AdminDebits /\ Queries[5] = SumFunction(wallet) /\ Queries[6] = pot
        /\ Queries[7] = Chips
    BY DEF Queries
  <2>6. /\ Deposits \in Int /\ Withdrawals \in Int /\ AdminCredits \in Int /\ AdminDebits \in Int
    BY RowSums
  <2> QED
    BY <1>2, <1>4, <1>8, <2>2, <2>4, <2>5, <2>6
<1>11. /\ Deposits \in Int /\ Withdrawals \in Int /\ AdminCredits \in Int /\ AdminDebits \in Int
  BY RowSums
<1>12. SumFunctionOnSet(paid, Users) \in Int
  BY <1>1, PlacesAssumption, SumType
<1>13. SumFunctionOnSet(wallet, Users) + Chips
         = SumFunctionOnSet(rest, Users) + SumFunctionOnSet(paid, Users)
  BY <1>4, <1>6, <1>7
<1>14. SumFunctionOnSet(rest, Users) + pot - 0
         = -Deposits + Withdrawals - AdminCredits + AdminDebits
             + SumFunctionOnSet(wallet, Users) + pot + Chips
  BY <1>2, <1>4, <1>5, <1>8, <1>11, <1>12, <1>13, BooksAddUp
<1> QED
  BY <1>2, <1>9, <1>10, <1>14

\* What the audit decides when no money is on its way, with any number of players, seats and
\* rows and whatever moved between its queries: the tables are frozen if and only if the
\* money there, less what was paid in, is not exactly what has come to what it had read
\* already (runAudit: deposits, withdrawals, grants, wallets, pot and stacks, read one
\* after the other).  An audit during which nothing moves into what it has read freezes
\* them for a surplus or a loss and for nothing else.
THEOREM AuditsAreRight == MoneySpec => AuditIsRight
<1> DEFINE Step == Decide => InFlight \/ lockdown' = (lockdown \/ Surplus # missed)
           Inv == MoneyInv /\ HoldsOK /\ GrantsOK /\ AuditOK
           Next == (ServerNext \/ EventNext) /\ Misses
<1>1. MoneyInit => Inv
  <2>1. MoneyInit => GrantsOK
    BY FirstRows DEF GrantsOK
  <2> QED
    BY <2>1, MoneyInvInit, HoldsInit, AuditInit
<1>2. Inv /\ [Next]_money => Inv'
  <2>1. ASSUME Inv, Next PROVE Inv'
    <3>1. MoneyInv'
      BY <2>1, MoneyInvStep
    <3>2. HoldsOK'
      BY <2>1, <3>1, StepKept
    <3>3. AuditOK'
      BY <2>1, <3>1, AuditSteps, AuditKept
    <3> QED
      BY <2>1, <3>1, <3>2, <3>3, GrantsKept
  <2>2. ASSUME Inv, UNCHANGED money PROVE Inv'
    <3>1. /\ tasks' = tasks /\ closing' = closing /\ audit' = audit /\ missed' = missed
          /\ UNCHANGED <<bank, ring>>
      BY <2>2 DEF money, bank, ring
    <3>2. HoldsOK'
      BY <2>2, <3>1 DEF HoldsOK, ClosingOK
    <3>3. AuditOK'
      BY <2>2, <3>1, QueriesStay DEF AuditOK, TotalOf
    <3> QED
      BY <2>2, <3>2, <3>3, MoneyInvStutter, GrantsKept
  <2> QED
    BY <2>1, <2>2
<1>3. Inv => Step
  <2> SUFFICES ASSUME Inv, Decide, ~InFlight
               PROVE  lockdown' = (lockdown \/ Surplus # missed)
    OBVIOUS
  <2>1. audit.read = LastQuery /\ lockdown' = (lockdown \/ audit.total # 0)
    BY DEF Decide
  <2>2. audit.total \in Int /\ missed \in Int /\ audit.total + missed = TotalOf(LastQuery)
    BY <2>1 DEF AuditOK
  <2>3. Surplus = audit.total + missed
    BY <2>2, TotalIsSurplus
  <2>4. audit.total # 0 <=> Surplus # missed
    BY <2>2, <2>3
  <2> QED
    BY <2>1, <2>4, Zenon
<1> HIDE DEF Step, Inv
<1>4. Inv /\ [Next]_money => [Step]_money
  BY <1>3
<1>5. MoneySpec => [][Step]_money
  BY <1>1, <1>2, <1>4, PTL DEF MoneySpec
<1> QED
  BY <1>5 DEF AuditIsRight, Step
=============================================================================

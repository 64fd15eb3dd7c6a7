---------------------------- MODULE HandHistory ----------------------------
(***************************************************************************)
(* How a finished hand reaches the database: the stream of its table, the  *)
(* consumer loop of the Nexus service, the archive-hand jobs and the       *)
(* transaction that saves the hand and credits its rake to the house.      *)
(* A hand is named by its stream entry's id, which is unique in one stream *)
(* only.                                                                   *)
(***************************************************************************)
EXTENDS Integers, Sequences, FiniteSetsExt, SequencesExt

CONSTANTS
    Hands,          \* the hands played
    Tables,
    TableOf,        \* the table of a hand
    IdOf,           \* the id of its stream entry
    RakeOf,
    MaxFaults       \* bound on restarts and on calls that fail

ASSUME HandsAssumption ==
    /\ TableOf \in [Hands -> Tables] /\ RakeOf \in [Hands -> Int]
    /\ IsFiniteSet(Tables)

VARIABLES
    stream,         \* the hands in each table's stream, in order
    group,          \* how many of them were delivered to the group, or NoGroup
    loop,           \* what the consumer loop is about to do
    watched,        \* the streams it found
    inbox,          \* what it read and has not handled
    unacked,        \* delivered and not acknowledged
    job,            \* of each hand: how many attempts are left, or a verdict
    running,        \* how many workers are between the look-up and the transaction
    archived,       \* the hand ids saved
    house,          \* what the house was credited
    faults,
    dropped         \* history: hands whose only delivery was lost

nexus == <<stream, group, loop, watched, inbox, unacked>>
archive == <<job, running, archived, house>>
hist == <<nexus, archive, faults, dropped>>

NoGroup == -1
Unqueued == -1
Done == -2
Attempts == 3

HistInit ==
    /\ stream = [t \in Tables |-> <<>>] /\ group = [t \in Tables |-> NoGroup]
    /\ loop = "discover" /\ watched = {} /\ inbox = <<>> /\ unacked = {}
    /\ job = [h \in Hands |-> Unqueued] /\ running = [h \in Hands |-> 0]
    /\ archived = {} /\ house = 0 /\ faults = 0 /\ dropped = {}

Queued(h) == job[h] > 0
May == faults < MaxFaults

(***************************************************************************)
(* The tables and the consumer loop.                                       *)
(***************************************************************************)
HandEnds(h) ==
    /\ \A g \in ToSet(stream[TableOf[h]]) : IdOf[g] < IdOf[h]
    /\ stream' = [stream EXCEPT ![TableOf[h]] = Append(@, h)]
    /\ UNCHANGED <<group, loop, watched, inbox, unacked, archive, faults, dropped>>

\* The group is made again at the end of the stream in every round.
BuggyStart(t) == Len(stream[t])

\* The group begins at the end of the stream the first time it is found; BUSYGROUP
\* afterwards.
Start(t) == IF group[t] = NoGroup THEN Len(stream[t]) ELSE group[t]

Discover ==
    LET found == {t \in Tables : stream[t] # <<>>}
    IN  /\ loop = "discover" /\ found # {}
        /\ watched' = found /\ loop' = "read"
        /\ group' = [t \in Tables |-> IF t \in found THEN Start(t) ELSE group[t]]
        /\ dropped' = dropped \cup
               UNION {{stream[t][i] : i \in 1..Start(t)} : t \in {u \in found : group[u] = NoGroup}}
        /\ UNCHANGED <<stream, inbox, unacked, archive, faults>>

\* One new entry of every stream found, or none within five seconds.
ReadStreams ==
    LET ready == SetToSeq({t \in watched : group[t] < Len(stream[t])})
        Next1(t) == stream[t][group[t] + 1]
    IN  /\ loop = "read"
        /\ inbox' = [i \in DOMAIN ready |-> Next1(ready[i])]
        /\ unacked' = unacked \cup ToSet(inbox')
        /\ group' = [t \in Tables |-> IF t \in ToSet(ready) THEN group[t] + 1 ELSE group[t]]
        /\ loop' = IF ready = <<>> THEN "discover" ELSE "add"
        /\ UNCHANGED <<stream, watched, archive, faults, dropped>>

AddJob ==
    /\ loop = "add"
    /\ job' = [job EXCEPT ![Head(inbox)] = Attempts]
    /\ loop' = "ack"
    /\ UNCHANGED <<stream, group, watched, inbox, unacked, running, archived, house, faults,
                   dropped>>

Acknowledge ==
    /\ loop = "ack"
    /\ unacked' = unacked \ {Head(inbox)}
    /\ inbox' = Tail(inbox)
    /\ loop' = IF Len(inbox) = 1 THEN "discover" ELSE "add"
    /\ UNCHANGED <<stream, group, watched, archive, faults, dropped>>

\* Redis fails a call, or the process starts again under another consumer name: what was
\* read is not read again.
Interrupted ==
    /\ May /\ faults' = faults + 1
    /\ loop # "discover"
    /\ loop' = "discover" /\ inbox' = <<>>
    /\ dropped' = dropped \cup {h \in ToSet(inbox) : job[h] = Unqueued}
    /\ UNCHANGED <<stream, group, watched, unacked, archive>>

(***************************************************************************)
(* The jobs.                                                               *)
(***************************************************************************)
\* A hand with the id of one that is saved is taken for the same one.
LookUp(h) ==
    /\ Queued(h) /\ running[h] = 0
    /\ IF IdOf[h] \in archived
       THEN job' = [job EXCEPT ![h] = Done] /\ UNCHANGED running
       ELSE running' = [running EXCEPT ![h] = 1] /\ UNCHANGED job
    /\ UNCHANGED <<nexus, archived, house, faults, dropped>>

\* The job is taken for stalled and given to another worker, the first still at it.
Stalled(h) ==
    /\ May /\ faults' = faults + 1
    /\ Queued(h) /\ running[h] = 1 /\ IdOf[h] \notin archived
    /\ running' = [running EXCEPT ![h] = 2]
    /\ UNCHANGED <<nexus, job, archived, house, dropped>>

\* The look-up is trusted.
BuggyIsNew(h) == TRUE

\* The primary key of HandHistory.
IsNew(h) == IdOf[h] \notin archived

\* The transaction; a refused key fails the attempt like any error.
Save(h) ==
    /\ running[h] > 0 /\ IsNew(h)
    /\ archived' = archived \cup {IdOf[h]} /\ house' = house + RakeOf[h]
    /\ job' = [job EXCEPT ![h] = Done]
    /\ running' = [running EXCEPT ![h] = @ - 1]
    /\ UNCHANGED <<nexus, faults, dropped>>

Fail(h) ==
    /\ running[h] > 0
    /\ IF IsNew(h) THEN May /\ faults' = faults + 1 ELSE UNCHANGED faults
    /\ job' = [job EXCEPT ![h] = IF Queued(h) THEN @ - 1 ELSE @]
    /\ running' = [running EXCEPT ![h] = @ - 1]
    /\ dropped' = dropped \cup {x \in {h} : job[h] = 1 /\ IsNew(h)}
    /\ UNCHANGED <<nexus, archived, house>>

Consumer == Discover \/ ReadStreams \/ AddJob \/ Acknowledge
Worker == \E h \in Hands : LookUp(h) \/ Save(h)
HistNext ==
    \/ \E h \in Hands : HandEnds(h)
    \/ Consumer \/ Interrupted
    \/ Worker \/ \E h \in Hands : Stalled(h) \/ Fail(h)

\* The loop and the queue's workers run on; a job that failed is tried again.
HistFairness ==
    /\ WF_hist(Consumer)
    /\ \A h \in Hands : WF_hist(LookUp(h)) /\ WF_hist(Save(h)) /\ WF_hist(Fail(h) /\ ~IsNew(h))

(***************************************************************************)
(* Properties.                                                             *)
(***************************************************************************)
Ids == {IdOf[h] : h \in Hands}

\* The house is credited the rake of every saved hand once, however often its job is run
\* (ARCHITECTURE.md "Jobs must be safe to run twice"), and of no other.
RakeOnce ==
    \E S \in SUBSET Hands :
        /\ \A h \in S : h \in ToSet(stream[TableOf[h]])
        /\ Cardinality(S) = Cardinality(archived) /\ {IdOf[h] : h \in S} = archived
        /\ house = SumFunctionOnSet(RakeOf, S)

\* A hand that ended is saved, or another table's hand under its id, unless its stream was
\* not yet followed, its delivery was lost to a restart or its job failed three times.
HandsKept ==
    \A h \in Hands :
        h \in ToSet(stream[TableOf[h]]) ~> (IdOf[h] \in archived \/ h \in dropped)
=============================================================================

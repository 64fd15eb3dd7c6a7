------------------------------ MODULE Sessions ------------------------------
(***************************************************************************)
(* Who speaks for a seat: the gateway's map of sockets to seats, the seat  *)
(* index in Redis, the offline flag, the sit-out sweepers and the reaper,  *)
(* around one table.  Socket ids are never used twice: a refresh is a new  *)
(* socket, and a user may have several open at a time.                     *)
(***************************************************************************)
EXTENDS Integers, FiniteSets

CONSTANTS
    Sockets,        \* every socket id that appears in a behaviour
    Users, Nobody,
    Owner,          \* whose socket it is
    Places

ASSUME UsersAssumption == Owner \in [Sockets -> Users] /\ Nobody \notin Users
ASSUME PlacesAssumption == Places \subseteq Nat

VARIABLES
    conn,           \* is the socket "new", "open" or "closed"
    room,           \* the sockets in the table's room
    sessions,       \* the seat a socket's session names, or Nowhere
    tasks,          \* where the socket's handler in flight is, and its seat
    seats,          \* who sits there, or Nobody
    away,           \* seats whose player is marked offline
    overdue,        \* of these, offline for a minute
    benched,        \* seats that sit out
    index,          \* the seat user:{id}:seats names, or Nowhere
    posted,         \* the players of the state a broadcast is about to send, or NoPost
    sweepers,       \* seats with a sit-out sweeper set
    reaping,        \* what the reaper's snapshot still has to kick
    orphaned,       \* history: sockets whose session, or the one they are about to have,
                    \* is for a seat its user lost through another socket or a script
    excused         \* history: sockets given a session while their player was offline, or
                    \* whose seat a session of another marked offline

desk == <<conn, room, sessions, tasks, posted>>
chairs == <<seats, away, overdue, benched>>
books == <<index, sweepers, reaping>>
ghosts == <<orphaned, excused>>
sess == <<desk, chairs, books, ghosts>>

Nowhere == -1
NoPost == <<>>
Idle == [at |-> "idle", seat |-> Nowhere]
Doing(at, seat) == [at |-> at, seat |-> seat]

SessionsOf(u) == {s \in Sockets : Owner[s] = u /\ sessions[s] # Nowhere}
SeatsOf(u) == {x \in Places : seats[x] = u}

\* The seat of a user among players, or Nowhere.
SeatIn(players, u) ==
    CHOOSE x \in Places \cup {Nowhere} :
        IF \E y \in Places : players[y] = u THEN x # Nowhere /\ players[x] = u ELSE x = Nowhere

\* The seat a socket acts for: without a session, the one found in the players hash.
Healed(s) == IF sessions[s] # Nowhere THEN sessions[s] ELSE SeatIn(seats, Owner[s])

SessInit ==
    /\ conn = [s \in Sockets |-> "new"] /\ room = {}
    /\ sessions = [s \in Sockets |-> Nowhere]
    /\ tasks = [s \in Sockets |-> Idle] /\ posted = NoPost
    /\ seats = [x \in Places |-> Nobody] /\ away = {} /\ overdue = {} /\ benched = {}
    /\ index = [u \in Users |-> Nowhere] /\ sweepers = {} /\ reaping = {}
    /\ orphaned = {} /\ excused = {}

(***************************************************************************)
(* What the scripts do to a record.                                        *)
(***************************************************************************)
\* set_online.lua.
GoesOnline(x) ==
    /\ away' = away \ {x} /\ overdue' = overdue \ {x} /\ benched' = benched \ {x}
    /\ excused' = {s \in excused : sessions[s] # x}

\* leave_table.lua: whoever has or is about to have a session for the seat through a
\* socket other than the one that is told is orphaned.
Vacate(x, told) ==
    /\ seats' = [seats EXCEPT ![x] = Nobody]
    /\ away' = away \ {x} /\ overdue' = overdue \ {x} /\ benched' = benched \ {x}
    /\ orphaned' = (orphaned \ told) \cup
           {s \in Sockets \ told : Owner[s] = seats[x] /\ x \in {sessions[s], tasks[s].seat}}
    /\ excused' = {s \in excused : sessions[s] # x}

(***************************************************************************)
(* Connections.                                                            *)
(***************************************************************************)
Connect(s) ==
    /\ conn[s] = "new"
    /\ conn' = [conn EXCEPT ![s] = "open"]
    /\ tasks' = [tasks EXCEPT ![s] = Doing("index", Nowhere)]
    /\ UNCHANGED <<room, sessions, chairs, books, ghosts, posted>>

\* The index, or a session in memory, tells where the user sits.
ReadIndex(s) ==
    LET u == Owner[s]
        known == IF index[u] # Nowhere THEN {index[u]}
                 ELSE {sessions[t] : t \in SessionsOf(u)}
    IN  /\ tasks[s].at = "index"
        /\ IF known = {}
           THEN tasks' = [tasks EXCEPT ![s] = Idle]
           ELSE \E x \in known : tasks' = [tasks EXCEPT ![s] = Doing("check", x)]
        /\ UNCHANGED <<conn, room, sessions, chairs, books, ghosts, posted>>

\* The seat in the players hash must be his; otherwise the index is cleaned.
CheckSeat(s) ==
    LET mine == seats[tasks[s].seat] = Owner[s]
    IN  /\ tasks[s].at = "check"
        /\ tasks' = [tasks EXCEPT ![s] = IF mine THEN Doing("reseat", @.seat) ELSE Idle]
        /\ index' = IF mine THEN index ELSE [index EXCEPT ![Owner[s]] = Nowhere]
        /\ UNCHANGED <<conn, room, sessions, chairs, sweepers, reaping, ghosts, posted>>

\* The new socket takes over: the user's other sessions are deleted.
Reseat(s) ==
    LET x == tasks[s].seat
    IN  /\ tasks[s].at = "reseat"
        /\ tasks' = [tasks EXCEPT ![s] = Idle]
        /\ sessions' = [t \in Sockets |-> IF t = s THEN x
                                          ELSE IF Owner[t] = Owner[s] THEN Nowhere
                                          ELSE sessions[t]]
        /\ room' = IF conn[s] = "open" THEN room \cup {s} ELSE room
        /\ GoesOnline(x)
        /\ UNCHANGED <<conn, seats, books, orphaned, posted>>

\* The last session of a player marks him offline whether or not he is there already.
BuggyLastTab(s) == TRUE

\* handleDisconnect's guard against a newer session.
LastTab(s) == SessionsOf(Owner[s]) = {s}

\* A player that is marked offline is whoever sits on the session's seat.
Disconnect(s) ==
    LET x == sessions[s]
        leaves == x # Nowhere /\ LastTab(s) /\ seats[x] # Nobody
    IN  /\ conn[s] = "open"
        /\ conn' = [conn EXCEPT ![s] = "closed"]
        /\ room' = room \ {s}
        /\ sessions' = [sessions EXCEPT ![s] = Nowhere]
        /\ away' = IF leaves THEN away \cup {x} ELSE away
        /\ overdue' = IF leaves THEN overdue \ {x} ELSE overdue
        /\ orphaned' = orphaned \ {t \in {s} : tasks[t].seat = Nowhere}
        /\ excused' = (excused \ {s}) \cup
               {t \in Sockets \ {s} : leaves /\ seats[x] # Owner[s] /\ sessions[t] = x}
        /\ UNCHANGED <<tasks, seats, benched, books, posted>>

(***************************************************************************)
(* What clients send.                                                      *)
(***************************************************************************)
Free(s) == conn[s] = "open" /\ tasks[s] = Idle

\* Sessions recovered from what is known of the players; nobody is marked online again.
Recovers(S, players) ==
    LET found == [s \in S |-> IF sessions[s] # Nowhere THEN sessions[s]
                              ELSE SeatIn(players, Owner[s])]
        new == {s \in S : sessions[s] = Nowhere /\ found[s] # Nowhere}
    IN  /\ sessions' = [s \in Sockets |-> IF s \in S THEN found[s] ELSE sessions[s]]
        /\ excused' = excused \cup {s \in new : found[s] \in away}
        /\ orphaned' = (orphaned \ {s \in new : tasks[s] = Idle})
                          \cup {s \in new : seats[found[s]] # Owner[s]}

Subscribe(s) ==
    /\ Free(s)
    /\ room' = room \cup {s}
    /\ Recovers({s}, seats)
    /\ UNCHANGED <<conn, tasks, posted, chairs, books>>

\* A script has answered with the state; its handler broadcasts it after other awaits.
Post ==
    /\ posted = NoPost /\ posted' = seats
    /\ UNCHANGED <<conn, room, sessions, tasks, chairs, books, ghosts>>

\* broadcastTableState: the sockets of the room without a session are given one, and each
\* is sent the cards of its session's seat.
Broadcast ==
    /\ posted # NoPost /\ posted' = NoPost
    /\ Recovers(room, posted)
    /\ UNCHANGED <<conn, room, tasks, chairs, books>>

\* The duplicate check of join_table.lua.
Seatable(u, x) == SeatsOf(u) = {} /\ seats[x] = Nobody

\* handleJoinTable up to join_table.lua; a player who has a seat keeps it ("again").
Join(s, x) ==
    LET u == Owner[s]
    IN  /\ Free(s)
        /\ \/ /\ Seatable(u, x)
              /\ seats' = [seats EXCEPT ![x] = u]
              /\ tasks' = [tasks EXCEPT ![s] = Doing("joined", x)]
           \/ /\ \E y \in SeatsOf(u) : tasks' = [tasks EXCEPT ![s] = Doing("again", y)]
              /\ UNCHANGED seats
        /\ UNCHANGED <<conn, room, sessions, away, overdue, benched, books, ghosts, posted>>

\* The funds are locked; now the session, the index and the room follow.
Joined(s) ==
    LET x == tasks[s].seat
    IN  /\ tasks[s].at \in {"joined", "again"}
        /\ tasks' = [tasks EXCEPT ![s] = Idle]
        /\ sessions' = [sessions EXCEPT ![s] = x]
        /\ index' = [index EXCEPT ![Owner[s]] = x]
        /\ room' = IF conn[s] = "open" THEN room \cup {s} ELSE room
        /\ IF tasks[s].at = "again" /\ seats[x] # Nobody THEN GoesOnline(x)
           ELSE /\ excused' = IF x \in away THEN excused \cup {s} ELSE excused
                /\ UNCHANGED <<away, overdue, benched>>
        /\ orphaned' = orphaned \ {t \in {s} : seats[x] = Owner[s]}
        /\ UNCHANGED <<conn, seats, sweepers, reaping, posted>>

\* lockFunds failed: the seat the client asked for is deleted, whoever has it.
NotPaid(s, x) ==
    /\ tasks[s].at \in {"joined", "again"}
    /\ tasks[s].at = "joined" => x = tasks[s].seat
    /\ tasks' = [tasks EXCEPT ![s] = Idle]
    /\ Vacate(x, IF seats[x] = Owner[s] /\ sessions[s] = Nowhere THEN {s} ELSE {})
    /\ UNCHANGED <<conn, room, sessions, books, posted>>

\* The session outlives the seat.
BuggyLeave(s) ==
    LET x == Healed(s)
    IN  /\ Free(s) /\ x # Nowhere /\ seats[x] = Owner[s]
        /\ Vacate(x, {s})
        /\ room' = room \ {s} /\ index' = [index EXCEPT ![Owner[s]] = Nowhere]
        /\ UNCHANGED <<conn, sessions, tasks, sweepers, reaping, posted>>

\* The sessions of the player's other tabs are kept, as the index is cleared.
Leave(s) ==
    LET x == Healed(s)
    IN  /\ Free(s) /\ x # Nowhere
        /\ IF seats[x] = Owner[s]
           THEN /\ Vacate(x, {s})
                /\ sessions' = [sessions EXCEPT ![s] = Nowhere]
                /\ room' = room \ {s}
                /\ index' = [index EXCEPT ![Owner[s]] = Nowhere]
           ELSE UNCHANGED <<sessions, room, index, chairs, ghosts>>
        /\ UNCHANGED <<conn, tasks, sweepers, reaping, posted>>

\* toggle_sit_out.lua asks for the seat only; the sweeper is set and cancelled by seat.
SitOut(s) ==
    LET x == Healed(s)
    IN  /\ Free(s) /\ x # Nowhere /\ seats[x] # Nobody
        /\ IF x \in benched
           THEN benched' = benched \ {x} /\ sweepers' = sweepers \ {x}
           ELSE benched' = benched \cup {x} /\ sweepers' = sweepers \cup {x}
        /\ Recovers({s}, seats)
        /\ UNCHANGED <<conn, room, tasks, posted, seats, away, overdue, index, reaping>>

(***************************************************************************)
(* Players put out.                                                        *)
(***************************************************************************)
\* timeout.lua.
Bench(x) ==
    /\ seats[x] # Nobody
    /\ benched' = benched \cup {x}
    /\ UNCHANGED <<desk, seats, away, overdue, books, ghosts>>

\* forceStandUp: the first session of the user that is found is deleted, and the index
\* is cleared only if there is one.
StandUp(x) ==
    LET u == seats[x]
        busy == {s \in Sockets : tasks[s].seat # Nowhere}
    IN  \/ /\ SessionsOf(u) = {}
           /\ Vacate(x, {}) /\ UNCHANGED <<sessions, index>>
        \/ \E s \in SessionsOf(u) :
              /\ Vacate(x, {s} \ busy)
              /\ sessions' = [sessions EXCEPT ![s] = Nowhere]
              /\ index' = [index EXCEPT ![u] = Nowhere]

\* The timer fires on whoever sits out there now.
Sweep(x) ==
    /\ x \in sweepers
    /\ sweepers' = sweepers \ {x}
    /\ IF x \in benched THEN StandUp(x)
       ELSE UNCHANGED <<sessions, index, chairs, ghosts>>
    /\ UNCHANGED <<conn, room, tasks, reaping, posted>>

Kick(x) ==
    /\ seats[x] # Nobody
    /\ StandUp(x)
    /\ UNCHANGED <<conn, room, tasks, sweepers, reaping, posted>>

MinutePasses ==
    /\ overdue # away
    /\ overdue' = away
    /\ UNCHANGED <<desk, seats, away, benched, books, ghosts>>

\* Only players who sit out are reaped.
BuggyDoomed(x) == x \in overdue \cap benched

\* The reaper's rule on players offline for a minute.
Doomed(x) == x \in overdue

\* One sweep decides from one snapshot of the table.
ReapLook ==
    /\ reaping = {} /\ \E x \in Places : Doomed(x)
    /\ reaping' = {<<x, seats[x]>> : x \in {y \in Places : Doomed(y)}}
    /\ UNCHANGED <<desk, chairs, index, sweepers, ghosts>>

\* leave_table.lua checks who sits there; the sessions are left alone.
ReapKick ==
    \E x \in Places, u \in Users :
        /\ <<x, u>> \in reaping
        /\ reaping' = reaping \ {<<x, u>>}
        /\ IF seats[x] = u
           THEN Vacate(x, {}) /\ index' = [index EXCEPT ![u] = Nowhere]
           ELSE UNCHANGED <<index, chairs, ghosts>>
        /\ UNCHANGED <<desk, sweepers>>

(***************************************************************************)
(* The specification.                                                      *)
(***************************************************************************)
Handlers ==
    \E s \in Sockets : ReadIndex(s) \/ CheckSeat(s) \/ Reseat(s) \/ Joined(s)

Clients ==
    \/ \E s \in Sockets : \/ Connect(s) \/ Disconnect(s) \/ Subscribe(s) \/ Leave(s)
                          \/ SitOut(s)
                          \/ \E x \in Places : Join(s, x) \/ NotPaid(s, x)
    \/ \E x \in Places : Bench(x) \/ Kick(x)

Clockwork == (\E x \in Places : Sweep(x)) \/ MinutePasses \/ ReapLook \/ ReapKick

SessNext == Handlers \/ Clients \/ Post \/ Broadcast \/ Clockwork

\* The minute passes and the reaper's interval runs on.
SessFairness == WF_sess(MinutePasses) /\ WF_sess(ReapLook) /\ WF_sess(ReapKick)

(***************************************************************************)
(* Properties.                                                             *)
(***************************************************************************)
\* A socket sees the cards of its own player and acts for nobody else, whatever is
\* lost, recovered or given to another in the meantime; except through the session of
\* a tab whose player's seat was given up elsewhere (game.gateway.ts "each player only
\* sees their own").
OwnSeatOnly ==
    \A s \in Sockets \ orphaned :
        sessions[s] # Nowhere => seats[sessions[s]] \in {Owner[s], Nobody}

\* A player is not marked offline while a session of his is open, refreshes and closing
\* tabs in any order; except through a session given to a
\* tab after he was marked, or one left behind by the seat's former player.
OnlineWhileHere ==
    \A s \in Sockets \ (orphaned \cup excused) :
        sessions[s] # Nowhere /\ conn[s] = "open" => sessions[s] \notin away

\* Who is offline comes back or is removed by the reaper.
OfflineLeaves == \A x \in Places : (x \in away) ~> (x \notin away)
=============================================================================

------------------------------- MODULE MCMoney ------------------------------
(***************************************************************************)
(* The cash desk, for TLC: up to MaxEvents requests, faults and moves of   *)
(* the table in a behaviour, the handlers interleaved in any way.          *)
(***************************************************************************)
EXTENDS MoneyProps

CONSTANT MaxEvents      \* bound: what is done in a behaviour
VARIABLE events         \* how much has been done

\* Seats and users are alike: those taken at first are the first ones, by those whose
\* deposits are the first rows.
MCInit ==
    /\ MoneyInit
    /\ \A s, r \in Seats : r < s /\ seats[r] = Empty => seats[s] = Empty
    /\ \A s \in Seats : seats[s] # Empty => seats[s].user = rows[s + 1].user
    /\ events = 0

MCNext ==
    /\ \/ ServerNext /\ UNCHANGED events
       \/ EventNext /\ events < MaxEvents /\ events' = events + 1
    /\ Misses

MCSpec == MCInit /\ [][MCNext]_<<money, events>>
=============================================================================

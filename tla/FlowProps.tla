----------------------------- MODULE FlowProps ------------------------------
(***************************************************************************)
(* What the gateway owes a table, stated of TableFlow.                     *)
(***************************************************************************)
EXTENDS TableFlow

InProgress == phase \in Streets

\* Whenever the gateway is done with everything it was told, a hand that is being
\* played either runs out by itself or has a clock: a job for the seat to act.  Only
\* a player who leaves in the middle of it, or an action that is refused, can take
\* the clock away.
ClockRuns ==
    Quiet /\ InProgress /\ upsets \cap {"left", "refused"} = {} =>
        \/ \E t \in ToSet(timers) : t.kind = "advance"
        \/ \E j \in jobs : j.seat = turnSeat

\* Nobody is timed out by the clock of an earlier turn: when the gateway is done, no
\* job but the one the key names waits for the seat to act.
OneClock ==
    Quiet => \A j \in jobs : j.seat = turnSeat => j.id = key

\* A hand is dealt only when the pot of the last one has been paid, unless its
\* settlement failed, players left in the middle of it, or it was paused and the table
\* was resumed as one at rest (startNewHand's guard).
DealsOverNothing ==
    [][hands' > hands => ~pot \/ upsets \cap {"failed", "left", "paused"} # {}]_flowVars

\* While a table is paused nothing is dealt at it, whatever timers were running when it was
\* paused; and no street is turned.
PauseHolds == [][phase = "paused" => hands' = hands /\ phase' \notin Streets]_flowVars

\* Who can be dealt in: right after a hand, whoever is seated and does not sit out; at a
\* table at rest, those whom handleAddChips counts, as a job that outlived its hand may fold
\* a seat there.
Ready == IF phase = "showdown" THEN Dealable ELSE Standing(standing, {"active", "waiting"})

\* An idle table with two players who can be dealt in is not forgotten: a start is pending.
\* Left aside are a reconnection and a resumed pause, which start nothing, and a leave that
\* clears the timer of a hand being celebrated.
StartPending ==
    /\ Quiet /\ hands < MaxHands /\ ~InProgress
    /\ Cardinality(Ready) >= 2
    /\ upsets \cap {"left", "online", "paused"} = {}
    => \E t \in ToSet(timers) : t.kind # "advance"

\* Every hand comes to an end whatever the players do, short of the two upsets: the
\* clock acts for who does not, and streets run out.
HandsEnd ==
    \A h \in 1..MaxHands :
        InProgress /\ hands = h ~> hands # h \/ ~InProgress \/ upsets # {}
=============================================================================

----------------------------- MODULE ClientPots -----------------------------
(***************************************************************************)
(* The pots the web client shows while a hand is played: computeSidePots,  *)
(* from the same contributions the showdown divides.  What nobody else can *)
(* contest is left out, and what no slice accounts for is added to the     *)
(* main pot.                                                               *)
(***************************************************************************)
EXTENDS SidePots, FiniteSetsExt, Functions

\* The distinct contributions of the players in the hand.
ShownLevels(contrib, alive) == {contrib[s] : s \in alive} \ {0}

\* The next lower one.
ShownBelow(contrib, alive, level) ==
    Max({0} \cup {k \in ShownLevels(contrib, alive) : k < level})

\* Only the players in the hand are counted.
BuggyShownSlice(contrib, alive, level) ==
    (level - ShownBelow(contrib, alive, level)) * Cardinality({s \in alive : contrib[s] >= level})

\* Everybody who put in the level pays the slice.
ShownSlice(contrib, alive, level) ==
    (level - ShownBelow(contrib, alive, level)) * Cardinality({s \in Seats : contrib[s] >= level})

ContestedLevels(contrib, alive) ==
    {k \in ShownLevels(contrib, alive) : Cardinality({s \in alive : contrib[s] >= k}) > 1}

ShownSlices(contrib, alive) ==
    SumFunction([k \in ShownLevels(contrib, alive) |-> ShownSlice(contrib, alive, k)])

\* The pots shown: amounts and who may win them.
ShownPots(contrib, alive, total) ==
    LET levels == ShownLevels(contrib, alive)
        dead == total - ShownSlices(contrib, alive)
    IN  IF total <= 0 THEN {}
        ELSE IF Cardinality(alive) <= 1 \/ Cardinality(levels) <= 1
        THEN {[amount |-> total, players |-> alive]}
        ELSE {[amount |-> ShownSlice(contrib, alive, k) + (IF k = Min(levels) THEN Larger(0, dead)
                                                           ELSE 0),
               players |-> {s \in alive : contrib[s] >= k}] : k \in ContestedLevels(contrib, alive)}
=============================================================================

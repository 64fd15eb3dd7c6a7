------------------------------ MODULE SidePots ------------------------------
(***************************************************************************)
(* How showdown.lua divides a pot: one slice per distinct contribution,    *)
(* each slice scaled down by the rake and split between the best hands     *)
(* among the contenders that paid the whole slice.                         *)
(*                                                                         *)
(* contrib  what each seat has put into the pot this hand                  *)
(* alive    the seats still in the hand (status active or all-in)          *)
(* score    the hand values the gateway evaluated, a function on the seats *)
(*          it evaluated                                                   *)
(***************************************************************************)
EXTENDS SeatMath

CONSTANTS RakePercent,   \* the house's percentage of the pot
          RakeCap        \* and the most it takes

\* The table form admits at most 10 %; for these whole percents the product that
\* showdown.lua rounds down is exact in double precision.
ASSUME RakeAssumption == RakePercent \in 0..10 /\ RakeCap \in Nat

Rake(gross) == Smaller((gross * RakePercent) \div 100, RakeCap)

\* Where the slice that ends at level begins: the next lower contribution.
LevelBelow(contrib, level) ==
    SeatMax([s \in Seats |-> IF contrib[s] < level THEN contrib[s] ELSE 0])

\* BuggySlice, and the other Buggy... operators here: slips that one could make in the
\* definition that follows.  Nothing uses them; see TableEngine.
BuggySlice(contrib, level) ==
    SeatSum([s \in Seats |-> Smaller(contrib[s], level)])

\* The chips of the slice that ends at level.
Slice(contrib, level) ==
    SeatSum([s \in Seats |->
        Larger(0, Smaller(contrib[s], level) - LevelBelow(contrib, level))])

BuggyWinners(contrib, alive, score, level) ==
    {s \in alive \cap DOMAIN score :
        \A t \in alive \cap DOMAIN score : score[t] <= score[s]}

Winners(contrib, alive, score, level) ==
    LET eligible == {s \in alive \cap DOMAIN score : contrib[s] >= level}
    IN  {s \in eligible : \A t \in eligible : score[t] <= score[s]}

\* math.floor(slice * (net / gross)), exactly ...
Scaled(slice, gross, net) == IF gross > 0 THEN (slice * net) \div gross ELSE 0

\* ... and in double precision: where the exact product is a whole number, the
\* rounded product may fall just short of it (2105 * (2000 / 2105) < 2000).
MayFallShort(slice, gross, net) ==
    /\ net < gross
    /\ Scaled(slice, gross, net) > 0
    /\ (slice * net) % gross = 0

\* One level may be met at several seats; its lowest seat stands for it.
LevelSeats(contrib) ==
    {s \in Seats : contrib[s] > 0 /\ \A t \in Seats : contrib[t] = contrib[s] => s <= t}

BuggyPart(amount, winners, first, s) ==
    IF s \in winners THEN amount \div Cardinality(winners) ELSE 0

\* What a winner receives of an amount: an equal part, and the odd chips if
\* he is the one the script meets first.  Its pairs() loop has no fixed order.
Part(amount, winners, first, s) ==
    IF s \in winners
      THEN amount \div Cardinality(winners)
             + (IF s = first THEN amount % Cardinality(winners) ELSE 0)
      ELSE 0

\* The slices somebody can win, each by the seat that stands for its level.
Winnable(contrib, alive, score) ==
    {r \in LevelSeats(contrib) : Winners(contrib, alive, score, contrib[r]) # {}}

\* Seat s's part of the slice that seat r stands for.
SlicePart(contrib, alive, score, gross, net, first, short, r, s) ==
    Part(Scaled(Slice(contrib, contrib[r]), gross, net) - (IF r \in short THEN 1 ELSE 0),
         Winners(contrib, alive, score, contrib[r]), first[r], s)

\* All that each seat gets, when first names who is met first for each winnable slice.
Due(contrib, alive, score, gross, net, first, short) ==
    [s \in Seats |-> SeatSum([r \in Seats |->
        IF r \in DOMAIN first
          THEN SlicePart(contrib, alive, score, gross, net, first, short, r, s) ELSE 0])]

\* The payouts showdown.lua may make of a pot of gross chips, net of rake.
Payouts(contrib, alive, score, gross, net) ==
    LET paid == Winnable(contrib, alive, score)
        firsts == {f \in [paid -> Seats] :
                     \A r \in paid : f[r] \in Winners(contrib, alive, score, contrib[r])}
        shorts == SUBSET {r \in paid : MayFallShort(Slice(contrib, contrib[r]), gross, net)}
    IN  {Due(contrib, alive, score, gross, net, f, short) : f \in firsts, short \in shorts}
=============================================================================

------------------------------ MODULE PotSplit ------------------------------
(***************************************************************************)
(* showdown.lua as a function: every pot of a bounded table is split once  *)
(* and compared with a reference that knows nothing of side pots.          *)
(*                                                                         *)
(* The reference deals with one layer of chips at a time: the k-th chip of *)
(* everybody who put in at least k of them belongs to the best hands among *)
(* the contenders who put in at least k.                                   *)
(***************************************************************************)
EXTENDS ClientPots

CONSTANTS
    Bets,           \* bound: what a seat may have put into the pot
    DeadMoney,      \* chips in the pot that no seat is recorded to have put in
    HandValues      \* bound: the scores of hands

ASSUME PotAssumption ==
    Bets \subseteq Nat /\ DeadMoney \subseteq Nat /\ HandValues \subseteq Nat

VARIABLES contrib, alive, score, gross, won

pots == <<contrib, alive, score, gross, won>>

Unpaid == [s \in Seats |-> 0]

Net == gross - Rake(gross)

PotInit ==
    /\ contrib \in [Seats -> Bets]
    /\ alive \in (SUBSET Seats) \ {{}}
    /\ score \in [alive -> HandValues]
    /\ gross \in {SeatSum(contrib) + dead : dead \in DeadMoney}
    /\ won = Unpaid

Split ==
    /\ won = Unpaid
    /\ won' \in Payouts(contrib, alive, score, gross, Net)
    /\ UNCHANGED <<contrib, alive, score, gross>>

PotSpec == PotInit /\ [][Split]_pots

Layer(k) == {s \in Seats : contrib[s] >= k}

Claim(k) ==
    LET contenders == alive \cap Layer(k)
    IN  {s \in contenders : \A t \in contenders : score[t] <= score[s]}

\* Every number of winners up to ten divides it.
Common == 2520

\* Common times the chips due to seat s: the winners of a layer share it evenly.
CommonDue(s) ==
    SumFunction([k \in 1..SeatMax(contrib) |->
                    IF s \in Claim(k)
                      THEN (Common * Cardinality(Layer(k))) \div Cardinality(Claim(k))
                      ELSE 0])

\* Rounding may cost or give a seat a chip per winner of each side pot.
Slack == SeatSum([r \in Seats |-> IF r \in LevelSeats(contrib)
                                    THEN Cardinality(Claim(contrib[r])) ELSE 0])

\* Each seat is paid what the layers of chips owe it, less its part of the rake and
\* but for the rounding of each side pot (showdown.lua's slices and shares).
FairShare ==
    won # Unpaid =>
        \A s \in Seats :
            /\ Common * gross * won[s] <= CommonDue(s) * Net + Common * gross * Slack
            /\ Common * gross * won[s] >= CommonDue(s) * Net - Common * gross * Slack

\* Nobody folded between two contributions of the contenders.
FoldsAligned ==
    LET levels == ShownLevels(contrib, alive)
    IN  \A s \in Seats \ alive :
            levels # {} => contrib[s] \in levels \cup 0..Min(levels) \/ contrib[s] >= Max(levels)

\* While the hand is played the client shows each contender the pots he can win: the layers
\* he has paid that somebody else can contest and, if he has paid at all, all the folded put
\* in deeper and all the dead money; unless somebody folded between two contributions, whose
\* chips of the upper layer are shown in the main pot (useGameTable.ts computeSidePots).
PotsShown ==
    LET shown == ShownPots(contrib, alive, gross)
        top == Max({contrib[s] : s \in alive})
        depth == IF Cardinality(ShownLevels(contrib, alive)) <= 1 THEN 0 ELSE top
        loose == gross - SumFunction([k \in 1..depth |-> Cardinality(Layer(k))])
        owed(s) == SumFunction([k \in 1..Smaller(depth, contrib[s]) |->
                       IF Cardinality(Layer(k) \cap alive) > 1 THEN Cardinality(Layer(k)) ELSE 0])
    IN  won = Unpaid /\ FoldsAligned =>
        \A s \in alive :
            SumFunction([p \in {q \in shown : s \in q.players} |-> p.amount])
              = owed(s) + (IF depth = 0 \/ contrib[s] > 0 THEN loose ELSE 0)
=============================================================================

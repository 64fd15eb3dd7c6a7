----------------------------- MODULE HandRanks ------------------------------
(***************************************************************************)
(* What a player's browser says he holds (handEvaluator.ts, which packs a  *)
(* hand's ranks into one number) against what the showdown compares        *)
(* (hand-evaluator.service.ts, which leaves the comparison of two hands to *)
(* a library: here it is the rule book's, rank by rank).                   *)
(***************************************************************************)
EXTENDS Integers, Sequences, Functions, FiniteSets, FiniteSetsExt

CONSTANTS
    Deck,           \* bound: the cards dealt from, records of rank (2..14) and suit
    HoleSizes       \* bound: two cards are hold'em, more are Omaha

ASSUME DeckAssumption == Deck \subseteq [rank : 2..14, suit : {"s", "h", "d", "c"}]

VARIABLES hole, board

hand == <<hole, board>>

RankInit == hole = {} /\ board = {}

DealHand ==
    /\ hole = {}
    /\ \E k \in HoleSizes : hole' \in kSubset(k, Deck)
    /\ board' \in kSubset(5, Deck \ hole')

RankSpec == RankInit /\ [][DealHand]_hand

(***************************************************************************)
(* The five cards a player may use.                                        *)
(***************************************************************************)
\* As the browser puts them together, and as the server does.
ShownHands ==
    IF Cardinality(hole) > 2 THEN {h \cup b : h \in kSubset(2, hole), b \in kSubset(3, board)}
                             ELSE kSubset(5, hole \cup board)

DealtHands ==
    IF Cardinality(hole) > 2 THEN {h \cup b : h \in kSubset(2, hole), b \in kSubset(3, board)}
                             ELSE kSubset(5, hole \cup board)

(***************************************************************************)
(* evaluate5.                                                              *)
(***************************************************************************)
RanksIn(h) == {c.rank : c \in h}
IsFlush(h) == Cardinality({c.suit : c \in h}) = 1
CountOf(h, r) == Cardinality({c \in h : c.rank = r})

\* The ranks of a hand, the frequent ones first and the higher before the lower.
Ahead(h, r) ==
    {q \in RanksIn(h) : \/ CountOf(h, q) > CountOf(h, r)
                        \/ CountOf(h, q) = CountOf(h, r) /\ q > r}

Ranked(h) ==
    [i \in 1..Cardinality(RanksIn(h)) |->
        CHOOSE r \in RanksIn(h) : Cardinality(Ahead(h, r)) = i - 1]

Counts(h) == LET ranked == Ranked(h) IN [i \in DOMAIN ranked |-> CountOf(h, ranked[i])]

Wheel == {14, 5, 4, 3, 2}

\* The wheel is taken for a straight to the ace.
BuggyStraightHigh(h) ==
    IF Cardinality(RanksIn(h)) = 5
         /\ (RanksIn(h) = Wheel \/ Max(RanksIn(h)) - Min(RanksIn(h)) = 4)
    THEN Max(RanksIn(h)) ELSE 0

\* The top of a straight, or 0.
StraightHigh(h) ==
    IF RanksIn(h) = Wheel THEN 5
    ELSE IF Cardinality(RanksIn(h)) = 5 /\ Max(RanksIn(h)) - Min(RanksIn(h)) = 4
    THEN Max(RanksIn(h)) ELSE 0

\* Five ranks as the digits of one number.
Fifteens(v) == v[1] * 50625 + v[2] * 3375 + v[3] * 225 + v[4] * 15 + v[5]

Evaluate5(h) ==
    LET counts == Counts(h)
        v == Ranked(h)
        high == StraightHigh(h)
        Is(rank, score) == [rank |-> rank, score |-> score]
    IN  CASE IsFlush(h) /\ high = 14 -> Is(9, 14)
          [] IsFlush(h) /\ high \in 1..13 -> Is(8, high)
          [] counts[1] = 4 -> Is(7, v[1] * 100 + v[2])
          [] counts[1] = 3 /\ counts[2] = 2 -> Is(6, v[1] * 100 + v[2])
          [] IsFlush(h) /\ high = 0 -> Is(5, Fifteens(v))
          [] ~IsFlush(h) /\ high > 0 -> Is(4, high)
          [] counts[1] = 3 /\ counts[2] = 1 -> Is(3, v[1] * 10000 + v[2] * 100 + v[3])
          [] counts[1] = 2 /\ counts[2] = 2 -> Is(2, v[1] * 10000 + v[2] * 100 + v[3])
          [] counts[1] = 2 /\ counts[2] = 1 ->
              Is(1, v[1] * 1000000 + v[2] * 10000 + v[3] * 100 + v[4])
          [] counts[1] = 1 /\ ~IsFlush(h) /\ high = 0 -> Is(0, Fifteens(v))

Outranks(e, f) == e.rank > f.rank \/ (e.rank = f.rank /\ e.score > f.score)

\* findBest, whose result is no worse than any other.
Said(results) == CHOOSE e \in results : \A f \in results : ~Outranks(f, e)

(***************************************************************************)
(* The rule book: first the shape of a hand, among whose patterns of equal *)
(* ranks straights and flushes find their places, then its ranks.          *)
(***************************************************************************)
IsStraight(h) == RanksIn(h) = Wheel \/ \E r \in 2..10 : RanksIn(h) = r..(r + 4)

Strength(h) ==
    (IF IsStraight(h) /\ IsFlush(h) THEN <<5>>
     ELSE IF IsFlush(h) THEN <<3, 1, 3>>
     ELSE IF IsStraight(h) THEN <<3, 1, 2>> ELSE Counts(h))
    \o (IF RanksIn(h) = Wheel THEN <<5>> ELSE Ranked(h))

Below(p, q) ==
    \E i \in DOMAIN p \cap DOMAIN q :
        p[i] < q[i] /\ \A j \in 1..(i - 1) : p[j] = q[j]

\* evaluateTexasHand and evaluateOmahaHand, the library ranking by the book.
Best(strengths) == CHOOSE p \in strengths : \A q \in strengths : ~Below(p, q)

(***************************************************************************)
(* Property.                                                               *)
(***************************************************************************)
\* What the browser says a player holds is what the showdown counts for him, in hold'em
\* and in Omaha: no kicker is lost in the packing, and the wheel is the lowest straight.
SaysTheBest ==
    hole # {} =>
        LET results == [h \in ShownHands |-> Evaluate5(h)]
            strengths == [h \in DealtHands |-> Strength(h)]
            said == Said(Range(results))
            best == Best(Range(strengths))
        IN  {h \in DOMAIN results : results[h] = said} = {h \in DOMAIN strengths : strengths[h] = best}
=============================================================================

---------------------------- MODULE SidePotProofs ----------------------------
(***************************************************************************)
(* Facts about the arithmetic of the seats and of the side pots that the   *)
(* proofs about the table cite.                                            *)
(***************************************************************************)
EXTENDS SidePots, FiniteSetTheorems, WellFoundedInduction, TLAPS

\* A set of seats is finite: the scripts' ten-seat loops end.
LEMMA SeatsFinite ==
    ASSUME NEW T \in SUBSET Seats
    PROVE  IsFiniteSet(T) /\ Cardinality(T) \in Nat /\ (Cardinality(T) = 0 <=> T = {})
<1>1. 0 \in Int /\ 9 \in Int
  OBVIOUS
<1>2. IsFiniteSet(0..9)
  BY <1>1, FS_Interval, Zenon
<1>3. T \in SUBSET (0..9)
  BY SeatsAssumption
<1>4. IsFiniteSet(T)
  BY <1>2, <1>3, FS_Subset, Zenon
<1> QED
  BY <1>4, FS_CardinalityType, FS_EmptySet

\* The sum of whole numbers over the seats is a whole number.
LEMMA SeatSumType ==
    ASSUME NEW f, \A s \in Seats : f[s] \in Int
    PROVE  SeatSum(f) \in Int
<1>1. \A i : At(f, i) \in Int
  BY DEF At
<1> QED
  BY <1>1 DEF SeatSum

\* The largest of whole numbers is a natural, as none below zero counts.
LEMMA SeatMaxType ==
    ASSUME NEW f, \A s \in Seats : f[s] \in Int
    PROVE  SeatMax(f) \in Nat
<1>1. \A i : At(f, i) \in Int
  BY DEF At
<1>2. \A a, b \in Int : Larger(a, b) \in Int
  BY DEF Larger
<1>3. \A b \in Int : Larger(0, b) \in Nat
  BY DEF Larger
<1> QED
  BY <1>1, <1>2, <1>3, Zenon DEF SeatMax

\* Sums add up seat by seat.
LEMMA SeatSumAdd ==
    ASSUME NEW f, NEW g, NEW h,
           \A s \in Seats : f[s] \in Int /\ g[s] \in Int /\ h[s] = f[s] + g[s]
    PROVE  SeatSum(h) = SeatSum(f) + SeatSum(g)
<1>1. \A i : At(f, i) \in Int /\ At(g, i) \in Int /\ At(h, i) = At(f, i) + At(g, i)
  BY DEF At
<1> QED
  BY <1>1 DEF SeatSum

\* A sum in which only seat s differs from zero is what that seat has.
LEMMA SeatSumSingle ==
    ASSUME NEW f, NEW s \in Seats, f[s] \in Int,
           \A r \in Seats \ {s} : f[r] = 0
    PROVE  SeatSum(f) = f[s]
<1>1. At(f, s) = f[s] /\ \A i : i # s => At(f, i) = 0
  BY DEF At
<1>2. s \in 0..9
  BY SeatsAssumption
<1>3. s \in {0, 1, 2, 3, 4, 5, 6, 7, 8, 9}
  BY <1>2
<1> QED
  BY <1>1, <1>3 DEF SeatSum

\* Equal summands, equal sums.
LEMMA SeatSumEqual ==
    ASSUME NEW f, NEW g, \A s \in Seats : f[s] = g[s]
    PROVE  SeatSum(f) = SeatSum(g)
BY DEF SeatSum, At

\* When one seat alone changes, the sum changes by what that seat does.
LEMMA SeatSumChange ==
    ASSUME NEW f, NEW g, NEW s \in Seats,
           \A r \in Seats : f[r] \in Int /\ g[r] \in Int,
           \A r \in Seats \ {s} : g[r] = f[r]
    PROVE  SeatSum(g) = SeatSum(f) + g[s] - f[s]
<1> DEFINE d == [r \in Seats |-> g[r] - f[r]]
<1>1. SeatSum(d) = g[s] - f[s]
  BY SeatSumSingle
<1>2. SeatSum(g) = SeatSum(f) + SeatSum(d)
  BY SeatSumAdd
<1>3. SeatSum(f) \in Int
  BY SeatSumType
<1> QED
  BY <1>1, <1>2, <1>3

\* Every nonempty set of natural numbers has a least element.
LEMMA LeastElement ==
    ASSUME NEW T \in SUBSET Nat, T # {}
    PROVE  \E m \in T : \A n \in T : m <= n
<1>1. PICK m \in T : \A n \in T : ~ (<<n, m>> \in OpToRel(<, Nat))
  BY NatLessThanWellFounded, WFMin
<1>2. ASSUME NEW n \in T
      PROVE  m <= n
  <2>1. n < m => <<n, m>> \in OpToRel(<, Nat)
    BY DEF OpToRel
  <2>2. ~ (n < m)
    BY <1>1, <2>1, Zenon
  <2> QED
    BY <2>2
<1> QED
  BY <1>2

\* The clockwise search finds a seat when there is one (getNextActiveSeat).
LEMMA NextOfFinds ==
    ASSUME NEW T \in SUBSET Seats, T # {}, NEW s \in -1..9
    PROVE  NextOf(T, s) \in T
<1> DEFINE steps == {Offset(s, u) : u \in T}
<1>1. \A u \in T : Offset(s, u) \in Nat
  BY SeatsAssumption DEF Offset
<1>2. steps \in SUBSET Nat /\ steps # {}
  BY <1>1
<1>3. PICK m \in steps : \A n \in steps : m <= n
  BY <1>2, LeastElement
<1>4. \E t \in T : \A u \in T : Offset(s, t) <= Offset(s, u)
  BY <1>3
<1> QED
  BY <1>4 DEF NextOf

\* ... and NoSeat when there is none.
LEMMA NextOfType ==
    ASSUME NEW T \in SUBSET Seats, NEW s \in -1..9
    PROVE  NextOf(T, s) \in Seats \cup {NoSeat}
<1>1. CASE T = {}
  BY <1>1 DEF NextOf
<1>2. CASE T # {}
  BY <1>2, NextOfFinds
<1> QED
  BY <1>1, <1>2

\* Smaller summands, smaller sums.
LEMMA SeatSumOrder ==
    ASSUME NEW f, NEW g, \A s \in Seats : f[s] \in Int /\ g[s] \in Int /\ f[s] <= g[s]
    PROVE  SeatSum(f) <= SeatSum(g)
<1>1. \A i : At(f, i) \in Int /\ At(g, i) \in Int /\ At(f, i) <= At(g, i)
  BY DEF At
<1> QED
  BY <1>1 DEF SeatSum

\* The sum of naturals is a natural.
LEMMA SeatSumNat ==
    ASSUME NEW f, \A s \in Seats : f[s] \in Nat
    PROVE  SeatSum(f) \in Nat
<1>1. \A i : At(f, i) \in Nat
  BY DEF At
<1> QED
  BY <1>1 DEF SeatSum

\* A factor common to the summands is a factor of the sum.
LEMMA SeatSumScale ==
    ASSUME NEW f, NEW g, NEW k \in Int,
           \A s \in Seats : f[s] \in Int /\ g[s] = f[s] * k
    PROVE  SeatSum(g) = SeatSum(f) * k
<1>1. \A i : At(f, i) \in Int /\ At(g, i) = At(f, i) * k
  BY DEF At
<1>2. \A a, b, c, d \in Int : c * k = d /\ b = a * k => a + c \in Int /\ (a + c) * k = b + d
  OBVIOUS
<1> DEFINE a(i) == At(f, i)
           b(i) == At(g, i)
<1>3. \A i : a(i) \in Int /\ b(i) = a(i) * k /\ b(i) \in Int
  BY <1>1
<1> HIDE DEF a, b
<1>4. /\ a(0) + a(1) \in Int
      /\ (a(0) + a(1)) * k = b(0) + b(1)
  BY <1>3
<1>5. /\ a(0) + a(1) + a(2) \in Int
      /\ (a(0) + a(1) + a(2)) * k = b(0) + b(1) + b(2)
  BY <1>3, <1>4
<1>6. /\ a(0) + a(1) + a(2) + a(3) + a(4) \in Int
      /\ (a(0) + a(1) + a(2) + a(3) + a(4)) * k = b(0) + b(1) + b(2) + b(3) + b(4)
  BY <1>3, <1>5
<1>7. /\ a(5) + a(6) + a(7) + a(8) + a(9) \in Int
      /\ (a(5) + a(6) + a(7) + a(8) + a(9)) * k = b(5) + b(6) + b(7) + b(8) + b(9)
  BY <1>3
<1>8. SeatSum(f) * k = SeatSum(g)
  BY <1>3, <1>6, <1>7 DEF SeatSum, a, b
<1> QED
  BY <1>8

\* A table of amounts adds up to the same by rows as by columns.
LEMMA SeatSumSwap ==
    ASSUME NEW m, \A r, s \in Seats : m[r][s] \in Int
    PROVE  SeatSum([s \in Seats |-> SeatSum([r \in Seats |-> m[r][s]])])
             = SeatSum([r \in Seats |-> SeatSum([s \in Seats |-> m[r][s]])])
<1> DEFINE a(r, j) == IF j \in Seats THEN m[r][j] ELSE 0
           column(j) == [r \in Seats |-> a(r, j)]
           first2 == [r \in Seats |-> a(r, 0) + a(r, 1)]
           first3 == [r \in Seats |-> first2[r] + a(r, 2)]
           first4 == [r \in Seats |-> first3[r] + a(r, 3)]
           first5 == [r \in Seats |-> first4[r] + a(r, 4)]
           first6 == [r \in Seats |-> first5[r] + a(r, 5)]
           first7 == [r \in Seats |-> first6[r] + a(r, 6)]
           first8 == [r \in Seats |-> first7[r] + a(r, 7)]
           first9 == [r \in Seats |-> first8[r] + a(r, 8)]
           byRow == [r \in Seats |-> SeatSum([s \in Seats |-> m[r][s]])]
           byColumn == [s \in Seats |-> SeatSum([r \in Seats |-> m[r][s]])]
<1>1. \A j : \A r \in Seats : a(r, j) \in Int /\ column(j)[r] = a(r, j)
  OBVIOUS
<1>2. \A r \in Seats : byRow[r] = first9[r] + a(r, 9)
  BY DEF SeatSum, At
<1>3. \A j : At(byColumn, j) = SeatSum(column(j))
  <2>1. ASSUME NEW j, j \in Seats
        PROVE  SeatSum([r \in Seats |-> m[r][j]]) = SeatSum(column(j))
    BY <2>1, SeatSumEqual
  <2>2. ASSUME NEW j, j \notin Seats
        PROVE  SeatSum(column(j)) = 0
    BY <2>2 DEF SeatSum, At
  <2> QED
    BY <2>1, <2>2 DEF At
<1> HIDE DEF a, column, byRow, byColumn
<1>4. SeatSum(first2) = SeatSum(column(0)) + SeatSum(column(1))
  BY <1>1, SeatSumAdd
<1>5. SeatSum(first3) = SeatSum(first2) + SeatSum(column(2))
  BY <1>1, SeatSumAdd
<1>6. \A r \in Seats : first3[r] \in Int
  BY <1>1
<1> HIDE DEF first3
<1>7. SeatSum(first4) = SeatSum(first3) + SeatSum(column(3))
  BY <1>1, <1>6, SeatSumAdd
<1>8. SeatSum(first5) = SeatSum(first4) + SeatSum(column(4))
  BY <1>1, <1>6, SeatSumAdd
<1>9. \A r \in Seats : first5[r] \in Int
  BY <1>1, <1>6
<1> HIDE DEF first5
<1>10. SeatSum(first6) = SeatSum(first5) + SeatSum(column(5))
  BY <1>1, <1>9, SeatSumAdd
<1>11. SeatSum(first7) = SeatSum(first6) + SeatSum(column(6))
  BY <1>1, <1>9, SeatSumAdd
<1>12. \A r \in Seats : first7[r] \in Int
  BY <1>1, <1>9
<1> HIDE DEF first7
<1>13. SeatSum(first8) = SeatSum(first7) + SeatSum(column(7))
  BY <1>1, <1>12, SeatSumAdd
<1>14. SeatSum(first9) = SeatSum(first8) + SeatSum(column(8))
  BY <1>1, <1>12, SeatSumAdd
<1>15. \A r \in Seats : first9[r] \in Int
  BY <1>1, <1>12
<1> HIDE DEF first9
<1>16. SeatSum(byRow) = SeatSum(first9) + SeatSum(column(9))
  BY <1>1, <1>2, <1>15, SeatSumAdd
<1>17. SeatSum(byColumn) = SeatSum(byRow)
  BY <1>3, <1>4, <1>5, <1>7, <1>8, <1>10, <1>11, <1>13, <1>14, <1>16 DEF SeatSum
<1> QED
  BY <1>17 DEF byRow, byColumn

(***************************************************************************)
(* The shares of one side pot add up to it, and a share is a part of it.   *)
(***************************************************************************)

\* Giving the same to every seat of a set costs that many times the number of seats.
LEMMA SameForEach ==
    ASSUME NEW W \in SUBSET Seats, NEW k \in Int
    PROVE  SeatSum([s \in Seats |-> IF s \in W THEN k ELSE 0]) = Cardinality(W) * k
<1> DEFINE given(T) == [s \in Seats |-> IF s \in T THEN k ELSE 0]
           wrong == {n \in Nat : \E T \in SUBSET Seats :
                        Cardinality(T) = n /\ SeatSum(given(T)) # n * k}
<1>1. ASSUME wrong # {}
      PROVE  FALSE
  <2>1. PICK n \in wrong : \A i \in wrong : n <= i
    BY <1>1, LeastElement
  <2>2. PICK T \in SUBSET Seats : Cardinality(T) = n /\ SeatSum(given(T)) # n * k
    BY <2>1
  <2>3. ASSUME T = {}
        PROVE  FALSE
    <3>1. SeatSum(given(T)) = 0
      BY <2>3 DEF SeatSum, At
    <3>2. n = 0
      BY <2>2, <2>3, FS_EmptySet
    <3> QED
      BY <2>2, <3>1, <3>2
  <2>4. PICK t \in T : TRUE
    BY <2>3
  <2> DEFINE U == T \ {t}
  <2>5. U \in SUBSET Seats /\ Cardinality(U) = n - 1 /\ n - 1 \in Nat
    <3>1. IsFiniteSet(T) /\ IsFiniteSet(U) /\ Cardinality(U) \in Nat
      BY SeatsFinite
    <3>2. Cardinality(U) = Cardinality(T) - 1
      BY <2>4, <3>1, FS_RemoveElement
    <3> QED
      BY <2>1, <2>2, <3>1, <3>2
  <2>6. ~ (n <= n - 1)
    BY <2>1
  <2>7. SeatSum(given(U)) = (n - 1) * k
    <3>1. n - 1 \notin wrong
      BY <2>1, <2>6
    <3> HIDE DEF given, U
    <3> QED
      BY <2>5, <3>1
  <2>8. SeatSum(given(T)) = SeatSum(given(U)) + given(T)[t] - given(U)[t]
    <3>1. \A r \in Seats : given(U)[r] \in Int /\ given(T)[r] \in Int
      OBVIOUS
    <3>2. \A r \in Seats \ {t} : given(T)[r] = given(U)[r]
      OBVIOUS
    <3>3. t \in Seats
      BY <2>4
    <3> HIDE DEF given, U
    <3> QED
      BY <3>1, <3>2, <3>3, SeatSumChange
  <2>9. given(T)[t] = k /\ given(U)[t] = 0
    BY <2>4
  <2>10. (n - 1) * k + k = n * k
    BY <2>1
  <2> HIDE DEF given, U
  <2> QED
    BY <2>1, <2>2, <2>7, <2>8, <2>9, <2>10
<1>2. Cardinality(W) \in Nat
  BY SeatsFinite
<1> HIDE DEF given
<1>3. SeatSum(given(W)) = Cardinality(W) * k
  BY <1>1, <1>2
<1> QED
  BY <1>3 DEF given

\* The shares and the odd chips of a pot are the pot, to the chip (showdown.lua:127-149).
LEMMA PartsAddUp ==
    ASSUME NEW amount \in Int, NEW winners \in SUBSET Seats, NEW first \in winners
    PROVE  SeatSum([s \in Seats |-> Part(amount, winners, first, s)]) = amount
<1> DEFINE c == Cardinality(winners)
           q == amount \div c
           rest == amount % c
           even == [s \in Seats |-> IF s \in winners THEN q ELSE 0]
           odd == [s \in Seats |-> IF s = first THEN rest ELSE 0]
           parts == [s \in Seats |-> Part(amount, winners, first, s)]
<1>1. c \in Nat \ {0}
  BY SeatsFinite
<1>2. q \in Int /\ rest \in Int /\ c * q + rest = amount
  <2> HIDE DEF c
  <2> QED
    BY <1>1
<1>3. \A s \in Seats : parts[s] = even[s] + odd[s]
  <2> HIDE DEF c
  <2>1. \A s \in Seats : parts[s] = IF s \in winners
                                      THEN q + (IF s = first THEN rest ELSE 0) ELSE 0
    BY DEF Part, c
  <2> HIDE DEF q, rest, parts
  <2> QED
    BY <1>2, <2>1
<1> HIDE DEF q, rest
<1>4. SeatSum(parts) = SeatSum(even) + SeatSum(odd)
  <2>1. \A s \in Seats : even[s] \in Int /\ odd[s] \in Int
    BY <1>2
  <2> HIDE DEF parts, even, odd
  <2> QED
    BY <1>3, <2>1, SeatSumAdd
<1>5. SeatSum(even) = c * q
  BY <1>2, SameForEach
<1>6. SeatSum(odd) = rest
  <2>1. first \in Seats /\ odd[first] = rest /\ \A s \in Seats \ {first} : odd[s] = 0
    OBVIOUS
  <2> HIDE DEF odd
  <2> QED
    BY <1>2, <2>1, SeatSumSingle
<1> HIDE DEF parts, even, odd, c
<1>7. SeatSum(parts) = amount
  BY <1>2, <1>4, <1>5, <1>6
<1> QED
  BY <1>7 DEF parts

\* Nobody's share is negative, or more than the pot.
LEMMA PartBounds ==
    ASSUME NEW amount \in Nat, NEW winners \in SUBSET Seats, NEW first, NEW s
    PROVE  Part(amount, winners, first, s) \in 0..amount
<1> DEFINE c == Cardinality(winners)
<1>1. CASE s \notin winners
  BY <1>1 DEF Part
<1>2. CASE s \in winners
  <2>1. c \in Nat \ {0}
    BY <1>2, SeatsFinite
  <2>2. Part(amount, winners, first, s) = amount \div c + (IF s = first THEN amount % c ELSE 0)
    BY <1>2 DEF Part
  <2> HIDE DEF c
  <2>3. /\ amount \div c \in Int /\ amount % c \in Int
        /\ 0 <= amount % c
        /\ amount = c * (amount \div c) + (amount % c)
    BY <2>1
  <2>4. amount \div c >= 0
    BY <2>1
  <2>5. c * (amount \div c) >= amount \div c
    <3>1. \A q \in Nat : \A n \in Nat \ {0} : n * q >= q
      <4>1. \A q, n \in Nat : n * q \in Nat /\ (n + 1) * q = n * q + q
        OBVIOUS
      <4>2. \A n \in Nat \ {0} : n - 1 \in Nat /\ (n - 1) + 1 = n
        OBVIOUS
      <4> QED
        BY <4>1, <4>2
    <3>2. amount \div c \in Nat
      BY <2>3, <2>4
    <3> QED
      BY <2>1, <3>1, <3>2
  <2> DEFINE q == amount \div c
             rest == amount % c
             all == c * q
  <2>6. /\ q \in Int /\ rest \in Int /\ all \in Int
        /\ 0 <= rest /\ 0 <= q /\ q <= all /\ amount = all + rest
        /\ Part(amount, winners, first, s) = q + (IF s = first THEN rest ELSE 0)
    BY <2>1, <2>2, <2>3, <2>4, <2>5
  <2> HIDE DEF q, rest, all
  <2> QED
    BY <2>6
<1> QED
  BY <1>1, <1>2

(***************************************************************************)
(* The slices up to a level hold what each seat put in up to that level.   *)
(***************************************************************************)

\* Nobody has more than the largest amount, and somebody has it if it is not zero.
LEMMA SeatMaxIsLargest ==
    ASSUME NEW f, \A s \in Seats : f[s] \in Int
    PROVE  /\ \A s \in Seats : f[s] <= SeatMax(f)
           /\ SeatMax(f) = 0 \/ \E s \in Seats : f[s] = SeatMax(f)
<1> DEFINE a(i) == At(f, i)
           m8 == Larger(a(8), a(9))
           m7 == Larger(a(7), m8)
           m6 == Larger(a(6), m7)
           m5 == Larger(a(5), m6)
           m4 == Larger(a(4), m5)
           m3 == Larger(a(3), m4)
           m2 == Larger(a(2), m3)
           m1 == Larger(a(1), m2)
           m0 == Larger(a(0), m1)
           max == Larger(0, m0)
<1>1. \A i : a(i) \in Int /\ (a(i) = 0 \/ \E s \in Seats : f[s] = a(i))
  BY DEF At
<1>2. \A b, c \in Int : /\ Larger(b, c) \in Int /\ Larger(b, c) \in {b, c}
                        /\ b <= Larger(b, c) /\ c <= Larger(b, c)
  BY DEF Larger
<1>3. max = SeatMax(f)
  BY DEF SeatMax
<1>4. \A s \in Seats : s \in {0, 1, 2, 3, 4, 5, 6, 7, 8, 9} /\ a(s) = f[s]
  BY SeatsAssumption DEF At
<1> HIDE DEF a
<1>5. m8 \in Int /\ m8 \in {a(8), a(9)} /\ a(8) <= m8 /\ a(9) <= m8
  BY <1>1, <1>2
<1> HIDE DEF m8
<1>6. m7 \in Int /\ m7 \in {a(7), m8} /\ a(7) <= m7 /\ m8 <= m7
  BY <1>1, <1>2, <1>5
<1> HIDE DEF m7
<1>7. m6 \in Int /\ m6 \in {a(6), m7} /\ a(6) <= m6 /\ m7 <= m6
  BY <1>1, <1>2, <1>6
<1> HIDE DEF m6
<1>8. m5 \in Int /\ m5 \in {a(5), m6} /\ a(5) <= m5 /\ m6 <= m5
  BY <1>1, <1>2, <1>7
<1> HIDE DEF m5
<1>9. m4 \in Int /\ m4 \in {a(4), m5} /\ a(4) <= m4 /\ m5 <= m4
  BY <1>1, <1>2, <1>8
<1> HIDE DEF m4
<1>10. m3 \in Int /\ m3 \in {a(3), m4} /\ a(3) <= m3 /\ m4 <= m3
  BY <1>1, <1>2, <1>9
<1> HIDE DEF m3
<1>11. m2 \in Int /\ m2 \in {a(2), m3} /\ a(2) <= m2 /\ m3 <= m2
  BY <1>1, <1>2, <1>10
<1> HIDE DEF m2
<1>12. m1 \in Int /\ m1 \in {a(1), m2} /\ a(1) <= m1 /\ m2 <= m1
  BY <1>1, <1>2, <1>11
<1> HIDE DEF m1
<1>13. m0 \in Int /\ m0 \in {a(0), m1} /\ a(0) <= m0 /\ m1 <= m0
  BY <1>1, <1>2, <1>12
<1> HIDE DEF m0
<1>14. max \in Int /\ max \in {0, m0} /\ m0 <= max
  BY <1>1, <1>2, <1>13
<1> HIDE DEF max
<1>15. \A i \in {0, 1, 2, 3, 4, 5, 6, 7, 8, 9} : a(i) <= max
  BY <1>1, <1>5, <1>6, <1>7, <1>8, <1>9, <1>10, <1>11, <1>12, <1>13, <1>14
<1>16. max = 0 \/ \E i \in 0..9 : max = a(i)
  BY <1>5, <1>6, <1>7, <1>8, <1>9, <1>10, <1>11, <1>12, <1>13, <1>14
<1> QED
  BY <1>1, <1>3, <1>4, <1>15, <1>16

\* What each seat has put in, level by level, as showdown.lua reads it.
LEMMA LevelBelowIs ==
    ASSUME NEW contrib, \A s \in Seats : contrib[s] \in Int, NEW level \in Nat \ {0}
    PROVE  /\ LevelBelow(contrib, level) \in Nat /\ LevelBelow(contrib, level) < level
           /\ \/ LevelBelow(contrib, level) = 0
              \/ \E r \in Seats : contrib[r] = LevelBelow(contrib, level)
           /\ \A s \in Seats : contrib[s] < level => contrib[s] <= LevelBelow(contrib, level)
<1> DEFINE lower == [s \in Seats |-> IF contrib[s] < level THEN contrib[s] ELSE 0]
<1>1. \A s \in Seats : lower[s] \in Int
  OBVIOUS
<1>2. /\ SeatMax(lower) \in Nat
      /\ \A s \in Seats : lower[s] <= SeatMax(lower)
      /\ SeatMax(lower) = 0 \/ \E s \in Seats : lower[s] = SeatMax(lower)
  <2> HIDE DEF lower
  <2> QED
    BY <1>1, SeatMaxIsLargest, SeatMaxType
<1>3. LevelBelow(contrib, level) = SeatMax(lower)
  BY DEF LevelBelow
<1> QED
  BY <1>2, <1>3

\* The chips of a slice are what the seats put in up to its level but not below it.
LEMMA SliceIs ==
    ASSUME NEW contrib, \A s \in Seats : contrib[s] \in Int, NEW level \in Nat \ {0}
    PROVE  /\ Slice(contrib, level) \in Nat
           /\ SeatSum([s \in Seats |-> Smaller(contrib[s], level)])
                = SeatSum([s \in Seats |-> Smaller(contrib[s], LevelBelow(contrib, level))])
                    + Slice(contrib, level)
<1> DEFINE below == LevelBelow(contrib, level)
           upTo == [s \in Seats |-> Smaller(contrib[s], level)]
           under == [s \in Seats |-> Smaller(contrib[s], below)]
           layer == [s \in Seats |-> Larger(0, Smaller(contrib[s], level) - below)]
<1>1. /\ below \in Nat /\ below < level
      /\ \A s \in Seats : contrib[s] < level => contrib[s] <= below
  BY LevelBelowIs
<1> HIDE DEF below
<1>2. \A s \in Seats : /\ under[s] \in Int /\ layer[s] \in Nat
                       /\ upTo[s] = under[s] + layer[s]
  BY <1>1 DEF Smaller, Larger
<1> HIDE DEF upTo, under, layer
<1>3. SeatSum(upTo) = SeatSum(under) + SeatSum(layer)
  BY <1>2, SeatSumAdd
<1>4. SeatSum(layer) \in Nat
  BY <1>2, SeatSumNat
<1> QED
  BY <1>3, <1>4 DEF Slice, below, upTo, under, layer

\* The slice at a seat's contribution holds a natural number of chips.
LEMMA SliceNat ==
    ASSUME NEW contrib, \A s \in Seats : contrib[s] \in Int, NEW r \in LevelSeats(contrib)
    PROVE  Slice(contrib, contrib[r]) \in Nat
<1>1. PICK level : level = contrib[r]
  OBVIOUS
<1>2. level \in Nat \ {0}
  BY <1>1 DEF LevelSeats
<1>3. Slice(contrib, level) \in Nat
  BY <1>2, SliceIs
<1> QED
  BY <1>1, <1>3

\* Every level is stood for by one seat.
LEMMA LevelSeat ==
    ASSUME NEW contrib, \A s \in Seats : contrib[s] \in Nat, NEW r \in Seats, contrib[r] > 0
    PROVE  \E q \in LevelSeats(contrib) :
              /\ contrib[q] = contrib[r]
              /\ \A t \in LevelSeats(contrib) : contrib[t] = contrib[r] => t = q
<1> DEFINE same == {t \in Seats : contrib[t] = contrib[r]}
<1>1. same \in SUBSET Nat /\ r \in same
  <2>1. \A t \in Seats : t \in Nat
    BY SeatsAssumption
  <2> QED
    BY <2>1
<1>2. PICK q \in same : \A t \in same : q <= t
  BY <1>1, LeastElement
<1>3. q \in LevelSeats(contrib)
  BY <1>2 DEF LevelSeats
<1>4. ASSUME NEW t \in LevelSeats(contrib), contrib[t] = contrib[r]
      PROVE  t = q
  <2>1. t <= q /\ q <= t /\ t \in Nat /\ q \in Nat
    BY <1>1, <1>2, <1>4 DEF LevelSeats
  <2> QED
    BY <2>1
<1> QED
  BY <1>2, <1>3, <1>4

\* What the slices up to a level hold.
SlicesUpTo(contrib, level) ==
    SeatSum([r \in Seats |-> IF r \in LevelSeats(contrib) /\ contrib[r] <= level
                               THEN Slice(contrib, contrib[r]) ELSE 0])

\* The slices up to a level, one per distinct contribution, hold all that the seats put in
\* up to that level, whatever the contributions are (showdown.lua:85-103): the slices are
\* taken off level by level, from the lowest for which it would fail.
LEMMA SlicesAddUp ==
    ASSUME NEW contrib, \A s \in Seats : contrib[s] \in Nat,
           NEW level, level = 0 \/ \E s \in Seats : contrib[s] = level
    PROVE  SlicesUpTo(contrib, level) = SeatSum([s \in Seats |-> Smaller(contrib[s], level)])
<1> DEFINE levels == {0} \cup {contrib[s] : s \in Seats}
           upTo(n) == [s \in Seats |-> Smaller(contrib[s], n)]
           slices(n) == [r \in Seats |-> IF r \in LevelSeats(contrib) /\ contrib[r] <= n
                                           THEN Slice(contrib, contrib[r]) ELSE 0]
           wrong == {n \in levels : SeatSum(slices(n)) # SeatSum(upTo(n))}
<1>1. wrong \in SUBSET Nat
  OBVIOUS
<1>2. ASSUME wrong # {}
      PROVE  FALSE
  <2>1. PICK n \in wrong : \A i \in wrong : n <= i
    BY <1>1, <1>2, LeastElement
  <2>2. n \in Nat
    BY <1>1, <2>1
  <2>3. CASE n = 0
    <3>1. \A s \in Seats : slices(n)[s] = 0 /\ upTo(n)[s] = 0
      BY <2>3 DEF LevelSeats, Smaller
    <3> HIDE DEF slices, upTo
    <3>2. SeatSum(slices(n)) = SeatSum(upTo(n))
      BY <3>1, SeatSumEqual
    <3> QED
      BY <2>1, <3>2
  <2>4. CASE n # 0
    <3> DEFINE p == LevelBelow(contrib, n)
    <3>1. /\ p \in Nat /\ p < n /\ p \in levels
          /\ \A s \in Seats : contrib[s] < n => contrib[s] <= p
      BY <2>2, <2>4, LevelBelowIs
    <3>2. /\ SeatSum(upTo(n)) = SeatSum(upTo(p)) + Slice(contrib, n)
          /\ Slice(contrib, n) \in Nat
      BY <2>2, <2>4, SliceIs
    <3> HIDE DEF p
    <3>3. PICK q \in LevelSeats(contrib) :
            /\ contrib[q] = n
            /\ \A t \in LevelSeats(contrib) : contrib[t] = n => t = q
      <4>1. PICK r \in Seats : contrib[r] = n
        BY <2>1, <2>4
      <4> QED
        BY <2>2, <2>4, <4>1, LevelSeat
    <3>4. q \in Seats
      BY DEF LevelSeats
    <3>5. \A r \in Seats : slices(n)[r] \in Int /\ slices(p)[r] \in Int
      <4>1. \A r \in LevelSeats(contrib) : Slice(contrib, contrib[r]) \in Nat
        <5>1. \A r \in Seats : contrib[r] \in Int
          OBVIOUS
        <5> QED
          BY <5>1, SliceNat, Zenon
      <4> QED
        BY <4>1
    <3>6. \A r \in Seats \ {q} : slices(n)[r] = slices(p)[r]
      BY <2>2, <3>1, <3>3
    <3>7. slices(n)[q] = Slice(contrib, n) /\ slices(p)[q] = 0
      BY <2>2, <3>1, <3>3, <3>4
    <3> HIDE DEF slices, upTo
    <3>8. SeatSum(slices(n)) = SeatSum(slices(p)) + slices(n)[q] - slices(p)[q]
      BY <3>4, <3>5, <3>6, SeatSumChange
    <3>9. SeatSum(slices(p)) = SeatSum(upTo(p))
      BY <2>1, <2>2, <3>1
    <3>10. SeatSum(slices(p)) \in Int
      BY <3>5, SeatSumType
    <3>11. SeatSum(slices(n)) = SeatSum(upTo(n))
      BY <3>2, <3>7, <3>8, <3>9, <3>10
    <3> QED
      BY <2>1, <3>11
  <2> QED
    BY <2>3, <2>4
<1>3. level \in levels
  OBVIOUS
<1> HIDE DEF levels
<1>4. SeatSum(slices(level)) = SeatSum(upTo(level))
  BY <1>2, <1>3
<1> QED
  BY <1>4 DEF SlicesUpTo

(***************************************************************************)
(* What showdown.lua pays out of a pot.                                    *)
(***************************************************************************)

\* Rounding: the quotient and the rest of a division by a positive number.
LEMMA Division ==
    ASSUME NEW x \in Nat, NEW n \in Nat \ {0}
    PROVE  x \div n \in Nat /\ x % n \in 0..(n - 1) /\ x = n * (x \div n) + (x % n)
OBVIOUS

\* A product of naturals grows with each factor.
LEMMA ProductOrder ==
    ASSUME NEW a \in Nat, NEW b \in Nat, NEW n \in Nat, a <= b
    PROVE  a * n \in Nat /\ b * n \in Nat /\ a * n <= b * n
<1>1. PICK d \in Nat : b = a + d
  <2>1. b - a \in Nat /\ b = a + (b - a)
    OBVIOUS
  <2> QED
    BY <2>1
<1>2. b * n = a * n + d * n
  BY <1>1
<1>3. a * n \in Nat /\ d * n \in Nat
  BY <1>1
<1> QED
  BY <1>2, <1>3

\* The house takes a part of the pot.
LEMMA RakeBounds ==
    ASSUME NEW gross \in Nat
    PROVE  Rake(gross) \in 0..gross
<1>1. (gross * RakePercent) \in Nat /\ gross * RakePercent <= gross * 10
  <2>1. RakePercent \in {0, 1, 2, 3, 4, 5, 6, 7, 8, 9, 10}
    BY RakeAssumption
  <2> QED
    BY <2>1
<1>2. (gross * RakePercent) \div 100 \in Nat /\ (gross * RakePercent) \div 100 <= gross
  BY <1>1
<1> QED
  BY <1>2, RakeAssumption DEF Rake, Smaller

\* An amount that is a slice scaled down by the rake: of the exact part, rounding keeps
\* back a chip at most, and nothing when no rake is taken; of no pot nothing is paid.
IsScaled(amount, slice, gross, net) ==
    /\ amount \in 0..slice
    /\ amount * gross <= slice * net
    /\ slice * net <= amount * gross + gross
    /\ net = gross => amount * gross = slice * net
    /\ gross = 0 => amount = 0

\* So is what the script pays of a slice, where double precision falls short, too.
LEMMA ScaledBounds ==
    ASSUME NEW slice \in Nat, NEW gross \in Nat, NEW net \in 0..gross, NEW cut \in {0, 1},
           cut = 1 => MayFallShort(slice, gross, net)
    PROVE  IsScaled(Scaled(slice, gross, net) - cut, slice, gross, net)
<1> SUFFICES ASSUME NEW amount, amount = Scaled(slice, gross, net) - cut
             PROVE  /\ amount \in 0..slice
                    /\ amount * gross <= slice * net
                    /\ slice * net <= amount * gross + gross
                    /\ net = gross => amount * gross = slice * net
                    /\ gross = 0 => amount = 0
  BY DEF IsScaled
<1>1. CASE gross = 0
  <2>1. Scaled(slice, gross, net) = 0 /\ cut = 0
    BY <1>1 DEF Scaled, MayFallShort
  <2>2. net = 0 /\ amount = 0
    BY <1>1, <2>1
  <2> QED
    BY <1>1, <2>2
<1>2. CASE gross # 0
  <2>1. PICK x : x = slice * net
    OBVIOUS
  <2>2. PICK q, rest : q = x \div gross /\ rest = x % gross
    OBVIOUS
  <2>3. x \in Nat
    BY <2>1
  <2>4. q \in Nat /\ rest \in 0..(gross - 1) /\ x = gross * q + rest
    BY <1>2, <2>2, <2>3, Division
  <2>5. /\ amount = q - cut
        /\ cut = 1 => net < gross /\ q > 0 /\ rest = 0
    BY <1>2, <2>1, <2>2 DEF Scaled, MayFallShort
  <2>6. PICK y : y = gross * q
    OBVIOUS
  <2>7. y \in Nat /\ q * gross = y
    BY <2>4, <2>6
  <2>8. amount \in Nat /\ amount <= q
    BY <2>4, <2>5
  <2>9. amount * gross = y - (IF cut = 1 THEN gross ELSE 0)
    <3>1. \A a \in Nat : (a - 0) * gross = a * gross /\ (a - 1) * gross = a * gross - gross
      OBVIOUS
    <3>2. (q - 0) * gross = y /\ (q - 1) * gross = y - gross
      BY <2>4, <2>7, <3>1
    <3>3. CASE cut = 0
      BY <2>5, <3>2, <3>3
    <3>4. CASE cut = 1
      BY <2>5, <3>2, <3>4
    <3> QED
      BY <2>7, <3>3, <3>4
  <2>10. q <= slice
    <3>1. ASSUME q >= slice + 1
          PROVE  FALSE
      <4>1. (slice + 1) * gross <= y
        BY <2>4, <2>7, <3>1, ProductOrder
      <4>2. x <= slice * gross
        <5>1. net * slice <= gross * slice
          BY ProductOrder
        <5>2. net * slice = slice * net /\ gross * slice = slice * gross
          OBVIOUS
        <5> QED
          BY <2>1, <5>1, <5>2
      <4>3. (slice + 1) * gross = slice * gross + gross
        OBVIOUS
      <4>4. PICK z : z = slice * gross
        OBVIOUS
      <4>5. z \in Nat
        BY <4>4
      <4> QED
        BY <1>2, <2>4, <2>6, <2>7, <4>1, <4>2, <4>3, <4>4, <4>5
    <3> QED
      BY <2>4, <3>1
  <2>11. ASSUME net = gross
         PROVE  rest = 0
    <3>1. x = gross * slice + 0
      BY <2>1, <2>11
    <3>2. slice \in Nat /\ (gross * slice) % gross = 0
      <4>1. \A a \in Nat, n \in Nat \ {0} : (n * a) % n = 0
        OBVIOUS
      <4> QED
        BY <1>2, <4>1
    <3> QED
      BY <2>2, <3>1, <3>2
  <2> QED
    BY <1>2, <2>1, <2>4, <2>5, <2>6, <2>7, <2>8, <2>9, <2>10, <2>11
<1> QED
  BY <1>1, <1>2

\* The shares in which amounts of the slices are paid out.
Shares(contrib, alive, score, first, amounts) ==
    [r \in Seats |-> [s \in Seats |->
        IF r \in Winnable(contrib, alive, score)
          THEN Part(amounts[r], Winners(contrib, alive, score, contrib[r]), first[r], s)
          ELSE 0]]

\* Amounts that a pot of gross chips, net of rake, allows for its slices.
Amounts(contrib, alive, score, gross, net) ==
    {a \in [Seats -> Nat] : \A r \in Seats :
        IF r \in Winnable(contrib, alive, score)
          THEN IsScaled(a[r], Slice(contrib, contrib[r]), gross, net)
          ELSE a[r] = 0}

\* The seats receive these amounts, each in shares to the winners of its slice.
PaidOut(contrib, alive, score, first, amounts, won) ==
    /\ \A r \in Winnable(contrib, alive, score) :
          first[r] \in Winners(contrib, alive, score, contrib[r])
    /\ \A s \in Seats :
          won[s] = SeatSum([r \in Seats |->
                      Shares(contrib, alive, score, first, amounts)[r][s]])

\* The script pays amounts that the pot allows, each in shares to the slice's winners.
LEMMA PayoutShares ==
    ASSUME NEW contrib, \A s \in Seats : contrib[s] \in Int,
           NEW alive \in SUBSET Seats, NEW score, NEW gross \in Nat, NEW net \in 0..gross,
           NEW won \in Payouts(contrib, alive, score, gross, net)
    PROVE  \E first, amounts :
              /\ amounts \in Amounts(contrib, alive, score, gross, net)
              /\ PaidOut(contrib, alive, score, first, amounts, won)
<1> DEFINE paid == Winnable(contrib, alive, score)
           slice(r) == Slice(contrib, contrib[r])
<1>1. \E f, sh :
         /\ DOMAIN f = paid
         /\ \A r \in paid : f[r] \in Winners(contrib, alive, score, contrib[r])
         /\ \A r \in sh : r \in paid /\ MayFallShort(slice(r), gross, net)
         /\ won = Due(contrib, alive, score, gross, net, f, sh)
  BY DEF Payouts
<1>2. PICK first, short :
         /\ DOMAIN first = paid
         /\ \A r \in paid : first[r] \in Winners(contrib, alive, score, contrib[r])
         /\ \A r \in short : r \in paid /\ MayFallShort(slice(r), gross, net)
         /\ won = Due(contrib, alive, score, gross, net, first, short)
  BY <1>1
<1> DEFINE cut(r) == IF r \in short THEN 1 ELSE 0
           amount(r) == Scaled(slice(r), gross, net) - cut(r)
           amounts == [r \in Seats |-> IF r \in paid THEN amount(r) ELSE 0]
<1>3. \A r \in paid : r \in Seats /\ slice(r) \in Nat
  <2>1. \A r \in paid : r \in LevelSeats(contrib)
    BY DEF Winnable
  <2> HIDE DEF paid
  <2> QED
    BY <2>1, SliceNat DEF LevelSeats
<1>4. ASSUME NEW r \in paid
      PROVE  IsScaled(amount(r), slice(r), gross, net)
  <2>1. cut(r) \in {0, 1} /\ (cut(r) = 1 => MayFallShort(slice(r), gross, net))
    BY <1>2
  <2>2. slice(r) \in Nat
    BY <1>3, <1>4
  <2> HIDE DEF slice, cut, paid
  <2> QED
    BY <2>1, <2>2, ScaledBounds
<1>5. amounts \in Amounts(contrib, alive, score, gross, net)
  <2> HIDE DEF amount, paid
  <2>1. \A r \in paid : amount(r) \in Nat
    BY <1>3, <1>4 DEF IsScaled
  <2> HIDE DEF slice
  <2>2. amounts \in [Seats -> Nat]
    BY <2>1
  <2>3. \A r \in Seats : IF r \in paid THEN IsScaled(amounts[r], slice(r), gross, net)
                                        ELSE amounts[r] = 0
    BY <1>4
  <2> HIDE DEF amounts
  <2> QED
    BY <2>2, <2>3 DEF Amounts, slice, paid
<1>6. ASSUME NEW s \in Seats
      PROVE  won[s] = SeatSum([r \in Seats |->
                         Shares(contrib, alive, score, first, amounts)[r][s]])
  <2> DEFINE parts == [r \in Seats |->
                 IF r \in DOMAIN first
                   THEN SlicePart(contrib, alive, score, gross, net, first, short, r, s) ELSE 0]
             shares == [r \in Seats |-> Shares(contrib, alive, score, first, amounts)[r][s]]
  <2>1. won[s] = SeatSum(parts)
    BY <1>2 DEF Due
  <2>2. \A r \in Seats : parts[r] = shares[r]
    BY <1>2 DEF SlicePart, Shares
  <2>3. SeatSum(parts) = SeatSum(shares)
    <3> HIDE DEF parts, shares
    <3> QED
      BY <2>2, SeatSumEqual
  <2> QED
    BY <2>1, <2>3
<1> HIDE DEF paid, amounts
<1>7. PaidOut(contrib, alive, score, first, amounts, won)
  BY <1>2, <1>6 DEF PaidOut, paid
<1> QED
  BY <1>5, <1>7

\* A share is no more than the slice it is taken of, and is paid to who has paid the slice.
LEMMA ShareBounds ==
    ASSUME NEW contrib, \A s \in Seats : contrib[s] \in Int,
           NEW alive \in SUBSET Seats, NEW score, NEW gross \in Nat, NEW net \in 0..gross,
           NEW first, NEW amounts \in Amounts(contrib, alive, score, gross, net),
           NEW r \in Seats, NEW s \in Seats
    PROVE  /\ Shares(contrib, alive, score, first, amounts)[r][s] \in Nat
           /\ Shares(contrib, alive, score, first, amounts)[r][s]
                <= IF r \in LevelSeats(contrib) /\ contrib[r] <= contrib[s]
                     THEN Slice(contrib, contrib[r]) ELSE 0
<1> DEFINE winners == Winners(contrib, alive, score, contrib[r])
<1>1. /\ Shares(contrib, alive, score, first, amounts)[r][s]
           = IF r \in Winnable(contrib, alive, score)
               THEN Part(amounts[r], winners, first[r], s) ELSE 0
      /\ winners \in SUBSET Seats
      /\ s \in winners => contrib[r] <= contrib[s]
  BY DEF Shares, Winners
<1>2. amounts[r] \in Nat
  BY DEF Amounts
<1>3. r \in LevelSeats(contrib) => Slice(contrib, contrib[r]) \in Nat
  BY SliceNat
<1>4. CASE r \in Winnable(contrib, alive, score)
  <2>1. r \in LevelSeats(contrib) /\ amounts[r] <= Slice(contrib, contrib[r])
    <3>1. r \in LevelSeats(contrib)
      BY <1>4 DEF Winnable
    <3>2. IsScaled(amounts[r], Slice(contrib, contrib[r]), gross, net)
      BY <1>4 DEF Amounts
    <3>3. amounts[r] \in 0..Slice(contrib, contrib[r])
      BY <3>2 DEF IsScaled
    <3> QED
      BY <1>3, <3>1, <3>3
  <2> HIDE DEF winners
  <2>2. Part(amounts[r], winners, first[r], s) \in 0..amounts[r]
    BY <1>1, <1>2, PartBounds
  <2>3. s \notin winners => Part(amounts[r], winners, first[r], s) = 0
    BY DEF Part
  <2> QED
    BY <1>1, <1>2, <1>3, <1>4, <2>1, <2>2, <2>3
<1>5. CASE r \notin Winnable(contrib, alive, score)
  BY <1>1, <1>3, <1>5
<1> QED
  BY <1>4, <1>5

\* Nobody is paid less than nothing, whatever the contributions are recorded as.
LEMMA PayoutsNatural ==
    ASSUME NEW contrib, \A s \in Seats : contrib[s] \in Int,
           NEW alive \in SUBSET Seats, NEW score, NEW gross \in Nat, NEW net \in 0..gross,
           NEW won \in Payouts(contrib, alive, score, gross, net), NEW s \in Seats
    PROVE  won[s] \in Nat
<1>1. PICK first, amounts :
         /\ amounts \in Amounts(contrib, alive, score, gross, net)
         /\ PaidOut(contrib, alive, score, first, amounts, won)
  BY PayoutShares
<1> DEFINE parts == [r \in Seats |-> Shares(contrib, alive, score, first, amounts)[r][s]]
<1>2. \A r \in Seats : parts[r] \in Nat
  BY <1>1, ShareBounds
<1>3. won[s] = SeatSum(parts)
  BY <1>1 DEF PaidOut
<1> HIDE DEF parts
<1> QED
  BY <1>2, <1>3, SeatSumNat

\* Nobody wins more than what each seat has put in up to his own contribution, whoever is
\* all-in for less and whatever side pots there are above him (showdown.lua:85-150).
LEMMA PayoutCapped ==
    ASSUME NEW contrib, \A s \in Seats : contrib[s] \in Nat,
           NEW alive \in SUBSET Seats, NEW score, NEW gross \in Nat, NEW net \in 0..gross,
           NEW won \in Payouts(contrib, alive, score, gross, net), NEW s \in Seats
    PROVE  /\ won[s] \in Nat
           /\ won[s] <= SeatSum([r \in Seats |-> Smaller(contrib[r], contrib[s])])
<1>1. PICK first, amounts :
         /\ amounts \in Amounts(contrib, alive, score, gross, net)
         /\ PaidOut(contrib, alive, score, first, amounts, won)
  BY PayoutShares
<1> DEFINE shares == [r \in Seats |-> Shares(contrib, alive, score, first, amounts)[r][s]]
           slices == [r \in Seats |-> IF r \in LevelSeats(contrib) /\ contrib[r] <= contrib[s]
                                        THEN Slice(contrib, contrib[r]) ELSE 0]
<1>2. \A r \in Seats : shares[r] \in Nat /\ shares[r] <= slices[r] /\ slices[r] \in Nat
  BY <1>1, ShareBounds, SliceNat
<1>3. SeatSum(slices) = SeatSum([r \in Seats |-> Smaller(contrib[r], contrib[s])])
  <2>1. PICK level : level = contrib[s]
    OBVIOUS
  <2>2. SlicesUpTo(contrib, level) = SeatSum([r \in Seats |-> Smaller(contrib[r], level)])
    BY <2>1, SlicesAddUp
  <2> QED
    BY <2>1, <2>2 DEF SlicesUpTo
<1>4. SeatSum(shares) \in Nat /\ SeatSum(shares) <= SeatSum(slices)
  <2> HIDE DEF shares, slices
  <2> QED
    BY <1>2, SeatSumNat, SeatSumOrder
<1>5. won[s] = SeatSum(shares)
  BY <1>1 DEF PaidOut
<1> QED
  BY <1>3, <1>4, <1>5

\* The largest contribution among the players in the hand.
Largest(contrib, alive) == SeatMax([s \in Seats |-> IF s \in alive THEN contrib[s] ELSE 0])

\* A best hand exists among some that were evaluated.
LEMMA BestHand ==
    ASSUME NEW T \in SUBSET Seats, T # {}, NEW score, \A s \in T : score[s] \in Nat
    PROVE  \E s \in T : \A t \in T : score[t] <= score[s]
<1> DEFINE f == [s \in Seats |-> IF s \in T THEN score[s] ELSE 0]
<1>1. \A s \in Seats : f[s] \in Int
  OBVIOUS
<1>2. \A s \in T : s \in Seats /\ f[s] = score[s]
  OBVIOUS
<1>3. \A s \in Seats : f[s] # 0 => s \in T
  OBVIOUS
<1> HIDE DEF f
<1>4. \A s \in Seats : f[s] <= SeatMax(f)
  BY <1>1, SeatMaxIsLargest
<1>5. SeatMax(f) = 0 \/ \E s \in Seats : f[s] = SeatMax(f)
  BY <1>1, SeatMaxIsLargest
<1>6. SeatMax(f) \in Nat
  BY <1>1, SeatMaxType
<1>7. CASE SeatMax(f) = 0
  BY <1>2, <1>4, <1>7
<1>8. CASE SeatMax(f) # 0
  BY <1>2, <1>3, <1>4, <1>5, <1>8
<1> QED
  BY <1>7, <1>8

\* The slices somebody can win are those up to the largest contribution in the hand.
LEMMA WinnableIs ==
    ASSUME NEW contrib, \A s \in Seats : contrib[s] \in Nat,
           NEW alive \in SUBSET Seats, NEW score \in [alive -> Nat], NEW r \in Seats
    PROVE  r \in Winnable(contrib, alive, score)
             <=> r \in LevelSeats(contrib) /\ contrib[r] <= Largest(contrib, alive)
<1> DEFINE f == [s \in Seats |-> IF s \in alive THEN contrib[s] ELSE 0]
           eligible == {s \in alive : contrib[s] >= contrib[r]}
<1>1. /\ \A s \in Seats : f[s] <= Largest(contrib, alive)
      /\ \/ Largest(contrib, alive) = 0
         \/ \E s \in Seats : f[s] = Largest(contrib, alive)
      /\ Largest(contrib, alive) \in Nat
  <2>1. \A s \in Seats : f[s] \in Int
    OBVIOUS
  <2>2. SeatMax(f) = Largest(contrib, alive)
    BY DEF Largest
  <2> HIDE DEF f
  <2> QED
    BY <2>1, <2>2, SeatMaxIsLargest, SeatMaxType
<1>2. Winners(contrib, alive, score, contrib[r])
        = {s \in eligible : \A t \in eligible : score[t] <= score[s]}
  BY DEF Winners
<1>3. Winners(contrib, alive, score, contrib[r]) # {} <=> eligible # {}
  <2>1. eligible \in SUBSET Seats /\ \A s \in eligible : score[s] \in Nat
    OBVIOUS
  <2>2. ASSUME eligible # {}
        PROVE  \E s \in eligible : \A t \in eligible : score[t] <= score[s]
    <3> HIDE DEF eligible
    <3> QED
      BY <2>1, <2>2, BestHand
  <2> QED
    BY <1>2, <2>2
<1>4. contrib[r] > 0 => (eligible # {} <=> contrib[r] <= Largest(contrib, alive))
  BY <1>1
<1>5. r \in LevelSeats(contrib) => contrib[r] > 0
  BY DEF LevelSeats
<1> QED
  BY <1>3, <1>4, <1>5 DEF Winnable

\* All that is paid out is what the slices allow.
LEMMA PaidTotal ==
    ASSUME NEW contrib, \A s \in Seats : contrib[s] \in Nat,
           NEW alive \in SUBSET Seats, NEW score, NEW gross \in Nat, NEW net \in 0..gross,
           NEW first, NEW amounts \in Amounts(contrib, alive, score, gross, net),
           NEW won, PaidOut(contrib, alive, score, first, amounts, won)
    PROVE  SeatSum(won) = SeatSum(amounts)
<1> DEFINE m == Shares(contrib, alive, score, first, amounts)
           byRow == [r \in Seats |-> SeatSum([s \in Seats |-> m[r][s]])]
           byColumn == [s \in Seats |-> SeatSum([r \in Seats |-> m[r][s]])]
<1>1. \A r, s \in Seats : m[r][s] \in Int
  <2> HIDE DEF m
  <2>1. \A r, s \in Seats : m[r][s] \in Nat
    <3>1. \A s \in Seats : contrib[s] \in Int
      OBVIOUS
    <3> QED
      BY <3>1, ShareBounds DEF m
  <2> QED
    BY <2>1
<1>2. SeatSum(byColumn) = SeatSum(byRow)
  <2> HIDE DEF m
  <2> QED
    BY <1>1, SeatSumSwap
<1>3. SeatSum(won) = SeatSum(byColumn)
  <2>1. \A s \in Seats : won[s] = byColumn[s]
    BY DEF PaidOut
  <2> HIDE DEF byColumn
  <2> QED
    BY <2>1, SeatSumEqual
<1>4. ASSUME NEW r \in Seats
      PROVE  byRow[r] = amounts[r]
  <2> DEFINE row == [s \in Seats |-> m[r][s]]
             winners == Winners(contrib, alive, score, contrib[r])
  <2>1. byRow[r] = SeatSum(row)
    OBVIOUS
  <2>2. CASE r \in Winnable(contrib, alive, score)
    <3>1. row = [s \in Seats |-> Part(amounts[r], winners, first[r], s)]
      BY <2>2 DEF Shares
    <3>2. winners \in SUBSET Seats /\ first[r] \in winners /\ amounts[r] \in Int
      BY <2>2 DEF PaidOut, Winners, Amounts
    <3> HIDE DEF row, winners
    <3>3. SeatSum(row) = amounts[r]
      BY <3>1, <3>2, PartsAddUp
    <3> QED
      BY <2>1, <3>3
  <2>3. CASE r \notin Winnable(contrib, alive, score)
    <3>1. \A s \in Seats : row[s] = 0
      BY <2>3 DEF Shares
    <3> HIDE DEF row
    <3>2. SeatSum(row) = 0
      BY <3>1 DEF SeatSum, At
    <3>3. amounts[r] = 0
      BY <2>3 DEF Amounts
    <3> QED
      BY <2>1, <3>2, <3>3
  <2> QED
    BY <2>2, <2>3
<1>5. SeatSum(byRow) = SeatSum(amounts)
  <2> HIDE DEF byRow
  <2> QED
    BY <1>4, SeatSumEqual
<1> QED
  BY <1>2, <1>3, <1>5

\* What is contested: of each contribution the part up to the largest one in the hand.
Contested(contrib, alive) ==
    SeatSum([s \in Seats |-> Smaller(contrib[s], Largest(contrib, alive))])

\* A showdown pays what is contested, less the rake's part of it and less a chip at most
\* for each side pot; to the chip when no rake is taken (showdown.lua:85-150).
LEMMA PayoutTotal ==
    ASSUME NEW contrib, \A s \in Seats : contrib[s] \in Nat,
           NEW alive \in SUBSET Seats, NEW score \in [alive -> Nat],
           NEW gross \in Nat, NEW net \in 0..gross,
           NEW won \in Payouts(contrib, alive, score, gross, net)
    PROVE  /\ SeatSum(won) \in Nat /\ Contested(contrib, alive) \in Nat
           /\ SeatSum(won) * gross <= Contested(contrib, alive) * net
           /\ Contested(contrib, alive) * net
                <= SeatSum(won) * gross + Cardinality(LevelSeats(contrib)) * gross
           /\ net = gross => SeatSum(won) * gross = Contested(contrib, alive) * net
           /\ gross = 0 => SeatSum(won) = 0
<1>1. PICK first, amounts :
         /\ amounts \in Amounts(contrib, alive, score, gross, net)
         /\ PaidOut(contrib, alive, score, first, amounts, won)
  BY PayoutShares
<1>2. SeatSum(won) = SeatSum(amounts)
  BY <1>1, PaidTotal
<1> DEFINE live == Largest(contrib, alive)
           slices == [r \in Seats |-> IF r \in LevelSeats(contrib) /\ contrib[r] <= live
                                        THEN Slice(contrib, contrib[r]) ELSE 0]
           owed == [r \in Seats |-> slices[r] * net]
           paid == [r \in Seats |-> amounts[r] * gross]
           slack == [r \in Seats |-> IF r \in LevelSeats(contrib) THEN gross ELSE 0]
           limit == [r \in Seats |-> paid[r] + slack[r]]
<1>3. SeatSum(slices) = Contested(contrib, alive)
  <2>1. live = 0 \/ \E s \in Seats : contrib[s] = live
    <3> DEFINE f == [s \in Seats |-> IF s \in alive THEN contrib[s] ELSE 0]
    <3>1. \A s \in Seats : f[s] \in Int
      OBVIOUS
    <3>2. \A s \in Seats : f[s] = 0 \/ f[s] = contrib[s]
      OBVIOUS
    <3>3. live = SeatMax(f)
      BY DEF Largest
    <3> HIDE DEF f, live
    <3>4. live = 0 \/ \E s \in Seats : f[s] = live
      BY <3>1, <3>3, SeatMaxIsLargest
    <3> QED
      BY <3>2, <3>4
  <2>2. SeatSum(slices) = SlicesUpTo(contrib, live)
    BY DEF SlicesUpTo
  <2>3. Contested(contrib, alive) = SeatSum([s \in Seats |-> Smaller(contrib[s], live)])
    BY DEF Contested
  <2> HIDE DEF live, slices
  <2> QED
    BY <2>1, <2>2, <2>3, SlicesAddUp
<1>4. ASSUME NEW r \in Seats
      PROVE  /\ slices[r] \in Nat /\ amounts[r] \in Nat
             /\ paid[r] <= owed[r] /\ owed[r] <= limit[r]
             /\ net = gross => paid[r] = owed[r]
             /\ gross = 0 => amounts[r] = 0
  <2>1. amounts[r] \in Nat
    BY <1>1 DEF Amounts
  <2>2. r \in LevelSeats(contrib) => Slice(contrib, contrib[r]) \in Nat
    BY SliceNat
  <2>3. /\ slices[r] = IF r \in LevelSeats(contrib) /\ contrib[r] <= live
                         THEN Slice(contrib, contrib[r]) ELSE 0
        /\ owed[r] = slices[r] * net /\ paid[r] = amounts[r] * gross
        /\ limit[r] = amounts[r] * gross + (IF r \in LevelSeats(contrib) THEN gross ELSE 0)
    OBVIOUS
  <2>4. CASE r \in Winnable(contrib, alive, score)
    <3>1. r \in LevelSeats(contrib) /\ contrib[r] <= live
      BY <2>4, WinnableIs
    <3>2. IsScaled(amounts[r], Slice(contrib, contrib[r]), gross, net)
      BY <1>1, <2>4 DEF Amounts
    <3>3. slices[r] = Slice(contrib, contrib[r]) /\ limit[r] = amounts[r] * gross + gross
      BY <2>3, <3>1
    <3> HIDE DEF live, slices, owed, paid, limit
    <3> QED
      BY <2>1, <2>2, <2>3, <3>1, <3>2, <3>3 DEF IsScaled
  <2>5. CASE r \notin Winnable(contrib, alive, score)
    <3>1. amounts[r] = 0
      BY <1>1, <2>5 DEF Amounts
    <3>2. slices[r] = 0
      BY <2>3, <2>5, WinnableIs
    <3> HIDE DEF live, slices, owed, paid, limit
    <3>3. owed[r] = 0 /\ paid[r] = 0 /\ limit[r] \in Nat
      BY <2>3, <3>1, <3>2
    <3> QED
      BY <2>1, <3>1, <3>2, <3>3
  <2> QED
    BY <2>4, <2>5
<1>5. /\ SeatSum(owed) = SeatSum(slices) * net
      /\ SeatSum(paid) = SeatSum(amounts) * gross
      /\ SeatSum(slack) = Cardinality(LevelSeats(contrib)) * gross
  <2>1. \A r \in Seats : owed[r] = slices[r] * net /\ paid[r] = amounts[r] * gross
    OBVIOUS
  <2>2. LevelSeats(contrib) \in SUBSET Seats
    BY DEF LevelSeats
  <2>3. SeatSum(slack) = Cardinality(LevelSeats(contrib)) * gross
    BY <2>2, SameForEach
  <2>4. \A r \in Seats : slices[r] \in Int /\ amounts[r] \in Int
    BY <1>4
  <2> HIDE DEF slices, owed, paid, slack
  <2> QED
    BY <2>1, <2>3, <2>4, SeatSumScale
<1>6. \A r \in Seats : /\ slices[r] \in Nat /\ amounts[r] \in Nat
                       /\ owed[r] \in Int /\ paid[r] \in Int /\ slack[r] \in Int
                       /\ limit[r] = paid[r] + slack[r]
                       /\ paid[r] <= owed[r] /\ owed[r] <= limit[r]
                       /\ net = gross => paid[r] = owed[r]
                       /\ gross = 0 => amounts[r] = 0
  BY <1>4
<1> HIDE DEF slices, owed, paid, slack, limit
<1>7. SeatSum(limit) = SeatSum(paid) + SeatSum(slack)
  BY <1>6, SeatSumAdd
<1>8. SeatSum(paid) <= SeatSum(owed) /\ SeatSum(owed) <= SeatSum(limit)
  BY <1>6, SeatSumOrder
<1>9. net = gross => SeatSum(paid) = SeatSum(owed)
  BY <1>6, SeatSumEqual
<1>10. gross = 0 => SeatSum(amounts) = 0
  BY <1>6 DEF SeatSum, At
<1>11. SeatSum(slices) \in Nat /\ SeatSum(amounts) \in Nat
  BY <1>6, SeatSumNat
<1> QED
  BY <1>2, <1>3, <1>5, <1>7, <1>8, <1>9, <1>10, <1>11
=============================================================================

------------------------------ MODULE SeatMath ------------------------------
(***************************************************************************)
(* The arithmetic every table script repeats over the ten seats of a poker *)
(* table (for i = 0, 9 do ... end): sums, maxima and the clockwise search  *)
(* for the next seat.  The ten-seat loops are written out rather than      *)
(* folded, so that they can be proved about as well as evaluated.          *)
(***************************************************************************)
EXTENDS Integers, FiniteSets

CONSTANT Seats      \* the seats clients ask for; the other seats stay vacant

ASSUME SeatsAssumption == Seats \subseteq 0..9

NoSeat == -1        \* the scripts' turnSeat when nobody is to act

Smaller(a, b) == IF a <= b THEN a ELSE b
Larger(a, b) == IF a >= b THEN a ELSE b

\* f[i], or nothing when no client ever sits in seat i.
At(f, i) == IF i \in Seats THEN f[i] ELSE 0

\* The sum of f over the table.
SeatSum(f) ==
    At(f, 0) + At(f, 1) + At(f, 2) + At(f, 3) + At(f, 4)
      + At(f, 5) + At(f, 6) + At(f, 7) + At(f, 8) + At(f, 9)

\* The largest value of f over the table, and at least zero.
SeatMax(f) ==
    Larger(0, Larger(At(f, 0), Larger(At(f, 1), Larger(At(f, 2), Larger(At(f, 3),
      Larger(At(f, 4), Larger(At(f, 5), Larger(At(f, 6), Larger(At(f, 7),
      Larger(At(f, 8), At(f, 9)))))))))))

\* How many steps clockwise lead from seat s to seat t; a whole turn to itself.
Offset(s, t) == IF t > s THEN t - s ELSE t - s + 10

\* The first seat of the set T met clockwise after seat s.
NextOf(T, s) ==
    IF T = {} THEN NoSeat
    ELSE CHOOSE t \in T : \A u \in T : Offset(s, t) <= Offset(s, u)
=============================================================================

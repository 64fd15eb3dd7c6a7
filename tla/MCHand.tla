------------------------------- MODULE MCHand -------------------------------
(***************************************************************************)
(* Hands played at a table whose seats are taken, for TLC.                 *)
(***************************************************************************)
EXTENDS TableProps

CONSTANT Stacks     \* bound: the stacks the players bring to the first hand

\* join_table.lua seats nobody without chips.
ASSUME StacksAssumption == Stacks \subseteq Nat \ {0}

Seat(chips) == [Vacant EXCEPT !.status = "waiting", !.chips = chips, !.timeBank = TimeBank]

\* Between two hands: as a showdown leaves the table, the button anywhere.
DealInit ==
    /\ table \in [phase : {"waiting"}, pot : {0}, currentBet : {0},
                  lastRaiseSize : {BigBlind}, turnSeat : {NoSeat}, dealerSeat : Seats,
                  playersActedCount : {0}, handNumber : {0}]
    /\ players \in [Seats -> {Seat(chips) : chips \in Stacks}]
    /\ balance = [s \in Seats |-> 0]
    /\ house = 0
    /\ reply = "idle"

\* The hands of the instance are over: the table rests.
Finished ==
    /\ table.handNumber = MaxHands
    /\ table.phase \in {"waiting", "showdown"}
    /\ reply \in {"idle", "complete"}
    /\ UNCHANGED vars

\* Bound: nobody raises on his time bank; the run of MCTimeBank.cfg shows what becomes of it.
RaisesInTime ==
    ~\E s \in Seats, amount \in 0..MaxAmount : players[s].usingBank /\ Raise(s, amount)

\* Seats are alike, and stacks come in every order: the button may be at the first.
PromptInit == DealInit /\ \A s \in Seats : table.dealerSeat <= s

PromptSpec ==
    PromptInit /\ [][(HandNext /\ RaisesInTime) \/ Finished]_vars /\ Fairness

HandSpec == DealInit /\ [][HandNext \/ Finished]_vars /\ Fairness
=============================================================================

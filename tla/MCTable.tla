------------------------------ MODULE MCTable ------------------------------
(***************************************************************************)
(* Hands played while players come and go, for TLC: at any moment of a     *)
(* hand, or between hands, clients make up to MaxRequests requests.        *)
(***************************************************************************)
EXTENDS MCHand

CONSTANTS
    Parties,            \* bound: the sets of seats taken at first
    MaxRequests,        \* bound: seat requests made in a behaviour
    Slow                \* bound: the seats whose players ever open their time bank

VARIABLE requests       \* how many have been made

TableInit ==
    /\ table \in [phase : {"waiting"}, pot : {0}, currentBet : {0},
                  lastRaiseSize : {BigBlind}, turnSeat : {NoSeat}, dealerSeat : {0},
                  playersActedCount : {0}, handNumber : {0}]
    /\ \E party \in Parties, chips \in Stacks :
          players = [s \in Seats |-> IF s \in party THEN Seat(chips) ELSE Vacant]
    /\ balance \in [Seats -> Wallets]
    /\ house = 0
    /\ reply = "idle"
    /\ requests = 0

TableNext ==
    \/ /\ HandNext
       /\ \A s \in Seats \ Slow : players'[s].usingBank => players[s].usingBank
       /\ UNCHANGED requests
    \/ SeatNext /\ requests < MaxRequests /\ requests' = requests + 1

TableSpec == TableInit /\ [][TableNext]_<<vars, requests>>
=============================================================================

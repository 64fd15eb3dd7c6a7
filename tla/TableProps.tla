----------------------------- MODULE TableProps -----------------------------
(***************************************************************************)
(* What a poker table owes its players, stated of TableEngine.             *)
(***************************************************************************)
EXTENDS TableEngine

Chips(ps) == [s \in Seats |-> ps[s].chips]

\* The chips the hand is played with: every stack and the pot.
Stakes == SeatSum(Chips(players)) + table.pot

\* Everything there is: chips on the table, set aside, in wallets, with the house.
Money ==
    SeatSum([s \in Seats |-> players[s].chips + players[s].pendingTopUp + balance[s]])
      + table.pot + house

\* showdown.lua is the step that settles a hand by score.
Judged == reply = "showdown" /\ table'.phase = "waiting" /\ reply' = "complete"

\* What seat s gains in a step.
Gain(s) == players'[s].chips - players[s].chips

\* No stack is ever overdrawn, and the pot always covers the bets of the players
\* in the hand, so that an uncalled bet can be given back (bet.lua:502-512).
Solvent ==
    /\ \A s \in Seats : players[s].chips >= 0 /\ players[s].currentBet >= 0
    /\ table.phase \in Streets =>
          table.pot >= SeatSum([s \in Seats |-> IF s \in InHand(players)
                                                  THEN players[s].currentBet ELSE 0])

\* A bet, a timeout or a new street moves chips between the stacks and the pot and
\* neither makes nor loses one (the pot updates of bet.lua, timeout.lua's award).
BettingConservesChips ==
    [][(\E s \in Seats : Bet(s) \/ Timeout(s)) \/ NextStreet => Stakes' = Stakes]_vars

\* While a hand is played, the pot is what the seats are recorded to have put in;
\* showdown.lua divides the pot by these records, not by the pot.
PotIsContributions ==
    table.phase \in Streets => table.pot = SeatSum(Contributions(players))

\* When a street is due, nobody who can still act has bet less than anybody in
\* the hand: the round did not close on a player with a bet to answer.
RoundBalanced ==
    reply = "street" =>
        \A s \in Active(players), r \in InHand(players) :
            players[r].currentBet <= players[s].currentBet

\* A player to act is a player who can: whenever the table waits for a move, the
\* seat it waits for is active.
TurnIsLive == reply = "play" => table.turnSeat \in Active(players)

\* A showdown pays what is contested: of each seat's contribution the part up to
\* the largest one among the players still in the hand.  When rake is taken, it
\* comes out of every chip alike, and each side pot is rounded down to a chip.
ShowdownPaysTheContested ==
    [][Judged =>
        LET contrib == Contributions(players)
            live == SeatMax([s \in Seats |-> IF s \in InHand(players) THEN contrib[s] ELSE 0])
            contested == SeatSum([s \in Seats |-> Smaller(contrib[s], live)])
            paid == SeatSum([s \in Seats |-> Gain(s)])
            rake == house' - house
            lost == contested * (table.pot - rake) - paid * table.pot
        IN  /\ 0 <= lost
            /\ lost <= (IF rake = 0 THEN 0 ELSE Cardinality(LevelSeats(contrib)) * table.pot)]_vars

\* A player who is all-in for less wins from each opponent at most what he put in
\* himself, whatever side pots were built above him.
AllInCap ==
    [][Judged =>
        \A s \in Seats :
            Gain(s) <= SeatSum([r \in Seats |->
                Smaller(players[r].totalContribution, players[s].totalContribution)])]_vars

\* The seats are recorded to have put in more than there is in the pot.
Overrecorded == table.pot < SeatSum(Contributions(players))

\* Nobody plays on credit and nobody is paid twice: no operation makes money.  Set
\* apart are the hard reset at boot and a showdown that divides a pot by records
\* it does not match, which have properties of their own.
NoMoneyMade == [][Money' <= Money \/ ForceCleanup \/ (Judged /\ Overrecorded)]_vars

\* A showdown pays out no more than the pot (stress.spec.ts:261, "Conservation of
\* chips check": stacks and rake add up to what was there before).
ShowdownConserves == [][Judged => Money' <= Money]_vars

\* The hard reset gives back exactly what was on the table (force_cleanup.lua:36
\* "total money on table", 60 "The pot is already included").
CleanupReturnsTheStakes == [][ForceCleanup => Money' = Money]_vars

\* Who is on a break, was benched by a timeout, or asked to sit out and is still
\* connected.
StaysOut(p) ==
    \/ p.status = "sitting_out"
    \/ p.benchAfterHand
    \/ p.sitOutNextHand /\ ~p.offline

\* A deal leaves out who stays out: he gets no cards and posts no blind, whichever
\* way the wish came about (the promotion pass of next_hand.lua).
BreakRespected ==
    [][table'.handNumber > table.handNumber =>
        \A s \in Seats : StaysOut(players[s]) =>
            /\ s \notin Active(players')
            /\ players'[s].totalContribution = 0]_vars

\* While a hand is played, who holds cards is in it, and who is in it with chips in
\* the pot holds cards: no folded or vacated hand stays live, and nobody can win a
\* pot he paid into without a hand (the resets of next_hand.lua, showdown.lua).
CardsMatchHand ==
    table.phase \in Streets =>
        \A s \in Seats :
            /\ players[s].cards => s \in InHand(players)
            /\ s \in InHand(players) /\ players[s].totalContribution > 0 => players[s].cards

\* A disconnected player is not in the new hand (next_hand.lua:147-148).
OfflineStaysOut ==
    [][table'.handNumber > table.handNumber =>
        \A s \in Seats : players[s].offline => s \notin InHand(players')]_vars

\* How a record's status reads to someone who only deals with the table's flow.
StandingOf(p) ==
    IF p.status = "sitting_out" THEN "out"
    ELSE IF p.status \in {"busted", "leaving"} THEN "parked" ELSE p.status

Shell == INSTANCE TableShell WITH
            phase <- table.phase, turnSeat <- table.turnSeat, pot <- table.pot > 0,
            standing <- [s \in Seats |-> StandingOf(players[s])],
            hands <- table.handNumber

\* The scripts change phase, turn and standings only the ways TableShell allows:
\* who moved is who was to move, streets come in order, a hand is dealt to two or
\* more who may be dealt in, whoever rests is not brought back by a script.
ImplementsShell == Shell!ShellSpec

\* The pot of every hand is paid out in the end: timers, streets and showdowns
\* carry each hand to its end whatever the players do or fail to do.
PotsArePaid == table.pot > 0 ~> table.pot = 0
=============================================================================

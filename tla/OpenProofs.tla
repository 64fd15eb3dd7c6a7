----------------------------- MODULE OpenProofs -----------------------------
(***************************************************************************)
(* Theorems about a table whose players come and go: between any two steps *)
(* of a hand clients may take a seat, leave it, sit out, top up, drop off  *)
(* and return, and the reset at boot may strike.  For any number of seats  *)
(* and hands, any stacks, wallets, stakes and rules.                       *)
(***************************************************************************)
EXTENDS MCTable, HandProofs

\* Before the first hand: who is seated waits with his stack, and no chip is in play.
Waits(p) == p = Vacant \/ \E chips \in Stacks : p = Seat(chips)

OpenInit ==
    /\ table \in [phase : {"waiting"}, pot : {0}, currentBet : {0},
                  lastRaiseSize : {0, BigBlind}, turnSeat : {NoSeat}, dealerSeat : 0..9,
                  playersActedCount : {0}, handNumber : {0}]
    /\ players \in [Seats -> Player] /\ \A s \in Seats : Waits(players[s])
    /\ balance \in [Seats -> Int]
    /\ house = 0
    /\ reply = "idle"

\* Hands are played and requests made in any order.
OpenTable == OpenInit /\ [][Next]_vars

(***************************************************************************)
(* The inductive invariant.                                                *)
(***************************************************************************)

\* Of the requests that together let a player keep the cards of a hand that is over
\* while he is not in the next one, clients make one kind at most.
CardsApart == "add_chips_vault" \notin Requests \/ "set_offline" \notin Requests

\* Who holds cards is in the hand; between hands somebody who was topped up may hold the
\* cards of the last one, when there is nobody whom the sweep would skip as offline.
Held(p, t) ==
    /\ p.cards =>
          \/ p.status \in Live
          \/ /\ t.phase \notin Streets /\ p.status \in {"waiting", "sitting_out"}
             /\ "set_offline" \notin Requests
    /\ p.offline => "set_offline" \in Requests

\* The bets of the web client are never below zero or above the bet to call.
Counted(p, t) ==
    /\ p.totalContribution >= 0
    /\ t.phase \in Streets /\ p.status \in Live => p.currentBet <= t.currentBet

\* A seat's record, at table t: no stack and no bet is negative, and who can win holds cards.
\* Who is left all-in without chips between hands has no bet, for no sweep takes it back.
Sound(p, t) ==
    /\ p.chips >= 0 /\ p.currentBet >= 0
    /\ p.status = "all-in" /\ p.totalContribution > 0 => p.cards
    /\ t.phase \in Streets /\ p.status = "active" => p.cards
    /\ t.phase \notin Streets /\ p.status = "all-in" /\ p.chips = 0 => p.currentBet = 0
    /\ WebClient => Counted(p, t)
    /\ CardsApart => Held(p, t)

\* The pot covers the bets of the players in the hand.
Backed(ps, t) ==
    /\ t.currentBet >= 0 /\ t.pot >= 0
    /\ WebClient => t.lastRaiseSize >= 0
    /\ t.phase \in Streets => t.pot >= SeatSum(LiveBets(ps))

OpenFacts(ps, t) == (\A s \in Seats : Sound(ps[s], t)) /\ Backed(ps, t)

\* Outside the streets nobody is to act: the last player left gets the pot while the
\* gateway still waits for a move, but the turn is taken from everybody (leave_table.lua).
TurnRests == reply \in {"play", "runout"} /\ table.phase \notin Streets => table.turnSeat = NoSeat

\* When nobody leaves, what is due is due in a hand, and the table waits for a player who
\* can act.
TurnFits ==
    "leave" \notin Requests =>
        /\ reply \in {"play", "street"} => table.phase \in Streets
        /\ reply = "play" => table.turnSeat \in Active(players)

\* The street that is due in a hand follows a round of matched bets.
StreetFits == WebClient /\ reply = "street" /\ table.phase \in Streets => Balanced(players)

DueHolds == TurnRests /\ TurnFits /\ StreetFits

OpenInv == TypeOK /\ OpenFacts(players, table) /\ DueHolds

\* What a step is to keep, besides the types.
Stays == OpenFacts(players', table') /\ DueHolds'

(***************************************************************************)
(* A bet, whoever's client sent it.                                        *)
(***************************************************************************)

\* The player at seat s has moved put chips into the pot, or taken them back with a raise
\* that lowers his bet: p is his record then, t the table.
Moves(s, p, t, put) ==
    /\ p \in Player /\ put \in Int /\ SameTurn(t, table)
    /\ p.chips = players[s].chips - put /\ p.chips >= 0
    /\ p.currentBet = players[s].currentBet + put /\ p.currentBet >= 0
    /\ p.offline = players[s].offline
    /\ t.pot = table.pot + put /\ t.currentBet >= 0
    /\ \/ p.status = "folded" /\ ~p.cards /\ put = 0
       \/ p.status \in Live /\ p.cards = players[s].cards
    /\ WebClient =>
          /\ p.totalContribution >= 0 /\ t.lastRaiseSize >= 0
          /\ t.currentBet >= table.currentBet
          /\ p.status \in Live => p.currentBet <= t.currentBet

\* What a bet of any client needs of the actor's record and the table.
Able(s) ==
    /\ players[s].chips >= 0 /\ players[s].currentBet >= 0
    /\ table.currentBet >= 0 /\ table.pot >= players[s].currentBet

\* A bet that bet.lua accepts moves no more than the player has, and takes back no more
\* than he has bet: a raise to less than his bet counts as one to its amount.
LEMMA RawMoves ==
    ASSUME TypeOK, ~WebClient, NEW s \in Seats, Bet(s), Able(s)
    PROVE  \E p, t, put : AfterBet(s, p, t) /\ Moves(s, p, t, put)
<1> DEFINE own == players[s]
<1>1. own \in Player /\ table \in Table /\ own.cards \in BOOLEAN
  BY PlayerFields DEF TypeOK
<1>2. own.status = "active"
  BY DEF Bet, Fold, Check, Call, AllIn, Raise, MayBet
<1>3. /\ own.chips \in Nat /\ own.currentBet \in Nat /\ own.totalContribution \in Int
      /\ table.pot \in Nat /\ table.currentBet \in Nat /\ table.lastRaiseSize \in Int
      /\ table.pot >= own.currentBet
  BY <1>1, PlayerFields, TableFields DEF Able
<1>4. CASE Fold(s)
  <2> DEFINE p == [own EXCEPT !.status = "folded", !.cards = FALSE]
             t == Acted(table, FALSE)
  <2>1. AfterBet(s, p, t)
    BY <1>4 DEF Fold
  <2>2. /\ p \in Player /\ p.status = "folded" /\ ~p.cards /\ p.offline = own.offline
        /\ p.chips = own.chips /\ p.currentBet = own.currentBet
    <3>1. p = [[own EXCEPT !.status = "folded"] EXCEPT !.cards = FALSE]
      BY <1>1 DEF Player
    <3>2. p \in Player
      BY <1>1, <3>1, PlayerUpdates, Names
    <3> QED
      BY <1>1, <3>1, <3>2 DEF Player
  <2>3. SameTurn(t, table) /\ t.pot = table.pot /\ t.currentBet = table.currentBet
    BY <1>1, ActedFields
  <2> HIDE DEF p, t
  <2>4. Moves(s, p, t, 0)
    BY <1>3, <2>2, <2>3 DEF Moves
  <2> QED
    BY <2>1, <2>4
<1>5. CASE Check(s)
  <2> DEFINE t == Acted(table, FALSE)
  <2>1. AfterBet(s, own, t)
    BY <1>5 DEF Check
  <2>2. SameTurn(t, table) /\ t.pot = table.pot /\ t.currentBet = table.currentBet
    BY <1>1, ActedFields
  <2> HIDE DEF t
  <2>3. Moves(s, own, t, 0)
    BY <1>1, <1>2, <1>3, <2>2 DEF Moves, Live
  <2> QED
    BY <2>1, <2>3
<1>6. CASE Call(s)
  <2> DEFINE put == Called(s)
             status == IF own.chips = put THEN "all-in" ELSE "active"
             a == Acted(table, FALSE)
             p == Put(own, put, status)
             t == [a EXCEPT !.pot = @ + put]
  <2>1. AfterBet(s, p, t)
    BY <1>6 DEF Call
  <2>2. put \in Int /\ put <= own.chips /\ 0 <= own.currentBet + put
    BY <1>3 DEF Called, ToCall, Smaller
  <2>3. status \in Statuses /\ status \in Live
    BY Names DEF Live
  <2> HIDE DEF put
  <2>4. /\ p \in Player /\ p.chips = own.chips - put /\ p.currentBet = own.currentBet + put
        /\ p.status = status /\ p.cards = own.cards /\ p.offline = own.offline
    <3> HIDE DEF status
    <3> QED
      BY <1>1, <2>2, <2>3, PutFields
  <2>5. SameTurn(t, table) /\ t.pot = table.pot + put /\ t.currentBet = table.currentBet
    <3>1. /\ SameTurn(a, table) /\ a.pot = table.pot /\ a.currentBet = table.currentBet
          /\ a.lastRaiseSize = table.lastRaiseSize
      BY <1>1, ActedFields
    <3> HIDE DEF a
    <3>2. a.pot + put \in Int /\ a.currentBet \in Int /\ a.lastRaiseSize \in Int
      BY <1>3, <2>2, <3>1
    <3>3. t = Staked(a, a.pot + put, a.currentBet, a.lastRaiseSize)
      BY <3>1 DEF SameTurn, Table, Staked
    <3> HIDE DEF t
    <3>4. SameTurn(t, table) /\ t.pot = a.pot + put /\ t.currentBet = a.currentBet
      BY <1>1, <3>1, <3>2, <3>3, StakesFields
    <3> QED
      BY <3>1, <3>4
  <2> HIDE DEF p, t, status
  <2>6. Moves(s, p, t, put)
    BY <1>3, <2>2, <2>3, <2>4, <2>5 DEF Moves
  <2> QED
    BY <2>1, <2>6
<1>7. CASE AllIn(s)
  <2> DEFINE put == own.chips
             p == Put(own, put, "all-in")
             raises == p.currentBet > table.currentBet
             a == Acted(table, raises)
             pot == table.pot + put
             bet == IF raises THEN p.currentBet ELSE table.currentBet
             raise == IF raises THEN p.currentBet - table.currentBet ELSE table.lastRaiseSize
             t == [a EXCEPT
                     !.pot = @ + put,
                     !.currentBet = IF raises THEN p.currentBet ELSE @,
                     !.lastRaiseSize = IF raises THEN p.currentBet - table.currentBet ELSE @]
  <2>1. AfterBet(s, p, t)
    BY <1>7 DEF AllIn
  <2>2. /\ p \in Player /\ p.chips = 0 /\ p.currentBet = own.currentBet + put
        /\ p.status = "all-in" /\ p.cards = own.cards /\ p.offline = own.offline
    <3>1. "all-in" \in Statuses /\ put \in Int /\ own.chips - put = 0
      BY <1>3, Names
    <3> QED
      BY <1>1, <3>1, PutFields
  <2> HIDE DEF p
  <2>3. pot \in Int /\ bet \in Int /\ raise \in Int /\ bet >= 0
    BY <1>3, <2>2
  <2>4. raises \in BOOLEAN
    OBVIOUS
  <2>5. SameTurn(t, table) /\ t.pot = pot /\ t.currentBet = bet
    <3>1. /\ SameTurn(a, table) /\ a.pot = table.pot /\ a.currentBet = table.currentBet
          /\ a.lastRaiseSize = table.lastRaiseSize
      <4> HIDE DEF raises
      <4> QED
        BY <1>1, <2>4, ActedFields
    <3> HIDE DEF a
    <3>2. t = Staked(a, pot, bet, raise)
      <4> HIDE DEF raises
      <4> QED
        BY <3>1 DEF SameTurn, Table, Staked
    <3> HIDE DEF pot, bet, raise, t
    <3> QED
      BY <1>1, <2>3, <3>1, <3>2, StakesFields
  <2> HIDE DEF t, bet, raise, raises, a
  <2>6. Moves(s, p, t, put)
    BY <1>3, <2>2, <2>3, <2>5 DEF Moves, Live
  <2> QED
    BY <2>1, <2>6
<1>8. ASSUME NEW amount \in 0..MaxAmount, Raise(s, amount)
      PROVE  \E p, t, put : AfterBet(s, p, t) /\ Moves(s, p, t, put)
  <2> DEFINE cap == Capped(s, amount)
             put == IF cap >= own.chips THEN own.chips ELSE cap - own.currentBet
             bet == own.currentBet + put
             status == IF own.chips = put THEN "all-in" ELSE "active"
             raised == Put(own, put, status)
             recorded == IF own.usingBank THEN own.totalContribution
                                          ELSE raised.totalContribution
             a == Acted(table, TRUE)
             pot == table.pot + put
             raise == IF bet > table.currentBet THEN bet - table.currentBet
                                                ELSE table.lastRaiseSize
             p == [raised EXCEPT !.totalContribution = recorded]
             t == [a EXCEPT !.pot = @ + put, !.currentBet = bet,
                            !.lastRaiseSize = IF bet > table.currentBet
                                                THEN bet - table.currentBet ELSE @]
  <2>1. AfterBet(s, p, t)
    BY <1>8 DEF Raise
  <2>2. amount \in Nat
    BY BoundsAssumption
  <2>3. cap \in Nat
    <3>1. CASE PotLimit
      <4> DEFINE room == table.pot + 2 * ToCall(s) + own.currentBet
                 all == own.chips + own.currentBet
      <4>1. room \in Nat /\ all \in Nat
        BY <1>3 DEF ToCall
      <4>2. cap = Smaller(amount, Smaller(room, all))
        BY <3>1 DEF Capped
      <4> HIDE DEF room, all, cap
      <4> QED
        BY <2>2, <4>1, <4>2 DEF Smaller
    <3>2. CASE ~PotLimit
      BY <2>2, <3>2 DEF Capped
    <3> QED
      BY <3>1, <3>2
  <2> HIDE DEF cap
  <2>4. put \in Int /\ put <= own.chips /\ bet \in Nat
    BY <1>3, <2>3
  <2> HIDE DEF put
  <2>5. status \in Statuses /\ status \in Live
    BY Names DEF Live
  <2>6. /\ p \in Player /\ p.chips = own.chips - put /\ p.currentBet = bet
        /\ p.status = status /\ p.cards = own.cards /\ p.offline = own.offline
    <3> HIDE DEF status
    <3>1. /\ raised \in Player /\ raised.chips = own.chips - put /\ raised.currentBet = bet
          /\ raised.totalContribution = own.totalContribution + put
          /\ raised.status = status /\ raised.cards = own.cards /\ raised.offline = own.offline
      BY <1>1, <2>4, <2>5, PutFields
    <3> HIDE DEF raised
    <3>2. recorded \in Int
      BY <1>3, <2>4, <3>1
    <3> HIDE DEF recorded, p
    <3>3. p = [raised EXCEPT !.totalContribution = recorded]
      BY DEF p
    <3>4. /\ p \in Player
          /\ p.chips = raised.chips /\ p.currentBet = raised.currentBet
          /\ p.status = raised.status /\ p.cards = raised.cards /\ p.offline = raised.offline
      BY <3>1, <3>2, <3>3, TotalFields
    <3> QED
      BY <3>1, <3>4
  <2>7. pot \in Int /\ raise \in Int
    BY <1>3, <2>4
  <2>8. SameTurn(t, table) /\ t.pot = pot /\ t.currentBet = bet
    <3>1. /\ SameTurn(a, table) /\ a.pot = table.pot /\ a.currentBet = table.currentBet
          /\ a.lastRaiseSize = table.lastRaiseSize
      BY <1>1, ActedFields
    <3> HIDE DEF a, bet
    <3>2. t = Staked(a, pot, bet, raise)
      BY <3>1 DEF SameTurn, Table, Staked
    <3> HIDE DEF pot, raise, t
    <3> QED
      BY <1>1, <2>4, <2>7, <3>1, <3>2, StakesFields
  <2> HIDE DEF p, t, raise, a, status
  <2>9. Moves(s, p, t, put)
    BY <1>3, <2>4, <2>5, <2>6, <2>7, <2>8 DEF Moves
  <2> QED
    BY <2>1, <2>9
<1> QED
  BY <1>4, <1>5, <1>6, <1>7, <1>8 DEF Bet

\* The types of the fields, and what is natural of a sound record.
LEMMA SoundFields ==
    ASSUME NEW ps \in [Seats -> Player], NEW t \in Table, OpenFacts(ps, t), NEW s \in Seats
    PROVE  /\ ps[s] \in Player /\ Sound(ps[s], t)
           /\ ps[s].chips \in Nat /\ ps[s].currentBet \in Nat
           /\ ps[s].totalContribution \in Int /\ ps[s].pendingTopUp \in Nat
           /\ t.pot \in Nat /\ t.currentBet \in Nat
           /\ LiveBets(ps)[s] \in Nat
<1>1. ps[s] \in Player /\ Sound(ps[s], t) /\ Backed(ps, t)
  BY DEF OpenFacts
<1>2. /\ ps[s].chips \in Nat /\ ps[s].currentBet \in Nat
      /\ ps[s].totalContribution \in Int /\ ps[s].pendingTopUp \in Nat
  BY <1>1, PlayerFields DEF Sound
<1>3. t.pot \in Nat /\ t.currentBet \in Nat
  BY <1>1, TableFields DEF Backed
<1> QED
  BY <1>1, <1>2, <1>3 DEF LiveBets

\* Whoever bets or runs out of time does so in a hand: nobody bets between hands.
LEMMA MovesInHand ==
    ASSUME OpenInv, MaxActed = 0, NEW s \in Seats, MayBet(s) \/ TimesOut(s)
    PROVE  table.phase \in Streets /\ reply \in {"play", "runout"} /\ table.turnSeat = s
<1>1. table.turnSeat = s /\ s # NoSeat
  BY SeatsAssumption DEF MayBet, TimesOut, NoSeat
<1>2. table.playersActedCount \in Nat /\ reply \in Replies
  BY TableFields DEF OpenInv, TypeOK
<1>3. reply \in {"play", "runout"}
  BY <1>2 DEF MayBet, TimesOut, Replies
<1> QED
  BY <1>1, <1>3 DEF OpenInv, DueHolds, TurnRests

\* The pot of a hand covers each bet of a player in it.
LEMMA BetInPot ==
    ASSUME OpenInv, table.phase \in Streets, NEW s \in Seats, players[s].status \in Live
    PROVE  players[s].currentBet <= table.pot
<1>1. players \in [Seats -> Player] /\ table \in Table /\ OpenFacts(players, table)
  BY DEF OpenInv, TypeOK
<1>2. \A r \in Seats : LiveBets(players)[r] \in Nat
  BY <1>1, SoundFields
<1>3. LiveBets(players)[s] = players[s].currentBet
  BY DEF LiveBets
<1>4. players[s].currentBet <= SeatSum(LiveBets(players))
  BY <1>2, <1>3, SumAtLeast
<1>5. SeatSum(LiveBets(players)) \in Int /\ SeatSum(LiveBets(players)) <= table.pot
  BY <1>1, LiveBetsType DEF OpenFacts, Backed
<1>6. table.pot \in Int /\ players[s].currentBet \in Int
  BY <1>1, TableFields, PlayerFields
<1> QED
  BY <1>4, <1>5, <1>6

\* A bet at an open table is a move, and what it leaves is as the outcomes expect it.
LEMMA BetFollows ==
    ASSUME OpenInv, MaxActed = 0, NEW s \in Seats, Bet(s)
    PROVE  /\ \E p, t, put : AfterBet(s, p, t) /\ Moves(s, p, t, put)
           /\ table.phase \in Streets /\ players[s].status = "active"
<1>1. MayBet(s) /\ players[s].status = "active"
  BY DEF Bet, Fold, Check, Call, AllIn, Raise, MayBet
<1>2. table.phase \in Streets
  BY <1>1, MovesInHand
<1>3. /\ players \in [Seats -> Player] /\ table \in Table /\ OpenFacts(players, table)
      /\ players[s].status \in Live /\ TypeOK
  BY <1>1 DEF OpenInv, TypeOK, Live
<1>4. /\ players[s].chips \in Nat /\ players[s].currentBet \in Nat
      /\ table.pot \in Nat /\ table.currentBet \in Nat
      /\ players[s].currentBet <= table.pot
  BY <1>2, <1>3, SoundFields, BetInPot
<1>5. Sound(players[s], table) /\ Backed(players, table)
  BY <1>3 DEF OpenFacts
<1>6. CASE ~WebClient
  <2>1. Able(s)
    BY <1>4 DEF Able
  <2> QED
    BY <1>1, <1>2, <1>3, <1>6, <2>1, RawMoves
<1>7. CASE WebClient
  <2>1. InOrder(s)
    BY <1>2, <1>3, <1>4, <1>5, <1>7 DEF InOrder, Sound, Counted, Backed
  <2>2. PICK p, t, put : AfterBet(s, p, t) /\ Puts(s, p, t, put)
    BY <1>3, <1>7, <2>1, BetPuts
  <2>3. players[s].totalContribution \in Nat /\ put \in Nat
    BY <1>3, <2>1, <2>2, PlayerFields DEF InOrder, Puts
  <2>4. p.currentBet >= 0 /\ p.totalContribution >= 0 /\ put \in Int
    BY <1>4, <2>2, <2>3 DEF Puts
  <2>5. t.currentBet >= 0 /\ t.currentBet \in Int
    BY <1>4, <2>2, TableFields DEF Puts, SameTurn
  <2>6. \/ p.status = "folded" /\ ~p.cards /\ put = 0
        \/ /\ p.status \in Live /\ p.cards = players[s].cards
           /\ p.currentBet <= t.currentBet
    BY <2>2 DEF Puts, Live
  <2>7. "folded" \notin Live
    BY DEF Live
  <2>8. Moves(s, p, t, put)
    BY <1>7, <2>2, <2>4, <2>5, <2>6, <2>7 DEF Puts, Moves
  <2> QED
    BY <1>1, <1>2, <2>2, <2>8
<1> QED
  BY <1>6, <1>7

\* So does a move leave sound records and a pot that covers the bets.
LEMMA MoveSound ==
    ASSUME OpenInv, table.phase \in Streets, NEW s \in Seats, NEW q, NEW t, NEW put,
           Moves(s, q, t, put), q.status = "folded" \/ players[s].status = "active"
    PROVE  /\ OpenFacts([players EXCEPT ![s] = q], t) /\ t.phase \in Streets /\ t \in Table
           /\ [players EXCEPT ![s] = q] \in [Seats -> Player]
<1> DEFINE ps == [players EXCEPT ![s] = q]
<1>1. /\ players \in [Seats -> Player] /\ table \in Table /\ OpenFacts(players, table)
      /\ q \in Player /\ t \in Table
      /\ t.phase = table.phase /\ players[s] \in Player
  BY DEF OpenInv, TypeOK, Moves, SameTurn
<1>2. ps \in [Seats -> Player]
  BY <1>1
<1>3. ASSUME NEW r \in Seats
      PROVE  Sound(ps[r], t)
  <2>1. CASE r = s
    <3>1. ps[r] = q /\ Sound(players[s], table)
      BY <1>1, <2>1 DEF OpenFacts
    <3>2. q.status \in Live => players[s].cards /\ q.cards
      BY <1>1, <3>1 DEF Moves, Sound, Live
    <3>3. q.cards => q.status \in Live
      BY DEF Moves
    <3>4. CardsApart => Held(q, t)
      BY <3>1, <3>3 DEF Sound, Held, Moves
    <3>5. WebClient => Counted(q, t)
      BY DEF Moves, Counted
    <3>6. q.status \in {"all-in", "active"} => q.status \in Live
      BY DEF Live
    <3> QED
      BY <1>1, <3>1, <3>2, <3>4, <3>5, <3>6 DEF Moves, Sound
  <2>2. CASE r # s
    <3>1. ps[r] = players[r] /\ Sound(players[r], table) /\ players[r] \in Player
      BY <1>1, <2>2 DEF OpenFacts
    <3>2. WebClient => Counted(players[r], t)
      <4>1. WebClient => t.currentBet >= table.currentBet
        BY DEF Moves
      <4> QED
        BY <1>1, <3>1, <4>1, PlayerFields, TableFields DEF Sound, Counted
    <3> QED
      BY <1>1, <3>1, <3>2 DEF Sound, Held
  <2> QED
    BY <2>1, <2>2
<1>4. SeatSum(LiveBets(ps)) <= t.pot
  <2>1. SeatSum(LiveBets(ps)) = SeatSum(LiveBets(players))
             + (IF q.status \in Live THEN q.currentBet ELSE 0)
             - (IF players[s].status \in Live THEN players[s].currentBet ELSE 0)
    BY <1>1, LiveBetsChange
  <2>2. /\ SeatSum(LiveBets(players)) \in Int /\ SeatSum(LiveBets(players)) <= table.pot
        /\ players[s].currentBet \in Nat /\ table.pot \in Nat
    BY <1>1, LiveBetsType, SoundFields DEF OpenFacts, Backed
  <2>3. q.status \in Live => players[s].status \in Live
    BY DEF Live
  <2>4. q.status \notin Live => put = 0
    BY DEF Moves
  <2>5. q.currentBet = players[s].currentBet + put /\ t.pot = table.pot + put /\ put \in Int
    BY DEF Moves
  <2> QED
    BY <2>1, <2>2, <2>3, <2>4, <2>5
<1>5. t.pot >= 0
  <2>1. \A r \in Seats : LiveBets(ps)[r] \in Nat
    BY <1>2, <1>3, PlayerFields DEF LiveBets, Sound
  <2>2. SeatSum(LiveBets(ps)) \in Nat
    BY <2>1, SeatSumNat
  <2> QED
    BY <1>1, <1>4, <2>2, TableFields
<1>6. Backed(ps, t)
  BY <1>4, <1>5 DEF Backed, Moves
<1> QED
  BY <1>1, <1>2, <1>3, <1>6 DEF OpenFacts

(***************************************************************************)
(* What follows a move.                                                    *)
(***************************************************************************)

\* A hand that is won leaves one player in it, with the pot.
LEMMA WonStays ==
    ASSUME NEW ps \in [Seats -> Player], NEW t \in Table, OpenFacts(ps, t),
           t.phase \in Streets, NEW turn, HandWon(ps, t, turn)
    PROVE  Stays
<1>1. /\ Cardinality(InHand(ps)) = 1 /\ reply' = "complete"
      /\ players' = [s \in Seats |->
            IF s \in InHand(ps) THEN [ps[s] EXCEPT !.chips = @ + t.pot] ELSE ps[s]]
      /\ table' = [t EXCEPT !.pot = 0, !.phase = "showdown", !.turnSeat = turn]
  BY DEF HandWon
<1>2. /\ table'.pot = 0 /\ table'.phase = "showdown" /\ table'.currentBet = t.currentBet
      /\ table'.lastRaiseSize = t.lastRaiseSize
  BY <1>1 DEF Table
<1>3. "showdown" \notin Streets
  BY DEF Streets
<1>4. ASSUME NEW s \in Seats
      PROVE  Sound(players'[s], table')
  <2>1. /\ ps[s] \in Player /\ Sound(ps[s], t) /\ ps[s].chips \in Nat
        /\ ps[s].currentBet \in Nat /\ t.pot \in Nat
    BY SoundFields
  <2>2. CASE s \notin InHand(ps)
    <3>1. players'[s] = ps[s] /\ ps[s].status \notin Live
      BY <1>1, <2>2, LiveIs
    <3>2. ps[s].status # "all-in"
      BY <3>1 DEF Live
    <3> QED
      BY <1>2, <1>3, <2>1, <3>1, <3>2 DEF Sound, Counted, Held
  <2>3. CASE s \in InHand(ps)
    <3>1. ps[s].status \in Live /\ players'[s] = [ps[s] EXCEPT !.chips = ps[s].chips + t.pot]
      BY <1>1, <2>3, LiveIs
    <3>2. /\ players'[s].chips = ps[s].chips + t.pot
          /\ players'[s].currentBet = ps[s].currentBet
          /\ players'[s].totalContribution = ps[s].totalContribution
          /\ players'[s].status = ps[s].status
          /\ players'[s].cards = ps[s].cards /\ players'[s].offline = ps[s].offline
      BY <2>1, <3>1 DEF Player
    <3>3. players'[s].chips >= 0
      BY <2>1, <3>2
    <3>4. ps[s].currentBet <= t.pot
      <4>1. \A r \in Seats : LiveBets(ps)[r] \in Nat
        BY SoundFields
      <4>2. LiveBets(ps)[s] = ps[s].currentBet
        BY <3>1 DEF LiveBets
      <4>3. ps[s].currentBet <= SeatSum(LiveBets(ps)) /\ SeatSum(LiveBets(ps)) \in Int
        BY <4>1, <4>2, SumAtLeast, LiveBetsType
      <4>4. SeatSum(LiveBets(ps)) <= t.pot
        BY DEF OpenFacts, Backed
      <4> QED
        BY <2>1, <4>3, <4>4
    <3>5. players'[s].chips = 0 => players'[s].currentBet = 0
      BY <2>1, <3>2, <3>4
    <3>6. WebClient => Counted(players'[s], table')
      BY <1>2, <1>3, <2>1, <3>2 DEF Sound, Counted
    <3>7. CardsApart => Held(players'[s], table')
      BY <2>1, <3>1, <3>2 DEF Sound, Held
    <3> QED
      BY <1>2, <1>3, <2>1, <3>2, <3>3, <3>5, <3>6, <3>7 DEF Sound
  <2> QED
    BY <2>2, <2>3
<1>5. Backed(players', table')
  BY <1>2, <1>3 DEF OpenFacts, Backed
<1>6. DueHolds'
  BY <1>1 DEF DueHolds, TurnRests, TurnFits, StreetFits
<1> QED
  BY <1>4, <1>5, <1>6 DEF Stays, OpenFacts

\* What is given back of a bet leaves a contribution that is positive only if it was.
LEMMA RefundedSound ==
    ASSUME NEW p \in Player, NEW back \in Nat
    PROVE  /\ Refunded(p, back).chips = p.chips + back
           /\ Refunded(p, back).currentBet = p.currentBet - back
           /\ Refunded(p, back).totalContribution > 0 => p.totalContribution > 0
           /\ p.totalContribution >= 0 => Refunded(p, back).totalContribution >= 0
           /\ Refunded(p, back).status = p.status
           /\ Refunded(p, back).cards = p.cards
           /\ Refunded(p, back).offline = p.offline
           /\ Refunded(p, back) \in Player
<1>1. Refunded(p, back) \in Player
  BY RefundedType
<1> QED
  BY <1>1, PlayerFields DEF Refunded, Player, Larger

\* A round that is over gives back what nobody called; the pot still covers the bets, and
\* nobody who can still act has bet less than anybody in the hand.
LEMMA OverStays ==
    ASSUME NEW ps \in [Seats -> Player], NEW t \in Table, OpenFacts(ps, t),
           t.phase \in Streets, NEW turn, NEW refund, Refunds(ps, refund),
           RoundOver(ps, t, turn, refund)
    PROVE  Stays
<1> DEFINE qs == Settled(ps, refund)
           left == LiveBets(qs)
           bets == LiveBets(ps)
<1>1. /\ RoundClosed(ps, t) /\ reply' = "street" /\ players' = qs
      /\ table' = [t EXCEPT !.pot = @ - SeatSum(refund), !.turnSeat = turn]
  BY DEF RoundOver, Settled
<1>2. /\ table'.pot = t.pot - SeatSum(refund) /\ table'.phase = t.phase
      /\ table'.currentBet = t.currentBet /\ table'.lastRaiseSize = t.lastRaiseSize
  BY <1>1 DEF Table
<1>3. \A s \in Seats :
         /\ ps[s] \in Player /\ Sound(ps[s], t)
         /\ ps[s].chips \in Nat /\ ps[s].currentBet \in Nat /\ bets[s] \in Nat
         /\ t.pot \in Nat /\ t.currentBet \in Nat
  BY SoundFields
<1>4. \A s \in Seats :
         /\ refund[s] \in Nat /\ refund[s] <= ps[s].currentBet
         /\ refund[s] > 0 =>
               /\ s \in InHand(ps)
               /\ \A r \in InHand(ps) \ {s} : ps[r].currentBet <= ps[s].currentBet - refund[s]
  BY <1>3, RefundIs
<1>5. \A s \in Seats :
         /\ qs[s] \in Player
         /\ qs[s].chips = ps[s].chips + refund[s]
         /\ qs[s].currentBet = ps[s].currentBet - refund[s]
         /\ qs[s].totalContribution > 0 => ps[s].totalContribution > 0
         /\ ps[s].totalContribution >= 0 => qs[s].totalContribution >= 0
         /\ qs[s].status = ps[s].status
         /\ qs[s].cards = ps[s].cards /\ qs[s].offline = ps[s].offline
  <2> SUFFICES ASSUME NEW s \in Seats
               PROVE  /\ qs[s] \in Player
                      /\ qs[s].chips = ps[s].chips + refund[s]
                      /\ qs[s].currentBet = ps[s].currentBet - refund[s]
                      /\ qs[s].totalContribution > 0 => ps[s].totalContribution > 0
                      /\ ps[s].totalContribution >= 0 => qs[s].totalContribution >= 0
                      /\ qs[s].status = ps[s].status
                      /\ qs[s].cards = ps[s].cards /\ qs[s].offline = ps[s].offline
    OBVIOUS
  <2>1. PICK p, back : p = ps[s] /\ back = refund[s]
    OBVIOUS
  <2>2. qs[s] = Refunded(p, back)
    BY <2>1 DEF Settled
  <2>3. p \in Player /\ back \in Nat
    BY <1>3, <1>4, <2>1
  <2> HIDE DEF qs
  <2> QED
    BY <2>1, <2>2, <2>3, RefundedSound
<1> HIDE DEF qs
<1>6. \A s \in Seats : qs[s].chips \in Nat /\ qs[s].currentBet \in Nat
                      /\ qs[s].currentBet <= ps[s].currentBet
  BY <1>3, <1>4, <1>5
<1>7. ASSUME NEW s \in Seats
      PROVE  Sound(players'[s], table')
  <2>1. players'[s] = qs[s] /\ Sound(ps[s], t) /\ table'.phase \in Streets
    BY <1>1, <1>2, <1>3
  <2>2. WebClient => Counted(players'[s], table')
    <3>1. ASSUME WebClient PROVE Counted(ps[s], t)
      BY <2>1, <3>1 DEF Sound
    <3> QED
      BY <1>2, <1>3, <1>5, <1>6, <2>1, <3>1 DEF Counted
  <2>3. CardsApart => Held(players'[s], table')
    BY <1>2, <1>5, <2>1 DEF Sound, Held
  <2>4. players'[s].chips >= 0 /\ players'[s].currentBet >= 0
    BY <1>6, <2>1
  <2> QED
    BY <1>2, <1>5, <2>1, <2>2, <2>3, <2>4 DEF Sound
<1>8. SeatSum(bets) = SeatSum(left) + SeatSum(refund)
  <2>1. ASSUME NEW s \in Seats
        PROVE  left[s] \in Nat /\ bets[s] = left[s] + refund[s]
    <3>1. /\ left[s] = IF qs[s].status \in Live THEN qs[s].currentBet ELSE 0
          /\ bets[s] = IF ps[s].status \in Live THEN ps[s].currentBet ELSE 0
      BY DEF LiveBets
    <3>2. refund[s] > 0 => ps[s].status \in Live
      BY <1>4, LiveIs
    <3> QED
      BY <1>3, <1>4, <1>5, <1>6, <3>1, <3>2
  <2> HIDE DEF left, bets
  <2> QED
    BY <1>3, <1>4, <2>1, SeatSumAdd
<1>9. SeatSum(left) \in Nat /\ SeatSum(refund) \in Nat
  <2>1. \A s \in Seats : left[s] \in Nat
    BY <1>6 DEF LiveBets
  <2> HIDE DEF left
  <2> QED
    BY <1>4, <2>1, SeatSumNat
<1>10. Backed(players', table')
  <2>1. SeatSum(bets) <= t.pot /\ t.pot \in Int
    BY TableFields DEF OpenFacts, Backed
  <2>2. table'.pot >= SeatSum(left) /\ table'.pot >= 0
    BY <1>2, <1>8, <1>9, <2>1
  <2>3. t.currentBet >= 0 /\ (WebClient => t.lastRaiseSize >= 0)
    BY DEF OpenFacts, Backed
  <2> HIDE DEF bets
  <2> QED
    BY <1>1, <1>2, <2>2, <2>3 DEF Backed
<1>11. ASSUME WebClient
       PROVE  Balanced(players')
  <2>1. InHand(qs) = InHand(ps) /\ Active(qs) = Active(ps)
        /\ InHand(ps) \in SUBSET Seats /\ Active(ps) \in SUBSET InHand(ps)
    BY <1>5 DEF InHand, Active
  <2>2. ASSUME NEW s \in Active(ps), NEW r \in InHand(ps)
        PROVE  qs[r].currentBet <= qs[s].currentBet
    <3>1. s \in Seats /\ r \in Seats /\ s \in InHand(ps)
      BY <2>1
    <3>2. ps[s].currentBet >= t.currentBet /\ ps[r].currentBet <= t.currentBet
      <4>1. ps[r].status \in Live
        BY <3>1, LiveIs
      <4> QED
        BY <1>3, <1>11, <3>1, <4>1 DEF RoundClosed, RoundOver, Sound, Counted
    <3>3. CASE r = s
      BY <1>6, <3>1, <3>3
    <3>4. CASE r # s /\ refund[s] > 0
      <4>1. ps[r].currentBet <= qs[s].currentBet
        BY <1>4, <1>5, <3>1, <3>4
      <4> QED
        BY <1>3, <1>6, <3>1, <4>1
    <3>5. CASE refund[s] = 0
      <4>1. qs[s].currentBet = ps[s].currentBet
        BY <1>3, <1>5, <3>1, <3>5
      <4> QED
        BY <1>3, <1>6, <3>1, <3>2, <4>1
    <3> QED
      BY <1>4, <3>1, <3>3, <3>4, <3>5
  <2> QED
    BY <1>1, <2>1, <2>2 DEF Balanced
<1>12. DueHolds'
  <2>1. TurnRests'
    BY <1>1 DEF TurnRests
  <2>2. TurnFits'
    BY <1>1, <1>2 DEF TurnFits
  <2>3. StreetFits'
    BY <1>11 DEF StreetFits
  <2> QED
    BY <2>1, <2>2, <2>3 DEF DueHolds
<1> QED
  BY <1>7, <1>10, <1>12 DEF Stays, OpenFacts

\* Play that goes on waits for a player who can act.
LEMMA OnStays ==
    ASSUME NEW ps \in [Seats -> Player], NEW t \in Table, OpenFacts(ps, t),
           t.phase \in Streets, NEW s \in Seats, PlayOn(ps, t, NextOf(Active(ps), s))
    PROVE  Stays
<1>1. /\ ~RoundClosed(ps, t) /\ reply' = "play"
      /\ players' = ps /\ table' = [t EXCEPT !.turnSeat = NextOf(Active(ps), s)]
  BY DEF PlayOn
<1>2. /\ table'.pot = t.pot /\ table'.phase = t.phase
      /\ table'.currentBet = t.currentBet /\ table'.lastRaiseSize = t.lastRaiseSize
      /\ table'.turnSeat = NextOf(Active(ps), s)
  BY <1>1 DEF Table
<1>3. Active(ps) # {}
  <2>1. SUFFICES ASSUME Active(ps) = {}
                 PROVE  FALSE
    OBVIOUS
  <2>2. Cardinality(Active(ps)) = 0 /\ t.playersActedCount \in Nat
    BY <2>1, FS_EmptySet, TableFields
  <2> QED
    BY <1>1, <2>1, <2>2 DEF RoundClosed
<1>4. table'.turnSeat \in Active(players')
  <2>1. s \in -1..9 /\ Active(ps) \in SUBSET Seats
    BY SeatsAssumption, SeatSets
  <2>2. NextOf(Active(ps), s) \in Active(ps)
    BY <1>3, <2>1, NextOfFinds
  <2> QED
    BY <1>1, <1>2, <2>2
<1>5. OpenFacts(players', table')
  BY <1>1, <1>2 DEF OpenFacts, Sound, Counted, Held, Backed
<1>6. DueHolds'
  BY <1>1, <1>2, <1>4 DEF DueHolds, TurnRests, TurnFits, StreetFits
<1> QED
  BY <1>5, <1>6 DEF Stays

(***************************************************************************)
(* The steps: a bet, a timeout.                                            *)
(***************************************************************************)

\* A bet keeps the invariant (bet.lua).
LEMMA BetStays ==
    ASSUME OpenInv, MaxActed = 0, NEW s \in Seats, Bet(s)
    PROVE  Stays
<1>1. PICK p, t, put : AfterBet(s, p, t) /\ Moves(s, p, t, put)
  BY BetFollows
<1>2. /\ table.phase \in Streets /\ players[s].status = "active"
      /\ players \in [Seats -> Player] /\ p \in Player /\ t \in Table
  BY <1>1, BetFollows DEF OpenInv, TypeOK, Moves, SameTurn
<1>3. PICK bank \in (IF p.usingBank THEN 0..p.timeBank ELSE {p.timeBank}) :
        LET ps == [players EXCEPT ![s] = [p EXCEPT !.timeBank = bank, !.usingBank = FALSE]]
            next == NextOf(Active(ps), s)
        IN  /\ \/ HandWon(ps, t, t.turnSeat)
               \/ RoundOver(ps, t, next, [r \in Seats |-> Uncalled(ps, r)])
               \/ PlayOn(ps, t, next)
            /\ UNCHANGED <<balance, house>>
  BY <1>1 DEF AfterBet
<1> DEFINE q == [p EXCEPT !.timeBank = bank, !.usingBank = FALSE]
           ps == [players EXCEPT ![s] = q]
           refund == [r \in Seats |-> Uncalled(ps, r)]
<1>4. /\ q \in Player /\ q.chips = p.chips /\ q.currentBet = p.currentBet
      /\ q.totalContribution = p.totalContribution /\ q.status = p.status
      /\ q.cards = p.cards /\ q.offline = p.offline
  <2>1. bank \in Nat
    BY <1>2, <1>3, PlayerFields
  <2> QED
    BY <1>2, <2>1, OneField
<1>5. \/ HandWon(ps, t, t.turnSeat)
      \/ RoundOver(ps, t, NextOf(Active(ps), s), refund)
      \/ PlayOn(ps, t, NextOf(Active(ps), s))
  BY <1>3
<1>6. Refunds(ps, refund)
  BY DEF Refunds
<1> HIDE DEF q
<1>7. Moves(s, q, t, put)
  BY <1>1, <1>4 DEF Moves
<1>8. ps \in [Seats -> Player] /\ OpenFacts(ps, t) /\ t.phase \in Streets
  BY <1>2, <1>7, MoveSound
<1> HIDE DEF ps, refund
<1> QED
  BY <1>2, <1>5, <1>6, <1>8, WonStays, OverStays, OnStays

\* A timeout keeps the invariant, whoever's record is at the seat whose turn it is
\* (timeout.lua).
LEMMA TimeoutStays ==
    ASSUME OpenInv, MaxActed = 0, NEW s \in Seats, Timeout(s)
    PROVE  Stays
<1>1. /\ players \in [Seats -> Player] /\ table \in Table /\ players[s] \in Player
      /\ OpenFacts(players, table) /\ DueHolds
  BY DEF OpenInv, TypeOK
<1>2. TimesOut(s) /\ reply = "play"
  BY DEF Timeout, TimeoutExtend, TimeoutFold, TimesOut
<1>3. table.phase \in Streets
  BY <1>2, MovesInHand
<1>4. CASE TimeoutExtend(s)
  <2> DEFINE q == [players[s] EXCEPT !.usingBank = TRUE]
  <2>1. players' = [players EXCEPT ![s] = q] /\ UNCHANGED <<table, reply>>
    BY <1>4 DEF TimeoutExtend
  <2>2. /\ q.chips = players[s].chips /\ q.currentBet = players[s].currentBet
        /\ q.totalContribution = players[s].totalContribution
        /\ q.status = players[s].status /\ q.cards = players[s].cards
        /\ q.offline = players[s].offline
    BY <1>1 DEF Player
  <2> HIDE DEF q
  <2>3. \A r \in Seats :
           /\ players'[r].chips = players[r].chips
           /\ players'[r].currentBet = players[r].currentBet
           /\ players'[r].totalContribution = players[r].totalContribution
           /\ players'[r].status = players[r].status /\ players'[r].cards = players[r].cards
           /\ players'[r].offline = players[r].offline
    BY <1>1, <2>1, <2>2
  <2>4. Active(players') = Active(players) /\ LiveBets(players') = LiveBets(players)
    BY <2>3 DEF Active, LiveBets
  <2>5. \A r \in Seats : Sound(players'[r], table')
    BY <1>1, <2>1, <2>3 DEF OpenFacts, Sound, Counted, Held
  <2>6. Backed(players', table')
    BY <1>1, <2>1, <2>4 DEF OpenFacts, Backed
  <2>7. DueHolds'
    BY <1>1, <1>2, <1>3, <2>1, <2>4 DEF DueHolds, TurnRests, TurnFits, StreetFits
  <2> QED
    BY <2>5, <2>6, <2>7 DEF Stays, OpenFacts
<1>5. CASE TimeoutFold(s)
  <2> DEFINE q == [players[s] EXCEPT !.status = "folded", !.cards = FALSE,
                                     !.usingBank = FALSE, !.benchAfterHand = TRUE]
             ps == [players EXCEPT ![s] = q]
             t == Acted(table, FALSE)
             refund == [r \in Seats |-> 0]
  <2>1. \/ HandWon(ps, t, NoSeat)
        \/ RoundOver(ps, t, NoSeat, refund)
        \/ PlayOn(ps, t, NextOf(Active(ps), s))
    BY <1>1, <1>5 DEF TimeoutFold
  <2>2. /\ q \in Player /\ q.chips = players[s].chips
        /\ q.currentBet = players[s].currentBet
        /\ q.totalContribution = players[s].totalContribution
        /\ q.status = "folded" /\ ~q.cards /\ q.offline = players[s].offline
    <3> DEFINE p == [[[[players[s] EXCEPT !.status = "folded"] EXCEPT !.cards = FALSE]
                         EXCEPT !.usingBank = FALSE] EXCEPT !.benchAfterHand = TRUE]
    <3>1. "folded" \in Statuses /\ FALSE \in BOOLEAN /\ TRUE \in BOOLEAN
      BY Names
    <3>2. p \in Player
      BY <1>1, <3>1, PlayerUpdates, Zenon
    <3>3. q = p
      BY <1>1 DEF Player
    <3>4. q \in Player
      BY <3>2, <3>3
    <3> QED
      BY <1>1, <3>4 DEF Player
  <2>3. /\ SameTurn(t, table) /\ t.pot = table.pot /\ t.currentBet = table.currentBet
        /\ t.lastRaiseSize = table.lastRaiseSize
    BY <1>1, ActedFields
  <2>4. Refunds(ps, refund)
    BY DEF Refunds
  <2> HIDE DEF q, t
  <2>5. Moves(s, q, t, 0)
    <3>1. /\ Sound(players[s], table) /\ Backed(players, table)
          /\ players[s].chips \in Nat /\ players[s].currentBet \in Nat
          /\ table.pot \in Nat /\ table.currentBet \in Nat
      BY <1>1, SoundFields DEF OpenFacts
    <3> QED
      BY <2>2, <2>3, <3>1 DEF Moves, Sound, Backed, Counted, Live
  <2>6. ps \in [Seats -> Player] /\ OpenFacts(ps, t) /\ t.phase \in Streets /\ t \in Table
    BY <1>3, <2>2, <2>5, MoveSound
  <2> HIDE DEF ps, refund
  <2> QED
    BY <2>1, <2>4, <2>6, WonStays, OverStays, OnStays
<1> QED
  BY <1>4, <1>5 DEF Timeout

(***************************************************************************)
(* The steps: a new street, a showdown.                                    *)
(***************************************************************************)

\* A new street keeps the invariant (next_street.lua).
LEMMA NextStreetStays ==
    ASSUME OpenInv, NextStreet
    PROVE  Stays
<1>1. /\ players \in [Seats -> Player] /\ table \in Table
      /\ OpenFacts(players, table) /\ table.phase \in Streets
      /\ reply' = IF table.phase = "river" THEN "showdown"
                  ELSE IF RunsOut(players) THEN "runout" ELSE "play"
  BY DEF OpenInv, TypeOK, NextStreet
<1>2. /\ table'.phase = StreetAfter[table.phase] /\ table'.currentBet = 0
      /\ table'.lastRaiseSize = BigBlind /\ table'.pot = table.pot
      /\ table'.turnSeat = NextOf(Active(players), table.dealerSeat)
  BY <1>1 DEF NextStreet, Table
<1>3. \A s \in Seats :
         /\ players'[s].currentBet = 0 /\ players'[s].chips = players[s].chips
         /\ players'[s].totalContribution = players[s].totalContribution
         /\ players'[s].status = players[s].status /\ players'[s].cards = players[s].cards
         /\ players'[s].offline = players[s].offline
  BY <1>1 DEF NextStreet, Player
<1>4. table.phase # "river" => table'.phase \in Streets
  BY <1>1, <1>2 DEF Streets, StreetAfter
<1>5. Active(players') = Active(players)
  BY <1>3 DEF Active
<1>6. \A s \in Seats : Sound(players'[s], table')
  <2>1. \A s \in Seats : Sound(players[s], table)
    BY <1>1 DEF OpenFacts
  <2> QED
    BY <1>1, <1>2, <1>3, <2>1 DEF Sound, Counted, Held
<1>7. SeatSum(LiveBets(players')) = 0
  <2> DEFINE f == LiveBets(players')
  <2>1. \A s \in Seats : f[s] = 0
    BY <1>3 DEF LiveBets
  <2> HIDE DEF f
  <2>2. SeatSum(f) = 0
    BY <2>1 DEF SeatSum, At
  <2> QED
    BY <2>2 DEF f
<1>8. Backed(players', table')
  BY <1>1, <1>2, <1>7, StakesAssumption DEF OpenFacts, Backed
<1>9. reply' = "play" => table'.turnSeat \in Active(players')
  <2>1. reply' = "play" => Active(players) # {}
    BY <1>1 DEF RunsOut
  <2>2. table.dealerSeat \in -1..9 /\ Active(players) \in SUBSET Seats
    BY <1>1, TableFields, SeatSets
  <2>3. Active(players) # {} => NextOf(Active(players), table.dealerSeat) \in Active(players)
    BY <2>2, NextOfFinds
  <2> QED
    BY <1>2, <1>5, <2>1, <2>3
<1>10. DueHolds'
  BY <1>1, <1>4, <1>9 DEF DueHolds, TurnRests, TurnFits, StreetFits
<1> QED
  BY <1>6, <1>8, <1>10 DEF Stays, OpenFacts

\* What a showdown pays each seat is not negative, and leaves every seat at rest.
LEMMA OpenPays ==
    ASSUME OpenInv, NEW score, Showdown(score)
    PROVE  \E won : /\ won \in Payouts(Contributions(players), InHand(players), score,
                                       table.pot, table.pot - Rake(table.pot))
                    /\ \A s \in Seats :
                          /\ won[s] \in Nat
                          /\ players'[s].chips = players[s].chips + won[s]
                          /\ players'[s].pendingTopUp = players[s].pendingTopUp
                          /\ players'[s].currentBet = 0 /\ players'[s].totalContribution = 0
                          /\ ~players'[s].cards /\ players'[s].offline = players[s].offline
                          /\ players'[s].status \notin Live
<1> DEFINE contrib == Contributions(players)
           gross == table.pot
           net == table.pot - Rake(table.pot)
<1>1. PICK won \in Payouts(contrib, InHand(players), score, gross, net) :
          players' = [s \in Seats |-> Rested([players[s] EXCEPT !.chips = @ + won[s]])]
  BY DEF Showdown
<1>2. /\ \A s \in Seats : players[s] \in Player
      /\ players \in [Seats -> Player] /\ table \in Table /\ Backed(players, table)
  BY DEF OpenInv, TypeOK, OpenFacts
<1>3. gross \in Nat
  BY <1>2, TableFields DEF Backed
<1>4. net \in 0..gross
  BY <1>3, RakeBounds
<1>5. \A s \in Seats : contrib[s] \in Int
  BY <1>2, PlayerFields DEF Contributions
<1>6. InHand(players) \in SUBSET Seats
  BY <1>2, SeatSets
<1>7. \A s \in Seats : won[s] \in Nat
  <2> HIDE DEF contrib, gross, net
  <2> QED
    BY <1>3, <1>4, <1>5, <1>6, PayoutsNatural
<1>8. ASSUME NEW s \in Seats
      PROVE  /\ players'[s].chips = players[s].chips + won[s]
             /\ players'[s].pendingTopUp = players[s].pendingTopUp
             /\ players'[s].currentBet = 0 /\ players'[s].totalContribution = 0
             /\ ~players'[s].cards /\ players'[s].offline = players[s].offline
             /\ players'[s].status \notin Live
  <2> DEFINE p == [players[s] EXCEPT !.chips = players[s].chips + won[s]]
  <2>1. players'[s] = Rested(p)
    BY <1>1
  <2>2. /\ p \in Player /\ p.chips = players[s].chips + won[s]
        /\ p.offline = players[s].offline /\ p.pendingTopUp = players[s].pendingTopUp
    <3>1. players[s].chips + won[s] \in Int
      BY <1>2, <1>7, PlayerFields
    <3>2. p \in Player /\ p.chips = players[s].chips + won[s] /\ p.offline = players[s].offline
      BY <1>2, <3>1, OneField
    <3>3. p.pendingTopUp = players[s].pendingTopUp
      BY <1>2 DEF Player
    <3> QED
      BY <3>2, <3>3
  <2> HIDE DEF p
  <2>3. Rested(p).pendingTopUp = p.pendingTopUp
    BY <2>2 DEF Rested, Cleared, Player
  <2> QED
    BY <2>1, <2>2, <2>3, RestedFields
<1> QED
  BY <1>7, <1>8

\* A showdown keeps the invariant (showdown.lua).
LEMMA ShowdownStays ==
    ASSUME OpenInv, NEW score, Showdown(score)
    PROVE  Stays
<1>1. \A s \in Seats :
         /\ players'[s].chips >= players[s].chips /\ players[s].chips >= 0
         /\ players'[s].chips \in Int /\ players[s].chips \in Int
         /\ players'[s].currentBet = 0 /\ players'[s].totalContribution = 0
         /\ ~players'[s].cards /\ players'[s].offline = players[s].offline
         /\ players'[s].status \notin Live /\ Sound(players[s], table)
  <2>1. PICK won : \A s \in Seats :
                      /\ won[s] \in Nat
                      /\ players'[s].chips = players[s].chips + won[s]
                      /\ players'[s].currentBet = 0 /\ players'[s].totalContribution = 0
                      /\ ~players'[s].cards /\ players'[s].offline = players[s].offline
                      /\ players'[s].status \notin Live
    BY OpenPays
  <2>2. \A s \in Seats : players[s].chips \in Nat /\ Sound(players[s], table)
    BY SoundFields DEF OpenInv, TypeOK
  <2> QED
    BY <2>1, <2>2
<1>2. /\ table'.pot = 0 /\ table'.phase = "waiting" /\ table'.currentBet = table.currentBet
      /\ table'.lastRaiseSize = table.lastRaiseSize /\ reply' = "complete"
  BY DEF Showdown, Table, OpenInv, TypeOK
<1>3. "waiting" \notin Streets
  BY DEF Streets
<1>4. \A s \in Seats : Sound(players'[s], table')
  BY <1>1, <1>2, <1>3 DEF Sound, Counted, Held, Live
<1>5. Backed(players', table')
  BY <1>2, <1>3 DEF OpenInv, OpenFacts, Backed
<1>6. DueHolds'
  BY <1>2 DEF DueHolds, TurnRests, TurnFits, StreetFits
<1> QED
  BY <1>4, <1>5, <1>6 DEF Stays, OpenFacts

(***************************************************************************)
(* The steps: the next hand.                                               *)
(***************************************************************************)

\* How the sweep leaves a seat: who is in the hand has bet nothing, who is active holds no
\* cards either, and whoever else holds cards is all-in since the last hand.
SweptClean(p) ==
    /\ p \in Player /\ p.chips >= 0 /\ p.currentBet >= 0
    /\ p.status \in Live => p.currentBet = 0
    /\ p.status = "active" => p.totalContribution = 0 /\ ~p.cards
    /\ p.status = "all-in" /\ p.totalContribution > 0 => p.cards
    /\ WebClient => p.totalContribution >= 0
    /\ CardsApart => /\ p.cards => p.status = "all-in"
                     /\ p.offline => "set_offline" \in Requests

\* What the sweep does to a seat whose player has chips if he is active.
LEMMA PromotedReady ==
    ASSUME NEW p \in Player, NEW t, t.phase \notin Streets, Sound(p, t),
           p.status = "active" => p.chips > 0
    PROVE  SweptClean(Promoted(p))
<1>1. /\ p.chips \in Int /\ p.currentBet \in Int /\ p.totalContribution \in Int
      /\ p.status \in Statuses /\ p.cards \in BOOLEAN /\ p.timeBank \in Nat
      /\ p.offline \in BOOLEAN
  BY PlayerFields, FairFields
<1>2. Promoted(p) \in Player
  BY PromotedType
<1> PICK c, o : c = Cleared(p) /\ o = SatOut(p)
  OBVIOUS
<1>3. /\ c \in Player /\ o \in Player
      /\ c.chips = p.chips /\ o.chips = p.chips
      /\ c.currentBet = 0 /\ o.currentBet = 0
      /\ c.totalContribution = 0 /\ o.totalContribution = 0 /\ ~c.cards /\ ~o.cards
      /\ c.offline = p.offline /\ o.offline = p.offline
      /\ c.status = p.status /\ o.status = "sitting_out"
  BY ClearedFields
<1>4. \/ Promoted(p) = c
      \/ Promoted(p) = [o EXCEPT !.benchAfterHand = FALSE]
      \/ Promoted(p) = [o EXCEPT !.sitOutNextHand = FALSE]
      \/ Promoted(p) = [c EXCEPT !.status = "active", !.timeBank = Smaller(@ + 2, TimeBank)]
      \/ /\ Promoted(p) = p
         /\ ~(p.status \in {"waiting", "sitting_out"} /\ ~p.offline)
         /\ p.status # "active"
         /\ p.status # "sitting_out"
         /\ p.status = "all-in" => p.chips = 0
  BY <1>1 DEF Promoted, Playing, Sound
<1>5. CardsApart => (p.offline => "set_offline" \in Requests)
  BY DEF Sound, Held
<1>6. CASE Promoted(p) = c
  BY <1>1, <1>2, <1>3, <1>5, <1>6 DEF SweptClean, Sound
<1>7. CASE Promoted(p) = [o EXCEPT !.benchAfterHand = FALSE]
  <2>1. /\ Promoted(p).chips = o.chips /\ Promoted(p).currentBet = o.currentBet
        /\ Promoted(p).totalContribution = o.totalContribution
        /\ Promoted(p).cards = o.cards /\ Promoted(p).offline = o.offline
        /\ Promoted(p).status = o.status
    BY <1>3, <1>7 DEF Player
  <2> QED
    BY <1>1, <1>2, <1>3, <1>5, <2>1 DEF SweptClean, Sound, Live
<1>8. CASE Promoted(p) = [o EXCEPT !.sitOutNextHand = FALSE]
  <2>1. /\ Promoted(p).chips = o.chips /\ Promoted(p).currentBet = o.currentBet
        /\ Promoted(p).totalContribution = o.totalContribution
        /\ Promoted(p).cards = o.cards /\ Promoted(p).offline = o.offline
        /\ Promoted(p).status = o.status
    BY <1>3, <1>8 DEF Player
  <2> QED
    BY <1>1, <1>2, <1>3, <1>5, <2>1 DEF SweptClean, Sound, Live
<1>9. CASE Promoted(p) = [c EXCEPT !.status = "active", !.timeBank = Smaller(@ + 2, TimeBank)]
  <2>1. /\ Promoted(p).chips = c.chips /\ Promoted(p).currentBet = c.currentBet
        /\ Promoted(p).totalContribution = c.totalContribution
        /\ Promoted(p).cards = c.cards /\ Promoted(p).offline = c.offline
        /\ Promoted(p).status = "active"
    BY <1>3, <1>9 DEF Player
  <2> QED
    BY <1>1, <1>2, <1>3, <1>5, <2>1 DEF SweptClean, Sound
<1>10. CASE /\ Promoted(p) = p
            /\ ~(p.status \in {"waiting", "sitting_out"} /\ ~p.offline)
            /\ p.status # "active"
            /\ p.status # "sitting_out"
            /\ p.status = "all-in" => p.chips = 0
  <2>1. p.status \in Live => p.status = "all-in"
    BY <1>10 DEF Live
  <2>2. CardsApart => (p.cards => p.status = "all-in")
    BY <1>5, <1>10, <2>1 DEF Sound, Held
  <2>3. WebClient => p.totalContribution >= 0
    BY DEF Sound, Counted
  <2> QED
    BY <1>2, <1>5, <1>10, <2>1, <2>2, <2>3 DEF SweptClean, Sound
<1> QED
  BY <1>4, <1>6, <1>7, <1>8, <1>9, <1>10

\* So the sweep leaves every seat ready (next_hand.lua:82-176).
LEMMA SweptReady ==
    ASSUME OpenInv, table.phase \notin Streets
    PROVE  Swept \in [Seats -> Player] /\ \A s \in Seats : SweptClean(Swept[s])
<1>1. TypeOK /\ OpenFacts(players, table)
  BY DEF OpenInv
<1>2. ASSUME NEW s \in Seats
      PROVE  SweptClean(Swept[s])
  <2>1. players[s] \in Player /\ Sound(players[s], table)
    BY <1>1 DEF TypeOK, OpenFacts
  <2> PICK p : p = players[s]
    OBVIOUS
  <2> DEFINE t == ToppedUp(p)
  <2>2. p \in Player /\ Sound(p, table) /\ p.chips \in Int /\ p.pendingTopUp \in Nat
    BY <2>1, PlayerFields
  <2>3. /\ t \in Player /\ t.chips = p.chips + p.pendingTopUp
        /\ t.currentBet = p.currentBet /\ t.totalContribution = p.totalContribution
        /\ t.status = p.status /\ t.cards = p.cards /\ t.offline = p.offline
    <3>1. t \in Player
      BY <2>2, ToppedUpType
    <3> QED
      BY <2>2, <3>1 DEF ToppedUp, Player
  <2> HIDE DEF t
  <2>4. Sound(t, table)
    BY <2>2, <2>3 DEF Sound, Counted, Held
  <2> PICK g : g = Ghosted(t)
    OBVIOUS
  <2>5. g \in Player /\ Sound(g, table) /\ (g.status = "active" => g.chips > 0)
    <3>1. t.chips \in Int
      BY <2>3, PlayerFields
    <3>2. CASE t.status = "active" /\ t.chips <= 0
      <4> PICK o : o = SatOut(t)
        OBVIOUS
      <4>1. g = o
        BY <3>2 DEF Ghosted
      <4>2. /\ o \in Player /\ o.chips = t.chips /\ o.currentBet = 0
            /\ o.totalContribution = 0 /\ ~o.cards /\ o.offline = t.offline
            /\ o.status = "sitting_out"
        BY <2>3, ClearedFields
      <4> QED
        BY <2>4, <4>1, <4>2 DEF Sound, Counted, Held
    <3>3. CASE ~(t.status = "active" /\ t.chips <= 0)
      BY <2>3, <2>4, <3>1, <3>3 DEF Ghosted
    <3> QED
      BY <3>2, <3>3
  <2>6. SweptClean(Promoted(g))
    BY <2>5, PromotedReady
  <2>7. Swept[s] = Promoted(Ghosted(ToppedUp(p)))
    BY DEF Swept
  <2> QED
    BY <2>6, <2>7 DEF t
<1> QED
  BY <1>1, <1>2, SweptType

\* Marking who leaves keeps the seats ready.
LEMMA KickedReady ==
    ASSUME NEW ps \in [Seats -> Player], \A s \in Seats : SweptClean(ps[s])
    PROVE  Kicked(ps) \in [Seats -> Player] /\ \A s \in Seats : SweptClean(Kicked(ps)[s])
<1>1. Kicked(ps) \in [Seats -> Player]
  BY KickedType
<1> DEFINE bb == BigBlindSeat(ps, Button(ps))
<1>2. CASE Kicked(ps) = ps
  BY <1>1, <1>2
<1>3. CASE Kicked(ps) = [ps EXCEPT ![bb] =
              [Cleared(@) EXCEPT !.status = "leaving", !.leaveNextBB = FALSE]]
  <2> HIDE DEF bb
  <2> SUFFICES ASSUME NEW s \in Seats
               PROVE  SweptClean(Kicked(ps)[s])
    BY <1>1
  <2>1. CASE s # bb
    BY <1>3, <2>1
  <2>2. CASE s = bb
    <3> PICK p, c : p = ps[s] /\ c = Cleared(p)
      OBVIOUS
    <3>1. /\ p \in Player /\ SweptClean(p)
          /\ Kicked(ps)[s] = [c EXCEPT !.status = "leaving", !.leaveNextBB = FALSE]
      BY <1>3, <2>2
    <3>2. /\ c \in Player /\ c.chips = p.chips /\ c.currentBet = 0
          /\ c.totalContribution = 0 /\ ~c.cards /\ c.offline = p.offline
      BY <3>1, ClearedFields
    <3>3. Kicked(ps)[s] \in Player
      BY <1>1
    <3>4. /\ Kicked(ps)[s].chips = c.chips /\ Kicked(ps)[s].currentBet = c.currentBet
          /\ Kicked(ps)[s].totalContribution = c.totalContribution
          /\ Kicked(ps)[s].cards = c.cards /\ Kicked(ps)[s].offline = c.offline
          /\ Kicked(ps)[s].status = "leaving"
      BY <3>1, <3>2 DEF Player
    <3> QED
      BY <3>1, <3>2, <3>3, <3>4 DEF SweptClean, Live
  <2> QED
    BY <2>1, <2>2
<1> QED
  BY <1>2, <1>3 DEF Kicked

\* A hand that may start finds the table between hands.
LEMMA StartsBetween ==
    ASSUME MayStartHand
    PROVE  table.phase \notin Streets
BY DEF MayStartHand, Streets

\* Too few players for a hand keep the invariant (next_hand.lua:185-256).
LEMMA TooFewStays ==
    ASSUME OpenInv, TooFewToDeal
    PROVE  Stays
<1>1. /\ table \in Table /\ Backed(players, table) /\ MayStartHand
  BY DEF OpenInv, TypeOK, OpenFacts, TooFewToDeal
<1>2. Swept \in [Seats -> Player] /\ \A s \in Seats : SweptClean(Swept[s])
  BY <1>1, StartsBetween, SweptReady
<1> PICK swept : swept = Swept
  OBVIOUS
<1>3. \A s \in Seats : SweptClean(players'[s])
  <2>1. Kicked(swept) \in [Seats -> Player] /\ \A s \in Seats : SweptClean(Kicked(swept)[s])
    BY <1>2, KickedReady
  <2> QED
    BY <1>2, <2>1 DEF TooFewToDeal
<1>4. /\ table'.pot = table.pot /\ table'.phase = "waiting"
      /\ table'.currentBet = table.currentBet /\ table'.lastRaiseSize = table.lastRaiseSize
      /\ reply' = "idle"
  BY <1>1 DEF TooFewToDeal, Table
<1>5. table'.phase \notin Streets
  BY <1>4 DEF Streets
<1>6. Backed(players', table')
  BY <1>1, <1>4, <1>5 DEF Backed
<1>7. \A s \in Seats : Sound(players'[s], table')
  BY <1>3, <1>5 DEF SweptClean, Sound, Counted, Held, Live
<1>8. DueHolds'
  BY <1>4 DEF DueHolds, TurnRests, TurnFits, StreetFits
<1> QED
  BY <1>6, <1>7, <1>8 DEF Stays, OpenFacts

\* What a player posts as a blind is his, and so are the chips he keeps.
LEMMA PostedReady ==
    ASSUME NEW p \in Player, p.chips >= 0, NEW blind \in Nat
    PROVE  /\ Blind(p, blind) \in Nat /\ Blind(p, blind) <= blind /\ Blind(p, blind) <= p.chips
           /\ Posted(p, blind) \in Player
           /\ Posted(p, blind).chips = p.chips - Blind(p, blind)
           /\ Posted(p, blind).currentBet = Blind(p, blind)
           /\ Posted(p, blind).totalContribution = Blind(p, blind)
           /\ Posted(p, blind).status = p.status
           /\ Posted(p, blind).pendingTopUp = p.pendingTopUp
           /\ Posted(p, blind).cards = p.cards /\ Posted(p, blind).offline = p.offline
<1>1. p.chips \in Int
  BY PlayerFields
<1>2. Blind(p, blind) \in Nat /\ Blind(p, blind) <= blind /\ Blind(p, blind) <= p.chips
  BY <1>1 DEF Blind, Smaller
<1>3. Posted(p, blind) \in Player
  BY PostedType
<1> QED
  BY <1>2, <1>3 DEF Posted, Player

\* Who is dealt in holds cards, and nobody loses any.
LEMMA DealtReady ==
    ASSUME NEW p \in Player
    PROVE  /\ Dealt(p) \in Player
           /\ Dealt(p).chips = p.chips /\ Dealt(p).currentBet = p.currentBet
           /\ Dealt(p).totalContribution = p.totalContribution
           /\ Dealt(p).pendingTopUp = p.pendingTopUp
           /\ Dealt(p).status = p.status /\ Dealt(p).offline = p.offline
           /\ Dealt(p).cards <=> p.status = "active" \/ p.cards
<1>1. Dealt(p) \in Player
  BY DealtType
<1> QED
  BY <1>1, PlayerFields DEF Dealt, Player

\* A deal to the seats ps, of which sb and bb post the blinds.
OpenDealt(ps, sb, bb) ==
    /\ ps = Kicked(Swept) /\ sb # bb
    /\ ps \in [Seats -> Player]
    /\ sb \in Seats /\ bb \in Seats /\ sb \in Active(ps) /\ bb \in Active(ps)
    /\ \A s \in Seats : SweptClean(ps[s])
    /\ players' = [s \in Seats |->
          Dealt(IF s = bb THEN Posted(ps[s], BigBlind)
                ELSE IF s = sb THEN Posted(ps[s], SmallBlind) ELSE ps[s])]
    /\ table'.phase = "preflop"
    /\ table'.pot = Blind(ps[sb], SmallBlind) + Blind(ps[bb], BigBlind)
    /\ table'.currentBet = BigBlind /\ table'.lastRaiseSize = BigBlind
    /\ table'.turnSeat \in Active(ps)
    /\ reply' = "play"

\* A dealt hand has the seats DealtSeats describes: next_hand.lua at a table any
\* number of players may have joined or left.
LEMMA OpenDealSeats ==
    ASSUME OpenInv, Deal
    PROVE  \E ps, sb, bb : OpenDealt(ps, sb, bb)
<1>1. table \in Table /\ MayStartHand
  BY DEF OpenInv, TypeOK, Deal
<1>2. Swept \in [Seats -> Player] /\ \A s \in Seats : SweptClean(Swept[s])
  BY <1>1, StartsBetween, SweptReady
<1> PICK swept, ps : swept = Swept /\ ps = Kicked(swept)
  OBVIOUS
<1>3. ps \in [Seats -> Player] /\ \A s \in Seats : SweptClean(ps[s])
  BY <1>2, KickedReady
<1>4. /\ Cardinality(Active(swept)) >= 2 /\ Cardinality(Active(ps)) >= 2
  BY DEF Deal
<1>5. Active(swept) # {} /\ \E r, s \in Active(ps) : r # s
  BY <1>2, <1>3, <1>4, CountingActive
<1> PICK button : button = Button(swept)
  OBVIOUS
<1>6. button \in Seats
  BY <1>1, <1>2, <1>5, ButtonFound
<1> PICK sb, bb : sb = SmallBlindSeat(ps, button) /\ bb = BigBlindSeat(ps, button)
  OBVIOUS
<1>7. sb \in Seats /\ sb \in Active(ps) /\ bb \in Active(ps) /\ bb \in Seats /\ sb # bb
  <2>0. sb \in Active(ps)
    BY <1>1, <1>2, <1>4, SmallBlindPlays
  <2>1. sb \in Seats /\ bb \in Active(ps)
    BY <1>3, <1>5, <1>6, BlindSeats
  <2>2. Active(ps) \in SUBSET Seats /\ bb = NextOf(Active(ps), sb)
    BY <1>3, SeatSets DEF BigBlindSeat
  <2> QED
    BY <1>5, <2>0, <2>1, <2>2, NextOfOther
<1>8. /\ players' = [s \in Seats |->
            Dealt(IF s = bb THEN Posted(ps[s], BigBlind)
                  ELSE IF s = sb THEN Posted(ps[s], SmallBlind) ELSE ps[s])]
      /\ table' = [phase |-> "preflop",
                   pot |-> Blind(ps[sb], SmallBlind) + Blind(ps[bb], BigBlind),
                   currentBet |-> BigBlind, lastRaiseSize |-> BigBlind,
                   turnSeat |-> NextOf(Active(ps), bb), dealerSeat |-> button,
                   playersActedCount |-> 0, handNumber |-> table.handNumber + 1]
      /\ reply' = "play"
  BY DEF Deal
<1>9. NextOf(Active(ps), bb) \in Active(ps)
  <2>1. Active(ps) \in SUBSET Seats /\ Active(ps) # {} /\ bb \in -1..9
    BY <1>3, <1>7, SeatSets, SeatsAssumption
  <2> QED
    BY <2>1, NextOfFinds
<1>10. /\ table'.phase = "preflop"
       /\ table'.pot = Blind(ps[sb], SmallBlind) + Blind(ps[bb], BigBlind)
       /\ table'.currentBet = BigBlind /\ table'.lastRaiseSize = BigBlind
       /\ table'.turnSeat \in Active(ps)
  BY <1>8, <1>9
<1>11. OpenDealt(ps, sb, bb)
  BY <1>3, <1>7, <1>8, <1>10 DEF OpenDealt
<1> QED
  BY <1>11

\* What a deal leaves at a seat: the blinds are bet, and who is dealt in holds cards.
LEMMA OpenDealFields ==
    ASSUME NEW ps, NEW sb, NEW bb, OpenDealt(ps, sb, bb), NEW s \in Seats
    PROVE  LET bet == IF s = bb THEN Blind(ps[bb], BigBlind)
                      ELSE IF s = sb THEN Blind(ps[sb], SmallBlind) ELSE 0
           IN  /\ players'[s] \in Player /\ ps[s] \in Player /\ SweptClean(ps[s])
               /\ bet \in Nat /\ bet <= ps[s].chips /\ bet <= BigBlind
               /\ players'[s].chips = ps[s].chips - bet
               /\ players'[s].pendingTopUp = ps[s].pendingTopUp
               /\ s \in {sb, bb} => /\ players'[s].currentBet = bet
                                    /\ players'[s].totalContribution = bet
                                    /\ ps[s].status = "active"
               /\ s \notin {sb, bb} =>
                     /\ players'[s].currentBet = ps[s].currentBet
                     /\ players'[s].totalContribution = ps[s].totalContribution
               /\ players'[s].status = ps[s].status /\ players'[s].offline = ps[s].offline
               /\ players'[s].cards <=> ps[s].status = "active" \/ ps[s].cards
<1> DEFINE bet == IF s = bb THEN Blind(ps[bb], BigBlind)
                  ELSE IF s = sb THEN Blind(ps[sb], SmallBlind) ELSE 0
<1>1. PICK p : p = ps[s]
  OBVIOUS
<1>2. p \in Player /\ SweptClean(p) /\ p.chips \in Int /\ p.chips >= 0
  BY <1>1, PlayerFields DEF OpenDealt, SweptClean
<1>3. ASSUME NEW blind \in Nat, players'[s] = Dealt(Posted(p, blind))
      PROVE  /\ players'[s] \in Player
             /\ players'[s].chips = p.chips - Blind(p, blind)
             /\ players'[s].pendingTopUp = p.pendingTopUp
             /\ players'[s].currentBet = Blind(p, blind)
             /\ players'[s].totalContribution = Blind(p, blind)
             /\ players'[s].status = p.status /\ players'[s].offline = p.offline
             /\ players'[s].cards <=> p.status = "active" \/ p.cards
             /\ Blind(p, blind) \in Nat /\ Blind(p, blind) <= p.chips /\ Blind(p, blind) <= blind
  <2>1. PICK q : q = Posted(p, blind)
    OBVIOUS
  <2>2. /\ q \in Player /\ q.chips = p.chips - Blind(p, blind)
        /\ q.pendingTopUp = p.pendingTopUp
        /\ q.currentBet = Blind(p, blind) /\ q.totalContribution = Blind(p, blind)
        /\ q.status = p.status /\ q.cards = p.cards /\ q.offline = p.offline
        /\ Blind(p, blind) \in Nat /\ Blind(p, blind) <= p.chips /\ Blind(p, blind) <= blind
    BY <1>2, <2>1, PostedReady
  <2>3. players'[s] = Dealt(q)
    BY <1>3, <2>1
  <2> QED
    BY <2>2, <2>3, DealtReady
<1>4. BigBlind \in Nat /\ SmallBlind \in Nat /\ SmallBlind <= BigBlind
  BY StakesAssumption
<1>5. ps[sb].status = "active" /\ ps[bb].status = "active"
  BY DEF OpenDealt, Active
<1>6. CASE s = bb
  <2>1. players'[s] = Dealt(Posted(p, BigBlind)) /\ bet = Blind(p, BigBlind)
    BY <1>1, <1>6 DEF OpenDealt
  <2> HIDE DEF bet
  <2>2. /\ players'[s] \in Player
        /\ players'[s].chips = p.chips - bet
        /\ players'[s].pendingTopUp = p.pendingTopUp
        /\ players'[s].currentBet = bet /\ players'[s].totalContribution = bet
        /\ players'[s].status = p.status /\ players'[s].offline = p.offline
        /\ players'[s].cards <=> p.status = "active" \/ p.cards
        /\ bet \in Nat /\ bet <= p.chips /\ bet <= BigBlind
    BY <1>3, <1>4, <2>1
  <2> QED
    BY <1>1, <1>2, <1>5, <1>6, <2>2 DEF bet
<1>7. CASE s # bb /\ s = sb
  <2>1. players'[s] = Dealt(Posted(p, SmallBlind)) /\ bet = Blind(p, SmallBlind)
    BY <1>1, <1>7 DEF OpenDealt
  <2> HIDE DEF bet
  <2>2. /\ players'[s] \in Player
        /\ players'[s].chips = p.chips - bet
        /\ players'[s].pendingTopUp = p.pendingTopUp
        /\ players'[s].currentBet = bet /\ players'[s].totalContribution = bet
        /\ players'[s].status = p.status /\ players'[s].offline = p.offline
        /\ players'[s].cards <=> p.status = "active" \/ p.cards
        /\ bet \in Nat /\ bet <= p.chips /\ bet <= SmallBlind
    BY <1>3, <1>4, <2>1
  <2>3. bet <= BigBlind
    BY <1>4, <2>2
  <2> QED
    BY <1>1, <1>2, <1>5, <1>7, <2>2, <2>3 DEF bet
<1>8. CASE s # bb /\ s # sb
  <2>1. players'[s] = Dealt(p) /\ bet = 0
    BY <1>1, <1>8 DEF OpenDealt
  <2>2. /\ players'[s] \in Player
        /\ players'[s].chips = p.chips - 0 /\ players'[s].currentBet = p.currentBet
        /\ players'[s].totalContribution = p.totalContribution
        /\ players'[s].pendingTopUp = p.pendingTopUp
        /\ players'[s].status = p.status /\ players'[s].offline = p.offline
        /\ players'[s].cards <=> p.status = "active" \/ p.cards
    BY <1>2, <2>1, DealtReady
  <2>3. 0 \in Nat /\ 0 <= p.chips /\ 0 <= BigBlind
    BY <1>2, <1>4
  <2> HIDE DEF bet
  <2>4. /\ bet \in Nat /\ bet <= p.chips /\ bet <= BigBlind
        /\ players'[s].chips = p.chips - bet
    BY <2>1, <2>2, <2>3
  <2> QED
    BY <1>1, <1>2, <1>8, <2>2, <2>4 DEF bet
<1> QED
  BY <1>6, <1>7, <1>8

\* A deal keeps the invariant (next_hand.lua:258-440).
LEMMA DealStays ==
    ASSUME OpenInv, Deal
    PROVE  Stays
<1> PICK ps, sb, bb : OpenDealt(ps, sb, bb)
  BY OpenDealSeats
<1> DEFINE small == Blind(ps[sb], SmallBlind)
           big == Blind(ps[bb], BigBlind)
           bet(s) == IF s = bb THEN big ELSE IF s = sb THEN small ELSE 0
<1>1. \A s \in Seats :
         /\ players'[s] \in Player /\ ps[s] \in Player /\ SweptClean(ps[s])
         /\ bet(s) \in Nat /\ bet(s) <= ps[s].chips /\ bet(s) <= BigBlind
         /\ players'[s].chips = ps[s].chips - bet(s)
         /\ s \in {sb, bb} => /\ players'[s].currentBet = bet(s)
                              /\ players'[s].totalContribution = bet(s)
                              /\ ps[s].status = "active"
         /\ s \notin {sb, bb} =>
               /\ players'[s].currentBet = ps[s].currentBet
               /\ players'[s].totalContribution = ps[s].totalContribution
         /\ players'[s].status = ps[s].status /\ players'[s].offline = ps[s].offline
         /\ players'[s].cards <=> ps[s].status = "active" \/ ps[s].cards
  BY OpenDealFields
<1>2. /\ sb # bb /\ sb \in Seats /\ bb \in Seats
      /\ table'.phase = "preflop" /\ table'.pot = small + big
      /\ table'.currentBet = BigBlind /\ table'.lastRaiseSize = BigBlind
      /\ table'.turnSeat \in Active(ps) /\ reply' = "play"
  BY DEF OpenDealt
<1>3. small \in Nat /\ big \in Nat
  BY <1>1, <1>2
<1>4. BigBlind \in Nat
  BY StakesAssumption
<1> HIDE DEF small, big
<1>5. ASSUME NEW s \in Seats
      PROVE  /\ Sound(players'[s], table')
             /\ LiveBets(players')[s] \in Int /\ LiveBets(players')[s] <= bet(s)
  <2>1. PICK p, q, b : p = ps[s] /\ q = players'[s] /\ b = bet(s)
    OBVIOUS
  <2>2. /\ q \in Player /\ p \in Player /\ SweptClean(p) /\ p.chips \in Int /\ q.chips \in Int
        /\ p.currentBet \in Int /\ q.currentBet \in Int
        /\ b \in Nat /\ b <= p.chips /\ b <= BigBlind /\ q.chips = p.chips - b
        /\ \/ q.currentBet = b /\ q.totalContribution = b /\ p.status = "active"
           \/ q.currentBet = p.currentBet /\ q.totalContribution = p.totalContribution
        /\ q.status = p.status /\ q.offline = p.offline
        /\ q.cards <=> p.status = "active" \/ p.cards
    BY <1>1, <2>1, PlayerFields
  <2>3. q.chips >= 0 /\ q.currentBet >= 0 /\ (WebClient => q.totalContribution >= 0)
    BY <2>2 DEF SweptClean
  <2>4. q.status \in Live => q.currentBet <= b /\ q.currentBet <= BigBlind
    BY <1>4, <2>2 DEF SweptClean
  <2>5. q.status = "all-in" /\ q.totalContribution > 0 => q.cards
    BY <2>2 DEF SweptClean
  <2>6. CardsApart => Held(q, table')
    BY <2>2 DEF SweptClean, Held, Live
  <2>7. table'.phase \in Streets
    BY <1>2 DEF Streets
  <2>8. Sound(q, table')
    BY <1>2, <2>2, <2>3, <2>4, <2>5, <2>6, <2>7 DEF Sound, Counted
  <2>9. LiveBets(players')[s] = IF q.status \in Live THEN q.currentBet ELSE 0
    BY <2>1 DEF LiveBets
  <2>10. LiveBets(players')[s] \in Int /\ LiveBets(players')[s] <= b
    BY <2>2, <2>4, <2>9
  <2> HIDE DEF bet
  <2> QED
    BY <2>1, <2>8, <2>10
<1>6. small + big >= SeatSum(LiveBets(players'))
  <2> DEFINE f == LiveBets(players')
             a == [s \in Seats |-> IF s = sb THEN small ELSE 0]
             b == [s \in Seats |-> IF s = bb THEN big ELSE 0]
             both == [s \in Seats |-> a[s] + b[s]]
  <2>1. SeatSum(a) = small /\ SeatSum(b) = big
    <3>1. a[sb] = small /\ \A s \in Seats \ {sb} : a[s] = 0
      BY <1>2
    <3>2. b[bb] = big /\ \A s \in Seats \ {bb} : b[s] = 0
      BY <1>2
    <3> HIDE DEF a, b
    <3> QED
      BY <1>2, <1>3, <3>1, <3>2, SeatSumSingle
  <2>2. \A s \in Seats : a[s] \in Nat /\ b[s] \in Nat /\ both[s] = a[s] + b[s]
    BY <1>3
  <2>3. SeatSum(both) = SeatSum(a) + SeatSum(b)
    <3> HIDE DEF a, b, both
    <3> QED
      BY <2>2, SeatSumAdd
  <2>4. \A s \in Seats : both[s] = bet(s)
    BY <1>2, <1>3
  <2>5. \A s \in Seats : f[s] \in Int /\ both[s] \in Int /\ f[s] <= both[s]
    <3> HIDE DEF a, b, both, bet, f
    <3> QED
      BY <1>5, <2>2, <2>4 DEF f
  <2>6. SeatSum(f) <= SeatSum(both)
    <3> HIDE DEF f, a, b, both
    <3> QED
      BY <2>5, SeatSumOrder
  <2> QED
    BY <2>1, <2>3, <2>6
<1>7. Backed(players', table')
  BY <1>2, <1>3, <1>4, <1>6 DEF Backed
<1>8. DueHolds'
  <2>1. table'.turnSeat \in Active(players') /\ table'.phase \in Streets
    BY <1>1, <1>2 DEF Active, Streets
  <2> QED
    BY <1>2, <2>1 DEF DueHolds, TurnRests, TurnFits, StreetFits
<1> QED
  BY <1>5, <1>7, <1>8 DEF Stays, OpenFacts

(***************************************************************************)
(* The steps: the requests.                                                *)
(***************************************************************************)

\* What becomes of the record p at a seat when the table stays as it is: in a hand nobody
\* comes into it or bets, and without leavers who can act can act still.
Passes(p, q) ==
    /\ q \in Player /\ Sound(q, table)
    /\ table.phase \in Streets =>
          /\ q.status \in Live => q.status = p.status /\ q.currentBet = p.currentBet
          /\ p.status = "active" /\ "leave" \notin Requests => q.status = "active"

\* A step that leaves the table's own fields alone keeps OpenInv when every seat
\* passes over soundly.
LEMMA SeatsPass ==
    ASSUME OpenInv, \A s \in Seats : Passes(players[s], players'[s]),
           players' \in [Seats -> Player], UNCHANGED <<table, reply>>
    PROVE  Stays
<1>1. /\ players \in [Seats -> Player] /\ table \in Table /\ OpenFacts(players, table)
      /\ DueHolds
  BY DEF OpenInv, TypeOK
<1>2. \A s \in Seats : Sound(players'[s], table')
  BY DEF Passes
<1>3. Backed(players', table')
  <2>1. Backed(players, table)
    BY <1>1 DEF OpenFacts
  <2>2. CASE table.phase \notin Streets
    BY <2>1, <2>2 DEF Backed
  <2>3. CASE table.phase \in Streets
    <3> DEFINE f == LiveBets(players')
               g == LiveBets(players)
    <3>1. \A s \in Seats : g[s] \in Nat
      BY <1>1, SoundFields
    <3>2. \A s \in Seats : f[s] = g[s] \/ f[s] = 0
      <4>1. \A s \in Seats :
               players'[s].status \in Live => /\ players'[s].status = players[s].status
                                              /\ players'[s].currentBet = players[s].currentBet
        BY <2>3 DEF Passes
      <4> QED
        BY <4>1 DEF LiveBets
    <3> HIDE DEF f, g
    <3>3. \A s \in Seats : f[s] \in Int /\ g[s] \in Int /\ f[s] <= g[s]
      BY <3>1, <3>2
    <3>4. SeatSum(f) <= SeatSum(g) /\ SeatSum(f) \in Int /\ SeatSum(g) \in Int
      BY <3>3, SeatSumOrder, SeatSumType
    <3>5. table.pot >= SeatSum(g) /\ table.pot \in Int
      BY <1>1, <2>1, <2>3, TableFields DEF Backed, g
    <3>6. table.pot >= SeatSum(f)
      BY <3>4, <3>5
    <3> QED
      BY <2>1, <3>6 DEF Backed, f
  <2> QED
    BY <2>2, <2>3
<1>4. TurnFits'
  <2>1. SUFFICES ASSUME "leave" \notin Requests
                 PROVE  /\ reply \in {"play", "street"} => table.phase \in Streets
                        /\ reply = "play" => table.turnSeat \in Active(players')
    BY DEF TurnFits
  <2>2. /\ reply \in {"play", "street"} => table.phase \in Streets
        /\ reply = "play" => table.turnSeat \in Active(players)
    BY <1>1, <2>1 DEF DueHolds, TurnFits
  <2> QED
    BY <2>1, <2>2 DEF Active, Passes
<1>5. StreetFits'
  <2>1. SUFFICES ASSUME WebClient, reply = "street", table.phase \in Streets
                 PROVE  Balanced(players')
    BY DEF StreetFits
  <2>2. Balanced(players)
    BY <1>1, <2>1 DEF DueHolds, StreetFits
  <2>3. \A s \in Seats :
           players'[s].status \in Live => /\ players'[s].status = players[s].status
                                          /\ players'[s].currentBet = players[s].currentBet
    BY <2>1 DEF Passes
  <2> QED
    BY <2>2, <2>3 DEF Balanced, Active, InHand, Live
<1>6. TurnRests'
  BY <1>1 DEF DueHolds, TurnRests
<1> QED
  BY <1>2, <1>3, <1>4, <1>5, <1>6 DEF Stays, OpenFacts, DueHolds

\* What a request other than to come or to leave does to the player's record: chips may be
\* added; whoever is made to wait or rest held no cards, or was out of the hand, or there is
\* no hand and chips he had none of were added.
Requested(p, q) ==
    /\ q.chips >= p.chips /\ q.currentBet = p.currentBet
    /\ q.totalContribution = p.totalContribution /\ q.cards = p.cards
    /\ q.offline => p.offline \/ "set_offline" \in Requests
    /\ \/ q.status = p.status
       \/ /\ q.status \in {"waiting", "sitting_out"}
          /\ \/ ~p.cards
             \/ p.status \notin Live
             \/ table.phase \notin Streets /\ "add_chips_vault" \in Requests

\* What a request may do to the record of who asks (Requested), and that it
\* touches no other seat and not the table.
LEMMA RequestOpen ==
    ASSUME OpenInv, NEW s \in Seats,
           \/ ToggleSitOut(s)
           \/ \E amount \in Deposits : AddChips(s, amount) \/ AddChipsVault(s, amount)
           \/ SetOffline(s) \/ SetOnline(s) \/ ToggleLnbb(s)
    PROVE  /\ Requested(players[s], players'[s])
           /\ \A r \in Seats \ {s} : players'[r] = players[r]
           /\ UNCHANGED <<table, reply>>
<1>1. players \in [Seats -> Player] /\ players[s] \in Player
  BY DEF OpenInv, TypeOK
<1>2. players[s].chips \in Int
  BY <1>1, PlayerFields
<1>3. CASE ToggleSitOut(s)
  <2>1. PICK p, q : p = players[s] /\ q = players'[s]
    OBVIOUS
  <2>2. /\ players' = [players EXCEPT ![s] = q] /\ UNCHANGED <<table, reply>>
        /\ \/ p.cards /\ q = [p EXCEPT !.sitOutNextHand = ~@]
           \/ /\ p.status = "waiting" \/ ~p.cards
              /\ q = [p EXCEPT !.status = "sitting_out", !.sitOutNextHand = FALSE]
           \/ /\ p.status = "sitting_out"
              /\ q = [p EXCEPT !.status = "waiting", !.sitOutNextHand = FALSE]
    BY <1>1, <1>3, <2>1 DEF ToggleSitOut
  <2>3. p \in Player /\ p.chips \in Int
    BY <1>1, <1>2, <2>1
  <2>4. /\ q.chips = p.chips /\ q.currentBet = p.currentBet
        /\ q.totalContribution = p.totalContribution /\ q.cards = p.cards
        /\ q.offline = p.offline
        /\ \/ q.status = p.status
           \/ q.status \in {"waiting", "sitting_out"} /\ (~p.cards \/ p.status \notin Live)
    BY <2>2, <2>3 DEF Player, Live
  <2>5. Requested(p, q)
    BY <2>3, <2>4 DEF Requested
  <2> QED
    BY <2>1, <2>2, <2>5
<1>4. ASSUME NEW amount \in Deposits, AddChips(s, amount)
      PROVE  /\ Requested(players[s], players'[s])
             /\ \A r \in Seats \ {s} : players'[r] = players[r]
             /\ UNCHANGED <<table, reply>>
  <2>1. amount \in Nat
    BY BoundsAssumption
  <2>2. PICK p, q : p = players[s] /\ q = players'[s]
    OBVIOUS
  <2>3. /\ players' = [players EXCEPT ![s] = q] /\ UNCHANGED <<table, reply>>
        /\ q = [p EXCEPT !.chips = @ + amount, !.status = "waiting"]
        /\ p.status \in {"sitting_out", "waiting"}
    BY <1>1, <1>4, <2>2 DEF AddChips
  <2>4. p \in Player /\ p.chips \in Int
    BY <1>1, <1>2, <2>2
  <2>5. Requested(p, q)
    <3>1. /\ q.chips = p.chips + amount /\ q.currentBet = p.currentBet
          /\ q.totalContribution = p.totalContribution /\ q.cards = p.cards
          /\ q.offline = p.offline /\ q.status = "waiting" /\ p.status \notin Live
      BY <2>3, <2>4 DEF Player, Live
    <3> QED
      BY <2>1, <2>4, <3>1 DEF Requested
  <2> QED
    BY <2>2, <2>3, <2>5
<1>5. ASSUME NEW amount \in Deposits, AddChipsVault(s, amount)
      PROVE  /\ Requested(players[s], players'[s])
             /\ \A r \in Seats \ {s} : players'[r] = players[r]
             /\ UNCHANGED <<table, reply>>
  <2>1. amount \in Nat
    BY BoundsAssumption
  <2>2. PICK p, q : p = players[s] /\ q = players'[s]
    OBVIOUS
  <2>3. /\ players' = [players EXCEPT ![s] = q]
        /\ \/ q = [p EXCEPT !.pendingTopUp = @ + amount]
           \/ /\ q = [p EXCEPT !.chips = @ + amount,
                               !.status = IF p.chips = 0 THEN "waiting" ELSE @]
              /\ table.phase = "waiting" \/ p.status \notin Playing
        /\ UNCHANGED <<table, reply>> /\ "add_chips_vault" \in Requests
    BY <1>1, <1>5, <2>2 DEF AddChipsVault
  <2>4. p \in Player /\ p.chips \in Int
    BY <1>1, <1>2, <2>2
  <2>5. CASE q = [p EXCEPT !.pendingTopUp = @ + amount]
    <3>1. /\ q.chips = p.chips /\ q.currentBet = p.currentBet
          /\ q.totalContribution = p.totalContribution /\ q.cards = p.cards
          /\ q.offline = p.offline /\ q.status = p.status
      BY <2>4, <2>5 DEF Player
    <3>2. Requested(p, q)
      BY <2>4, <3>1 DEF Requested
    <3> QED
      BY <2>2, <2>3, <3>2
  <2>6. CASE /\ q = [p EXCEPT !.chips = @ + amount,
                              !.status = IF p.chips = 0 THEN "waiting" ELSE @]
             /\ table.phase = "waiting" \/ p.status \notin Playing
    <3>1. /\ q.chips = p.chips + amount /\ q.currentBet = p.currentBet
          /\ q.totalContribution = p.totalContribution /\ q.cards = p.cards
          /\ q.offline = p.offline /\ (q.status = p.status \/ q.status = "waiting")
      BY <2>4, <2>6 DEF Player
    <3>2. table.phase \notin Streets \/ p.status \notin Live
      BY <2>6 DEF Streets, Live, Playing
    <3>3. Requested(p, q)
      BY <2>1, <2>3, <2>4, <3>1, <3>2 DEF Requested
    <3> QED
      BY <2>2, <2>3, <3>3
  <2> QED
    BY <2>3, <2>5, <2>6
<1>6. CASE SetOffline(s)
  BY <1>1, <1>2, <1>6 DEF SetOffline, Requested, Player
<1>7. CASE SetOnline(s)
  BY <1>1, <1>2, <1>7 DEF SetOnline, Requested, Player, Live
<1>8. CASE ToggleLnbb(s)
  BY <1>1, <1>2, <1>8 DEF ToggleLnbb, Requested, Player
<1> QED
  BY <1>3, <1>4, <1>5, <1>6, <1>7, <1>8

\* Such a request keeps the invariant (toggle_sit_out, add_chips, add_chips_vault,
\* set_offline, set_online, toggle_lnbb .lua).
LEMMA RequestStays ==
    ASSUME OpenInv, TypeOK', NEW s \in Seats,
           \/ ToggleSitOut(s)
           \/ \E amount \in Deposits : AddChips(s, amount) \/ AddChipsVault(s, amount)
           \/ SetOffline(s) \/ SetOnline(s) \/ ToggleLnbb(s)
    PROVE  Stays
<1>1. /\ players \in [Seats -> Player] /\ table \in Table /\ OpenFacts(players, table)
      /\ players' \in [Seats -> Player]
  BY DEF OpenInv, TypeOK
<1>2. /\ Requested(players[s], players'[s])
      /\ \A r \in Seats \ {s} : players'[r] = players[r]
      /\ UNCHANGED <<table, reply>>
  BY RequestOpen
<1>3. Passes(players[s], players'[s])
  <2>1. PICK p, q : p = players[s] /\ q = players'[s]
    OBVIOUS
  <2>2. /\ p \in Player /\ q \in Player /\ Requested(p, q) /\ Sound(p, table)
        /\ p.chips \in Int /\ q.chips \in Int
    BY <1>1, <1>2, <2>1, PlayerFields DEF OpenFacts
  <2>3. q.status \in Live => q.status = p.status
    BY <2>2 DEF Requested, Live
  <2>4. q.chips >= 0 /\ (q.chips = 0 => p.chips = 0)
    BY <2>2 DEF Requested, Sound
  <2>5. CardsApart => Held(q, table)
    <3>1. SUFFICES ASSUME CardsApart
                   PROVE  Held(q, table)
      OBVIOUS
    <3>2. Held(p, table)
      BY <2>2, <3>1 DEF Sound
    <3>3. q.offline => "set_offline" \in Requests
      BY <2>2, <3>2 DEF Requested, Held
    <3>4. CASE q.status = p.status
      BY <2>2, <3>2, <3>3, <3>4 DEF Requested, Held
    <3>5. CASE /\ q.status \in {"waiting", "sitting_out"}
               /\ \/ ~p.cards
                  \/ p.status \notin Live
                  \/ table.phase \notin Streets /\ "add_chips_vault" \in Requests
      BY <2>2, <3>1, <3>2, <3>3, <3>5 DEF Requested, Held, CardsApart
    <3> QED
      BY <2>2, <3>4, <3>5 DEF Requested
  <2>6. WebClient => Counted(q, table)
    BY <2>2, <2>3 DEF Sound, Counted, Requested
  <2>7. q.status \in {"active", "all-in"} => q.status = p.status
    BY <2>3 DEF Live
  <2>8. Sound(q, table)
    BY <2>2, <2>4, <2>5, <2>6, <2>7 DEF Sound, Requested
  <2>9. table.phase \in Streets /\ p.status = "active" => q.status = "active"
    BY <2>2 DEF Sound, Requested, Live
  <2>10. Passes(p, q)
    BY <2>2, <2>3, <2>8, <2>9 DEF Passes, Requested
  <2> QED
    BY <2>1, <2>10
<1>4. \A r \in Seats \ {s} : Passes(players[r], players'[r])
  BY <1>1, <1>2 DEF Passes, OpenFacts
<1> QED
  BY <1>1, <1>2, <1>3, <1>4, SeatsPass

\* The record of a player who takes a seat.
Newcomer(buyIn) ==
    [Vacant EXCEPT !.status = "waiting", !.chips = buyIn, !.timeBank = TimeBank]

\* What join_table.lua writes of a newcomer, field by field.
LEMMA NewcomerFields ==
    ASSUME NEW buyIn \in Nat
    PROVE  /\ Newcomer(buyIn) \in Player
           /\ Newcomer(buyIn).status = "waiting" /\ Newcomer(buyIn).chips = buyIn
           /\ Newcomer(buyIn).currentBet = 0 /\ Newcomer(buyIn).totalContribution = 0
           /\ Newcomer(buyIn).pendingTopUp = 0
           /\ ~Newcomer(buyIn).cards /\ ~Newcomer(buyIn).offline
<1> DEFINE q == [[[Vacant EXCEPT !.status = "waiting"] EXCEPT !.chips = buyIn]
                     EXCEPT !.timeBank = TimeBank]
<1>1. buyIn \in Int /\ TimeBank \in Nat /\ "waiting" \in Statuses
  BY StakesAssumption, Names
<1>2. q \in Player
  BY <1>1, VacantType, PlayerUpdates, Zenon
<1>3. Newcomer(buyIn) = q
  BY DEF Newcomer
<1> HIDE DEF q
<1>4. Newcomer(buyIn) \in Player
  BY <1>2, <1>3
<1> QED
  BY <1>4 DEF Newcomer, Vacant

\* A newcomer keeps the invariant, and so does the start that the second one brings
\* (join_table.lua).
LEMMA JoinStays ==
    ASSUME OpenInv, TypeOK', NEW s \in Seats, NEW buyIn \in MinBuyIn..MaxBuyIn, Join(s, buyIn)
    PROVE  Stays
<1> DEFINE new == Newcomer(buyIn)
           seated == [players EXCEPT ![s] = new]
           starts == /\ table.phase = "waiting"
                     /\ Cardinality({r \in Seats : Playable(seated[r])}) >= 2
<1>1. /\ players \in [Seats -> Player] /\ table \in Table /\ OpenFacts(players, table)
      /\ players' \in [Seats -> Player] /\ players[s].status = "empty"
      /\ UNCHANGED <<table, reply>>
  BY DEF OpenInv, TypeOK, Join, Seated
<1>2. players' = [r \in Seats |->
            IF starts /\ seated[r].status = "waiting"
              THEN [seated[r] EXCEPT !.status = "active"] ELSE seated[r]]
  BY DEF Join, Newcomer
<1>3. starts => table.phase = "waiting" /\ table.phase \notin Streets
  BY DEF Streets
<1> HIDE DEF starts
<1>4. /\ new \in Player /\ new.status = "waiting" /\ new.chips >= 0 /\ new.currentBet = 0
      /\ new.totalContribution = 0 /\ ~new.cards /\ ~new.offline
  <2>1. buyIn \in Nat
    BY StakesAssumption
  <2> QED
    BY <2>1, NewcomerFields
<1>5. Passes(players[s], players'[s])
  <2>1. PICK n, q : n = new /\ q = players'[s]
    OBVIOUS
  <2>2. n \in Player /\ q \in Player /\ (q = n \/ (starts /\ q = [n EXCEPT !.status = "active"]))
    BY <1>1, <1>2, <1>4, <2>1
  <2>3. /\ q.chips = n.chips /\ q.currentBet = n.currentBet
        /\ q.totalContribution = n.totalContribution /\ q.cards = n.cards
        /\ q.offline = n.offline /\ (q.status = n.status \/ (starts /\ q.status = "active"))
    BY <2>2 DEF Player
  <2>4. Passes(players[s], q)
    BY <1>1, <1>3, <1>4, <2>1, <2>2, <2>3 DEF Passes, Sound, Counted, Held, Live
  <2> QED
    BY <2>1, <2>4
<1> HIDE DEF new
<1>6. ASSUME NEW r \in Seats \ {s}
      PROVE  Passes(players[r], players'[r])
  <2>1. PICK p, q : p = players[r] /\ q = players'[r]
    OBVIOUS
  <2>2. /\ p \in Player /\ q \in Player /\ Sound(p, table)
        /\ \/ q = p
           \/ starts /\ p.status = "waiting" /\ q = [p EXCEPT !.status = "active"]
    <3>1. seated[r] = p
      BY <1>1, <2>1
    <3>2. q = IF starts /\ p.status = "waiting" THEN [p EXCEPT !.status = "active"] ELSE p
      BY <1>2, <2>1, <3>1
    <3> QED
      BY <1>1, <2>1, <3>2 DEF OpenFacts
  <2>3. CASE q = p
    BY <2>1, <2>2, <2>3 DEF Passes
  <2>4. CASE starts /\ p.status = "waiting" /\ q = [p EXCEPT !.status = "active"]
    <3>1. /\ q.chips = p.chips /\ q.currentBet = p.currentBet
          /\ q.totalContribution = p.totalContribution /\ q.cards = p.cards
          /\ q.offline = p.offline /\ q.status = "active"
      BY <2>2, <2>4 DEF Player
    <3>2. table.phase \notin Streets
      BY <1>3, <2>4
    <3>3. Sound(q, table)
      BY <2>2, <2>4, <3>1, <3>2 DEF Sound, Counted, Held, Live
    <3> QED
      BY <2>1, <2>2, <3>2, <3>3 DEF Passes
  <2> QED
    BY <2>1, <2>2, <2>3, <2>4
<1> QED
  BY <1>1, <1>5, <1>6, SeatsPass

\* A vacant seat is sound, at any table.
LEMMA VacantSound == ASSUME NEW t PROVE Sound(Vacant, t)
BY DEF Vacant, Sound, Counted, Held, Live

\* A player who leaves keeps the invariant, though he leaves the last one alone
\* (leave_table.lua).
LEMMA LeaveStays ==
    ASSUME OpenInv, TypeOK', NEW s \in Seats, Leave(s)
    PROVE  Stays
<1> DEFINE left == [players EXCEPT ![s] = Vacant]
           alone == Cardinality(Seated(left)) = 1
<1>1. /\ players \in [Seats -> Player] /\ table \in Table /\ OpenFacts(players, table)
      /\ players' \in [Seats -> Player] /\ "leave" \in Requests /\ reply' = reply
      /\ Backed(players, table)
  BY DEF OpenInv, OpenFacts, TypeOK, Leave
<1>2. players' = [r \in Seats |->
            IF alone /\ r \in Seated(left)
              THEN [left[r] EXCEPT !.chips = @ + Larger(0, table.pot),
                                   !.status = "waiting", !.cards = FALSE]
              ELSE left[r]]
  BY DEF Leave
<1>3. table' = IF alone THEN [table EXCEPT !.pot = 0, !.phase = "waiting",
                                           !.turnSeat = NoSeat, !.currentBet = 0]
                        ELSE table
  BY DEF Leave
<1>4. Seated(left) \in SUBSET Seats /\ \A r \in Seats : r \in Seated(left) <=> left[r].status # "empty"
  BY DEF Seated
<1>5. Vacant.status = "empty"
  BY DEF Vacant
<1> HIDE DEF alone
<1>6. CASE ~alone
  <2>1. players' = left
    BY <1>1, <1>2, <1>6
  <2>2. UNCHANGED <<table, reply>>
    BY <1>1, <1>3, <1>6
  <2>3. Passes(players[s], players'[s])
    BY <1>1, <1>5, <2>1, VacantSound, VacantType DEF Passes, Live
  <2>4. \A r \in Seats \ {s} : Passes(players[r], players'[r])
    BY <1>1, <2>1 DEF Passes, OpenFacts
  <2> QED
    BY <1>1, <2>2, <2>3, <2>4, SeatsPass
<1>7. CASE alone
  <2>1. /\ table'.pot = 0 /\ table'.phase = "waiting" /\ table'.turnSeat = NoSeat
        /\ table'.currentBet = 0 /\ table'.lastRaiseSize = table.lastRaiseSize
        /\ table'.phase \notin Streets
    BY <1>1, <1>3, <1>7 DEF Table, Streets
  <2>2. ASSUME NEW r \in Seats
        PROVE  Sound(players'[r], table')
    <3>1. CASE left[r].status = "empty"
      <4>1. players'[r] = Vacant \/ (players'[r] = players[r] /\ players[r].status = "empty")
        BY <1>1, <1>2, <1>4, <3>1
      <4>2. CASE players'[r] = Vacant
        BY <4>2, VacantSound
      <4>3. CASE players'[r] = players[r] /\ players[r].status = "empty"
        <5>1. Sound(players[r], table)
          BY <1>1 DEF OpenFacts
        <5> QED
          BY <2>1, <4>3, <5>1 DEF Sound, Counted, Held, Live
      <4> QED
        BY <4>1, <4>2, <4>3
    <3>2. CASE left[r].status # "empty"
      <4>1. PICK p, q, k : p = players[r] /\ q = players'[r] /\ k = Larger(0, table.pot)
        OBVIOUS
      <4>2. /\ p \in Player /\ q \in Player /\ Sound(p, table) /\ p.chips \in Nat
            /\ q = [p EXCEPT !.chips = @ + k, !.status = "waiting", !.cards = FALSE]
        BY <1>1, <1>2, <1>4, <1>5, <1>7, <3>2, <4>1, SoundFields
      <4>3. k \in Nat
        BY <1>1, <4>1, TableFields DEF Larger
      <4>4. /\ q.chips = p.chips + k /\ q.currentBet = p.currentBet
            /\ q.totalContribution = p.totalContribution /\ ~q.cards
            /\ q.offline = p.offline /\ q.status = "waiting"
        BY <4>2 DEF Player
      <4> QED
        BY <2>1, <4>1, <4>2, <4>3, <4>4 DEF Sound, Counted, Held, Live
    <3> QED
      BY <3>1, <3>2
  <2>3. Backed(players', table')
    BY <1>1, <2>1 DEF Backed
  <2>4. DueHolds'
    BY <1>1, <2>1 DEF DueHolds, TurnRests, TurnFits, StreetFits
  <2> QED
    BY <2>2, <2>3, <2>4 DEF Stays, OpenFacts
<1> QED
  BY <1>6, <1>7

\* The reset at boot keeps the invariant: it leaves no player and no pot
\* (force_cleanup.lua).
LEMMA ForceCleanupStays ==
    ASSUME OpenInv, ForceCleanup
    PROVE  Stays
<1>1. table \in Table /\ Backed(players, table)
  BY DEF OpenInv, TypeOK, OpenFacts
<1>2. /\ table'.pot = 0 /\ table'.phase = "waiting" /\ table'.turnSeat = NoSeat
      /\ table'.currentBet = 0 /\ table'.lastRaiseSize = table.lastRaiseSize
      /\ table'.phase \notin Streets
  BY <1>1 DEF ForceCleanup, Table, Streets
<1>3. players' = [s \in Seats |-> Vacant] /\ reply' = "idle"
  BY DEF ForceCleanup
<1>4. \A s \in Seats : Sound(players'[s], table')
  BY <1>3, VacantSound
<1>5. Backed(players', table')
  BY <1>1, <1>2 DEF Backed
<1>6. DueHolds'
  BY <1>3 DEF DueHolds, TurnRests, TurnFits, StreetFits
<1> QED
  BY <1>4, <1>5, <1>6 DEF Stays, OpenFacts

(***************************************************************************)
(* The invariant holds of a table whose players come and go.               *)
(***************************************************************************)

\* It holds before the first hand.
LEMMA OpenInitHolds == OpenInit => OpenInv
<1> SUFFICES ASSUME OpenInit
             PROVE  OpenInv
  OBVIOUS
<1>1. /\ table.phase = "waiting" /\ table.pot = 0 /\ table.currentBet = 0
      /\ table.lastRaiseSize \in {0, BigBlind} /\ reply = "idle"
      /\ "waiting" \notin Streets
  BY DEF OpenInit, Streets
<1>2. TypeOK
  <2>1. table \in Table /\ reply \in Replies
    BY StakesAssumption DEF OpenInit, Table, Phases, Replies
  <2> QED
    BY <2>1 DEF OpenInit, TypeOK
<1>3. ASSUME NEW s \in Seats
      PROVE  Sound(players[s], table)
  <2>1. CASE players[s] = Vacant
    BY <2>1, VacantSound
  <2>2. ASSUME NEW chips \in Stacks, players[s] = Seat(chips)
        PROVE  Sound(players[s], table)
    <3>1. PICK p : p = players[s]
      OBVIOUS
    <3>2. /\ p.status = "waiting" /\ p.chips = chips /\ p.currentBet = 0
          /\ p.totalContribution = 0 /\ ~p.cards /\ ~p.offline
      BY <2>2, <3>1 DEF Seat, Vacant
    <3>3. chips \in Nat
      BY StacksAssumption
    <3> QED
      BY <1>1, <3>1, <3>2, <3>3 DEF Sound, Counted, Held, Live
  <2> QED
    BY <2>1, <2>2 DEF OpenInit, Waits
<1>4. Backed(players, table)
  BY <1>1, StakesAssumption DEF Backed
<1>5. DueHolds
  BY <1>1 DEF DueHolds, TurnRests, TurnFits, StreetFits
<1> QED
  BY <1>2, <1>3, <1>4, <1>5 DEF OpenInv, OpenFacts

\* Every step keeps it.
LEMMA OpenStep ==
    ASSUME OpenInv, MaxActed = 0, [Next]_vars
    PROVE  OpenInv'
<1>1. TypeOK'
  BY NextType DEF OpenInv
<1>2. CASE UNCHANGED vars
  BY <1>2 DEF vars, OpenInv, OpenFacts, Sound, Counted, Held, Backed, LiveBets, DueHolds,
              TurnRests, TurnFits, StreetFits, TypeOK, Active, InHand, Balanced
<1>3. ASSUME NEW s \in Seats, Bet(s) \/ Timeout(s)
      PROVE  Stays
  BY <1>3, BetStays, TimeoutStays
<1>4. ASSUME NEW s \in Seats, NEW buyIn \in MinBuyIn..MaxBuyIn, Join(s, buyIn)
      PROVE  Stays
  BY <1>1, <1>4, JoinStays
<1>5. ASSUME NEW s \in Seats, Leave(s)
      PROVE  Stays
  BY <1>1, <1>5, LeaveStays
<1>6. ASSUME NEW s \in Seats,
             \/ ToggleSitOut(s)
             \/ \E amount \in Deposits : AddChips(s, amount) \/ AddChipsVault(s, amount)
             \/ SetOffline(s) \/ SetOnline(s) \/ ToggleLnbb(s)
      PROVE  Stays
  BY <1>1, <1>6, RequestStays
<1>7. ASSUME NextStreet
      PROVE  Stays
  BY <1>7, NextStreetStays
<1>8. ASSUME NEW score, Showdown(score)
      PROVE  Stays
  BY <1>8, ShowdownStays
<1>9. ASSUME NextHand
      PROVE  Stays
  BY <1>9, TooFewStays, DealStays DEF NextHand
<1>10. ASSUME ForceCleanup
       PROVE  Stays
  BY <1>10, ForceCleanupStays
<1>11. CASE Stays
  BY <1>1, <1>11 DEF Stays, OpenInv, OpenFacts
<1> QED
  BY <1>2, <1>3, <1>4, <1>5, <1>6, <1>7, <1>8, <1>9, <1>10, <1>11 DEF Next, HandNext, SeatNext

\* OpenInv is invariant: it holds of the first table and every step of the
\* scripts keeps it.
LEMMA OpenInvHolds ==
    ASSUME MaxActed = 0
    PROVE  OpenTable => []OpenInv
<1>1. OpenInit => OpenInv
  BY OpenInitHolds
<1>2. OpenInv /\ [Next]_vars => OpenInv'
  BY OpenStep
<1> QED
  BY <1>1, <1>2, PTL DEF OpenTable

\* The instances TLC checks, and the table as the gateway creates it, are such tables.
LEMMA RunsAreOpen ==
    /\ Spec => OpenTable
    /\ TableSpec => OpenTable
    /\ HandSpec => OpenTable
<1>1. \A chips \in Stacks : Seat(chips) \in Player
  <2> SUFFICES ASSUME NEW chips \in Stacks
               PROVE  Seat(chips) \in Player
    OBVIOUS
  <2>1. chips \in Nat /\ Seat(chips) = Newcomer(chips)
    BY StacksAssumption DEF Seat, Newcomer
  <2> QED
    BY <2>1, NewcomerFields
<1>2. Vacant \in Player
  BY DEF Vacant, Player, Statuses
<1>3. Init => OpenInit
  <2> SUFFICES ASSUME Init
               PROVE  OpenInit
    OBVIOUS
  <2>1. balance \in [Seats -> Int]
    <3>1. balance \in [Seats -> Wallets] /\ \A w \in Wallets : w \in Int
      BY BoundsAssumption DEF Init
    <3> QED
      BY <3>1
  <2> QED
    BY <1>2, <2>1 DEF Init, OpenInit, Waits
<1>4. TableInit => OpenInit
  <2> SUFFICES ASSUME TableInit
               PROVE  OpenInit
    OBVIOUS
  <2>1. balance \in [Seats -> Int]
    <3>1. balance \in [Seats -> Wallets] /\ \A w \in Wallets : w \in Int
      BY BoundsAssumption DEF TableInit
    <3> QED
      BY <3>1
  <2>2. PICK party \in Parties, chips \in Stacks :
          players = [s \in Seats |-> IF s \in party THEN Seat(chips) ELSE Vacant]
    BY DEF TableInit
  <2>3. players \in [Seats -> Player] /\ \A s \in Seats : Waits(players[s])
    BY <1>1, <1>2, <2>2 DEF Waits
  <2> QED
    BY <2>1, <2>3 DEF TableInit, OpenInit
<1>5. DealInit => OpenInit
  <2> SUFFICES ASSUME DealInit
               PROVE  OpenInit
    OBVIOUS
  <2>1. balance \in [Seats -> Int] /\ Seats \subseteq 0..9
    BY SeatsAssumption DEF DealInit
  <2>2. players \in [Seats -> Player] /\ \A s \in Seats : Waits(players[s])
    BY <1>1 DEF DealInit, Waits
  <2> QED
    BY <2>1, <2>2 DEF DealInit, OpenInit
<1>6. [TableNext]_<<vars, requests>> => [Next]_vars
  BY DEF TableNext, Next
<1>7. [HandNext \/ Finished]_vars => [Next]_vars
  BY DEF Next, Finished
<1> QED
  BY <1>3, <1>4, <1>5, <1>6, <1>7, PTL DEF Spec, TableSpec, HandSpec, OpenTable

(***************************************************************************)
(* What holds at every moment.                                             *)
(***************************************************************************)

\* No stack is overdrawn and the pot covers the bets of the players in the hand, whoever
\* comes and goes and whatever his client sends, as long as nobody bets between two hands
\* (bet.lua:502-512, leave_table.lua, next_hand.lua).
THEOREM OpenTableSolvent ==
    ASSUME MaxActed = 0
    PROVE  OpenTable => []Solvent
<1>1. OpenInv => Solvent
  <2> SUFFICES ASSUME OpenInv
               PROVE  Solvent
    OBVIOUS
  <2>1. \A s \in Seats : players[s].status \in Live <=> s \in InHand(players)
    BY LiveIs
  <2>2. LiveBets(players) = [s \in Seats |-> IF s \in InHand(players)
                                               THEN players[s].currentBet ELSE 0]
    BY <2>1 DEF LiveBets
  <2> QED
    BY <2>2 DEF OpenInv, OpenFacts, Sound, Backed, Solvent
<1> QED
  BY <1>1, OpenInvHolds, PTL

\* While a hand is played, who holds cards is in it and nobody can win chips without cards,
\* whoever comes and goes, when clients do not both top up and drop off (next_hand.lua:147).
THEOREM OpenTableCards ==
    ASSUME MaxActed = 0, CardsApart
    PROVE  OpenTable => []CardsMatchHand
<1>1. OpenInv => CardsMatchHand
  <2> SUFFICES ASSUME OpenInv, table.phase \in Streets, NEW s \in Seats
               PROVE  /\ players[s].cards => s \in InHand(players)
                      /\ s \in InHand(players) /\ players[s].totalContribution > 0
                           => players[s].cards
    BY DEF CardsMatchHand
  <2>1. players[s].status \in Live <=> s \in InHand(players)
    BY LiveIs
  <2>2. Sound(players[s], table)
    BY DEF OpenInv, OpenFacts
  <2>3. players[s].status \in Live => players[s].status \in {"active", "all-in"}
    BY DEF Live
  <2> QED
    BY <2>1, <2>2, <2>3 DEF Sound, Held
<1> QED
  BY <1>1, OpenInvHolds, PTL

\* The table never waits for a player who cannot act, whoever joins, rests, tops up or drops
\* off, as long as nobody leaves: leave_table.lua does not pass the turn on.
THEOREM OpenTurnsAreLive ==
    ASSUME MaxActed = 0, "leave" \notin Requests
    PROVE  OpenTable => []TurnIsLive
<1>1. OpenInv => TurnIsLive
  BY DEF OpenInv, DueHolds, TurnFits, TurnIsLive
<1> QED
  BY <1>1, OpenInvHolds, PTL

\* A round closes on matched bets, whoever joins, rests, tops up or drops off, as long as
\* nobody leaves the table empty behind a street that is due.
THEOREM OpenRoundsBalanced ==
    ASSUME MaxActed = 0, WebClient, "leave" \notin Requests
    PROVE  OpenTable => []RoundBalanced
<1>1. OpenInv => RoundBalanced
  BY DEF OpenInv, DueHolds, TurnFits, StreetFits, RoundBalanced, Balanced
<1> QED
  BY <1>1, OpenInvHolds, PTL

(***************************************************************************)
(* No operation makes money.                                               *)
(***************************************************************************)

\* When no seat and wallet gain more than got says, and the pot and the rake lose as much,
\* there is no more money than before.
LEMMA Booked ==
    ASSUME TypeOK, TypeOK', NEW got,
           \A s \in Seats :
              /\ got[s] \in Int
              /\ Owned(players', balance')[s] <= Owned(players, balance)[s] + got[s],
           table'.pot + SeatSum(got) + house' <= table.pot + house
    PROVE  Money' <= Money
<1> PICK old, new, all :
        /\ old = Owned(players, balance) /\ new = Owned(players', balance')
        /\ all = [s \in Seats |-> old[s] + got[s]]
  OBVIOUS
<1>1. /\ players \in [Seats -> Player] /\ players' \in [Seats -> Player]
      /\ balance \in [Seats -> Int] /\ balance' \in [Seats -> Int]
      /\ house \in Int /\ house' \in Int /\ table.pot \in Int /\ table'.pot \in Int
  BY TableFields DEF TypeOK
<1>2. \A s \in Seats : old[s] \in Int /\ new[s] \in Int
  BY <1>1, PlayerFields DEF Owned
<1>3. \A s \in Seats : /\ all[s] \in Int /\ all[s] = old[s] + got[s] /\ got[s] \in Int
                       /\ new[s] <= all[s]
  BY <1>2
<1>4. SeatSum(all) = SeatSum(old) + SeatSum(got)
  BY <1>2, <1>3, SeatSumAdd
<1>5. SeatSum(new) <= SeatSum(all)
  BY <1>2, <1>3, SeatSumOrder
<1>6. SeatSum(old) \in Int /\ SeatSum(new) \in Int /\ SeatSum(got) \in Int
  BY <1>2, <1>3, SeatSumType
<1>7. Money = SeatSum(old) + table.pot + house /\ Money' = SeatSum(new) + table'.pot + house'
  BY DEF Money, Owned
<1> QED
  BY <1>1, <1>4, <1>5, <1>6, <1>7

\* A showdown pays no more than is in the pot, unless the records say there is more
\* (showdown.lua).
LEMMA OpenShowdownMakesNone ==
    ASSUME OpenInv, TypeOK', WebClient, NEW score \in [InHand(players) -> Scores],
           Showdown(score), ~Overrecorded
    PROVE  Money' <= Money
<1> PICK c, a, g, k, n : /\ c = Contributions(players) /\ a = InHand(players)
                         /\ g = table.pot /\ k = Rake(table.pot) /\ n = g - k
  OBVIOUS
<1>1. PICK won : /\ won \in Payouts(c, a, score, g, n)
                 /\ \A s \in Seats :
                       /\ won[s] \in Nat
                       /\ players'[s].chips = players[s].chips + won[s]
                       /\ players'[s].pendingTopUp = players[s].pendingTopUp
  BY OpenPays
<1>2. /\ players \in [Seats -> Player] /\ players' \in [Seats -> Player] /\ table \in Table
      /\ balance \in [Seats -> Int] /\ house \in Int /\ table.pot \in Nat
      /\ OpenFacts(players, table)
  BY TableFields DEF OpenInv, TypeOK, OpenFacts, Backed
<1>3. a \in SUBSET Seats /\ score \in [a -> Nat]
  BY RulesAssumption DEF InHand
<1>4. k \in 0..g /\ n \in 0..g /\ g \in Nat
  BY <1>2, RakeBounds
<1>5. \A s \in Seats : c[s] \in Nat
  BY <1>2, PlayerFields DEF Contributions, OpenFacts, Sound, Counted
<1>6. SeatSum(c) \in Nat /\ SeatSum(c) <= g
  BY <1>2, <1>5, SeatSumNat DEF Overrecorded
<1>7. SeatSum(won) \in Nat /\ SeatSum(won) <= n
  BY <1>1, <1>3, <1>4, <1>5, <1>6, PaidFromPot
<1>8. table'.pot = 0 /\ house' = house + k /\ balance' = balance
  BY <1>2 DEF Showdown, Table
<1>9. ASSUME NEW s \in Seats
      PROVE  Owned(players', balance')[s] <= Owned(players, balance)[s] + won[s]
  <2>1. /\ players[s].chips \in Int /\ players[s].pendingTopUp \in Int
        /\ balance[s] \in Int /\ won[s] \in Int
    BY <1>1, <1>2, PlayerFields
  <2> QED
    BY <1>1, <1>8, <2>1 DEF Owned
<1>10. table'.pot + SeatSum(won) + house' <= table.pot + house
  BY <1>2, <1>4, <1>7, <1>8
<1>11. \A s \in Seats : won[s] \in Int
  BY <1>1
<1>12. TypeOK
  BY DEF OpenInv
<1> QED
  BY <1>9, <1>10, <1>11, <1>12, Booked

\* A deal takes the blinds from the stacks into the pot (next_hand.lua:258-440).
LEMMA OpenDealMakesNone ==
    ASSUME OpenInv, TypeOK', Deal
    PROVE  Money' <= Money
<1>1. PICK ps, sb, bb : OpenDealt(ps, sb, bb)
  BY OpenDealSeats
<1> PICK small, big : small = Blind(ps[sb], SmallBlind) /\ big = Blind(ps[bb], BigBlind)
  OBVIOUS
<1> DEFINE bets == [s \in Seats |-> IF s = bb THEN big ELSE IF s = sb THEN small ELSE 0]
           got == [s \in Seats |-> bets[s] * (-1)]
<1>2. /\ sb \in Seats /\ bb \in Seats /\ sb # bb /\ ps = Kicked(Swept)
      /\ ps \in [Seats -> Player] /\ table'.pot = small + big
  BY <1>1 DEF OpenDealt
<1>3. \A s \in Seats : /\ bets[s] \in Nat
                       /\ players'[s].chips = ps[s].chips - bets[s]
                       /\ players'[s].pendingTopUp = ps[s].pendingTopUp
  BY <1>1, OpenDealFields
<1>4. small \in Int /\ big \in Int
  BY <1>2, <1>3
<1>5. SeatSum(bets) = big + small
  BY <1>2, <1>4, TwoSeats
<1>6. \A s \in Seats : bets[s] \in Int /\ got[s] = bets[s] * (-1)
  BY <1>3
<1> HIDE DEF bets, got
<1>7. SeatSum(got) = SeatSum(bets) * (-1)
  BY <1>6, SeatSumScale
<1>8. /\ players \in [Seats -> Player] /\ table.pot \in Nat /\ house \in Int
      /\ balance \in [Seats -> Int] /\ balance' = balance /\ house' = house
  BY TableFields DEF OpenInv, TypeOK, OpenFacts, Backed, Deal
<1>9. table'.pot + SeatSum(got) + house' <= table.pot + house
  BY <1>2, <1>4, <1>5, <1>7, <1>8
<1>10. ASSUME NEW s \in Seats
       PROVE  Owned(players', balance')[s] <= Owned(players, balance)[s] + got[s]
  <2>1. Swept \in [Seats -> Player]
    BY SweptType DEF OpenInv
  <2> PICK swept : swept = Swept
    OBVIOUS
  <2>2. Worth(ps[s]) = Worth(swept[s]) /\ Worth(swept[s]) = Worth(players[s])
    BY <1>2, <1>8, <2>1, KickedWorth, SweptWorth
  <2>3. ps[s].chips + ps[s].pendingTopUp = players[s].chips + players[s].pendingTopUp
    BY <2>2 DEF Worth
  <2>4. /\ ps[s].chips \in Int /\ ps[s].pendingTopUp \in Int /\ balance[s] \in Int
        /\ players[s].chips \in Int /\ players[s].pendingTopUp \in Int
    BY <1>2, <1>8, PlayerFields
  <2>5. /\ Owned(players', balance')[s]
             = players'[s].chips + players'[s].pendingTopUp + balance[s]
        /\ Owned(players, balance)[s]
             = players[s].chips + players[s].pendingTopUp + balance[s]
    BY <1>8 DEF Owned
  <2> QED
    BY <1>3, <1>6, <2>3, <2>4, <2>5
<1>11. \A s \in Seats : got[s] \in Int
  BY <1>6
<1>12. TypeOK
  BY DEF OpenInv
<1> QED
  BY <1>9, <1>10, <1>11, <1>12, Booked

\* A request that gives no seat and its wallet more than they had makes no money.
LEMMA NoSeatGains ==
    ASSUME TypeOK, TypeOK', table' = table, house' = house,
           \A s \in Seats : Owned(players', balance')[s] <= Owned(players, balance)[s]
    PROVE  Money' <= Money
<1> DEFINE got == [s \in Seats |-> 0]
<1>1. /\ players \in [Seats -> Player] /\ players' \in [Seats -> Player]
      /\ balance \in [Seats -> Int] /\ balance' \in [Seats -> Int]
      /\ table.pot \in Int /\ house \in Int
  BY TableFields DEF TypeOK
<1>2. \A s \in Seats : Owned(players, balance)[s] \in Int /\ Owned(players', balance')[s] \in Int
  BY <1>1, PlayerFields DEF Owned
<1>3. \A s \in Seats : /\ got[s] \in Int /\ got[s] = got[s] * 0
                       /\ Owned(players', balance')[s] <= Owned(players, balance)[s] + got[s]
  BY <1>2
<1> HIDE DEF got
<1>4. SeatSum(got) = SeatSum(got) * 0 /\ SeatSum(got) \in Int
  BY <1>3, SeatSumScale, SeatSumType
<1>5. table'.pot + SeatSum(got) + house' <= table.pot + house
  BY <1>1, <1>4
<1> QED
  BY <1>3, <1>5, Booked

\* What a newcomer brings is what his wallet loses (join_table.lua).
LEMMA JoinMakesNone ==
    ASSUME OpenInv, TypeOK', NEW s \in Seats, NEW buyIn \in MinBuyIn..MaxBuyIn, Join(s, buyIn)
    PROVE  Money' <= Money
<1> DEFINE new == Newcomer(buyIn)
           seated == [players EXCEPT ![s] = new]
           starts == /\ table.phase = "waiting"
                     /\ Cardinality({r \in Seats : Playable(seated[r])}) >= 2
<1>1. /\ players \in [Seats -> Player] /\ OpenFacts(players, table) /\ TypeOK
      /\ balance \in [Seats -> Int] /\ table' = table /\ house' = house
      /\ balance' = [balance EXCEPT ![s] = @ - buyIn]
  BY DEF OpenInv, TypeOK, Join
<1>2. players' = [r \in Seats |->
            IF starts /\ seated[r].status = "waiting"
              THEN [seated[r] EXCEPT !.status = "active"] ELSE seated[r]]
  BY DEF Join, Newcomer
<1>3. buyIn \in Nat
  BY StakesAssumption
<1>4. new \in Player /\ new.chips = buyIn /\ new.pendingTopUp = 0
  BY <1>3, NewcomerFields
<1> HIDE DEF starts, new
<1>5. ASSUME NEW r \in Seats
      PROVE  /\ players'[r].chips = seated[r].chips
             /\ players'[r].pendingTopUp = seated[r].pendingTopUp
  <2>1. PICK n, q : n = seated[r] /\ q = players'[r]
    OBVIOUS
  <2>2. n \in Player /\ (q = n \/ q = [n EXCEPT !.status = "active"])
    BY <1>1, <1>2, <1>4, <2>1
  <2>3. q.chips = n.chips /\ q.pendingTopUp = n.pendingTopUp
    BY <2>2 DEF Player
  <2> QED
    BY <2>1, <2>3
<1>6. ASSUME NEW r \in Seats
      PROVE  Owned(players', balance')[r] <= Owned(players, balance)[r]
  <2>1. /\ players[r].chips \in Int /\ players[r].chips >= 0
        /\ players[r].pendingTopUp \in Nat /\ balance[r] \in Int
    BY <1>1, PlayerFields DEF OpenFacts, Sound
  <2>2. CASE r = s
    <3>1. seated[r] = new /\ balance'[r] = balance[r] - buyIn
      BY <1>1, <2>2
    <3> QED
      BY <1>3, <1>4, <1>5, <2>1, <3>1 DEF Owned
  <2>3. CASE r # s
    <3>1. seated[r] = players[r] /\ balance'[r] = balance[r]
      BY <1>1, <2>3
    <3> QED
      BY <1>5, <2>1, <3>1 DEF Owned
  <2> QED
    BY <2>2, <2>3
<1> QED
  BY <1>1, <1>6, NoSeatGains

\* Who leaves takes his stack to his wallet and forfeits what was set aside; the last player
\* left takes the pot (leave_table.lua).
LEMMA LeaveMakesNone ==
    ASSUME OpenInv, TypeOK', NEW s \in Seats, Leave(s)
    PROVE  Money' <= Money
<1> DEFINE left == [players EXCEPT ![s] = Vacant]
           alone == Cardinality(Seated(left)) = 1
<1>1. /\ players \in [Seats -> Player] /\ OpenFacts(players, table) /\ TypeOK
      /\ balance \in [Seats -> Int] /\ house' = house /\ house \in Int
      /\ table \in Table /\ table.pot \in Nat
      /\ balance' = [balance EXCEPT ![s] = @ + players[s].chips]
  <2>1. /\ balance' = [balance EXCEPT ![s] = @ + players[s].chips]
        /\ UNCHANGED <<house, reply>>
    BY DEF Leave
  <2>2. TypeOK /\ OpenFacts(players, table)
    BY DEF OpenInv
  <2>3. table \in Table /\ table.pot \in Int /\ table.pot >= 0
    BY <2>2, TableFields DEF TypeOK, OpenFacts, Backed
  <2> QED
    BY <2>1, <2>2, <2>3 DEF TypeOK
<1>2. players' = [r \in Seats |->
            IF alone /\ r \in Seated(left)
              THEN [left[r] EXCEPT !.chips = @ + Larger(0, table.pot),
                                   !.status = "waiting", !.cards = FALSE]
              ELSE left[r]]
  BY DEF Leave
<1>3. table' = IF alone THEN [table EXCEPT !.pot = 0, !.phase = "waiting",
                                           !.turnSeat = NoSeat, !.currentBet = 0]
                        ELSE table
  BY DEF Leave
<1>4. /\ Vacant \in Player /\ Vacant.chips = 0 /\ Vacant.pendingTopUp = 0
      /\ Vacant.status = "empty"
  BY VacantType DEF Vacant
<1>5. ASSUME NEW r \in Seats
      PROVE  /\ Owned(left, balance')[r] <= Owned(players, balance)[r]
             /\ left[r] \in Player /\ left[r].chips \in Int /\ left[r].pendingTopUp \in Int
             /\ Owned(left, balance')[r] = left[r].chips + left[r].pendingTopUp + balance'[r]
             /\ balance'[r] \in Int
  <2>1. players[r].chips \in Int /\ players[r].pendingTopUp \in Nat /\ balance[r] \in Int
    BY <1>1, PlayerFields
  <2>2. CASE r = s
    <3>1. left[r] = Vacant /\ balance'[r] = balance[r] + players[r].chips
      BY <1>1, <2>2
    <3> QED
      BY <1>4, <2>1, <3>1 DEF Owned
  <2>3. CASE r # s
    <3>1. left[r] = players[r] /\ balance'[r] = balance[r]
      BY <1>1, <2>3
    <3> QED
      BY <1>1, <2>1, <3>1 DEF Owned
  <2> QED
    BY <2>2, <2>3
<1>6. Seated(left) \in SUBSET Seats
  BY DEF Seated
<1> HIDE DEF left, alone
<1>7. CASE ~alone
  <2>1. players' = left /\ table' = table
    BY <1>1, <1>2, <1>3, <1>7 DEF left
  <2>2. \A r \in Seats : Owned(players', balance')[r] <= Owned(players, balance)[r]
    BY <1>5, <2>1
  <2> QED
    BY <1>1, <2>1, <2>2, NoSeatGains
<1>8. CASE alone
  <2>1. PICK last \in Seats : Seated(left) = {last}
    <3>1. IsFiniteSet(Seats)
      BY SeatsFinite
    <3>2. IsFiniteSet(Seated(left))
      BY <1>6, <3>1, FS_Subset
    <3>3. PICK x : Seated(left) = {x}
      BY <1>8, <3>2, FS_Singleton DEF alone
    <3> QED
      BY <1>6, <3>3
  <2> DEFINE got == [r \in Seats |-> IF r = last THEN table.pot ELSE 0]
  <2>2. table'.pot = 0
    BY <1>1, <1>3, <1>8 DEF Table
  <2>3. SeatSum(got) = table.pot
    <3>1. got[last] = table.pot /\ got[last] \in Int /\ \A r \in Seats \ {last} : got[r] = 0
      BY <1>1
    <3> HIDE DEF got
    <3> QED
      BY <3>1, SeatSumSingle
  <2>4. ASSUME NEW r \in Seats
        PROVE  /\ got[r] \in Int
               /\ Owned(players', balance')[r] <= Owned(players, balance)[r] + got[r]
    <3>1. PICK p, q, k : p = left[r] /\ q = players'[r] /\ k = Larger(0, table.pot)
      OBVIOUS
    <3>2. k = table.pot /\ k \in Int
      BY <1>1, <3>1 DEF Larger
    <3>3. /\ p \in Player /\ p.chips \in Int /\ p.pendingTopUp \in Int /\ balance'[r] \in Int
          /\ Owned(left, balance')[r] = p.chips + p.pendingTopUp + balance'[r]
          /\ Owned(players, balance)[r] \in Int
      BY <1>1, <1>5, <3>1, PlayerFields DEF Owned
    <3>4. q = IF r = last
                THEN [p EXCEPT !.chips = @ + k, !.status = "waiting", !.cards = FALSE] ELSE p
      BY <1>2, <1>8, <2>1, <3>1
    <3>5. q.chips = p.chips + got[r] /\ q.pendingTopUp = p.pendingTopUp
      BY <3>2, <3>3, <3>4 DEF Player
    <3>6. Owned(players', balance')[r] = q.chips + q.pendingTopUp + balance'[r]
      BY <3>1 DEF Owned
    <3>7. got[r] \in Int
      BY <1>1
    <3> HIDE DEF got
    <3> QED
      BY <1>5, <3>3, <3>5, <3>6, <3>7
  <2> HIDE DEF got
  <2>5. table'.pot + SeatSum(got) + house' <= table.pot + house
    BY <1>1, <2>2, <2>3
  <2> QED
    BY <1>1, <2>4, <2>5, Booked
<1> QED
  BY <1>7, <1>8

\* The other requests move chips from a wallet to its seat, or none at all.
LEMMA RequestMakesNone ==
    ASSUME OpenInv, TypeOK', NEW s \in Seats,
           \/ ToggleSitOut(s)
           \/ \E amount \in Deposits : AddChips(s, amount) \/ AddChipsVault(s, amount)
           \/ SetOffline(s) \/ SetOnline(s) \/ ToggleLnbb(s)
    PROVE  Money' <= Money
<1>1. /\ players \in [Seats -> Player] /\ balance \in [Seats -> Int] /\ TypeOK
      /\ table' = table /\ house' = house
  BY DEF OpenInv, TypeOK, ToggleSitOut, AddChips, AddChipsVault, SetOffline, SetOnline,
         ToggleLnbb
<1>2. PICK p, q : p = players[s] /\ q = players'[s]
  OBVIOUS
<1>3. /\ p \in Player /\ p.chips \in Int /\ p.pendingTopUp \in Int /\ balance[s] \in Int
  BY <1>1, <1>2, PlayerFields
<1>4. \E amount \in Int :
         /\ players' = [players EXCEPT ![s] = q]
         /\ q.chips + q.pendingTopUp = p.chips + p.pendingTopUp + amount
         /\ balance' = [balance EXCEPT ![s] = @ - amount]
  <2> DEFINE Same == q.chips = p.chips /\ q.pendingTopUp = p.pendingTopUp
  <2>1. ASSUME players' = [players EXCEPT ![s] = q], balance' = balance, Same
        PROVE  \E amount \in Int :
                 /\ players' = [players EXCEPT ![s] = q]
                 /\ q.chips + q.pendingTopUp = p.chips + p.pendingTopUp + amount
                 /\ balance' = [balance EXCEPT ![s] = @ - amount]
    <3>1. balance' = [balance EXCEPT ![s] = @ - 0]
      BY <1>1, <1>3, <2>1
    <3>2. q.chips + q.pendingTopUp = p.chips + p.pendingTopUp + 0
      BY <1>3, <2>1
    <3>3. 0 \in Int
      OBVIOUS
    <3> QED
      BY <2>1, <3>1, <3>2, <3>3
  <2>2. ASSUME ToggleSitOut(s)
        PROVE  players' = [players EXCEPT ![s] = q] /\ balance' = balance /\ Same
    <3>1. /\ players' = [players EXCEPT ![s] = q] /\ balance' = balance
          /\ \/ q = [p EXCEPT !.sitOutNextHand = ~@]
             \/ q = [p EXCEPT !.status = "sitting_out", !.sitOutNextHand = FALSE]
             \/ q = [p EXCEPT !.status = "waiting", !.sitOutNextHand = FALSE]
      BY <1>1, <1>2, <2>2 DEF ToggleSitOut
    <3> QED
      BY <1>3, <3>1 DEF Player
  <2>3. ASSUME SetOffline(s) \/ SetOnline(s) \/ ToggleLnbb(s)
        PROVE  players' = [players EXCEPT ![s] = q] /\ balance' = balance /\ Same
    <3>1. /\ players' = [players EXCEPT ![s] = q] /\ balance' = balance
          /\ \/ q = [p EXCEPT !.offline = TRUE]
             \/ q = [p EXCEPT !.leaveNextBB = ~@]
             \/ q = [p EXCEPT !.offline = FALSE,
                              !.status = IF @ = "sitting_out" THEN "waiting" ELSE @]
      BY <1>1, <1>2, <2>3 DEF SetOffline, SetOnline, ToggleLnbb
    <3> QED
      BY <1>3, <3>1 DEF Player
  <2>4. ASSUME NEW amount \in Deposits, AddChips(s, amount) \/ AddChipsVault(s, amount)
        PROVE  /\ players' = [players EXCEPT ![s] = q] /\ amount \in Int
               /\ q.chips + q.pendingTopUp = p.chips + p.pendingTopUp + amount
               /\ balance' = [balance EXCEPT ![s] = @ - amount]
    <3>1. amount \in Int
      BY BoundsAssumption
    <3>2. CASE AddChips(s, amount)
      <4>1. /\ players' = [players EXCEPT ![s] = q]
            /\ q = [p EXCEPT !.chips = @ + amount, !.status = "waiting"]
            /\ balance' = [balance EXCEPT ![s] = @ - amount]
        BY <1>1, <1>2, <3>2 DEF AddChips
      <4>2. q.chips = p.chips + amount /\ q.pendingTopUp = p.pendingTopUp
        BY <1>3, <4>1 DEF Player
      <4> QED
        BY <1>3, <3>1, <4>1, <4>2
    <3>3. CASE AddChipsVault(s, amount)
      <4>1. /\ players' = [players EXCEPT ![s] = q]
            /\ \/ q = [p EXCEPT !.pendingTopUp = @ + amount]
               \/ q = [p EXCEPT !.chips = @ + amount,
                                !.status = IF p.chips = 0 THEN "waiting" ELSE @]
            /\ balance' = [balance EXCEPT ![s] = @ - amount]
        BY <1>1, <1>2, <3>3 DEF AddChipsVault
      <4>2. \/ q.chips = p.chips /\ q.pendingTopUp = p.pendingTopUp + amount
            \/ q.chips = p.chips + amount /\ q.pendingTopUp = p.pendingTopUp
        BY <1>3, <4>1 DEF Player
      <4> QED
        BY <1>3, <3>1, <4>1, <4>2
    <3> QED
      BY <2>4, <3>2, <3>3
  <2> HIDE DEF Same
  <2> QED
    BY <2>1, <2>2, <2>3, <2>4
<1>5. PICK amount \in Int :
         /\ players' = [players EXCEPT ![s] = q]
         /\ q.chips + q.pendingTopUp = p.chips + p.pendingTopUp + amount
         /\ balance' = [balance EXCEPT ![s] = @ - amount]
  BY <1>4
<1>6. ASSUME NEW r \in Seats
      PROVE  Owned(players', balance')[r] <= Owned(players, balance)[r]
  <2>1. /\ players[r].chips \in Int /\ players[r].pendingTopUp \in Int /\ balance[r] \in Int
    BY <1>1, PlayerFields
  <2>2. q.chips \in Int /\ q.pendingTopUp \in Int
    BY <1>2, PlayerFields DEF TypeOK
  <2>3. CASE r = s
    <3>1. players'[r] = q /\ players[r] = p /\ balance'[r] = balance[r] - amount
      BY <1>1, <1>2, <1>5, <2>3
    <3> QED
      BY <1>3, <1>5, <2>1, <2>2, <3>1 DEF Owned
  <2>4. CASE r # s
    <3>1. players'[r] = players[r] /\ balance'[r] = balance[r]
      BY <1>1, <1>5, <2>4
    <3> QED
      BY <2>1, <3>1 DEF Owned
  <2> QED
    BY <2>3, <2>4
<1> QED
  BY <1>1, <1>6, NoSeatGains

\* No bet, timeout, street, showdown or deal makes money, and nobody makes any by coming,
\* leaving, resting, topping up or dropping off at whatever moment: what the seats own, the
\* wallets, the pot and the house's rake together never grow, unless a showdown divides a
\* pot by records it does not cover or the reset at boot strikes.
THEOREM OpenTableMakesNoMoney ==
    ASSUME MaxActed = 0, WebClient
    PROVE  OpenTable => NoMoneyMade
<1>1. ASSUME OpenInv, OpenInv', [Next]_vars, ~UNCHANGED vars, ~ForceCleanup,
             ~(Judged /\ Overrecorded)
      PROVE  Money' <= Money
  <2>1. TypeOK /\ TypeOK'
    BY <1>1 DEF OpenInv
  <2>2. CASE (\E s \in Seats : Bet(s) \/ Timeout(s)) \/ NextStreet
    <3>1. Money' = Money
      BY <2>1, <2>2, PlayKeepsMoney
    <3>2. Money \in Int
      <4>1. /\ players \in [Seats -> Player] /\ balance \in [Seats -> Int]
            /\ house \in Int /\ table.pot \in Int
        BY <2>1, TableFields DEF TypeOK
      <4>2. SeatSum(Owned(players, balance)) \in Int
        BY <4>1, MoneyIs
      <4> QED
        BY <4>1, <4>2 DEF Money, Owned
    <3> QED
      BY <3>1, <3>2
  <2>3. ASSUME NEW score \in [InHand(players) -> Scores], Showdown(score)
        PROVE  Money' <= Money
    <3>1. Judged
      BY <2>1, <2>3 DEF Showdown, Judged, TypeOK, Table
    <3> QED
      BY <1>1, <2>1, <2>3, <3>1, OpenShowdownMakesNone
  <2>4. CASE NextHand
    BY <1>1, <2>1, <2>4, TooFewMakesNone, OpenDealMakesNone DEF NextHand
  <2>5. CASE SeatNext
    BY <1>1, <2>1, <2>5, JoinMakesNone, LeaveMakesNone, RequestMakesNone DEF SeatNext
  <2> QED
    BY <1>1, <2>2, <2>3, <2>4, <2>5 DEF Next, HandNext
<1>2. OpenInv /\ OpenInv' /\ [Next]_vars
        => [Money' <= Money \/ ForceCleanup \/ (Judged /\ Overrecorded)]_vars
  BY <1>1
<1> QED
  BY <1>2, OpenInvHolds, PTL DEF OpenTable, NoMoneyMade
=============================================================================

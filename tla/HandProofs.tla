----------------------------- MODULE HandProofs -----------------------------
(***************************************************************************)
(* Theorems about hands played at a table whose seats are taken: nobody    *)
(* comes or goes, and bets are those the web client offers.  For any       *)
(* number of seats and hands, any stacks, stakes and rules, and whatever   *)
(* the players do or fail to do.                                           *)
(***************************************************************************)
EXTENDS MCHand, TableEngineProofs

\* Hands follow hands, and nobody makes a seat request.
ClosedTable == DealInit /\ [][HandNext \/ Finished]_vars

(***************************************************************************)
(* The inductive invariant, of the two hashes and of what is due.          *)
(***************************************************************************)
Live == {"active", "all-in"}

\* A seat's record, at table t: nothing is negative, who waits has chips, and who holds
\* cards is in the hand.  In the hand, nobody has bet more than the bet to call, everybody
\* holds cards, and before the flop who has no chips left has a bet that says why.
Fair(p, t) ==
    /\ p.chips >= 0 /\ p.currentBet >= 0 /\ p.totalContribution >= 0
    /\ ~p.offline
    /\ p.status = "waiting" => p.chips > 0
    /\ p.cards => p.status \in Live
    /\ p.status \in Live =>
          /\ p.currentBet <= t.currentBet
          /\ t.phase \in Streets => p.cards
          /\ t.phase = "preflop" =>
                /\ p.chips > 0 \/ p.currentBet > 0
                /\ p.status = "all-in" => p.currentBet > 0

\* The bets on the table of the players in the hand.
LiveBets(ps) == [s \in Seats |-> IF ps[s].status \in Live THEN ps[s].currentBet ELSE 0]

\* The pot covers the bets of the players in the hand, and from the flop on there is a chip
\* in it from the streets before.
Covered(ps, t) ==
    /\ t.currentBet >= 0 /\ t.lastRaiseSize >= 0 /\ t.pot >= 0
    /\ t.phase = "preflop" => t.currentBet > 0
    /\ t.phase \in Streets => t.pot > 0 /\ t.pot >= SeatSum(LiveBets(ps))
    /\ t.phase \in Streets \ {"preflop"} => t.pot > SeatSum(LiveBets(ps))

HandFacts(ps, t) == (\A s \in Seats : Fair(ps[s], t)) /\ Covered(ps, t)

Many(ps) == \E r, s \in InHand(ps) : r # s
AtMostOne(ps) == \A r, s \in InHand(ps) : r = s

\* What is due fits the phase and the number of players in the hand: while a hand is played
\* there are several, and a bet is asked of one who can act.  Between hands one at most is
\* left in the last hand, and he has chips.
DueFits ==
    /\ table.phase \in Streets => reply \in {"play", "street", "runout"} /\ Many(players)
    /\ reply \in {"play", "runout"} => table.phase \in Streets
    /\ reply = "play" => table.turnSeat \in Active(players)
    /\ reply = "showdown" => table.phase = "showdown" /\ Many(players)
    /\ reply \in {"idle", "complete"} => AtMostOne(players)
    /\ table.phase \notin Streets /\ reply = "street" => InHand(players) = {}
    /\ table.phase \notin Streets /\ reply # "showdown" =>
          \A s \in InHand(players) : players[s].chips > 0

HandInv == TypeOK /\ HandFacts(players, table) /\ DueFits /\ RoundBalanced

(***************************************************************************)
(* Records and sums.                                                       *)
(***************************************************************************)

\* The types of the fields the invariant speaks of.
LEMMA FairFields ==
    ASSUME NEW p \in Player
    PROVE  /\ p.chips \in Int /\ p.currentBet \in Int /\ p.totalContribution \in Int
           /\ p.cards \in BOOLEAN /\ p.offline \in BOOLEAN /\ p.usingBank \in BOOLEAN
BY DEF Player

\* Changing a stack, or the time bank, changes nothing else.
LEMMA OneField ==
    ASSUME NEW p \in Player
    PROVE  /\ \A v \in Int : LET q == [p EXCEPT !.chips = v]
              IN  /\ q \in Player /\ q.chips = v /\ q.currentBet = p.currentBet
                  /\ q.totalContribution = p.totalContribution /\ q.status = p.status
                  /\ q.cards = p.cards /\ q.offline = p.offline
           /\ \A v \in Nat : LET q == [p EXCEPT !.timeBank = v, !.usingBank = FALSE]
              IN  /\ q \in Player /\ q.chips = p.chips /\ q.currentBet = p.currentBet
                  /\ q.totalContribution = p.totalContribution /\ q.status = p.status
                  /\ q.cards = p.cards /\ q.offline = p.offline
BY DEF Player

\* The players in the hand, by their status.
LEMMA LiveIs ==
    ASSUME NEW ps, NEW s \in Seats
    PROVE  /\ s \in InHand(ps) <=> ps[s].status \in Live
           /\ s \in Active(ps) => s \in InHand(ps)
BY DEF InHand, Active, Live

\* Bets are whole numbers, and so is their sum.
LEMMA LiveBetsType ==
    ASSUME NEW ps \in [Seats -> Player]
    PROVE  /\ \A s \in Seats : LiveBets(ps)[s] \in Int
           /\ SeatSum(LiveBets(ps)) \in Int
<1>1. \A s \in Seats : LiveBets(ps)[s] \in Int
  BY PlayerFields DEF LiveBets
<1> QED
  BY <1>1, SeatSumType

\* The bets in the hand change by what one seat's bet does.
LEMMA LiveBetsChange ==
    ASSUME NEW ps \in [Seats -> Player], NEW s \in Seats, NEW q \in Player
    PROVE  SeatSum(LiveBets([ps EXCEPT ![s] = q]))
             = SeatSum(LiveBets(ps)) + (IF q.status \in Live THEN q.currentBet ELSE 0)
                 - (IF ps[s].status \in Live THEN ps[s].currentBet ELSE 0)
<1> DEFINE f == LiveBets(ps)
           g == LiveBets([ps EXCEPT ![s] = q])
<1>1. \A r \in Seats : f[r] \in Int /\ g[r] \in Int
  BY PlayerFields DEF LiveBets
<1>2. \A r \in Seats \ {s} : g[r] = f[r]
  BY DEF LiveBets
<1>3. /\ f[s] = IF ps[s].status \in Live THEN ps[s].currentBet ELSE 0
      /\ g[s] = IF q.status \in Live THEN q.currentBet ELSE 0
  BY DEF LiveBets
<1> HIDE DEF f, g
<1>4. SeatSum(g) = SeatSum(f) + g[s] - f[s]
  BY <1>1, <1>2, SeatSumChange
<1> QED
  BY <1>3, <1>4 DEF f, g

\* One player in the hand is not many.
LEMMA Counting ==
    ASSUME NEW ps \in [Seats -> Player]
    PROVE  /\ Cardinality(InHand(ps)) = 1 => \E w \in Seats : InHand(ps) = {w}
           /\ Cardinality(InHand(ps)) # 1 /\ InHand(ps) # {} => Many(ps)
           /\ Cardinality(InHand(ps)) # 1 /\ AtMostOne(ps) => InHand(ps) = {}
<1>1. InHand(ps) \in SUBSET Seats /\ IsFiniteSet(InHand(ps))
  BY SeatSets, SeatsFinite
<1>2. Cardinality(InHand(ps)) = 1 => \E w \in Seats : InHand(ps) = {w}
  BY <1>1, FS_Singleton
<1>3. \A w : Cardinality({w}) = 1
  BY FS_Singleton
<1>4. AtMostOne(ps) => InHand(ps) = {} \/ \E w : InHand(ps) = {w}
  BY DEF AtMostOne
<1> QED
  BY <1>2, <1>3, <1>4 DEF Many, AtMostOne

(***************************************************************************)
(* What a bet is, when the web client makes it.                            *)
(***************************************************************************)

\* The record of a player who has moved chips into the pot.
LEMMA PutFields ==
    ASSUME NEW p \in Player, NEW chips \in Int, NEW status \in Statuses
    PROVE  /\ Put(p, chips, status) \in Player
           /\ Put(p, chips, status).chips = p.chips - chips
           /\ Put(p, chips, status).currentBet = p.currentBet + chips
           /\ Put(p, chips, status).totalContribution = p.totalContribution + chips
           /\ Put(p, chips, status).status = status
           /\ Put(p, chips, status).cards = p.cards
           /\ Put(p, chips, status).offline = p.offline
<1>1. Put(p, chips, status) \in Player
  BY PutType
<1> QED
  BY <1>1 DEF Put, Player

\* The same record with another contribution.
LEMMA TotalFields ==
    ASSUME NEW p \in Player, NEW total \in Int, NEW q,
           q = [p EXCEPT !.totalContribution = total]
    PROVE  /\ q \in Player /\ q.totalContribution = total
           /\ q.chips = p.chips /\ q.currentBet = p.currentBet /\ q.status = p.status
           /\ q.cards = p.cards /\ q.offline = p.offline
BY DEF Player

\* t is the same hand's hash as u, with the same turn.
SameTurn(t, u) ==
    /\ t \in Table
    /\ t.phase = u.phase /\ t.turnSeat = u.turnSeat /\ t.handNumber = u.handNumber

\* Counting a move changes nothing else.
LEMMA ActedFields ==
    ASSUME NEW t \in Table, NEW aggressive \in BOOLEAN
    PROVE  /\ SameTurn(Acted(t, aggressive), t)
           /\ Acted(t, aggressive).pot = t.pot
           /\ Acted(t, aggressive).currentBet = t.currentBet
           /\ Acted(t, aggressive).lastRaiseSize = t.lastRaiseSize
<1>1. Acted(t, aggressive) \in Table
  BY ActedType
<1> QED
  BY <1>1 DEF Acted, Table, SameTurn

\* The pot, the bet to call and the raise, set.
Staked(a, pot, bet, raise) ==
    [a EXCEPT !.pot = pot, !.currentBet = bet, !.lastRaiseSize = raise]

LEMMA StakesFields ==
    ASSUME NEW u, NEW a, SameTurn(a, u), NEW pot \in Int, NEW bet \in Int, NEW raise \in Int
    PROVE  /\ SameTurn(Staked(a, pot, bet, raise), u)
           /\ Staked(a, pot, bet, raise).pot = pot
           /\ Staked(a, pot, bet, raise).currentBet = bet
           /\ Staked(a, pot, bet, raise).lastRaiseSize = raise
<1> DEFINE t == [a EXCEPT !.pot = pot, !.currentBet = bet, !.lastRaiseSize = raise]
<1>1. a \in Table
  BY DEF SameTurn
<1>2. /\ t.pot = pot /\ t.currentBet = bet /\ t.lastRaiseSize = raise
      /\ t.phase = a.phase /\ t.turnSeat = a.turnSeat /\ t.handNumber = a.handNumber
  BY <1>1 DEF Table
<1>3. t \in Table
  <2> DEFINE q == [[[a EXCEPT !.pot = pot] EXCEPT !.currentBet = bet]
                     EXCEPT !.lastRaiseSize = raise]
  <2>1. t = q
    BY <1>1 DEF Table
  <2>2. q \in Table
    BY <1>1, TableUpdates, Zenon
  <2> QED
    BY <2>1, <2>2
<1> QED
  BY <1>2, <1>3 DEF SameTurn, Staked

\* The player at seat s has moved put chips into the pot: p is his record then, t the table.
Puts(s, p, t, put) ==
    /\ p \in Player /\ put \in Nat /\ SameTurn(t, table)
    /\ p.chips = players[s].chips - put /\ p.chips >= 0
    /\ p.currentBet = players[s].currentBet + put
    /\ p.totalContribution \in {players[s].totalContribution,
                                players[s].totalContribution + put}
    /\ p.offline = players[s].offline
    /\ t.pot = table.pot + put
    /\ t.currentBet >= table.currentBet /\ t.lastRaiseSize >= 0
    /\ \/ p.status = "folded" /\ ~p.cards /\ put = 0
       \/ /\ p.status = "active" /\ p.cards = players[s].cards
          /\ p.chips > 0 \/ put = 0
          /\ p.currentBet <= t.currentBet
       \/ /\ p.status = "all-in" /\ p.cards = players[s].cards
          /\ p.chips = 0
          /\ p.currentBet <= t.currentBet

\* Nor is his contribution forgotten, but for a raise on his time bank; and only who folds
\* is out.
Records(s, p, put) ==
    /\ (~\E amount \in 0..MaxAmount : players[s].usingBank /\ Raise(s, amount))
          => p.totalContribution = players[s].totalContribution + put
    /\ p.status = "folded" => Fold(s) \/ TimeoutFold(s)

\* The player at seat s can meet what a bet asks of him: nothing is negative, and he has bet
\* no more than the bet to call.
InOrder(s) ==
    /\ players[s].chips >= 0 /\ players[s].totalContribution >= 0 /\ players[s].currentBet >= 0
    /\ players[s].currentBet <= table.currentBet
    /\ table.pot >= 0 /\ table.lastRaiseSize >= 0

\* A bet that the web client makes moves chips the player has, and never lowers the bet to
\* call (bet.lua's branches).
LEMMA BetPuts ==
    ASSUME TypeOK, WebClient, NEW s \in Seats, Bet(s), InOrder(s)
    PROVE  \E p, t, put : AfterBet(s, p, t) /\ Puts(s, p, t, put) /\ Records(s, p, put)
<1> DEFINE own == players[s]
<1>1. own \in Player /\ table \in Table
  BY DEF TypeOK
<1>2. own.status = "active"
  BY DEF Bet, Fold, Check, Call, AllIn, Raise, MayBet
<1>3. /\ own.chips \in Nat /\ own.currentBet \in Nat /\ own.totalContribution \in Nat
      /\ table.pot \in Nat /\ table.currentBet \in Nat /\ table.lastRaiseSize \in Nat
      /\ own.currentBet <= table.currentBet
  BY <1>1, PlayerFields, TableFields DEF InOrder
<1>4. CASE Fold(s)
  <2> DEFINE p == [own EXCEPT !.status = "folded", !.cards = FALSE]
             t == Acted(table, FALSE)
  <2>1. AfterBet(s, p, t)
    BY <1>4 DEF Fold
  <2>2. /\ p \in Player /\ p.status = "folded" /\ ~p.cards /\ p.offline = own.offline
        /\ p.chips = own.chips /\ p.currentBet = own.currentBet
        /\ p.totalContribution = own.totalContribution
    <3>1. p = [[own EXCEPT !.status = "folded"] EXCEPT !.cards = FALSE]
      BY <1>1 DEF Player
    <3>2. p \in Player
      BY <1>1, <3>1, PlayerUpdates, Names
    <3> QED
      BY <1>1, <3>1, <3>2 DEF Player
  <2>3. /\ SameTurn(t, table) /\ t.pot = table.pot /\ t.currentBet = table.currentBet
        /\ t.lastRaiseSize = table.lastRaiseSize
    BY <1>1, ActedFields
  <2> HIDE DEF p, t
  <2>4. Puts(s, p, t, 0) /\ Records(s, p, 0)
    BY <1>3, <1>4, <2>2, <2>3 DEF Puts, Records
  <2> QED
    BY <2>1, <2>4
<1>5. CASE Check(s)
  <2> DEFINE t == Acted(table, FALSE)
  <2>1. AfterBet(s, own, t)
    BY <1>5 DEF Check
  <2>2. /\ SameTurn(t, table) /\ t.pot = table.pot /\ t.currentBet = table.currentBet
        /\ t.lastRaiseSize = table.lastRaiseSize
    BY <1>1, ActedFields
  <2> HIDE DEF t
  <2>3. Puts(s, own, t, 0) /\ Records(s, own, 0)
    BY <1>1, <1>2, <1>3, <2>2 DEF Puts, Records
  <2> QED
    BY <2>1, <2>3
<1>6. CASE Call(s)
  <2> DEFINE put == Called(s)
             status == IF own.chips = put THEN "all-in" ELSE "active"
             a == Acted(table, FALSE)
             p == Put(own, put, status)
             t == [a EXCEPT !.pot = @ + put]
  <2>1. AfterBet(s, p, t) /\ ToCall(s) > 0
    BY <1>6 DEF Call
  <2>2. /\ put \in Nat /\ put <= own.chips
        /\ own.currentBet + put <= table.currentBet
    BY <1>3, <2>1 DEF Called, ToCall, Smaller
  <2>3. status \in Statuses
    BY Names
  <2> HIDE DEF put
  <2>4. /\ p \in Player /\ p.chips = own.chips - put /\ p.currentBet = own.currentBet + put
        /\ p.totalContribution = own.totalContribution + put
        /\ p.status = status /\ p.cards = own.cards /\ p.offline = own.offline
    <3> HIDE DEF status
    <3> QED
      BY <1>1, <2>2, <2>3, PutFields
  <2>5. /\ SameTurn(t, table) /\ t.pot = table.pot + put
        /\ t.currentBet = table.currentBet /\ t.lastRaiseSize = table.lastRaiseSize
    <3>1. /\ SameTurn(a, table) /\ a.pot = table.pot /\ a.currentBet = table.currentBet
          /\ a.lastRaiseSize = table.lastRaiseSize
      BY <1>1, ActedFields
    <3> HIDE DEF a
    <3>2. a.pot + put \in Int /\ a.currentBet \in Int /\ a.lastRaiseSize \in Int
      BY <1>3, <2>2, <3>1
    <3>3. t = Staked(a, a.pot + put, a.currentBet, a.lastRaiseSize)
      BY <3>1 DEF SameTurn, Table, Staked
    <3> HIDE DEF t
    <3>4. /\ SameTurn(t, table) /\ t.pot = a.pot + put
          /\ t.currentBet = a.currentBet /\ t.lastRaiseSize = a.lastRaiseSize
      BY <1>1, <3>1, <3>2, <3>3, StakesFields
    <3> QED
      BY <3>1, <3>4
  <2> HIDE DEF p, t
  <2>6. Puts(s, p, t, put) /\ Records(s, p, put)
    BY <1>3, <2>2, <2>4, <2>5 DEF Puts, Records
  <2> QED
    BY <2>1, <2>6
<1>7. CASE AllIn(s)
  <2> DEFINE put == own.chips
             p == Put(own, put, "all-in")
             raises == p.currentBet > table.currentBet
             a == Acted(table, raises)
             pot == table.pot + put
             bet == IF raises THEN p.currentBet ELSE table.currentBet
             raise == IF raises THEN p.currentBet - table.currentBet ELSE table.lastRaiseSize
             t == [a EXCEPT
                     !.pot = @ + put,
                     !.currentBet = IF raises THEN p.currentBet ELSE @,
                     !.lastRaiseSize = IF raises THEN p.currentBet - table.currentBet ELSE @]
  <2>1. AfterBet(s, p, t)
    BY <1>7 DEF AllIn
  <2>2. /\ p \in Player /\ p.chips = 0 /\ p.currentBet = own.currentBet + put
        /\ p.totalContribution = own.totalContribution + put
        /\ p.status = "all-in" /\ p.cards = own.cards /\ p.offline = own.offline
    <3>1. "all-in" \in Statuses /\ put \in Int /\ own.chips - put = 0
      BY <1>3, Names
    <3> QED
      BY <1>1, <3>1, PutFields
  <2> HIDE DEF p
  <2>3. pot \in Int /\ bet \in Int /\ raise \in Int
    BY <1>3, <2>2
  <2>4. /\ bet >= table.currentBet /\ raise >= 0 /\ own.currentBet + put <= bet
    BY <1>3, <2>2
  <2>5. raises \in BOOLEAN
    OBVIOUS
  <2>6. /\ SameTurn(t, table) /\ t.pot = pot /\ t.currentBet = bet /\ t.lastRaiseSize = raise
    <3>1. /\ SameTurn(a, table) /\ a.pot = table.pot /\ a.currentBet = table.currentBet
          /\ a.lastRaiseSize = table.lastRaiseSize
      <4> HIDE DEF raises
      <4> QED
        BY <1>1, <2>5, ActedFields
    <3> HIDE DEF a
    <3>2. t = Staked(a, pot, bet, raise)
      <4> HIDE DEF raises
      <4> QED
        BY <3>1 DEF SameTurn, Table, Staked
    <3> HIDE DEF pot, bet, raise, t
    <3> QED
      BY <1>1, <2>3, <3>1, <3>2, StakesFields
  <2> HIDE DEF t, bet, raise, raises, a
  <2>7. Puts(s, p, t, put) /\ Records(s, p, put)
    BY <1>3, <2>2, <2>4, <2>6 DEF Puts, Records
  <2> QED
    BY <2>1, <2>7
<1>8. ASSUME NEW amount \in 0..MaxAmount, Raise(s, amount)
      PROVE  \E p, t, put : AfterBet(s, p, t) /\ Puts(s, p, t, put) /\ Records(s, p, put)
  <2> DEFINE cap == Capped(s, amount)
             put == IF cap >= own.chips THEN own.chips ELSE cap - own.currentBet
             bet == own.currentBet + put
             status == IF own.chips = put THEN "all-in" ELSE "active"
             raised == Put(own, put, status)
             recorded == IF own.usingBank THEN own.totalContribution
                                          ELSE raised.totalContribution
             a == Acted(table, TRUE)
             pot == table.pot + put
             raise == IF bet > table.currentBet THEN bet - table.currentBet
                                                ELSE table.lastRaiseSize
             p == [raised EXCEPT !.totalContribution = recorded]
             t == [a EXCEPT !.pot = @ + put, !.currentBet = bet,
                            !.lastRaiseSize = IF bet > table.currentBet
                                                THEN bet - table.currentBet ELSE @]
  <2>1. /\ AfterBet(s, p, t)
        /\ amount >= table.currentBet + table.lastRaiseSize /\ amount < own.chips
    BY <1>8 DEF Raise, Offered
  <2>2. amount \in Nat
    BY BoundsAssumption
  <2>3. cap \in Nat /\ cap < own.chips /\ table.currentBet <= cap
    <3>1. CASE PotLimit
      <4> DEFINE room == table.pot + 2 * ToCall(s) + own.currentBet
                 all == own.chips + own.currentBet
      <4>1. room \in Int /\ all \in Int /\ table.currentBet <= room /\ table.currentBet <= all
        BY <1>3, <2>1, <2>2 DEF ToCall
      <4>2. cap = Smaller(amount, Smaller(room, all))
        BY <3>1 DEF Capped
      <4> HIDE DEF room, all, cap
      <4> QED
        BY <1>3, <2>1, <2>2, <4>1, <4>2 DEF Smaller
    <3>2. CASE ~PotLimit
      BY <1>3, <2>1, <2>2, <3>2 DEF Capped
    <3> QED
      BY <3>1, <3>2
  <2> HIDE DEF cap
  <2>4. /\ put \in Nat /\ put <= own.chips /\ bet \in Nat /\ table.currentBet <= bet
    BY <1>3, <2>3
  <2> HIDE DEF put
  <2>5. status \in Statuses
    BY Names
  <2>6. /\ p \in Player /\ p.chips = own.chips - put /\ p.currentBet = bet
        /\ p.status = status /\ p.cards = own.cards /\ p.offline = own.offline
        /\ p.totalContribution = IF own.usingBank THEN own.totalContribution
                                   ELSE own.totalContribution + put
    <3> HIDE DEF status
    <3>1. /\ raised \in Player /\ raised.chips = own.chips - put /\ raised.currentBet = bet
          /\ raised.totalContribution = own.totalContribution + put
          /\ raised.status = status /\ raised.cards = own.cards /\ raised.offline = own.offline
      BY <1>1, <2>4, <2>5, PutFields
    <3> HIDE DEF raised
    <3>2. recorded \in Int /\ recorded = IF own.usingBank THEN own.totalContribution
                                          ELSE own.totalContribution + put
      BY <1>3, <2>4, <3>1
    <3> HIDE DEF recorded, p
    <3>3. p = [raised EXCEPT !.totalContribution = recorded]
      BY DEF p
    <3>4. /\ p \in Player /\ p.totalContribution = recorded
          /\ p.chips = raised.chips /\ p.currentBet = raised.currentBet
          /\ p.status = raised.status /\ p.cards = raised.cards /\ p.offline = raised.offline
      BY <3>1, <3>2, <3>3, TotalFields
    <3> QED
      BY <3>1, <3>2, <3>4
  <2>7. pot \in Int /\ raise \in Nat
    BY <1>3, <2>4
  <2>8. /\ SameTurn(t, table) /\ t.pot = pot /\ t.currentBet = bet /\ t.lastRaiseSize = raise
    <3>1. /\ SameTurn(a, table) /\ a.pot = table.pot /\ a.currentBet = table.currentBet
          /\ a.lastRaiseSize = table.lastRaiseSize
      BY <1>1, ActedFields
    <3> HIDE DEF a, bet
    <3>2. t = Staked(a, pot, bet, raise)
      BY <3>1 DEF SameTurn, Table, Staked
    <3> HIDE DEF pot, raise, t
    <3> QED
      BY <1>1, <2>4, <2>7, <3>1, <3>2, StakesFields
  <2> HIDE DEF p, t, raise, a
  <2>9. Puts(s, p, t, put)
    BY <1>3, <2>4, <2>6, <2>7, <2>8 DEF Puts
  <2>10. Records(s, p, put)
    BY <1>8, <2>6 DEF Records
  <2> QED
    BY <2>1, <2>9, <2>10
<1> QED
  BY <1>4, <1>5, <1>6, <1>7, <1>8 DEF Bet

(***************************************************************************)
(* What follows a move.                                                    *)
(***************************************************************************)

\* A seat's summand is not more than the sum of naturals.
LEMMA SumAtLeast ==
    ASSUME NEW f, \A s \in Seats : f[s] \in Nat, NEW r \in Seats
    PROVE  f[r] <= SeatSum(f)
<1> DEFINE g == [s \in Seats |-> IF s = r THEN f[r] ELSE 0]
<1>1. SeatSum(g) = f[r]
  <2>1. g[r] = f[r] /\ g[r] \in Int /\ \A s \in Seats \ {r} : g[s] = 0
    OBVIOUS
  <2> HIDE DEF g
  <2> QED
    BY <2>1, SeatSumSingle
<1>2. SeatSum(g) <= SeatSum(f)
  <2>1. \A s \in Seats : g[s] \in Int /\ f[s] \in Int /\ g[s] <= f[s]
    OBVIOUS
  <2> HIDE DEF g
  <2> QED
    BY <2>1, SeatSumOrder
<1> QED
  BY <1>1, <1>2

\* What may be handed back to each seat when the round is over.
Refunds(ps, refund) == \A s \in Seats : refund[s] = 0 \/ refund[s] = Uncalled(ps, s)

\* A refund is a part of the seat's own bet, and leaves it as high as any other.
LEMMA RefundIs ==
    ASSUME NEW ps \in [Seats -> Player], \A s \in Seats : ps[s].currentBet >= 0,
           NEW refund, Refunds(ps, refund), NEW s \in Seats
    PROVE  /\ refund[s] \in Nat /\ refund[s] <= ps[s].currentBet
           /\ refund[s] > 0 =>
                 /\ s \in InHand(ps)
                 /\ \A r \in InHand(ps) \ {s} :
                       ps[r].currentBet <= ps[s].currentBet - refund[s]
<1> DEFINE f == [r \in Seats |-> IF r \in InHand(ps) \ {s} THEN ps[r].currentBet ELSE 0]
<1>1. \A r \in Seats : f[r] \in Int /\ ps[r].currentBet \in Nat
  BY PlayerFields
<1>2. InHand(ps) \in SUBSET Seats
  BY SeatSets
<1>3. \A r \in InHand(ps) \ {s} : f[r] = ps[r].currentBet
  BY <1>2
<1>4. s \in InHand(ps) => Uncalled(ps, s) = Larger(0, ps[s].currentBet - SeatMax(f))
  BY DEF Uncalled
<1>5. s \notin InHand(ps) => Uncalled(ps, s) = 0
  BY DEF Uncalled
<1> HIDE DEF f
<1>6. /\ SeatMax(f) \in Nat
      /\ \A r \in Seats : f[r] <= SeatMax(f)
  BY <1>1, SeatMaxType, SeatMaxIsLargest
<1>7. \A r \in InHand(ps) \ {s} : ps[r].currentBet <= SeatMax(f)
  BY <1>2, <1>3, <1>6
<1>8. refund[s] = 0 \/ refund[s] = Uncalled(ps, s)
  BY DEF Refunds
<1>9. CASE refund[s] = 0
  BY <1>1, <1>9
<1>10. CASE s \in InHand(ps) /\ refund[s] = Larger(0, ps[s].currentBet - SeatMax(f))
  <2>1. refund[s] \in Nat /\ refund[s] <= ps[s].currentBet
        /\ (refund[s] > 0 => SeatMax(f) <= ps[s].currentBet - refund[s])
    BY <1>1, <1>6, <1>10 DEF Larger
  <2>2. ASSUME refund[s] > 0, NEW r \in InHand(ps) \ {s}
        PROVE  ps[r].currentBet <= ps[s].currentBet - refund[s]
    BY <1>1, <1>2, <1>6, <1>7, <2>1, <2>2
  <2> QED
    BY <1>10, <2>1, <2>2
<1> QED
  BY <1>4, <1>5, <1>8, <1>9, <1>10

\* The record of a player who got a part of his bet back.
LEMMA RefundedFields ==
    ASSUME NEW p \in Player, NEW back \in Nat, p.totalContribution >= 0
    PROVE  /\ Refunded(p, back) \in Player
           /\ Refunded(p, back).chips = p.chips + back
           /\ Refunded(p, back).currentBet = p.currentBet - back
           /\ Refunded(p, back).totalContribution >= 0
           /\ Refunded(p, back).status = p.status
           /\ Refunded(p, back).cards = p.cards
           /\ Refunded(p, back).offline = p.offline
<1>1. Refunded(p, back) \in Player
  BY RefundedType
<1> QED
  BY <1>1, PlayerFields DEF Refunded, Player, Larger

\* The two hashes when the round is over and the refunds are given.
Settled(ps, refund) == [s \in Seats |-> Refunded(ps[s], refund[s])]

\* Nobody who can still act has bet less than anybody in the hand.
Balanced(ps) ==
    \A s \in Active(ps), r \in InHand(ps) : ps[r].currentBet <= ps[s].currentBet

\* What is left of the players when a round is over: nobody's bet is above another's who
\* can act, and before the flop nobody in the hand is left without a bet.
LEMMA SettledSeats ==
    ASSUME NEW ps \in [Seats -> Player], NEW t \in Table, HandFacts(ps, t),
           t.phase \in Streets, Many(ps), RoundClosed(ps, t),
           NEW refund, Refunds(ps, refund)
    PROVE  /\ \A s \in Seats :
                 /\ Settled(ps, refund)[s] \in Player
                 /\ Settled(ps, refund)[s].chips = ps[s].chips + refund[s]
                 /\ Settled(ps, refund)[s].currentBet = ps[s].currentBet - refund[s]
                 /\ Settled(ps, refund)[s].status = ps[s].status
                 /\ Settled(ps, refund)[s].cards = ps[s].cards
                 /\ refund[s] \in Nat
                 /\ Fair(Settled(ps, refund)[s], t)
           /\ t.phase = "preflop" =>
                 \A s \in InHand(ps) : Settled(ps, refund)[s].currentBet > 0
           /\ Balanced(Settled(ps, refund))
<1> DEFINE qs == Settled(ps, refund)
<1>1. \A s \in Seats : /\ ps[s] \in Player /\ Fair(ps[s], t)
                       /\ ps[s].chips \in Nat /\ ps[s].currentBet \in Nat
                       /\ ps[s].totalContribution \in Nat /\ t.currentBet \in Int
  BY PlayerFields, TableFields DEF HandFacts, Fair
<1>2. \A s \in Seats :
         /\ refund[s] \in Nat /\ refund[s] <= ps[s].currentBet
         /\ refund[s] > 0 =>
               /\ s \in InHand(ps)
               /\ \A r \in InHand(ps) \ {s} : ps[r].currentBet <= ps[s].currentBet - refund[s]
  BY <1>1, RefundIs
<1>3. \A s \in Seats :
         /\ qs[s] \in Player
         /\ qs[s].chips = ps[s].chips + refund[s]
         /\ qs[s].currentBet = ps[s].currentBet - refund[s]
         /\ qs[s].totalContribution >= 0
         /\ qs[s].status = ps[s].status
         /\ qs[s].cards = ps[s].cards /\ qs[s].offline = ps[s].offline
  <2> SUFFICES ASSUME NEW s \in Seats
               PROVE  /\ qs[s] \in Player
                      /\ qs[s].chips = ps[s].chips + refund[s]
                      /\ qs[s].currentBet = ps[s].currentBet - refund[s]
                      /\ qs[s].totalContribution >= 0
                      /\ qs[s].status = ps[s].status
                      /\ qs[s].cards = ps[s].cards /\ qs[s].offline = ps[s].offline
    OBVIOUS
  <2>1. qs[s] = Refunded(ps[s], refund[s])
    BY DEF Settled
  <2> HIDE DEF qs
  <2>2. PICK p, back : p = ps[s] /\ back = refund[s]
    OBVIOUS
  <2>3. qs[s] = Refunded(p, back)
    BY <2>1, <2>2, Zenon
  <2>4. p \in Player /\ back \in Nat /\ p.totalContribution >= 0
    BY <1>1, <1>2, <2>2
  <2> QED
    BY <2>2, <2>3, <2>4, RefundedFields
<1> HIDE DEF qs
<1>4. InHand(qs) = InHand(ps) /\ Active(qs) = Active(ps)
      /\ InHand(ps) \in SUBSET Seats /\ Active(ps) \in SUBSET InHand(ps)
  BY <1>3 DEF InHand, Active
<1>5. \A s \in InHand(ps) : ps[s].currentBet <= t.currentBet
  BY <1>1, LiveIs DEF Fair, InHand
<1>6. \A s \in Active(ps) : ps[s].currentBet >= t.currentBet
  BY DEF RoundClosed
<1>7. ASSUME t.phase = "preflop", NEW s \in InHand(ps)
      PROVE  ps[s].currentBet > 0 /\ qs[s].currentBet > 0
  <2>1. \A r \in InHand(ps) : ps[r].currentBet > 0
    <3>1. t.currentBet > 0
      BY <1>7 DEF HandFacts, Covered
    <3>2. ASSUME NEW r \in InHand(ps)
          PROVE  r \in Active(ps) \/ ps[r].currentBet > 0
      <4>1. r \in Seats /\ (ps[r].status = "active" \/ ps[r].status = "all-in")
        BY DEF InHand
      <4> QED
        BY <1>1, <1>7, <4>1 DEF Fair, Active, Live
    <3> QED
      BY <1>1, <1>4, <1>6, <3>1, <3>2
  <2>2. PICK r \in InHand(ps) : r # s
    BY DEF Many
  <2> QED
    BY <1>1, <1>2, <1>3, <1>4, <2>1, <2>2
<1>8. ASSUME NEW s \in Seats
      PROVE  Fair(qs[s], t)
  <2>1. /\ ps[s].status \in Live <=> s \in InHand(ps)
        /\ Fair(ps[s], t)
    BY <1>1, LiveIs
  <2>2. /\ qs[s].chips >= ps[s].chips /\ qs[s].currentBet >= 0
        /\ qs[s].currentBet <= ps[s].currentBet /\ qs[s].chips >= 0
        /\ qs[s].chips \in Int /\ qs[s].currentBet \in Int
    BY <1>1, <1>2, <1>3
  <2>3. t.phase = "preflop" /\ s \in InHand(ps) => qs[s].currentBet > 0
    BY <1>7
  <2> QED
    BY <1>1, <1>3, <2>1, <2>2, <2>3 DEF Fair
<1>9. ASSUME NEW s \in Active(ps), NEW r \in InHand(ps)
      PROVE  qs[r].currentBet <= qs[s].currentBet
  <2>1. s \in Seats /\ r \in Seats /\ s \in InHand(ps)
    BY <1>4
  <2>2. ps[s].currentBet = t.currentBet /\ ps[r].currentBet <= t.currentBet
    BY <1>1, <1>5, <1>6, <2>1
  <2>3. qs[r].currentBet <= ps[r].currentBet
    BY <1>1, <1>2, <1>3, <2>1
  <2>4. CASE r = s
    BY <1>1, <1>2, <1>3, <2>1, <2>4
  <2>5. CASE r # s
    <3>1. refund[s] > 0 => ps[r].currentBet <= qs[s].currentBet
      BY <1>2, <1>3, <2>1, <2>5
    <3>2. refund[s] = 0 => qs[s].currentBet = t.currentBet
      BY <1>1, <1>3, <2>1, <2>2
    <3> QED
      BY <1>1, <1>2, <1>3, <2>1, <2>2, <2>3, <3>1, <3>2
  <2> QED
    BY <2>4, <2>5
<1>10. Balanced(qs)
  BY <1>4, <1>9 DEF Balanced
<1> QED
  BY <1>2, <1>3, <1>7, <1>8, <1>10 DEF qs

\* The pot still covers the bets when the refunds are taken out of it.
LEMMA SettledPot ==
    ASSUME NEW ps \in [Seats -> Player], NEW t \in Table, HandFacts(ps, t),
           t.phase \in Streets, Many(ps), RoundClosed(ps, t),
           NEW refund, Refunds(ps, refund),
           NEW u \in Table, u.pot = t.pot - SeatSum(refund),
           u.phase = t.phase, u.currentBet = t.currentBet, u.lastRaiseSize = t.lastRaiseSize
    PROVE  Covered(Settled(ps, refund), u)
<1> DEFINE qs == Settled(ps, refund)
           left == LiveBets(qs)
           bets == LiveBets(ps)
<1>1. \A s \in Seats :
         /\ qs[s] \in Player
         /\ qs[s].currentBet = ps[s].currentBet - refund[s]
         /\ qs[s].status = ps[s].status
         /\ refund[s] \in Nat
         /\ Fair(qs[s], t)
  BY SettledSeats
<1>2. t.phase = "preflop" => \A s \in InHand(ps) : qs[s].currentBet > 0
  BY SettledSeats
<1>3. \A s \in Seats : refund[s] > 0 => ps[s].status \in Live
  <2>1. \A s \in Seats : ps[s].currentBet >= 0
    BY DEF HandFacts, Fair
  <2>2. \A s \in Seats : refund[s] > 0 => s \in InHand(ps)
    BY <2>1, RefundIs
  <2> QED
    BY <2>2, LiveIs
<1> HIDE DEF qs
<1>4. ASSUME NEW s \in Seats
      PROVE  /\ left[s] \in Nat /\ bets[s] \in Int
             /\ bets[s] = left[s] + refund[s]
  <2>1. /\ left[s] = IF qs[s].status \in Live THEN qs[s].currentBet ELSE 0
        /\ bets[s] = IF ps[s].status \in Live THEN ps[s].currentBet ELSE 0
    BY DEF LiveBets
  <2>2. qs[s].currentBet \in Nat /\ ps[s].currentBet \in Int
    BY <1>1, PlayerFields DEF Fair
  <2> QED
    BY <1>1, <1>3, <2>1, <2>2
<1>5. \A s \in Seats : s \in InHand(ps) => left[s] = qs[s].currentBet
  BY <1>1, LiveIs DEF LiveBets
<1> HIDE DEF left, bets
<1>6. SeatSum(bets) = SeatSum(left) + SeatSum(refund)
  BY <1>1, <1>4, SeatSumAdd
<1>7. SeatSum(left) \in Nat /\ SeatSum(refund) \in Nat
  BY <1>1, <1>4, SeatSumNat
<1>8. t.phase = "preflop" => SeatSum(left) > 0
  <2>1. PICK r \in InHand(ps) : r \in Seats
    BY DEF Many, InHand
  <2>2. left[r] <= SeatSum(left)
    BY <1>4, <2>1, SumAtLeast
  <2> QED
    BY <1>2, <1>4, <1>5, <1>7, <2>1, <2>2
<1>9. /\ t.currentBet >= 0 /\ t.lastRaiseSize >= 0 /\ t.pot >= 0
      /\ t.phase = "preflop" => t.currentBet > 0
      /\ t.pot > 0 /\ t.pot >= SeatSum(bets)
      /\ t.phase # "preflop" => t.pot > SeatSum(bets)
      /\ t.pot \in Int
  BY TableFields DEF HandFacts, Covered, bets
<1>10. /\ u.pot >= SeatSum(left)
       /\ u.phase # "preflop" => u.pot > SeatSum(left)
       /\ u.pot \in Int
  BY <1>6, <1>7, <1>9, TableFields
<1>11. u.pot > 0
  BY <1>7, <1>8, <1>10
<1> QED
  BY <1>7, <1>9, <1>10, <1>11 DEF Covered, left, qs

\* What a move leaves, before the script looks what follows: outside the streets at most
\* one player is in the hand, and with the pot he has chips.
Ready(ps, t) ==
    /\ HandFacts(ps, t)
    /\ t.phase \in Streets => InHand(ps) # {}
    /\ t.phase \notin Streets =>
          AtMostOne(ps) /\ \A s \in InHand(ps) : ps[s].chips + t.pot > 0

\* What a step is to keep, besides the types.
Kept == HandFacts(players', table') /\ DueFits' /\ RoundBalanced'

\* A hand that is won leaves one player in it, with the pot.
LEMMA WonKeeps ==
    ASSUME NEW ps \in [Seats -> Player], NEW t \in Table, Ready(ps, t),
           NEW turn \in Seats \cup {NoSeat}, HandWon(ps, t, turn)
    PROVE  Kept
<1>1. /\ Cardinality(InHand(ps)) = 1 /\ reply' = "complete"
      /\ players' = [s \in Seats |->
            IF s \in InHand(ps) THEN [ps[s] EXCEPT !.chips = @ + t.pot] ELSE ps[s]]
      /\ table' = [t EXCEPT !.pot = 0, !.phase = "showdown", !.turnSeat = turn]
  BY DEF HandWon
<1>2. /\ table'.pot = 0 /\ table'.phase = "showdown" /\ table'.currentBet = t.currentBet
      /\ table'.lastRaiseSize = t.lastRaiseSize
  BY <1>1 DEF Table
<1>3. PICK w \in Seats : InHand(ps) = {w}
  BY <1>1, Counting
<1>4. \A s \in Seats : /\ ps[s] \in Player /\ Fair(ps[s], t)
                       /\ ps[s].chips \in Int /\ t.pot \in Int /\ t.pot >= 0
  BY PlayerFields, TableFields DEF Ready, HandFacts, Covered
<1>5. \A s \in Seats :
         /\ players'[s].chips = IF s = w THEN ps[s].chips + t.pot ELSE ps[s].chips
         /\ players'[s].currentBet = ps[s].currentBet
         /\ players'[s].totalContribution = ps[s].totalContribution
         /\ players'[s].status = ps[s].status
         /\ players'[s].cards = ps[s].cards /\ players'[s].offline = ps[s].offline
  <2> SUFFICES ASSUME NEW s \in Seats
               PROVE  /\ players'[s].chips = IF s = w THEN ps[s].chips + t.pot ELSE ps[s].chips
                      /\ players'[s].currentBet = ps[s].currentBet
                      /\ players'[s].totalContribution = ps[s].totalContribution
                      /\ players'[s].status = ps[s].status
                      /\ players'[s].cards = ps[s].cards /\ players'[s].offline = ps[s].offline
    OBVIOUS
  <2>1. players'[s] = IF s = w THEN [ps[s] EXCEPT !.chips = @ + t.pot] ELSE ps[s]
    BY <1>1, <1>3
  <2>2. CASE s = w
    BY <1>4, <2>1, <2>2 DEF Player
  <2>3. CASE s # w
    BY <2>1, <2>3
  <2> QED
    BY <2>2, <2>3
<1>6. InHand(players') = {w}
  <2>1. \A s \in Seats : s \in InHand(players') <=> s \in InHand(ps)
    BY <1>5 DEF InHand
  <2>2. InHand(players') \in SUBSET Seats /\ InHand(ps) \in SUBSET Seats
    BY DEF InHand
  <2> QED
    BY <1>3, <2>1, <2>2
<1>7. players'[w].chips > 0
  <2>1. t.phase \in Streets => t.pot > 0
    BY DEF Ready, HandFacts, Covered
  <2>2. t.phase \notin Streets => ps[w].chips + t.pot > 0
    BY <1>3 DEF Ready
  <2>3. ps[w].chips >= 0
    BY <1>4 DEF Fair
  <2> QED
    BY <1>4, <1>5, <2>1, <2>2, <2>3
<1>8. \A s \in Seats : Fair(players'[s], table')
  <2> SUFFICES ASSUME NEW s \in Seats
               PROVE  Fair(players'[s], table')
    OBVIOUS
  <2>1. /\ players'[s].chips >= 0
        /\ ps[s].chips > 0 => players'[s].chips > 0
    BY <1>4, <1>5 DEF Fair
  <2>2. "showdown" \notin Streets /\ "showdown" # "preflop"
    BY DEF Streets
  <2>3. /\ players'[s].currentBet >= 0 /\ players'[s].totalContribution >= 0
        /\ ~players'[s].offline
        /\ players'[s].status = "waiting" => ps[s].chips > 0
        /\ players'[s].cards => players'[s].status \in Live
        /\ players'[s].status \in Live => players'[s].currentBet <= table'.currentBet
    BY <1>2, <1>4, <1>5 DEF Fair
  <2> QED
    BY <1>2, <2>1, <2>2, <2>3 DEF Fair
<1>9. Covered(players', table')
  BY <1>2 DEF Ready, HandFacts, Covered, Streets
<1> QED
  BY <1>1, <1>2, <1>6, <1>7, <1>8, <1>9
  DEF Kept, HandFacts, DueFits, RoundBalanced, AtMostOne, Streets

\* A round that is over leaves the street due.
LEMMA OverKeeps ==
    ASSUME NEW ps \in [Seats -> Player], NEW t \in Table, Ready(ps, t),
           NEW turn \in Seats \cup {NoSeat}, NEW refund, Refunds(ps, refund),
           RoundOver(ps, t, turn, refund)
    PROVE  Kept
<1>1. /\ Cardinality(InHand(ps)) # 1 /\ RoundClosed(ps, t) /\ reply' = "street"
      /\ players' = Settled(ps, refund)
      /\ table' = [t EXCEPT !.pot = @ - SeatSum(refund), !.turnSeat = turn]
  BY DEF RoundOver, Settled
<1>2. /\ table'.pot = t.pot - SeatSum(refund) /\ table'.phase = t.phase
      /\ table'.currentBet = t.currentBet /\ table'.lastRaiseSize = t.lastRaiseSize
  BY <1>1 DEF Table
<1>3. HandFacts(ps, t)
  BY DEF Ready
<1>4. CASE t.phase \in Streets
  <2>1. Many(ps)
    BY <1>1, <1>4, Counting DEF Ready
  <2>2. /\ \A s \in Seats :
              /\ players'[s].status = ps[s].status
              /\ Fair(players'[s], t)
        /\ Balanced(players')
    BY <1>1, <1>3, <1>4, <2>1, SettledSeats
  <2>3. \A s \in Seats : refund[s] \in Int
    BY <1>1, <1>3, <1>4, <2>1, SettledSeats
  <2>4. table' \in Table
    <3> DEFINE q == [[t EXCEPT !.pot = t.pot - SeatSum(refund)] EXCEPT !.turnSeat = turn]
    <3>1. t.pot - SeatSum(refund) \in Int
      BY <2>3, SeatSumType, TableFields
    <3>2. q \in Table
      BY <3>1, TableUpdates, Zenon
    <3>3. table' = q
      BY <1>1 DEF Table
    <3> QED
      BY <3>2, <3>3
  <2>5. Covered(players', table')
    <3> PICK u : u = table'
      OBVIOUS
    <3>1. u \in Table /\ u.pot = t.pot - SeatSum(refund) /\ u.phase = t.phase
          /\ u.currentBet = t.currentBet /\ u.lastRaiseSize = t.lastRaiseSize
      BY <1>2, <2>4
    <3>2. Covered(Settled(ps, refund), u)
      BY <1>1, <1>3, <1>4, <2>1, <3>1, SettledPot
    <3> QED
      BY <1>1, <3>2
  <2>6. \A s \in Seats : Fair(players'[s], table')
    BY <1>2, <2>2 DEF Fair
  <2>7. InHand(players') = InHand(ps)
    BY <2>2 DEF InHand
  <2>8. Many(players')
    BY <2>1, <2>7 DEF Many
  <2>9. table'.phase \in Streets
    BY <1>2, <1>4
  <2> QED
    BY <1>1, <2>2, <2>5, <2>6, <2>8, <2>9
    DEF Kept, HandFacts, DueFits, RoundBalanced, Balanced
<1>5. CASE t.phase \notin Streets
  <2>1. InHand(ps) = {}
    BY <1>1, <1>5, Counting DEF Ready
  <2>2. \A s \in Seats : refund[s] = 0
    BY <2>1 DEF Refunds, Uncalled
  <2>3. \A s \in Seats : players'[s].status = ps[s].status /\ Fair(players'[s], t)
    <3> SUFFICES ASSUME NEW s \in Seats
                 PROVE  players'[s].status = ps[s].status /\ Fair(players'[s], t)
      OBVIOUS
    <3>1. players'[s] = Refunded(ps[s], 0)
      BY <1>1, <2>2 DEF Settled
    <3>2. ps[s] \in Player /\ Fair(ps[s], t)
      BY <1>3 DEF HandFacts
    <3> PICK p : p = ps[s]
      OBVIOUS
    <3>3. p \in Player /\ Fair(p, t) /\ p.totalContribution >= 0 /\ players'[s] = Refunded(p, 0)
      BY <3>1, <3>2 DEF Fair
    <3>4. /\ players'[s].chips = p.chips + 0
          /\ players'[s].currentBet = p.currentBet - 0
          /\ players'[s].totalContribution >= 0
          /\ players'[s].status = p.status
          /\ players'[s].cards = p.cards /\ players'[s].offline = p.offline
      BY <3>3, RefundedFields
    <3>5. p.chips \in Int /\ p.currentBet \in Int
      BY <3>3, FairFields
    <3> QED
      BY <3>3, <3>4, <3>5 DEF Fair
  <2>4. InHand(players') = {}
    BY <2>1, <2>3 DEF InHand
  <2>5. table'.pot = t.pot
    <3> DEFINE zero == [s \in Seats |-> 0]
    <3>1. SeatSum(refund) = SeatSum(zero)
      BY <2>2, SeatSumEqual
    <3>2. SeatSum(zero) = 0
      BY DEF SeatSum, At
    <3> QED
      BY <1>2, <3>1, <3>2, TableFields
  <2>6. \A s \in Seats : Fair(players'[s], table')
    BY <1>2, <2>3 DEF Fair
  <2>7. table'.phase \notin Streets /\ table'.phase # "preflop"
    BY <1>2, <1>5 DEF Streets
  <2>8. Covered(players', table')
    BY <1>2, <1>3, <2>5, <2>7 DEF HandFacts, Covered
  <2> QED
    BY <1>1, <2>4, <2>6, <2>7, <2>8 DEF Kept, HandFacts, DueFits, RoundBalanced
<1> QED
  BY <1>4, <1>5

\* Play that goes on waits for a player who can act.
LEMMA OnKeeps ==
    ASSUME NEW ps \in [Seats -> Player], NEW t \in Table, Ready(ps, t),
           NEW s \in Seats, PlayOn(ps, t, NextOf(Active(ps), s))
    PROVE  Kept
<1>1. /\ Cardinality(InHand(ps)) # 1 /\ ~RoundClosed(ps, t) /\ reply' = "play"
      /\ players' = ps /\ table' = [t EXCEPT !.turnSeat = NextOf(Active(ps), s)]
  BY DEF PlayOn
<1>2. /\ table'.pot = t.pot /\ table'.phase = t.phase
      /\ table'.currentBet = t.currentBet /\ table'.lastRaiseSize = t.lastRaiseSize
      /\ table'.turnSeat = NextOf(Active(ps), s)
  BY <1>1 DEF Table
<1>3. Active(ps) # {}
  <2>1. SUFFICES ASSUME Active(ps) = {}
                 PROVE  FALSE
    OBVIOUS
  <2>2. Cardinality(Active(ps)) = 0 /\ t.playersActedCount \in Nat
    BY <2>1, FS_EmptySet, TableFields
  <2> QED
    BY <1>1, <2>1, <2>2 DEF RoundClosed
<1>4. InHand(ps) # {}
  BY <1>3 DEF Active, InHand
<1>5. Many(ps)
  BY <1>1, <1>4, Counting
<1>6. t.phase \in Streets
  BY <1>5 DEF Ready, AtMostOne, Many
<1>7. table'.turnSeat \in Active(players')
  <2>1. s \in -1..9 /\ Active(ps) \in SUBSET Seats
    BY SeatsAssumption, SeatSets
  <2>2. NextOf(Active(ps), s) \in Active(ps)
    BY <1>3, <2>1, NextOfFinds
  <2> QED
    BY <1>1, <1>2, <2>2
<1>8. HandFacts(players', table')
  BY <1>1, <1>2 DEF Ready, HandFacts, Fair, Covered
<1> QED
  BY <1>1, <1>2, <1>5, <1>6, <1>7, <1>8 DEF Kept, DueFits, RoundBalanced

(***************************************************************************)
(* The steps: a bet, a timeout.                                            *)
(***************************************************************************)

\* A move that puts chips of the actor's stack into the pot, or folds, leaves the two
\* hashes as the outcomes of a move expect them.
LEMMA PutsReady ==
    ASSUME HandInv, reply \notin {"street", "showdown"}, NEW s \in Seats,
           players[s].status = "active", NEW q \in Player, NEW t \in Table, NEW put,
           Puts(s, q, t, put)
    PROVE  Ready([players EXCEPT ![s] = q], t)
<1> DEFINE own == players[s]
           ps == [players EXCEPT ![s] = q]
<1>1. /\ players \in [Seats -> Player] /\ table \in Table /\ reply \in Replies
      /\ HandFacts(players, table) /\ DueFits
  BY DEF HandInv, TypeOK
<1>2. /\ ps \in [Seats -> Player] /\ ps[s] = q
      /\ \A r \in Seats \ {s} : ps[r] = players[r]
  BY <1>1
<1>3. /\ own.chips \in Int /\ own.currentBet \in Int /\ own.totalContribution \in Int
      /\ q.chips \in Int /\ q.currentBet \in Int /\ q.totalContribution \in Int
      /\ table.pot \in Int /\ table.currentBet \in Int /\ t.pot \in Int /\ t.currentBet \in Int
      /\ put \in Nat
  BY <1>1, PlayerFields, TableFields DEF Puts
<1>4. Fair(own, table) /\ own.status \in Live /\ own.currentBet <= table.currentBet
      /\ own.currentBet >= 0 /\ own.chips >= 0
  BY <1>1 DEF HandFacts, Fair, Live
<1>5. t.phase = table.phase /\ t.currentBet >= table.currentBet /\ t.lastRaiseSize >= 0
      /\ t.pot = table.pot + put
  BY DEF Puts, SameTurn
<1>6. Fair(q, t)
  <2>1. /\ q.chips >= 0 /\ q.currentBet >= 0 /\ q.totalContribution >= 0 /\ ~q.offline
    BY <1>3, <1>4 DEF Puts, Fair
  <2>2. CASE q.status = "folded" /\ ~q.cards
    BY <2>1, <2>2 DEF Fair, Live
  <2>3. CASE /\ q.status = "active" /\ q.cards = own.cards
             /\ q.chips > 0 \/ put = 0
             /\ q.currentBet <= t.currentBet
    <3>1. t.phase = "preflop" => q.chips > 0 \/ q.currentBet > 0
      BY <1>3, <1>4, <1>5, <2>3 DEF Puts, Fair
    <3> QED
      BY <1>4, <1>5, <2>1, <2>3, <3>1 DEF Fair, Live
  <2>4. CASE /\ q.status = "all-in" /\ q.cards = own.cards
             /\ q.chips = 0
             /\ q.currentBet <= t.currentBet
    <3>1. t.phase = "preflop" => q.currentBet > 0
      BY <1>3, <1>4, <1>5, <2>4 DEF Puts, Fair
    <3> QED
      BY <1>4, <1>5, <2>1, <2>4, <3>1 DEF Fair, Live
  <2> QED
    BY <2>2, <2>3, <2>4 DEF Puts
<1>7. ASSUME NEW r \in Seats \ {s}
      PROVE  Fair(players[r], t)
  <2>1. Fair(players[r], table) /\ players[r].currentBet \in Int
    BY <1>1, PlayerFields DEF HandFacts
  <2> QED
    BY <1>3, <1>5, <2>1 DEF Fair
<1>8. \A r \in Seats : Fair(ps[r], t)
  BY <1>2, <1>6, <1>7
<1>9. Covered(ps, t)
  <2>1. SeatSum(LiveBets(ps)) = SeatSum(LiveBets(players))
          + (IF q.status \in Live THEN q.currentBet ELSE 0) - own.currentBet
    <3>1. SeatSum(LiveBets(ps)) = SeatSum(LiveBets(players))
            + (IF q.status \in Live THEN q.currentBet ELSE 0)
            - (IF players[s].status \in Live THEN players[s].currentBet ELSE 0)
      BY <1>1, LiveBetsChange
    <3> QED
      BY <1>4, <3>1
  <2>2. SeatSum(LiveBets(players)) \in Int
    BY <1>1, LiveBetsType
  <2>3. (IF q.status \in Live THEN q.currentBet ELSE 0) <= own.currentBet + put
    BY <1>3, <1>4 DEF Puts
  <2>4. (IF q.status \in Live THEN q.currentBet ELSE 0) \in Int
    BY <1>3
  <2>5. Covered(players, table)
    BY <1>1 DEF HandFacts
  <2> DEFINE now == IF q.status \in Live THEN q.currentBet ELSE 0
             before == SeatSum(LiveBets(players))
             after == SeatSum(LiveBets(ps))
  <2> HIDE DEF now, before, after, ps
  <2>6. after = before + now - own.currentBet /\ now \in Int /\ before \in Int
        /\ now <= own.currentBet + put
    BY <2>1, <2>2, <2>3, <2>4 DEF now, before, after
  <2>7. /\ table.phase \in Streets => table.pot > 0 /\ table.pot >= before
        /\ table.phase \in Streets \ {"preflop"} => table.pot > before
        /\ table.pot >= 0
        /\ table.phase = "preflop" => table.currentBet > 0
        /\ table.currentBet >= 0
    BY <2>5 DEF Covered, before
  <2>8. /\ t.phase \in Streets => t.pot > 0 /\ t.pot >= after
        /\ t.phase \in Streets \ {"preflop"} => t.pot > after
        /\ t.pot >= 0 /\ t.currentBet >= 0
        /\ t.phase = "preflop" => t.currentBet > 0
    BY <1>3, <1>5, <2>6, <2>7
  <2> QED
    BY <1>5, <2>8 DEF Covered, after
<1>10. \A r \in Seats : r \in InHand(ps) => r \in InHand(players)
  BY <1>2, <1>4, LiveIs
<1>11. InHand(ps) \in SUBSET InHand(players)
  BY <1>10 DEF InHand
<1>12. CASE t.phase \in Streets
  <2>1. Many(players)
    BY <1>1, <1>5, <1>12 DEF DueFits
  <2>2. PICK r \in Seats : r \in InHand(players) /\ r # s
    BY <2>1 DEF Many, InHand
  <2>3. r \in InHand(ps)
    BY <1>2, <2>2 DEF InHand
  <2> QED
    BY <1>8, <1>9, <1>12, <2>3 DEF Ready, HandFacts
<1>13. CASE t.phase \notin Streets
  <2>1. reply \in {"idle", "complete"}
    BY <1>1, <1>5, <1>13 DEF DueFits, Replies
  <2>2. AtMostOne(ps)
    BY <1>1, <1>11, <2>1 DEF DueFits, AtMostOne
  <2>3. s \in InHand(players) /\ own.chips > 0
    BY <1>1, <1>4, <1>5, <1>13, <2>1, LiveIs DEF DueFits
  <2>4. \A r \in InHand(ps) : r = s
    BY <1>1, <1>11, <2>1, <2>3 DEF DueFits, AtMostOne
  <2>5. q.chips = own.chips - put /\ table.pot >= 0
    BY <1>1 DEF Puts, HandFacts, Covered
  <2>6. ps[s].chips + t.pot > 0
    BY <1>2, <1>3, <1>5, <2>3, <2>5
  <2> QED
    BY <1>8, <1>9, <1>13, <2>2, <2>4, <2>6 DEF Ready, HandFacts
<1> QED
  BY <1>12, <1>13

\* The player at seat s has moved: q is his record, t the table, put what went into the pot,
\* and turn, refund belong to what follows.
Moved(s, q, t, put, turn, refund) ==
    LET ps == [players EXCEPT ![s] = q]
    IN  /\ q \in Player /\ t \in Table /\ turn \in Seats \cup {NoSeat}
        /\ Puts(s, q, t, put) /\ Records(s, q, put) /\ Ready(ps, t) /\ Refunds(ps, refund)
        /\ \/ HandWon(ps, t, turn)
           \/ RoundOver(ps, t, turn, refund)
           \/ PlayOn(ps, t, NextOf(Active(ps), s))

\* A bet of the web client is such a move (bet.lua).
LEMMA BetOutcome ==
    ASSUME HandInv, WebClient, NEW s \in Seats, Bet(s)
    PROVE  \E q, t, put, turn, refund : Moved(s, q, t, put, turn, refund)
<1>1. TypeOK /\ InOrder(s)
  <2>1. /\ TypeOK /\ Fair(players[s], table) /\ Covered(players, table)
        /\ players[s].status \in Live
    BY DEF HandInv, HandFacts, Bet, Fold, Check, Call, AllIn, Raise, MayBet, Live
  <2> QED
    BY <2>1 DEF Fair, Covered, InOrder
<1>2. PICK p, t, put : AfterBet(s, p, t) /\ Puts(s, p, t, put) /\ Records(s, p, put)
  BY <1>1, BetPuts
<1>3. p \in Player /\ t \in Table
  BY <1>2 DEF Puts, SameTurn
<1>4. reply \notin {"street", "showdown"} /\ players[s].status = "active"
  BY DEF Bet, Fold, Check, Call, AllIn, Raise, MayBet
<1>5. PICK bank \in (IF p.usingBank THEN 0..p.timeBank ELSE {p.timeBank}) :
        LET ps == [players EXCEPT ![s] = [p EXCEPT !.timeBank = bank, !.usingBank = FALSE]]
            next == NextOf(Active(ps), s)
        IN  /\ \/ HandWon(ps, t, t.turnSeat)
               \/ RoundOver(ps, t, next, [r \in Seats |-> Uncalled(ps, r)])
               \/ PlayOn(ps, t, next)
            /\ UNCHANGED <<balance, house>>
  BY <1>2 DEF AfterBet
<1> DEFINE q == [p EXCEPT !.timeBank = bank, !.usingBank = FALSE]
           ps == [players EXCEPT ![s] = q]
           refund == [r \in Seats |-> Uncalled(ps, r)]
<1>6. /\ q \in Player /\ q.chips = p.chips /\ q.currentBet = p.currentBet
      /\ q.totalContribution = p.totalContribution /\ q.status = p.status
      /\ q.cards = p.cards /\ q.offline = p.offline
  <2>1. bank \in Nat
    BY <1>3, <1>5, PlayerFields
  <2> QED
    BY <1>3, <2>1, OneField
<1> HIDE DEF q
<1>7. Puts(s, q, t, put)
  BY <1>2, <1>6 DEF Puts
<1>8. Ready(ps, t)
  BY <1>3, <1>4, <1>6, <1>7, PutsReady
<1>9. ps \in [Seats -> Player]
  BY <1>1, <1>6 DEF TypeOK
<1>10. \/ HandWon(ps, t, t.turnSeat)
       \/ RoundOver(ps, t, NextOf(Active(ps), s), refund)
       \/ PlayOn(ps, t, NextOf(Active(ps), s))
  BY <1>5 DEF q
<1>11. Refunds(ps, refund)
  BY DEF Refunds
<1> HIDE DEF ps, refund
<1>12. Records(s, q, put)
  BY <1>2, <1>6 DEF Records
<1>13. CASE HandWon(ps, t, t.turnSeat)
  <2>1. t.turnSeat \in Seats \cup {NoSeat}
    BY <1>3, TableFields
  <2>2. Moved(s, q, t, put, t.turnSeat, refund)
    BY <1>3, <1>6, <1>7, <1>8, <1>11, <1>13, <1>12, <2>1 DEF Moved, ps
  <2> QED
    BY <2>2
<1>14. CASE RoundOver(ps, t, NextOf(Active(ps), s), refund) \/ PlayOn(ps, t, NextOf(Active(ps), s))
  <2> PICK turn : turn = NextOf(Active(ps), s)
    OBVIOUS
  <2>1. turn \in Seats \cup {NoSeat}
    <3>1. s \in -1..9 /\ Active(ps) \in SUBSET Seats
      BY <1>9, SeatSets, SeatsAssumption
    <3> QED
      BY <3>1, NextOfType
  <2>2. Moved(s, q, t, put, turn, refund)
    BY <1>3, <1>6, <1>7, <1>8, <1>11, <1>14, <1>12, <2>1 DEF Moved, ps
  <2> QED
    BY <2>2
<1> QED
  BY <1>10, <1>13, <1>14

\* Whatever follows a move keeps the invariant.
LEMMA MoveKeeps ==
    ASSUME TypeOK, NEW s \in Seats, NEW q, NEW t, NEW put, NEW turn, NEW refund,
           Moved(s, q, t, put, turn, refund)
    PROVE  Kept
<1> PICK ps : ps = [players EXCEPT ![s] = q]
  OBVIOUS
<1>1. ps \in [Seats -> Player] /\ t \in Table /\ Ready(ps, t) /\ Refunds(ps, refund)
  BY DEF Moved, TypeOK
<1>2. turn \in Seats \cup {NoSeat}
  BY DEF Moved
<1>3. CASE HandWon(ps, t, turn)
  BY <1>1, <1>2, <1>3, WonKeeps
<1>4. CASE RoundOver(ps, t, turn, refund)
  BY <1>1, <1>2, <1>4, OverKeeps
<1>5. CASE PlayOn(ps, t, NextOf(Active(ps), s))
  BY <1>1, <1>5, OnKeeps
<1> QED
  BY <1>3, <1>4, <1>5 DEF Moved

\* A bet keeps the invariant (bet.lua).
LEMMA BetKeeps ==
    ASSUME HandInv, WebClient, NEW s \in Seats, Bet(s)
    PROVE  Kept
BY BetOutcome, MoveKeeps DEF HandInv

\* So is the fold of a player whose time is up (timeout.lua).
LEMMA FoldOutcome ==
    ASSUME HandInv, NEW s \in Seats, TimeoutFold(s)
    PROVE  \E q, t, put, turn, refund : Moved(s, q, t, put, turn, refund)
<1>1. /\ TypeOK /\ HandFacts(players, table) /\ DueFits /\ RoundBalanced
      /\ players \in [Seats -> Player] /\ table \in Table /\ players[s] \in Player
  BY DEF HandInv, TypeOK
<1>2. reply = "play" /\ table.turnSeat = s /\ players[s].status = "active"
  BY <1>1 DEF TimeoutFold, TimesOut, DueFits, Active
<1> DEFINE q == [players[s] EXCEPT !.status = "folded", !.cards = FALSE,
                                   !.usingBank = FALSE, !.benchAfterHand = TRUE]
           ps == [players EXCEPT ![s] = q]
           t == Acted(table, FALSE)
           refund == [r \in Seats |-> 0]
<1>3. \/ HandWon(ps, t, NoSeat)
      \/ RoundOver(ps, t, NoSeat, refund)
      \/ PlayOn(ps, t, NextOf(Active(ps), s))
  BY <1>1 DEF TimeoutFold
<1>4. /\ q \in Player /\ q.chips = players[s].chips
      /\ q.currentBet = players[s].currentBet
      /\ q.totalContribution = players[s].totalContribution
      /\ q.status = "folded" /\ ~q.cards /\ q.offline = players[s].offline
  <2> DEFINE p == [[[[players[s] EXCEPT !.status = "folded"] EXCEPT !.cards = FALSE]
                       EXCEPT !.usingBank = FALSE] EXCEPT !.benchAfterHand = TRUE]
  <2>1. "folded" \in Statuses /\ FALSE \in BOOLEAN /\ TRUE \in BOOLEAN
    BY Names
  <2>2. p \in Player
    BY <1>1, <2>1, PlayerUpdates, Zenon
  <2>3. q = p
    BY <1>1 DEF Player
  <2>4. q \in Player
    BY <2>2, <2>3
  <2> QED
    BY <1>1, <2>4 DEF Player
<1>5. /\ SameTurn(t, table) /\ t.pot = table.pot /\ t.currentBet = table.currentBet
      /\ t.lastRaiseSize = table.lastRaiseSize
  BY <1>1, ActedFields
<1> HIDE DEF q, t
<1>6. Puts(s, q, t, 0)
  <2>1. /\ Fair(players[s], table) /\ players[s].chips \in Int /\ players[s].currentBet \in Int
        /\ players[s].totalContribution \in Int /\ table.pot \in Int /\ table.currentBet \in Int
        /\ table.lastRaiseSize >= 0
    BY <1>1, PlayerFields, TableFields DEF HandFacts, Covered
  <2> QED
    BY <1>4, <1>5, <2>1 DEF Puts, Fair
<1>7. t \in Table
  BY <1>5 DEF SameTurn
<1>8. Ready(ps, t)
  BY <1>2, <1>4, <1>6, <1>7, PutsReady
<1>9. ps \in [Seats -> Player]
  BY <1>1, <1>4
<1>10. Refunds(ps, refund)
  BY DEF Refunds
<1> HIDE DEF ps, refund
<1>11. Records(s, q, 0)
  BY <1>1, <1>4, PlayerFields DEF Records
<1>12. Moved(s, q, t, 0, NoSeat, refund)
  BY <1>3, <1>4, <1>6, <1>7, <1>8, <1>10, <1>11 DEF Moved, ps
<1> QED
  BY <1>12

\* A timeout keeps the invariant (timeout.lua).
LEMMA TimeoutKeeps ==
    ASSUME HandInv, NEW s \in Seats, Timeout(s)
    PROVE  Kept
<1>1. /\ TypeOK /\ HandFacts(players, table) /\ DueFits /\ RoundBalanced
      /\ players \in [Seats -> Player] /\ table \in Table /\ players[s] \in Player
  BY DEF HandInv, TypeOK
<1>2. reply = "play" /\ table.turnSeat = s /\ players[s].status = "active"
  BY <1>1 DEF Timeout, TimeoutExtend, TimeoutFold, TimesOut, DueFits, Active
<1>3. CASE TimeoutExtend(s)
  <2> DEFINE q == [players[s] EXCEPT !.usingBank = TRUE]
  <2>1. players' = [players EXCEPT ![s] = q] /\ UNCHANGED <<table, reply>>
    BY <1>3 DEF TimeoutExtend
  <2>2. /\ q.chips = players[s].chips /\ q.currentBet = players[s].currentBet
        /\ q.totalContribution = players[s].totalContribution
        /\ q.status = players[s].status /\ q.cards = players[s].cards
        /\ q.offline = players[s].offline
    BY <1>1 DEF Player
  <2> HIDE DEF q
  <2>3. \A r \in Seats :
           /\ players'[r].chips = players[r].chips
           /\ players'[r].currentBet = players[r].currentBet
           /\ players'[r].totalContribution = players[r].totalContribution
           /\ players'[r].status = players[r].status /\ players'[r].cards = players[r].cards
           /\ players'[r].offline = players[r].offline
    BY <1>1, <2>1, <2>2
  <2>4. /\ InHand(players') = InHand(players) /\ Active(players') = Active(players)
        /\ LiveBets(players') = LiveBets(players)
    BY <2>3 DEF InHand, Active, LiveBets
  <2>5. HandFacts(players', table')
    BY <1>1, <2>1, <2>3, <2>4 DEF HandFacts, Fair, Covered
  <2>6. DueFits'
    BY <1>1, <1>2, <2>1, <2>3, <2>4 DEF DueFits, Many
  <2> QED
    BY <1>2, <2>1, <2>5, <2>6 DEF Kept, RoundBalanced
<1>4. CASE TimeoutFold(s)
  BY <1>1, <1>2, <1>4, FoldOutcome, MoveKeeps
<1> QED
  BY <1>3, <1>4 DEF Timeout

(***************************************************************************)
(* The steps: a street, a showdown.                                        *)
(***************************************************************************)

\* Turning a street keeps the invariant (next_street.lua).
LEMMA NextStreetKeeps ==
    ASSUME HandInv, NextStreet
    PROVE  Kept
<1>1. /\ players \in [Seats -> Player] /\ table \in Table
      /\ HandFacts(players, table) /\ DueFits /\ table.phase \in Streets
      /\ reply' = IF table.phase = "river" THEN "showdown"
                  ELSE IF RunsOut(players) THEN "runout" ELSE "play"
  BY DEF HandInv, TypeOK, NextStreet
<1>2. /\ table'.phase = StreetAfter[table.phase] /\ table'.currentBet = 0
      /\ table'.lastRaiseSize = BigBlind /\ table'.pot = table.pot
      /\ table'.turnSeat = NextOf(Active(players), table.dealerSeat)
  BY <1>1 DEF NextStreet, Table
<1>3. \A s \in Seats :
         /\ players'[s].currentBet = 0 /\ players'[s].chips = players[s].chips
         /\ players'[s].totalContribution = players[s].totalContribution
         /\ players'[s].status = players[s].status /\ players'[s].cards = players[s].cards
         /\ players'[s].offline = players[s].offline
  BY <1>1 DEF NextStreet, Player
<1>4. /\ table'.phase # "preflop"
      /\ table.phase = "river" => table'.phase = "showdown" /\ table'.phase \notin Streets
      /\ table.phase # "river" => table'.phase \in Streets
  BY <1>1, <1>2 DEF Streets, StreetAfter
<1>5. InHand(players') = InHand(players) /\ Active(players') = Active(players)
  BY <1>3 DEF InHand, Active
<1>6. Many(players) /\ Many(players')
  BY <1>1, <1>5 DEF DueFits, Many
<1>7. \A s \in Seats : Fair(players'[s], table')
  BY <1>1, <1>2, <1>3, <1>4 DEF HandFacts, Fair
<1>8. SeatSum(LiveBets(players')) = 0
  <2> DEFINE f == LiveBets(players')
  <2>1. \A s \in Seats : f[s] = 0
    BY <1>3 DEF LiveBets
  <2> HIDE DEF f
  <2>2. SeatSum(f) = 0
    BY <2>1 DEF SeatSum, At
  <2> QED
    BY <2>2 DEF f
<1>9. Covered(players', table')
  <2>1. table.pot > 0
    BY <1>1 DEF HandFacts, Covered
  <2> QED
    BY <1>1, <1>2, <1>4, <1>8, <2>1, StakesAssumption, TableFields DEF Covered
<1>10. reply' = "play" => table'.turnSeat \in Active(players')
  <2>1. reply' = "play" => Active(players) # {}
    BY <1>1 DEF RunsOut
  <2>2. table.dealerSeat \in -1..9 /\ Active(players) \in SUBSET Seats
    BY <1>1, TableFields, SeatSets
  <2>3. Active(players) # {} => NextOf(Active(players), table.dealerSeat) \in Active(players)
    BY <2>2, NextOfFinds
  <2> QED
    BY <1>2, <1>5, <2>1, <2>3
<1>11. DueFits'
  BY <1>1, <1>4, <1>6, <1>10 DEF DueFits
<1> QED
  BY <1>1, <1>7, <1>9, <1>11 DEF Kept, HandFacts, RoundBalanced

\* A seat at rest holds no cards and has no bet, and who waits has chips.
LEMMA RestedFields ==
    ASSUME NEW p \in Player
    PROVE  /\ Rested(p).chips = p.chips /\ Rested(p).currentBet = 0
           /\ Rested(p).totalContribution = 0 /\ ~Rested(p).cards
           /\ Rested(p).offline = p.offline
           /\ Rested(p).status \notin Live
           /\ Rested(p).status = "waiting" => p.chips > 0
BY DEF Rested, Cleared, Player, Live

\* What showdown.lua pays each seat is not negative, and what it pays in all comes out of
\* the pot.
LEMMA ShowdownPays ==
    ASSUME HandInv, NEW score \in [InHand(players) -> Scores], Showdown(score)
    PROVE  \E won : /\ won \in Payouts(Contributions(players), InHand(players), score,
                                       table.pot, table.pot - Rake(table.pot))
                    /\ \A s \in Seats : won[s] \in Nat /\ players'[s].chips = players[s].chips + won[s]
                    /\ \A s \in Seats :
                          /\ players'[s].currentBet = 0 /\ players'[s].totalContribution = 0
                          /\ ~players'[s].cards /\ players'[s].offline = players[s].offline
                          /\ players'[s].status \notin Live
                          /\ players'[s].status = "waiting" => players'[s].chips > 0
<1> DEFINE contrib == Contributions(players)
           gross == table.pot
           net == table.pot - Rake(table.pot)
<1>1. PICK won \in Payouts(contrib, InHand(players), score, gross, net) :
          players' = [s \in Seats |-> Rested([players[s] EXCEPT !.chips = @ + won[s]])]
  BY DEF Showdown
<1>2. /\ \A s \in Seats : players[s] \in Player
      /\ players \in [Seats -> Player]
      /\ HandFacts(players, table) /\ table \in Table
  BY DEF HandInv, TypeOK
<1>3. gross \in Nat
  BY <1>2, TableFields DEF HandFacts, Covered
<1>4. net \in 0..gross
  BY <1>3, RakeBounds
<1>5. \A s \in Seats : contrib[s] \in Nat
  BY <1>2, PlayerFields DEF Contributions, HandFacts, Fair
<1>6. InHand(players) \in SUBSET Seats
  BY <1>2, SeatSets
<1>7. \A s \in Seats : won[s] \in Nat
  <2> HIDE DEF contrib, gross, net
  <2> QED
    BY <1>3, <1>4, <1>5, <1>6, PayoutCapped
<1>8. ASSUME NEW s \in Seats
      PROVE  /\ players'[s].chips = players[s].chips + won[s]
             /\ players'[s].currentBet = 0 /\ players'[s].totalContribution = 0
             /\ ~players'[s].cards /\ players'[s].offline = players[s].offline
             /\ players'[s].status \notin Live
             /\ players'[s].status = "waiting" => players'[s].chips > 0
  <2> DEFINE p == [players[s] EXCEPT !.chips = players[s].chips + won[s]]
  <2>1. players'[s] = Rested(p)
    BY <1>1
  <2>2. p \in Player /\ p.chips = players[s].chips + won[s] /\ p.offline = players[s].offline
    <3>1. players[s].chips + won[s] \in Int
      BY <1>2, <1>7, PlayerFields
    <3> QED
      BY <1>2, <3>1, OneField
  <2> HIDE DEF p
  <2> QED
    BY <2>1, <2>2, RestedFields
<1> QED
  BY <1>7, <1>8

\* So does a showdown (showdown.lua).
LEMMA ShowdownKeeps ==
    ASSUME HandInv, NEW score \in [InHand(players) -> Scores], Showdown(score)
    PROVE  Kept
<1>1. PICK won :
         /\ \A s \in Seats : won[s] \in Nat /\ players'[s].chips = players[s].chips + won[s]
         /\ \A s \in Seats :
               /\ players'[s].currentBet = 0 /\ players'[s].totalContribution = 0
               /\ ~players'[s].cards /\ players'[s].offline = players[s].offline
               /\ players'[s].status \notin Live
               /\ players'[s].status = "waiting" => players'[s].chips > 0
  BY ShowdownPays
<1>2. /\ HandFacts(players, table) /\ table \in Table /\ \A s \in Seats : players[s] \in Player
  BY DEF HandInv, TypeOK
<1>3. /\ table'.pot = 0 /\ table'.phase = "waiting" /\ table'.currentBet = table.currentBet
      /\ table'.lastRaiseSize = table.lastRaiseSize /\ reply' = "complete"
  BY <1>2 DEF Showdown, Table
<1>4. \A s \in Seats : Fair(players'[s], table')
  <2>1. \A s \in Seats : Fair(players[s], table) /\ players[s].chips \in Int
    BY <1>2, PlayerFields DEF HandFacts
  <2>2. \A s \in Seats : players'[s].chips >= 0
    BY <1>1, <2>1 DEF Fair
  <2> QED
    BY <1>1, <2>1, <2>2 DEF Fair
<1>5. InHand(players') = {}
  BY <1>1 DEF InHand, Live
<1>6. table'.phase \notin Streets /\ table'.phase # "preflop"
  BY <1>3 DEF Streets
<1>7. Covered(players', table')
  BY <1>2, <1>3, <1>6 DEF HandFacts, Covered
<1> QED
  BY <1>3, <1>4, <1>5, <1>6, <1>7 DEF Kept, HandFacts, DueFits, RoundBalanced, AtMostOne

(***************************************************************************)
(* The steps: the next hand.                                               *)
(***************************************************************************)

\* How the sweep before a deal leaves a seat: nobody is all-in or waiting, nobody holds
\* cards, and who is active has chips and has bet nothing.
Fresh(p) ==
    /\ p \in Player
    /\ p.chips >= 0 /\ p.currentBet >= 0 /\ p.totalContribution >= 0
    /\ ~p.offline /\ ~p.cards
    /\ p.status \notin {"all-in", "waiting"}
    /\ p.status = "active" => p.chips > 0 /\ p.currentBet = 0 /\ p.totalContribution = 0

\* A seat cleared of its bets and cards.
LEMMA ClearedFields ==
    ASSUME NEW p \in Player
    PROVE  /\ Cleared(p) \in Player /\ SatOut(p) \in Player
           /\ Cleared(p).chips = p.chips /\ SatOut(p).chips = p.chips
           /\ Cleared(p).currentBet = 0 /\ SatOut(p).currentBet = 0
           /\ Cleared(p).totalContribution = 0 /\ SatOut(p).totalContribution = 0
           /\ ~Cleared(p).cards /\ ~SatOut(p).cards
           /\ Cleared(p).offline = p.offline /\ SatOut(p).offline = p.offline
           /\ Cleared(p).status = p.status /\ SatOut(p).status = "sitting_out"
<1>1. /\ Cleared(p) \in Player
      /\ Cleared(p).chips = p.chips /\ Cleared(p).currentBet = 0
      /\ Cleared(p).totalContribution = 0 /\ ~Cleared(p).cards
      /\ Cleared(p).offline = p.offline /\ Cleared(p).status = p.status
  BY ClearedType DEF Cleared, Player
<1> PICK c : c = Cleared(p)
  OBVIOUS
<1>2. c \in Player /\ SatOut(p) = [c EXCEPT !.status = "sitting_out"]
  BY <1>1 DEF SatOut
<1>3. /\ SatOut(p).chips = c.chips /\ SatOut(p).currentBet = c.currentBet
      /\ SatOut(p).totalContribution = c.totalContribution /\ SatOut(p).cards = c.cards
      /\ SatOut(p).offline = c.offline /\ SatOut(p).status = "sitting_out"
  BY <1>2 DEF Player
<1> QED
  BY <1>1, <1>3, SatOutType

\* The promotion pass makes a connected player's seat fresh (next_hand.lua:104-176).
LEMMA PromotedFresh ==
    ASSUME NEW p \in Player, p.chips >= 0, p.currentBet >= 0, p.totalContribution >= 0,
           ~p.offline, p.cards => p.status \in Live, p.status \in Live => p.chips > 0,
           p.status = "waiting" => p.chips > 0
    PROVE  Fresh(Promoted(p))
<1> DEFINE q == Promoted(p)
<1>1. q \in Player
  BY PromotedType
<1>2. CASE p.status = "sitting_out"
  <2>1. q = Cleared(p)
    BY <1>2 DEF Promoted
  <2> QED
    BY <1>1, <1>2, <2>1, ClearedFields DEF Fresh
<1>3. CASE p.status # "sitting_out" /\ p.benchAfterHand
  <2> PICK c : c = SatOut(p)
    OBVIOUS
  <2>1. c \in Player /\ q = [c EXCEPT !.benchAfterHand = FALSE]
    BY <1>3, ClearedFields DEF Promoted
  <2>2. /\ c.chips = p.chips /\ c.currentBet = 0 /\ c.totalContribution = 0 /\ ~c.cards
        /\ c.offline = p.offline /\ c.status = "sitting_out"
    BY ClearedFields
  <2>3. /\ q.chips = c.chips /\ q.currentBet = c.currentBet /\ q.cards = c.cards
        /\ q.totalContribution = c.totalContribution /\ q.offline = c.offline
        /\ q.status = c.status
    BY <2>1 DEF Player
  <2> QED
    BY <1>1, <2>2, <2>3 DEF Fresh
<1>4. CASE p.status # "sitting_out" /\ ~p.benchAfterHand /\ p.sitOutNextHand
  <2> PICK c : c = SatOut(p)
    OBVIOUS
  <2>1. c \in Player /\ q = [c EXCEPT !.sitOutNextHand = FALSE]
    BY <1>4, ClearedFields DEF Promoted
  <2>2. /\ c.chips = p.chips /\ c.currentBet = 0 /\ c.totalContribution = 0 /\ ~c.cards
        /\ c.offline = p.offline /\ c.status = "sitting_out"
    BY ClearedFields
  <2>3. /\ q.chips = c.chips /\ q.currentBet = c.currentBet /\ q.cards = c.cards
        /\ q.totalContribution = c.totalContribution /\ q.offline = c.offline
        /\ q.status = c.status
    BY <2>1 DEF Player
  <2> QED
    BY <1>1, <2>2, <2>3 DEF Fresh
<1>5. CASE /\ p.status # "sitting_out" /\ ~p.benchAfterHand /\ ~p.sitOutNextHand
           /\ p.status = "waiting" \/ (p.status \in Playing /\ p.chips > 0)
  <2> PICK c : c = Cleared(p)
    OBVIOUS
  <2>1. /\ c \in Player
        /\ q = [c EXCEPT !.status = "active", !.timeBank = Smaller(@ + 2, TimeBank)]
    BY <1>5, ClearedFields DEF Promoted
  <2>2. /\ c.chips = p.chips /\ c.currentBet = 0 /\ c.totalContribution = 0 /\ ~c.cards
        /\ c.offline = p.offline
    BY ClearedFields
  <2>3. /\ q.chips = c.chips /\ q.currentBet = c.currentBet /\ q.cards = c.cards
        /\ q.totalContribution = c.totalContribution /\ q.offline = c.offline
        /\ q.status = "active"
    BY <2>1 DEF Player
  <2> QED
    BY <1>1, <1>5, <2>2, <2>3 DEF Fresh
<1>6. CASE /\ p.status # "sitting_out" /\ ~p.benchAfterHand /\ ~p.sitOutNextHand
           /\ ~(p.status = "waiting" \/ (p.status \in Playing /\ p.chips > 0))
  <2>1. q = p
    BY <1>6 DEF Promoted
  <2>2. p.status \notin Live /\ p.status \notin {"active", "all-in", "waiting"}
    BY <1>6 DEF Live, Playing
  <2> QED
    BY <1>1, <2>1, <2>2 DEF Fresh
<1> QED
  BY <1>2, <1>3, <1>4, <1>5, <1>6

\* When the next hand may start, nobody in the last one is without chips.
LEMMA BetweenHands ==
    ASSUME HandInv, MayStartHand
    PROVE  /\ table.phase \notin Streets
           /\ \A s \in InHand(players) : players[s].chips > 0
BY DEF HandInv, DueFits, MayStartHand, Many, Streets

\* The sweep makes every seat fresh.
LEMMA SweptFresh ==
    ASSUME HandInv, MayStartHand
    PROVE  Swept \in [Seats -> Player] /\ \A s \in Seats : Fresh(Swept[s])
<1>1. TypeOK /\ HandFacts(players, table)
  BY DEF HandInv
<1>2. ASSUME NEW s \in Seats
      PROVE  Fresh(Swept[s])
  <2>1. /\ players[s] \in Player /\ Fair(players[s], table)
        /\ players[s].status \in Live => players[s].chips > 0
    BY <1>1, BetweenHands, LiveIs DEF TypeOK, HandFacts
  <2> PICK p : p = players[s]
    OBVIOUS
  <2> DEFINE t == ToppedUp(p)
  <2>2. p \in Player /\ Fair(p, table) /\ (p.status \in Live => p.chips > 0)
    BY <2>1
  <2>3. /\ t \in Player /\ t.chips = p.chips + p.pendingTopUp
        /\ t.currentBet = p.currentBet /\ t.totalContribution = p.totalContribution
        /\ t.status = p.status /\ t.cards = p.cards /\ t.offline = p.offline
    <3>1. t \in Player
      BY <2>2, ToppedUpType
    <3> QED
      BY <2>2, <3>1 DEF ToppedUp, Player
  <2> HIDE DEF t
  <2>4. /\ p.chips \in Int /\ p.pendingTopUp \in Nat
    BY <2>2, PlayerFields
  <2>5. /\ t.chips >= 0 /\ t.currentBet >= 0 /\ t.totalContribution >= 0
        /\ ~t.offline /\ (t.cards => t.status \in Live) /\ (t.status \in Live => t.chips > 0)
        /\ t.status = "waiting" => t.chips > 0
    BY <2>2, <2>3, <2>4 DEF Fair
  <2>6. Ghosted(t) = t
    <3>1. t.chips \in Int
      BY <2>3, FairFields
    <3>2. ~(t.status = "active" /\ t.chips <= 0)
      BY <2>5, <3>1 DEF Live
    <3> QED
      BY <3>2 DEF Ghosted
  <2>7. Fresh(Promoted(t))
    BY <2>3, <2>5, PromotedFresh
  <2>8. Swept[s] = Promoted(Ghosted(ToppedUp(p)))
    BY DEF Swept
  <2> QED
    BY <2>6, <2>7, <2>8 DEF t
<1> QED
  BY <1>1, <1>2, SweptType

\* Marking who leaves keeps the seats fresh.
LEMMA KickedFresh ==
    ASSUME NEW ps \in [Seats -> Player], \A s \in Seats : Fresh(ps[s])
    PROVE  Kicked(ps) \in [Seats -> Player] /\ \A s \in Seats : Fresh(Kicked(ps)[s])
<1>1. Kicked(ps) \in [Seats -> Player]
  BY KickedType
<1> DEFINE bb == BigBlindSeat(ps, Button(ps))
<1>2. CASE Kicked(ps) = ps
  BY <1>1, <1>2
<1>3. CASE Kicked(ps) = [ps EXCEPT ![bb] =
              [Cleared(@) EXCEPT !.status = "leaving", !.leaveNextBB = FALSE]]
  <2> HIDE DEF bb
  <2> SUFFICES ASSUME NEW s \in Seats
               PROVE  Fresh(Kicked(ps)[s])
    BY <1>1
  <2>1. CASE s # bb
    BY <1>3, <2>1
  <2>2. CASE s = bb
    <3> PICK p, c : p = ps[s] /\ c = Cleared(p)
      OBVIOUS
    <3>1. /\ p \in Player /\ Fresh(p)
          /\ Kicked(ps)[s] = [c EXCEPT !.status = "leaving", !.leaveNextBB = FALSE]
      BY <1>3, <2>2
    <3>2. /\ c \in Player /\ c.chips = p.chips /\ c.currentBet = 0
          /\ c.totalContribution = 0 /\ ~c.cards /\ c.offline = p.offline
      BY <3>1, ClearedFields
    <3>3. Kicked(ps)[s] \in Player
      BY <1>1
    <3>4. /\ Kicked(ps)[s].chips = c.chips /\ Kicked(ps)[s].currentBet = c.currentBet
          /\ Kicked(ps)[s].totalContribution = c.totalContribution
          /\ Kicked(ps)[s].cards = c.cards /\ Kicked(ps)[s].offline = c.offline
          /\ Kicked(ps)[s].status = "leaving"
      BY <3>1, <3>2 DEF Player
    <3> QED
      BY <3>1, <3>2, <3>3, <3>4 DEF Fresh
  <2> QED
    BY <2>1, <2>2
<1> QED
  BY <1>2, <1>3 DEF Kicked

\* Fewer than two players are one at most, and two are several.
LEMMA CountingActive ==
    ASSUME NEW ps \in [Seats -> Player]
    PROVE  /\ Cardinality(Active(ps)) < 2 => \A r, s \in Active(ps) : r = s
           /\ Cardinality(Active(ps)) >= 2 => \E r, s \in Active(ps) : r # s
<1> DEFINE T == Active(ps)
<1>1. IsFiniteSet(T) /\ Cardinality(T) \in Nat /\ (Cardinality(T) = 0 <=> T = {})
  BY SeatSets, SeatsFinite
<1>2. Cardinality(T) = 1 <=> \E w : T = {w}
  BY <1>1, FS_Singleton
<1> HIDE DEF T
<1>3. CASE Cardinality(T) < 2
  <2>1. Cardinality(T) = 0 \/ Cardinality(T) = 1
    BY <1>1, <1>3
  <2> QED
    BY <1>1, <1>2, <1>3, <2>1 DEF T
<1>4. CASE Cardinality(T) >= 2
  <2>1. Cardinality(T) # 0 /\ Cardinality(T) # 1
    BY <1>4
  <2>2. PICK w : w \in T
    BY <1>1, <2>1
  <2>3. T # {w}
    BY <1>2, <2>1
  <2>4. PICK r \in T : r # w
    BY <2>2, <2>3
  <2> QED
    BY <1>1, <1>4, <2>2, <2>4 DEF T
<1> QED
  BY <1>1, <1>3, <1>4 DEF T

\* Too few players for a hand keep the invariant (next_hand.lua:185-256).
LEMMA TooFewKeeps ==
    ASSUME HandInv, TooFewToDeal
    PROVE  Kept
<1>1. /\ table \in Table /\ HandFacts(players, table) /\ MayStartHand
  BY DEF HandInv, TypeOK, TooFewToDeal
<1>2. Swept \in [Seats -> Player] /\ \A s \in Seats : Fresh(Swept[s])
  BY <1>1, SweptFresh
<1> PICK swept : swept = Swept
  OBVIOUS
<1>3. \E ps \in [Seats -> Player] :
         /\ players' = ps /\ Cardinality(Active(ps)) < 2
         /\ \A s \in Seats : Fresh(ps[s])
  <2>1. Kicked(swept) \in [Seats -> Player] /\ \A s \in Seats : Fresh(Kicked(swept)[s])
    BY <1>2, KickedFresh
  <2> QED
    BY <1>2, <2>1 DEF TooFewToDeal
<1>4. PICK ps \in [Seats -> Player] :
         /\ players' = ps /\ Cardinality(Active(ps)) < 2
         /\ \A s \in Seats : Fresh(ps[s])
  BY <1>3
<1>5. /\ table'.pot = table.pot /\ table'.phase = "waiting"
      /\ table'.currentBet = table.currentBet /\ table'.lastRaiseSize = table.lastRaiseSize
      /\ reply' = "idle"
  BY <1>1 DEF TooFewToDeal, Table
<1>6. table'.phase \notin Streets /\ table'.phase # "preflop"
  BY <1>5 DEF Streets
<1>7. Covered(players', table')
  BY <1>1, <1>5, <1>6 DEF HandFacts, Covered
<1>8. \A s \in Seats : Fair(players'[s], table')
  <2>1. table'.currentBet \in Int /\ table'.currentBet >= 0
    BY <1>1, <1>5, TableFields DEF HandFacts, Covered
  <2> QED
    BY <1>4, <1>6, <2>1 DEF Fresh, Fair, Live, Streets
<1>9. \A s \in InHand(players') : s \in Active(ps) /\ players'[s].chips > 0
  BY <1>4 DEF InHand, Active, Fresh
<1>10. AtMostOne(players')
  BY <1>4, <1>9, CountingActive DEF AtMostOne
<1> QED
  BY <1>5, <1>6, <1>7, <1>8, <1>9, <1>10 DEF Kept, HandFacts, DueFits, RoundBalanced

\* What a fresh seat posts as a blind is his, and so are the chips he keeps.
LEMMA PostedFields ==
    ASSUME NEW p, Fresh(p), NEW blind \in Nat
    PROVE  /\ Blind(p, blind) \in Nat /\ Blind(p, blind) <= blind /\ Blind(p, blind) <= p.chips
           /\ p.chips > 0 /\ blind > 0 => Blind(p, blind) > 0
           /\ Posted(p, blind) \in Player
           /\ Posted(p, blind).chips = p.chips - Blind(p, blind)
           /\ Posted(p, blind).currentBet = Blind(p, blind)
           /\ Posted(p, blind).totalContribution = Blind(p, blind)
           /\ Posted(p, blind).status = p.status
           /\ ~Posted(p, blind).cards /\ ~Posted(p, blind).offline
<1>1. p \in Player /\ p.chips >= 0 /\ p.chips \in Int /\ ~p.cards /\ ~p.offline
  BY FairFields DEF Fresh
<1>2. /\ Blind(p, blind) \in Nat /\ Blind(p, blind) <= blind /\ Blind(p, blind) <= p.chips
      /\ p.chips > 0 /\ blind > 0 => Blind(p, blind) > 0
  BY <1>1 DEF Blind, Smaller
<1>3. Posted(p, blind) \in Player
  BY <1>1, PostedType
<1> QED
  BY <1>1, <1>2, <1>3 DEF Posted, Player

\* Who is dealt in holds cards.
LEMMA DealtFields ==
    ASSUME NEW p \in Player, ~p.cards
    PROVE  /\ Dealt(p) \in Player
           /\ Dealt(p).chips = p.chips /\ Dealt(p).currentBet = p.currentBet
           /\ Dealt(p).totalContribution = p.totalContribution
           /\ Dealt(p).status = p.status /\ Dealt(p).offline = p.offline
           /\ Dealt(p).cards <=> p.status = "active"
BY DealtType DEF Dealt, Player

\* With others about, the next player is another one.
LEMMA NextOfOther ==
    ASSUME NEW T \in SUBSET Seats, NEW s \in Seats, \E u, v \in T : u # v
    PROVE  NextOf(T, s) # s
<1>1. PICK u \in T : u # s
  OBVIOUS
<1> DEFINE steps == {Offset(s, t) : t \in T}
<1>2. \A t \in T : Offset(s, t) \in Nat
  BY SeatsAssumption DEF Offset
<1>3. steps \in SUBSET Nat /\ steps # {}
  BY <1>1, <1>2
<1>4. PICK m \in steps : \A n \in steps : m <= n
  BY <1>3, LeastElement
<1>5. \E t \in T : \A v \in T : Offset(s, t) <= Offset(s, v)
  BY <1>4
<1>6. Offset(s, NextOf(T, s)) <= Offset(s, u)
  BY <1>1, <1>5 DEF NextOf
<1>7. ~(Offset(s, s) <= Offset(s, u))
  BY <1>1, SeatsAssumption DEF Offset
<1> QED
  BY <1>6, <1>7

\* The next player is the nearest one clockwise.
LEMMA NextOfFirst ==
    ASSUME NEW T \in SUBSET Seats, T # {}, NEW s \in Seats
    PROVE  /\ NextOf(T, s) \in T
           /\ \A u \in T : Offset(s, NextOf(T, s)) <= Offset(s, u)
<1> DEFINE steps == {Offset(s, t) : t \in T}
<1>1. \A t \in T : Offset(s, t) \in Nat
  BY SeatsAssumption DEF Offset
<1>2. steps \in SUBSET Nat /\ steps # {}
  BY <1>1
<1>3. PICK m \in steps : \A n \in steps : m <= n
  BY <1>2, LeastElement
<1>4. \E t \in T : \A v \in T : Offset(s, t) <= Offset(s, v)
  BY <1>3
<1> QED
  BY <1>4 DEF NextOf

\* Whoever leaves at his big blind, the small blind is posted by a player of the hand: of
\* three players the one on the button is not the big blind (next_hand.lua:267-356).
LEMMA SmallBlindPlays ==
    ASSUME NEW swept \in [Seats -> Player], table \in Table,
           Cardinality(Active(swept)) >= 2, Cardinality(Active(Kicked(swept))) >= 2
    PROVE  SmallBlindSeat(Kicked(swept), Button(swept)) \in Active(Kicked(swept))
<1> PICK ps, button, A, B : /\ ps = Kicked(swept) /\ button = Button(swept)
                            /\ A = Active(swept) /\ B = Active(ps)
  OBVIOUS
<1>1. /\ ps \in [Seats -> Player] /\ A \in SUBSET Seats /\ B \in SUBSET Seats
      /\ Cardinality(A) >= 2 /\ Cardinality(B) >= 2
  BY KickedType, SeatSets
<1>2. A # {} /\ \E u, v \in B : u # v
  BY <1>1, CountingActive
<1>3. button \in A
  BY <1>2, ButtonFound
<1>4. CASE Cardinality(B) # 2
  <2>1. SmallBlindSeat(ps, button) = NextOf(B, button)
    BY <1>4 DEF SmallBlindSeat
  <2>2. NextOf(B, button) \in B
    BY <1>1, <1>2, <1>3, NextOfFirst
  <2> QED
    BY <2>1, <2>2
<1>5. CASE Cardinality(B) = 2
  <2>1. SmallBlindSeat(ps, button) = button
    BY <1>5 DEF SmallBlindSeat
  <2> PICK k : k = BigBlindSeat(swept, button)
    OBVIOUS
  <2>2. k \in A
    BY <1>1, <1>2, <1>3, BlindSeats
  <2>3. B = A \/ B = A \ {k}
    <3>1. \/ ps = swept
          \/ ps = [swept EXCEPT ![k] =
                [Cleared(@) EXCEPT !.status = "leaving", !.leaveNextBB = FALSE]]
      BY DEF Kicked
    <3>2. CASE ps = [swept EXCEPT ![k] =
                [Cleared(@) EXCEPT !.status = "leaving", !.leaveNextBB = FALSE]]
      <4> PICK c : c = Cleared(swept[k])
        OBVIOUS
      <4>1. c \in Player /\ k \in Seats
        BY <1>1, <2>2, ClearedFields
      <4>2. ps[k] = [c EXCEPT !.status = "leaving", !.leaveNextBB = FALSE]
        BY <3>2, <4>1
      <4>3. ps[k].status = "leaving"
        BY <4>1, <4>2 DEF Player
      <4>4. \A s \in Seats \ {k} : ps[s] = swept[s]
        BY <3>2
      <4> QED
        BY <4>3, <4>4 DEF Active
    <3> QED
      BY <3>1, <3>2
  <2>4. CASE B = A
    BY <1>3, <2>1, <2>4
  <2>5. CASE B = A \ {k} /\ B # A
    <3>1. Cardinality(A) # 2
      <4>1. IsFiniteSet(A) /\ Cardinality(A \ {k}) = Cardinality(A) - 1
        BY <1>1, <2>2, SeatsFinite, FS_RemoveElement
      <4> QED
        BY <1>5, <2>5, <4>1
    <3> PICK x : x = NextOf(A, button)
      OBVIOUS
    <3>2. k = NextOf(A, x)
      BY <3>1 DEF BigBlindSeat, SmallBlindSeat
    <3>3. x \in A /\ \A u \in A : Offset(button, x) <= Offset(button, u)
      BY <1>1, <1>2, <1>3, NextOfFirst
    <3>4. \A u \in A : Offset(x, k) <= Offset(x, u)
      BY <1>1, <1>2, <3>2, <3>3, NextOfFirst
    <3>5. ASSUME k = button
          PROVE  FALSE
      <4>1. PICK y \in A : y # button /\ y # x
        BY <1>2, <2>5, <3>5
      <4>2. x # button
        BY <1>1, <1>3, <3>3, <4>1, NextOfOther
      <4>3. /\ x \in 0..9 /\ y \in 0..9 /\ button \in 0..9
            /\ x # y /\ y # button /\ x # button
        BY <1>1, <1>3, <3>3, <4>1, <4>2, SeatsAssumption
      <4>4. Offset(button, x) <= Offset(button, y) /\ Offset(x, button) <= Offset(x, y)
        BY <3>3, <3>4, <3>5, <4>1
      <4> QED
        BY <4>3, <4>4 DEF Offset
    <3> QED
      BY <1>3, <2>1, <2>5, <3>5
  <2> QED
    BY <2>3, <2>4, <2>5
<1> QED
  BY <1>4, <1>5

\* A deal to the seats ps, of which sb and bb post the blinds.
DealtTo(ps, sb, bb) ==
    /\ ps = Kicked(Swept) /\ sb # bb
    /\ ps \in [Seats -> Player] /\ sb \in Seats /\ sb \in Active(ps) /\ bb \in Active(ps)
    /\ \A s \in Seats : Fresh(ps[s])
    /\ \E r, s \in Active(ps) : r # s
    /\ players' = [s \in Seats |->
          Dealt(IF s = bb THEN Posted(ps[s], BigBlind)
                ELSE IF s = sb THEN Posted(ps[s], SmallBlind) ELSE ps[s])]
    /\ table'.phase = "preflop"
    /\ table'.pot = Blind(ps[sb], SmallBlind) + Blind(ps[bb], BigBlind)
    /\ table'.currentBet = BigBlind /\ table'.lastRaiseSize = BigBlind
    /\ table'.turnSeat \in Active(ps) /\ table'.handNumber = table.handNumber + 1
    /\ reply' = "play"

LEMMA DealSeats ==
    ASSUME HandInv, Deal
    PROVE  \E ps, sb, bb : DealtTo(ps, sb, bb)
<1>1. table \in Table /\ MayStartHand
  BY DEF HandInv, TypeOK, Deal
<1>2. Swept \in [Seats -> Player] /\ \A s \in Seats : Fresh(Swept[s])
  BY <1>1, SweptFresh
<1> PICK swept, ps : swept = Swept /\ ps = Kicked(swept)
  OBVIOUS
<1>3. ps \in [Seats -> Player] /\ \A s \in Seats : Fresh(ps[s])
  BY <1>2, KickedFresh
<1>4. /\ Cardinality(Active(swept)) >= 2 /\ Cardinality(Active(ps)) >= 2
  BY DEF Deal
<1>5. Active(swept) # {} /\ \E r, s \in Active(ps) : r # s
  BY <1>2, <1>3, <1>4, CountingActive
<1> PICK button : button = Button(swept)
  OBVIOUS
<1>6. button \in Seats
  BY <1>1, <1>2, <1>5, ButtonFound
<1> PICK sb, bb : sb = SmallBlindSeat(ps, button) /\ bb = BigBlindSeat(ps, button)
  OBVIOUS
<1>7. sb \in Seats /\ sb \in Active(ps) /\ bb \in Active(ps) /\ sb # bb
  <2>0. sb \in Active(ps)
    BY <1>1, <1>2, <1>4, SmallBlindPlays
  <2>1. sb \in Seats /\ bb \in Active(ps)
    BY <1>3, <1>5, <1>6, BlindSeats
  <2>2. Active(ps) \in SUBSET Seats /\ bb = NextOf(Active(ps), sb)
    BY <1>3, SeatSets DEF BigBlindSeat
  <2> QED
    BY <1>5, <2>0, <2>1, <2>2, NextOfOther
<1>8. /\ players' = [s \in Seats |->
            Dealt(IF s = bb THEN Posted(ps[s], BigBlind)
                  ELSE IF s = sb THEN Posted(ps[s], SmallBlind) ELSE ps[s])]
      /\ table' = [phase |-> "preflop",
                   pot |-> Blind(ps[sb], SmallBlind) + Blind(ps[bb], BigBlind),
                   currentBet |-> BigBlind, lastRaiseSize |-> BigBlind,
                   turnSeat |-> NextOf(Active(ps), bb), dealerSeat |-> button,
                   playersActedCount |-> 0, handNumber |-> table.handNumber + 1]
      /\ reply' = "play"
  BY DEF Deal
<1>9. NextOf(Active(ps), bb) \in Active(ps)
  <2>1. Active(ps) \in SUBSET Seats /\ bb \in Seats /\ Active(ps) # {}
    BY <1>3, <1>7, SeatSets
  <2>2. bb \in -1..9
    BY <2>1, SeatsAssumption
  <2> QED
    BY <2>1, <2>2, NextOfFinds
<1>10. /\ table'.phase = "preflop"
       /\ table'.pot = Blind(ps[sb], SmallBlind) + Blind(ps[bb], BigBlind)
       /\ table'.currentBet = BigBlind /\ table'.lastRaiseSize = BigBlind
       /\ table'.turnSeat \in Active(ps) /\ table'.handNumber = table.handNumber + 1
  BY <1>8, <1>9
<1>11. DealtTo(ps, sb, bb)
  BY <1>3, <1>5, <1>7, <1>8, <1>10 DEF DealtTo
<1> QED
  BY <1>11

\* A deal keeps the invariant (next_hand.lua:258-440).
LEMMA DealKeeps ==
    ASSUME HandInv, Deal
    PROVE  Kept
<1> PICK ps, sb, bb : DealtTo(ps, sb, bb)
  BY DealSeats
<1>1. /\ ps \in [Seats -> Player] /\ sb \in Seats /\ bb \in Active(ps)
      /\ \A s \in Seats : Fresh(ps[s])
      /\ \E r, s \in Active(ps) : r # s
      /\ players' = [s \in Seats |->
            Dealt(IF s = bb THEN Posted(ps[s], BigBlind)
                  ELSE IF s = sb THEN Posted(ps[s], SmallBlind) ELSE ps[s])]
      /\ table'.phase = "preflop"
      /\ table'.pot = Blind(ps[sb], SmallBlind) + Blind(ps[bb], BigBlind)
      /\ table'.currentBet = BigBlind /\ table'.lastRaiseSize = BigBlind
      /\ table'.turnSeat \in Active(ps)
      /\ reply' = "play"
  BY DEF DealtTo
<1>2. bb \in Seats /\ ps[bb].status = "active" /\ ps[bb].chips > 0
  BY <1>1 DEF Active, Fresh
<1> DEFINE small == Blind(ps[sb], SmallBlind)
           big == Blind(ps[bb], BigBlind)
<1>3. small \in Nat /\ small <= SmallBlind /\ big \in Nat /\ big <= BigBlind /\ big > 0
  <2>1. PICK p, q : p = ps[sb] /\ q = ps[bb]
    OBVIOUS
  <2>2. Fresh(p) /\ Fresh(q) /\ q.chips > 0
    BY <1>1, <1>2, <2>1
  <2>3. BigBlind \in Nat /\ BigBlind > 0 /\ SmallBlind \in Nat
    BY StakesAssumption
  <2>4. /\ Blind(p, SmallBlind) \in Nat /\ Blind(p, SmallBlind) <= SmallBlind
        /\ Blind(q, BigBlind) \in Nat /\ Blind(q, BigBlind) <= BigBlind
        /\ Blind(q, BigBlind) > 0
    BY <2>2, <2>3, PostedFields
  <2> QED
    BY <2>1, <2>4
<1>4. \A s \in Seats :
         /\ players'[s] \in Player
         /\ players'[s].chips >= 0 /\ players'[s].currentBet >= 0
         /\ players'[s].totalContribution >= 0 /\ ~players'[s].offline
         /\ players'[s].status = ps[s].status
         /\ players'[s].cards <=> players'[s].status = "active"
         /\ players'[s].status = "active" =>
               /\ players'[s].chips > 0 \/ players'[s].currentBet > 0
               /\ players'[s].currentBet =
                     IF s = bb THEN big ELSE IF s = sb THEN small ELSE 0
  <2> SUFFICES ASSUME NEW s \in Seats
               PROVE  /\ players'[s] \in Player
                      /\ players'[s].chips >= 0 /\ players'[s].currentBet >= 0
                      /\ players'[s].totalContribution >= 0 /\ ~players'[s].offline
                      /\ players'[s].status = ps[s].status
                      /\ players'[s].cards <=> players'[s].status = "active"
                      /\ players'[s].status = "active" =>
                            /\ players'[s].chips > 0 \/ players'[s].currentBet > 0
                            /\ players'[s].currentBet =
                                  IF s = bb THEN big ELSE IF s = sb THEN small ELSE 0
    OBVIOUS
  <2>1. PICK p : p = ps[s]
    OBVIOUS
  <2>2. Fresh(p) /\ p \in Player /\ p.chips \in Int
    BY <1>1, <2>1, FairFields DEF Fresh
  <2>3. ASSUME NEW blind \in Nat, players'[s] = Dealt(Posted(p, blind))
        PROVE  /\ players'[s] \in Player
               /\ players'[s].chips = p.chips - Blind(p, blind)
               /\ players'[s].currentBet = Blind(p, blind)
               /\ players'[s].totalContribution = Blind(p, blind)
               /\ players'[s].status = p.status /\ ~players'[s].offline
               /\ players'[s].cards <=> p.status = "active"
               /\ Blind(p, blind) \in Nat /\ Blind(p, blind) <= p.chips
    <3>1. PICK q : q = Posted(p, blind)
      OBVIOUS
    <3>2. /\ q \in Player /\ q.chips = p.chips - Blind(p, blind)
          /\ q.currentBet = Blind(p, blind) /\ q.totalContribution = Blind(p, blind)
          /\ q.status = p.status /\ ~q.cards /\ ~q.offline
          /\ Blind(p, blind) \in Nat /\ Blind(p, blind) <= p.chips
      BY <2>2, <3>1, PostedFields
    <3>3. players'[s] = Dealt(q)
      BY <2>3, <3>1
    <3> QED
      BY <3>2, <3>3, DealtFields
  <2>4. CASE s = bb
    <3>1. players'[s] = Dealt(Posted(p, BigBlind)) /\ BigBlind \in Nat
      BY <1>1, <2>1, <2>4, StakesAssumption
    <3>2. big = Blind(p, BigBlind)
      BY <2>1, <2>4
    <3> HIDE DEF big
    <3> QED
      BY <2>1, <2>2, <2>3, <2>4, <3>1, <3>2 DEF Fresh
  <2>5. CASE s # bb /\ s = sb
    <3>1. players'[s] = Dealt(Posted(p, SmallBlind)) /\ SmallBlind \in Nat
      BY <1>1, <2>1, <2>5, StakesAssumption
    <3>2. small = Blind(p, SmallBlind)
      BY <2>1, <2>5
    <3> HIDE DEF small
    <3> QED
      BY <2>1, <2>2, <2>3, <2>5, <3>1, <3>2 DEF Fresh
  <2>6. CASE s # bb /\ s # sb
    <3>1. players'[s] = Dealt(p)
      BY <1>1, <2>1, <2>6
    <3> QED
      BY <2>1, <2>2, <2>6, <3>1, DealtFields DEF Fresh
  <2> QED
    BY <2>4, <2>5, <2>6
<1>5. \A s \in Seats : players'[s].status \in Live <=> ps[s].status = "active"
  BY <1>1, <1>4 DEF Fresh, Live
<1>6. \A s \in Seats : Fair(players'[s], table')
  <2> SUFFICES ASSUME NEW s \in Seats
               PROVE  Fair(players'[s], table')
    OBVIOUS
  <2>1. players'[s].status # "waiting" /\ players'[s].status # "all-in"
    BY <1>1, <1>4 DEF Fresh
  <2>2. players'[s].status = "active" => players'[s].currentBet <= table'.currentBet
    BY <1>1, <1>3, <1>4, StakesAssumption
  <2>3. players'[s].status \in Live <=> players'[s].status = "active"
    BY <1>4, <1>5
  <2> HIDE DEF small, big
  <2> QED
    BY <1>1, <1>4, <2>1, <2>2, <2>3 DEF Fair
<1>7. /\ InHand(players') = Active(ps) /\ Active(players') = Active(ps)
  BY <1>4, <1>5, LiveIs DEF InHand, Active, Live
<1>8. small + big >= SeatSum(LiveBets(players'))
  <2> DEFINE f == LiveBets(players')
             a == [s \in Seats |-> IF s = sb THEN small ELSE 0]
             b == [s \in Seats |-> IF s = bb THEN big ELSE 0]
             both == [s \in Seats |-> a[s] + b[s]]
  <2> HIDE DEF small, big
  <2>1. SeatSum(a) = small /\ SeatSum(b) = big
    <3>1. a[sb] = small /\ \A s \in Seats \ {sb} : a[s] = 0
      BY <1>1
    <3>2. b[bb] = big /\ \A s \in Seats \ {bb} : b[s] = 0
      BY <1>2
    <3> HIDE DEF a, b
    <3> QED
      BY <1>1, <1>2, <1>3, <3>1, <3>2, SeatSumSingle
  <2>2. \A s \in Seats : a[s] \in Nat /\ b[s] \in Nat /\ both[s] = a[s] + b[s]
    BY <1>3
  <2>3. SeatSum(both) = SeatSum(a) + SeatSum(b)
    <3> HIDE DEF a, b, both
    <3> QED
      BY <2>2, SeatSumAdd
  <2>4. \A s \in Seats : f[s] \in Int /\ f[s] <= both[s]
    <3> SUFFICES ASSUME NEW s \in Seats
                 PROVE  f[s] \in Int /\ f[s] <= both[s]
      OBVIOUS
    <3>1. CASE ps[s].status = "active"
      <4>1. f[s] = players'[s].currentBet
        BY <1>5, <3>1 DEF LiveBets
      <4>2. players'[s].currentBet = IF s = bb THEN big ELSE IF s = sb THEN small ELSE 0
        BY <1>4, <3>1 DEF small, big
      <4> QED
        BY <1>3, <4>1, <4>2
    <3>2. CASE ps[s].status # "active"
      <4>1. f[s] = 0
        BY <1>5, <3>2 DEF LiveBets
      <4> QED
        BY <2>2, <4>1
    <3> QED
      BY <3>1, <3>2
  <2>5. SeatSum(f) <= SeatSum(both)
    <3> HIDE DEF f, a, b
    <3>1. \A s \in Seats : both[s] \in Int
      BY <2>2
    <3> HIDE DEF both
    <3> QED
      BY <2>4, <3>1, SeatSumOrder
  <2> QED
    BY <2>1, <2>3, <2>5
<1>9. Covered(players', table')
  <2>1. table'.pot = small + big
    BY <1>1
  <2>2. table'.phase = "preflop" /\ table'.currentBet > 0 /\ table'.lastRaiseSize >= 0
    BY <1>1, StakesAssumption
  <2> HIDE DEF small, big
  <2>3. table'.pot > 0 /\ table'.pot >= 0
    BY <1>3, <2>1
  <2>4. table'.pot >= SeatSum(LiveBets(players'))
    BY <1>8, <2>1
  <2>5. table'.currentBet >= 0 /\ table'.phase \notin Streets \ {"preflop"}
    BY <1>1, <2>2, StakesAssumption
  <2> QED
    BY <2>2, <2>3, <2>4, <2>5 DEF Covered
<1>10. DueFits'
  BY <1>1, <1>7 DEF DueFits, Many, Streets
<1> QED
  BY <1>1, <1>6, <1>9, <1>10 DEF Kept, HandFacts, RoundBalanced

(***************************************************************************)
(* The invariant holds of a table that starts as it should.                *)
(***************************************************************************)

\* The first hand is waited for by players with chips.
LEMMA DealInitKeeps == DealInit => HandInv
<1> SUFFICES ASSUME DealInit
             PROVE  HandInv
  OBVIOUS
<1>1. /\ table \in Table /\ table.phase = "waiting" /\ table.pot = 0 /\ table.currentBet = 0
      /\ table.lastRaiseSize = BigBlind
  <2>1. BigBlind \in Int /\ (\A d \in Seats : d \in 0..9) /\ "waiting" \in Phases
    BY StakesAssumption, SeatsAssumption, Names
  <2>2. PICK d \in Seats :
           table = [phase |-> "waiting", pot |-> 0, currentBet |-> 0, lastRaiseSize |-> BigBlind,
                    turnSeat |-> NoSeat, dealerSeat |-> d, playersActedCount |-> 0,
                    handNumber |-> 0]
    BY DEF DealInit
  <2> QED
    BY <2>1, <2>2 DEF Table
<1>2. \A s \in Seats :
         /\ players[s] \in Player /\ players[s].status = "waiting" /\ players[s].chips > 0
         /\ players[s].currentBet = 0 /\ players[s].totalContribution = 0
         /\ ~players[s].cards /\ ~players[s].offline
  <2> SUFFICES ASSUME NEW s \in Seats
               PROVE  /\ players[s] \in Player /\ players[s].status = "waiting"
                      /\ players[s].chips > 0 /\ players[s].currentBet = 0
                      /\ players[s].totalContribution = 0
                      /\ ~players[s].cards /\ ~players[s].offline
    OBVIOUS
  <2>1. PICK chips \in Stacks : players[s] = Seat(chips)
    BY DEF DealInit
  <2>2. chips \in Nat /\ chips > 0 /\ TimeBank \in Nat /\ "waiting" \in Statuses
    BY StacksAssumption, StakesAssumption, Names
  <2>3. players[s] = [status |-> "waiting", chips |-> chips, currentBet |-> 0,
           totalContribution |-> 0, cards |-> FALSE, pendingTopUp |-> 0,
           timeBank |-> TimeBank, usingBank |-> FALSE, benchAfterHand |-> FALSE,
           sitOutNextHand |-> FALSE, offline |-> FALSE, leaveNextBB |-> FALSE]
    BY <2>1 DEF Seat, Vacant
  <2> QED
    BY <2>2, <2>3 DEF Player
<1>3. players \in [Seats -> Player]
  BY <1>2 DEF DealInit
<1>4. TypeOK
  <2>1. balance \in [Seats -> Int] /\ house \in Int /\ reply \in Replies
    BY Names DEF DealInit
  <2> QED
    BY <1>1, <1>3, <2>1 DEF TypeOK
<1>5. \A s \in Seats : Fair(players[s], table)
  BY <1>1, <1>2, FairFields DEF Fair, Live, Streets
<1>6. Covered(players, table)
  BY <1>1, StakesAssumption DEF Covered, Streets
<1>7. InHand(players) = {}
  BY <1>2 DEF InHand
<1>8. DueFits /\ RoundBalanced
  BY <1>1, <1>7 DEF DealInit, DueFits, RoundBalanced, AtMostOne, Streets
<1> QED
  BY <1>4, <1>5, <1>6, <1>8 DEF HandInv, HandFacts

\* And every step keeps it.
LEMMA HandNextKeeps ==
    ASSUME HandInv, WebClient, [HandNext \/ Finished]_vars
    PROVE  HandInv'
<1>1. TypeOK'
  <2>1. TypeOK /\ [Next]_vars
    BY DEF HandInv, Next, Finished
  <2> QED
    BY <2>1, NextType
<1>2. CASE HandNext
  <2>1. Kept
    <3>1. ASSUME NEW s \in Seats, Bet(s) \/ Timeout(s)
          PROVE  Kept
      BY <3>1, BetKeeps, TimeoutKeeps
    <3>2. CASE NextStreet
      BY <3>2, NextStreetKeeps
    <3>3. ASSUME NEW score \in [InHand(players) -> Scores], Showdown(score)
          PROVE  Kept
      BY <3>3, ShowdownKeeps
    <3>4. CASE NextHand
      BY <3>4, TooFewKeeps, DealKeeps DEF NextHand
    <3> QED
      BY <1>2, <3>1, <3>2, <3>3, <3>4 DEF HandNext
  <2> QED
    BY <1>1, <2>1 DEF Kept, HandInv, HandFacts
<1>3. CASE Finished \/ UNCHANGED vars
  <2>1. players' = players /\ table' = table /\ reply' = reply
    BY <1>3 DEF Finished, vars
  <2>2. HandFacts(players, table) /\ DueFits /\ RoundBalanced
    BY DEF HandInv
  <2>3. HandFacts(players', table')
    BY <2>1, <2>2
  <2>4. DueFits' /\ RoundBalanced'
    BY <2>1, <2>2 DEF DueFits, RoundBalanced
  <2> QED
    BY <1>1, <2>3, <2>4 DEF HandInv, HandFacts
<1> QED
  BY <1>2, <1>3

LEMMA HandInvHolds ==
    ASSUME WebClient
    PROVE  ClosedTable => []HandInv
<1>1. DealInit => HandInv
  BY DealInitKeeps
<1>2. HandInv /\ [HandNext \/ Finished]_vars => HandInv'
  BY HandNextKeeps
<1> QED
  BY <1>1, <1>2, PTL DEF ClosedTable

(***************************************************************************)
(* What follows of every reachable state.                                  *)
(***************************************************************************)

\* The runs' specifications, in which bets may be restricted further, are closed tables.
LEMMA RunsAreClosed == (HandSpec => ClosedTable) /\ (PromptSpec => ClosedTable)
<1>1. [(HandNext /\ RaisesInTime) \/ Finished]_vars => [HandNext \/ Finished]_vars
  OBVIOUS
<1>2. PromptInit => DealInit
  BY DEF PromptInit
<1> QED
  BY <1>1, <1>2, PTL DEF HandSpec, PromptSpec, ClosedTable

\* No stack is overdrawn, and the pot covers the bets of the players in the hand, so that
\* an uncalled bet can be given back (bet.lua:502-512).
THEOREM StacksAndPotSolvent ==
    ASSUME WebClient
    PROVE  ClosedTable => []Solvent
<1>1. HandInv => Solvent
  <2> SUFFICES ASSUME HandInv
               PROVE  Solvent
    OBVIOUS
  <2>1. \A s \in Seats : players[s].status \in Live <=> s \in InHand(players)
    BY LiveIs
  <2>2. LiveBets(players) = [s \in Seats |-> IF s \in InHand(players)
                                               THEN players[s].currentBet ELSE 0]
    BY <2>1 DEF LiveBets
  <2> QED
    BY <2>2 DEF HandInv, HandFacts, Fair, Covered, Solvent
<1> QED
  BY <1>1, HandInvHolds, PTL

\* A round closes on matched bets: nobody who can still act has bet less than anybody in
\* the hand when the street is due (bet.lua's two conditions and its refund).
THEOREM RoundsCloseBalanced ==
    ASSUME WebClient
    PROVE  ClosedTable => []RoundBalanced
<1>1. HandInv => RoundBalanced
  BY DEF HandInv
<1> QED
  BY <1>1, HandInvHolds, PTL

\* The table never waits for a player who cannot act (getNextActiveSeat in the scripts).
THEOREM TurnsAreLive ==
    ASSUME WebClient
    PROVE  ClosedTable => []TurnIsLive
<1>1. HandInv => TurnIsLive
  BY DEF HandInv, DueFits, TurnIsLive
<1> QED
  BY <1>1, HandInvHolds, PTL

\* While a hand is played, who holds cards is in it, and nobody in it with chips in the pot
\* is without cards (the resets of next_hand.lua and showdown.lua).
THEOREM CardsAreForTheHand ==
    ASSUME WebClient
    PROVE  ClosedTable => []CardsMatchHand
<1>1. HandInv => CardsMatchHand
  <2> SUFFICES ASSUME HandInv, table.phase \in Streets, NEW s \in Seats
               PROVE  /\ players[s].cards => s \in InHand(players)
                      /\ s \in InHand(players) => players[s].cards
    BY DEF CardsMatchHand
  <2>1. players[s].status \in Live <=> s \in InHand(players)
    BY LiveIs
  <2> QED
    BY <2>1 DEF HandInv, HandFacts, Fair
<1> QED
  BY <1>1, HandInvHolds, PTL

(***************************************************************************)
(* What follows of a showdown.                                             *)
(***************************************************************************)

\* At a closed table only showdown.lua settles a hand by score.
LEMMA OnlyShowdownJudges ==
    ASSUME HandInv, [HandNext \/ Finished]_vars, Judged
    PROVE  \E score \in [InHand(players) -> Scores] : Showdown(score)
<1>1. reply = "showdown" /\ reply' = "complete"
  BY DEF Judged
<1>2. \A s \in Seats : ~Bet(s) /\ ~Timeout(s)
  BY <1>1 DEF Bet, Fold, Check, Call, AllIn, Raise, MayBet, Timeout, TimeoutExtend,
              TimeoutFold, TimesOut
<1>3. ~NextStreet /\ ~NextHand /\ ~Finished /\ ~UNCHANGED vars
  BY <1>1 DEF NextStreet, NextHand, TooFewToDeal, Deal, Finished, vars
<1> QED
  BY <1>2, <1>3 DEF HandNext

\* What the pot and the records are when showdown.lua divides one by the other.
LEMMA PotAndRecords ==
    ASSUME HandInv
    PROVE  /\ table.pot \in Nat /\ table.pot - Rake(table.pot) \in 0..table.pot
           /\ \A s \in Seats : Contributions(players)[s] \in Nat
           /\ InHand(players) \in SUBSET Seats
<1>1. /\ players \in [Seats -> Player] /\ table \in Table /\ HandFacts(players, table)
  BY DEF HandInv, TypeOK
<1>2. table.pot \in Nat
  BY <1>1, TableFields DEF HandFacts, Covered
<1>3. Rake(table.pot) \in 0..table.pot
  BY <1>2, RakeBounds
<1>4. \A s \in Seats : Contributions(players)[s] \in Nat
  BY <1>1, PlayerFields DEF Contributions, HandFacts, Fair
<1> QED
  BY <1>1, <1>2, <1>3, <1>4, SeatSets

\* A player who is all-in for less wins from each opponent at most what he put in himself,
\* whatever side pots were built above him (showdown.lua:85-150).
THEOREM AllInWinsItsShare ==
    ASSUME WebClient
    PROVE  ClosedTable => AllInCap
<1> DEFINE cap(s) == SeatSum([r \in Seats |->
                        Smaller(players[r].totalContribution, players[s].totalContribution)])
<1>1. ASSUME HandInv, [HandNext \/ Finished]_vars, Judged, NEW s \in Seats
      PROVE  Gain(s) <= cap(s)
  <2>1. PICK score \in [InHand(players) -> Scores] : Showdown(score)
    BY <1>1, OnlyShowdownJudges
  <2> DEFINE gross == table.pot
             net == table.pot - Rake(table.pot)
             contrib == Contributions(players)
             alive == InHand(players)
  <2>2. PICK won : /\ won \in Payouts(contrib, alive, score, gross, net)
                   /\ won[s] \in Nat /\ players'[s].chips = players[s].chips + won[s]
    BY <1>1, <2>1, ShowdownPays
  <2>3. /\ gross \in Nat /\ net \in 0..gross /\ alive \in SUBSET Seats
        /\ \A r \in Seats : contrib[r] \in Nat
    BY <1>1, PotAndRecords
  <2>4. won[s] <= SeatSum([r \in Seats |-> Smaller(contrib[r], contrib[s])])
    <3>1. PICK c, a, g, n : c = contrib /\ a = alive /\ g = gross /\ n = net
      OBVIOUS
    <3> HIDE DEF contrib, alive, gross, net
    <3>2. /\ won \in Payouts(c, a, score, g, n) /\ g \in Nat /\ n \in 0..g
          /\ a \in SUBSET Seats /\ \A r \in Seats : c[r] \in Nat
      BY <2>2, <2>3, <3>1
    <3>3. won[s] <= SeatSum([r \in Seats |-> Smaller(c[r], c[s])])
      BY <3>2, PayoutCapped
    <3> QED
      BY <3>1, <3>3
  <2>5. SeatSum([r \in Seats |-> Smaller(contrib[r], contrib[s])]) = cap(s)
    BY DEF Contributions
  <2>6. Gain(s) = won[s]
    <3>1. players[s].chips \in Int
      BY <1>1, PlayerFields DEF HandInv, TypeOK
    <3> QED
      BY <2>2, <3>1 DEF Gain
  <2> HIDE DEF contrib, cap
  <2> QED
    BY <2>4, <2>5, <2>6
<1>2. HandInv /\ [HandNext \/ Finished]_vars
        => [Judged => \A s \in Seats : Gain(s) <= cap(s)]_vars
  BY <1>1
<1> QED
  BY <1>2, HandInvHolds, PTL DEF ClosedTable, AllInCap

\* A showdown pays what is contested: each contribution up to the largest one in the hand,
\* less the rake's part of it and less a chip at most for each side pot; without rake, to
\* the chip (showdown.lua:85-150).
LEMMA ContestedPaid ==
    ASSUME HandInv, [HandNext \/ Finished]_vars, Judged
    PROVE  LET contrib == Contributions(players)
               paid == SeatSum([s \in Seats |-> Gain(s)])
               rake == house' - house
               lost == Contested(contrib, InHand(players)) * (table.pot - rake)
                         - paid * table.pot
           IN  /\ 0 <= lost
               /\ lost <= (IF rake = 0 THEN 0
                           ELSE Cardinality(LevelSeats(contrib)) * table.pot)
<1>1. PICK score \in [InHand(players) -> Scores] : Showdown(score)
  BY OnlyShowdownJudges
<1>2. PICK won : /\ won \in Payouts(Contributions(players), InHand(players), score,
                                    table.pot, table.pot - Rake(table.pot))
                 /\ \A s \in Seats : won[s] \in Nat /\ players'[s].chips = players[s].chips + won[s]
  BY <1>1, ShowdownPays
<1>3. PICK c, a, g, n, k : /\ c = Contributions(players) /\ a = InHand(players)
                           /\ g = table.pot /\ k = Rake(table.pot) /\ n = g - k
  OBVIOUS
<1>4. /\ g \in Nat /\ n \in 0..g /\ a \in SUBSET Seats /\ \A s \in Seats : c[s] \in Nat
      /\ won \in Payouts(c, a, score, g, n) /\ score \in [a -> Nat]
  <2>1. score \in [a -> Nat]
    BY <1>3, RulesAssumption
  <2> QED
    BY <1>2, <1>3, <2>1, PotAndRecords
<1>5. /\ SeatSum(won) \in Nat /\ Contested(c, a) \in Nat
      /\ SeatSum(won) * g <= Contested(c, a) * n
      /\ Contested(c, a) * n <= SeatSum(won) * g + Cardinality(LevelSeats(c)) * g
      /\ n = g => SeatSum(won) * g = Contested(c, a) * n
  BY <1>4, PayoutTotal
<1>6. SeatSum([s \in Seats |-> Gain(s)]) = SeatSum(won)
  <2>1. \A s \in Seats : players[s].chips \in Int
    BY PlayerFields DEF HandInv, TypeOK
  <2>2. \A s \in Seats : [r \in Seats |-> Gain(r)][s] = won[s]
    BY <1>2, <2>1 DEF Gain
  <2> QED
    BY <2>2, SeatSumEqual
<1>7. house' - house = k
  <2>1. house' = house + Rake(table.pot) /\ house \in Int
    BY <1>1 DEF Showdown, HandInv, TypeOK
  <2>2. k \in Int
    BY <1>3, PotAndRecords, RakeBounds
  <2> QED
    BY <1>3, <2>1, <2>2
<1>8. Cardinality(LevelSeats(c)) \in Nat
  <2>1. LevelSeats(c) \in SUBSET Seats
    BY DEF LevelSeats
  <2> QED
    BY <2>1, SeatsFinite
<1>9. ASSUME NEW paid \in Nat, NEW due \in Nat, NEW levels \in Nat,
             paid * g <= due * n, due * n <= paid * g + levels * g,
             n = g => paid * g = due * n
      PROVE  /\ 0 <= due * n - paid * g
             /\ due * n - paid * g <= (IF k = 0 THEN 0 ELSE levels * g)
  <2>1. /\ paid * g \in Int /\ due * n \in Int /\ levels * g \in Int
    BY <1>4
  <2>2. k = 0 => n = g
    BY <1>3, <1>4
  <2> QED
    BY <1>9, <2>1, <2>2
<1>10. /\ 0 <= Contested(c, a) * n - SeatSum(won) * g
       /\ Contested(c, a) * n - SeatSum(won) * g
            <= (IF k = 0 THEN 0 ELSE Cardinality(LevelSeats(c)) * g)
  <2>1. PICK paid, due, levels : /\ paid = SeatSum(won) /\ due = Contested(c, a)
                                 /\ levels = Cardinality(LevelSeats(c))
    OBVIOUS
  <2>2. /\ paid \in Nat /\ due \in Nat /\ levels \in Nat
        /\ paid * g <= due * n /\ due * n <= paid * g + levels * g
        /\ n = g => paid * g = due * n
    BY <1>5, <1>8, <2>1
  <2>3. /\ 0 <= due * n - paid * g
        /\ due * n - paid * g <= (IF k = 0 THEN 0 ELSE levels * g)
    BY <1>9, <2>2
  <2> QED
    BY <2>1, <2>3
<1> QED
  BY <1>3, <1>6, <1>7, <1>10

\* What the run checks of a showdown holds for every table.
THEOREM ShowdownsPayTheContested ==
    ASSUME WebClient
    PROVE  ClosedTable => ShowdownPaysTheContested
<1> DEFINE contrib == Contributions(players)
           live == SeatMax([s \in Seats |-> IF s \in InHand(players) THEN contrib[s] ELSE 0])
           contested == SeatSum([s \in Seats |-> Smaller(contrib[s], live)])
           paid == SeatSum([s \in Seats |-> Gain(s)])
           rake == house' - house
           lost == contested * (table.pot - rake) - paid * table.pot
           bounds == /\ 0 <= lost
                     /\ lost <= (IF rake = 0 THEN 0
                                 ELSE Cardinality(LevelSeats(contrib)) * table.pot)
<1>1. Contested(contrib, InHand(players)) = contested
  BY DEF Contested, Largest
<1>2. ASSUME HandInv, [HandNext \/ Finished]_vars, Judged
      PROVE  bounds
  <2> HIDE DEF contested, paid, rake
  <2> QED
    BY <1>1, <1>2, ContestedPaid DEF paid, rake
<1>3. HandInv /\ [HandNext \/ Finished]_vars => [Judged => bounds]_vars
  BY <1>2
<1> QED
  BY <1>3, HandInvHolds, PTL DEF ClosedTable, ShowdownPaysTheContested

(***************************************************************************)
(* Chips set aside for the next hand, and what there is in all.            *)
(***************************************************************************)


\* Who bets leaves what he has set aside.
LEMMA BetLeavesAside ==
    ASSUME TypeOK, NEW s \in Seats, Bet(s)
    PROVE  \E p, t : /\ AfterBet(s, p, t)
                     /\ "pendingTopUp" \in DOMAIN p /\ p.pendingTopUp = players[s].pendingTopUp
<1> PICK own : own = players[s]
  OBVIOUS
<1>1. own \in Player
  BY DEF TypeOK
<1>2. CASE Fold(s)
  <2>1. AfterBet(s, [own EXCEPT !.status = "folded", !.cards = FALSE], Acted(table, FALSE))
    BY <1>2 DEF Fold
  <2> PICK q : q = [own EXCEPT !.status = "folded", !.cards = FALSE]
    OBVIOUS
  <2>2. "pendingTopUp" \in DOMAIN q /\ q.pendingTopUp = own.pendingTopUp
    BY <1>1 DEF Player
  <2> QED
    BY <2>1, <2>2
<1>3. CASE Check(s)
  <2>1. AfterBet(s, own, Acted(table, FALSE))
    BY <1>3 DEF Check
  <2> QED
    BY <1>1, <2>1 DEF Player
<1>4. \A chips, status : LET p == Put(own, chips, status)
         IN  "pendingTopUp" \in DOMAIN p /\ p.pendingTopUp = own.pendingTopUp
  BY <1>1 DEF Put, Player
<1>5. CASE Call(s)
  <2>1. \E chips, status, t : AfterBet(s, Put(own, chips, status), t)
    BY <1>5 DEF Call
  <2> QED
    BY <1>4, <2>1
<1>6. CASE AllIn(s)
  <2>1. \E chips, status, t : AfterBet(s, Put(own, chips, status), t)
    BY <1>6 DEF AllIn
  <2> QED
    BY <1>4, <2>1
<1>7. ASSUME NEW amount \in 0..MaxAmount, Raise(s, amount)
      PROVE  \E p, t : /\ AfterBet(s, p, t)
                       /\ "pendingTopUp" \in DOMAIN p /\ p.pendingTopUp = own.pendingTopUp
  <2> DEFINE put == IF Capped(s, amount) >= players[s].chips
                      THEN players[s].chips ELSE Capped(s, amount) - players[s].currentBet
             bet == players[s].currentBet + put
             raised == Put(players[s], put, IF players[s].chips = put THEN "all-in" ELSE "active")
             kept == IF players[s].usingBank THEN players[s].totalContribution
                                             ELSE raised.totalContribution
             after == [Acted(table, TRUE) EXCEPT
                         !.pot = @ + put,
                         !.currentBet = bet,
                         !.lastRaiseSize = IF bet > table.currentBet
                                             THEN bet - table.currentBet ELSE @]
  <2>0. AfterBet(s, [raised EXCEPT !.totalContribution = kept], after)
    BY <1>7 DEF Raise
  <2>1. \E chips, status, recorded, t :
           AfterBet(s, [Put(own, chips, status) EXCEPT !.totalContribution = recorded], t)
    <3> HIDE DEF put, kept, after
    <3> QED
      BY <2>0
  <2>2. PICK chips, status, recorded, t :
           AfterBet(s, [Put(own, chips, status) EXCEPT !.totalContribution = recorded], t)
    BY <2>1
  <2> PICK q : q = Put(own, chips, status)
    OBVIOUS
  <2>3. LET p == [q EXCEPT !.totalContribution = recorded]
        IN  "pendingTopUp" \in DOMAIN p /\ p.pendingTopUp = own.pendingTopUp
    BY <1>4
  <2> QED
    BY <2>2, <2>3
<1> QED
  BY <1>2, <1>3, <1>5, <1>6, <1>7 DEF Bet

\* So does whatever follows a move: winning the pot, a refund, or nothing.
LEMMA OutcomeLeavesAside ==
    ASSUME NEW ps, NEW t, NEW turn, NEW refund, \A s \in Seats : "pendingTopUp" \in DOMAIN ps[s],
           HandWon(ps, t, turn) \/ RoundOver(ps, t, turn, refund) \/ PlayOn(ps, t, turn)
    PROVE  \A s \in Seats : players'[s].pendingTopUp = ps[s].pendingTopUp
<1>1. CASE HandWon(ps, t, turn)
  BY <1>1 DEF HandWon
<1>2. CASE RoundOver(ps, t, turn, refund)
  <2>1. \A s \in Seats : Refunded(ps[s], refund[s]).pendingTopUp = ps[s].pendingTopUp
    BY DEF Refunded
  <2>2. \A s \in Seats : players'[s] = Refunded(ps[s], refund[s])
    BY <1>2 DEF RoundOver
  <2> QED
    BY <2>1, <2>2
<1>3. CASE PlayOn(ps, t, turn)
  BY <1>3 DEF PlayOn
<1> QED
  BY <1>1, <1>2, <1>3

\* Bets, timeouts and streets move no chips that are set aside (bet.lua, timeout.lua,
\* next_street.lua).
LEMMA PlayLeavesAside ==
    ASSUME TypeOK, (\E s \in Seats : Bet(s) \/ Timeout(s)) \/ NextStreet
    PROVE  /\ \A s \in Seats : players'[s].pendingTopUp = players[s].pendingTopUp
           /\ balance' = balance /\ house' = house
<1>1. players \in [Seats -> Player]
  BY DEF TypeOK
<1>2. \A s \in Seats : "pendingTopUp" \in DOMAIN players[s]
  BY <1>1 DEF Player
<1>3. ASSUME NEW s \in Seats, Bet(s)
      PROVE  /\ \A r \in Seats : players'[r].pendingTopUp = players[r].pendingTopUp
             /\ balance' = balance /\ house' = house
  <2>1. PICK p, t : /\ AfterBet(s, p, t) /\ "pendingTopUp" \in DOMAIN p
                    /\ p.pendingTopUp = players[s].pendingTopUp
    BY <1>3, BetLeavesAside
  <2>2. \E ps, next, refund :
           /\ \E bank : ps = [players EXCEPT ![s] = [p EXCEPT !.timeBank = bank, !.usingBank = FALSE]]
           /\ \/ HandWon(ps, t, t.turnSeat)
              \/ RoundOver(ps, t, next, refund)
              \/ PlayOn(ps, t, next)
           /\ UNCHANGED <<balance, house>>
    BY <2>1 DEF AfterBet
  <2>3. PICK ps, next, refund, bank :
           /\ ps = [players EXCEPT ![s] = [p EXCEPT !.timeBank = bank, !.usingBank = FALSE]]
           /\ \/ HandWon(ps, t, t.turnSeat)
              \/ RoundOver(ps, t, next, refund)
              \/ PlayOn(ps, t, next)
           /\ UNCHANGED <<balance, house>>
    BY <2>2
  <2>4. \A r \in Seats : /\ "pendingTopUp" \in DOMAIN ps[r]
                         /\ ps[r].pendingTopUp = players[r].pendingTopUp
    <3>1. LET q == [p EXCEPT !.timeBank = bank, !.usingBank = FALSE]
          IN  "pendingTopUp" \in DOMAIN q /\ q.pendingTopUp = players[s].pendingTopUp
      BY <2>1
    <3> QED
      BY <1>1, <1>2, <2>3, <3>1
  <2> QED
    BY <2>3, <2>4, OutcomeLeavesAside
<1>4. ASSUME NEW s \in Seats, TimeoutExtend(s)
      PROVE  /\ \A r \in Seats : players'[r].pendingTopUp = players[r].pendingTopUp
             /\ balance' = balance /\ house' = house
  BY <1>1, <1>2, <1>4 DEF TimeoutExtend
<1>5. ASSUME NEW s \in Seats, TimeoutFold(s)
      PROVE  /\ \A r \in Seats : players'[r].pendingTopUp = players[r].pendingTopUp
             /\ balance' = balance /\ house' = house
  <2>1. \E ps, t, next, refund :
           /\ ps = [players EXCEPT ![s] = [@ EXCEPT !.status = "folded", !.cards = FALSE,
                                               !.usingBank = FALSE, !.benchAfterHand = TRUE]]
           /\ \/ HandWon(ps, t, NoSeat)
              \/ RoundOver(ps, t, NoSeat, refund)
              \/ PlayOn(ps, t, next)
           /\ UNCHANGED <<balance, house>>
    BY <1>5 DEF TimeoutFold
  <2>2. PICK ps, t, next, refund :
           /\ ps = [players EXCEPT ![s] = [@ EXCEPT !.status = "folded", !.cards = FALSE,
                                               !.usingBank = FALSE, !.benchAfterHand = TRUE]]
           /\ \/ HandWon(ps, t, NoSeat)
              \/ RoundOver(ps, t, NoSeat, refund)
              \/ PlayOn(ps, t, next)
           /\ UNCHANGED <<balance, house>>
    BY <2>1
  <2>3. \A r \in Seats : /\ "pendingTopUp" \in DOMAIN ps[r]
                         /\ ps[r].pendingTopUp = players[r].pendingTopUp
    BY <1>1, <1>2, <2>2
  <2> QED
    BY <2>2, <2>3, OutcomeLeavesAside
<1>6. ASSUME NextStreet
      PROVE  /\ \A r \in Seats : players'[r].pendingTopUp = players[r].pendingTopUp
             /\ balance' = balance /\ house' = house
  BY <1>2, <1>6 DEF NextStreet
<1> QED
  BY <1>3, <1>4, <1>5, <1>6 DEF Timeout

\* What seat s owns of record p: its stack and what is set aside.
Worth(p) == p.chips + p.pendingTopUp
Worths(ps) == [s \in Seats |-> Worth(ps[s])]
Asides(ps) == [s \in Seats |-> ps[s].pendingTopUp]
Owned(ps, b) == [s \in Seats |-> ps[s].chips + ps[s].pendingTopUp + b[s]]

\* q is p with the same stack and the same chips set aside.
SameWorth(q, p) == q \in Player /\ q.chips = p.chips /\ q.pendingTopUp = p.pendingTopUp

\* All the money is what the seats own, the wallets, the pot and the rake.
LEMMA MoneyIs ==
    ASSUME NEW ps \in [Seats -> Player], NEW b \in [Seats -> Int]
    PROVE  /\ SeatSum(Owned(ps, b)) = SeatSum(Worths(ps)) + SeatSum(b)
           /\ SeatSum(Worths(ps)) \in Int /\ SeatSum(b) \in Int
<1>1. \A s \in Seats : /\ Worths(ps)[s] \in Int /\ b[s] \in Int
                       /\ Owned(ps, b)[s] = Worths(ps)[s] + b[s]
  BY PlayerFields DEF Worths, Worth, Owned
<1> QED
  BY <1>1, SeatSumAdd, SeatSumType

\* The stakes and what is set aside are all that moves when wallets and rake stay.
LEMMA WorthsOf ==
    ASSUME NEW ps \in [Seats -> Player]
    PROVE  /\ SeatSum(Worths(ps)) = SeatSum(Chips(ps)) + SeatSum(Asides(ps))
           /\ SeatSum(Chips(ps)) \in Int
           /\ SeatSum(Asides(ps)) \in Int
<1>1. \A s \in Seats : /\ Chips(ps)[s] \in Int /\ Asides(ps)[s] \in Int
                       /\ Worths(ps)[s] = Chips(ps)[s] + Asides(ps)[s]
  BY PlayerFields DEF Worths, Worth, Chips, Asides
<1>2. SeatSum(Worths(ps)) = SeatSum(Chips(ps)) + SeatSum(Asides(ps))
  BY <1>1, SeatSumAdd
<1>3. SeatSum(Chips(ps)) \in Int /\ SeatSum(Asides(ps)) \in Int
  BY <1>1, SeatSumType
<1> QED
  BY <1>2, <1>3

\* Bets, timeouts and streets keep all there is.
LEMMA PlayKeepsMoney ==
    ASSUME TypeOK, TypeOK', (\E s \in Seats : Bet(s) \/ Timeout(s)) \/ NextStreet
    PROVE  Money' = Money
<1>1. /\ \A s \in Seats : players'[s].pendingTopUp = players[s].pendingTopUp
      /\ balance' = balance /\ house' = house
  BY PlayLeavesAside
<1>2. Stakes' = Stakes
  BY BetConserves, TimeoutConserves, NextStreetConserves
<1>3. /\ players \in [Seats -> Player] /\ players' \in [Seats -> Player]
      /\ balance \in [Seats -> Int] /\ house \in Int
      /\ table.pot \in Int /\ table'.pot \in Int
  BY TableFields DEF TypeOK
<1>4. SeatSum(Asides(players'))
        = SeatSum(Asides(players))
  <2>1. \A s \in Seats : Asides(players')[s] = Asides(players)[s]
    BY <1>1 DEF Asides
  <2> QED
    BY <2>1, SeatSumEqual
<1>5. /\ Money = SeatSum(Owned(players, balance)) + table.pot + house
      /\ Money' = SeatSum(Owned(players', balance')) + table'.pot + house'
  BY DEF Money, Owned
<1>6. /\ SeatSum(Owned(players, balance)) = SeatSum(Worths(players)) + SeatSum(balance)
      /\ SeatSum(Owned(players', balance)) = SeatSum(Worths(players')) + SeatSum(balance)
      /\ SeatSum(balance) \in Int
  BY <1>3, MoneyIs
<1>7. /\ SeatSum(Worths(players))
           = SeatSum(Chips(players)) + SeatSum(Asides(players))
      /\ SeatSum(Worths(players'))
           = SeatSum(Chips(players')) + SeatSum(Asides(players'))
      /\ SeatSum(Chips(players)) \in Int /\ SeatSum(Chips(players')) \in Int
      /\ SeatSum(Asides(players)) \in Int
  BY <1>3, WorthsOf
<1>8. SeatSum(Chips(players')) + table'.pot = SeatSum(Chips(players)) + table.pot
  BY <1>2 DEF Stakes
<1>9. SeatSum(Worths(players')) + table'.pot = SeatSum(Worths(players)) + table.pot
  BY <1>3, <1>4, <1>7, <1>8
<1>10. /\ SeatSum(Owned(players', balance')) = SeatSum(Worths(players')) + SeatSum(balance)
       /\ SeatSum(Worths(players')) \in Int /\ SeatSum(Worths(players)) \in Int
  BY <1>1, <1>3, <1>6, MoneyIs
<1>11. Money = SeatSum(Worths(players)) + SeatSum(balance) + table.pot + house
  BY <1>5, <1>6
<1>12. Money' = SeatSum(Worths(players')) + SeatSum(balance) + table'.pot + house
  BY <1>1, <1>5, <1>10
<1> QED
  BY <1>3, <1>6, <1>9, <1>10, <1>11, <1>12

\* The resets between two hands leave the chips alone (next_hand.lua:100-176).
LEMMA ResetsKeepWorth ==
    ASSUME NEW p \in Player
    PROVE  /\ SameWorth(Cleared(p), p) /\ SameWorth(SatOut(p), p)
           /\ SameWorth(Ghosted(p), p) /\ SameWorth(Promoted(p), p)
           /\ ToppedUp(p) \in Player /\ Worth(ToppedUp(p)) = Worth(p)
           /\ Dealt(p) \in Player /\ Worth(Dealt(p)) = Worth(p)
<1>1. SameWorth(Cleared(p), p)
  BY ClearedType DEF SameWorth, Cleared, Player
<1> PICK c : c = Cleared(p)
  OBVIOUS
<1>2. SameWorth(SatOut(p), p)
  <2>1. SatOut(p) = [c EXCEPT !.status = "sitting_out"] /\ SatOut(p) \in Player
    BY SatOutType DEF SatOut
  <2> QED
    BY <1>1, <2>1 DEF SameWorth, Player
<1>3. SameWorth(Ghosted(p), p)
  BY <1>2 DEF Ghosted, SameWorth
<1>4. SameWorth(Promoted(p), p)
  <2> PICK o : o = SatOut(p)
    OBVIOUS
  <2>1. Promoted(p) \in Player
    BY PromotedType
  <2>2. /\ c \in Player /\ c.chips = p.chips /\ c.pendingTopUp = p.pendingTopUp
        /\ o \in Player /\ o.chips = p.chips /\ o.pendingTopUp = p.pendingTopUp
    BY <1>1, <1>2 DEF SameWorth
  <2>3. \/ Promoted(p) \in {p, c}
        \/ Promoted(p) = [o EXCEPT !.benchAfterHand = FALSE]
        \/ Promoted(p) = [o EXCEPT !.sitOutNextHand = FALSE]
        \/ Promoted(p) = [c EXCEPT !.status = "active", !.timeBank = Smaller(@ + 2, TimeBank)]
    BY DEF Promoted
  <2>4. /\ [o EXCEPT !.benchAfterHand = FALSE].chips = p.chips
        /\ [o EXCEPT !.benchAfterHand = FALSE].pendingTopUp = p.pendingTopUp
        /\ [o EXCEPT !.sitOutNextHand = FALSE].chips = p.chips
        /\ [o EXCEPT !.sitOutNextHand = FALSE].pendingTopUp = p.pendingTopUp
    BY <2>2 DEF Player
  <2>5. LET q == [c EXCEPT !.status = "active", !.timeBank = Smaller(@ + 2, TimeBank)]
        IN  q.chips = p.chips /\ q.pendingTopUp = p.pendingTopUp
    BY <2>2 DEF Player
  <2> QED
    BY <2>1, <2>2, <2>3, <2>4, <2>5 DEF SameWorth
<1>5. ToppedUp(p) \in Player /\ Worth(ToppedUp(p)) = Worth(p)
  <2>1. ToppedUp(p) \in Player
    BY ToppedUpType
  <2>2. ToppedUp(p).chips = p.chips + p.pendingTopUp /\ ToppedUp(p).pendingTopUp = 0
    BY DEF ToppedUp, Player
  <2>3. p.chips \in Int /\ p.pendingTopUp \in Int
    BY PlayerFields
  <2> QED
    BY <2>1, <2>2, <2>3 DEF Worth
<1>6. Dealt(p) \in Player /\ Worth(Dealt(p)) = Worth(p)
  BY DealtType DEF Dealt, Worth, Player
<1> QED
  BY <1>1, <1>2, <1>3, <1>4, <1>5, <1>6

\* What a seat owns is the same after the promotion pass ...
LEMMA SweptWorth ==
    ASSUME players \in [Seats -> Player], NEW s \in Seats
    PROVE  Worth(Swept[s]) = Worth(players[s])
<1> PICK p, t, g : p = players[s] /\ t = ToppedUp(p) /\ g = Ghosted(t)
  OBVIOUS
<1>1. p \in Player
  OBVIOUS
<1>2. t \in Player /\ Worth(t) = Worth(p)
  BY <1>1, ResetsKeepWorth
<1>3. g \in Player /\ Worth(g) = Worth(t)
  BY <1>2, ResetsKeepWorth DEF SameWorth, Worth
<1>4. Worth(Promoted(g)) = Worth(g)
  BY <1>3, ResetsKeepWorth DEF SameWorth, Worth
<1>5. Swept[s] = Promoted(g)
  BY DEF Swept
<1> QED
  BY <1>2, <1>3, <1>4, <1>5

\* ... and after somebody is marked as leaving at his big blind.
LEMMA KickedWorth ==
    ASSUME NEW ps \in [Seats -> Player], NEW s \in Seats
    PROVE  Worth(Kicked(ps)[s]) = Worth(ps[s])
<1> DEFINE bb == BigBlindSeat(ps, Button(ps))
<1>1. CASE Kicked(ps)[s] = ps[s]
  BY <1>1
<1>2. CASE Kicked(ps)[s] = [Cleared(ps[s]) EXCEPT !.status = "leaving", !.leaveNextBB = FALSE]
  <2> PICK c : c = Cleared(ps[s])
    OBVIOUS
  <2>1. c \in Player /\ c.chips = ps[s].chips /\ c.pendingTopUp = ps[s].pendingTopUp
    BY ResetsKeepWorth DEF SameWorth
  <2>2. Kicked(ps)[s].chips = c.chips /\ Kicked(ps)[s].pendingTopUp = c.pendingTopUp
    BY <1>2, <2>1 DEF Player
  <2> QED
    BY <2>1, <2>2 DEF Worth
<1> QED
  <2> HIDE DEF bb
  <2>1. \/ Kicked(ps) = ps
        \/ Kicked(ps) = [ps EXCEPT ![bb] =
              [Cleared(@) EXCEPT !.status = "leaving", !.leaveNextBB = FALSE]]
    BY DEF Kicked, bb
  <2> QED
    BY <1>1, <1>2, <2>1

\* Equal worths, equal sums.
LEMMA WorthsEqual ==
    ASSUME NEW ps, NEW qs, \A s \in Seats : Worth(ps[s]) = Worth(qs[s])
    PROVE  SeatSum(Worths(ps)) = SeatSum(Worths(qs))
<1>1. \A s \in Seats : Worths(ps)[s] = Worths(qs)[s]
  BY DEF Worths
<1> QED
  BY <1>1, SeatSumEqual

\* What two seats put in adds up to both amounts.
LEMMA TwoSeats ==
    ASSUME NEW sb \in Seats, NEW bb \in Seats, sb # bb, NEW small \in Int, NEW big \in Int
    PROVE  SeatSum([s \in Seats |-> IF s = bb THEN big ELSE IF s = sb THEN small ELSE 0])
             = big + small
<1> DEFINE posts == [s \in Seats |-> IF s = bb THEN big ELSE IF s = sb THEN small ELSE 0]
           bigs == [s \in Seats |-> IF s = bb THEN big ELSE 0]
           smalls == [s \in Seats |-> IF s = sb THEN small ELSE 0]
<1>1. \A s \in Seats : bigs[s] \in Int /\ smalls[s] \in Int /\ posts[s] = bigs[s] + smalls[s]
  OBVIOUS
<1>2. /\ bigs[bb] = big /\ \A r \in Seats \ {bb} : bigs[r] = 0
      /\ smalls[sb] = small /\ \A r \in Seats \ {sb} : smalls[r] = 0
  OBVIOUS
<1> HIDE DEF posts, bigs, smalls
<1>3. SeatSum(posts) = SeatSum(bigs) + SeatSum(smalls)
  BY <1>1, SeatSumAdd
<1>4. SeatSum(bigs) = bigs[bb]
  BY <1>1, <1>2, SeatSumSingle
<1>5. SeatSum(smalls) = smalls[sb]
  BY <1>1, <1>2, SeatSumSingle
<1>6. SeatSum(posts) = big + small
  BY <1>2, <1>3, <1>4, <1>5
<1> QED
  BY <1>6 DEF posts

\* The blinds come out of the stacks, and a deal makes nothing else of them
\* (next_hand.lua:258-440).
LEMMA DealPosts ==
    ASSUME HandInv, Deal
    PROVE  SeatSum(Worths(players')) + table'.pot = SeatSum(Worths(players))
<1>1. PICK ps, sb, bb : DealtTo(ps, sb, bb)
  BY DealSeats
<1>2. /\ ps \in [Seats -> Player] /\ sb \in Seats /\ bb \in Seats /\ sb # bb
      /\ \A s \in Seats : Fresh(ps[s])
      /\ \A s \in Seats : players'[s] =
            Dealt(IF s = bb THEN Posted(ps[s], BigBlind)
                  ELSE IF s = sb THEN Posted(ps[s], SmallBlind) ELSE ps[s])
      /\ table'.pot = Blind(ps[sb], SmallBlind) + Blind(ps[bb], BigBlind)
  BY <1>1, SeatSets DEF DealtTo
<1> PICK small, big : small = Blind(ps[sb], SmallBlind) /\ big = Blind(ps[bb], BigBlind)
  OBVIOUS
<1>3. SmallBlind \in Nat /\ BigBlind \in Nat
  BY StakesAssumption
<1>4. small \in Int /\ big \in Int
  BY <1>2, <1>3, PostedFields
<1>5. \A p, blind : p \in Player /\ Fresh(p) /\ blind \in Nat =>
         /\ Posted(p, blind) \in Player
         /\ Worth(Posted(p, blind)) = Worth(p) - Blind(p, blind)
  <2> SUFFICES ASSUME NEW p \in Player, Fresh(p), NEW blind \in Nat
               PROVE  /\ Posted(p, blind) \in Player
                      /\ Worth(Posted(p, blind)) = Worth(p) - Blind(p, blind)
    OBVIOUS
  <2>1. /\ Posted(p, blind) \in Player /\ Blind(p, blind) \in Int
        /\ Posted(p, blind).chips = p.chips - Blind(p, blind)
    BY PostedFields
  <2>2. Posted(p, blind).pendingTopUp = p.pendingTopUp
    BY DEF Posted, Player
  <2>3. p.chips \in Int /\ p.pendingTopUp \in Int
    BY PlayerFields
  <2> QED
    BY <2>1, <2>2, <2>3 DEF Worth
<1> DEFINE posts == [s \in Seats |-> IF s = bb THEN big ELSE IF s = sb THEN small ELSE 0]
<1>6. \A s \in Seats : Worth(ps[s]) \in Int
  BY <1>2, PlayerFields DEF Worth
<1>7. ASSUME NEW s \in Seats
      PROVE  Worth(players'[s]) = Worth(ps[s]) - posts[s]
  <2>1. CASE s = bb
    <3>1. Worth(players'[s]) = Worth(Posted(ps[s], BigBlind))
      BY <1>2, <1>3, <1>5, <2>1, ResetsKeepWorth
    <3> QED
      BY <1>2, <1>3, <1>5, <2>1, <3>1
  <2>2. CASE s = sb /\ s # bb
    <3>1. Worth(players'[s]) = Worth(Posted(ps[s], SmallBlind))
      BY <1>2, <1>3, <1>5, <2>2, ResetsKeepWorth
    <3> QED
      BY <1>2, <1>3, <1>5, <2>2, <3>1
  <2>3. CASE s # sb /\ s # bb
    <3>1. Worth(players'[s]) = Worth(ps[s])
      BY <1>2, <2>3, ResetsKeepWorth
    <3> QED
      BY <1>6, <2>3, <3>1
  <2> QED
    BY <2>1, <2>2, <2>3
<1>8. SeatSum(posts) = big + small
  BY <1>2, <1>4, TwoSeats
<1>9. SeatSum(Worths(ps)) = SeatSum(Worths(players')) + SeatSum(posts)
  <2>1. \A s \in Seats : /\ Worths(players')[s] \in Int /\ posts[s] \in Int
                         /\ Worths(ps)[s] = Worths(players')[s] + posts[s]
    BY <1>4, <1>6, <1>7 DEF Worths
  <2> HIDE DEF posts
  <2> QED
    BY <2>1, SeatSumAdd
<1>10. SeatSum(Worths(players')) \in Int
  <2>1. \A s \in Seats : Worths(players')[s] \in Int
    BY <1>4, <1>6, <1>7 DEF Worths
  <2> QED
    BY <2>1, SeatSumType
<1>11. SeatSum(Worths(ps)) = SeatSum(Worths(players))
  <2>1. players \in [Seats -> Player] /\ table \in Table
    BY DEF HandInv, TypeOK
  <2>2. Swept \in [Seats -> Player]
    BY SweptType DEF HandInv
  <2> PICK swept : swept = Swept
    OBVIOUS
  <2>3. \A s \in Seats : Worth(Kicked(swept)[s]) = Worth(swept[s])
    BY <2>2, KickedWorth
  <2>4. \A s \in Seats : Worth(swept[s]) = Worth(players[s])
    BY <2>1, SweptWorth
  <2>5. ps = Kicked(swept)
    BY <1>1 DEF DealtTo
  <2>6. \A s \in Seats : Worth(ps[s]) = Worth(players[s])
    BY <2>3, <2>4, <2>5
  <2> QED
    BY <2>6, WorthsEqual
<1> HIDE DEF posts
<1> QED
  BY <1>2, <1>4, <1>8, <1>9, <1>10, <1>11

\* Whenever the table's part of the money does not grow, the money does not.
LEMMA MoneyFollows ==
    ASSUME TypeOK, TypeOK', balance' = balance,
           SeatSum(Worths(players')) + table'.pot + house'
             <= SeatSum(Worths(players)) + table.pot + house
    PROVE  Money' <= Money
<1>1. /\ players \in [Seats -> Player] /\ players' \in [Seats -> Player]
      /\ balance \in [Seats -> Int] /\ house \in Int /\ house' \in Int
      /\ table.pot \in Int /\ table'.pot \in Int
  BY TableFields DEF TypeOK
<1>2. /\ Money = SeatSum(Owned(players, balance)) + table.pot + house
      /\ Money' = SeatSum(Owned(players', balance')) + table'.pot + house'
  BY DEF Money, Owned
<1>3. /\ SeatSum(Owned(players, balance)) = SeatSum(Worths(players)) + SeatSum(balance)
      /\ SeatSum(Owned(players', balance)) = SeatSum(Worths(players')) + SeatSum(balance)
      /\ SeatSum(balance) \in Int
      /\ SeatSum(Worths(players)) \in Int /\ SeatSum(Worths(players')) \in Int
  BY <1>1, MoneyIs
<1>4. Money = SeatSum(Worths(players)) + SeatSum(balance) + table.pot + house
  BY <1>2, <1>3
<1>5. Money' = SeatSum(Worths(players')) + SeatSum(balance) + table'.pot + house'
  BY <1>2, <1>3
<1> QED
  BY <1>1, <1>3, <1>4, <1>5

\* A hand that is not dealt leaves everybody what he owns (next_hand.lua:178-256).
LEMMA TooFewMakesNone ==
    ASSUME TypeOK, TypeOK', TooFewToDeal
    PROVE  Money' <= Money
<1>1. players \in [Seats -> Player] /\ table \in Table
  BY DEF TypeOK
<1>2. Swept \in [Seats -> Player]
  BY SweptType
<1> PICK swept : swept = Swept
  OBVIOUS
<1>3. players' = swept \/ players' = Kicked(swept)
  BY DEF TooFewToDeal
<1>4. \A s \in Seats : Worth(swept[s]) = Worth(players[s])
  BY <1>1, SweptWorth
<1>5. \A s \in Seats : Worth(Kicked(swept)[s]) = Worth(swept[s])
  BY <1>2, KickedWorth
<1>6. \A s \in Seats : Worth(players'[s]) = Worth(players[s])
  BY <1>3, <1>4, <1>5
<1>7. SeatSum(Worths(players')) = SeatSum(Worths(players))
  BY <1>6, WorthsEqual
<1>8. table'.pot = table.pot /\ balance' = balance /\ house' = house
  BY <1>1 DEF TooFewToDeal, Table
<1>9. SeatSum(Worths(players)) \in Int /\ house \in Int /\ table.pot \in Int
  BY <1>1, MoneyIs, WorthsOf, TableFields DEF TypeOK
<1>10. SeatSum(Worths(players')) + table'.pot + house'
         <= SeatSum(Worths(players)) + table.pot + house
  BY <1>7, <1>8, <1>9
<1> QED
  BY <1>8, <1>10, MoneyFollows

\* A deal takes the blinds from the stacks into the pot (next_hand.lua:258-440).
LEMMA DealMakesNone ==
    ASSUME HandInv, TypeOK', Deal
    PROVE  Money' <= Money
<1>1. players \in [Seats -> Player] /\ players' \in [Seats -> Player]
  BY DEF HandInv, TypeOK
<1>2. balance' = balance /\ house' = house
  BY DEF Deal
<1>3. /\ balance \in [Seats -> Int] /\ house \in Int
      /\ table.pot \in Nat /\ table'.pot \in Int
  BY PotAndRecords, TableFields DEF HandInv, TypeOK
<1>4. SeatSum(Worths(players)) \in Int /\ SeatSum(Worths(players')) \in Int
  BY <1>1, <1>3, MoneyIs
<1>5. SeatSum(Worths(players')) + table'.pot = SeatSum(Worths(players))
  BY DealPosts
<1>6. SeatSum(Worths(players')) + table'.pot + house'
        <= SeatSum(Worths(players)) + table.pot + house
  BY <1>2, <1>3, <1>4, <1>5
<1> QED
  BY <1>2, <1>6, MoneyFollows DEF HandInv

\* What is contested is at most what was recorded.
LEMMA ContestedRecorded ==
    ASSUME NEW contrib, \A s \in Seats : contrib[s] \in Nat, NEW alive \in SUBSET Seats
    PROVE  Contested(contrib, alive) <= SeatSum(contrib)
<1> DEFINE f == [s \in Seats |-> IF s \in alive THEN contrib[s] ELSE 0]
           top == Largest(contrib, alive)
           g == [s \in Seats |-> Smaller(contrib[s], top)]
<1>1. top \in Nat
  <2>1. \A s \in Seats : f[s] \in Int
    OBVIOUS
  <2>2. top = SeatMax(f)
    BY DEF Largest
  <2> HIDE DEF f, top
  <2> QED
    BY <2>1, <2>2, SeatMaxType
<1>2. \A s \in Seats : g[s] \in Int /\ contrib[s] \in Int /\ g[s] <= contrib[s]
  <2> HIDE DEF top
  <2> QED
    BY <1>1 DEF Smaller
<1>3. Contested(contrib, alive) = SeatSum(g)
  BY DEF Contested
<1> HIDE DEF g
<1> QED
  BY <1>2, <1>3, SeatSumOrder

\* When the pot covers the records, no more than what the rake leaves of it is paid.
LEMMA PaidFromPot ==
    ASSUME NEW contrib, \A s \in Seats : contrib[s] \in Nat,
           NEW alive \in SUBSET Seats, NEW score \in [alive -> Nat],
           NEW gross \in Nat, NEW net \in 0..gross,
           NEW won \in Payouts(contrib, alive, score, gross, net),
           SeatSum(contrib) <= gross
    PROVE  SeatSum(won) \in Nat /\ SeatSum(won) <= net
<1>1. /\ SeatSum(won) \in Nat /\ Contested(contrib, alive) \in Nat
      /\ SeatSum(won) * gross <= Contested(contrib, alive) * net
      /\ gross = 0 => SeatSum(won) = 0
  <2>1. /\ SeatSum(won) \in Nat /\ Contested(contrib, alive) \in Nat
        /\ SeatSum(won) * gross <= Contested(contrib, alive) * net
    BY PayoutTotal
  <2>2. gross = 0 => SeatSum(won) = 0
    BY PayoutTotal
  <2> QED
    BY <2>1, <2>2
<1>2. Contested(contrib, alive) <= SeatSum(contrib) /\ SeatSum(contrib) \in Nat
  BY ContestedRecorded, SeatSumNat
<1> PICK paid, due : paid = SeatSum(won) /\ due = Contested(contrib, alive)
  OBVIOUS
<1>3. /\ paid \in Nat /\ due \in Nat /\ due <= gross /\ net \in Nat
      /\ paid * gross <= due * net /\ (gross = 0 => paid = 0)
  BY <1>1, <1>2
<1>4. ASSUME paid > net
      PROVE  FALSE
  <2>1. paid >= net + 1 /\ gross > 0
    BY <1>3, <1>4
  <2>2. paid * gross >= (net + 1) * gross
    BY <1>3, <2>1
  <2>3. due * net <= gross * net
    BY <1>3
  <2>4. (net + 1) * gross = gross * net + gross
    BY <1>3
  <2>5. /\ paid * gross \in Int /\ due * net \in Int /\ gross * net \in Int
    BY <1>3
  <2> QED
    BY <1>3, <2>1, <2>2, <2>3, <2>4, <2>5
<1> QED
  BY <1>3, <1>4

\* A showdown that divides the pot by records it covers pays what is in it at most
\* (showdown.lua).
LEMMA ShowdownMakesNone ==
    ASSUME HandInv, TypeOK', NEW score \in [InHand(players) -> Scores], Showdown(score),
           ~Overrecorded
    PROVE  Money' <= Money
<1>1. PICK won \in Payouts(Contributions(players), InHand(players), score,
                           table.pot, table.pot - Rake(table.pot)) :
          players' = [s \in Seats |-> Rested([players[s] EXCEPT !.chips = @ + won[s]])]
  BY DEF Showdown
<1> PICK c, a, g, k, n : /\ c = Contributions(players) /\ a = InHand(players)
                         /\ g = table.pot /\ k = Rake(table.pot) /\ n = g - k
  OBVIOUS
<1>2. /\ g \in Nat /\ n \in 0..g /\ a \in SUBSET Seats /\ \A s \in Seats : c[s] \in Nat
      /\ won \in Payouts(c, a, score, g, n) /\ k \in 0..g
  BY <1>1, PotAndRecords, RakeBounds
<1>3. score \in [a -> Nat]
  BY RulesAssumption
<1>4. SeatSum(c) \in Nat /\ SeatSum(c) <= g
  BY <1>2, SeatSumNat DEF Overrecorded
<1>5. SeatSum(won) \in Nat /\ SeatSum(won) <= n
  BY <1>2, <1>3, <1>4, PaidFromPot
<1>6. \A s \in Seats : won[s] \in Nat
  BY <1>2, PayoutCapped
<1>7. players \in [Seats -> Player] /\ players' \in [Seats -> Player]
  BY DEF HandInv, TypeOK
<1>8. ASSUME NEW s \in Seats
      PROVE  Worths(players')[s] = Worths(players)[s] + won[s]
  <2> PICK own, v : own = players[s] /\ v = players[s].chips + won[s]
    OBVIOUS
  <2> DEFINE p == [own EXCEPT !.chips = v]
  <2>1. /\ own \in Player /\ own.chips \in Int /\ own.pendingTopUp \in Int /\ v \in Int
        /\ v = own.chips + won[s]
    BY <1>6, <1>7, PlayerFields
  <2>2. p \in Player /\ p.chips = v /\ p.pendingTopUp = own.pendingTopUp
    BY <2>1, OneField DEF Player
  <2>3. players'[s] = Rested(p)
    BY <1>1
  <2> HIDE DEF p
  <2>4. Rested(p).chips = v /\ Rested(p).pendingTopUp = own.pendingTopUp
    BY <2>2 DEF Rested, Cleared, Player
  <2>5. Worth(players'[s]) = v + own.pendingTopUp
    BY <2>3, <2>4 DEF Worth
  <2>6. Worth(players[s]) = own.chips + own.pendingTopUp
    BY DEF Worth
  <2> QED
    BY <1>6, <2>1, <2>5, <2>6 DEF Worths
<1>9. \A s \in Seats : Worths(players)[s] \in Int /\ won[s] \in Int
  BY <1>6, <1>7, PlayerFields DEF Worths, Worth
<1>10. SeatSum(Worths(players')) = SeatSum(Worths(players)) + SeatSum(won)
  BY <1>8, <1>9, SeatSumAdd
<1>11. SeatSum(Worths(players)) \in Int
  BY <1>9, SeatSumType
<1>12. /\ table'.pot = 0 /\ house' = house + k /\ balance' = balance /\ house \in Int
  BY DEF Showdown, HandInv, TypeOK, Table
<1>13. SeatSum(Worths(players')) + table'.pot + house'
         <= SeatSum(Worths(players)) + table.pot + house
  BY <1>2, <1>5, <1>10, <1>11, <1>12
<1> QED
  BY <1>12, <1>13, MoneyFollows DEF HandInv

\* No bet, timeout, street, showdown or deal makes money: what all seats own, the wallets,
\* the pot and the house's rake together never grow, unless a showdown divides a pot by
\* records it does not cover.
THEOREM NoHandMakesMoney ==
    ASSUME WebClient
    PROVE  ClosedTable => NoMoneyMade
<1>1. ASSUME HandInv, HandInv', [HandNext \/ Finished]_vars, ~(Judged /\ Overrecorded),
             ~UNCHANGED vars
      PROVE  Money' <= Money
  <2>1. TypeOK /\ TypeOK'
    BY <1>1 DEF HandInv
  <2>2. CASE (\E s \in Seats : Bet(s) \/ Timeout(s)) \/ NextStreet
    <3>1. Money' = Money
      BY <2>1, <2>2, PlayKeepsMoney
    <3>2. Money \in Int
      <4>1. /\ players \in [Seats -> Player] /\ balance \in [Seats -> Int]
            /\ house \in Int /\ table.pot \in Int
        BY <2>1, TableFields DEF TypeOK
      <4>2. SeatSum(Owned(players, balance)) \in Int
        BY <4>1, MoneyIs
      <4> QED
        BY <4>1, <4>2 DEF Money, Owned
    <3> QED
      BY <3>1, <3>2
  <2>3. CASE \E score \in [InHand(players) -> Scores] : Showdown(score)
    <3>1. PICK score \in [InHand(players) -> Scores] : Showdown(score)
      BY <2>3
    <3>2. Judged
      BY <1>1, <3>1 DEF Showdown, Judged, HandInv, TypeOK, Table
    <3> QED
      BY <1>1, <2>1, <3>1, <3>2, ShowdownMakesNone
  <2>4. CASE NextHand
    BY <1>1, <2>1, <2>4, TooFewMakesNone, DealMakesNone DEF NextHand
  <2>5. ~Finished
    BY <1>1 DEF Finished
  <2> QED
    BY <1>1, <2>2, <2>3, <2>4, <2>5 DEF HandNext
<1>2. HandInv /\ HandInv' /\ [HandNext \/ Finished]_vars
        => [Money' <= Money \/ ForceCleanup \/ (Judged /\ Overrecorded)]_vars
  BY <1>1
<1> QED
  BY <1>2, HandInvHolds, PTL DEF ClosedTable, NoMoneyMade

(***************************************************************************)
(* The records of the pot.  bet.lua forgets a raise made on the time bank, *)
(* and next_hand.lua leaves the record of a player without chips who       *)
(* folded as it was; without these two, showdown.lua divides what there is.*)
(***************************************************************************)
BrokeFolds ==
    /\ table.handNumber < MaxHands
    /\ \E s \in Seats : players[s].chips = 0 /\ (Fold(s) \/ TimeoutFold(s))

\* A closed table where nobody raises on his time bank, or folds without chips before
\* another hand.
RecordedTable ==
    DealInit /\ [][(HandNext /\ RaisesInTime /\ ~BrokeFolds) \/ Finished]_vars

\* A record that the next deal clears, if there is one: it is of a player who has chips, or
\* will be paid or judged first.
Tidy(p, t) ==
    t.handNumber < MaxHands /\ p.totalContribution > 0 =>
        p.status \in Playing /\ (p.chips > 0 \/ p.status # "folded")

\* What a player has bet in this round is part of what he has put in.
Recorded(p) == p.status \in Live => p.currentBet <= p.totalContribution

RecordFacts(ps, t) ==
    /\ \A s \in Seats : Tidy(ps[s], t) /\ Recorded(ps[s])
    /\ t.phase \in Streets => t.pot = SeatSum(Contributions(ps))

\* Before the first deal nobody is to act.
FirstHand == table.handNumber = 0 =>
    table.phase \notin Streets /\ reply = "idle" /\ table.turnSeat = NoSeat

RecordInv == RecordFacts(players, table) /\ FirstHand

\* The contributions change by what one seat's does.
LEMMA ContributionsChange ==
    ASSUME NEW ps \in [Seats -> Player], NEW s \in Seats, NEW q \in Player
    PROVE  SeatSum(Contributions([ps EXCEPT ![s] = q]))
             = SeatSum(Contributions(ps)) + q.totalContribution - ps[s].totalContribution
<1> DEFINE f == Contributions(ps)
           g == Contributions([ps EXCEPT ![s] = q])
<1>1. \A r \in Seats : f[r] \in Int /\ g[r] \in Int
  BY PlayerFields DEF Contributions
<1>2. \A r \in Seats \ {s} : g[r] = f[r]
  BY DEF Contributions
<1>3. f[s] = ps[s].totalContribution /\ g[s] = q.totalContribution
  BY DEF Contributions
<1> HIDE DEF f, g
<1>4. SeatSum(g) = SeatSum(f) + g[s] - f[s]
  BY <1>1, <1>2, SeatSumChange
<1> QED
  BY <1>3, <1>4 DEF f, g

\* A refund takes as much from a player's record as from the pot.
LEMMA RefundRecorded ==
    ASSUME NEW p \in Player, NEW back \in Nat, p.totalContribution >= 0,
           back <= p.currentBet, back > 0 => p.currentBet <= p.totalContribution
    PROVE  Refunded(p, back).totalContribution = p.totalContribution - back
<1>1. /\ p.currentBet \in Int /\ p.totalContribution \in Int
      /\ Refunded(p, back).totalContribution
           = IF back > 0 THEN Larger(0, p.totalContribution - back) ELSE p.totalContribution
  BY FairFields DEF Refunded, Player
<1> QED
  BY <1>1 DEF Larger

\* What follows a move keeps the records true.
LEMMA OutcomeRecorded ==
    ASSUME NEW ps \in [Seats -> Player], NEW t \in Table, Ready(ps, t), RecordFacts(ps, t),
           NEW refund, Refunds(ps, refund), NEW turn \in Seats \cup {NoSeat}, NEW next,
           HandWon(ps, t, turn) \/ RoundOver(ps, t, turn, refund) \/ PlayOn(ps, t, next)
    PROVE  RecordFacts(players', table') /\ table'.handNumber = t.handNumber
<1>1. /\ \A s \in Seats : /\ ps[s] \in Player /\ Fair(ps[s], t)
                          /\ ps[s].chips \in Nat /\ ps[s].currentBet \in Nat
                          /\ ps[s].totalContribution \in Nat
      /\ t.pot \in Nat
  BY PlayerFields, TableFields DEF Ready, HandFacts, Fair, Covered
<1>2. CASE HandWon(ps, t, turn)
  <2>1. /\ players' = [s \in Seats |->
              IF s \in InHand(ps) THEN [ps[s] EXCEPT !.chips = @ + t.pot] ELSE ps[s]]
        /\ table' = [t EXCEPT !.pot = 0, !.phase = "showdown", !.turnSeat = turn]
    BY <1>2 DEF HandWon
  <2>2. table'.phase = "showdown" /\ table'.handNumber = t.handNumber
    BY <2>1 DEF Table
  <2>3. ASSUME NEW s \in Seats
        PROVE  Tidy(players'[s], table') /\ Recorded(players'[s])
    <3> PICK p : p = ps[s]
      OBVIOUS
    <3>1. /\ Tidy(p, t) /\ Recorded(p) /\ p \in Player /\ p.chips \in Nat
      BY <1>1 DEF RecordFacts
    <3>2. players'[s] = p \/ players'[s] = [p EXCEPT !.chips = @ + t.pot]
      BY <2>1
    <3>3. LET q == [p EXCEPT !.chips = @ + t.pot]
          IN  /\ q.chips = p.chips + t.pot /\ q.status = p.status
              /\ q.currentBet = p.currentBet /\ q.totalContribution = p.totalContribution
      BY <3>1 DEF Player
    <3>4. /\ players'[s].chips >= p.chips /\ players'[s].status = p.status
          /\ players'[s].chips \in Nat
          /\ players'[s].currentBet = p.currentBet
          /\ players'[s].totalContribution = p.totalContribution
      <4> PICK q : q = [p EXCEPT !.chips = @ + t.pot]
        OBVIOUS
      <4>1. /\ q.chips = p.chips + t.pot /\ q.status = p.status
            /\ q.currentBet = p.currentBet /\ q.totalContribution = p.totalContribution
        BY <3>3
      <4>2. q.chips \in Nat /\ q.chips >= p.chips
        BY <1>1, <3>1, <4>1
      <4>3. p.chips >= p.chips
        BY <3>1
      <4>4. CASE players'[s] = p
        BY <3>1, <4>3, <4>4
      <4>5. CASE players'[s] = q
        BY <4>1, <4>2, <4>5
      <4> QED
        BY <3>2, <4>4, <4>5
    <3>5. p.chips > 0 => players'[s].chips > 0
      BY <3>1, <3>4
    <3>6. Tidy(players'[s], table')
      BY <2>2, <3>1, <3>4, <3>5 DEF Tidy
    <3>7. Recorded(players'[s])
      BY <3>1, <3>4 DEF Recorded
    <3> QED
      BY <3>6, <3>7
  <2>4. table'.phase \notin Streets
    BY <2>2 DEF Streets
  <2> QED
    BY <2>2, <2>3, <2>4 DEF RecordFacts
<1>3. CASE RoundOver(ps, t, turn, refund)
  <2>1. /\ players' = [s \in Seats |-> Refunded(ps[s], refund[s])]
        /\ table' = [t EXCEPT !.pot = @ - SeatSum(refund), !.turnSeat = turn]
    BY <1>3 DEF RoundOver
  <2>2. /\ table'.pot = t.pot - SeatSum(refund) /\ table'.phase = t.phase
        /\ table'.handNumber = t.handNumber
    BY <2>1 DEF Table
  <2>3. ASSUME NEW s \in Seats
        PROVE  /\ Tidy(players'[s], table') /\ Recorded(players'[s])
               /\ refund[s] \in Int
               /\ players'[s].totalContribution \in Int
               /\ players'[s].totalContribution = ps[s].totalContribution - refund[s]
    <3> PICK p, back : p = ps[s] /\ back = refund[s]
      OBVIOUS
    <3>1. /\ Tidy(p, t) /\ Recorded(p) /\ p \in Player /\ p.chips \in Nat
          /\ p.totalContribution \in Nat /\ p.currentBet \in Nat
      BY <1>1 DEF RecordFacts
    <3>2. back \in Nat /\ back <= p.currentBet /\ (back > 0 => p.status \in Live)
      BY <1>1, RefundIs, LiveIs
    <3>3. players'[s] = Refunded(p, back)
      BY <2>1
    <3>4. /\ players'[s].chips = p.chips + back /\ players'[s].status = p.status
          /\ players'[s].currentBet = p.currentBet - back
      <4>1. p.totalContribution >= 0
        BY <3>1
      <4>2. /\ Refunded(p, back).chips = p.chips + back
            /\ Refunded(p, back).status = p.status
            /\ Refunded(p, back).currentBet = p.currentBet - back
        BY <3>1, <3>2, <4>1, RefundedFields
      <4> QED
        BY <3>3, <4>2
    <3>5. players'[s].totalContribution = p.totalContribution - back
      BY <3>1, <3>2, <3>3, RefundRecorded DEF Recorded
    <3>6. Tidy(players'[s], table')
      BY <2>2, <3>1, <3>2, <3>4, <3>5 DEF Tidy
    <3>7. Recorded(players'[s])
      BY <3>1, <3>2, <3>4, <3>5 DEF Recorded
    <3> QED
      BY <3>1, <3>2, <3>5, <3>6, <3>7
  <2>4. SeatSum(Contributions(ps)) = SeatSum(Contributions(players')) + SeatSum(refund)
    <3>1. \A s \in Seats : /\ Contributions(players')[s] \in Int /\ refund[s] \in Int
                           /\ Contributions(ps)[s] = Contributions(players')[s] + refund[s]
      BY <1>1, <2>3 DEF Contributions
    <3> QED
      BY <3>1, SeatSumAdd
  <2>5. SeatSum(Contributions(players')) \in Int /\ SeatSum(refund) \in Int
    <3>1. \A s \in Seats : Contributions(players')[s] \in Int /\ refund[s] \in Int
      BY <2>3 DEF Contributions
    <3> QED
      BY <3>1, SeatSumType
  <2>6. t.phase \in Streets => t.pot = SeatSum(Contributions(ps))
    BY DEF RecordFacts
  <2>7. table'.phase \in Streets => table'.pot = SeatSum(Contributions(players'))
    BY <2>2, <2>4, <2>5, <2>6
  <2> QED
    BY <2>2, <2>3, <2>7 DEF RecordFacts
<1>4. CASE PlayOn(ps, t, next)
  <2>1. /\ players' = ps /\ table'.pot = t.pot /\ table'.phase = t.phase
        /\ table'.handNumber = t.handNumber
    BY <1>4 DEF PlayOn, Table
  <2> QED
    BY <2>1 DEF RecordFacts, Tidy
<1> QED
  BY <1>2, <1>3, <1>4

\* So does the move itself, unless a raise or a fold is one of the two.
LEMMA MoveRecorded ==
    ASSUME HandInv, RecordInv, NEW s \in Seats, players[s].status = "active",
           NEW q, NEW t, NEW put, NEW turn, NEW refund, Moved(s, q, t, put, turn, refund),
           ~\E amount \in 0..MaxAmount : players[s].usingBank /\ Raise(s, amount),
           table.handNumber < MaxHands /\ players[s].chips = 0 => ~Fold(s) /\ ~TimeoutFold(s)
    PROVE  RecordFacts(players', table') /\ table'.handNumber = table.handNumber
<1> PICK ps : ps = [players EXCEPT ![s] = q]
  OBVIOUS
<1> PICK own : own = players[s]
  OBVIOUS
<1>1. /\ players \in [Seats -> Player] /\ own \in Player /\ Fair(own, table)
      /\ RecordFacts(players, table) /\ Tidy(own, table) /\ Recorded(own)
      /\ own.status = "active"
  BY DEF HandInv, HandFacts, TypeOK, RecordInv, RecordFacts
<1>2. /\ q \in Player /\ t \in Table /\ turn \in Seats \cup {NoSeat}
      /\ Puts(s, q, t, put) /\ Records(s, q, put) /\ Ready(ps, t) /\ Refunds(ps, refund)
      /\ ps \in [Seats -> Player]
  BY <1>1 DEF Moved
<1>3. /\ q.totalContribution = own.totalContribution + put
      /\ q.status = "folded" => Fold(s) \/ TimeoutFold(s)
  BY <1>2 DEF Records
<1>4. /\ put \in Nat /\ q.chips = own.chips - put /\ q.currentBet = own.currentBet + put
      /\ t.pot = table.pot + put /\ t.phase = table.phase
      /\ t.handNumber = table.handNumber
      /\ q.status \in {"folded", "active", "all-in"} /\ (q.status = "folded" => put = 0)
  BY <1>2 DEF Puts, SameTurn
<1>5. /\ own.chips \in Nat /\ own.currentBet \in Int /\ own.totalContribution \in Int
      /\ table.pot \in Int /\ t.handNumber \in Int
  BY <1>1, <1>2, PlayerFields, TableFields DEF Fair, HandInv, TypeOK
<1>6. Tidy(q, t)
  <2>1. q.status \in Playing
    BY <1>4 DEF Playing
  <2>2. t.handNumber < MaxHands /\ q.status = "folded" => q.chips > 0
    BY <1>3, <1>4, <1>5
  <2> QED
    BY <2>1, <2>2 DEF Tidy
<1>7. Recorded(q)
  BY <1>1, <1>3, <1>4, <1>5 DEF Recorded, Live
<1>8. RecordFacts(ps, t)
  <2>1. \A r \in Seats : Tidy(ps[r], t) /\ Recorded(ps[r])
    BY <1>1, <1>4, <1>6, <1>7 DEF RecordFacts, Tidy
  <2>2. SeatSum(Contributions(ps)) = SeatSum(Contributions(players)) + put
    <3>1. SeatSum(Contributions(ps))
            = SeatSum(Contributions(players)) + q.totalContribution - own.totalContribution
      BY <1>1, <1>2, ContributionsChange
    <3>2. SeatSum(Contributions(players)) \in Int
      <4>1. \A r \in Seats : Contributions(players)[r] \in Int
        BY <1>1, PlayerFields DEF Contributions
      <4> QED
        BY <4>1, SeatSumType
    <3> QED
      BY <1>3, <1>4, <1>5, <3>1, <3>2
  <2>3. t.phase \in Streets => t.pot = SeatSum(Contributions(ps))
    BY <1>1, <1>4, <2>2 DEF RecordFacts
  <2> QED
    BY <2>1, <2>3 DEF RecordFacts
<1>9. PICK next : HandWon(ps, t, turn) \/ RoundOver(ps, t, turn, refund) \/ PlayOn(ps, t, next)
  BY DEF Moved
<1>10. RecordFacts(players', table') /\ table'.handNumber = t.handNumber
  BY <1>2, <1>8, <1>9, OutcomeRecorded
<1> QED
  BY <1>4, <1>10

\* Seats that are rid of their bets have true records, whatever they were.
LEMMA NoRecords ==
    ASSUME NEW ps \in [Seats -> Player], NEW t, t.phase \notin Streets,
           \A s \in Seats : /\ ps[s].totalContribution = 0
                            /\ ps[s].status \in Live => ps[s].currentBet = 0
    PROVE  RecordFacts(ps, t)
BY DEF RecordFacts, Tidy, Recorded

\* A street clears the bets of the round, and leaves what was put in (next_street.lua).
LEMMA NextStreetRecorded ==
    ASSUME HandInv, RecordInv, NextStreet
    PROVE  RecordFacts(players', table') /\ table'.handNumber = table.handNumber
<1>1. /\ players \in [Seats -> Player] /\ table \in Table /\ table.phase \in Streets
      /\ RecordFacts(players, table)
      /\ \A s \in Seats : players[s].totalContribution >= 0
  BY DEF HandInv, HandFacts, Fair, TypeOK, RecordInv, NextStreet
<1>2. table'.handNumber = table.handNumber /\ table'.pot = table.pot
  BY <1>1 DEF NextStreet, Table
<1>3. \A s \in Seats :
         /\ players'[s].currentBet = 0 /\ players'[s].chips = players[s].chips
         /\ players'[s].totalContribution = players[s].totalContribution
         /\ players'[s].status = players[s].status
  BY <1>1 DEF NextStreet, Player
<1>4. \A s \in Seats : Tidy(players'[s], table')
  BY <1>1, <1>2, <1>3 DEF RecordFacts, Tidy
<1>5. \A s \in Seats : Recorded(players'[s])
  BY <1>1, <1>3 DEF Recorded
<1>6. Contributions(players') = Contributions(players)
  BY <1>3 DEF Contributions
<1> QED
  BY <1>1, <1>2, <1>4, <1>5, <1>6 DEF RecordFacts

\* A showdown clears the records (showdown.lua).
LEMMA ShowdownRecorded ==
    ASSUME HandInv, TypeOK', NEW score \in [InHand(players) -> Scores], Showdown(score)
    PROVE  RecordFacts(players', table') /\ reply' = "complete" /\ table.phase = "showdown"
           /\ table'.handNumber = table.handNumber
<1>1. \A s \in Seats : players'[s].currentBet = 0 /\ players'[s].totalContribution = 0
  BY ShowdownPays
<1>2. /\ reply' = "complete" /\ table'.phase = "waiting" /\ table.phase = "showdown"
      /\ table'.handNumber = table.handNumber
  BY DEF Showdown, HandInv, TypeOK, Table
<1>3. players' \in [Seats -> Player]
  BY DEF TypeOK
<1>4. table'.phase \notin Streets
  BY <1>2 DEF Streets
<1>5. RecordFacts(players', table')
  BY <1>1, <1>3, <1>4, NoRecords
<1> QED
  BY <1>2, <1>5

\* Opening a time bank records nothing (timeout.lua).
LEMMA ExtendRecorded ==
    ASSUME HandInv, RecordInv, NEW s \in Seats, TimeoutExtend(s)
    PROVE  RecordFacts(players', table') /\ table' = table
<1>1. /\ players \in [Seats -> Player] /\ RecordFacts(players, table)
      /\ players' = [players EXCEPT ![s].usingBank = TRUE] /\ table' = table
  BY DEF HandInv, TypeOK, RecordInv, TimeoutExtend
<1>2. \A r \in Seats :
         /\ players'[r].chips = players[r].chips
         /\ players'[r].currentBet = players[r].currentBet
         /\ players'[r].totalContribution = players[r].totalContribution
         /\ players'[r].status = players[r].status
  BY <1>1 DEF Player
<1>3. Contributions(players') = Contributions(players)
  BY <1>2 DEF Contributions
<1> QED
  BY <1>1, <1>2, <1>3 DEF RecordFacts, Tidy, Recorded

\* The promotion pass clears the record of a connected player, unless he folded and has no
\* chips (next_hand.lua:104-176).
LEMMA PromotedClears ==
    ASSUME NEW p \in Player, ~p.offline,
           p.totalContribution = 0 \/ (p.status \in Playing /\ p.chips > 0)
    PROVE  Promoted(p).totalContribution = 0
<1> PICK c, o : c = Cleared(p) /\ o = SatOut(p)
  OBVIOUS
<1>1. c \in Player /\ o \in Player /\ c.totalContribution = 0 /\ o.totalContribution = 0
  BY ClearedFields
<1>2. CASE p.status = "sitting_out"
  BY <1>1, <1>2 DEF Promoted
<1>3. CASE p.status # "sitting_out" /\ p.benchAfterHand
  <2>1. Promoted(p) = [o EXCEPT !.benchAfterHand = FALSE]
    BY <1>3 DEF Promoted
  <2> QED
    BY <1>1, <2>1 DEF Player
<1>4. CASE p.status # "sitting_out" /\ ~p.benchAfterHand /\ p.sitOutNextHand
  <2>1. Promoted(p) = [o EXCEPT !.sitOutNextHand = FALSE]
    BY <1>4 DEF Promoted
  <2> QED
    BY <1>1, <2>1 DEF Player
<1>5. CASE /\ p.status # "sitting_out" /\ ~p.benchAfterHand /\ ~p.sitOutNextHand
           /\ p.status = "waiting" \/ (p.status \in Playing /\ p.chips > 0)
  <2>1. Promoted(p) = [c EXCEPT !.status = "active", !.timeBank = Smaller(@ + 2, TimeBank)]
    BY <1>5 DEF Promoted
  <2> QED
    BY <1>1, <2>1 DEF Player
<1>6. CASE /\ p.status # "sitting_out" /\ ~p.benchAfterHand /\ ~p.sitOutNextHand
           /\ ~(p.status = "waiting" \/ (p.status \in Playing /\ p.chips > 0))
  BY <1>6 DEF Promoted
<1> QED
  BY <1>2, <1>3, <1>4, <1>5, <1>6

\* So the sweep clears every record.
LEMMA SweptClears ==
    ASSUME HandInv, RecordInv, MayStartHand, NEW s \in Seats
    PROVE  Swept[s].totalContribution = 0
<1> PICK p, t : p = players[s] /\ t = ToppedUp(p)
  OBVIOUS
<1>1. /\ p \in Player /\ Fair(p, table) /\ Tidy(p, table)
      /\ p.status \in Live => p.chips > 0
  BY BetweenHands, LiveIs DEF HandInv, TypeOK, HandFacts, RecordInv, RecordFacts
<1>2. table.handNumber < MaxHands
  BY DEF MayStartHand
<1>3. p.chips \in Int /\ p.totalContribution \in Int /\ p.pendingTopUp \in Nat
  BY <1>1, PlayerFields
<1>4. p.totalContribution = 0 \/ (p.status \in Playing /\ p.chips > 0)
  <2>1. p.totalContribution > 0 => p.status \in Playing /\ p.chips > 0
    BY <1>1, <1>2 DEF Tidy, Live, Playing
  <2> QED
    BY <1>1, <1>3, <2>1 DEF Fair
<1>5. /\ t \in Player /\ t.chips = p.chips + p.pendingTopUp /\ t.status = p.status
      /\ t.totalContribution = p.totalContribution /\ t.offline = p.offline
  <2>1. t \in Player
    BY <1>1, ToppedUpType
  <2> QED
    BY <1>1, <2>1 DEF ToppedUp, Player
<1>6. t.totalContribution = 0 \/ (t.status \in Playing /\ t.chips > 0)
  BY <1>3, <1>4, <1>5
<1>7. Ghosted(t) = t
  <2>1. t.status = "active" => t.chips > 0
    BY <1>1, <1>3, <1>5 DEF Live
  <2>2. t.chips \in Int
    BY <1>3, <1>5
  <2> QED
    BY <2>1, <2>2 DEF Ghosted
<1>8. ~t.offline
  BY <1>1, <1>5 DEF Fair
<1>9. Promoted(t).totalContribution = 0
  BY <1>5, <1>6, <1>8, PromotedClears
<1>10. Swept[s] = Promoted(Ghosted(ToppedUp(p)))
  BY DEF Swept
<1> QED
  BY <1>7, <1>9, <1>10

\* Marking who leaves records nothing.
LEMMA KickedClears ==
    ASSUME NEW ps \in [Seats -> Player], \A s \in Seats : ps[s].totalContribution = 0
    PROVE  \A s \in Seats : Kicked(ps)[s].totalContribution = 0
<1> DEFINE bb == BigBlindSeat(ps, Button(ps))
<1>1. CASE Kicked(ps) = ps
  BY <1>1
<1>2. CASE Kicked(ps) = [ps EXCEPT ![bb] =
              [Cleared(@) EXCEPT !.status = "leaving", !.leaveNextBB = FALSE]]
  <2> HIDE DEF bb
  <2> SUFFICES ASSUME NEW s \in Seats
               PROVE  Kicked(ps)[s].totalContribution = 0
    OBVIOUS
  <2>1. CASE s # bb
    BY <1>2, <2>1
  <2>2. CASE s = bb
    <3> PICK c : c = Cleared(ps[s])
      OBVIOUS
    <3>1. Kicked(ps)[s] = [c EXCEPT !.status = "leaving", !.leaveNextBB = FALSE]
      BY <1>2, <2>2
    <3>2. c \in Player /\ c.totalContribution = 0
      BY ClearedFields
    <3> QED
      BY <3>1, <3>2 DEF Player
  <2> QED
    BY <2>1, <2>2
<1> QED
  BY <1>1, <1>2 DEF Kicked

\* A hand that is not dealt leaves no records (next_hand.lua:178-256).
LEMMA TooFewRecorded ==
    ASSUME HandInv, RecordInv, TooFewToDeal
    PROVE  /\ RecordFacts(players', table') /\ table'.handNumber = table.handNumber
           /\ table'.phase \notin Streets /\ reply' = "idle" /\ table'.turnSeat = table.turnSeat
<1>1. MayStartHand /\ table \in Table
  BY DEF TooFewToDeal, HandInv, TypeOK
<1> PICK swept : swept = Swept
  OBVIOUS
<1>2. /\ swept \in [Seats -> Player]
      /\ \A s \in Seats : Fresh(swept[s]) /\ swept[s].totalContribution = 0
  BY <1>1, SweptFresh, SweptClears
<1>3. /\ Kicked(swept) \in [Seats -> Player]
      /\ \A s \in Seats : Fresh(Kicked(swept)[s]) /\ Kicked(swept)[s].totalContribution = 0
  BY <1>2, KickedFresh, KickedClears
<1>4. /\ players' \in [Seats -> Player]
      /\ \A s \in Seats : Fresh(players'[s]) /\ players'[s].totalContribution = 0
  BY <1>2, <1>3 DEF TooFewToDeal
<1>5. /\ table'.phase = "waiting" /\ table'.handNumber = table.handNumber /\ reply' = "idle"
      /\ table'.turnSeat = table.turnSeat
  BY <1>1 DEF TooFewToDeal, Table
<1>6. table'.phase \notin Streets
  BY <1>5 DEF Streets
<1>7. \A s \in Seats : players'[s].status \in Live => players'[s].currentBet = 0
  BY <1>4 DEF Fresh, Live
<1>8. RecordFacts(players', table')
  BY <1>4, <1>6, <1>7, NoRecords
<1> QED
  BY <1>5, <1>6, <1>8

\* A deal records the blinds it takes, of two players of the hand (next_hand.lua:258-440).
LEMMA DealRecorded ==
    ASSUME HandInv, RecordInv, TypeOK', Deal
    PROVE  RecordFacts(players', table') /\ table'.handNumber = table.handNumber + 1
<1>1. MayStartHand
  BY DEF Deal
<1>2. PICK ps, sb, bb : DealtTo(ps, sb, bb)
  BY DealSeats
<1>3. /\ ps \in [Seats -> Player] /\ sb \in Seats /\ bb \in Seats /\ sb # bb
      /\ ps[sb].status = "active" /\ ps[bb].status = "active"
      /\ \A s \in Seats : Fresh(ps[s])
      /\ \A s \in Seats : players'[s] =
            Dealt(IF s = bb THEN Posted(ps[s], BigBlind)
                  ELSE IF s = sb THEN Posted(ps[s], SmallBlind) ELSE ps[s])
      /\ table'.pot = Blind(ps[sb], SmallBlind) + Blind(ps[bb], BigBlind)
      /\ table'.handNumber = table.handNumber + 1
  BY <1>2 DEF DealtTo, Active
<1> PICK small, big : small = Blind(ps[sb], SmallBlind) /\ big = Blind(ps[bb], BigBlind)
  OBVIOUS
<1>4. SmallBlind \in Nat /\ BigBlind \in Nat
  BY StakesAssumption
<1>5. small \in Nat /\ big \in Nat
  BY <1>3, <1>4, PostedFields
<1>6. \A s \in Seats : ps[s].totalContribution = 0
  <2> PICK swept : swept = Swept
    OBVIOUS
  <2>1. swept \in [Seats -> Player] /\ \A s \in Seats : swept[s].totalContribution = 0
    BY <1>1, SweptFresh, SweptClears
  <2>2. ps = Kicked(swept)
    BY <1>2 DEF DealtTo
  <2> QED
    BY <2>1, <2>2, KickedClears
<1> DEFINE posts == [s \in Seats |-> IF s = bb THEN big ELSE IF s = sb THEN small ELSE 0]
           bigs == [s \in Seats |-> IF s = bb THEN big ELSE 0]
           smalls == [s \in Seats |-> IF s = sb THEN small ELSE 0]
<1>7. ASSUME NEW s \in Seats
      PROVE  /\ players'[s].totalContribution = posts[s]
             /\ posts[s] # 0 => players'[s].status = "active"
             /\ players'[s].status \in Live => players'[s].currentBet = posts[s]
  <2>1. CASE s = bb
    <3> PICK p : p = Posted(ps[s], BigBlind)
      OBVIOUS
    <3>1. /\ p \in Player /\ ~p.cards /\ p.totalContribution = big /\ p.currentBet = big
          /\ p.status = "active"
      BY <1>3, <1>4, <2>1, PostedFields
    <3>2. players'[s] = Dealt(p)
      BY <1>3, <2>1
    <3> QED
      BY <2>1, <3>1, <3>2, DealtFields
  <2>2. CASE s = sb /\ s # bb
    <3> PICK p : p = Posted(ps[s], SmallBlind)
      OBVIOUS
    <3>1. /\ p \in Player /\ ~p.cards /\ p.totalContribution = small /\ p.currentBet = small
          /\ p.status = "active"
      BY <1>3, <1>4, <2>2, PostedFields
    <3>2. players'[s] = Dealt(p)
      BY <1>3, <2>2
    <3> QED
      BY <2>2, <3>1, <3>2, DealtFields
  <2>3. CASE s # sb /\ s # bb
    <3> PICK p : p = ps[s]
      OBVIOUS
    <3>1. /\ p \in Player /\ ~p.cards /\ p.totalContribution = 0
          /\ p.status \in Live => p.currentBet = 0
      BY <1>3, <1>6 DEF Fresh, Live
    <3>2. players'[s] = Dealt(p)
      BY <1>3, <2>3
    <3> QED
      BY <2>3, <3>1, <3>2, DealtFields
  <2> QED
    BY <2>1, <2>2, <2>3
<1>8. SeatSum(posts) = small + big
  <2>1. \A s \in Seats : /\ bigs[s] \in Int /\ smalls[s] \in Int
                         /\ posts[s] = bigs[s] + smalls[s]
    BY <1>3, <1>5
  <2>2. /\ bigs[bb] = big /\ \A r \in Seats \ {bb} : bigs[r] = 0
        /\ smalls[sb] = small /\ \A r \in Seats \ {sb} : smalls[r] = 0
    BY <1>3
  <2> HIDE DEF posts, bigs, smalls
  <2>3. SeatSum(posts) = SeatSum(bigs) + SeatSum(smalls)
    BY <2>1, SeatSumAdd
  <2>4. SeatSum(bigs) = bigs[bb]
    BY <1>3, <2>1, <2>2, SeatSumSingle
  <2>5. SeatSum(smalls) = smalls[sb]
    BY <1>3, <2>1, <2>2, SeatSumSingle
  <2> QED
    BY <1>5, <2>2, <2>3, <2>4, <2>5
<1>9. Contributions(players') = posts
  BY <1>7 DEF Contributions
<1>10. \A s \in Seats : posts[s] \in Nat
  BY <1>5
<1> HIDE DEF posts
<1>11. \A s \in Seats : Tidy(players'[s], table')
  BY <1>7, <1>10 DEF Tidy, Playing
<1>12. \A s \in Seats : Recorded(players'[s])
  BY <1>7, <1>10 DEF Recorded
<1> QED
  BY <1>3, <1>8, <1>9, <1>11, <1>12 DEF RecordFacts

\* A table whose seats have been taken and nothing more has no records.
LEMMA DealInitRecorded == DealInit => RecordInv
<1> SUFFICES ASSUME DealInit
             PROVE  RecordInv
  OBVIOUS
<1>1. /\ players \in [Seats -> Player]
      /\ \A s \in Seats : players[s].totalContribution = 0 /\ players[s].currentBet = 0
  <2>1. HandInv
    BY DealInitKeeps
  <2>2. \A s \in Seats : \E chips \in Stacks : players[s] = Seat(chips)
    BY DEF DealInit
  <2> QED
    BY <2>1, <2>2 DEF HandInv, TypeOK, Seat, Vacant
<1>2. table.phase = "waiting" /\ reply = "idle" /\ table.turnSeat = NoSeat
  BY DEF DealInit
<1>3. table.phase \notin Streets
  BY <1>2 DEF Streets
<1> QED
  BY <1>1, <1>2, <1>3, NoRecords DEF RecordInv, FirstHand

\* Every step keeps the records true, unless a player raises on his time bank or folds
\* without chips before another hand.
LEMMA RecordStep ==
    ASSUME HandInv, HandInv', RecordInv, WebClient, [HandNext \/ Finished]_vars,
           HandNext => RaisesInTime /\ ~BrokeFolds
    PROVE  RecordInv'
<1>1. TypeOK /\ TypeOK' /\ table.handNumber \in Nat
  BY TableFields DEF HandInv, TypeOK
<1>2. ASSUME HandNext, NEW s \in Seats, Bet(s) \/ Timeout(s)
      PROVE  RecordInv'
  <2>1. table.turnSeat = s
    BY <1>2 DEF Bet, Fold, Check, Call, AllIn, Raise, MayBet, Timeout, TimeoutExtend,
                TimeoutFold, TimesOut
  <2>2. table.handNumber # 0
    BY <2>1, SeatsAssumption DEF RecordInv, FirstHand, NoSeat
  <2>3. CASE TimeoutExtend(s)
    BY <2>2, <2>3, ExtendRecorded DEF RecordInv, FirstHand
  <2>4. CASE Bet(s) \/ TimeoutFold(s)
    <3>1. PICK q, t, put, turn, refund : Moved(s, q, t, put, turn, refund)
      BY <2>4, BetOutcome, FoldOutcome
    <3>2. players[s].status = "active"
      <4>1. CASE Bet(s)
        BY <4>1 DEF Bet, Fold, Check, Call, AllIn, Raise, MayBet
      <4>2. CASE TimeoutFold(s)
        BY <4>2 DEF TimeoutFold, TimesOut, HandInv, DueFits, Active
      <4> QED
        BY <2>4, <4>1, <4>2
    <3>3. ~\E amount \in 0..MaxAmount : players[s].usingBank /\ Raise(s, amount)
      BY <1>2 DEF RaisesInTime
    <3>4. table.handNumber < MaxHands /\ players[s].chips = 0 => ~Fold(s) /\ ~TimeoutFold(s)
      BY <1>2 DEF BrokeFolds
    <3>5. RecordFacts(players', table') /\ table'.handNumber = table.handNumber
      BY <3>1, <3>2, <3>3, <3>4, MoveRecorded
    <3> QED
      BY <2>2, <3>5 DEF RecordInv, FirstHand
  <2> QED
    BY <1>2, <2>3, <2>4 DEF Timeout
<1>3. CASE NextStreet
  <2>1. table.handNumber # 0
    BY <1>3 DEF NextStreet, RecordInv, FirstHand
  <2> QED
    BY <1>3, <2>1, NextStreetRecorded DEF RecordInv, FirstHand
<1>4. ASSUME NEW score \in [InHand(players) -> Scores], Showdown(score)
      PROVE  RecordInv'
  <2>1. table.handNumber # 0
    BY <1>4 DEF Showdown, RecordInv, FirstHand
  <2>2. RecordFacts(players', table') /\ table'.handNumber = table.handNumber
    BY <1>1, <1>4, ShowdownRecorded
  <2> QED
    BY <2>1, <2>2 DEF RecordInv, FirstHand
<1>5. CASE TooFewToDeal
  BY <1>5, TooFewRecorded DEF RecordInv, FirstHand
<1>6. CASE Deal
  <2>1. RecordFacts(players', table') /\ table'.handNumber = table.handNumber + 1
    BY <1>1, <1>6, DealRecorded
  <2>2. table'.handNumber # 0
    BY <1>1, <2>1
  <2> QED
    BY <2>1, <2>2 DEF RecordInv, FirstHand
<1>7. CASE Finished \/ UNCHANGED vars
  <2>1. players' = players /\ table' = table /\ reply' = reply
    BY <1>7 DEF Finished, vars
  <2> QED
    BY <2>1 DEF RecordInv, FirstHand
<1> QED
  BY <1>2, <1>3, <1>4, <1>5, <1>6, <1>7 DEF HandNext, NextHand

\* While a hand is played, what the seats are recorded to have put in is the pot
\* (showdown.lua divides the one by the other), as long as nobody raises on his time bank
\* and nobody folds without chips before another hand.  In the first hand at a table the
\* raises alone can make a difference.
THEOREM RecordsMatchThePot ==
    ASSUME WebClient
    PROVE  /\ RecordedTable => []PotIsContributions
           /\ MaxHands = 1 => (PromptSpec => []PotIsContributions)
<1>1. DealInit => HandInv /\ RecordInv
  BY DealInitKeeps, DealInitRecorded
<1>2. ASSUME HandInv, RecordInv,
             [(HandNext /\ RaisesInTime /\ ~BrokeFolds) \/ Finished]_vars
      PROVE  HandInv' /\ RecordInv'
  <2>1. [HandNext \/ Finished]_vars
    BY <1>2
  <2>2. HandInv'
    BY <1>2, <2>1, HandNextKeeps
  <2>3. CASE HandNext /\ RaisesInTime /\ ~BrokeFolds
    BY <1>2, <2>1, <2>2, <2>3, RecordStep
  <2>4. CASE Finished \/ UNCHANGED vars
    <3>1. players' = players /\ table' = table /\ reply' = reply
      BY <2>4 DEF Finished, vars
    <3> QED
      BY <1>2, <2>2, <3>1 DEF RecordInv, FirstHand
  <2> QED
    BY <1>2, <2>3, <2>4
<1>3. ASSUME MaxHands = 1, HandInv, RecordInv, HandNext
      PROVE  ~BrokeFolds
  <2> SUFFICES ASSUME NEW s \in Seats, Fold(s) \/ TimeoutFold(s), table.handNumber < 1
               PROVE  FALSE
    BY <1>3 DEF BrokeFolds
  <2>1. table.handNumber = 0
    BY <1>3, TableFields DEF HandInv, TypeOK
  <2>2. table.turnSeat = s
    BY DEF Fold, MayBet, TimeoutFold, TimesOut
  <2> QED
    BY <1>3, <2>1, <2>2, SeatsAssumption DEF RecordInv, FirstHand, NoSeat
<1>4. HandInv /\ RecordInv => PotIsContributions
  BY DEF RecordInv, RecordFacts, PotIsContributions
<1>5. RecordedTable => []PotIsContributions
  BY <1>1, <1>2, <1>4, PTL DEF RecordedTable
<1>6. ASSUME MaxHands = 1
      PROVE  PromptSpec => []PotIsContributions
  <2>1. HandInv /\ RecordInv /\ [(HandNext /\ RaisesInTime) \/ Finished]_vars
          => (HandInv /\ RecordInv)'
    BY <1>2, <1>3, <1>6
  <2>2. PromptInit => DealInit
    BY DEF PromptInit
  <2> QED
    BY <1>1, <1>4, <2>1, <2>2, PTL DEF PromptSpec
<1> QED
  BY <1>5, <1>6
=============================================================================

------------------------- MODULE TableEngineProofs -------------------------
(***************************************************************************)
(* Theorems about one table, for any number of seats, any stakes and       *)
(* stacks, any rules and any sequence of bets, timeouts and seat requests. *)
(***************************************************************************)
EXTENDS TableProps, SidePotProofs

(***************************************************************************)
(* What the two hashes and the helpers on them return.  An update of       *)
(* several fields is taken one field at a time.                            *)
(***************************************************************************)

\* What the fields of a seat's record are.
LEMMA PlayerFields ==
    ASSUME NEW p \in Player
    PROVE  /\ p.status \in Statuses
           /\ p.chips \in Int /\ p.currentBet \in Int /\ p.totalContribution \in Int
           /\ p.cards \in BOOLEAN /\ p.usingBank \in BOOLEAN
           /\ p.sitOutNextHand \in BOOLEAN /\ p.leaveNextBB \in BOOLEAN
           /\ p.pendingTopUp \in Nat /\ p.timeBank \in Nat
BY DEF Player

\* Storing a field of the right type leaves a seat's record a record.
LEMMA PlayerUpdates ==
    ASSUME NEW p \in Player
    PROVE  /\ \A v \in Statuses : [p EXCEPT !.status = v] \in Player
           /\ \A v \in Int :
                /\ [p EXCEPT !.chips = v] \in Player
                /\ [p EXCEPT !.currentBet = v] \in Player
                /\ [p EXCEPT !.totalContribution = v] \in Player
           /\ \A v \in Nat :
                /\ [p EXCEPT !.pendingTopUp = v] \in Player
                /\ [p EXCEPT !.timeBank = v] \in Player
           /\ \A v \in BOOLEAN :
                /\ [p EXCEPT !.cards = v] \in Player
                /\ [p EXCEPT !.usingBank = v] \in Player
                /\ [p EXCEPT !.benchAfterHand = v] \in Player
                /\ [p EXCEPT !.sitOutNextHand = v] \in Player
                /\ [p EXCEPT !.offline = v] \in Player
                /\ [p EXCEPT !.leaveNextBB = v] \in Player
BY DEF Player

\* What the fields of the table's hash are.
LEMMA TableFields ==
    ASSUME NEW t \in Table
    PROVE  /\ t.phase \in Phases
           /\ t.pot \in Int /\ t.currentBet \in Int /\ t.lastRaiseSize \in Int
           /\ t.turnSeat \in Seats \cup {NoSeat} /\ t.dealerSeat \in 0..9
           /\ t.playersActedCount \in Nat /\ t.handNumber \in Nat
BY DEF Table

\* Storing a field of the right type leaves the table's hash a table.
LEMMA TableUpdates ==
    ASSUME NEW t \in Table
    PROVE  /\ \A v \in Phases : [t EXCEPT !.phase = v] \in Table
           /\ \A v \in Int :
                /\ [t EXCEPT !.pot = v] \in Table
                /\ [t EXCEPT !.currentBet = v] \in Table
                /\ [t EXCEPT !.lastRaiseSize = v] \in Table
           /\ \A v \in Seats \cup {NoSeat} : [t EXCEPT !.turnSeat = v] \in Table
           /\ \A v \in 0..9 : [t EXCEPT !.dealerSeat = v] \in Table
           /\ \A v \in Nat :
                /\ [t EXCEPT !.playersActedCount = v] \in Table
                /\ [t EXCEPT !.handNumber = v] \in Table
BY DEF Table

\* The names the scripts give to statuses, phases and reactions.
LEMMA Names ==
    /\ {"empty", "waiting", "active", "folded", "all-in", "sitting_out", "busted",
        "leaving"} \subseteq Statuses
    /\ {"preflop", "flop", "turn", "river", "waiting", "showdown"} \subseteq Phases
    /\ {"idle", "play", "street", "runout", "showdown", "complete"} \subseteq Replies
BY DEF Statuses, Phases, Streets, Replies

\* Comparing whole numbers gives a whole number.
LEMMA SmallerLargerType ==
    ASSUME NEW a \in Int, NEW b \in Int
    PROVE  Smaller(a, b) \in Int /\ Larger(a, b) \in Int
BY DEF Smaller, Larger

\* Moving chips into the pot keeps the seat's record a record (bet.lua's branches).
LEMMA PutType ==
    ASSUME NEW p \in Player, NEW chips \in Int, NEW status \in Statuses
    PROVE  Put(p, chips, status) \in Player
<1>1. /\ p.chips - chips \in Int
      /\ p.currentBet + chips \in Int
      /\ p.totalContribution + chips \in Int
  BY PlayerFields
<1> DEFINE q == [[[[p EXCEPT !.chips = p.chips - chips]
                        EXCEPT !.currentBet = p.currentBet + chips]
                        EXCEPT !.totalContribution = p.totalContribution + chips]
                        EXCEPT !.status = status]
<1>2. q \in Player
  BY <1>1, PlayerUpdates, Zenon
<1>3. Put(p, chips, status) = q
  BY DEF Put, Player
<1> QED
  BY <1>2, <1>3

\* So does giving back an uncalled bet (bet.lua:479-516).
LEMMA RefundedType ==
    ASSUME NEW p \in Player, NEW back \in Int
    PROVE  Refunded(p, back) \in Player
<1> DEFINE contribution == IF back > 0 THEN Larger(0, p.totalContribution - back)
                                       ELSE p.totalContribution
<1>1. /\ p.chips + back \in Int
      /\ p.currentBet - back \in Int
      /\ contribution \in Int
  BY PlayerFields DEF Larger
<1> DEFINE q == [[[p EXCEPT !.chips = p.chips + back]
                       EXCEPT !.currentBet = p.currentBet - back]
                       EXCEPT !.totalContribution = contribution]
<1>2. q \in Player
  BY <1>1, PlayerUpdates, Zenon
<1>3. Refunded(p, back) = q
  BY DEF Refunded, Player
<1> QED
  BY <1>2, <1>3

\* Counting a turn keeps the table's hash a table (bet.lua:332-338).
LEMMA ActedType ==
    ASSUME NEW t \in Table, NEW aggressive \in BOOLEAN
    PROVE  Acted(t, aggressive) \in Table
<1>1. (IF aggressive THEN 1 ELSE t.playersActedCount + 1) \in Nat
  BY TableFields
<1> QED
  BY <1>1, TableUpdates DEF Acted

\* The resets between two hands keep a record a record (next_hand.lua, showdown.lua).
LEMMA ClearedType ==
    ASSUME NEW p \in Player
    PROVE  Cleared(p) \in Player
<1> DEFINE q == [[[p EXCEPT !.currentBet = 0] EXCEPT !.totalContribution = 0]
                       EXCEPT !.cards = FALSE]
<1>1. 0 \in Int /\ FALSE \in BOOLEAN
  OBVIOUS
<1>2. q \in Player
  BY <1>1, PlayerUpdates, Zenon
<1>3. Cleared(p) = q
  BY DEF Cleared, Player
<1> QED
  BY <1>2, <1>3

\* Sending a player to the bench keeps his record a record (next_hand.lua:133-138).
LEMMA SatOutType ==
    ASSUME NEW p \in Player
    PROVE  SatOut(p) \in Player
BY ClearedType, PlayerUpdates, Names DEF SatOut

\* So does resting a seat after a showdown (showdown.lua:185-209).
LEMMA RestedType ==
    ASSUME NEW p \in Player
    PROVE  Rested(p) \in Player
<1> DEFINE c == Cleared(p)
           status == IF c.status \in {"empty", "sitting_out"} THEN c.status
                     ELSE IF p.chips > 0 THEN "waiting" ELSE "busted"
<1>1. c \in Player
  BY ClearedType
<1>2. status \in Statuses
  BY <1>1, PlayerFields, Names
<1>3. Rested(p) = [c EXCEPT !.status = status]
  BY <1>1 DEF Rested, Player
<1> QED
  BY <1>1, <1>2, <1>3, PlayerUpdates

\* So does adding the chips kept aside during the last hand (next_hand.lua:51-63).
LEMMA ToppedUpType ==
    ASSUME NEW p \in Player
    PROVE  ToppedUp(p) \in Player
<1>1. p.chips + p.pendingTopUp \in Int
  BY PlayerFields
<1> DEFINE q == [[p EXCEPT !.chips = p.chips + p.pendingTopUp] EXCEPT !.pendingTopUp = 0]
<1>2. q \in Player
  BY <1>1, PlayerUpdates, Zenon
<1>3. ToppedUp(p) = q
  BY DEF ToppedUp, Player
<1> QED
  BY <1>2, <1>3

\* Promoting a record for the next hand keeps it a record (next_hand.lua:100-176).
LEMMA PromotedType ==
    ASSUME NEW p \in Player
    PROVE  Promoted(p) \in Player
<1> DEFINE c == Cleared(p)
           dealtIn == [c EXCEPT !.status = "active", !.timeBank = Smaller(@ + 2, TimeBank)]
<1>1. c \in Player /\ SatOut(p) \in Player
  BY ClearedType, SatOutType
<1>2. [SatOut(p) EXCEPT !.benchAfterHand = FALSE] \in Player
  BY <1>1, PlayerUpdates
<1>3. [SatOut(p) EXCEPT !.sitOutNextHand = FALSE] \in Player
  BY <1>1, PlayerUpdates
<1>4. dealtIn \in Player
  <2>1. Smaller(c.timeBank + 2, TimeBank) \in Nat
    BY <1>1, PlayerFields, StakesAssumption DEF Smaller
  <2>2. dealtIn = [[c EXCEPT !.status = "active"]
                       EXCEPT !.timeBank = Smaller(c.timeBank + 2, TimeBank)]
    BY <1>1 DEF Player
  <2>3. "active" \in Statuses
    BY Names
  <2> QED
    BY <1>1, <2>1, <2>2, <2>3, PlayerUpdates
<1> QED
  BY <1>1, <1>2, <1>3, <1>4 DEF Promoted

\* The sweep before a deal leaves one record per seat (next_hand.lua:51-176).
LEMMA SweptType ==
    ASSUME TypeOK
    PROVE  Swept \in [Seats -> Player]
<1>1. ASSUME NEW p \in Player
      PROVE  Promoted(Ghosted(ToppedUp(p))) \in Player
  BY <1>1, ToppedUpType, SatOutType, PromotedType DEF Ghosted
<1> QED
  BY <1>1 DEF Swept, TypeOK

(***************************************************************************)
(* Type correctness.                                                       *)
(***************************************************************************)

\* The seats a script looks for exist (getNextActiveSeat, playersInHand).
LEMMA SeatSets ==
    ASSUME NEW ps \in [Seats -> Player]
    PROVE  Active(ps) \in SUBSET Seats /\ InHand(ps) \in SUBSET Seats
BY DEF Active, InHand

\* Whatever the outcome of an action, the hashes keep their types.
LEMMA OutcomeType ==
    ASSUME NEW ps \in [Seats -> Player], NEW t \in Table,
           NEW turn \in Seats \cup {NoSeat}, NEW still \in Seats \cup {NoSeat},
           NEW refund, \A s \in Seats : refund[s] \in Int,
           HandWon(ps, t, still) \/ RoundOver(ps, t, turn, refund) \/ PlayOn(ps, t, turn)
    PROVE  players' \in [Seats -> Player] /\ table' \in Table /\ reply' \in Replies
<1>1. CASE HandWon(ps, t, still)
  <2>1. ASSUME NEW s \in Seats
        PROVE  [ps[s] EXCEPT !.chips = @ + t.pot] \in Player
    <3>1. ps[s].chips + t.pot \in Int
      BY PlayerFields, TableFields
    <3> QED
      BY <3>1, PlayerUpdates
  <2>2. players' \in [Seats -> Player]
    BY <1>1, <2>1 DEF HandWon
  <2>3. table' \in Table
    <3> DEFINE q == [[[t EXCEPT !.pot = 0] EXCEPT !.phase = "showdown"]
                         EXCEPT !.turnSeat = still]
    <3>1. 0 \in Int /\ "showdown" \in Phases
      BY Names
    <3>2. q \in Table
      BY <3>1, TableUpdates, Zenon
    <3>3. table' = q
      BY <1>1 DEF HandWon
    <3> QED
      BY <3>2, <3>3
  <2> QED
    BY <1>1, <2>2, <2>3, Names DEF HandWon
<1>2. CASE RoundOver(ps, t, turn, refund)
  <2>1. players' \in [Seats -> Player]
    BY <1>2, RefundedType DEF RoundOver
  <2>2. table' \in Table
    <3> DEFINE q == [[t EXCEPT !.pot = t.pot - SeatSum(refund)] EXCEPT !.turnSeat = turn]
    <3>1. t.pot - SeatSum(refund) \in Int
      BY SeatSumType, TableFields
    <3>2. q \in Table
      BY <3>1, TableUpdates, Zenon
    <3>3. table' = q
      BY <1>2 DEF RoundOver, Table
    <3> QED
      BY <3>2, <3>3
  <2> QED
    BY <1>2, <2>1, <2>2, Names DEF RoundOver
<1>3. CASE PlayOn(ps, t, turn)
  BY <1>3, TableUpdates, Names DEF PlayOn
<1> QED
  BY <1>1, <1>2, <1>3

\* What nobody has matched of a bet is a whole number of chips (bet.lua:479-516).
LEMMA UncalledType ==
    ASSUME NEW ps \in [Seats -> Player], NEW s \in Seats
    PROVE  Uncalled(ps, s) \in Int
<1> DEFINE others == [r \in Seats |-> IF r \in InHand(ps) \ {s} THEN ps[r].currentBet ELSE 0]
<1>1. \A r \in Seats : others[r] \in Int
  BY PlayerFields
<1>2. ps[s].currentBet - SeatMax(others) \in Int
  BY <1>1, SeatMaxType, PlayerFields
<1>3. Larger(0, ps[s].currentBet - SeatMax(others)) \in Int
  BY <1>2 DEF Larger
<1> QED
  BY <1>3 DEF Uncalled

\* After a bet the hashes keep their types (the part all of bet.lua's actions share).
LEMMA AfterBetType ==
    ASSUME TypeOK, NEW s \in Seats, NEW p \in Player, NEW t \in Table, AfterBet(s, p, t)
    PROVE  TypeOK'
<1>1. PICK bank \in (IF p.usingBank THEN 0..p.timeBank ELSE {p.timeBank}) :
        LET ps == [players EXCEPT ![s] = [p EXCEPT !.timeBank = bank, !.usingBank = FALSE]]
            next == NextOf(Active(ps), s)
        IN  /\ \/ HandWon(ps, t, t.turnSeat)
               \/ RoundOver(ps, t, next, [r \in Seats |-> Uncalled(ps, r)])
               \/ PlayOn(ps, t, next)
            /\ UNCHANGED <<balance, house>>
  BY DEF AfterBet
<1> DEFINE q == [[p EXCEPT !.timeBank = bank] EXCEPT !.usingBank = FALSE]
           ps == [players EXCEPT ![s] = [p EXCEPT !.timeBank = bank, !.usingBank = FALSE]]
           refund == [r \in Seats |-> Uncalled(ps, r)]
<1>2. ps \in [Seats -> Player]
  <2>1. bank \in Nat /\ FALSE \in BOOLEAN
    BY PlayerFields
  <2>2. q \in Player
    BY <2>1, PlayerUpdates, Zenon
  <2>3. [p EXCEPT !.timeBank = bank, !.usingBank = FALSE] = q
    BY DEF Player
  <2> QED
    BY <2>2, <2>3 DEF TypeOK
<1>3. NextOf(Active(ps), s) \in Seats \cup {NoSeat}
  <2> HIDE DEF ps
  <2>1. s \in -1..9 /\ Active(ps) \in SUBSET Seats
    BY <1>2, SeatSets, SeatsAssumption
  <2> QED
    BY <2>1, NextOfType
<1>4. \A r \in Seats : refund[r] \in Int
  BY <1>2, UncalledType
<1>5. t.turnSeat \in Seats \cup {NoSeat}
  BY TableFields
<1>6. players' \in [Seats -> Player] /\ table' \in Table /\ reply' \in Replies
  <2> HIDE DEF ps, refund
  <2> QED
    BY <1>1, <1>2, <1>3, <1>4, <1>5, OutcomeType DEF ps, refund
<1> QED
  BY <1>1, <1>6 DEF TypeOK

\* Where the chips of a move are: what leaves the stack is in the pot.
LEMMA PutChips ==
    ASSUME NEW p \in Player, NEW chips \in Int, NEW status \in Statuses
    PROVE  Put(p, chips, status).chips = p.chips - chips
BY DEF Put, Player

\* Counting a turn leaves the pot and the count of hands alone (bet.lua:332-338).
LEMMA ActedPot ==
    ASSUME NEW t \in Table, NEW aggressive \in BOOLEAN
    PROVE  /\ Acted(t, aggressive).pot = t.pot
           /\ Acted(t, aggressive).handNumber = t.handNumber
BY DEF Acted, Table

\* Nor does it change whose turn it is; it counts one at least.
LEMMA ActedTurn ==
    ASSUME NEW t \in Table, NEW aggressive \in BOOLEAN
    PROVE  /\ Acted(t, aggressive).phase = t.phase
           /\ Acted(t, aggressive).turnSeat = t.turnSeat
           /\ Acted(t, aggressive).currentBet = t.currentBet
           /\ Acted(t, aggressive).playersActedCount \in Nat \ {0}
BY DEF Acted, Table

\* What a move leaves of the turn: whoever may still act has answered the bet, and the
\* move is counted.
Answered(p, t) ==
    /\ t.phase = table.phase /\ t.turnSeat = table.turnSeat
    /\ t.handNumber = table.handNumber
    /\ t.playersActedCount >= 1
    /\ p.status \in {"active", "folded", "all-in"}
    /\ p.status = "active" => p.currentBet >= t.currentBet

\* Each of the five betting actions (bet.lua) moves chips from the actor's stack to the
\* pot, in the hand that is played, and then looks what follows.
LEMMA BetMoves ==
    ASSUME TypeOK, NEW s \in Seats, Bet(s)
    PROVE  \E p \in Player, t \in Table :
              /\ AfterBet(s, p, t)
              /\ p.chips + t.pot = players[s].chips + table.pot
              /\ Answered(p, t)
<1>1. players[s] \in Player /\ table \in Table
  BY DEF TypeOK
<1>2. \A aggressive \in BOOLEAN :
         /\ Acted(table, aggressive) \in Table
         /\ Acted(table, aggressive).pot = table.pot
         /\ Acted(table, aggressive).handNumber = table.handNumber
         /\ Acted(table, aggressive).phase = table.phase
         /\ Acted(table, aggressive).turnSeat = table.turnSeat
         /\ Acted(table, aggressive).currentBet = table.currentBet
         /\ Acted(table, aggressive).playersActedCount >= 1
  BY <1>1, ActedType, ActedPot, ActedTurn
<1>3. CASE Fold(s)
  <2> DEFINE p == [[players[s] EXCEPT !.status = "folded"] EXCEPT !.cards = FALSE]
  <2>1. p \in Player
    BY <1>1, PlayerUpdates, Names
  <2>2. AfterBet(s, p, Acted(table, FALSE))
    BY <1>3 DEF Fold
  <2>3. p.chips = players[s].chips /\ p.status = "folded"
    BY <1>1 DEF Player
  <2> HIDE DEF p
  <2>4. Answered(p, Acted(table, FALSE))
    BY <1>2, <2>3 DEF Answered
  <2> QED
    BY <1>2, <2>1, <2>2, <2>3, <2>4
<1>4. CASE Check(s)
  <2>1. players[s].status = "active" /\ ToCall(s) <= 0 /\ AfterBet(s, players[s], Acted(table, FALSE))
    BY <1>4 DEF Check, MayBet
  <2>2. players[s].currentBet >= table.currentBet
    BY <1>1, <2>1, PlayerFields, TableFields DEF ToCall
  <2>3. Answered(players[s], Acted(table, FALSE))
    BY <1>2, <2>1, <2>2 DEF Answered
  <2> QED
    BY <1>1, <1>2, <2>1, <2>3
<1>5. CASE Call(s)
  <2> DEFINE status == IF players[s].chips = Called(s) THEN "all-in" ELSE "active"
             a == Acted(table, FALSE)
             t == [a EXCEPT !.pot = a.pot + Called(s)]
  <2>1. Called(s) \in Int
    BY <1>1, PlayerFields, TableFields DEF Called, ToCall, Smaller
  <2>2. status \in Statuses
    BY Names
  <2>3. Put(players[s], Called(s), status) \in Player
    BY <1>1, <2>1, <2>2, PutType
  <2>4. t \in Table
    <3>1. a \in Table
      BY <1>2
    <3> HIDE DEF a
    <3>2. a.pot + Called(s) \in Int
      BY <2>1, <3>1, TableFields
    <3> QED
      BY <3>1, <3>2, TableUpdates
  <2>5. AfterBet(s, Put(players[s], Called(s), status), t)
    BY <1>5 DEF Call
  <2>6. Put(players[s], Called(s), status).chips = players[s].chips - Called(s)
    BY <1>1, <2>1, <2>2, PutChips
  <2>7. /\ t.pot = table.pot + Called(s) /\ t.handNumber = table.handNumber
        /\ t.phase = table.phase /\ t.turnSeat = table.turnSeat
        /\ t.currentBet = table.currentBet /\ t.playersActedCount >= 1
    <3>1. /\ a \in Table /\ a.pot = table.pot /\ a.handNumber = table.handNumber
          /\ a.phase = table.phase /\ a.turnSeat = table.turnSeat
          /\ a.currentBet = table.currentBet /\ a.playersActedCount >= 1
      BY <1>2
    <3> HIDE DEF a
    <3> QED
      BY <3>1 DEF Table
  <2>8. players[s].chips \in Int /\ table.pot \in Int
    BY <1>1, PlayerFields, TableFields
  <2>9. Answered(Put(players[s], Called(s), status), t)
    <3>1. /\ Put(players[s], Called(s), status).status = status
          /\ Put(players[s], Called(s), status).currentBet = players[s].currentBet + Called(s)
      BY <1>1, <2>1, <2>2 DEF Put, Player
    <3>2. status = "active" => Called(s) = table.currentBet - players[s].currentBet
      BY <1>1, PlayerFields, TableFields DEF Called, ToCall, Smaller
    <3>3. status \in {"active", "all-in"}
      OBVIOUS
    <3>4. players[s].currentBet \in Int /\ table.currentBet \in Int
      BY <1>1, PlayerFields, TableFields
    <3> HIDE DEF status, t
    <3> QED
      BY <2>7, <3>1, <3>2, <3>3, <3>4 DEF Answered
  <2> HIDE DEF status, t
  <2> QED
    BY <2>1, <2>3, <2>4, <2>5, <2>6, <2>7, <2>8, <2>9
<1>6. CASE AllIn(s)
  <2> DEFINE chips == players[s].chips
             p == Put(players[s], chips, "all-in")
             raises == p.currentBet > table.currentBet
             a == Acted(table, raises)
             t == [a EXCEPT
                    !.pot = @ + chips,
                    !.currentBet = IF raises THEN p.currentBet ELSE @,
                    !.lastRaiseSize = IF raises THEN p.currentBet - table.currentBet ELSE @]
  <2>1. p \in Player
    BY <1>1, PlayerFields, PutType, Names
  <2>2. a \in Table
    <3>1. raises \in BOOLEAN
      OBVIOUS
    <3> HIDE DEF raises
    <3> QED
      BY <1>2, <3>1
  <2>3. t \in Table
    <3> DEFINE pot == a.pot + chips
               bet == IF raises THEN p.currentBet ELSE a.currentBet
               raise == IF raises THEN p.currentBet - table.currentBet ELSE a.lastRaiseSize
               q == [[[a EXCEPT !.pot = pot] EXCEPT !.currentBet = bet]
                         EXCEPT !.lastRaiseSize = raise]
    <3> HIDE DEF chips, p, raises, a
    <3>1. chips \in Int
      BY <1>1, PlayerFields DEF chips
    <3>2. pot \in Int /\ bet \in Int /\ raise \in Int
      BY <1>1, <2>1, <2>2, <3>1, PlayerFields, TableFields
    <3>3. t = q
      BY <2>2 DEF Table
    <3>4. q \in Table
      <4> HIDE DEF pot, bet, raise
      <4> QED
        BY <2>2, <3>2, TableUpdates, Zenon
    <3> QED
      BY <3>3, <3>4
  <2>4. AfterBet(s, p, t)
    BY <1>6 DEF AllIn
  <2>5. players[s].chips \in Int /\ table.pot \in Int
    BY <1>1, PlayerFields, TableFields
  <2>6. p.chips = players[s].chips - chips
    BY <1>1, <2>5, PutChips, Names
  <2>7. /\ t.pot = table.pot + chips /\ t.handNumber = table.handNumber
        /\ t.phase = table.phase /\ t.turnSeat = table.turnSeat /\ t.playersActedCount >= 1
    <3>1. raises \in BOOLEAN
      OBVIOUS
    <3> HIDE DEF raises
    <3>2. /\ a.pot = table.pot /\ a.handNumber = table.handNumber
          /\ a.phase = table.phase /\ a.turnSeat = table.turnSeat /\ a.playersActedCount >= 1
      BY <1>2, <3>1
    <3> HIDE DEF p, a, chips
    <3> QED
      BY <2>2, <3>2 DEF Table
  <2>8. p.status = "all-in"
    BY <1>1 DEF Put, Player
  <2> HIDE DEF p, t
  <2>9. Answered(p, t)
    BY <2>7, <2>8 DEF Answered
  <2> QED
    BY <2>1, <2>3, <2>4, <2>5, <2>6, <2>7, <2>9
<1>7. ASSUME NEW amount \in 0..MaxAmount, Raise(s, amount)
      PROVE  \E p \in Player, t \in Table :
                /\ AfterBet(s, p, t)
                /\ p.chips + t.pot = players[s].chips + table.pot
                /\ Answered(p, t)
  <2> DEFINE own == players[s]
             chips == IF Capped(s, amount) >= own.chips THEN own.chips
                                                        ELSE Capped(s, amount) - own.currentBet
             bet == own.currentBet + chips
             raised == Put(own, chips, IF own.chips = chips THEN "all-in" ELSE "active")
             recorded == IF own.usingBank THEN own.totalContribution
                                          ELSE raised.totalContribution
             p == [raised EXCEPT !.totalContribution = recorded]
             t == [Acted(table, TRUE) EXCEPT
                     !.pot = @ + chips,
                     !.currentBet = bet,
                     !.lastRaiseSize = IF bet > table.currentBet THEN bet - table.currentBet
                                                                 ELSE @]
  <2>1. AfterBet(s, p, t)
    BY <1>7 DEF Raise
  <2>2. /\ own.chips \in Int /\ own.currentBet \in Int /\ own.totalContribution \in Int
        /\ table.pot \in Int /\ table.currentBet \in Int
    BY <1>1, PlayerFields, TableFields
  <2>3. Capped(s, amount) \in Int
    BY <2>2, BoundsAssumption DEF Capped, Smaller, ToCall
  <2>4. chips \in Int
    BY <2>2, <2>3
  <2>5. bet \in Int
    BY <2>2, <2>4
  <2>6. p \in Player
    <3> HIDE DEF chips
    <3>1. raised \in Player
      BY <1>1, <2>4, PutType, Names
    <3>2. recorded \in Int
      BY <2>2, <3>1, PlayerFields
    <3> HIDE DEF raised, recorded
    <3> QED
      BY <3>1, <3>2, PlayerUpdates
  <2>7. t \in Table
    <3> DEFINE a == Acted(table, TRUE)
               raise == IF bet > table.currentBet THEN bet - table.currentBet
                                                  ELSE a.lastRaiseSize
               q == [[[a EXCEPT !.pot = a.pot + chips] EXCEPT !.currentBet = bet]
                         EXCEPT !.lastRaiseSize = raise]
    <3>1. a \in Table
      BY <1>2
    <3> HIDE DEF a, chips, bet
    <3>2. a.pot + chips \in Int /\ raise \in Int
      BY <2>2, <2>4, <2>5, <3>1, TableFields
    <3>3. q \in Table
      <4> HIDE DEF raise
      <4> QED
        BY <2>5, <3>1, <3>2, TableUpdates, Zenon
    <3>4. t = q
      BY <3>1 DEF a, Table
    <3> QED
      BY <3>3, <3>4
  <2>8. p.chips = own.chips - chips
    <3> HIDE DEF chips, recorded
    <3>1. raised \in Player /\ raised.chips = own.chips - chips
      BY <1>1, <2>4, PutType, PutChips, Names
    <3> HIDE DEF raised
    <3> QED
      BY <3>1 DEF Player
  <2>9. /\ t.pot = table.pot + chips /\ t.handNumber = table.handNumber
        /\ t.phase = table.phase /\ t.turnSeat = table.turnSeat
        /\ t.currentBet = bet /\ t.playersActedCount >= 1
    <3> DEFINE a == Acted(table, TRUE)
    <3>1. /\ a \in Table /\ a.pot = table.pot /\ a.handNumber = table.handNumber
          /\ a.phase = table.phase /\ a.turnSeat = table.turnSeat /\ a.playersActedCount >= 1
      BY <1>2
    <3> HIDE DEF a, chips, bet
    <3> QED
      BY <3>1 DEF a, Table
  <2>10. p.currentBet = bet /\ p.status \in {"active", "all-in"}
    <3> HIDE DEF chips, recorded
    <3>1. /\ raised \in Player /\ raised.currentBet = own.currentBet + chips
          /\ raised.status \in {"active", "all-in"}
      BY <1>1, <2>4, PutType, Names DEF Put, Player
    <3> HIDE DEF raised
    <3> QED
      BY <3>1 DEF Player
  <2> HIDE DEF p, t, chips, bet
  <2>11. Answered(p, t)
    BY <2>5, <2>9, <2>10 DEF Answered
  <2> QED
    BY <2>1, <2>2, <2>4, <2>6, <2>7, <2>8, <2>9, <2>11
<1> QED
  BY <1>3, <1>4, <1>5, <1>6, <1>7 DEF Bet

\* So a bet keeps the types.
LEMMA BetType ==
    ASSUME TypeOK, NEW s \in Seats, Bet(s)
    PROVE  TypeOK'
BY BetMoves, AfterBetType

\* A timeout keeps the types (timeout.lua).
LEMMA TimeoutType ==
    ASSUME TypeOK, NEW s \in Seats, Timeout(s)
    PROVE  TypeOK'
<1>1. players[s] \in Player /\ table \in Table
  BY DEF TypeOK
<1>2. CASE TimeoutExtend(s)
  <2>1. [players[s] EXCEPT !.usingBank = TRUE] \in Player
    BY <1>1, PlayerUpdates
  <2> QED
    BY <1>2, <2>1 DEF TimeoutExtend, TypeOK
<1>3. CASE TimeoutFold(s)
  <2> DEFINE q == [[[[players[s] EXCEPT !.status = "folded"] EXCEPT !.cards = FALSE]
                        EXCEPT !.usingBank = FALSE] EXCEPT !.benchAfterHand = TRUE]
             ps == [players EXCEPT ![s] = [@ EXCEPT !.status = "folded", !.cards = FALSE,
                                               !.usingBank = FALSE, !.benchAfterHand = TRUE]]
             t == Acted(table, FALSE)
             refund == [r \in Seats |-> 0]
  <2>1. ps \in [Seats -> Player]
    <3>1. "folded" \in Statuses /\ FALSE \in BOOLEAN /\ TRUE \in BOOLEAN
      BY Names
    <3>2. q \in Player
      BY <1>1, <3>1, PlayerUpdates, Zenon
    <3>3. ps = [players EXCEPT ![s] = q]
      BY <1>1 DEF TypeOK
    <3> QED
      BY <3>2, <3>3 DEF TypeOK
  <2>2. t \in Table
    BY <1>1, ActedType
  <2>3. NextOf(Active(ps), s) \in Seats \cup {NoSeat} /\ NoSeat \in Seats \cup {NoSeat}
    <3> HIDE DEF ps
    <3>1. s \in -1..9 /\ Active(ps) \in SUBSET Seats
      BY <2>1, SeatSets, SeatsAssumption
    <3> QED
      BY <3>1, NextOfType
  <2>4. /\ \/ HandWon(ps, t, NoSeat)
           \/ RoundOver(ps, t, NoSeat, refund)
           \/ PlayOn(ps, t, NextOf(Active(ps), s))
        /\ UNCHANGED <<balance, house>>
    BY <1>3 DEF TimeoutFold
  <2>5. \A r \in Seats : refund[r] \in Int
    OBVIOUS
  <2>6. players' \in [Seats -> Player] /\ table' \in Table /\ reply' \in Replies
    <3> HIDE DEF ps, t, refund
    <3>1. CASE HandWon(ps, t, NoSeat)
      BY <2>1, <2>2, <2>3, <2>5, <3>1, OutcomeType
    <3>2. CASE RoundOver(ps, t, NoSeat, refund)
      BY <2>1, <2>2, <2>3, <2>5, <3>2, OutcomeType
    <3>3. CASE PlayOn(ps, t, NextOf(Active(ps), s))
      BY <2>1, <2>2, <2>3, <2>5, <3>3, OutcomeType
    <3> QED
      BY <2>4, <3>1, <3>2, <3>3
  <2> QED
    BY <2>4, <2>6 DEF TypeOK
<1> QED
  BY <1>2, <1>3 DEF Timeout

\* Turning a street keeps the types (next_street.lua).
LEMMA NextStreetType ==
    ASSUME TypeOK, NextStreet
    PROVE  TypeOK'
<1>1. table \in Table /\ \A s \in Seats : players[s] \in Player
  BY DEF TypeOK
<1>2. players' \in [Seats -> Player]
  <2>1. ASSUME NEW s \in Seats
        PROVE  [players[s] EXCEPT !.currentBet = 0] \in Player
    <3>1. players[s] \in Player /\ 0 \in Int
      BY <1>1
    <3> QED
      BY <3>1, PlayerUpdates, Zenon
  <2> QED
    BY <2>1 DEF NextStreet
<1>3. table' \in Table
  <2> DEFINE phase == StreetAfter[table.phase]
             turn == NextOf(Active(players), table.dealerSeat)
             q == [[[[[table EXCEPT !.phase = phase] EXCEPT !.currentBet = 0]
                         EXCEPT !.lastRaiseSize = BigBlind]
                         EXCEPT !.playersActedCount = 0]
                         EXCEPT !.turnSeat = turn]
  <2>1. table' = q
    BY DEF NextStreet
  <2>2. phase \in Phases
    <3>1. table.phase \in {"preflop", "flop", "turn", "river"}
      BY DEF NextStreet, Streets
    <3> QED
      BY <3>1, Names DEF StreetAfter
  <2>3. turn \in Seats \cup {NoSeat}
    <3>1. Active(players) \in SUBSET Seats /\ table.dealerSeat \in -1..9
      BY <1>1, TableFields DEF Active
    <3> QED
      BY <3>1, NextOfType
  <2>4. 0 \in Int /\ 0 \in Nat /\ BigBlind \in Int
    BY StakesAssumption
  <2>5. q \in Table
    <3> HIDE DEF phase, turn
    <3> QED
      BY <1>1, <2>2, <2>3, <2>4, TableUpdates, Zenon
  <2> QED
    BY <2>1, <2>5
<1>4. reply' \in Replies
  BY Names DEF NextStreet
<1> QED
  BY <1>2, <1>3, <1>4 DEF NextStreet, TypeOK

\* The rake is a whole number of chips (showdown.lua:59-70).
LEMMA RakeType ==
    ASSUME NEW gross \in Int
    PROVE  Rake(gross) \in Int
BY RakeAssumption DEF Rake, Smaller

\* The chips of a slice are a whole number (showdown.lua:91-103).
LEMMA SliceType ==
    ASSUME NEW contrib, \A s \in Seats : contrib[s] \in Int, NEW level \in Int
    PROVE  Slice(contrib, level) \in Int
<1> DEFINE lower == [t \in Seats |-> IF contrib[t] < level THEN contrib[t] ELSE 0]
           layer == [t \in Seats |->
                       Larger(0, Smaller(contrib[t], level) - LevelBelow(contrib, level))]
<1>1. \A t \in Seats : lower[t] \in Int
  OBVIOUS
<1>2. SeatMax(lower) \in Nat
  <2> HIDE DEF lower
  <2> QED
    BY <1>1, SeatMaxType
<1>3. LevelBelow(contrib, level) \in Int
  BY <1>2 DEF LevelBelow
<1>4. \A t \in Seats : layer[t] \in Int
  BY <1>3 DEF Larger, Smaller
<1>5. SeatSum(layer) \in Int
  <2> HIDE DEF layer
  <2> QED
    BY <1>4, SeatSumType
<1> QED
  BY <1>5 DEF Slice

\* So is what a winner gets of one (showdown.lua:127-149).
LEMMA SlicePartType ==
    ASSUME NEW contrib, \A s \in Seats : contrib[s] \in Int,
           NEW alive \in SUBSET Seats, NEW score, NEW gross \in Int, NEW net \in Int,
           NEW first, NEW short, NEW s, NEW r \in Winnable(contrib, alive, score)
    PROVE  SlicePart(contrib, alive, score, gross, net, first, short, r, s) \in Int
<1> DEFINE slice == Slice(contrib, contrib[r])
           amount == Scaled(slice, gross, net) - (IF r \in short THEN 1 ELSE 0)
           winners == Winners(contrib, alive, score, contrib[r])
<1>1. r \in Seats /\ winners \in SUBSET Seats /\ winners # {}
  BY DEF Winnable, LevelSeats, Winners
<1>2. slice \in Int
  BY <1>1, SliceType
<1>3. amount \in Int
  <2> HIDE DEF slice
  <2> QED
    BY <1>2 DEF Scaled
<1>4. Cardinality(winners) \in Nat \ {0}
  <2> HIDE DEF winners
  <2> QED
    BY <1>1, SeatsFinite
<1>5. Part(amount, winners, first[r], s) \in Int
  <2> HIDE DEF amount, winners
  <2> QED
    BY <1>3, <1>4 DEF Part
<1> QED
  BY <1>5 DEF SlicePart

\* Every seat is paid a whole number of chips (showdown.lua:76-150).
LEMMA PayoutsType ==
    ASSUME NEW contrib, \A s \in Seats : contrib[s] \in Int,
           NEW alive \in SUBSET Seats, NEW score, NEW gross \in Int, NEW net \in Int,
           NEW won \in Payouts(contrib, alive, score, gross, net), NEW s \in Seats
    PROVE  won[s] \in Int
<1> DEFINE part(f, short, r, t) ==
             IF r \in DOMAIN f
               THEN SlicePart(contrib, alive, score, gross, net, f, short, r, t) ELSE 0
<1>1. \E f, short : /\ DOMAIN f = Winnable(contrib, alive, score)
                    /\ won = Due(contrib, alive, score, gross, net, f, short)
  BY DEF Payouts
<1>2. PICK f, short : /\ DOMAIN f = Winnable(contrib, alive, score)
                      /\ won = Due(contrib, alive, score, gross, net, f, short)
  BY <1>1
<1> DEFINE parts == [r \in Seats |-> part(f, short, r, s)]
<1>3. \A r \in Seats : parts[r] \in Int
  BY <1>2, SlicePartType
<1>4. SeatSum(parts) \in Int
  <2> HIDE DEF parts
  <2> QED
    BY <1>3, SeatSumType
<1> QED
  BY <1>2, <1>4 DEF Due

\* A showdown keeps the types (showdown.lua).
LEMMA ShowdownType ==
    ASSUME TypeOK, NEW score, Showdown(score)
    PROVE  TypeOK'
<1> DEFINE net == table.pot - Rake(table.pot)
           contrib == Contributions(players)
<1>1. table \in Table /\ (\A s \in Seats : players[s] \in Player) /\ house \in Int
  BY DEF TypeOK
<1>2. table.pot \in Int /\ Rake(table.pot) \in Int
  BY <1>1, TableFields, RakeType
<1>3. PICK won \in Payouts(contrib, InHand(players), score, table.pot, net) :
          players' = [s \in Seats |-> Rested([players[s] EXCEPT !.chips = @ + won[s]])]
  BY DEF Showdown
<1>4. \A s \in Seats : contrib[s] \in Int
  BY <1>1, PlayerFields DEF Contributions
<1>5. net \in Int /\ InHand(players) \in SUBSET Seats
  BY <1>2 DEF InHand
<1>6. ASSUME NEW s \in Seats
      PROVE  won[s] \in Int
  <2> HIDE DEF net, contrib
  <2> QED
    BY <1>2, <1>3, <1>4, <1>5, PayoutsType
<1>7. ASSUME NEW s \in Seats
      PROVE  Rested([players[s] EXCEPT !.chips = @ + won[s]]) \in Player
  <2>1. players[s].chips + won[s] \in Int
    BY <1>1, <1>6, PlayerFields
  <2>2. [players[s] EXCEPT !.chips = @ + won[s]] \in Player
    BY <1>1, <2>1, PlayerUpdates
  <2> QED
    BY <2>2, RestedType
<1>8. players' \in [Seats -> Player]
  BY <1>3, <1>7
<1>9. table' \in Table
  <2> DEFINE q == [[table EXCEPT !.pot = 0] EXCEPT !.phase = "waiting"]
  <2>1. table' = q
    BY DEF Showdown
  <2>2. 0 \in Int /\ "waiting" \in Phases
    BY Names
  <2>3. q \in Table
    BY <1>1, <2>2, TableUpdates, Zenon
  <2> QED
    BY <2>1, <2>3
<1>10. house' \in Int /\ balance' \in [Seats -> Int] /\ reply' \in Replies
  BY <1>1, <1>2, Names DEF Showdown, TypeOK
<1> QED
  BY <1>8, <1>9, <1>10 DEF TypeOK

\* With two players to deal to, the clockwise searches of next_hand.lua:242-256 find
\* a dealer, a small blind and a big blind, all of them seats.
LEMMA BlindSeats ==
    ASSUME NEW ps \in [Seats -> Player], Active(ps) # {}, NEW button \in Seats
    PROVE  SmallBlindSeat(ps, button) \in Seats /\ BigBlindSeat(ps, button) \in Active(ps)
<1>1. Active(ps) \in SUBSET Seats /\ button \in -1..9
  BY SeatsAssumption DEF Active
<1>2. NextOf(Active(ps), button) \in Active(ps)
  BY <1>1, NextOfFinds
<1>3. SmallBlindSeat(ps, button) \in Seats
  BY <1>1, <1>2 DEF SmallBlindSeat
<1>4. \A s \in Seats : s \in -1..9
  BY SeatsAssumption
<1>5. SmallBlindSeat(ps, button) \in -1..9
  BY <1>3, <1>4
<1>6. NextOf(Active(ps), SmallBlindSeat(ps, button)) \in Active(ps)
  BY <1>1, <1>5, NextOfFinds, Zenon
<1> QED
  BY <1>3, <1>6 DEF BigBlindSeat

\* The button moves to a player who is dealt in, when there is one (next_hand.lua:242).
LEMMA ButtonFound ==
    ASSUME NEW ps \in [Seats -> Player], Active(ps) # {}, table \in Table
    PROVE  Button(ps) \in Active(ps) /\ Button(ps) \in Seats /\ Button(ps) \in 0..9
<1>1. Active(ps) \in SUBSET Seats /\ table.dealerSeat \in -1..9
  BY TableFields DEF Active
<1>2. Button(ps) \in Active(ps)
  BY <1>1, NextOfFinds DEF Button
<1> QED
  BY <1>1, <1>2, SeatsAssumption

\* Marking who leaves at his big blind keeps the records (next_hand.lua:267-356).
LEMMA KickedType ==
    ASSUME NEW ps \in [Seats -> Player]
    PROVE  Kicked(ps) \in [Seats -> Player]
<1> DEFINE bb == BigBlindSeat(ps, Button(ps))
           c == Cleared(ps[bb])
           gone == [c EXCEPT !.status = "leaving", !.leaveNextBB = FALSE]
<1>1. CASE bb \in Seats
  <2> HIDE DEF bb
  <2>1. c \in Player
    BY <1>1, ClearedType
  <2>2. gone \in Player
    <3> DEFINE q == [[c EXCEPT !.status = "leaving"] EXCEPT !.leaveNextBB = FALSE]
    <3> HIDE DEF c
    <3>1. "leaving" \in Statuses /\ FALSE \in BOOLEAN
      BY Names
    <3>2. q \in Player
      BY <2>1, <3>1, PlayerUpdates, Zenon
    <3> QED
      BY <3>2
  <2>3. [ps EXCEPT ![bb] = gone] \in [Seats -> Player]
    <3> HIDE DEF gone
    <3> QED
      BY <2>2
  <2> QED
    BY <2>3 DEF Kicked, bb
<1>2. CASE bb \notin Seats
  <2> HIDE DEF bb
  <2>1. [ps EXCEPT ![bb] = gone] = ps
    BY <1>2
  <2> QED
    BY <2>1 DEF Kicked, bb
<1> QED
  BY <1>1, <1>2

\* Posting a blind and dealing cards keep the records (next_hand.lua:365-427).
LEMMA PostedType ==
    ASSUME NEW p \in Player, NEW blind \in Nat
    PROVE  Posted(p, blind) \in Player /\ Blind(p, blind) \in Int
<1> DEFINE paid == Blind(p, blind)
           q == [[[p EXCEPT !.chips = p.chips - paid] EXCEPT !.currentBet = paid]
                     EXCEPT !.totalContribution = paid]
<1>1. paid \in Int
  BY PlayerFields DEF Blind, Smaller
<1> HIDE DEF paid
<1>2. p.chips - paid \in Int
  BY <1>1, PlayerFields
<1>3. q \in Player
  BY <1>1, <1>2, PlayerUpdates, Zenon
<1>4. Posted(p, blind) = q
  BY DEF Posted, Player, paid
<1> QED
  BY <1>1, <1>3, <1>4 DEF paid

\* Handing out hole cards keeps a record a record (next_hand.lua:401-427).
LEMMA DealtType ==
    ASSUME NEW p \in Player
    PROVE  Dealt(p) \in Player
<1>1. (p.status = "active") \/ p.cards \in BOOLEAN
  BY PlayerFields
<1>2. Dealt(p) = [p EXCEPT !.cards = ((p.status = "active") \/ p.cards)]
  BY DEF Dealt, Player
<1>3. ((p.status = "active") \/ p.cards) \in BOOLEAN
  OBVIOUS
<1> QED
  BY <1>2, <1>3, PlayerUpdates, Zenon

\* Starting a hand, or giving up on it, keeps the types (next_hand.lua).
LEMMA NextHandType ==
    ASSUME TypeOK, NextHand
    PROVE  TypeOK'
<1>1. table \in Table /\ Swept \in [Seats -> Player]
  BY SweptType DEF TypeOK
<1>2. Kicked(Swept) \in [Seats -> Player]
  BY <1>1, KickedType
<1>3. ASSUME NEW ps \in [Seats -> Player], Cardinality(Active(ps)) >= 2
      PROVE  Active(ps) # {}
  BY <1>3, FS_EmptySet
<1>4. CASE TooFewToDeal
  <2>1. CASE /\ players' = Swept
             /\ table' = [table EXCEPT !.phase = "waiting"]
    <3>1. table' \in Table
      BY <1>1, <2>1, TableUpdates, Names
    <3> QED
      BY <1>1, <1>4, <2>1, <3>1, Names DEF TooFewToDeal, TypeOK
  <2>2. CASE /\ Cardinality(Active(Swept)) >= 2
             /\ players' = Kicked(Swept)
             /\ table' = [table EXCEPT !.phase = "waiting", !.dealerSeat = Button(Swept)]
    <3> DEFINE q == [[table EXCEPT !.phase = "waiting"] EXCEPT !.dealerSeat = Button(Swept)]
    <3>1. Button(Swept) \in 0..9
      BY <1>1, <1>3, <2>2, ButtonFound
    <3>2. "waiting" \in Phases
      BY Names
    <3>3. q \in Table
      BY <1>1, <3>1, <3>2, TableUpdates, Zenon
    <3>4. table' \in Table
      BY <2>2, <3>3
    <3> QED
      BY <1>2, <1>4, <2>2, <3>4, Names DEF TooFewToDeal, TypeOK
  <2> QED
    BY <1>4, <2>1, <2>2 DEF TooFewToDeal
<1>5. CASE Deal
  <2> DEFINE ps == Kicked(Swept)
             button == Button(Swept)
             sb == SmallBlindSeat(ps, button)
             bb == BigBlindSeat(ps, button)
  <2>1. Active(Swept) # {} /\ Active(ps) # {}
    BY <1>1, <1>2, <1>3, <1>5 DEF Deal
  <2>2. button \in Seats /\ button \in 0..9
    BY <1>1, <2>1, ButtonFound
  <2>3. sb \in Seats /\ bb \in Seats
    <3> HIDE DEF ps, button
    <3> QED
      BY <1>2, <2>1, <2>2, BlindSeats, SeatSets DEF ps
  <2>4. SmallBlind \in Nat /\ BigBlind \in Nat
    BY StakesAssumption
  <2>5. ASSUME NEW s \in Seats
        PROVE  Dealt(IF s = bb THEN Posted(ps[s], BigBlind)
                     ELSE IF s = sb THEN Posted(ps[s], SmallBlind) ELSE ps[s]) \in Player
    <3>1. ps[s] \in Player
      BY <1>2
    <3> HIDE DEF ps, sb, bb
    <3> QED
      BY <2>4, <3>1, PostedType, DealtType
  <2>6. players' \in [Seats -> Player]
    BY <1>5, <2>5 DEF Deal
  <2>7. Blind(ps[sb], SmallBlind) + Blind(ps[bb], BigBlind) \in Int
    <3>1. ps[sb] \in Player /\ ps[bb] \in Player
      BY <1>2, <2>3
    <3> HIDE DEF ps, sb, bb
    <3> QED
      BY <2>4, <3>1, PostedType
  <2>8. NextOf(Active(ps), bb) \in Seats \cup {NoSeat}
    <3>1. Active(ps) \in SUBSET Seats
      BY <1>2, SeatSets
    <3>2. \A s \in Seats : s \in -1..9
      BY SeatsAssumption
    <3> HIDE DEF ps, bb
    <3>3. bb \in -1..9
      BY <2>3, <3>2
    <3> QED
      BY <3>1, <3>3, NextOfType
  <2>9. "preflop" \in Phases /\ BigBlind \in Int /\ 0 \in Nat /\ table.handNumber + 1 \in Nat
    BY <1>1, <2>4, Names, TableFields
  <2>10. table' \in Table
    <3>1. table' = [phase |-> "preflop",
                    pot |-> Blind(ps[sb], SmallBlind) + Blind(ps[bb], BigBlind),
                    currentBet |-> BigBlind,
                    lastRaiseSize |-> BigBlind,
                    turnSeat |-> NextOf(Active(ps), bb),
                    dealerSeat |-> button,
                    playersActedCount |-> 0,
                    handNumber |-> table.handNumber + 1]
      BY <1>5 DEF Deal
    <3> HIDE DEF ps, button, sb, bb
    <3> QED
      BY <2>2, <2>7, <2>8, <2>9, <3>1 DEF Table
  <2> QED
    BY <1>5, <2>6, <2>10, Names DEF Deal, TypeOK
<1> QED
  BY <1>4, <1>5 DEF NextHand

\* A vacant seat is a record like any other.
LEMMA VacantType == Vacant \in Player
BY DEF Vacant, Player, Statuses

\* Taking a seat keeps the types (join_table.lua).
LEMMA JoinType ==
    ASSUME TypeOK, NEW s \in Seats, NEW buyIn \in MinBuyIn..MaxBuyIn, Join(s, buyIn)
    PROVE  TypeOK'
<1> DEFINE new == [Vacant EXCEPT !.status = "waiting", !.chips = buyIn, !.timeBank = TimeBank]
           q == [[[Vacant EXCEPT !.status = "waiting"] EXCEPT !.chips = buyIn]
                     EXCEPT !.timeBank = TimeBank]
           seated == [players EXCEPT ![s] = new]
<1>1. buyIn \in Int /\ TimeBank \in Nat /\ "waiting" \in Statuses /\ "active" \in Statuses
  BY StakesAssumption, Names
<1>2. q \in Player
  BY <1>1, VacantType, PlayerUpdates, Zenon
<1>3. new = q
  OBVIOUS
<1>4. seated \in [Seats -> Player]
  <2> HIDE DEF new
  <2> QED
    BY <1>2, <1>3 DEF TypeOK
<1> HIDE DEF seated
<1>5. \A r \in Seats : [seated[r] EXCEPT !.status = "active"] \in Player
  BY <1>1, <1>4, PlayerUpdates
<1>6. players' \in [Seats -> Player]
  BY <1>4, <1>5 DEF Join, seated
<1>7. balance' \in [Seats -> Int]
  BY <1>1 DEF Join, TypeOK
<1> QED
  BY <1>6, <1>7 DEF Join, TypeOK

\* Leaving one keeps the types (leave_table.lua).
LEMMA LeaveType ==
    ASSUME TypeOK, NEW s \in Seats, Leave(s)
    PROVE  TypeOK'
<1> DEFINE left == [players EXCEPT ![s] = Vacant]
<1>1. left \in [Seats -> Player] /\ table \in Table
  BY VacantType DEF TypeOK
<1> HIDE DEF left
<1>2. ASSUME NEW r \in Seats
      PROVE  [left[r] EXCEPT !.chips = @ + Larger(0, table.pot),
                             !.status = "waiting", !.cards = FALSE] \in Player
  <2> DEFINE chips == left[r].chips + Larger(0, table.pot)
             q == [[[left[r] EXCEPT !.chips = chips] EXCEPT !.status = "waiting"]
                       EXCEPT !.cards = FALSE]
  <2>1. left[r] \in Player
    BY <1>1
  <2>2. chips \in Int /\ "waiting" \in Statuses /\ FALSE \in BOOLEAN
    BY <1>1, <2>1, PlayerFields, TableFields, Names DEF Larger
  <2>3. q \in Player
    <3> HIDE DEF chips
    <3> QED
      BY <2>1, <2>2, PlayerUpdates, Zenon
  <2> QED
    BY <2>1, <2>3 DEF Player
<1>3. players' \in [Seats -> Player]
  BY <1>1, <1>2 DEF Leave, left
<1>4. table' \in Table
  <2> DEFINE q == [[[[table EXCEPT !.pot = 0] EXCEPT !.phase = "waiting"]
                        EXCEPT !.turnSeat = NoSeat] EXCEPT !.currentBet = 0]
  <2>1. 0 \in Int /\ "waiting" \in Phases /\ NoSeat \in Seats \cup {NoSeat}
    BY Names
  <2>2. q \in Table
    BY <1>1, <2>1, TableUpdates, Zenon
  <2> QED
    BY <1>1, <2>2 DEF Leave
<1>5. balance' \in [Seats -> Int]
  <2>1. \A r \in Seats : players[r].chips \in Int
    BY PlayerFields DEF TypeOK
  <2>2. balance[s] + players[s].chips \in Int
    BY <2>1 DEF TypeOK
  <2>3. balance' = [balance EXCEPT ![s] = balance[s] + players[s].chips]
    BY DEF Leave
  <2> QED
    BY <2>2, <2>3 DEF TypeOK
<1> QED
  BY <1>3, <1>4, <1>5 DEF Leave, TypeOK

\* The other requests of a seat keep the types: a break, chips bought, a connection
\* lost or found again, a wish to leave.
LEMMA RequestType ==
    ASSUME TypeOK, NEW s \in Seats,
           \/ ToggleSitOut(s)
           \/ \E amount \in Deposits : AddChips(s, amount) \/ AddChipsVault(s, amount)
           \/ SetOffline(s) \/ SetOnline(s) \/ ToggleLnbb(s)
    PROVE  TypeOK'
<1> DEFINE p == players[s]
<1>1. p \in Player /\ players \in [Seats -> Player] /\ balance \in [Seats -> Int]
  BY DEF TypeOK
<1>2. /\ p.status \in Statuses /\ p.chips \in Int /\ p.pendingTopUp \in Nat
      /\ p.sitOutNextHand \in BOOLEAN /\ p.leaveNextBB \in BOOLEAN
  BY <1>1, PlayerFields
<1>3. /\ "sitting_out" \in Statuses /\ "waiting" \in Statuses
      /\ TRUE \in BOOLEAN /\ FALSE \in BOOLEAN
  BY Names
<1>4. SUFFICES ASSUME NEW q \in Player, players' = [players EXCEPT ![s] = q],
                      balance' \in [Seats -> Int],
                      UNCHANGED <<table, house, reply>>
               PROVE  TypeOK'
  <2>1. CASE ToggleSitOut(s)
    <3> DEFINE out == [[p EXCEPT !.status = "sitting_out"] EXCEPT !.sitOutNextHand = FALSE]
               back == [[p EXCEPT !.status = "waiting"] EXCEPT !.sitOutNextHand = FALSE]
               flip == [p EXCEPT !.sitOutNextHand = ~p.sitOutNextHand]
    <3>1. out \in Player /\ back \in Player
      BY <1>1, <1>3, PlayerUpdates, Zenon
    <3>2. flip \in Player
      BY <1>1, <1>2, PlayerUpdates
    <3>3. \/ players' = [players EXCEPT ![s] = flip]
          \/ players' = [players EXCEPT ![s] = out]
          \/ players' = [players EXCEPT ![s] = back]
      BY <1>1, <2>1 DEF ToggleSitOut
    <3>4. balance' \in [Seats -> Int] /\ UNCHANGED <<table, house, reply>>
      BY <1>1, <2>1 DEF ToggleSitOut
    <3> QED
      BY <1>4, <3>1, <3>2, <3>3, <3>4
  <2>2. ASSUME NEW amount \in Deposits, AddChips(s, amount)
        PROVE  TypeOK'
    <3> DEFINE q == [[p EXCEPT !.chips = p.chips + amount] EXCEPT !.status = "waiting"]
    <3>1. amount \in Nat /\ p.chips + amount \in Int /\ balance[s] - amount \in Int
      BY <1>1, <1>2, BoundsAssumption
    <3>2. q \in Player
      BY <1>1, <1>3, <3>1, PlayerUpdates, Zenon
    <3>3. players' = [players EXCEPT ![s] = q]
      <4> DEFINE r == [p EXCEPT !.chips = @ + amount, !.status = "waiting"]
      <4>1. q = r
        BY <1>1 DEF Player
      <4>2. players' = [players EXCEPT ![s] = r]
        BY <2>2 DEF AddChips
      <4> HIDE DEF q, r
      <4> QED
        BY <4>1, <4>2
    <3>4. balance' = [balance EXCEPT ![s] = balance[s] - amount]
      BY <2>2 DEF AddChips
    <3>5. UNCHANGED <<table, house, reply>>
      BY <2>2 DEF AddChips
    <3>6. balance' \in [Seats -> Int]
      BY <1>1, <3>1, <3>4
    <3> QED
      BY <1>4, <3>2, <3>3, <3>5, <3>6
  <2>3. ASSUME NEW amount \in Deposits, AddChipsVault(s, amount)
        PROVE  TypeOK'
    <3> DEFINE status == IF p.chips = 0 THEN "waiting" ELSE p.status
               aside == [p EXCEPT !.pendingTopUp = p.pendingTopUp + amount]
               q == [[p EXCEPT !.chips = p.chips + amount] EXCEPT !.status = status]
    <3>1. /\ amount \in Nat /\ p.chips + amount \in Int /\ status \in Statuses
          /\ p.pendingTopUp + amount \in Nat /\ balance[s] - amount \in Int
      BY <1>1, <1>2, <1>3, BoundsAssumption
    <3>2. q \in Player
      <4> HIDE DEF status
      <4> QED
        BY <1>1, <3>1, PlayerUpdates, Zenon
    <3>3. aside \in Player
      BY <1>1, <3>1, PlayerUpdates
    <3>4. players' = [players EXCEPT ![s] = q] \/ players' = [players EXCEPT ![s] = aside]
      BY <1>1, <2>3 DEF AddChipsVault, Player
    <3>5. balance' = [balance EXCEPT ![s] = balance[s] - amount]
      BY <2>3 DEF AddChipsVault
    <3>6. UNCHANGED <<table, house, reply>>
      BY <2>3 DEF AddChipsVault
    <3>7. balance' \in [Seats -> Int]
      BY <1>1, <3>1, <3>5
    <3> QED
      BY <1>4, <3>2, <3>3, <3>4, <3>6, <3>7
  <2>4. CASE SetOffline(s)
    <3> DEFINE q == [p EXCEPT !.offline = TRUE]
    <3>1. q \in Player
      BY <1>1, <1>3, PlayerUpdates
    <3>2. players' = [players EXCEPT ![s] = q]
      BY <1>1, <2>4 DEF SetOffline
    <3>3. balance' \in [Seats -> Int] /\ UNCHANGED <<table, house, reply>>
      BY <1>1, <2>4 DEF SetOffline
    <3> QED
      BY <1>4, <3>1, <3>2, <3>3
  <2>5. CASE SetOnline(s)
    <3> DEFINE status == IF p.status = "sitting_out" THEN "waiting" ELSE p.status
               q == [[p EXCEPT !.offline = FALSE] EXCEPT !.status = status]
    <3>1. status \in Statuses
      BY <1>2, <1>3
    <3>2. q \in Player
      <4> HIDE DEF status
      <4> QED
        BY <1>1, <1>3, <3>1, PlayerUpdates, Zenon
    <3>3. players' = [players EXCEPT ![s] = q]
      <4> DEFINE r == [p EXCEPT !.offline = FALSE,
                                !.status = IF @ = "sitting_out" THEN "waiting" ELSE @]
      <4>1. q = r
        BY <1>1 DEF Player
      <4>2. players' = [players EXCEPT ![s] = r]
        BY <2>5 DEF SetOnline
      <4> HIDE DEF q, r
      <4> QED
        BY <4>1, <4>2
    <3>4. balance' \in [Seats -> Int] /\ UNCHANGED <<table, house, reply>>
      BY <1>1, <2>5 DEF SetOnline
    <3> QED
      BY <1>4, <3>2, <3>3, <3>4
  <2>6. CASE ToggleLnbb(s)
    <3> DEFINE q == [p EXCEPT !.leaveNextBB = ~p.leaveNextBB]
    <3>1. q \in Player
      BY <1>1, <1>2, PlayerUpdates
    <3>2. players' = [players EXCEPT ![s] = q]
      BY <1>1, <2>6 DEF ToggleLnbb
    <3>3. balance' \in [Seats -> Int] /\ UNCHANGED <<table, house, reply>>
      BY <1>1, <2>6 DEF ToggleLnbb
    <3> QED
      BY <1>4, <3>1, <3>2, <3>3
  <2> QED
    BY <2>1, <2>2, <2>3, <2>4, <2>5, <2>6
<1> QED
  BY <1>1, <1>4 DEF TypeOK

\* The hard reset at boot keeps the types (force_cleanup.lua).
LEMMA ForceCleanupType ==
    ASSUME TypeOK, ForceCleanup
    PROVE  TypeOK'
<1>1. table \in Table /\ \A s \in Seats : players[s] \in Player
  BY DEF TypeOK
<1>2. players' \in [Seats -> Player]
  BY VacantType DEF ForceCleanup
<1>3. balance' \in [Seats -> Int]
  <2>1. \A s \in Seats : Larger(0, players[s].chips + players[s].currentBet) \in Int
    BY <1>1, PlayerFields DEF Larger
  <2> QED
    BY <2>1 DEF ForceCleanup, TypeOK
<1>4. table' \in Table
  <2> DEFINE q == [[[[[table EXCEPT !.phase = "waiting"] EXCEPT !.pot = 0]
                         EXCEPT !.currentBet = 0] EXCEPT !.turnSeat = NoSeat]
                         EXCEPT !.handNumber = 0]
  <2>1. 0 \in Int /\ 0 \in Nat /\ "waiting" \in Phases /\ NoSeat \in Seats \cup {NoSeat}
    BY Names
  <2>2. q \in Table
    BY <1>1, <2>1, TableUpdates, Zenon
  <2> QED
    BY <2>2 DEF ForceCleanup
<1> QED
  BY <1>2, <1>3, <1>4, Names DEF ForceCleanup, TypeOK

\* The table starts out well typed (initializeTableRedis).
LEMMA InitType == Init => TypeOK
<1> SUFFICES ASSUME Init
             PROVE  TypeOK
  OBVIOUS
<1>1. table \in Table
  BY Names, StakesAssumption DEF Init, Table, NoSeat
<1>2. players \in [Seats -> Player]
  BY VacantType DEF Init
<1>3. balance \in [Seats -> Int]
  <2>1. balance \in [Seats -> Wallets] /\ Wallets \in SUBSET Int
    BY BoundsAssumption DEF Init
  <2> QED
    BY <2>1
<1>4. house \in Int /\ reply \in Replies
  BY Names DEF Init
<1> QED
  BY <1>1, <1>2, <1>3, <1>4 DEF TypeOK

\* Every step keeps the types: one case per script.
LEMMA NextType == TypeOK /\ [Next]_vars => TypeOK'
<1> SUFFICES ASSUME TypeOK, [Next]_vars
             PROVE  TypeOK'
  OBVIOUS
<1>1. CASE HandNext
  <2>1. ASSUME NEW s \in Seats, Bet(s) \/ Timeout(s)
        PROVE  TypeOK'
    BY <2>1, BetType, TimeoutType
  <2>2. CASE NextStreet
    BY <2>2, NextStreetType
  <2>3. ASSUME NEW score, Showdown(score)
        PROVE  TypeOK'
    BY <2>3, ShowdownType
  <2>4. CASE NextHand
    BY <2>4, NextHandType
  <2> QED
    BY <1>1, <2>1, <2>2, <2>3, <2>4 DEF HandNext
<1>2. CASE SeatNext
  <2>1. ASSUME NEW s \in Seats, NEW buyIn \in MinBuyIn..MaxBuyIn, Join(s, buyIn)
        PROVE  TypeOK'
    BY <2>1, JoinType
  <2>2. ASSUME NEW s \in Seats, Leave(s)
        PROVE  TypeOK'
    BY <2>2, LeaveType
  <2>3. ASSUME NEW s \in Seats,
               \/ ToggleSitOut(s)
               \/ \E amount \in Deposits : AddChips(s, amount) \/ AddChipsVault(s, amount)
               \/ SetOffline(s) \/ SetOnline(s) \/ ToggleLnbb(s)
        PROVE  TypeOK'
    BY <2>3, RequestType
  <2>4. CASE ForceCleanup
    BY <2>4, ForceCleanupType
  <2> QED
    BY <1>2, <2>1, <2>2, <2>3, <2>4 DEF SeatNext
<1>3. CASE UNCHANGED vars
  BY <1>3 DEF vars, TypeOK
<1> QED
  BY <1>1, <1>2, <1>3 DEF Next

\* The two hashes, the wallets and the house keep their types whatever is bet, timed
\* out, asked for or reset: no script stores a value another cannot read.
THEOREM TypeCorrect == Spec => []TypeOK
<1>1. Init => TypeOK
  BY InitType
<1>2. TypeOK /\ [Next]_vars => TypeOK'
  BY NextType
<1> QED
  BY <1>1, <1>2, PTL DEF Spec

(***************************************************************************)
(* Betting conserves chips.                                                *)
(***************************************************************************)

\* What a won hand, a finished round or the next turn does to the chips: the winner
\* takes the pot, a refund leaves it, or nothing moves.
LEMMA OutcomeConserves ==
    ASSUME NEW ps \in [Seats -> Player], NEW t \in Table, NEW turn, NEW still,
           NEW refund, \A s \in Seats : refund[s] \in Int,
           HandWon(ps, t, still) \/ RoundOver(ps, t, turn, refund) \/ PlayOn(ps, t, turn)
    PROVE  Stakes' = SeatSum(Chips(ps)) + t.pot
<1> DEFINE before == Chips(ps)
           after == Chips(players')
<1>1. \A s \in Seats : before[s] \in Int /\ ps[s].chips \in Int
  BY PlayerFields DEF Chips
<1>2. t.pot \in Int
  BY TableFields
<1>3. Stakes' = SeatSum(after) + table'.pot
  BY DEF Stakes
<1>4. SeatSum(before) \in Int
  <2> HIDE DEF before
  <2> QED
    BY <1>1, SeatSumType
<1>5. CASE HandWon(ps, t, still)
  <2>1. PICK w : InHand(ps) = {w}
    BY <1>5, SeatsFinite, SeatSets, FS_Singleton DEF HandWon
  <2>2. w \in Seats
    BY <2>1 DEF InHand
  <2> DEFINE prize == [s \in Seats |-> IF s = w THEN t.pot ELSE 0]
  <2>3. \A s \in Seats : prize[s] \in Int /\ after[s] = before[s] + prize[s]
    <3> SUFFICES ASSUME NEW s \in Seats
                 PROVE  prize[s] \in Int /\ after[s] = before[s] + prize[s]
      OBVIOUS
    <3>1. players'[s] = IF s = w THEN [ps[s] EXCEPT !.chips = @ + t.pot] ELSE ps[s]
      BY <1>5, <2>1 DEF HandWon
    <3>2. players'[s].chips = IF s = w THEN ps[s].chips + t.pot ELSE ps[s].chips
      BY <3>1 DEF Player
    <3> QED
      BY <1>1, <1>2, <3>2 DEF Chips
  <2>4. SeatSum(prize) = t.pot
    <3>1. prize[w] = t.pot /\ \A r \in Seats \ {w} : prize[r] = 0
      BY <2>2
    <3> HIDE DEF prize
    <3> QED
      BY <1>2, <2>2, <3>1, SeatSumSingle
  <2>5. SeatSum(after) = SeatSum(before) + SeatSum(prize)
    <3> HIDE DEF before, after, prize
    <3> QED
      BY <1>1, <2>3, SeatSumAdd
  <2>6. table'.pot = 0
    BY <1>5 DEF HandWon, Table
  <2> HIDE DEF before, after, prize
  <2> QED
    BY <1>2, <1>3, <1>4, <2>4, <2>5, <2>6 DEF before
<1>6. CASE RoundOver(ps, t, turn, refund)
  <2>1. \A s \in Seats : after[s] = before[s] + refund[s]
    <3> SUFFICES ASSUME NEW s \in Seats
                 PROVE  after[s] = before[s] + refund[s]
      OBVIOUS
    <3>1. players'[s] = Refunded(ps[s], refund[s])
      BY <1>6 DEF RoundOver
    <3>2. players'[s].chips = ps[s].chips + refund[s]
      BY <3>1 DEF Refunded, Player
    <3> QED
      BY <3>2 DEF Chips
  <2>2. SeatSum(after) = SeatSum(before) + SeatSum(refund)
    <3> HIDE DEF before, after
    <3> QED
      BY <1>1, <2>1, SeatSumAdd
  <2>3. table'.pot = t.pot - SeatSum(refund)
    BY <1>6 DEF RoundOver, Table
  <2>4. SeatSum(refund) \in Int
    BY SeatSumType
  <2> HIDE DEF before, after
  <2> QED
    BY <1>2, <1>3, <1>4, <2>2, <2>3, <2>4 DEF before
<1>7. CASE PlayOn(ps, t, turn)
  <2>1. table'.pot = t.pot /\ players' = ps
    BY <1>7 DEF PlayOn, Table
  <2> QED
    BY <1>3, <2>1
<1> QED
  BY <1>5, <1>6, <1>7

\* A record stored at one seat changes the sum of the stacks by what it holds.
LEMMA StackChange ==
    ASSUME TypeOK, NEW s \in Seats, NEW q \in Player
    PROVE  SeatSum(Chips([players EXCEPT ![s] = q]))
             = SeatSum(Chips(players)) + q.chips - players[s].chips
<1> DEFINE f == Chips(players)
           g == Chips([players EXCEPT ![s] = q])
<1>1. \A r \in Seats : f[r] \in Int /\ g[r] \in Int
  BY PlayerFields DEF Chips, TypeOK
<1>2. \A r \in Seats \ {s} : g[r] = f[r]
  BY DEF Chips, TypeOK
<1>3. f[s] = players[s].chips /\ g[s] = q.chips
  BY DEF Chips, TypeOK
<1>4. SeatSum(g) = SeatSum(f) + g[s] - f[s]
  <2> HIDE DEF f, g
  <2> QED
    BY <1>1, <1>2, SeatSumChange
<1> QED
  BY <1>3, <1>4

\* Bets and timeouts leave the stakes as they are (bet.lua, timeout.lua).
LEMMA BetConserves ==
    ASSUME TypeOK, NEW s \in Seats, Bet(s)
    PROVE  Stakes' = Stakes
<1>1. PICK p \in Player, t \in Table :
        AfterBet(s, p, t) /\ p.chips + t.pot = players[s].chips + table.pot
  BY BetMoves
<1>2. PICK bank \in (IF p.usingBank THEN 0..p.timeBank ELSE {p.timeBank}) :
        LET ps == [players EXCEPT ![s] = [p EXCEPT !.timeBank = bank, !.usingBank = FALSE]]
            next == NextOf(Active(ps), s)
        IN  /\ \/ HandWon(ps, t, t.turnSeat)
               \/ RoundOver(ps, t, next, [r \in Seats |-> Uncalled(ps, r)])
               \/ PlayOn(ps, t, next)
            /\ UNCHANGED <<balance, house>>
  BY <1>1 DEF AfterBet
<1> DEFINE q == [p EXCEPT !.timeBank = bank, !.usingBank = FALSE]
           ps == [players EXCEPT ![s] = q]
           next == NextOf(Active(ps), s)
           refund == [r \in Seats |-> Uncalled(ps, r)]
<1>3. q \in Player /\ q.chips = p.chips
  <2> DEFINE r == [[p EXCEPT !.timeBank = bank] EXCEPT !.usingBank = FALSE]
  <2>1. bank \in Nat /\ FALSE \in BOOLEAN
    BY PlayerFields
  <2>2. r \in Player
    BY <2>1, PlayerUpdates, Zenon
  <2>3. q = r /\ q.chips = p.chips
    BY DEF Player
  <2> QED
    BY <2>2, <2>3
<1>4. HandWon(ps, t, t.turnSeat) \/ RoundOver(ps, t, next, refund) \/ PlayOn(ps, t, next)
  BY <1>2
<1> HIDE DEF q
<1>5. ps \in [Seats -> Player]
  BY <1>3 DEF TypeOK
<1>6. SeatSum(Chips(ps)) = SeatSum(Chips(players)) + q.chips - players[s].chips
  BY <1>3, StackChange
<1> HIDE DEF ps
<1>7. \A r \in Seats : refund[r] \in Int
  BY <1>5, UncalledType
<1> HIDE DEF next, refund
<1>8. Stakes' = SeatSum(Chips(ps)) + t.pot
  BY <1>4, <1>5, <1>7, OutcomeConserves
<1>9. \A r \in Seats : Chips(players)[r] \in Int
  BY PlayerFields DEF Chips, TypeOK
<1>10. SeatSum(Chips(players)) \in Int
  BY <1>9, SeatSumType
<1>11. p.chips \in Int /\ players[s].chips \in Int /\ t.pot \in Int /\ table.pot \in Int
  BY PlayerFields, TableFields DEF TypeOK
<1> QED
  BY <1>1, <1>3, <1>6, <1>8, <1>10, <1>11 DEF Stakes

\* A timeout, whether it opens the time bank or folds, keeps the stakes (timeout.lua).
LEMMA TimeoutConserves ==
    ASSUME TypeOK, NEW s \in Seats, Timeout(s)
    PROVE  Stakes' = Stakes
<1>1. /\ players[s] \in Player /\ table \in Table
      /\ players[s].chips \in Int /\ table.pot \in Int
  BY PlayerFields, TableFields DEF TypeOK
<1>2. SeatSum(Chips(players)) \in Int
  <2>1. \A r \in Seats : Chips(players)[r] \in Int
    BY PlayerFields DEF Chips, TypeOK
  <2> QED
    BY <2>1, SeatSumType
<1>3. CASE TimeoutExtend(s)
  <2> DEFINE q == [players[s] EXCEPT !.usingBank = TRUE]
  <2>1. q \in Player /\ q.chips = players[s].chips
    <3>1. TRUE \in BOOLEAN
      OBVIOUS
    <3>2. q \in Player
      BY <1>1, <3>1, PlayerUpdates, Zenon
    <3>3. q.chips = players[s].chips
      BY <1>1 DEF Player
    <3> QED
      BY <3>2, <3>3
  <2>2. players' = [players EXCEPT ![s] = q] /\ table' = table
    BY <1>3 DEF TimeoutExtend
  <2> HIDE DEF q
  <2>3. SeatSum(Chips(players')) = SeatSum(Chips(players)) + q.chips - players[s].chips
    BY <2>1, <2>2, StackChange
  <2> QED
    BY <1>1, <1>2, <2>1, <2>2, <2>3 DEF Stakes
<1>4. CASE TimeoutFold(s)
  <2> DEFINE q == [players[s] EXCEPT !.status = "folded", !.cards = FALSE,
                                     !.usingBank = FALSE, !.benchAfterHand = TRUE]
             r == [[[[players[s] EXCEPT !.status = "folded"] EXCEPT !.cards = FALSE]
                        EXCEPT !.usingBank = FALSE] EXCEPT !.benchAfterHand = TRUE]
             ps == [players EXCEPT ![s] = q]
             t == Acted(table, FALSE)
             refund == [u \in Seats |-> 0]
  <2>1. q \in Player /\ q.chips = players[s].chips
    <3>1. "folded" \in Statuses /\ FALSE \in BOOLEAN /\ TRUE \in BOOLEAN
      BY Names
    <3>2. r \in Player
      BY <1>1, <3>1, PlayerUpdates, Zenon
    <3>3. q = r /\ q.chips = players[s].chips
      BY <1>1 DEF Player
    <3> QED
      BY <3>2, <3>3
  <2>2. \/ HandWon(ps, t, NoSeat)
        \/ RoundOver(ps, t, NoSeat, refund)
        \/ PlayOn(ps, t, NextOf(Active(ps), s))
    BY <1>4 DEF TimeoutFold
  <2> HIDE DEF q
  <2>3. ps \in [Seats -> Player]
    BY <2>1 DEF TypeOK
  <2>4. SeatSum(Chips(ps)) = SeatSum(Chips(players)) + q.chips - players[s].chips
    BY <2>1, StackChange
  <2>5. t \in Table /\ t.pot = table.pot
    BY <1>1, ActedType, ActedPot
  <2>6. \A u \in Seats : refund[u] \in Int
    OBVIOUS
  <2> HIDE DEF ps, t, refund
  <2>7. Stakes' = SeatSum(Chips(ps)) + t.pot
    <3>1. CASE HandWon(ps, t, NoSeat)
      BY <2>3, <2>5, <2>6, <3>1, OutcomeConserves
    <3>2. CASE RoundOver(ps, t, NoSeat, refund)
      BY <2>3, <2>5, <2>6, <3>2, OutcomeConserves
    <3>3. CASE PlayOn(ps, t, NextOf(Active(ps), s))
      BY <2>3, <2>5, <2>6, <3>3, OutcomeConserves
    <3> QED
      BY <2>2, <3>1, <3>2, <3>3
  <2> QED
    BY <1>1, <1>2, <2>1, <2>4, <2>5, <2>7 DEF Stakes
<1> QED
  BY <1>3, <1>4 DEF Timeout

\* A new street collects the bets, which were in the pot already (next_street.lua).
LEMMA NextStreetConserves ==
    ASSUME TypeOK, NextStreet
    PROVE  Stakes' = Stakes
<1>1. table'.pot = table.pot
  BY DEF NextStreet, TypeOK, Table
<1>2. \A s \in Seats : players'[s].chips = players[s].chips
  BY DEF NextStreet, TypeOK, Player
<1>3. SeatSum(Chips(players')) = SeatSum(Chips(players))
  <2>1. \A s \in Seats : Chips(players')[s] = Chips(players)[s]
    BY <1>2 DEF Chips
  <2> QED
    BY <2>1, SeatSumEqual
<1> QED
  BY <1>1, <1>3 DEF Stakes

\* From the first card to the showdown no chip is made or lost: bets, timeouts and new
\* streets only move chips between the stacks and the pot, for every number of seats,
\* every stack and every amount a client may send.
THEOREM BettingConserves == Spec => BettingConservesChips
<1>1. TypeOK /\ [Next]_vars =>
        [(\E s \in Seats : Bet(s) \/ Timeout(s)) \/ NextStreet => Stakes' = Stakes]_vars
  BY BetConserves, TimeoutConserves, NextStreetConserves
<1> QED
  BY <1>1, TypeCorrect, PTL DEF Spec, BettingConservesChips

(***************************************************************************)
(* Only a deal counts a hand.                                              *)
(***************************************************************************)

\* The outcomes of an action do not count a hand.
LEMMA OutcomeKeepsHand ==
    ASSUME NEW ps, NEW t \in Table, NEW turn, NEW still, NEW refund,
           HandWon(ps, t, still) \/ RoundOver(ps, t, turn, refund) \/ PlayOn(ps, t, turn)
    PROVE  table'.handNumber = t.handNumber
<1>1. CASE HandWon(ps, t, still)
  BY <1>1 DEF HandWon, Table
<1>2. CASE RoundOver(ps, t, turn, refund)
  BY <1>2 DEF RoundOver, Table
<1>3. CASE PlayOn(ps, t, turn)
  BY <1>3 DEF PlayOn, Table
<1> QED
  BY <1>1, <1>2, <1>3

\* Nor does what follows a bet.
LEMMA AfterBetKeepsHand ==
    ASSUME NEW s \in Seats, NEW p, NEW t \in Table, AfterBet(s, p, t)
    PROVE  table'.handNumber = t.handNumber
<1>1. PICK bank \in (IF p.usingBank THEN 0..p.timeBank ELSE {p.timeBank}) :
        LET ps == [players EXCEPT ![s] = [p EXCEPT !.timeBank = bank, !.usingBank = FALSE]]
            next == NextOf(Active(ps), s)
        IN  \/ HandWon(ps, t, t.turnSeat)
            \/ RoundOver(ps, t, next, [r \in Seats |-> Uncalled(ps, r)])
            \/ PlayOn(ps, t, next)
  BY DEF AfterBet
<1> DEFINE ps == [players EXCEPT ![s] = [p EXCEPT !.timeBank = bank, !.usingBank = FALSE]]
<1> HIDE DEF ps
<1>2. \/ HandWon(ps, t, t.turnSeat)
      \/ RoundOver(ps, t, NextOf(Active(ps), s), [r \in Seats |-> Uncalled(ps, r)])
      \/ PlayOn(ps, t, NextOf(Active(ps), s))
  BY <1>1 DEF ps
<1> QED
  BY <1>2, OutcomeKeepsHand, Zenon

\* A bet or a timeout counts no hand (bet.lua, timeout.lua).
LEMMA MoveKeepsHand ==
    ASSUME TypeOK, NEW s \in Seats, Bet(s) \/ Timeout(s)
    PROVE  table'.handNumber = table.handNumber
<1>1. table \in Table
  BY DEF TypeOK
<1>3. CASE Bet(s)
  BY <1>3, BetMoves, AfterBetKeepsHand DEF Answered
<1>4. CASE TimeoutExtend(s)
  BY <1>4 DEF TimeoutExtend
<1>5. CASE TimeoutFold(s)
  <2> DEFINE ps == [players EXCEPT ![s] = [@ EXCEPT !.status = "folded", !.cards = FALSE,
                                              !.usingBank = FALSE, !.benchAfterHand = TRUE]]
             t == Acted(table, FALSE)
  <2>1. t \in Table /\ t.handNumber = table.handNumber
    BY <1>1, ActedType DEF Acted, Table
  <2>2. \/ HandWon(ps, t, NoSeat)
        \/ RoundOver(ps, t, NoSeat, [r \in Seats |-> 0])
        \/ PlayOn(ps, t, NextOf(Active(ps), s))
    BY <1>5 DEF TimeoutFold
  <2> HIDE DEF ps, t
  <2> QED
    BY <2>1, <2>2, OutcomeKeepsHand, Zenon
<1> QED
  BY <1>3, <1>4, <1>5 DEF Timeout

\* Of all steps only a deal raises the count of hands; the hard reset clears it.
LEMMA OnlyDealsCount ==
    ASSUME TypeOK, [Next]_vars, table'.handNumber > table.handNumber
    PROVE  Deal
<1>1. table \in Table /\ table.handNumber \in Nat
  BY DEF TypeOK, Table
<1>2. ~UNCHANGED table
  BY <1>1
<1>3. CASE HandNext
  <2>1. ASSUME NEW s \in Seats, Bet(s) \/ Timeout(s)
        PROVE  FALSE
    BY <1>1, <2>1, MoveKeepsHand
  <2>2. CASE NextStreet
    BY <1>1, <2>2 DEF NextStreet, Table
  <2>3. ASSUME NEW score, Showdown(score)
        PROVE  FALSE
    BY <1>1, <2>3 DEF Showdown, Table
  <2>4. CASE TooFewToDeal
    <3>1. \/ table' = [table EXCEPT !.phase = "waiting"]
          \/ table' = [table EXCEPT !.phase = "waiting", !.dealerSeat = Button(Swept)]
      BY <2>4, Zenon DEF TooFewToDeal
    <3>2. table'.handNumber = table.handNumber
      BY <1>1, <3>1 DEF Table
    <3> QED
      BY <1>1, <3>2
  <2> QED
    BY <1>3, <2>1, <2>2, <2>3, <2>4 DEF HandNext, NextHand
<1>4. CASE SeatNext
  <2>1. ASSUME NEW s \in Seats, Leave(s)
        PROVE  FALSE
    <3> DEFINE t == [table EXCEPT !.pot = 0, !.phase = "waiting",
                                  !.turnSeat = NoSeat, !.currentBet = 0]
    <3>1. table' = t \/ table' = table
      BY <2>1, Zenon DEF Leave
    <3>2. t.handNumber = table.handNumber
      BY <1>1 DEF Table
    <3> HIDE DEF t
    <3> QED
      BY <1>1, <3>1, <3>2
  <2>2. CASE ForceCleanup
    BY <1>1, <2>2 DEF ForceCleanup, Table
  <2>3. CASE ~(\E s \in Seats : Leave(s)) /\ ~ForceCleanup
    BY <1>2, <1>4, <2>3 DEF SeatNext, Join, ToggleSitOut, AddChips, AddChipsVault,
                            SetOffline, SetOnline, ToggleLnbb
  <2> QED
    BY <2>1, <2>2, <2>3
<1> QED
  BY <1>2, <1>3, <1>4 DEF Next, vars

(***************************************************************************)
(* What a deal does with who wants, or has, to stay out.                   *)
(***************************************************************************)

\* Topping up and the ghost protocol leave the reasons to stay out in place.
LEMMA StaysOutSwept ==
    ASSUME NEW p \in Player, StaysOut(p)
    PROVE  LET g == Ghosted(ToppedUp(p)) IN g \in Player /\ StaysOut(g)
<1> DEFINE t == ToppedUp(p)
<1>1. /\ t \in Player
      /\ t.status = p.status /\ t.benchAfterHand = p.benchAfterHand
      /\ t.sitOutNextHand = p.sitOutNextHand /\ t.offline = p.offline
  BY ToppedUpType DEF ToppedUp, Player
<1> HIDE DEF t
<1>2. StaysOut(t)
  BY <1>1 DEF StaysOut
<1>3. SatOut(t) \in Player /\ SatOut(t).status = "sitting_out"
  BY <1>1, SatOutType DEF SatOut, Cleared, Player
<1>4. Ghosted(t) \in Player /\ StaysOut(Ghosted(t))
  BY <1>1, <1>2, <1>3 DEF Ghosted, StaysOut
<1> QED
  BY <1>4 DEF t

\* The promotion pass benches him, or leaves him on his break, with nothing at stake.
LEMMA StaysOutPromoted ==
    ASSUME NEW p \in Player, StaysOut(p)
    PROVE  Promoted(p).status = "sitting_out" /\ Promoted(p).totalContribution = 0
<1>1. /\ Cleared(p).status = p.status /\ Cleared(p).totalContribution = 0
      /\ Cleared(p) \in Player
  BY ClearedType DEF Cleared, Player
<1>2. /\ SatOut(p).status = "sitting_out" /\ SatOut(p).totalContribution = 0
      /\ SatOut(p) \in Player
  BY SatOutType DEF SatOut, Cleared, Player
<1>3. [SatOut(p) EXCEPT !.benchAfterHand = FALSE].status = "sitting_out"
      /\ [SatOut(p) EXCEPT !.benchAfterHand = FALSE].totalContribution = 0
  BY <1>2 DEF Player
<1>4. [SatOut(p) EXCEPT !.sitOutNextHand = FALSE].status = "sitting_out"
      /\ [SatOut(p) EXCEPT !.sitOutNextHand = FALSE].totalContribution = 0
  BY <1>2 DEF Player
<1> QED
  BY <1>1, <1>3, <1>4 DEF Promoted, StaysOut

\* So a deal neither gives him cards nor takes a blind from him (next_hand.lua): the
\* button and the blinds are searched among the players who are active.
LEMMA DealLeavesOut ==
    ASSUME TypeOK, Deal, NEW s \in Seats, StaysOut(players[s])
    PROVE  s \notin Active(players') /\ players'[s].totalContribution = 0
<1> DEFINE ps == Kicked(Swept)
           button == Button(Swept)
           sb == SmallBlindSeat(ps, button)
           bb == BigBlindSeat(ps, button)
<1>1. table \in Table /\ Swept \in [Seats -> Player] /\ players[s] \in Player
  BY SweptType DEF TypeOK
<1>2. ps \in [Seats -> Player]
  BY <1>1, KickedType
<1>3. Active(Swept) # {} /\ Active(ps) # {}
  <2>1. Active(Swept) \in SUBSET Seats /\ Active(ps) \in SUBSET Seats
    BY <1>1, <1>2, SeatSets
  <2>2. Cardinality(Active(Swept)) >= 2 /\ Cardinality(Active(ps)) >= 2
    BY DEF Deal
  <2> QED
    BY <2>2, FS_EmptySet
<1>4. Swept[s].status = "sitting_out" /\ Swept[s].totalContribution = 0
  BY <1>1, StaysOutSwept, StaysOutPromoted DEF Swept
<1>5. button \in Active(Swept) /\ button \in Seats /\ s # button
  BY <1>1, <1>3, <1>4, ButtonFound DEF Active
<1>6. ps[s] = Swept[s]
  <2> DEFINE kicked == BigBlindSeat(Swept, button)
  <2>1. kicked \in Active(Swept)
    <3> HIDE DEF button
    <3> QED
      BY <1>1, <1>3, <1>5, BlindSeats
  <2>2. s # kicked
    <3> HIDE DEF kicked
    <3> QED
      BY <1>4, <2>1 DEF Active
  <2> QED
    BY <1>1, <2>2 DEF Kicked
<1>7. s \notin Active(ps)
  <2> HIDE DEF ps
  <2> QED
    BY <1>4, <1>6 DEF Active
<1>8. bb \in Active(ps)
  <2> HIDE DEF ps, button
  <2> QED
    BY <1>2, <1>3, <1>5, BlindSeats
<1>9. sb \in Active(ps) \cup {button}
  <2>1. Active(ps) \in SUBSET Seats /\ \A r \in Seats : r \in -1..9
    BY <1>2, SeatSets, SeatsAssumption
  <2> HIDE DEF ps, button
  <2>2. NextOf(Active(ps), button) \in Active(ps)
    BY <1>3, <1>5, <2>1, NextOfFinds
  <2> QED
    BY <2>2 DEF SmallBlindSeat
<1>10. players'[s] = Dealt(ps[s])
  <2>1. players' = [r \in Seats |->
              Dealt(IF r = bb THEN Posted(ps[r], BigBlind)
                    ELSE IF r = sb THEN Posted(ps[r], SmallBlind) ELSE ps[r])]
    BY DEF Deal
  <2> HIDE DEF ps, sb, bb, button
  <2> QED
    BY <1>5, <1>7, <1>8, <1>9, <2>1
<1>11. Dealt(ps[s]).status = ps[s].status
       /\ Dealt(ps[s]).totalContribution = ps[s].totalContribution
  <2> HIDE DEF ps
  <2> QED
    BY <1>2 DEF Dealt, Player
<1> HIDE DEF ps
<1> QED
  BY <1>4, <1>6, <1>10, <1>11 DEF Active

\* A player on a break, benched by a timeout, or connected and asking to sit out gets no
\* cards and posts no blind in the next hand, whatever happens before it is dealt.
THEOREM BreaksRespected == Spec => BreakRespected
<1>1. TypeOK /\ [Next]_vars =>
        [table'.handNumber > table.handNumber =>
            \A s \in Seats : StaysOut(players[s]) =>
                /\ s \notin Active(players')
                /\ players'[s].totalContribution = 0]_vars
  BY OnlyDealsCount, DealLeavesOut
<1> QED
  BY <1>1, TypeCorrect, PTL DEF Spec, BreakRespected

(***************************************************************************)
(* The table without its chips: TableEngine implements TableShell.  The    *)
(* gateway may therefore be reasoned about over the shell.                 *)
(***************************************************************************)


(***************************************************************************)
(* The shell's view of the players' hash.                                  *)
(***************************************************************************)
Stand(ps) == [s \in Seats |-> StandingOf(ps[s])]

\* How a record's status reads in the shell.
LEMMA StandingIs ==
    ASSUME NEW p \in Player
    PROVE  /\ StandingOf(p) \in Shell!Standings
           /\ \A status \in {"empty", "waiting", "active", "folded", "all-in"} :
                 StandingOf(p) = status <=> p.status = status
           /\ StandingOf(p) = "out" <=> p.status = "sitting_out"
           /\ StandingOf(p) = "parked" <=> p.status \in {"busted", "leaving"}
  BY DEF StandingOf, Player, Statuses, Shell!Standings

\* The clockwise search is the same.
LEMMA SameSearch ==
    ASSUME NEW T, NEW s
    PROVE  Shell!NextOf(T, s) = NextOf(T, s) /\ Shell!NoSeat = NoSeat
  BY DEF Shell!NextOf, NextOf, Shell!Offset, Offset, Shell!NoSeat, NoSeat

\* So is the size of a set.
LEMMA SameSize == ASSUME NEW T PROVE Shell!Cardinality(T) = Cardinality(T)
  BY Zenon DEF Shell!Cardinality, Cardinality

\* Who may act, who is in the hand and who is seated read the same.
LEMMA SameSets ==
    ASSUME NEW ps \in [Seats -> Player]
    PROVE  /\ Shell!Acting(Stand(ps)) = Active(ps)
           /\ Shell!Live(Stand(ps)) = InHand(ps)
           /\ Shell!Standing(Stand(ps), Shell!Standings \ {"empty"}) = Seated(ps)
           /\ Stand(ps) \in [Seats -> Shell!Standings]
<1>1. ASSUME NEW s \in Seats
      PROVE  /\ Stand(ps)[s] = StandingOf(ps[s]) /\ ps[s] \in Player
             /\ Stand(ps)[s] \in Shell!Standings
             /\ Stand(ps)[s] \in {"active"} <=> ps[s].status = "active"
             /\ Stand(ps)[s] \in {"active", "all-in"} <=> ps[s].status \in {"active", "all-in"}
             /\ Stand(ps)[s] \in Shell!Standings \ {"empty"} <=> ps[s].status # "empty"
  BY StandingIs DEF Stand
<1>2. Stand(ps) \in [Seats -> Shell!Standings]
  BY StandingIs DEF Stand
<1> QED
  BY <1>1, <1>2 DEF Active, InHand, Seated, Shell!Acting, Shell!Live, Shell!Standing

\* A change of one record is a change of one standing.
LEMMA StandMoves ==
    ASSUME NEW ps \in [Seats -> Player], NEW s \in Seats, NEW p
    PROVE  Stand([ps EXCEPT ![s] = p]) = [Stand(ps) EXCEPT ![s] = StandingOf(p)]
  BY DEF Stand

\* Records of the same status stand alike.
LEMMA StandAlike ==
    ASSUME NEW ps, NEW qs, \A s \in Seats : ps[s].status = qs[s].status
    PROVE  Stand(ps) = Stand(qs)
  BY DEF Stand, StandingOf

(***************************************************************************)
(* What the shell sees of a step: its variables, in plain names.           *)
(***************************************************************************)
Unmoved ==
    /\ table'.phase = table.phase /\ table'.turnSeat = table.turnSeat
    /\ (table'.pot > 0) = (table.pot > 0)
    /\ table'.handNumber = table.handNumber
    /\ Stand(players') = Stand(players)

\* A step the shell does not see.
LEMMA UnmovedIsStutter == ASSUME Unmoved PROVE UNCHANGED Shell!shell
  BY DEF Unmoved, Stand, Shell!shell

(***************************************************************************)
(* bet.lua and timeout.lua.                                                *)
(***************************************************************************)

\* The hand is won by the last one left in it.
LEMMA HandWonShell ==
    ASSUME TypeOK, NEW ps \in [Seats -> Player], NEW t \in Table, NEW s \in Seats, NEW to,
           Stand(ps) = [Stand(players) EXCEPT ![s] = to],
           t.handNumber = table.handNumber,
           NEW turn, turn = s \/ turn = NoSeat, HandWon(ps, t, turn)
    PROVE  Shell!Moved(s, [Stand(players) EXCEPT ![s] = to], "complete") /\ table'.pot = 0
<1> DEFINE st == [Stand(players) EXCEPT ![s] = to]
<1>1. Shell!Acting(st) = Active(ps) /\ Shell!Live(st) = InHand(ps)
  BY SameSets
<1>2. /\ Cardinality(InHand(ps)) = 1
      /\ table'.phase = "showdown" /\ table'.pot = 0 /\ table'.turnSeat = turn
      /\ table'.handNumber = table.handNumber
  BY DEF HandWon, Table
<1>3. \A r \in Seats : players'[r].status = ps[r].status
  BY DEF HandWon, Player
<1>4. Stand(players') = st
  BY <1>3, StandAlike
<1> HIDE DEF st
<1>5. Shell!Moved(s, st, "complete")
  BY <1>1, <1>2, <1>4, SameSearch, SameSize DEF Shell!Moved, Stand
<1> QED
  BY <1>2, <1>5 DEF st

\* The round is over; the turn stays where the script leaves it.
LEMMA RoundOverShell ==
    ASSUME TypeOK, NEW ps \in [Seats -> Player], NEW t \in Table, NEW s \in Seats, NEW to,
           Stand(ps) = [Stand(players) EXCEPT ![s] = to],
           t.phase = table.phase, t.handNumber = table.handNumber,
           NEW turn, turn = NextOf(Active(ps), s) \/ turn = NoSeat,
           NEW refund, RoundOver(ps, t, turn, refund)
    PROVE  Shell!Moved(s, [Stand(players) EXCEPT ![s] = to], "street")
<1> DEFINE st == [Stand(players) EXCEPT ![s] = to]
<1>1. Shell!Acting(st) = Active(ps) /\ Shell!Live(st) = InHand(ps)
  BY SameSets
<1>2. /\ Cardinality(InHand(ps)) # 1
      /\ table'.phase = table.phase /\ table'.turnSeat = turn
      /\ table'.handNumber = table.handNumber
  BY DEF RoundOver, Table
<1>3. \A r \in Seats : players'[r].status = ps[r].status
  BY DEF RoundOver, Refunded, Player
<1>4. Stand(players') = st
  BY <1>3, StandAlike
<1> HIDE DEF st
<1>5. Shell!Moved(s, st, "street")
  BY <1>1, <1>2, <1>4, SameSearch, SameSize DEF Shell!Moved, Stand
<1> QED
  BY <1>2, <1>5 DEF st

\* The next one is to act.
LEMMA PlayOnShell ==
    ASSUME TypeOK, NEW ps \in [Seats -> Player], NEW t \in Table, NEW s \in Seats, NEW to,
           Stand(ps) = [Stand(players) EXCEPT ![s] = to],
           t.phase = table.phase, t.handNumber = table.handNumber,
           Active(ps) \ {s} # {}, PlayOn(ps, t, NextOf(Active(ps), s))
    PROVE  Shell!Moved(s, [Stand(players) EXCEPT ![s] = to], "play") /\ table'.pot = t.pot
<1> DEFINE st == [Stand(players) EXCEPT ![s] = to]
<1>1. Shell!Acting(st) = Active(ps) /\ Shell!Live(st) = InHand(ps)
  BY SameSets
<1>2. /\ Cardinality(InHand(ps)) # 1
      /\ table'.phase = table.phase /\ table'.turnSeat = NextOf(Active(ps), s)
      /\ table'.pot = t.pot /\ players' = ps
      /\ table'.handNumber = table.handNumber
  BY DEF PlayOn, Table
<1>3. Stand(players') = st
  BY <1>2
<1> HIDE DEF st
<1>4. Shell!Moved(s, st, "play")
  BY <1>1, <1>2, <1>3, SameSearch, SameSize DEF Shell!Moved, Stand
<1> QED
  BY <1>2, <1>4 DEF st

\* Whoever acts last in a round that goes on is not the only one who may still act.
LEMMA OthersToAct ==
    ASSUME NEW ps \in [Seats -> Player], NEW t \in Table, NEW s \in Seats,
           ~RoundClosed(ps, t),
           \/ ps[s].status # "active"
           \/ t.playersActedCount >= 1 /\ ps[s].currentBet >= t.currentBet
    PROVE  Active(ps) \ {s} # {}
<1> SUFFICES ASSUME Active(ps) \ {s} = {} PROVE FALSE
  OBVIOUS
<1>1. t.playersActedCount \in Nat
  BY TableFields
<1>2. CASE Active(ps) = {}
  <2>1. Cardinality(Active(ps)) = 0
    BY <1>2, FS_EmptySet
  <2> QED
    BY <1>1, <1>2, <2>1 DEF RoundClosed
<1>3. CASE Active(ps) = {s}
  <2>1. Cardinality(Active(ps)) = 1 /\ ps[s].status = "active"
    BY <1>3, FS_Singleton DEF Active
  <2> QED
    BY <1>1, <1>3, <2>1 DEF RoundClosed
<1> QED
  BY <1>2, <1>3

\* A bet, as the shell sees it (bet.lua).
LEMMA BetShell ==
    ASSUME TypeOK, NEW s \in Seats, Bet(s)
    PROVE  \E to \in {"active", "folded", "all-in"}, answer \in Shell!Answers :
              Shell!BetScript(s, to, answer)
<1>1. PICK p \in Player, t \in Table : AfterBet(s, p, t) /\ Answered(p, t)
  BY BetMoves
<1>2. table.turnSeat = s /\ players[s].status = "active"
  BY DEF Bet, Fold, Check, Call, AllIn, Raise, MayBet
<1>3. PICK bank \in (IF p.usingBank THEN 0..p.timeBank ELSE {p.timeBank}) :
        LET ps == [players EXCEPT ![s] = [p EXCEPT !.timeBank = bank, !.usingBank = FALSE]]
            next == NextOf(Active(ps), s)
        IN  \/ HandWon(ps, t, t.turnSeat)
            \/ RoundOver(ps, t, next, [r \in Seats |-> Uncalled(ps, r)])
            \/ PlayOn(ps, t, next)
  BY <1>1 DEF AfterBet
<1> DEFINE q == [[p EXCEPT !.timeBank = bank] EXCEPT !.usingBank = FALSE]
           ps == [players EXCEPT ![s] = q]
           refund == [r \in Seats |-> Uncalled(ps, r)]
<1>4. q \in Player /\ q.status = p.status /\ q.currentBet = p.currentBet
  <2>1. bank \in Nat
    BY PlayerFields
  <2>2. q \in Player
    BY <2>1, PlayerUpdates, Zenon
  <2> QED
    BY <2>2 DEF Player
<1>5. \/ HandWon(ps, t, t.turnSeat)
      \/ RoundOver(ps, t, NextOf(Active(ps), s), refund)
      \/ PlayOn(ps, t, NextOf(Active(ps), s))
  BY <1>3
<1> HIDE DEF q
<1>6. ps \in [Seats -> Player] /\ ps[s] = q
  BY <1>4 DEF TypeOK
<1>7. players \in [Seats -> Player] /\ q.status \in {"active", "folded", "all-in"}
  BY <1>1, <1>4 DEF TypeOK, Answered
<1>8. StandingOf(q) = q.status
  BY <1>7 DEF StandingOf
<1>9. Stand(ps) = [Stand(players) EXCEPT ![s] = q.status]
  <2>1. Stand([players EXCEPT ![s] = q]) = [Stand(players) EXCEPT ![s] = StandingOf(q)]
    BY <1>7, StandMoves
  <2> QED
    BY <1>8, <2>1
<1> HIDE DEF ps, refund
<1>10. PlayOn(ps, t, NextOf(Active(ps), s)) => Active(ps) \ {s} # {}
  <2>1. q.status = "active" => t.playersActedCount >= 1 /\ q.currentBet >= t.currentBet
    BY <1>1, <1>4 DEF Answered
  <2> QED
    BY <1>6, <2>1, OthersToAct DEF PlayOn
<1>11. t.phase = table.phase /\ t.handNumber = table.handNumber /\ t.turnSeat = s
  BY <1>1, <1>2 DEF Answered
<1>12. \E answer \in Shell!Answers :
          Shell!Moved(s, [Stand(players) EXCEPT ![s] = q.status], answer)
  <2>1. {"complete", "street", "play"} \subseteq Shell!Answers
    BY DEF Shell!Answers
  <2>2. CASE HandWon(ps, t, t.turnSeat)
    BY <1>6, <1>9, <1>11, <2>1, <2>2, HandWonShell
  <2>3. CASE RoundOver(ps, t, NextOf(Active(ps), s), refund)
    BY <1>6, <1>9, <1>11, <2>1, <2>3, RoundOverShell
  <2>4. CASE PlayOn(ps, t, NextOf(Active(ps), s))
    BY <1>6, <1>9, <1>10, <1>11, <2>1, <2>4, PlayOnShell
  <2> QED
    BY <1>5, <2>2, <2>3, <2>4
<1>13. Stand(players)[s] = "active"
  BY <1>2 DEF Stand, StandingOf
<1>14. PICK answer \in Shell!Answers :
          Shell!Moved(s, [Stand(players) EXCEPT ![s] = q.status], answer)
  BY <1>12
<1>15. (table'.pot > 0) \in BOOLEAN
  OBVIOUS
<1>16. Shell!BetScript(s, q.status, answer)
  BY <1>2, <1>13, <1>14, <1>15 DEF Shell!BetScript, Stand
<1> QED
  BY <1>7, <1>16

\* Opening the time bank changes nothing the shell holds (timeout.lua).
LEMMA ExtendShell ==
    ASSUME TypeOK, NEW s \in Seats, TimeoutExtend(s)
    PROVE  Shell!TimeoutScript(s, "extended")
<1>1. players \in [Seats -> Player] /\ players[s] \in Player
  BY DEF TypeOK
<1>2. table.turnSeat = s /\ players[s].status # "empty"
  BY DEF TimeoutExtend, TimesOut, Seated
<1>3. \A r \in Seats : players'[r].status = players[r].status
  BY <1>1 DEF TimeoutExtend, Player
<1>4. Stand(players') = Stand(players)
  BY <1>3, StandAlike
<1>5. UNCHANGED Shell!shell
  BY <1>4, UnmovedIsStutter DEF Unmoved, TimeoutExtend
<1>6. Stand(players)[s] # "empty"
  BY <1>1, <1>2, StandingIs DEF Stand
<1> QED
  BY <1>2, <1>5, <1>6 DEF Shell!TimeoutScript, Stand

\* Folding the player to act, as the shell sees it (timeout.lua).
LEMMA TimeoutFoldShell ==
    ASSUME TypeOK, NEW s \in Seats, TimeoutFold(s)
    PROVE  \E answer \in Shell!Answers : Shell!TimeoutScript(s, answer)
<1> DEFINE q == [[[[players[s] EXCEPT !.status = "folded"] EXCEPT !.cards = FALSE]
                      EXCEPT !.usingBank = FALSE] EXCEPT !.benchAfterHand = TRUE]
           ps == [players EXCEPT ![s] = q]
           t == Acted(table, FALSE)
           refund == [r \in Seats |-> 0]
<1>1. players \in [Seats -> Player] /\ players[s] \in Player /\ table \in Table
  BY DEF TypeOK
<1>2. table.turnSeat = s /\ players[s].status # "empty"
  BY DEF TimeoutFold, TimesOut, Seated
<1>3. q \in Player /\ q.status = "folded"
  <2>1. "folded" \in Statuses /\ FALSE \in BOOLEAN /\ TRUE \in BOOLEAN
    BY Names
  <2>2. q \in Player
    BY <1>1, <2>1, PlayerUpdates, Zenon
  <2> QED
    BY <1>1, <2>2 DEF Player
<1>4. \/ HandWon(ps, t, NoSeat)
      \/ RoundOver(ps, t, NoSeat, refund)
      \/ PlayOn(ps, t, NextOf(Active(ps), s))
  BY <1>1 DEF TimeoutFold
<1> HIDE DEF q
<1>5. ps \in [Seats -> Player] /\ ps[s].status = "folded"
  BY <1>1, <1>3
<1>6. Stand(ps) = [Stand(players) EXCEPT ![s] = "folded"]
  <2>1. Stand([players EXCEPT ![s] = q]) = [Stand(players) EXCEPT ![s] = StandingOf(q)]
    BY <1>1, StandMoves
  <2>2. StandingOf(q) = "folded"
    BY <1>3 DEF StandingOf
  <2> QED
    BY <2>1, <2>2
<1>7. /\ t \in Table /\ t.phase = table.phase
      /\ t.pot = table.pot /\ t.handNumber = table.handNumber
  BY <1>1, ActedType, ActedPot, ActedTurn
<1>8. SeatSum(refund) = 0
  BY DEF SeatSum, At
<1> HIDE DEF ps, t, refund
<1>9. PlayOn(ps, t, NextOf(Active(ps), s)) => Active(ps) \ {s} # {}
  BY <1>5, <1>7, OthersToAct DEF PlayOn
<1>10. /\ \E answer \in Shell!Answers :
             Shell!Moved(s, [Stand(players) EXCEPT ![s] = "folded"], answer)
       /\ table'.pot = 0 \/ table'.pot = t.pot - SeatSum(refund) \/ table'.pot = t.pot
  <2>1. {"complete", "street", "play"} \subseteq Shell!Answers
    BY DEF Shell!Answers
  <2>2. CASE HandWon(ps, t, NoSeat)
    BY <1>5, <1>6, <1>7, <2>1, <2>2, HandWonShell
  <2>3. CASE RoundOver(ps, t, NoSeat, refund)
    <3>1. Shell!Moved(s, [Stand(players) EXCEPT ![s] = "folded"], "street")
      BY <1>5, <1>6, <1>7, <2>3, RoundOverShell
    <3>2. table'.pot = t.pot - SeatSum(refund)
      BY <1>7, <2>3 DEF RoundOver, Table
    <3> QED
      BY <2>1, <3>1, <3>2
  <2>4. CASE PlayOn(ps, t, NextOf(Active(ps), s))
    BY <1>5, <1>6, <1>7, <1>9, <2>1, <2>4, PlayOnShell
  <2> QED
    BY <1>4, <2>2, <2>3, <2>4
<1>11. PICK answer \in Shell!Answers :
          Shell!Moved(s, [Stand(players) EXCEPT ![s] = "folded"], answer)
  BY <1>10
<1>12. (table'.pot > 0) \in {table.pot > 0, FALSE}
  <2>1. table.pot \in Int
    BY <1>1, TableFields
  <2>2. table'.pot = 0 \/ table'.pot = table.pot
    BY <1>7, <1>8, <1>10, <2>1
  <2>3. CASE table'.pot = 0
    <3>1. (table'.pot > 0) = FALSE
      BY <2>3
    <3> QED
      BY <3>1, Zenon
  <2>4. CASE table'.pot = table.pot
    BY <2>4, Zenon
  <2> QED
    BY <2>2, <2>3, <2>4
<1>13. Stand(players)[s] # "empty"
  BY <1>1, <1>2, StandingIs DEF Stand
<1>14. Shell!TimeoutScript(s, answer)
  BY <1>2, <1>11, <1>12, <1>13 DEF Shell!TimeoutScript, Stand
<1> QED
  BY <1>14

(***************************************************************************)
(* next_street.lua and showdown.lua.                                       *)
(***************************************************************************)

\* The next street, as the shell sees it (next_street.lua).
LEMMA NextStreetShell ==
    ASSUME TypeOK, NextStreet
    PROVE  \E answer \in Shell!Answers : Shell!NextStreetScript(answer)
<1>1. players \in [Seats -> Player] /\ table \in Table
  BY DEF TypeOK
<1>2. \A s \in Seats : players'[s].status = players[s].status
  BY <1>1 DEF NextStreet, Player
<1>3. Stand(players') = Stand(players)
  BY <1>2, StandAlike
<1>4. Shell!Acting(Stand(players)) = Active(players) /\ Shell!Live(Stand(players)) = InHand(players)
  BY <1>1, SameSets
<1>5. NextOf(Active(players), table.dealerSeat)
         \in (IF Active(players) = {} THEN {NoSeat} ELSE Active(players))
  <2>1. Active(players) \in SUBSET Seats /\ table.dealerSeat \in -1..9
    BY <1>1, SeatSets, TableFields
  <2>2. CASE Active(players) = {}
    BY <2>2 DEF NextOf
  <2> QED
    BY <2>1, <2>2, NextOfFinds
<1>6. /\ table.phase \in Streets
      /\ table'.phase = StreetAfter[table.phase]
      /\ table'.turnSeat = NextOf(Active(players), table.dealerSeat)
      /\ table'.pot = table.pot /\ table'.handNumber = table.handNumber
  BY <1>1 DEF NextStreet, Table
<1>7. Shell!Streets = Streets /\ Shell!StreetAfter = StreetAfter
  BY DEF Shell!Streets, Streets, Shell!StreetAfter, StreetAfter
<1> DEFINE answer == IF table.phase = "river" THEN "showdown"
                     ELSE IF Shell!RunsOut(Stand(players)) THEN "runout" ELSE "play"
<1>8. answer \in Shell!Answers
  BY DEF Shell!Answers
<1>9. Shell!NextStreetScript(answer)
  BY <1>3, <1>4, <1>5, <1>6, <1>7, SameSearch DEF Shell!NextStreetScript, Stand
<1> QED
  BY <1>8, <1>9

\* A showdown, as the shell sees it: who is left without chips is parked (showdown.lua).
LEMMA ShowdownShell ==
    ASSUME TypeOK, NEW score, Showdown(score)
    PROVE  \E broke \in SUBSET Seats : Shell!ShowdownScript(broke)
<1>1. players \in [Seats -> Player] /\ table \in Table
  BY DEF TypeOK
<1>2. PICK won \in Payouts(Contributions(players), InHand(players), score, table.pot,
                          table.pot - Rake(table.pot)) :
        players' = [s \in Seats |-> Rested([players[s] EXCEPT !.chips = @ + won[s]])]
  BY DEF Showdown
<1> DEFINE broke == {s \in Seats : ~(players[s].chips + won[s] > 0)}
<1>3. ASSUME NEW s \in Seats
      PROVE  StandingOf(players'[s]) =
               IF StandingOf(players[s]) \in {"empty", "out"} THEN StandingOf(players[s])
               ELSE IF s \in broke THEN "parked" ELSE "waiting"
  <2> DEFINE p == [players[s] EXCEPT !.chips = @ + won[s]]
             rest == IF p.status \in {"empty", "sitting_out"} THEN p.status
                     ELSE IF p.chips > 0 THEN "waiting" ELSE "busted"
  <2>1. players[s] \in Player
    BY <1>1
  <2>2. p.status = players[s].status /\ p.chips = players[s].chips + won[s]
    BY <2>1 DEF Player
  <2>3. players'[s] = Rested(p)
    BY <1>2
  <2>5. Rested(p).status = rest
    BY <2>1 DEF Rested, Cleared, Player
  <2> HIDE DEF p
  <2> QED
    BY <2>1, <2>2, <2>3, <2>5 DEF StandingOf, Player, Statuses
<1> HIDE DEF broke
<1>4. Stand(players') = [s \in Seats |->
          IF Stand(players)[s] \in {"empty", "out"} THEN Stand(players)[s]
          ELSE IF s \in broke THEN "parked" ELSE "waiting"]
  BY <1>3 DEF Stand
<1>5. /\ table'.phase = "waiting" /\ table'.pot = 0
      /\ table'.turnSeat = table.turnSeat /\ table'.handNumber = table.handNumber
  BY <1>1 DEF Showdown, Table
<1>6. Shell!ShowdownScript(broke)
  BY <1>4, <1>5 DEF Shell!ShowdownScript, Stand
<1> QED
  BY <1>6 DEF broke

(***************************************************************************)
(* An empty seat carries no wish to sit out: the sweep of next_hand.lua    *)
(* would put a ghost on a break there.                                     *)
(***************************************************************************)
Neat(p) == p.status = "empty" => ~p.benchAfterHand /\ ~p.sitOutNextHand

SeatsNeat == \A s \in Seats : Neat(players[s])

ShellInv == TypeOK /\ SeatsNeat

\* The two records read the same to the sweep.
Alike(p, q) ==
    /\ q.status = p.status
    /\ q.benchAfterHand = p.benchAfterHand /\ q.sitOutNextHand = p.sitOutNextHand

LEMMA NeatStays ==
    ASSUME NEW p, NEW q, Neat(p), Alike(p, q) \/ q.status # "empty" \/ q = Vacant
    PROVE  Neat(q)
<1>1. CASE Alike(p, q)
  BY <1>1, Zenon DEF Neat, Alike
<1>2. CASE q.status # "empty"
  BY <1>2 DEF Neat
<1>3. CASE q = Vacant
  <2>1. ~Vacant.benchAfterHand /\ ~Vacant.sitOutNextHand
    BY DEF Vacant
  <2> QED
    BY <1>3, <2>1 DEF Neat
<1> QED
  BY <1>1, <1>2, <1>3

(***************************************************************************)
(* next_hand.lua.                                                          *)
(***************************************************************************)

\* What the sweep does to how a seat stands.
LEMMA PromotedStands ==
    ASSUME NEW p \in Player, Neat(p)
    PROVE  LET q == Promoted(Ghosted(ToppedUp(p)))
           IN  /\ q \in Player
               /\ q.status = "active" => p.status \in {"waiting", "active", "folded", "all-in"}
               /\ q.status \in {p.status, "active"} \cup (IF p.status = "empty" THEN {} ELSE {"sitting_out"})
               /\ p.status = "empty" => Alike(p, q)
<1> DEFINE u == ToppedUp(p)
           g == Ghosted(u)
           q == Promoted(g)
<1>1. u \in Player /\ Alike(p, u)
  BY ToppedUpType DEF ToppedUp, Player, Alike
<1>2. g \in Player
  BY <1>1, SatOutType DEF Ghosted
<1>3. q \in Player
  BY <1>2, PromotedType
<1>4. \A r \in Player : SatOut(r).status = "sitting_out" /\ Alike(r, Cleared(r))
  BY DEF SatOut, Cleared, Player, Alike
<1> HIDE DEF u
<1>5. \/ g = u
      \/ u.status = "active" /\ g.status = "sitting_out"
  BY <1>1, <1>4 DEF Ghosted
<1> HIDE DEF g
<1>6. \/ g.status = "sitting_out" /\ q = Cleared(g)
      \/ g.benchAfterHand /\ q.status = "sitting_out"
      \/ g.status \in Playing /\ q = Cleared(g)
      \/ q = g
      \/ g.sitOutNextHand /\ q.status = "sitting_out"
      \/ g.status \in Playing \cup {"waiting"} /\ q.status = "active"
  <2> DEFINE c == Cleared(g)
             o == SatOut(g)
  <2>1. o \in Player /\ o.status = "sitting_out" /\ c \in Player
    BY <1>2, <1>4, SatOutType, ClearedType
  <2>2. \/ g.status = "sitting_out" /\ q = c
        \/ g.benchAfterHand /\ q = [o EXCEPT !.benchAfterHand = FALSE]
        \/ g.status \in Playing /\ q = c
        \/ q = g
        \/ g.sitOutNextHand /\ q = [o EXCEPT !.sitOutNextHand = FALSE]
        \/ /\ g.status \in Playing \cup {"waiting"}
           /\ q = [c EXCEPT !.status = "active", !.timeBank = Smaller(@ + 2, TimeBank)]
    BY DEF Promoted
  <2> HIDE DEF c, o, q
  <2>3. /\ [o EXCEPT !.benchAfterHand = FALSE].status = "sitting_out"
        /\ [o EXCEPT !.sitOutNextHand = FALSE].status = "sitting_out"
        /\ [c EXCEPT !.status = "active", !.timeBank = Smaller(@ + 2, TimeBank)].status = "active"
    BY <2>1 DEF Player
  <2> QED
    BY <2>2, <2>3 DEF c
<1> HIDE DEF q
<1>7. Alike(g, Cleared(g)) /\ (g = u => Alike(p, g))
  BY <1>1, <1>2, <1>4
<1>8. \/ g.status = u.status
      \/ u.status = "active" /\ g.status = "sitting_out"
  BY <1>5
<1>9. u.status = p.status
  BY <1>1 DEF Alike
<1>10. CASE p.status = "empty"
  <2>1. g = u
    BY <1>5, <1>9, <1>10
  <2>2. ~g.benchAfterHand /\ ~g.sitOutNextHand /\ g.status = "empty"
    BY <1>7, <1>10, <2>1, Zenon DEF Neat, Alike
  <2>3. q = g
    BY <1>6, <2>2 DEF Playing
  <2> QED
    BY <1>3, <1>7, <1>10, <2>1, <2>2, <2>3 DEF u, g, q
<1>11. CASE p.status # "empty"
  <2>1. q = Cleared(g) => q.status = g.status
    BY <1>7 DEF Alike
  <2>2. \/ q.status \in {g.status, "sitting_out"}
        \/ q.status = "active" /\ g.status \in Playing \cup {"waiting"}
    BY <1>6, <2>1
  <2> QED
    BY <1>3, <1>8, <1>9, <1>11, <2>2 DEF u, g, q, Playing
<1> QED
  BY <1>10, <1>11

\* What the sweep and the marking of who leaves make of a seat's record p.
MaySweep(p, q) ==
    /\ q \in Player
    /\ q.status = "active" => p.status \in {"waiting", "active", "folded", "all-in"}
    /\ q.status \in {p.status, "active"}
                      \cup (IF p.status = "empty" THEN {} ELSE {"sitting_out", "leaving"})
    /\ p.status = "empty" => Alike(p, q)

LEMMA SweptStands ==
    ASSUME ShellInv
    PROVE  \A s \in Seats : MaySweep(players[s], Swept[s])
<1>1. ASSUME NEW s \in Seats
      PROVE  MaySweep(players[s], Swept[s])
  <2> DEFINE q == Promoted(Ghosted(ToppedUp(players[s])))
  <2>1. players[s] \in Player /\ Neat(players[s]) /\ Swept[s] = q
    BY DEF ShellInv, SeatsNeat, TypeOK, Swept
  <2>2. /\ q \in Player
        /\ q.status = "active" => players[s].status \in {"waiting", "active", "folded", "all-in"}
        /\ q.status \in {players[s].status, "active"}
                          \cup (IF players[s].status = "empty" THEN {} ELSE {"sitting_out"})
        /\ players[s].status = "empty" => Alike(players[s], q)
    BY <2>1, PromotedStands
  <2> HIDE DEF q
  <2> QED
    BY <2>1, <2>2 DEF MaySweep
<1> QED
  BY <1>1

\* Who leaves at his big blind was about to be dealt in.
LEMMA KickedStands ==
    ASSUME ShellInv, Active(Swept) # {}
    PROVE  \A s \in Seats : MaySweep(players[s], Kicked(Swept)[s])
<1> DEFINE ps == Swept
           bb == BigBlindSeat(ps, Button(ps))
           gone == [Cleared(ps[bb]) EXCEPT !.status = "leaving", !.leaveNextBB = FALSE]
<1>1. ps \in [Seats -> Player] /\ table \in Table
  BY SweptType DEF ShellInv, TypeOK
<1>2. bb \in Active(ps)
  <2>1. Button(ps) \in Seats
    BY <1>1, ButtonFound
  <2> QED
    BY <1>1, <2>1, BlindSeats
<1>3. \A s \in Seats : MaySweep(players[s], ps[s])
  BY SweptStands
<1> HIDE DEF ps, bb
<1>4. bb \in Seats /\ ps[bb].status = "active"
  BY <1>2 DEF Active
<1>5. Kicked(ps) = [ps EXCEPT ![bb] = gone] \/ Kicked(ps) = ps
  BY DEF Kicked, bb
<1>6. Cleared(ps[bb]) \in Player
  BY <1>1, <1>4, ClearedType
<1>7. gone.status = "leaving"
  BY <1>6 DEF Player
<1> HIDE DEF gone
<1>8. Kicked(ps) \in [Seats -> Player]
  BY <1>1, KickedType
<1>9. ASSUME NEW s \in Seats
      PROVE  MaySweep(players[s], Kicked(ps)[s])
  <2>1. CASE Kicked(ps)[s] = ps[s]
    BY <1>3, <2>1
  <2>2. CASE s = bb /\ Kicked(ps)[s] = gone
    <3>1. players[s].status # "empty"
      BY <1>3, <1>4, <2>2 DEF MaySweep
    <3> QED
      BY <1>7, <1>8, <2>2, <3>1 DEF MaySweep
  <2> QED
    BY <1>1, <1>5, <2>1, <2>2
<1> QED
  BY <1>9 DEF ps

\* Such a sweep, as the shell sees it.
LEMMA SweepShell ==
    ASSUME TypeOK, \A s \in Seats : MaySweep(players[s], players'[s])
    PROVE  /\ \A s \in Seats : Stand(players')[s] \in {"active"} \cup Shell!Asides(s)
           /\ Shell!Swept(Active(players'), Stand(players'))
<1>1. players \in [Seats -> Player]
  BY DEF TypeOK
<1>2. ASSUME NEW s \in Seats
      PROVE  /\ Stand(players')[s] \in {"active"} \cup Shell!Asides(s)
             /\ s \in Active(players') => Stand(players')[s] = "active" /\ s \in Shell!Dealable
  <2> DEFINE p == players[s]
             q == players'[s]
  <2>1. Stand(players)[s] = StandingOf(p) /\ Stand(players')[s] = StandingOf(q)
    BY DEF Stand
  <2>2. Shell!Asides(s) = {StandingOf(p)} \cup (IF StandingOf(p) = "empty" THEN {} ELSE {"out", "parked"})
    BY DEF Shell!Asides
  <2>3. s \in Shell!Dealable <=> StandingOf(p) \in {"waiting", "active", "folded", "all-in"}
    BY DEF Shell!Dealable, Shell!Standing
  <2>4. p \in Player /\ MaySweep(p, q)
    BY <1>1
  <2>5. s \in Active(players') <=> q.status = "active"
    BY DEF Active
  <2> HIDE DEF p, q
  <2> QED
    BY <2>1, <2>2, <2>3, <2>4, <2>5 DEF MaySweep, StandingOf, Player, Statuses
<1>3. Active(players') \subseteq Shell!Dealable
  BY <1>2 DEF Active
<1> QED
  BY <1>2, <1>3 DEF Shell!Swept, Stand

\* Starting a hand or giving up on it, as the shell sees it (next_hand.lua).
LEMMA NextHandShell ==
    ASSUME ShellInv, NextHand
    PROVE  /\ \A s \in Seats : Stand(players')[s] \in {"active"} \cup Shell!Asides(s)
           /\ \E answer \in {"few", "dealt"} :
                 Shell!NextHandScript(Shell!Acting(Stand(players')), Stand(players'), answer)
           /\ \A s \in Seats : MaySweep(players[s], players'[s])
<1>1. TypeOK /\ table \in Table /\ Swept \in [Seats -> Player] /\ Kicked(Swept) \in [Seats -> Player]
  BY SweptType, KickedType DEF ShellInv, TypeOK
<1>2. players' \in [Seats -> Player] /\ table' \in Table
  BY <1>1, NextHandType DEF TypeOK
<1>3. ASSUME NEW ps \in [Seats -> Player], Cardinality(Active(ps)) >= 2
      PROVE  Active(ps) # {}
  BY <1>3, FS_EmptySet
<1>4. Shell!Acting(Stand(players')) = Active(players')
  BY <1>2, SameSets
<1>5. CASE TooFewToDeal
  <2>1. \/ players' = Swept /\ Cardinality(Active(players')) < 2
        \/ /\ players' = Kicked(Swept) /\ Cardinality(Active(players')) < 2
           /\ Cardinality(Active(Swept)) >= 2
    BY <1>5 DEF TooFewToDeal
  <2>2. \A s \in Seats : MaySweep(players[s], players'[s])
    BY <1>1, <1>3, <2>1, SweptStands, KickedStands
  <2>3. /\ table'.phase = "waiting" /\ table'.turnSeat = table.turnSeat
        /\ table'.pot = table.pot /\ table'.handNumber = table.handNumber
    BY <1>1, <1>5 DEF TooFewToDeal, Table
  <2>4. Shell!NextHandScript(Active(players'), Stand(players'), "few")
    <3>1. Shell!Swept(Active(players'), Stand(players'))
      BY <1>1, <2>2, SweepShell
    <3>2. Cardinality(Active(players')) < 2
      BY <2>1
    <3> QED
      BY <2>3, <3>1, <3>2, SameSize DEF Shell!NextHandScript
  <2> QED
    BY <1>1, <1>4, <2>2, <2>4, SweepShell
<1>6. CASE Deal
  <2> DEFINE ps == Kicked(Swept)
             button == Button(Swept)
             sb == SmallBlindSeat(ps, button)
             bb == BigBlindSeat(ps, button)
  <2>1. Active(Swept) # {} /\ Active(ps) # {} /\ Cardinality(Active(ps)) >= 2
    BY <1>1, <1>3, <1>6 DEF Deal
  <2>2. button \in Seats
    BY <1>1, <2>1, ButtonFound
  <2>3. \A s \in Seats : MaySweep(players[s], ps[s])
    BY <2>1, KickedStands
  <2>4. bb \in Active(ps)
    <3> HIDE DEF ps, button
    <3> QED
      BY <1>1, <2>1, <2>2, BlindSeats DEF ps
  <2>5. ASSUME NEW s \in Seats
        PROVE  players'[s] \in Player /\ Alike(ps[s], players'[s])
    <3> DEFINE q == IF s = bb THEN Posted(ps[s], BigBlind)
                    ELSE IF s = sb THEN Posted(ps[s], SmallBlind) ELSE ps[s]
    <3>1. ps[s] \in Player
      BY <1>1
    <3>2. players'[s] = Dealt(q)
      BY <1>6 DEF Deal
    <3>3. \A blind \in Nat : Posted(ps[s], blind) \in Player /\ Alike(ps[s], Posted(ps[s], blind))
      <4> HIDE DEF ps
      <4> QED
        BY <3>1, PostedType DEF Posted, Alike, Player
    <3>4. q \in Player /\ Alike(ps[s], q)
      <4> HIDE DEF ps, sb, bb
      <4>1. Alike(ps[s], ps[s])
        BY DEF Alike
      <4> QED
        BY <3>1, <3>3, <4>1, StakesAssumption
    <3> HIDE DEF q, ps
    <3>5. Dealt(q) \in Player /\ Alike(q, Dealt(q))
      BY <3>4, DealtType DEF Dealt, Alike, Player
    <3>6. Alike(ps[s], Dealt(q))
      BY <3>4, <3>5, Zenon DEF Alike
    <3> QED
      BY <3>2, <3>5, <3>6
  <2>6. /\ table'.phase = "preflop" /\ table'.turnSeat = NextOf(Active(ps), bb)
        /\ table'.handNumber = table.handNumber + 1
    BY <1>6 DEF Deal
  <2> HIDE DEF ps, button, sb, bb
  <2>7. ps \in [Seats -> Player]
    BY <1>1 DEF ps
  <2>8. \A s \in Seats : MaySweep(players[s], players'[s])
    <3>1. ASSUME NEW p, NEW q, NEW r \in Player, MaySweep(p, q), Alike(q, r)
          PROVE  MaySweep(p, r)
      <4>1. r.status = q.status
        BY <3>1 DEF Alike
      <4>2. Alike(p, q) => Alike(p, r)
        BY <3>1, Zenon DEF Alike
      <4> QED
        BY <3>1, <4>1, <4>2 DEF MaySweep
    <3> QED
      BY <2>3, <2>5, <3>1
  <2>9. Active(players') = Active(ps)
    BY <2>5 DEF Active, Alike
  <2>10. NextOf(Active(ps), bb) \in Active(ps)
    <3>1. Active(ps) \in SUBSET Seats /\ bb \in -1..9
      <4>1. Active(ps) \in SUBSET Seats
        BY <2>7, SeatSets
      <4>2. bb \in 0..9
        BY <2>4, <4>1, SeatsAssumption
      <4>3. \A i \in 0..9 : i \in -1..9
        OBVIOUS
      <4> QED
        BY <4>1, <4>2, <4>3
    <3> QED
      BY <2>1, <3>1, NextOfFinds
  <2>11. Shell!NextHandScript(Active(players'), Stand(players'), "dealt")
    <3>1. Shell!Swept(Active(players'), Stand(players'))
      BY <1>1, <2>8, SweepShell
    <3>2. Cardinality(Active(players')) >= 2 /\ table'.turnSeat \in Active(players')
      BY <2>1, <2>6, <2>9, <2>10
    <3>3. (table'.pot > 0) \in BOOLEAN
      OBVIOUS
    <3> QED
      BY <2>6, <3>1, <3>2, <3>3, SameSize DEF Shell!NextHandScript
  <2> QED
    BY <1>1, <1>4, <2>8, <2>11, SweepShell
<1> QED
  BY <1>5, <1>6 DEF NextHand

(***************************************************************************)
(* The seat scripts.  A request stores one record q in place of p.         *)
(***************************************************************************)
Stood(s) ==
    \E q :
       /\ players' = [players EXCEPT ![s] = q]
       /\ q.status \in {players[s].status, "waiting", "sitting_out"}
       /\ q.status # "empty"
       /\ players[s].status # "empty"
       /\ UNCHANGED table

\* One seat's rest, break or return, as the shell sees it.
LEMMA StoodShell ==
    ASSUME TypeOK, NEW s \in Seats, Stood(s)
    PROVE  \E to \in Shell!Standings : Shell!StandScript(s, to)
<1>1. players \in [Seats -> Player] /\ players[s] \in Player
  BY DEF TypeOK
<1>2. PICK q :
        /\ players' = [players EXCEPT ![s] = q]
        /\ q.status \in {players[s].status, "waiting", "sitting_out"}
        /\ players[s].status # "empty"
        /\ UNCHANGED table
  BY DEF Stood
<1>3. Stand(players') = [Stand(players) EXCEPT ![s] = StandingOf(q)]
  <2>1. Stand([players EXCEPT ![s] = q]) = [Stand(players) EXCEPT ![s] = StandingOf(q)]
    BY <1>1, StandMoves
  <2> QED
    BY <1>2, <2>1
<1>4. Stand(players)[s] = StandingOf(players[s]) /\ StandingOf(players[s]) # "empty"
  BY <1>1, <1>2, StandingIs DEF Stand
<1>5. StandingOf(q) \in {StandingOf(players[s]), "out", "waiting"}
  BY <1>2 DEF StandingOf
<1>6. StandingOf(q) \in Shell!Standings
  BY <1>1, <1>5, StandingIs DEF Shell!Standings
<1>7. Shell!StandScript(s, StandingOf(q))
  BY <1>2, <1>3, <1>4, <1>5 DEF Shell!StandScript, Stand
<1> QED
  BY <1>6, <1>7

\* Sitting out or in, adding chips, losing or regaining the connection and asking to
\* leave at the big blind are such requests.
LEMMA RequestStands ==
    ASSUME TypeOK, NEW s \in Seats,
           \/ ToggleSitOut(s)
           \/ \E amount \in Deposits : AddChips(s, amount) \/ AddChipsVault(s, amount)
           \/ SetOffline(s) \/ SetOnline(s) \/ ToggleLnbb(s)
    PROVE  Stood(s)
<1> DEFINE p == players[s]
<1>1. p \in Player /\ players \in [Seats -> Player]
  BY DEF TypeOK
<1>2. CASE ToggleSitOut(s)
  <2>1. CASE p.status \in Playing /\ players' = [players EXCEPT ![s].sitOutNextHand = ~@]
    <3>1. players' = [players EXCEPT ![s] = [p EXCEPT !.sitOutNextHand = ~@]]
      BY <2>1
    <3>2. [p EXCEPT !.sitOutNextHand = ~@].status = p.status
      BY <1>1 DEF Player
    <3> QED
      BY <1>2, <2>1, <3>1, <3>2 DEF ToggleSitOut, Stood, Playing
  <2>2. CASE /\ p.status \in Playing \cup {"waiting"}
             /\ players' = [players EXCEPT ![s] =
                   [p EXCEPT !.status = "sitting_out", !.sitOutNextHand = FALSE]]
    <3>1. [p EXCEPT !.status = "sitting_out", !.sitOutNextHand = FALSE].status = "sitting_out"
      BY <1>1 DEF Player
    <3> QED
      BY <1>2, <2>2, <3>1 DEF ToggleSitOut, Stood, Playing
  <2>3. CASE /\ p.status = "sitting_out"
             /\ players' = [players EXCEPT ![s] =
                   [p EXCEPT !.status = "waiting", !.sitOutNextHand = FALSE]]
    <3>1. [p EXCEPT !.status = "waiting", !.sitOutNextHand = FALSE].status = "waiting"
      BY <1>1 DEF Player
    <3> QED
      BY <1>2, <2>3, <3>1 DEF ToggleSitOut, Stood
  <2> QED
    BY <1>2, <2>1, <2>2, <2>3 DEF ToggleSitOut
<1>3. ASSUME NEW amount, AddChips(s, amount)
      PROVE  Stood(s)
  <2> DEFINE q == [p EXCEPT !.chips = @ + amount, !.status = "waiting"]
  <2>1. q.status = "waiting"
    BY <1>1 DEF Player
  <2>2. players' = [players EXCEPT ![s] = q] /\ p.status \in {"sitting_out", "waiting"}
        /\ UNCHANGED table
    BY <1>3 DEF AddChips
  <2> HIDE DEF q
  <2> QED
    BY <2>1, <2>2 DEF Stood
<1>4. ASSUME NEW amount, AddChipsVault(s, amount)
      PROVE  Stood(s)
  <2> DEFINE q == IF table.phase # "waiting" /\ p.status \in Playing
                    THEN [p EXCEPT !.pendingTopUp = @ + amount]
                    ELSE [p EXCEPT !.chips = @ + amount,
                                   !.status = IF p.chips = 0 THEN "waiting" ELSE @]
  <2>1. q.status \in {p.status, "waiting"}
    BY <1>1 DEF Player
  <2>2. players' = [players EXCEPT ![s] = q] /\ p.status # "empty" /\ UNCHANGED table
    BY <1>4 DEF AddChipsVault, Seated
  <2> HIDE DEF q
  <2> QED
    BY <2>1, <2>2 DEF Stood
<1>5. CASE SetOffline(s)
  <2> DEFINE q == [p EXCEPT !.offline = TRUE]
  <2>1. q.status = p.status
    BY <1>1 DEF Player
  <2>2. players' = [players EXCEPT ![s] = q] /\ p.status # "empty" /\ UNCHANGED table
    BY <1>5 DEF SetOffline, Seated
  <2> HIDE DEF q
  <2> QED
    BY <2>1, <2>2 DEF Stood
<1>6. CASE SetOnline(s)
  <2> DEFINE q == [p EXCEPT !.offline = FALSE,
                            !.status = IF @ = "sitting_out" THEN "waiting" ELSE @]
  <2>1. q.status \in {p.status, "waiting"}
    BY <1>1 DEF Player
  <2>2. players' = [players EXCEPT ![s] = q] /\ p.status # "empty" /\ UNCHANGED table
    BY <1>6 DEF SetOnline, Seated
  <2> HIDE DEF q
  <2> QED
    BY <2>1, <2>2 DEF Stood
<1>7. CASE ToggleLnbb(s)
  <2> DEFINE q == [p EXCEPT !.leaveNextBB = ~@]
  <2>1. q.status = p.status
    BY <1>1 DEF Player
  <2>2. players' = [players EXCEPT ![s] = q] /\ p.status # "empty" /\ UNCHANGED table
    BY <1>7 DEF ToggleLnbb, Seated
  <2> HIDE DEF q
  <2> QED
    BY <2>1, <2>2 DEF Stood
<1> QED
  BY <1>2, <1>3, <1>4, <1>5, <1>6, <1>7

\* Taking a seat, as the shell sees it (join_table.lua).
LEMMA JoinShell ==
    ASSUME TypeOK, NEW s \in Seats, NEW buyIn, Join(s, buyIn)
    PROVE  /\ \E starts \in BOOLEAN : Shell!JoinScript(s, starts)
           /\ \A r \in Seats : Alike(players[r], players'[r]) \/ players'[r].status # "empty"
<1> DEFINE new == [Vacant EXCEPT !.status = "waiting", !.chips = buyIn, !.timeBank = TimeBank]
           seated == [players EXCEPT ![s] = new]
           starts == /\ table.phase = "waiting"
                     /\ Cardinality({r \in Seats : Playable(seated[r])}) >= 2
<1>1. players \in [Seats -> Player]
  BY DEF TypeOK
<1>2. starts \in BOOLEAN
  OBVIOUS
<1>3. /\ players' = [r \in Seats |->
             IF starts /\ seated[r].status = "waiting"
               THEN [seated[r] EXCEPT !.status = "active"] ELSE seated[r]]
      /\ players[s].status = "empty" /\ UNCHANGED table
  BY DEF Join, Seated
<1>4. new.status = "waiting" /\ [new EXCEPT !.status = "active"].status = "active"
  BY DEF Vacant
<1> HIDE DEF new, starts
<1>5. ASSUME NEW r \in Seats
      PROVE  /\ players'[r].status = IF starts /\ seated[r].status = "waiting"
                                       THEN "active" ELSE seated[r].status
             /\ seated[r].status = IF r = s THEN "waiting" ELSE players[r].status
             /\ Alike(players[r], players'[r]) \/ players'[r].status # "empty"
  <2>1. CASE r = s
    BY <1>1, <1>3, <1>4, <2>1
  <2>2. CASE r # s
    <3>1. seated[r] = players[r] /\ players[r] \in Player
      BY <1>1, <2>2
    <3>2. [players[r] EXCEPT !.status = "active"].status = "active"
      BY <3>1 DEF Player
    <3> HIDE DEF seated
    <3> QED
      BY <1>3, <2>2, <3>1, <3>2 DEF Alike
  <2> QED
    BY <2>1, <2>2
<1>6. ASSUME NEW r \in Seats
      PROVE  Stand(players')[r] =
               (IF starts /\ [Stand(players) EXCEPT ![s] = "waiting"][r] = "waiting"
                  THEN "active" ELSE [Stand(players) EXCEPT ![s] = "waiting"][r])
  <2> HIDE DEF seated
  <2>1. players[r] \in Player
    BY <1>1
  <2> QED
    BY <1>5, <2>1, StandingIs DEF Stand, StandingOf
<1>7. Stand(players)[s] = "empty"
  BY <1>1, <1>3 DEF Stand, StandingOf
<1>8. Stand(players') = [r \in Seats |->
          IF starts /\ [Stand(players) EXCEPT ![s] = "waiting"][r] = "waiting"
            THEN "active" ELSE [Stand(players) EXCEPT ![s] = "waiting"][r]]
  <2> DEFINE f == [r \in Seats |->
                IF starts /\ [Stand(players) EXCEPT ![s] = "waiting"][r] = "waiting"
                  THEN "active" ELSE [Stand(players) EXCEPT ![s] = "waiting"][r]]
  <2>1. Stand(players') = [r \in Seats |-> Stand(players')[r]]
    BY DEF Stand
  <2> QED
    BY <1>6, <2>1
<1>9. Shell!JoinScript(s, starts)
  BY <1>3, <1>7, <1>8 DEF Shell!JoinScript, Stand
<1> QED
  BY <1>2, <1>5, <1>9

\* Leaving one, as the shell sees it (leave_table.lua).
LEMMA LeaveShell ==
    ASSUME TypeOK, NEW s \in Seats, Leave(s)
    PROVE  /\ Shell!LeaveScript(s)
           /\ \A r \in Seats : \/ Alike(players[r], players'[r])
                               \/ players'[r].status # "empty"
                               \/ players'[r] = Vacant
<1> DEFINE left == [players EXCEPT ![s] = Vacant]
           alone == Cardinality(Seated(left)) = 1
           st == [Stand(players) EXCEPT ![s] = "empty"]
<1>1. players \in [Seats -> Player] /\ table \in Table /\ left \in [Seats -> Player]
  BY VacantType DEF TypeOK
<1>2. /\ players[s].status # "empty"
      /\ players' = [r \in Seats |->
             IF alone /\ r \in Seated(left)
               THEN [left[r] EXCEPT !.chips = @ + Larger(0, table.pot),
                                    !.status = "waiting", !.cards = FALSE]
               ELSE left[r]]
      /\ table' = IF alone
                    THEN [table EXCEPT !.pot = 0, !.phase = "waiting",
                                       !.turnSeat = NoSeat, !.currentBet = 0]
                    ELSE table
  BY DEF Leave, Seated
<1>3. Stand(left) = st
  <2>1. StandingOf(Vacant) = "empty"
    BY DEF StandingOf, Vacant
  <2>2. Stand([players EXCEPT ![s] = Vacant]) = [Stand(players) EXCEPT ![s] = StandingOf(Vacant)]
    BY <1>1, StandMoves
  <2> QED
    BY <2>1, <2>2
<1>4. left[s] = Vacant /\ \A r \in Seats \ {s} : left[r] = players[r]
  BY <1>1
<1> HIDE DEF left
<1>5. Shell!Standing(st, Shell!Standings \ {"empty"}) = Seated(left)
  BY <1>1, <1>3, SameSets
<1>6. \A r \in Seats : r \in Seated(left) <=> st[r] # "empty"
  BY <1>1, <1>3, StandingIs DEF Stand, Seated
<1> DEFINE rest(r) == [left[r] EXCEPT !.chips = @ + Larger(0, table.pot),
                                      !.status = "waiting", !.cards = FALSE]
<1>7. \A r \in Seats : rest(r).status = "waiting"
  BY <1>1 DEF Player
<1>8. \A r \in Seats : players'[r] = IF alone /\ r \in Seated(left) THEN rest(r) ELSE left[r]
  BY <1>2
<1> HIDE DEF rest, alone
<1>9. Stand(players') = [r \in Seats |-> IF alone /\ st[r] # "empty" THEN "waiting" ELSE st[r]]
  <2>1. ASSUME NEW r \in Seats
        PROVE  StandingOf(players'[r]) = IF alone /\ st[r] # "empty" THEN "waiting" ELSE st[r]
    <3>1. CASE alone /\ r \in Seated(left)
      <4>1. StandingOf(rest(r)) = "waiting"
        BY <1>7 DEF StandingOf
      <4> QED
        BY <1>6, <1>8, <3>1, <4>1
    <3>2. CASE ~(alone /\ r \in Seated(left))
      <4>1. StandingOf(left[r]) = st[r]
        BY <1>3 DEF Stand
      <4> QED
        BY <1>6, <1>8, <3>2, <4>1
    <3> QED
      BY <3>1, <3>2
  <2> HIDE DEF st
  <2> QED
    BY <2>1 DEF Stand
<1>10. Stand(players)[s] # "empty"
  BY <1>1, <1>2, StandingIs DEF Stand
<1>11. /\ table'.handNumber = table.handNumber
       /\ IF alone
            THEN table'.phase = "waiting" /\ table'.turnSeat = NoSeat /\ table'.pot = 0
            ELSE table' = table
  BY <1>1, <1>2 DEF alone, Table
<1>12. alone <=> Cardinality(Shell!Standing(st, Shell!Standings \ {"empty"})) = 1
  BY <1>5 DEF alone
<1>13. Shell!LeaveScript(s)
  <2>1. (0 > 0) = FALSE
    OBVIOUS
  <2>2. Shell!NoSeat = NoSeat
    BY SameSearch
  <2> HIDE DEF st
  <2>3. /\ Stand(players)[s] # "empty"
        /\ Stand(players') = [r \in Seats |-> IF alone /\ st[r] # "empty" THEN "waiting" ELSE st[r]]
        /\ IF alone
             THEN table'.phase = "waiting" /\ table'.turnSeat = NoSeat /\ (table'.pot > 0) = FALSE
             ELSE UNCHANGED table
    BY <1>9, <1>10, <1>11, <2>1
  <2> QED
    BY <1>11, <1>12, <2>2, <2>3, SameSize DEF Shell!LeaveScript, Stand, st
<1>14. ASSUME NEW r \in Seats
       PROVE  \/ Alike(players[r], players'[r])
              \/ players'[r].status # "empty"
              \/ players'[r] = Vacant
  BY <1>4, <1>7, <1>8 DEF Alike
<1> QED
  BY <1>13, <1>14

\* The hard reset at boot, as the shell sees it (force_cleanup.lua).
LEMMA ForceCleanupShell ==
    ASSUME TypeOK, ForceCleanup
    PROVE  Shell!CleanupScript
<1>1. StandingOf(Vacant) = "empty"
  BY DEF StandingOf, Vacant
<1>2. Stand(players') = [s \in Seats |-> "empty"]
  BY <1>1 DEF Stand, ForceCleanup
<1>3. /\ table'.phase = "waiting" /\ table'.turnSeat = NoSeat
      /\ table'.pot = 0 /\ table'.handNumber = 0
  BY DEF ForceCleanup, TypeOK, Table
<1>4. (table'.pot > 0) = FALSE
  BY <1>3
<1> QED
  BY <1>2, <1>3, <1>4, SameSearch DEF Shell!CleanupScript, Stand

(***************************************************************************)
(* The invariant.                                                          *)
(***************************************************************************)
StaysNeat ==
    \A s \in Seats : \/ Alike(players[s], players'[s])
                     \/ players'[s].status # "empty"
                     \/ players'[s] = Vacant

\* What follows a move leaves the wishes alone.
LEMMA OutcomeAlike ==
    ASSUME NEW ps \in [Seats -> Player], NEW t \in Table, NEW turn, NEW still, NEW refund,
           HandWon(ps, t, still) \/ RoundOver(ps, t, turn, refund) \/ PlayOn(ps, t, turn)
    PROVE  \A s \in Seats : Alike(ps[s], players'[s])
<1>1. CASE HandWon(ps, t, still)
  BY <1>1 DEF HandWon, Alike, Player
<1>2. CASE RoundOver(ps, t, turn, refund)
  BY <1>2 DEF RoundOver, Refunded, Alike, Player
<1>3. CASE PlayOn(ps, t, turn)
  BY <1>3 DEF PlayOn, Alike
<1> QED
  BY <1>1, <1>2, <1>3

\* A move stores a record that is not empty, whoever moves.
LEMMA MoveNeat ==
    ASSUME TypeOK, NEW s \in Seats, Bet(s) \/ Timeout(s)
    PROVE  StaysNeat
<1>1. players \in [Seats -> Player] /\ table \in Table
  BY DEF TypeOK
<1>2. ASSUME NEW q \in Player, q.status # "empty",
             NEW ps, ps = [players EXCEPT ![s] = q],
             NEW t \in Table, NEW turn, NEW still, NEW refund,
             HandWon(ps, t, still) \/ RoundOver(ps, t, turn, refund) \/ PlayOn(ps, t, turn)
      PROVE  StaysNeat
  <2>1. ps \in [Seats -> Player] /\ ps[s] = q /\ \A r \in Seats \ {s} : ps[r] = players[r]
    BY <1>1, <1>2
  <2>2. \A r \in Seats : Alike(ps[r], players'[r])
    BY <1>2, <2>1, OutcomeAlike
  <2>3. players'[s].status # "empty"
    BY <1>2, <2>1, <2>2 DEF Alike
  <2> QED
    BY <2>1, <2>2, <2>3 DEF StaysNeat
<1>3. CASE Bet(s)
  <2>1. PICK p \in Player, t \in Table : AfterBet(s, p, t) /\ Answered(p, t)
    BY <1>3, BetMoves
  <2>2. PICK bank \in (IF p.usingBank THEN 0..p.timeBank ELSE {p.timeBank}) :
          LET ps == [players EXCEPT ![s] = [p EXCEPT !.timeBank = bank, !.usingBank = FALSE]]
              next == NextOf(Active(ps), s)
          IN  \/ HandWon(ps, t, t.turnSeat)
              \/ RoundOver(ps, t, next, [r \in Seats |-> Uncalled(ps, r)])
              \/ PlayOn(ps, t, next)
    BY <2>1 DEF AfterBet
  <2> DEFINE q == [[p EXCEPT !.timeBank = bank] EXCEPT !.usingBank = FALSE]
             ps == [players EXCEPT ![s] = q]
  <2>3. q \in Player /\ q.status = p.status
    <3>1. bank \in Nat
      BY PlayerFields
    <3>2. q \in Player
      BY <3>1, PlayerUpdates, Zenon
    <3> QED
      BY <3>2 DEF Player
  <2>4. \/ HandWon(ps, t, t.turnSeat)
        \/ RoundOver(ps, t, NextOf(Active(ps), s), [r \in Seats |-> Uncalled(ps, r)])
        \/ PlayOn(ps, t, NextOf(Active(ps), s))
    BY <2>2
  <2>5. q.status # "empty"
    BY <2>1, <2>3 DEF Answered
  <2>6. ps = [players EXCEPT ![s] = q]
    OBVIOUS
  <2> HIDE DEF q, ps
  <2> QED
    BY <1>2, <2>3, <2>4, <2>5, <2>6, Zenon
<1>4. CASE TimeoutExtend(s)
  <2>1. players[s].status # "empty"
    BY <1>4 DEF TimeoutExtend, TimesOut, Seated
  <2>2. \A r \in Seats : Alike(players[r], players'[r])
    BY <1>1, <1>4 DEF TimeoutExtend, Alike, Player
  <2> QED
    BY <2>2 DEF StaysNeat
<1>5. CASE TimeoutFold(s)
  <2> DEFINE q == [[[[players[s] EXCEPT !.status = "folded"] EXCEPT !.cards = FALSE]
                        EXCEPT !.usingBank = FALSE] EXCEPT !.benchAfterHand = TRUE]
             ps == [players EXCEPT ![s] = q]
             t == Acted(table, FALSE)
  <2>1. q \in Player /\ q.status = "folded"
    <3>1. "folded" \in Statuses /\ FALSE \in BOOLEAN /\ TRUE \in BOOLEAN
      BY Names
    <3>2. q \in Player
      BY <1>1, <3>1, PlayerUpdates, Zenon
    <3> QED
      BY <1>1, <3>2 DEF Player
  <2>2. \/ HandWon(ps, t, NoSeat)
        \/ RoundOver(ps, t, NoSeat, [r \in Seats |-> 0])
        \/ PlayOn(ps, t, NextOf(Active(ps), s))
    BY <1>1, <1>5 DEF TimeoutFold
  <2>3. q.status # "empty" /\ t \in Table /\ ps = [players EXCEPT ![s] = q]
    BY <1>1, <2>1, ActedType
  <2> HIDE DEF q, ps, t
  <2> QED
    BY <1>2, <2>1, <2>2, <2>3, Zenon
<1> QED
  BY <1>3, <1>4, <1>5 DEF Timeout

\* A showdown leaves the wishes of an empty seat alone.
LEMMA ShowdownNeat ==
    ASSUME TypeOK, NEW score, Showdown(score)
    PROVE  StaysNeat
<1>1. players \in [Seats -> Player]
  BY DEF TypeOK
<1>2. PICK won \in Payouts(Contributions(players), InHand(players), score, table.pot,
                          table.pot - Rake(table.pot)) :
        players' = [s \in Seats |-> Rested([players[s] EXCEPT !.chips = @ + won[s]])]
  BY DEF Showdown
<1>3. ASSUME NEW s \in Seats
      PROVE  Alike(players[s], players'[s]) \/ players'[s].status # "empty"
  <2> DEFINE p == [players[s] EXCEPT !.chips = @ + won[s]]
             rest == IF p.status \in {"empty", "sitting_out"} THEN p.status
                     ELSE IF p.chips > 0 THEN "waiting" ELSE "busted"
  <2>1. players[s] \in Player /\ players'[s] = Rested(p)
    BY <1>1, <1>2
  <2>2. Alike(players[s], p)
    BY <2>1 DEF Alike, Player
  <2>3. /\ Rested(p).status = rest
        /\ Rested(p).benchAfterHand = p.benchAfterHand
        /\ Rested(p).sitOutNextHand = p.sitOutNextHand
    BY <2>1 DEF Rested, Cleared, Player
  <2>4. rest = p.status \/ rest # "empty"
    OBVIOUS
  <2> HIDE DEF p, rest
  <2>5. CASE rest = p.status
    <3>1. Alike(p, Rested(p))
      BY <2>3, <2>5 DEF Alike
    <3>2. Alike(players[s], Rested(p))
      BY <2>2, <3>1, Zenon DEF Alike
    <3> QED
      BY <2>1, <3>2
  <2> QED
    BY <2>1, <2>3, <2>4, <2>5
<1> QED
  BY <1>3 DEF StaysNeat

\* Every step leaves the empty seats neat.
LEMMA NextNeat == ShellInv /\ [Next]_vars => StaysNeat
<1> SUFFICES ASSUME ShellInv, [Next]_vars PROVE StaysNeat
  OBVIOUS
<1>1. TypeOK /\ players \in [Seats -> Player]
  BY DEF ShellInv, TypeOK
<1>2. ASSUME NEW s \in Seats, Bet(s) \/ Timeout(s)
      PROVE  StaysNeat
  BY <1>1, <1>2, MoveNeat
<1>3. CASE NextStreet
  BY <1>1, <1>3 DEF NextStreet, StaysNeat, Alike, Player
<1>4. ASSUME NEW score, Showdown(score)
      PROVE  StaysNeat
  BY <1>1, <1>4, ShowdownNeat
<1>5. CASE NextHand
  <2>1. \A s \in Seats : MaySweep(players[s], players'[s])
    BY <1>5, NextHandShell
  <2> QED
    BY <2>1 DEF MaySweep, StaysNeat
<1>6. ASSUME NEW s \in Seats, NEW buyIn, Join(s, buyIn)
      PROVE  StaysNeat
  BY <1>1, <1>6, JoinShell DEF StaysNeat
<1>7. ASSUME NEW s \in Seats, Leave(s)
      PROVE  StaysNeat
  BY <1>1, <1>7, LeaveShell DEF StaysNeat
<1>8. ASSUME NEW s \in Seats, Stood(s)
      PROVE  StaysNeat
  <2>1. PICK q : players' = [players EXCEPT ![s] = q] /\ q.status # "empty"
    BY <1>8 DEF Stood
  <2> QED
    BY <1>1, <2>1 DEF StaysNeat, Alike
<1>9. CASE ForceCleanup
  BY <1>9 DEF ForceCleanup, StaysNeat
<1>10. CASE UNCHANGED vars
  BY <1>10 DEF vars, StaysNeat, Alike
<1>11. CASE HandNext
  BY <1>2, <1>3, <1>4, <1>5, <1>11 DEF HandNext
<1>12. CASE SeatNext
  BY <1>1, <1>6, <1>7, <1>8, <1>9, <1>12, RequestStands DEF SeatNext
<1> QED
  BY <1>10, <1>11, <1>12 DEF Next

LEMMA ShellInvariant == Spec => []ShellInv
<1>1. Init => ShellInv
  <2> SUFFICES ASSUME Init PROVE ShellInv
    OBVIOUS
  <2>1. TypeOK
    BY InitType
  <2>2. SeatsNeat
    BY DEF Init, SeatsNeat, Neat, Vacant
  <2> QED
    BY <2>1, <2>2 DEF ShellInv
<1>2. ShellInv /\ [Next]_vars => ShellInv'
  <2> SUFFICES ASSUME ShellInv, [Next]_vars PROVE ShellInv'
    OBVIOUS
  <2>1. TypeOK'
    BY NextType DEF ShellInv
  <2>2. StaysNeat
    BY NextNeat
  <2>3. ASSUME NEW s \in Seats
        PROVE  Neat(players'[s])
    <3>1. Neat(players[s])
      BY DEF ShellInv, SeatsNeat
    <3> QED
      BY <2>2, <3>1, NeatStays DEF StaysNeat
  <2> QED
    BY <2>1, <2>3 DEF ShellInv, SeatsNeat
<1> QED
  BY <1>1, <1>2, PTL DEF Spec

(***************************************************************************)
(* The refinement.                                                         *)
(***************************************************************************)

\* An idle table with nobody seated starts the shell.
LEMMA InitShell == Init => Shell!ShellInit
<1> SUFFICES ASSUME Init PROVE Shell!ShellInit
  OBVIOUS
<1>1. /\ table.phase = "waiting" /\ table.pot = 0
      /\ table.turnSeat = NoSeat /\ table.handNumber = 0
  BY DEF Init
<1>2. (table.pot > 0) = FALSE
  BY <1>1
<1>3. players \in [Seats -> Player]
  BY InitType DEF TypeOK
<1>4. Stand(players) \in [Seats -> Shell!Standings]
  BY <1>3, SameSets
<1> QED
  BY <1>1, <1>2, <1>4, SameSearch DEF Shell!ShellInit, Stand

\* Every script is a step of the shell, or one the shell does not see.
LEMMA NextShell == ShellInv /\ [Next]_vars => [Shell!ShellNext]_Shell!shell
<1> DEFINE Good == Shell!ShellNext \/ UNCHANGED Shell!shell
<1> SUFFICES ASSUME ShellInv, [Next]_vars PROVE Good
  OBVIOUS
<1>1. TypeOK
  BY DEF ShellInv
<1>2. ASSUME NEW s \in Seats, Bet(s)
      PROVE  Good
  BY <1>1, <1>2, BetShell DEF Shell!ShellNext
<1>3. ASSUME NEW s \in Seats, Timeout(s)
      PROVE  Good
  <2>1. "extended" \in Shell!Answers
    BY DEF Shell!Answers
  <2> QED
    BY <1>1, <1>3, <2>1, ExtendShell, TimeoutFoldShell DEF Timeout, Shell!ShellNext
<1>4. CASE NextStreet
  BY <1>1, <1>4, NextStreetShell DEF Shell!ShellNext
<1>5. ASSUME NEW score, Showdown(score)
      PROVE  Good
  BY <1>1, <1>5, ShowdownShell DEF Shell!ShellNext
<1>6. CASE NextHand
  <2>1. /\ \A s \in Seats : Stand(players')[s] \in {"active"} \cup Shell!Asides(s)
        /\ \E answer \in {"few", "dealt"} :
              Shell!NextHandScript(Shell!Acting(Stand(players')), Stand(players'), answer)
    BY <1>6, NextHandShell
  <2> QED
    BY <2>1 DEF Shell!ShellNext, Stand
<1>7. ASSUME NEW s \in Seats, NEW buyIn, Join(s, buyIn)
      PROVE  Good
  BY <1>1, <1>7, JoinShell DEF Shell!ShellNext
<1>8. ASSUME NEW s \in Seats, Leave(s)
      PROVE  Good
  BY <1>1, <1>8, LeaveShell DEF Shell!ShellNext
<1>9. ASSUME NEW s \in Seats, Stood(s)
      PROVE  Good
  BY <1>1, <1>9, StoodShell DEF Shell!ShellNext
<1>10. CASE ForceCleanup
  BY <1>1, <1>10, ForceCleanupShell DEF Shell!ShellNext
<1>11. CASE UNCHANGED vars
  <2>1. table' = table /\ players' = players
    BY <1>11 DEF vars
  <2> QED
    BY <2>1 DEF Shell!shell
<1> HIDE DEF Good
<1>12. CASE HandNext
  BY <1>2, <1>3, <1>4, <1>5, <1>6, <1>12 DEF HandNext
<1>13. CASE SeatNext
  BY <1>1, <1>7, <1>8, <1>9, <1>10, <1>13, RequestStands DEF SeatNext
<1> QED
  BY <1>11, <1>12, <1>13 DEF Next

\* The scripts change phase, turn, standings and the existence of a pot only the ways
\* TableShell allows, for any table: whoever reasons about the gateway may forget the
\* chips (bet.lua to force_cleanup.lua, and TableFlow's use of them).
THEOREM ScriptsImplementShell == Spec => ImplementsShell
<1>1. Init => Shell!ShellInit
  BY InitShell
<1>2. ShellInv /\ [Next]_vars => [Shell!ShellNext]_Shell!shell
  BY NextShell
<1> QED
  BY <1>1, <1>2, ShellInvariant, PTL DEF Spec, ImplementsShell, Shell!ShellSpec
=============================================================================

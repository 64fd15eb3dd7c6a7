---------------------------- MODULE TableEngine ----------------------------
(***************************************************************************)
(* One poker table as the Lua scripts of apps/api/src/game/lua keep it in  *)
(* Redis: the hash table:{id} (table), the hash table:{id}:players         *)
(* (players), the wallets behind the seats and the house's rake.  A script *)
(* runs atomically, so each is one action.                                 *)
(*                                                                         *)
(* The gateway reacts to what a script replies; reply is the reaction that *)
(* is due.  Here the gateway is prompt: it advances the street or judges   *)
(* the showdown before the next bet arrives.                               *)
(*                                                                         *)
(* Cards, names, clocks and the order of the deck are abstracted: a seat   *)
(* has hole cards or it has none, and the score of a hand is chosen.       *)
(***************************************************************************)
EXTENDS SidePots

CONSTANTS
    SmallBlind, BigBlind,
    MinBuyIn, MaxBuyIn,     \* the limits join_table.lua enforces
    TimeBank,               \* config timeBank: seconds, and the drip's cap
    AllInOrFold,            \* config variant = ALL_IN_OR_FOLD
    PotLimit,               \* config bettingLimit = POT_LIMIT
    WebClient,              \* bets and raises are those the web client offers
    Requests,               \* the seat requests clients make in this instance
    Scores,                 \* the values a hand may be worth at showdown
    Wallets,                \* what a user may hold before he joins
    Deposits,               \* the amounts clients add to their stacks
    MaxAmount,              \* bound: the largest raise-to amount
    MaxHands,               \* bound: hands dealt to this table
    MaxActed                \* bound: playersActedCount of a table without a hand

\* The table form (libs/shared/src/table.dto.ts) has the blinds in this order.
ASSUME StakesAssumption ==
    /\ SmallBlind \in Nat /\ BigBlind \in Nat \ {0} /\ SmallBlind <= BigBlind
    /\ MinBuyIn \in Nat \ {0} /\ MaxBuyIn \in Nat
    /\ TimeBank \in Nat

ASSUME RulesAssumption ==
    /\ AllInOrFold \in BOOLEAN /\ PotLimit \in BOOLEAN /\ WebClient \in BOOLEAN
    /\ Scores \subseteq Nat

ASSUME BoundsAssumption ==
    /\ Wallets \subseteq Nat /\ Deposits \subseteq Nat \ {0}
    /\ MaxAmount \in Nat /\ MaxHands \in Nat /\ MaxActed \in Nat

VARIABLES
    table,      \* the table's hash
    players,    \* the players' hash: one record per seat, Vacant where no field
    balance,    \* the wallet of the user who plays seat s
    house,      \* house:rake
    reply       \* what the last hand script left the gateway to do

vars == <<table, players, balance, house, reply>>

Streets == {"preflop", "flop", "turn", "river"}
Phases == Streets \cup {"waiting", "showdown"}
Statuses == {"empty", "waiting", "active", "folded", "all-in",
             "sitting_out", "busted", "leaving"}
Replies == {"idle", "play", "street", "runout", "showdown", "complete"}

Vacant == [status |-> "empty", chips |-> 0, currentBet |-> 0,
           totalContribution |-> 0, cards |-> FALSE, pendingTopUp |-> 0,
           timeBank |-> 0, usingBank |-> FALSE, benchAfterHand |-> FALSE,
           sitOutNextHand |-> FALSE, offline |-> FALSE, leaveNextBB |-> FALSE]

Player == [status : Statuses, chips : Int, currentBet : Int,
           totalContribution : Int, cards : BOOLEAN, pendingTopUp : Nat,
           timeBank : Nat, usingBank : BOOLEAN, benchAfterHand : BOOLEAN,
           sitOutNextHand : BOOLEAN, offline : BOOLEAN, leaveNextBB : BOOLEAN]

Table == [phase : Phases, pot : Int, currentBet : Int, lastRaiseSize : Int,
          turnSeat : Seats \cup {NoSeat}, dealerSeat : 0..9,
          playersActedCount : Nat, handNumber : Nat]

\* Every field keeps its type; what the values mean is left to the properties.
TypeOK ==
    /\ table \in Table
    /\ players \in [Seats -> Player]
    /\ balance \in [Seats -> Int]
    /\ house \in Int
    /\ reply \in Replies

(***************************************************************************)
(* The operators named Buggy... are slips one could make in the definition *)
(* that follows them.  Nothing uses them: a run in which one replaces that *)
(* definition shows that a property would notice.                          *)
(***************************************************************************)

(***************************************************************************)
(* Reading the players' hash.                                              *)
(***************************************************************************)
Seated(ps) == {s \in Seats : ps[s].status # "empty"}
Active(ps) == {s \in Seats : ps[s].status = "active"}
InHand(ps) == {s \in Seats : ps[s].status \in {"active", "all-in"}}

BuggyRoundClosed(ps, t) == t.playersActedCount >= Cardinality(Active(ps))

\* Financial and temporal: bets matched, and as many turns taken as players left.
RoundClosed(ps, t) ==
    /\ \A s \in Active(ps) : ps[s].currentBet >= t.currentBet
    /\ t.playersActedCount >= Cardinality(Active(ps))

\* The part of seat s's bet that nobody in the hand has matched.
Uncalled(ps, s) ==
    IF s \in InHand(ps)
      THEN Larger(0, ps[s].currentBet
                       - SeatMax([r \in Seats |-> IF r \in InHand(ps) \ {s}
                                                    THEN ps[r].currentBet ELSE 0]))
      ELSE 0

(***************************************************************************)
(* What follows an action: the hand is won, the round is over, or play     *)
(* goes on.  ps and t are the two hashes once the actor's move is in them. *)
(***************************************************************************)
HandWon(ps, t, turn) ==
    /\ Cardinality(InHand(ps)) = 1
    /\ players' = [s \in Seats |->
            IF s \in InHand(ps) THEN [ps[s] EXCEPT !.chips = @ + t.pot] ELSE ps[s]]
    /\ table' = [t EXCEPT !.pot = 0, !.phase = "showdown", !.turnSeat = turn]
    /\ reply' = "complete"

BuggyRefunded(p, back) ==
    [p EXCEPT !.currentBet = @ - back, !.totalContribution = Larger(0, @ - back)]

\* The part of his bet that nobody called goes back to the player.
Refunded(p, back) ==
    [p EXCEPT !.chips = @ + back, !.currentBet = @ - back,
              !.totalContribution = IF back > 0 THEN Larger(0, @ - back) ELSE @]

\* bet.lua hands the uncalled part of the largest bet back; timeout.lua does not.
RoundOver(ps, t, turn, refund) ==
    /\ Cardinality(InHand(ps)) # 1
    /\ RoundClosed(ps, t)
    /\ players' = [s \in Seats |-> Refunded(ps[s], refund[s])]
    /\ table' = [t EXCEPT !.pot = @ - SeatSum(refund), !.turnSeat = turn]
    /\ reply' = "street"

PlayOn(ps, t, turn) ==
    /\ Cardinality(InHand(ps)) # 1
    /\ ~RoundClosed(ps, t)
    /\ players' = ps
    /\ table' = [t EXCEPT !.turnSeat = turn]
    /\ reply' = "play"

(***************************************************************************)
(* bet.lua.  A street or showdown that is due comes first (the prompt      *)
(* gateway); otherwise the script looks at the turn and the status alone,  *)
(* and takes and counts bets when no hand is played, too.                  *)
(***************************************************************************)
MayBet(s) ==
    /\ reply \notin {"street", "showdown"}
    /\ reply \in {"idle", "complete"} => table.playersActedCount < MaxActed
    /\ table.turnSeat = s
    /\ players[s].status = "active"

ToCall(s) == table.currentBet - players[s].currentBet

Acted(t, aggressive) ==
    [t EXCEPT !.playersActedCount = IF aggressive THEN 1 ELSE @ + 1]

BuggyPut(p, chips, status) ==
    [p EXCEPT !.chips = @ - chips, !.currentBet = @ + chips, !.status = status]

\* Seat s moves chips into the pot; all of them makes it all-in when told so.
Put(p, chips, status) ==
    [p EXCEPT !.chips = @ - chips, !.currentBet = @ + chips,
              !.totalContribution = @ + chips, !.status = status]

\* The player's record p and the table t are as the move left them; the time
\* bank is billed for the seconds the move took, and the script looks who is next.
AfterBet(s, p, t) ==
    \E bank \in (IF p.usingBank THEN 0..p.timeBank ELSE {p.timeBank}) :
        LET ps == [players EXCEPT ![s] = [p EXCEPT !.timeBank = bank, !.usingBank = FALSE]]
            next == NextOf(Active(ps), s)
        IN  /\ \/ HandWon(ps, t, t.turnSeat)
               \/ RoundOver(ps, t, next, [r \in Seats |-> Uncalled(ps, r)])
               \/ PlayOn(ps, t, next)
            /\ UNCHANGED <<balance, house>>

Fold(s) ==
    /\ MayBet(s)
    /\ AfterBet(s, [players[s] EXCEPT !.status = "folded", !.cards = FALSE],
                Acted(table, FALSE))

Check(s) ==
    /\ MayBet(s)
    /\ ~AllInOrFold
    /\ ToCall(s) <= 0
    /\ AfterBet(s, players[s], Acted(table, FALSE))

BuggyCalled(s) == ToCall(s)

Called(s) == Smaller(ToCall(s), players[s].chips)

Call(s) ==
    LET chips == Called(s)
    IN  /\ MayBet(s)
        /\ ~AllInOrFold
        /\ WebClient => ToCall(s) > 0
        /\ AfterBet(s, Put(players[s], chips,
                           IF players[s].chips = chips THEN "all-in" ELSE "active"),
                    [Acted(table, FALSE) EXCEPT !.pot = @ + chips])

AllIn(s) ==
    LET p == Put(players[s], players[s].chips, "all-in")
        raises == p.currentBet > table.currentBet
    IN  /\ MayBet(s)
        /\ AfterBet(s, p,
              [Acted(table, raises) EXCEPT
                  !.pot = @ + players[s].chips,
                  !.currentBet = IF raises THEN p.currentBet ELSE @,
                  !.lastRaiseSize = IF raises THEN p.currentBet - table.currentBet ELSE @])

(***************************************************************************)
(* A raise to amount.  The script takes an amount of at least the player's *)
(* chips as all-in whatever it is, so such a raise may even lower the bet. *)
(***************************************************************************)
Capped(s, amount) ==
    LET p == players[s]
    IN  IF PotLimit
          THEN Smaller(amount, Smaller(table.pot + 2 * ToCall(s) + p.currentBet,
                                       p.chips + p.currentBet))
          ELSE amount

\* What the web client's slider and presets send; "all-in" covers the rest.
Offered(s, amount) ==
    /\ amount >= table.currentBet + table.lastRaiseSize
    /\ amount < players[s].chips

Raise(s, amount) ==
    LET p == players[s]
        chips == IF Capped(s, amount) >= p.chips THEN p.chips
                                                 ELSE Capped(s, amount) - p.currentBet
        bet == p.currentBet + chips
        raised == Put(p, chips, IF p.chips = chips THEN "all-in" ELSE "active")
        \* saving the billed time bank writes the record back without the raise
        recorded == IF p.usingBank THEN p.totalContribution ELSE raised.totalContribution
    IN  /\ MayBet(s)
        /\ WebClient => Offered(s, amount)
        /\ AllInOrFold => amount >= p.chips + p.currentBet
        /\ amount >= table.currentBet + table.lastRaiseSize \/ amount >= p.chips
        /\ AfterBet(s, [raised EXCEPT !.totalContribution = recorded],
              [Acted(table, TRUE) EXCEPT
                  !.pot = @ + chips,
                  !.currentBet = bet,
                  !.lastRaiseSize = IF bet > table.currentBet THEN bet - table.currentBet ELSE @])

Bet(s) ==
    \/ Fold(s)
    \/ Check(s)
    \/ Call(s)
    \/ AllIn(s)
    \/ \E amount \in 0..MaxAmount : Raise(s, amount)

(***************************************************************************)
(* timeout.lua.  The turn timer runs while a player is to act.  First the  *)
(* time bank is opened; then the player is folded and benched, whatever    *)
(* status the record at that seat has.                                     *)
(***************************************************************************)
BuggyTimesOut(s) ==
    reply = "play" /\ table.turnSeat = s /\ table.playersActedCount > 0

TimesOut(s) ==
    /\ reply = "play"
    /\ table.turnSeat = s
    /\ s \in Seated(players)

OpensBank(s) == players[s].timeBank > 0 /\ ~players[s].usingBank

TimeoutExtend(s) ==
    /\ TimesOut(s)
    /\ OpensBank(s)
    /\ players' = [players EXCEPT ![s].usingBank = TRUE]
    /\ UNCHANGED <<table, balance, house, reply>>

TimeoutFold(s) ==
    LET ps == [players EXCEPT ![s] = [@ EXCEPT !.status = "folded", !.cards = FALSE,
                                               !.usingBank = FALSE, !.benchAfterHand = TRUE]]
        t == Acted(table, FALSE)
    IN  /\ TimesOut(s)
        /\ ~OpensBank(s)
        /\ \/ HandWon(ps, t, NoSeat)
           \/ RoundOver(ps, t, NoSeat, [r \in Seats |-> 0])
           \/ PlayOn(ps, t, NextOf(Active(ps), s))
        /\ UNCHANGED <<balance, house>>

Timeout(s) == TimeoutExtend(s) \/ TimeoutFold(s)

(***************************************************************************)
(* next_street.lua.                                                        *)
(***************************************************************************)
StreetAfter == [preflop |-> "flop", flop |-> "turn", turn |-> "river", river |-> "showdown"]

BuggyRunsOut(ps) == Cardinality(Active(ps)) = 1 /\ InHand(ps) # Active(ps)

\* Nobody can bet against anybody: the board is run out on the gateway's timer.
RunsOut(ps) ==
    \/ Active(ps) = {}
    \/ Cardinality(Active(ps)) = 1 /\ InHand(ps) # Active(ps)

NextStreet ==
    /\ reply \in {"street", "runout"}
    /\ table.phase \in Streets
    /\ players' = [s \in Seats |-> [players[s] EXCEPT !.currentBet = 0]]
    /\ table' = [table EXCEPT !.phase = StreetAfter[table.phase],
                              !.currentBet = 0,
                              !.lastRaiseSize = BigBlind,
                              !.playersActedCount = 0,
                              !.turnSeat = NextOf(Active(players), table.dealerSeat)]
    /\ reply' = IF table.phase = "river" THEN "showdown"
                ELSE IF RunsOut(players) THEN "runout" ELSE "play"
    /\ UNCHANGED <<balance, house>>

(***************************************************************************)
(* showdown.lua, with the scores the gateway evaluated for it.             *)
(***************************************************************************)
Contributions(ps) == [s \in Seats |-> ps[s].totalContribution]

BuggyCleared(p) == [p EXCEPT !.totalContribution = 0, !.cards = FALSE]

Cleared(p) == [p EXCEPT !.currentBet = 0, !.totalContribution = 0, !.cards = FALSE]

\* A showdown brings back who is on a break.
BuggyRested(p) ==
    [Cleared(p) EXCEPT !.status = IF @ = "empty" THEN @
                                  ELSE IF p.chips > 0 THEN "waiting" ELSE "busted"]

\* Every occupied seat goes back to waiting or busted; a break is kept.
Rested(p) ==
    [Cleared(p) EXCEPT !.status = IF @ \in {"empty", "sitting_out"} THEN @
                                  ELSE IF p.chips > 0 THEN "waiting" ELSE "busted"]

Showdown(score) ==
    LET net == table.pot - Rake(table.pot)
    IN  /\ reply = "showdown"
        /\ table.phase = "showdown"
        /\ InHand(players) # {}
        /\ \E won \in Payouts(Contributions(players), InHand(players), score, table.pot, net) :
              players' = [s \in Seats |-> Rested([players[s] EXCEPT !.chips = @ + won[s]])]
        /\ house' = house + Rake(table.pot)
        /\ table' = [table EXCEPT !.pot = 0, !.phase = "waiting"]
        /\ reply' = "complete"
        /\ UNCHANGED balance

(***************************************************************************)
(* next_hand.lua.                                                          *)
(***************************************************************************)
Playing == {"active", "folded", "all-in"}

BuggyToppedUp(p) == [p EXCEPT !.chips = @ + p.pendingTopUp]

ToppedUp(p) == [p EXCEPT !.chips = @ + p.pendingTopUp, !.pendingTopUp = 0]

BuggySatOut(p) == Cleared(p)
BuggyBench(p) == [p EXCEPT !.status = "sitting_out"]
BuggyStatus(p) == [Cleared(p) EXCEPT !.status = "sit_out"]

SatOut(p) == [Cleared(p) EXCEPT !.status = "sitting_out"]

Ghosted(p) == IF p.status = "active" /\ p.chips <= 0 THEN SatOut(p) ELSE p

\* The promotion pass: breaks, benched, offline and leaving players first.  A
\* folded or all-in player without chips is left exactly as he was.
Promoted(p) ==
    IF p.status = "sitting_out" THEN Cleared(p)
    ELSE IF p.benchAfterHand THEN [SatOut(p) EXCEPT !.benchAfterHand = FALSE]
    ELSE IF p.offline THEN IF p.status \in Playing THEN Cleared(p) ELSE p
    ELSE IF p.sitOutNextHand THEN [SatOut(p) EXCEPT !.sitOutNextHand = FALSE]
    ELSE IF p.status = "waiting" \/ (p.status \in Playing /\ p.chips > 0)
      THEN [Cleared(p) EXCEPT !.status = "active", !.timeBank = Smaller(@ + 2, TimeBank)]
    ELSE p

Swept == [s \in Seats |-> Promoted(Ghosted(ToppedUp(players[s])))]

Button(ps) == NextOf(Active(ps), table.dealerSeat)

\* Heads-up the dealer posts the small blind.
SmallBlindSeat(ps, button) ==
    IF Cardinality(Active(ps)) = 2 THEN button ELSE NextOf(Active(ps), button)

BigBlindSeat(ps, button) == NextOf(Active(ps), SmallBlindSeat(ps, button))

\* The player due to post the big blind who asked to leave instead is marked.
Kicked(ps) ==
    LET bb == BigBlindSeat(ps, Button(ps))
    IN  IF ps[bb].leaveNextBB
          THEN [ps EXCEPT ![bb] = [Cleared(@) EXCEPT !.status = "leaving", !.leaveNextBB = FALSE]]
          ELSE ps

Blind(p, blind) == Smaller(p.chips, blind)

\* A short blind posts what he has, and stays active with no chips.
Posted(p, blind) ==
    [p EXCEPT !.chips = @ - Blind(p, blind), !.currentBet = Blind(p, blind),
              !.totalContribution = Blind(p, blind)]

Dealt(p) == [p EXCEPT !.cards = (p.status = "active") \/ @]

MayStartHand ==
    /\ \/ table.phase = "waiting"
       \/ table.phase = "showdown" /\ (reply = "complete" \/ InHand(players) = {})
    /\ table.handNumber < MaxHands

\* Too few players: the sweep is kept, and the button if it had moved already.
TooFewToDeal ==
    LET ps == Swept
    IN  /\ MayStartHand
        /\ \/ /\ Cardinality(Active(ps)) < 2
              /\ players' = ps
              /\ table' = [table EXCEPT !.phase = "waiting"]
           \/ /\ Cardinality(Active(ps)) >= 2
              /\ Cardinality(Active(Kicked(ps))) < 2
              /\ players' = Kicked(ps)
              /\ table' = [table EXCEPT !.phase = "waiting", !.dealerSeat = Button(ps)]
        /\ reply' = "idle"
        /\ UNCHANGED <<balance, house>>

Deal ==
    LET ps == Kicked(Swept)
        button == Button(Swept)
        sb == SmallBlindSeat(ps, button)
        bb == BigBlindSeat(ps, button)
    IN  /\ MayStartHand
        /\ Cardinality(Active(Swept)) >= 2
        /\ Cardinality(Active(ps)) >= 2
        /\ players' = [s \in Seats |->
              Dealt(IF s = bb THEN Posted(ps[s], BigBlind)
                    ELSE IF s = sb THEN Posted(ps[s], SmallBlind) ELSE ps[s])]
        /\ table' = [phase |-> "preflop",
                     pot |-> Blind(ps[sb], SmallBlind) + Blind(ps[bb], BigBlind),
                     currentBet |-> BigBlind,
                     lastRaiseSize |-> BigBlind,
                     turnSeat |-> NextOf(Active(ps), bb),
                     dealerSeat |-> button,
                     playersActedCount |-> 0,
                     handNumber |-> table.handNumber + 1]
        /\ reply' = "play"
        /\ UNCHANGED <<balance, house>>

NextHand == TooFewToDeal \/ Deal

(***************************************************************************)
(* The seat scripts.  None of them runs a hand; what the gateway owes the  *)
(* table stays owed.                                                       *)
(***************************************************************************)
Playable(p) == p.status \notin {"empty", "sitting_out"}

\* join_table.lua.  The user of seat s takes it with buyIn from his wallet;
\* the second player who is ready makes everyone who waits active at once.
Join(s, buyIn) ==
    LET seated == [players EXCEPT ![s] = [Vacant EXCEPT
                      !.status = "waiting", !.chips = buyIn, !.timeBank = TimeBank]]
        starts == /\ table.phase = "waiting"
                  /\ Cardinality({r \in Seats : Playable(seated[r])}) >= 2
    IN  /\ "join" \in Requests
        /\ s \notin Seated(players)
        /\ balance[s] >= buyIn
        /\ buyIn \in MinBuyIn..MaxBuyIn
        /\ balance' = [balance EXCEPT ![s] = @ - buyIn]
        /\ players' = [r \in Seats |->
              IF starts /\ seated[r].status = "waiting"
                THEN [seated[r] EXCEPT !.status = "active"] ELSE seated[r]]
        /\ UNCHANGED <<table, house, reply>>

\* leave_table.lua: the stack goes back to the wallet and the seat is vacated, in
\* the middle of a hand too.  The last player left gets the pot of a hand.
Leave(s) ==
    LET left == [players EXCEPT ![s] = Vacant]
        alone == Cardinality(Seated(left)) = 1
    IN  /\ "leave" \in Requests
        /\ s \in Seated(players)
        /\ balance' = [balance EXCEPT ![s] = @ + players[s].chips]
        /\ players' = [r \in Seats |->
              IF alone /\ r \in Seated(left)
                THEN [left[r] EXCEPT !.chips = @ + Larger(0, table.pot),
                                     !.status = "waiting", !.cards = FALSE]
                ELSE left[r]]
        /\ table' = IF alone
                      THEN [table EXCEPT !.pot = 0, !.phase = "waiting",
                                         !.turnSeat = NoSeat, !.currentBet = 0]
                      ELSE table
        /\ UNCHANGED <<house, reply>>

\* toggle_sit_out.lua: with cards in hand the break waits for the next hand.
ToggleSitOut(s) ==
    LET p == players[s]
    IN  /\ "toggle_sit_out" \in Requests
        /\ \/ /\ p.status \in Playing
              /\ p.cards
              /\ players' = [players EXCEPT ![s].sitOutNextHand = ~@]
           \/ /\ p.status = "waiting" \/ (p.status \in Playing /\ ~p.cards)
              /\ players' = [players EXCEPT ![s] =
                    [p EXCEPT !.status = "sitting_out", !.sitOutNextHand = FALSE]]
           \/ /\ p.status = "sitting_out"
              /\ players' = [players EXCEPT ![s] =
                    [p EXCEPT !.status = "waiting", !.sitOutNextHand = FALSE]]
        /\ UNCHANGED <<table, balance, house, reply>>

\* add_chips.lua: a rebuy from the wallet while sitting out or waiting.
AddChips(s, amount) ==
    /\ "add_chips" \in Requests
    /\ players[s].status \in {"sitting_out", "waiting"}
    /\ balance[s] >= amount
    /\ balance' = [balance EXCEPT ![s] = @ - amount]
    /\ players' = [players EXCEPT ![s] =
          [players[s] EXCEPT !.chips = @ + amount, !.status = "waiting"]]
    /\ UNCHANGED <<table, house, reply>>

\* add_chips_vault.lua: chips the gateway has already taken from the wallet.  In
\* a hand they are kept aside until the next one.
AddChipsVault(s, amount) ==
    LET p == players[s]
        aside == table.phase # "waiting" /\ p.status \in Playing
    IN  /\ "add_chips_vault" \in Requests
        /\ s \in Seated(players)
        /\ balance[s] >= amount
        /\ balance' = [balance EXCEPT ![s] = @ - amount]
        /\ players' = [players EXCEPT ![s] =
              IF aside THEN [p EXCEPT !.pendingTopUp = @ + amount]
              ELSE [p EXCEPT !.chips = @ + amount,
                             !.status = IF p.chips = 0 THEN "waiting" ELSE @]]
        /\ UNCHANGED <<table, house, reply>>

\* set_offline.lua, when the last socket of the player disconnects.
SetOffline(s) ==
    /\ "set_offline" \in Requests
    /\ s \in Seated(players)
    /\ ~players[s].offline
    /\ players' = [players EXCEPT ![s].offline = TRUE]
    /\ UNCHANGED <<table, balance, house, reply>>

\* set_online.lua: coming back also ends a break.
SetOnline(s) ==
    /\ "set_online" \in Requests
    /\ s \in Seated(players)
    /\ players[s].offline \/ players[s].status = "sitting_out"
    /\ players' = [players EXCEPT ![s] =
          [players[s] EXCEPT !.offline = FALSE,
                             !.status = IF @ = "sitting_out" THEN "waiting" ELSE @]]
    /\ UNCHANGED <<table, balance, house, reply>>

\* toggle_lnbb.lua: leave at the next big blind.
ToggleLnbb(s) ==
    /\ "toggle_lnbb" \in Requests
    /\ s \in Seated(players)
    /\ players' = [players EXCEPT ![s].leaveNextBB = ~@]
    /\ UNCHANGED <<table, balance, house, reply>>

\* force_cleanup.lua, at boot: stacks and bets of this street go back.
ForceCleanup ==
    /\ "force_cleanup" \in Requests
    /\ balance' = [s \in Seats |->
          balance[s] + Larger(0, players[s].chips + players[s].currentBet)]
    /\ players' = [s \in Seats |-> Vacant]
    /\ table' = [table EXCEPT !.phase = "waiting", !.pot = 0, !.currentBet = 0,
                              !.turnSeat = NoSeat, !.handNumber = 0]
    /\ reply' = "idle"
    /\ UNCHANGED house

(***************************************************************************)
(* The specification.                                                      *)
(***************************************************************************)
HandNext ==
    \/ \E s \in Seats : Bet(s) \/ Timeout(s)
    \/ NextStreet
    \/ \E score \in [InHand(players) -> Scores] : Showdown(score)
    \/ NextHand

SeatNext ==
    \/ \E s \in Seats :
          \/ \E buyIn \in MinBuyIn..MaxBuyIn : Join(s, buyIn)
          \/ Leave(s)
          \/ ToggleSitOut(s)
          \/ \E amount \in Deposits : AddChips(s, amount) \/ AddChipsVault(s, amount)
          \/ SetOffline(s)
          \/ SetOnline(s)
          \/ ToggleLnbb(s)
    \/ ForceCleanup

Next == HandNext \/ SeatNext

\* A table as initializeTableRedis seeds it: idle, and nobody seated.
Init ==
    /\ table = [phase |-> "waiting", pot |-> 0, currentBet |-> 0,
                lastRaiseSize |-> 0, turnSeat |-> NoSeat, dealerSeat |-> 0,
                playersActedCount |-> 0, handNumber |-> 0]
    /\ players = [s \in Seats |-> Vacant]
    /\ balance \in [Seats -> Wallets]
    /\ house = 0
    /\ reply = "idle"

Spec == Init /\ [][Next]_vars

\* What happens of itself: the turn timer fires, a street that is due is turned and
\* a showdown is judged.  Nobody's cooperation is needed to finish a hand.
GatewayNext ==
    \/ \E s \in Seats : Timeout(s)
    \/ NextStreet
    \/ \E score \in [InHand(players) -> Scores] : Showdown(score)

Fairness == WF_vars(GatewayNext)
=============================================================================

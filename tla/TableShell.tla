----------------------------- MODULE TableShell -----------------------------
(***************************************************************************)
(* A table without its chips: what the scripts of apps/api/src/game/lua do *)
(* to the phase, the turn, the standing of the seats, and whether there is *)
(* a pot.  One operator per script, with what the script answers (answer)  *)
(* as a parameter: whoever calls the script acts upon it.  The scripts are *)
(* called at any time; whether they should have been is the caller's care. *)
(*                                                                         *)
(* TableEngine implements this module (TableProps!ImplementsShell), and    *)
(* TableFlow composes it with the gateway.                                 *)
(***************************************************************************)
EXTENDS SeatMath

VARIABLES
    phase,      \* table:{id}.phase
    turnSeat,   \* table:{id}.turnSeat
    standing,   \* how each seat stands: the status of its record, coarser
    pot,        \* are there chips in the pot
    hands       \* hands dealt so far

shell == <<phase, turnSeat, standing, pot, hands>>

Streets == {"preflop", "flop", "turn", "river"}

\* "out": sitting_out.  "parked": busted or leaving, seated but not to be dealt in.
Standings == {"empty", "waiting", "active", "folded", "all-in", "out", "parked"}

Standing(st, kinds) == {s \in Seats : st[s] \in kinds}
Acting(st) == Standing(st, {"active"})
Live(st) == Standing(st, {"active", "all-in"})

(***************************************************************************)
(* bet.lua and timeout.lua: seat s moves, and st is how the seats stand    *)
(* then.  The last player in the hand is paid; or the round is over, and   *)
(* the turn stays where the script leaves it; or the next one is to act.   *)
(***************************************************************************)
Moved(s, st, answer) ==
    /\ standing' = st
    /\ UNCHANGED hands
    /\ \/ /\ answer = "complete"
          /\ Cardinality(Live(st)) = 1
          /\ phase' = "showdown"
          /\ pot' = FALSE
          /\ turnSeat' \in {s, NoSeat}
       \/ /\ answer = "street"
          /\ Cardinality(Live(st)) # 1
          /\ phase' = phase
          /\ turnSeat' \in {NextOf(Acting(st), s), NoSeat}
       \/ /\ answer = "play"
          /\ Cardinality(Live(st)) # 1
          /\ Acting(st) \ {s} # {}
          /\ phase' = phase
          /\ turnSeat' = NextOf(Acting(st), s)

BetScript(s, to, answer) ==
    /\ turnSeat = s
    /\ standing[s] = "active"
    /\ pot' \in BOOLEAN
    /\ Moved(s, [standing EXCEPT ![s] = to], answer)

TimeoutScript(s, answer) ==
    /\ turnSeat = s
    /\ standing[s] # "empty"
    /\ \/ answer = "extended" /\ UNCHANGED shell
       \/ /\ pot' \in {pot, FALSE}
          /\ Moved(s, [standing EXCEPT ![s] = "folded"], answer)

(***************************************************************************)
(* next_street.lua.                                                        *)
(***************************************************************************)
StreetAfter == [preflop |-> "flop", flop |-> "turn", turn |-> "river", river |-> "showdown"]

\* Nobody can bet against anybody.
RunsOut(st) ==
    \/ Acting(st) = {}
    \/ Cardinality(Acting(st)) = 1 /\ Live(st) # Acting(st)

NextStreetScript(answer) ==
    /\ phase \in Streets
    /\ phase' = StreetAfter[phase]
    /\ turnSeat' \in (IF Acting(standing) = {} THEN {NoSeat} ELSE Acting(standing))
    /\ answer = IF phase = "river" THEN "showdown"
                ELSE IF RunsOut(standing) THEN "runout" ELSE "play"
    /\ UNCHANGED <<standing, pot, hands>>

(***************************************************************************)
(* showdown.lua: the pot is paid and everyone seated rests.                *)
(***************************************************************************)
ShowdownScript(broke) ==
    /\ phase' = "waiting"
    /\ pot' = FALSE
    /\ standing' = [s \in Seats |->
          IF standing[s] \in {"empty", "out"} THEN standing[s]
          ELSE IF s \in broke THEN "parked" ELSE "waiting"]
    /\ UNCHANGED <<turnSeat, hands>>

(***************************************************************************)
(* next_hand.lua.  dealt is who is active after the sweep; whoever is not  *)
(* stays as he was, is made to sit out, or is marked as leaving.  There is *)
(* no guard on the phase.                                                  *)
(***************************************************************************)
Dealable == Standing(standing, {"waiting", "active", "folded", "all-in"})

\* Who is left out has one of the standings that asides gives him.
Swept(dealt, asides) ==
    /\ dealt \subseteq Dealable
    /\ standing' = [s \in Seats |-> IF s \in dealt THEN "active" ELSE asides[s]]

Asides(s) == {standing[s]} \cup (IF standing[s] = "empty" THEN {} ELSE {"out", "parked"})

NextHandScript(dealt, asides, answer) ==
    /\ Swept(dealt, asides)
    /\ \/ /\ answer = "few"
          /\ Cardinality(dealt) < 2
          /\ phase' = "waiting"
          /\ UNCHANGED <<turnSeat, pot, hands>>
       \/ /\ answer = "dealt"
          /\ Cardinality(dealt) >= 2
          /\ phase' = "preflop"
          /\ turnSeat' \in dealt
          /\ pot' \in BOOLEAN
          /\ hands' = hands + 1

(***************************************************************************)
(* The seat scripts.                                                       *)
(***************************************************************************)
\* join_table.lua makes everyone who waits active when the table may start.
JoinScript(s, starts) ==
    LET st == [standing EXCEPT ![s] = "waiting"]
    IN  /\ standing[s] = "empty"
        /\ standing' = [r \in Seats |->
              IF starts /\ st[r] = "waiting" THEN "active" ELSE st[r]]
        /\ UNCHANGED <<phase, turnSeat, pot, hands>>

\* leave_table.lua; the last player left takes what is in the pot.
LeaveScript(s) ==
    LET left == [standing EXCEPT ![s] = "empty"]
        alone == Cardinality(Standing(left, Standings \ {"empty"})) = 1
    IN  /\ standing[s] # "empty"
        /\ standing' = [r \in Seats |->
              IF alone /\ left[r] # "empty" THEN "waiting" ELSE left[r]]
        /\ IF alone
             THEN phase' = "waiting" /\ turnSeat' = NoSeat /\ pot' = FALSE
             ELSE UNCHANGED <<phase, turnSeat, pot>>
        /\ UNCHANGED hands

\* toggle_sit_out, add_chips, add_chips_vault, set_online: one seat goes to rest or
\* waits for the next hand again.
StandScript(s, to) ==
    /\ standing[s] # "empty"
    /\ to \in {standing[s], "out", "waiting"}
    /\ standing' = [standing EXCEPT ![s] = to]
    /\ UNCHANGED <<phase, turnSeat, pot, hands>>

CleanupScript ==
    /\ standing' = [s \in Seats |-> "empty"]
    /\ phase' = "waiting"
    /\ turnSeat' = NoSeat
    /\ pot' = FALSE
    /\ hands' = 0

(***************************************************************************)
(* The specification: any script, at any time.                             *)
(***************************************************************************)
Answers == {"complete", "street", "play", "extended", "runout", "showdown", "few", "dealt"}

ShellNext ==
    \/ \E s \in Seats :
          \/ \E to \in {"active", "folded", "all-in"}, answer \in Answers : BetScript(s, to, answer)
          \/ \E answer \in Answers : TimeoutScript(s, answer)
          \/ \E starts \in BOOLEAN : JoinScript(s, starts)
          \/ LeaveScript(s)
          \/ \E to \in Standings : StandScript(s, to)
    \/ \E answer \in Answers : NextStreetScript(answer)
    \/ \E broke \in SUBSET Seats : ShowdownScript(broke)
    \/ /\ \A s \in Seats : standing'[s] \in {"active"} \cup Asides(s)
       /\ \E answer \in {"few", "dealt"} :
             NextHandScript(Acting(standing'), standing', answer)
    \/ CleanupScript

ShellInit ==
    /\ phase = "waiting"
    /\ turnSeat = NoSeat
    /\ standing \in [Seats -> Standings]
    /\ pot = FALSE
    /\ hands = 0

ShellSpec == ShellInit /\ [][ShellNext]_shell
=============================================================================

------------------------------ MODULE MCAudit ------------------------------
(***************************************************************************)
(* Hands played with a record of who has spoken on the street, for TLC:    *)
(* the engine itself keeps a count only (playersActedCount).               *)
(***************************************************************************)
EXTENDS MCHand

VARIABLE spoken     \* the seats that have taken a turn on this street

Speaks ==
    /\ \E s \in Seats : Bet(s) \/ TimeoutFold(s)
    /\ spoken' = spoken \cup {table.turnSeat}

Quiet ==
    /\ \E s \in Seats : TimeoutExtend(s)
    /\ UNCHANGED spoken

NewStreet ==
    /\ \/ NextStreet \/ NextHand
       \/ \E score \in [InHand(players) -> Scores] : Showdown(score)
    /\ spoken' = {}

AuditInit == DealInit /\ spoken = {}

AuditNext == Speaks \/ Quiet \/ NewStreet \/ (Finished /\ UNCHANGED spoken)

AuditSpec == AuditInit /\ [][AuditNext]_<<vars, spoken>>

\* A betting round ends only when every player who can still act has had his turn
\* (bet.lua:458, "Temporal: All active players have acted in this round").
EveryoneHasActed == reply = "street" => Active(players) \subseteq spoken
=============================================================================

----------------------------- MODULE MCServices -----------------------------
(***************************************************************************)
(* The parts around the table that do not share state with one another,    *)
(* each on a small instance.  A behaviour plays one of them; the others    *)
(* rest in their initial states, so that the run is as large as all of     *)
(* them together and not as their product.                                 *)
(***************************************************************************)
EXTENDS Sessions, HandHistory, Tournament, Orchestrator, ClientTable, HandRanks, Motion, PotSplit, TLC

CONSTANTS MaxEvents     \* bound on what clients and administrators do

CONSTANTS a1, a2, b1, alice, bob, h1, h2, h3, t1, t2, r1, r2, r3

VARIABLES focus, events

around == <<sess, hist, tour, orch, view, hand, motion, pots>>
services == <<around, focus, events>>

\* Alice has two tabs, or one before and one after a refresh.
MCOwner == (a1 :> alice) @@ (a2 :> alice) @@ (b1 :> bob)

\* The second hand of one table and the only one of the other end in one millisecond.
MCTableOf == (h1 :> t1) @@ (h2 :> t1) @@ (h3 :> t2)
MCIdOf == (h1 :> 1) @@ (h2 :> 2) @@ (h3 :> 2)
MCRakeOf == (h1 :> 3) @@ (h2 :> 5) @@ (h3 :> 11)

\* Two requests of Alice may overlap.
MCByUser == (r1 :> alice) @@ (r2 :> alice) @@ (r3 :> bob)

MCPictures ==
    { [street |-> 0, bets |-> TRUE, phase |-> "preflop"],
      [street |-> 1, bets |-> FALSE, phase |-> "flop"],
      [street |-> 2, bets |-> TRUE, phase |-> "river"],
      [street |-> 2, bets |-> FALSE, phase |-> "showdown"],
      [street |-> 0, bets |-> FALSE, phase |-> "waiting"] }

\* Enough folds at once for a backlog, and a hand from the deal to the payment.
MCScenes ==
    { [phase |-> "preflop", folded |-> {}, pot |-> 1],
      [phase |-> "flop", folded |-> {0, 1, 2, 3}, pot |-> 1],
      [phase |-> "showdown", folded |-> {0, 1, 2, 3}, pot |-> 1],
      [phase |-> "waiting", folded |-> {}, pot |-> 0] }

\* Two short suits: wheel and straights, flushes of both kinds, full houses, three of a
\* kind and pairs of two ranks, with every kicker.
MCDeck ==
    [rank : {14}, suit : {"s", "h", "d"}] \cup [rank : {6}, suit : {"s", "h"}]
        \cup [rank : 2..5, suit : {"s"}]

\* How the pot is divided does not depend on where at the table who put in how much.
Sorted(put) == \A s, t \in Seats : s < t => put[s] <= put[t]

NoPot == contrib = Unpaid /\ alive = {0} /\ score = [s \in {0} |-> 1] /\ gross = 0 /\ won = Unpaid

MCInit ==
    /\ SessInit /\ HistInit /\ TourInit /\ OrchInit /\ ViewInit /\ RankInit /\ MotionInit
    /\ events = 0
    /\ focus \in {"sessions", "history", "tournament", "display", "tab", "hands", "scenes",
                 "pots"}
    /\ price = 1 /\ (focus # "tournament" => ~lateReg)
    /\ IF focus = "pots" THEN PotInit /\ Sorted(contrib) ELSE NoPot

SessionsPart ==
    /\ focus = "sessions"
    /\ \/ (Handlers \/ Post \/ Broadcast \/ Clockwork) /\ UNCHANGED events
       \/ Clients /\ events < MaxEvents /\ events' = events + 1
    /\ UNCHANGED <<hist, tour, orch, view, hand, motion, pots>>

HistoryPart ==
    focus = "history" /\ HistNext
        /\ UNCHANGED <<sess, tour, orch, view, hand, motion, pots, events>>
TournamentPart ==
    focus = "tournament" /\ TourNext /\ UNCHANGED <<sess, hist, orch, view, hand, motion, pots, events>>
DisplayPart ==
    focus = "display" /\ OrchNext /\ UNCHANGED <<sess, hist, tour, view, hand, motion, pots, events>>
TabPart ==
    focus = "tab" /\ ViewNext /\ UNCHANGED <<sess, hist, tour, orch, hand, motion, pots, events>>
HandsPart ==
    focus = "hands" /\ DealHand /\ UNCHANGED <<sess, hist, tour, orch, view, motion, pots, events>>

PotsPart ==
    focus = "pots" /\ Split /\ UNCHANGED <<sess, hist, tour, orch, view, hand, motion, events>>

ScenesPart ==
    focus = "scenes" /\ MotionNext /\ UNCHANGED <<sess, hist, tour, orch, view, hand, pots, events>>

MCNext ==
    /\ \/ SessionsPart \/ HistoryPart \/ TournamentPart \/ DisplayPart \/ TabPart
       \/ HandsPart \/ PotsPart \/ ScenesPart
    /\ UNCHANGED focus

\* What is fair is enabled only after a step of its own part.
MCSpec ==
    /\ MCInit /\ [][MCNext]_services
    /\ SessFairness /\ HistFairness /\ OrchFairness /\ ViewFairness /\ MotionFairness
=============================================================================

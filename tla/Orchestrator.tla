---------------------------- MODULE Orchestrator ----------------------------
(***************************************************************************)
(* The web client's two pictures of a table: the network state, which each *)
(* broadcast replaces, and the display state, which follows it through a   *)
(* queue, one animation at a time, with a synthetic "gather" picture where *)
(* bets go to the pot before cards appear, and a safety flush.  Time is    *)
(* counted in half seconds, each animation's ceiling rounded up.  An       *)
(* animation that settles ends sooner, as do those of a queue that is      *)
(* catching up, so every shorter duration is covered.                      *)
(***************************************************************************)
EXTENDS Integers, Sequences

CONSTANTS
    Pictures,       \* what a broadcast may show: [street, bets, phase]
    MaxPictures     \* bound on the broadcasts

Phases == {"waiting", "preflop", "flop", "turn", "river", "showdown"}

\* Before the flop no cards are on the table.
ASSUME PicturesAssumption ==
    \A p \in Pictures : /\ p \in [street : Nat, bets : BOOLEAN, phase : Phases]
                        /\ p.phase = "preflop" => p.street = 0

VARIABLES
    net,            \* the network state and its number
    display,        \* the display state, the number of the state it shows, and is it
                    \* that very object
    queue, busy,
    waits,          \* the animations being waited for
    flush           \* the time left to the safety flush, or Off

orch == <<net, display, queue, busy, waits, flush>>

Off == -1
FlushAfter == 5
NoPicture == [street |-> 0, bets |-> FALSE, phase |-> "waiting"]

OrchInit ==
    /\ net = [n |-> 0, pic |-> NoPicture]
    /\ display = [n |-> 0, pic |-> NoPicture, same |-> TRUE]
    /\ queue = <<>> /\ busy = FALSE /\ waits = {} /\ flush = Off

\* detectEventType.
EventType(prev, next) ==
    IF prev.phase = "waiting" /\ next.phase = "preflop" THEN "deal"
    ELSE IF next.street > prev.street THEN "community"
    ELSE IF prev.phase # "showdown" /\ next.phase = "showdown" THEN "showdown"
    ELSE IF prev.phase = "showdown" /\ next.phase = "waiting" THEN "win"
    ELSE "default"

\* The showdown is shown for as long as its cards need.
BuggyCeiling(event) ==
    CASE event \in {"deal", "community", "win"} -> 3
      [] event = "showdown" -> 6
      [] OTHER -> 2

\* ANIM_DURATIONS with the grace period.
Ceiling(event) ==
    CASE event \in {"deal", "community", "win"} -> 3
      [] event = "showdown" -> 4
      [] OTHER -> 2

\* Only bets the new state still has are gathered.
BuggyGathers(prev, next) ==
    EventType(prev, next) \in {"community", "showdown"} /\ next.bets

\* The two gather injections.
Gathers(prev, next) ==
    EventType(prev, next) \in {"community", "showdown"} /\ prev.bets

\* What processQueue starts on the state it takes, the display being d.
Wait(d, next) ==
    [next |-> next, prev |-> d.pic, gather |-> Gathers(d.pic, next.pic),
     left |-> Ceiling(EventType(d.pic, next.pic))]

\* The effect on a change of either state: the flush starts anew unless they are the
\* same object.
Rearm(n, d) == IF d.same /\ d.n = n.n THEN Off ELSE FlushAfter

Arrive(pic) ==
    /\ net.n < MaxPictures
    /\ net' = [n |-> net.n + 1, pic |-> pic]
    /\ LET q == Append(queue, net')
       IN  IF busy
           THEN queue' = q /\ UNCHANGED <<busy, waits>>
           ELSE /\ busy' = TRUE /\ queue' = Tail(q)
                /\ waits' = waits \cup {Wait(display, Head(q))}
    /\ flush' = Rearm(net', display)
    /\ UNCHANGED display

\* The gather picture: the old cards, no bets.  The cards follow.
Gather(w) ==
    /\ w \in waits /\ w.gather
    /\ display' = [n |-> w.next.n, same |-> FALSE,
                   pic |-> [w.next.pic EXCEPT !.street = w.prev.street, !.bets = FALSE]]
    /\ waits' = (waits \ {w}) \cup {[w EXCEPT !.gather = FALSE, !.left = 2]}
    /\ flush' = Rearm(net, display')
    /\ UNCHANGED <<net, queue, busy>>

\* The next change of the network state takes the next one from the queue.
BuggyFollow(d, others) == busy' = FALSE /\ waits' = others /\ UNCHANGED queue

\* The microtask after a picture is shown.
Follow(d, others) ==
    IF queue = <<>>
    THEN busy' = FALSE /\ waits' = others /\ UNCHANGED queue
    ELSE /\ busy' = TRUE /\ queue' = Tail(queue)
         /\ waits' = others \cup {Wait(d, Head(queue))}

Show(w) ==
    /\ w \in waits /\ ~w.gather
    /\ display' = [n |-> w.next.n, pic |-> w.next.pic, same |-> FALSE]
    /\ Follow(display', waits \ {w})
    /\ flush' = Rearm(net, display')
    /\ UNCHANGED net

\* What is being waited for is not cancelled.
SafetyFlush ==
    /\ flush = 0
    /\ display' = [n |-> net.n, pic |-> net.pic, same |-> TRUE]
    /\ queue' = <<>> /\ busy' = FALSE /\ flush' = Off
    /\ UNCHANGED <<net, waits>>

HalfSecond ==
    /\ flush # 0 /\ \A w \in waits : w.left > 0
    /\ flush # Off \/ waits # {}
    /\ flush' = IF flush = Off THEN Off ELSE flush - 1
    /\ waits' = {[w EXCEPT !.left = @ - 1] : w \in waits}
    /\ UNCHANGED <<net, display, queue, busy>>

OrchNext ==
    \/ \E pic \in Pictures : Arrive(pic)
    \/ \E w \in waits : Gather(w) \/ Show(w)
    \/ SafetyFlush \/ HalfSecond

OrchFairness == WF_orch(HalfSecond) /\ WF_orch(\E w \in waits : Gather(w) \/ Show(w))

(***************************************************************************)
(* Properties.                                                             *)
(***************************************************************************)
\* The safety flush never cuts an animation short or drops a queued picture: every change
\* sets it back, and every animation is shorter.
FlushIsIdle == flush = 0 => queue = <<>> /\ waits = {} /\ display.n = net.n

\* The player sees the states in the order of the broadcasts, and never sees new cards
\* while the bets of the street before lie on the table.
ShownInOrder ==
    [][/\ display'.n >= display.n
       /\ display'.pic.street > display.pic.street => ~display.pic.bets]_orch

\* The last broadcast is shown.
DisplayCatchesUp == (net.n = MaxPictures) ~> (display.n = MaxPictures /\ ~busy)
=============================================================================

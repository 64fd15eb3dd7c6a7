------------------------------- MODULE Motion -------------------------------
(***************************************************************************)
(* The browser's animations: useMotionEvents turns a change of the picture *)
(* into scenes, MotionOrchestrator puts each on the screen and into the    *)
(* queue of useAnimationQueue, which plays them one after the other.       *)
(*                                                                         *)
(* The queue is React state.  An effect sees it as it was rendered, and    *)
(* writes back what it saw less the head: a scene that was added between   *)
(* the two is overwritten, and nobody takes it off the screen again.       *)
(***************************************************************************)
EXTENDS Integers, Sequences, SequencesExt, FiniteSets

CONSTANTS
    Scenes,         \* the pictures a player may be shown: [phase, folded, pot]
    MaxScenes       \* bound on them

VARIABLES
    picture,        \* the picture of the table: prevStateRef
    frames,         \* deals waiting for the browser's second frame
    lineup, playing, \* the queue after all updates so far, and its current scene
    rendered,       \* what an effect that has yet to run was rendered with, or Nothing
    dirty,          \* has the queue changed since it was rendered
    stage,          \* activeAnimations: what is on the screen
    fate            \* history: what became of each scene, in the order they were added

motion == <<picture, frames, lineup, playing, rendered, dirty, stage, fate>>

Nothing == 0
NotRendered == [lineup |-> <<>>, playing |-> -1]
NoScene == [phase |-> "none", folded |-> {}, pot |-> 0]

MotionInit ==
    /\ picture = [n |-> 0, scene |-> NoScene]
    /\ frames = 0
    /\ lineup = <<>> /\ playing = Nothing
    /\ rendered = NotRendered /\ dirty = FALSE
    /\ stage = {} /\ fate = <<>>

Essential(kind) == kind # "fold"

\* What a change of the picture starts at once: folds first, of players seen before.
Begun(prev, next) ==
    LET folds == IF prev = NoScene THEN {} ELSE next.folded \ prev.folded
    IN  [i \in 1..Cardinality(folds) |-> "fold"]
            \o (IF prev.phase # "showdown" /\ next.phase = "showdown" THEN <<"showdown">> ELSE <<>>)
            \o (IF prev.phase = "showdown" /\ next.phase = "waiting" /\ next.pot < prev.pot
                  THEN <<"win">> ELSE <<>>)

\* trigger...: each scene on the screen, and behind the others in the queue.
Trigger(kinds) ==
    LET ids == [i \in DOMAIN kinds |-> Len(fate) + i]
    IN  /\ fate' = fate \o [i \in DOMAIN kinds |-> [kind |-> kinds[i], end |-> "none"]]
        /\ lineup' = lineup \o ids
        /\ stage' = stage \cup ToSet(ids)
        /\ dirty' = (dirty \/ kinds # <<>>)
        /\ UNCHANGED <<playing, rendered>>

\* The effect of useMotionEvents; a deal waits for two frames.
Change(scene) ==
    /\ picture.n < MaxScenes /\ scene # picture.scene
    /\ picture' = [n |-> picture.n + 1, scene |-> scene]
    /\ frames' = IF picture.scene.phase # "preflop" /\ scene.phase = "preflop"
                   THEN frames + 1 ELSE frames
    /\ Trigger(Begun(picture.scene, scene))

Frame ==
    /\ frames > 0
    /\ frames' = frames - 1
    /\ Trigger(<<"deal">>)
    /\ UNCHANGED picture

\* React renders after the effects of the last time.
Render ==
    /\ dirty /\ rendered = NotRendered
    /\ rendered' = [lineup |-> lineup, playing |-> playing]
    /\ dirty' = FALSE
    /\ UNCHANGED <<picture, frames, lineup, playing, stage, fate>>

\* Too much of a backlog drops whatever is next.
BuggySkipped(kind, length) == length > 5

\* shouldSkip.
Skipped(kind, length) == ~Essential(kind) /\ length > 5

\* What the callback of a scene, played or skipped, leaves on the screen.
Struck(i) == stage \ {i}

\* The effect of processQueue: the head is skipped or played, and what was added since the
\* rendering is lost.
Effect ==
    /\ rendered # NotRendered
    /\ rendered' = NotRendered
    /\ IF rendered.lineup = <<>> \/ rendered.playing # Nothing
         THEN UNCHANGED <<lineup, playing, dirty, stage, fate>>
         ELSE LET next == Head(rendered.lineup)
                  skip == Skipped(fate[next].kind, Len(rendered.lineup))
                  lost == ToSet(lineup) \ ToSet(rendered.lineup)
              IN  /\ lineup' = Tail(rendered.lineup)
                  /\ dirty' = TRUE
                  /\ playing' = IF skip THEN playing ELSE next
                  /\ stage' = IF skip THEN Struck(next) ELSE stage
                  /\ fate' = [i \in DOMAIN fate |->
                                 IF i = next
                                   THEN [fate[i] EXCEPT !.end = IF skip THEN "skipped" ELSE "played"]
                                   ELSE IF i \in lost THEN [fate[i] EXCEPT !.end = "lost"]
                                   ELSE fate[i]]
    /\ UNCHANGED <<picture, frames>>

\* The timer of the scene being played.
Settled ==
    /\ playing # Nothing
    /\ playing' = Nothing
    /\ stage' = Struck(playing)
    /\ dirty' = TRUE
    /\ UNCHANGED <<picture, frames, lineup, rendered, fate>>

MotionNext ==
    \/ \E scene \in Scenes : Change(scene)
    \/ Frame \/ Render \/ Effect \/ Settled

MotionFairness == WF_motion(Frame) /\ WF_motion(Render) /\ WF_motion(Effect) /\ WF_motion(Settled)

(***************************************************************************)
(* Properties.                                                             *)
(***************************************************************************)
\* Once the picture rests, every scene has been played and has left the screen; only a fold
\* may have been skipped.  Left aside are scenes added between a rendering and its effect
\* (useAnimationQueue's "Never skip essential animations").
ScenesPlay ==
    <>[](\A i \in DOMAIN fate :
            \/ fate[i].end = "lost"
            \/ i \notin stage /\ (fate[i].end = "played" \/ ~Essential(fate[i].kind)))
=============================================================================

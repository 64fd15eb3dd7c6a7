---------------------------- MODULE ClientTable ----------------------------
(***************************************************************************)
(* A browser tab on a table's page: what it believes (is it connected, has *)
(* it joined, is a join under way, what its slice of the state shows)      *)
(* against the truth on the server (does the user have a seat, is the      *)
(* tab's socket in the room), with broadcasts of older snapshots in        *)
(* flight, answers lost with the connection, and seats taken away.         *)
(***************************************************************************)
EXTENDS Integers, Sequences

CONSTANTS MaxWire, MaxDrops     \* bounds on messages on their way and on lost connections

VARIABLES
    seated,         \* the user has a seat
    up,             \* the tab's socket is open on the server
    inRoom,         \* and is in the table's room
    news,         \* the snapshot a broadcast is about to send, or "none"
    wire,           \* from the server to the tab, in order
    asked,          \* the tab's requests without an answer
    tab,            \* what the tab believes
    drops

truth == <<seated, up, inRoom, news>>
view == <<truth, wire, asked, tab, drops>>

Snapshot(s) == IF s THEN "hero" ELSE "others"

\* A page that was just opened; at first it is not.
Fresh == [page |-> "table", connected |-> FALSE, joined |-> FALSE, joining |-> FALSE,
          slice |-> "none"]

ViewInit ==
    /\ seated = FALSE /\ up = FALSE /\ inRoom = FALSE /\ news = "none"
    /\ wire = <<>> /\ asked = {} /\ tab = [Fresh EXCEPT !.page = "lobby"] /\ drops = 0

(***************************************************************************)
(* The effects that follow a change of the tab's state.                    *)
(***************************************************************************)
\* The hero in the players tells a tab that has not joined that it has.
Recovered(t) == [t EXCEPT !.joined = @ \/ t.slice = "hero"]

\* Only a page that was just opened subscribes.
BuggySubscribes(t, u) == u.connected /\ ~u.joined /\ tab.slice = "none"

\* The subscription is asked for whenever the tab is connected and has not joined, and
\* either has just changed.
Subscribes(t, u) ==
    u.connected /\ ~u.joined /\ (t.connected # u.connected \/ t.joined # u.joined)

\* The tab's next state and its requests, the answered ones gone.
Becomes(u, answered) ==
    /\ tab' = Recovered(u)
    /\ asked' = (asked \ answered) \cup (IF Subscribes(tab, tab') THEN {"subscribe"} ELSE {})

(***************************************************************************)
(* The connection.                                                         *)
(***************************************************************************)
\* The server finds a seated user's seat and puts the socket into the room.
Connects ==
    /\ tab.page = "table" /\ ~up
    /\ up' = TRUE /\ inRoom' = seated
    /\ Becomes([tab EXCEPT !.connected = TRUE], {})
    /\ UNCHANGED <<seated, news, wire, drops>>

\* The requests on their way are served or not; no answer arrives.
Drops ==
    /\ up /\ drops < MaxDrops
    /\ drops' = drops + 1
    /\ up' = FALSE /\ inRoom' = FALSE /\ wire' = <<>> /\ asked' = {}
    /\ seated' \in {seated} \cup {kind = "join" : kind \in asked \cap {"join", "leave"}}
    /\ tab' = [tab EXCEPT !.connected = FALSE]
    /\ UNCHANGED news

\* The user opens the page again.
Reload ==
    /\ drops < MaxDrops \/ tab.page = "lobby"
    /\ drops' = IF tab.page = "lobby" THEN drops ELSE drops + 1
    /\ up' = FALSE /\ inRoom' = FALSE /\ wire' = <<>> /\ asked' = {} /\ tab' = Fresh
    /\ UNCHANGED <<seated, news>>

(***************************************************************************)
(* The server.                                                             *)
(***************************************************************************)
Send(m) == wire' = IF up THEN Append(wire, m) ELSE wire

ServeSubscribe ==
    /\ up /\ "subscribe" \in asked
    /\ \A i \in DOMAIN wire : wire[i] # "subscribed"
    /\ inRoom' = TRUE
    /\ wire' = wire \o <<Snapshot(seated), "subscribed">>
    /\ UNCHANGED <<seated, up, news, asked, tab, drops>>

Pending(kind, answers) ==
    up /\ kind \in asked /\ \A i \in DOMAIN wire : wire[i] \notin answers

\* A player who has a seat is told that he joined.
ServeJoin ==
    /\ Pending("join", {"joined", "refused"})
    /\ \/ seated' = TRUE /\ inRoom' = TRUE /\ Send("joined")
       \/ ~seated /\ Send("refused") /\ UNCHANGED <<seated, inRoom>>
    /\ UNCHANGED <<up, news, asked, tab, drops>>

\* "Not seated at this table" is as good as success.
ServeLeave ==
    /\ Pending("leave", {"left"})
    /\ seated' = FALSE
    /\ inRoom' = (inRoom /\ ~seated)
    /\ Send("left")
    /\ UNCHANGED <<up, news, asked, tab, drops>>

\* A sweeper, the reaper or another tab gives up the seat.
LosesSeat ==
    /\ seated /\ seated' = FALSE
    /\ UNCHANGED <<up, inRoom, news, wire, asked, tab, drops>>

Kicked ==
    /\ seated /\ seated' = FALSE /\ Len(wire) < MaxWire
    /\ Send("kicked")
    /\ UNCHANGED <<up, inRoom, news, asked, tab, drops>>

\* A script has answered; its state is sent after other handlers had their turn.
Publish ==
    /\ up /\ news = "none" /\ news' = Snapshot(seated)
    /\ UNCHANGED <<seated, up, inRoom, wire, asked, tab, drops>>

NewsArrives ==
    /\ news # "none" /\ Len(wire) < MaxWire
    /\ news' = "none"
    /\ wire' = IF inRoom THEN Append(wire, news) ELSE wire
    /\ UNCHANGED <<seated, up, inRoom, asked, tab, drops>>

(***************************************************************************)
(* The tab.                                                                *)
(***************************************************************************)
\* Each message's handler, and the effects after it.
Handled(m) ==
    CASE m \in {"hero", "others"} -> Becomes([tab EXCEPT !.slice = m], {})
      [] m = "subscribed" ->
            Becomes([tab EXCEPT !.slice = IF @ = "none" THEN "empty" ELSE @], {"subscribe"})
      [] m = "joined" -> Becomes([tab EXCEPT !.joined = TRUE, !.joining = FALSE], {"join"})
      [] m = "refused" -> Becomes([tab EXCEPT !.joining = FALSE], {"join"})
      [] m = "left" -> Becomes([tab EXCEPT !.slice = "none", !.joined = FALSE], {"leave"})
      [] m = "kicked" -> Becomes([tab EXCEPT !.slice = "none", !.page = "lobby"], {})

Receive ==
    /\ wire # <<>> /\ tab.page = "table"
    /\ wire' = Tail(wire)
    /\ Handled(Head(wire))
    /\ UNCHANGED <<truth, drops>>

Clicks(kind) ==
    /\ tab.page = "table" /\ tab.connected /\ kind \notin asked
    /\ IF kind = "join" THEN ~tab.joined /\ ~tab.joining ELSE tab.joined
    /\ asked' = asked \cup {kind}
    /\ tab' = [tab EXCEPT !.joining = @ \/ kind = "join"]
    /\ UNCHANGED <<truth, wire, drops>>

Serve == ServeSubscribe \/ ServeJoin \/ ServeLeave
ViewNext ==
    \/ Connects \/ Drops \/ Reload \/ Serve \/ LosesSeat \/ Kicked \/ Publish \/ NewsArrives
    \/ Receive \/ \E kind \in {"join", "leave"} : Clicks(kind)

\* Connections come back, handlers and messages get their turn, the table plays on.
ViewFairness ==
    /\ WF_view(Connects) /\ WF_view(Receive) /\ WF_view(NewsArrives) /\ WF_view(Publish)
    /\ WF_view(ServeSubscribe) /\ WF_view(ServeJoin) /\ WF_view(ServeLeave)

(***************************************************************************)
(* Properties.                                                             *)
(***************************************************************************)
\* A tab that believes it has a seat it has not subscribes no more, and is the one kind
\* that may be left behind.
Deceived == tab.joined /\ ~seated

\* Whatever is lost or overtaken, a tab on the page comes to show the table as it is.
ViewCatchesUp ==
    []<>(tab.slice = Snapshot(seated) \/ ~up \/ tab.page = "lobby" \/ Deceived)
=============================================================================

------------------------------- MODULE MCFlow -------------------------------
(***************************************************************************)
(* The gateway around one table, for TLC: hands played while clients make  *)
(* up to MaxRequests requests at any moment.                               *)
(***************************************************************************)
EXTENDS FlowProps

CONSTANTS
    Parties,            \* bound: the sets of seats taken at first
    MaxRequests         \* bound: requests other than actions, in a behaviour

VARIABLE requests       \* how many have been made

MCInit ==
    /\ FlowInit
    /\ Standing(standing, {"waiting"}) \in Parties
    /\ requests = 0

MCNext ==
    \/ (GatewayNext \/ Resume) /\ UNCHANGED requests
    \/ ClientNext /\ requests < MaxRequests /\ requests' = requests + 1

MCSpec == MCInit /\ [][MCNext]_<<flowVars, requests>> /\ FlowFairness
=============================================================================

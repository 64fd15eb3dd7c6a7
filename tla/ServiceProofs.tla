---------------------------- MODULE ServiceProofs ----------------------------
(***************************************************************************)
(* Theorems about six parts that share no state with the table's hash: the *)
(* wallets and counters of a tournament, for any number of users, requests *)
(* and price changes and any fees, prices and seat cap; the archive of     *)
(* hands, for any number of hands, tables, restarts and failed calls; the  *)
(* client's display of a table, for any pictures broadcast; the gateway's  *)
(* sessions, for any users, sockets and seats; the division of a pot among *)
(* its winners and its picture in the browser, for any contributions; the  *)
(* best hands a player may make, for any deck.                             *)
(***************************************************************************)
EXTENDS Tournament, HandHistory, Orchestrator, Sessions, PotSplit, HandRanks, SidePotProofs,
        SumProofs, SequenceTheorems

(***************************************************************************)
(* Tournaments: the inductive invariant.                                   *)
(***************************************************************************)
Request == [kind : {"enter", "leave"}, entries : Int, buyIn : Prices]
Move == [due : SUBSET Statuses, to : Statuses \ {"DELETED"}]

\* The types of the rows, of what a transaction read and of the job's decision.
TourTypeOK ==
    /\ status \in Statuses
    /\ lateReg \in BOOLEAN
    /\ price \in Prices
    /\ entries \subseteq Entrants /\ IsFiniteSet(entries)
    /\ totalEntries \in Int
    /\ savings \in [Entrants -> Int]
    /\ paid \in [Entrants -> Int]
    /\ spilled \in [Entrants -> Int]
    /\ request \in [Requests -> Request \cup {NoRequest}]
    /\ cron \in Move \cup {NoRule}
    /\ overlapped \in BOOLEAN /\ settled \in BOOLEAN /\ missed \in Int
    /\ repriced \in Nat

\* What a transaction read: a free seat when it registers, and the price, which is
\* still the price if nobody has changed it.
ReadsHold ==
    \A r \in Requests : request[r] # NoRequest =>
        /\ request[r].kind = "enter" => request[r].entries < SeatCap
        /\ repriced = 0 => request[r].buyIn = price

\* Those who are in and those about to be: the last of them found a free seat, when at
\* most all the other requests were about to commit.
CapBound ==
    totalEntries > 0 \/ InFlight("enter") # {} =>
        totalEntries + Cardinality(InFlight("enter")) < SeatCap + Cardinality(Requests)

TourInv == TourTypeOK /\ TourBooks /\ CountersMatch /\ ReadsHold /\ CapBound

\* What a request is and is not.
LEMMA RequestKinds ==
    /\ NoRequest \notin Request
    /\ \A r \in Request : r.kind \in {"enter", "leave"} /\ r.entries \in Int /\ r.buyIn \in Prices
    /\ NoRequest.kind = "none"
  BY DEF NoRequest, Request

\* The invariant holds of a tournament as it is announced.
LEMMA TourInitial == TourInit => TourInv
<1> SUFFICES ASSUME TourInit PROVE TourInv
  OBVIOUS
<1>1. TourTypeOK
  <2>1. IsFiniteSet(entries)
    BY FS_EmptySet DEF TourInit
  <2>2. /\ price \in Prices /\ status \in Statuses /\ repriced \in Nat /\ totalEntries \in Int
        /\ entries \subseteq Entrants
    BY DEF TourInit, Statuses
  <2>5. lateReg \in BOOLEAN /\ overlapped \in BOOLEAN /\ settled \in BOOLEAN
    BY Zenon DEF TourInit
  <2>6. missed \in Int
    BY DEF TourInit
  <2>3. savings \in [Entrants -> Int] /\ paid \in [Entrants -> Int] /\ spilled \in [Entrants -> Int]
    BY PricesAssumption DEF TourInit
  <2>4. request \in [Requests -> Request \cup {NoRequest}] /\ cron \in Move \cup {NoRule}
    BY DEF TourInit
  <2> QED
    BY <2>1, <2>2, <2>3, <2>4, <2>5, <2>6, Zenon DEF TourTypeOK
<1>2. TourBooks
  BY PricesAssumption DEF TourInit, TourBooks
<1>3. CountersMatch
  BY PricesAssumption, FS_EmptySet DEF TourInit, CountersMatch
<1>4. ReadsHold
  BY DEF TourInit, ReadsHold
<1>5. CapBound
  BY DEF TourInit, CapBound, InFlight, NoRequest
<1> QED
  BY <1>1, <1>2, <1>3, <1>4, <1>5 DEF TourInv

(***************************************************************************)
(* What the operations leave alone.                                        *)
(***************************************************************************)

\* No more requests are in flight than there are, and which are is known by their kind.
LEMMA FewInFlight ==
    /\ IsFiniteSet(InFlight("enter")) /\ Cardinality(Requests) \in Nat
    /\ Cardinality(InFlight("enter")) \in Nat
    /\ Cardinality(InFlight("enter")) <= Cardinality(Requests)
<1>1. InFlight("enter") \subseteq Requests
  BY DEF InFlight
<1> QED
  BY <1>1, EntrantsAssumption, FS_Subset, FS_CardinalityType

\* When no registration begins, and no entry is added, the bound holds on.
LEMMA CapStays ==
    ASSUME TourInv, InFlight("enter")' \subseteq InFlight("enter"),
           totalEntries' \in Int, totalEntries' <= totalEntries
    PROVE  CapBound'
<1>1. /\ IsFiniteSet(InFlight("enter")) /\ Cardinality(InFlight("enter")) \in Nat
      /\ Cardinality(Requests) \in Nat
  BY FewInFlight
<1>2. /\ Cardinality(InFlight("enter")') <= Cardinality(InFlight("enter"))
      /\ Cardinality(InFlight("enter")') \in Nat
  BY <1>1, FS_Subset, FS_CardinalityType
<1>3. (totalEntries' > 0 \/ InFlight("enter")' # {}) => totalEntries > 0 \/ InFlight("enter") # {}
  BY DEF TourInv, TourTypeOK
<1> QED
  BY <1>1, <1>2, <1>3, PricesAssumption DEF TourInv, TourTypeOK, CapBound

\* A request that is only noted, with a free seat if it is a registration, keeps the
\* invariant.
LEMMA NotedRequest ==
    ASSUME TourInv, NEW r \in Requests, NEW kind \in {"enter", "leave"}, Reads(r, kind),
           kind = "enter" => totalEntries < SeatCap,
           UNCHANGED <<field, hour, cron, past>>
    PROVE  TourInv'
<1> USE DEF field, past
<1>1. [kind |-> kind, entries |-> totalEntries, buyIn |-> price] \in Request
  BY DEF TourInv, TourTypeOK, Request
<1>2. request' \in [Requests -> Request \cup {NoRequest}]
  BY <1>1 DEF TourInv, TourTypeOK, Reads
<1>3. TourTypeOK'
  BY <1>2 DEF TourInv, TourTypeOK
<1>4. TourBooks' /\ CountersMatch'
  BY DEF TourInv, TourBooks, CountersMatch
<1>5. ReadsHold'
  <2> SUFFICES ASSUME NEW q \in Requests, request'[q] # NoRequest
               PROVE  /\ request'[q].kind = "enter" => request'[q].entries < SeatCap
                      /\ repriced = 0 => request'[q].buyIn = price
    BY DEF ReadsHold
  <2>1. CASE q = r
    BY <2>1 DEF TourInv, TourTypeOK, Reads
  <2>2. CASE q # r
    BY <2>2 DEF TourInv, TourTypeOK, Reads, ReadsHold
  <2> QED
    BY <2>1, <2>2
<1>6. CapBound'
  <2>1. CASE kind = "enter"
    <3>1. Cardinality(InFlight("enter"))' <= Cardinality(Requests)
          /\ Cardinality(InFlight("enter"))' \in Nat /\ Cardinality(Requests) \in Nat
      <4>1. InFlight("enter")' \subseteq Requests
        BY DEF InFlight
      <4> QED
        BY <4>1, EntrantsAssumption, FS_Subset, FS_CardinalityType
    <3> QED
      BY <2>1, <3>1, PricesAssumption DEF TourInv, TourTypeOK, CapBound
  <2>2. CASE kind = "leave"
    <3>1. InFlight("enter")' \subseteq InFlight("enter")
      BY <2>2 DEF InFlight, Reads, TourInv, TourTypeOK
    <3> QED
      BY <3>1, CapStays DEF TourInv, TourTypeOK
  <2> QED
    BY <2>1, <2>2
<1> QED
  BY <1>3, <1>4, <1>5, <1>6 DEF TourInv

\* Requests that end leave the reads of the others as they are.
LEMMA ReadsLeft ==
    ASSUME TourInv, NEW r \in Requests, request' = [request EXCEPT ![r] = NoRequest],
           price' = price, repriced' = repriced
    PROVE  /\ request' \in [Requests -> Request \cup {NoRequest}] /\ ReadsHold'
           /\ InFlight("enter")' = InFlight("enter") \ {r}
<1>1. request' \in [Requests -> Request \cup {NoRequest}]
  BY DEF TourInv, TourTypeOK
<1>2. \A q \in Requests : request'[q] # NoRequest => request'[q] = request[q]
  BY DEF TourInv, TourTypeOK
<1>3. InFlight("enter")' = InFlight("enter") \ {r}
  BY DEF TourInv, TourTypeOK, InFlight, NoRequest
<1> QED
  BY <1>1, <1>2, <1>3 DEF TourInv, ReadsHold

\* What a request in flight read, and who made it.
LEMMA InFlightReads ==
    ASSUME TourInv, NEW r \in Requests, request[r].kind \in {"enter", "leave"}
    PROVE  /\ request[r] \in Request /\ request[r] # NoRequest
           /\ request[r].entries \in Int /\ request[r].buyIn \in Prices
           /\ Cost(request[r].buyIn) \in Nat
           /\ ByUser[r] \in Entrants
<1>0. request[r] \in Request \cup {NoRequest}
  BY DEF TourInv, TourTypeOK
<1>1. request[r] # NoRequest
  BY RequestKinds
<1>3. request[r] \in Request
  BY <1>0, <1>1
<1>2. request[r].entries \in Int /\ request[r].buyIn \in Prices
  BY <1>3, RequestKinds
<1>4. Cost(request[r].buyIn) \in Nat
  <2>1. \A p \in Prices : p + Fee \in Nat
    BY PricesAssumption
  <2> QED
    BY <1>2, <2>1 DEF Cost
<1>5. ByUser[r] \in Entrants
  BY EntrantsAssumption
<1> QED
  BY <1>1, <1>2, <1>3, <1>4, <1>5

(***************************************************************************)
(* Commits.                                                                *)
(***************************************************************************)

\* A registration that commits keeps the books and the counters (registerPlayer).
LEMMA EnterKeeps == ASSUME TourInv, NEW r \in Requests, Enter(r) PROVE TourInv'
<1> DEFINE u == ByUser[r]
           cost == Cost(request[r].buyIn)
<1>1. /\ request[r] \in Request /\ request[r] # NoRequest
      /\ request[r].entries \in Int /\ request[r].buyIn \in Prices
      /\ cost \in Nat /\ u \in Entrants
  BY InFlightReads DEF Enter
<1>2. IsFiniteSet(entries') /\ Cardinality(entries') = Cardinality(entries) + 1
      /\ Cardinality(entries) \in Nat
  <2>1. IsFiniteSet(entries) /\ u \notin entries /\ entries' = entries \cup {u}
    BY DEF Enter, TourInv, TourTypeOK
  <2> HIDE DEF u
  <2> QED
    BY <2>1, FS_AddElement, FS_CardinalityType
<1>3. request' \in [Requests -> Request \cup {NoRequest}] /\ ReadsHold'
  BY ReadsLeft DEF Enter, Settle
<1> HIDE DEF cost
<1>4. /\ savings' = [savings EXCEPT ![u] = @ - cost] /\ paid' = [paid EXCEPT ![u] = cost]
      /\ spilled' = spilled /\ entries' = entries \cup {u} /\ u \notin entries
  BY DEF Enter, cost
<1>5. /\ savings' \in [Entrants -> Int] /\ paid' \in [Entrants -> Int]
      /\ spilled' \in [Entrants -> Int] /\ entries' \subseteq Entrants
  BY <1>1, <1>4 DEF TourInv, TourTypeOK
<1>6. totalEntries' \in Int
  BY DEF TourInv, TourTypeOK, Enter, Settle, Count
<1>7. overlapped' \in BOOLEAN /\ settled' \in BOOLEAN /\ missed' = totalEntries - request[r].entries
  BY Zenon DEF Enter, Settle
<1>8. TourTypeOK'
  BY <1>1, <1>2, <1>3, <1>5, <1>6, <1>7 DEF TourInv, TourTypeOK, Enter
<1>9. TourBooks'
  <2> SUFFICES ASSUME NEW v \in Entrants
               PROVE  /\ savings'[v] = Savings - paid'[v] + spilled'[v]
                      /\ v \notin entries' => paid'[v] = 0
    BY DEF TourBooks
  <2>1. /\ savings[v] = Savings - paid[v] + spilled[v]
        /\ v \notin entries => paid[v] = 0
        /\ savings[v] \in Int /\ paid[v] \in Int /\ spilled[v] \in Int
    BY DEF TourInv, TourTypeOK, TourBooks
  <2>2. /\ savings \in [Entrants -> Int] /\ paid \in [Entrants -> Int]
    BY DEF TourInv, TourTypeOK
  <2>3. CASE v = u
    <3>1. /\ savings'[v] = savings[v] - cost /\ paid'[v] = cost /\ spilled'[v] = spilled[v]
          /\ v \in entries' /\ paid[v] = 0
      BY <1>4, <2>1, <2>2, <2>3
    <3> QED
      BY <1>1, <2>1, <3>1, PricesAssumption
  <2>4. CASE v # u
    <3>1. /\ savings'[v] = savings[v] /\ paid'[v] = paid[v] /\ spilled'[v] = spilled[v]
          /\ v \in entries' <=> v \in entries
      BY <1>4, <2>2, <2>4
    <3> QED
      BY <2>1, <3>1
  <2> QED
    BY <2>3, <2>4
<1>11. /\ InFlight("enter")' = InFlight("enter") \ {r} /\ IsFiniteSet(InFlight("enter"))
       /\ Cardinality(InFlight("enter")') \in Nat /\ Cardinality(InFlight("enter")) \in Nat
       /\ totalEntries' = totalEntries + 1
  BY <1>1, ReadsLeft, FewInFlight, FS_Subset, FS_CardinalityType DEF Enter, Settle, Count
<1>12. CapBound'
  <2>1. r \in InFlight("enter")
    BY DEF Enter, InFlight
  <2>2. Cardinality(InFlight("enter")') = Cardinality(InFlight("enter")) - 1
    BY <1>11, <2>1, FS_RemoveElement
  <2>3. totalEntries + Cardinality(InFlight("enter")) < SeatCap + Cardinality(Requests)
    BY <2>1 DEF TourInv, CapBound
  <2> QED
    BY <1>11, <2>2, <2>3, FewInFlight, PricesAssumption DEF TourInv, TourTypeOK, CapBound
<1>10. CountersMatch'
  <2>1. /\ totalEntries = Cardinality(entries)
        /\ overlapped \/ Cardinality(entries) <= SeatCap
    BY DEF Enter, TourInv, CountersMatch
  <2>2. totalEntries' = Cardinality(entries')
    BY <1>2, <2>1 DEF Enter, Settle, Count
  <2>3. ~overlapped' => ~overlapped /\ request[r].entries = totalEntries
    <3>1. overlapped' = (overlapped \/ missed' # 0)
      BY Zenon DEF Enter, Settle
    <3>2. missed' = 0 => request[r].entries = totalEntries
      BY <1>1, <1>7 DEF TourInv, TourTypeOK
    <3> QED
      BY <3>1, <3>2, Zenon
  <2>4. ~overlapped' => Cardinality(entries') <= SeatCap
    BY <1>1, <1>2, <2>1, <2>3, PricesAssumption DEF TourInv, ReadsHold, Enter
  <2>5. ~(repriced' > 0) => prizePool' = Pool(price', totalEntries' - missed')
    <3>1. repriced' = repriced /\ price' = price /\ repriced \in Nat
      BY DEF Enter, TourInv, TourTypeOK
    <3>2. ~(repriced > 0) => request[r].buyIn = price
      BY <1>1, <3>1 DEF TourInv, ReadsHold
    <3>3. prizePool' = Pool(request[r].buyIn, request[r].entries + 1)
      BY <1>1 DEF Enter, Settle
    <3>4. totalEntries' - missed' = request[r].entries + 1
      BY <1>1, <1>7 DEF Enter, Settle, Count, TourInv, TourTypeOK
    <3> QED
      BY <3>1, <3>2, <3>3, <3>4
  <2>6. settled' = TRUE
    BY DEF Enter, Settle
  <2>7. entries' # {} => Cardinality(entries') < SeatCap + Cardinality(Requests)
    <3>1. Cardinality(entries') = 0 => entries' = {}
      BY <1>2, FS_EmptySet
    <3>2. Cardinality(InFlight("enter")') \in Nat
      BY <1>11
    <3> QED
      BY <1>2, <1>12, <2>2, <3>1, <3>2, FewInFlight, PricesAssumption DEF CapBound
  <2> QED
    BY <2>2, <2>4, <2>5, <2>6, <2>7 DEF CountersMatch
<1> QED
  BY <1>3, <1>8, <1>9, <1>10, <1>12 DEF TourInv

\* So does a withdrawal (unregisterPlayer).
LEMMA WithdrawKeeps == ASSUME TourInv, NEW r \in Requests, Withdraw(r) PROVE TourInv'
<1> DEFINE u == ByUser[r]
           cost == Cost(request[r].buyIn)
<1>1. /\ request[r] \in Request /\ request[r] # NoRequest
      /\ request[r].entries \in Int /\ request[r].buyIn \in Prices
      /\ cost \in Nat /\ u \in Entrants
  BY InFlightReads DEF Withdraw
<1>2. IsFiniteSet(entries') /\ Cardinality(entries') = Cardinality(entries) - 1
      /\ Cardinality(entries) \in Nat
  <2>1. IsFiniteSet(entries) /\ u \in entries /\ entries' = entries \ {u}
    BY DEF Withdraw, StillIn, TourInv, TourTypeOK
  <2> HIDE DEF u
  <2> QED
    BY <2>1, FS_RemoveElement, FS_CardinalityType
<1>3. request' \in [Requests -> Request \cup {NoRequest}] /\ ReadsHold'
  BY ReadsLeft DEF Withdraw, Settle
<1> HIDE DEF cost
<1>4. /\ savings' = [savings EXCEPT ![u] = @ + cost] /\ paid' = [paid EXCEPT ![u] = 0]
      /\ spilled' = [spilled EXCEPT ![u] = @ + cost - paid[u]] /\ entries' = entries \ {u}
  BY DEF Withdraw, StillIn, cost
<1>5. /\ savings' \in [Entrants -> Int] /\ paid' \in [Entrants -> Int]
      /\ spilled' \in [Entrants -> Int] /\ entries' \subseteq Entrants
  BY <1>1, <1>4 DEF TourInv, TourTypeOK
<1>6. totalEntries' \in Int
  BY DEF TourInv, TourTypeOK, Withdraw, Settle, Count
<1>7. overlapped' \in BOOLEAN /\ settled' \in BOOLEAN /\ missed' = totalEntries - request[r].entries
  BY Zenon DEF Withdraw, Settle
<1>8. TourTypeOK'
  BY <1>1, <1>2, <1>3, <1>5, <1>6, <1>7 DEF TourInv, TourTypeOK, Withdraw
<1>9. TourBooks'
  <2> SUFFICES ASSUME NEW v \in Entrants
               PROVE  /\ savings'[v] = Savings - paid'[v] + spilled'[v]
                      /\ v \notin entries' => paid'[v] = 0
    BY DEF TourBooks
  <2>1. /\ savings[v] = Savings - paid[v] + spilled[v]
        /\ v \notin entries => paid[v] = 0
        /\ savings[v] \in Int /\ paid[v] \in Int /\ spilled[v] \in Int
    BY DEF TourInv, TourTypeOK, TourBooks
  <2>2. /\ savings \in [Entrants -> Int] /\ paid \in [Entrants -> Int]
        /\ spilled \in [Entrants -> Int]
    BY DEF TourInv, TourTypeOK
  <2>3. CASE v = u
    <3>1. /\ savings'[v] = savings[v] + cost /\ paid'[v] = 0
          /\ spilled'[v] = spilled[v] + cost - paid[v]
      BY <1>4, <2>1, <2>2, <2>3
    <3> QED
      BY <1>1, <2>1, <3>1, PricesAssumption
  <2>4. CASE v # u
    <3>1. /\ savings'[v] = savings[v] /\ paid'[v] = paid[v] /\ spilled'[v] = spilled[v]
          /\ v \in entries' <=> v \in entries
      BY <1>4, <2>2, <2>4
    <3> QED
      BY <2>1, <3>1
  <2> QED
    BY <2>3, <2>4
<1>11. /\ InFlight("enter")' = InFlight("enter") \ {r} /\ IsFiniteSet(InFlight("enter"))
       /\ Cardinality(InFlight("enter")') \in Nat /\ Cardinality(InFlight("enter")) \in Nat
       /\ totalEntries' = totalEntries - 1
  BY <1>1, ReadsLeft, FewInFlight, FS_Subset, FS_CardinalityType DEF Withdraw, Settle, Count
<1>12. CapBound'
  BY <1>6, <1>11, CapStays DEF TourInv, TourTypeOK
<1>10. CountersMatch'
  <2>1. /\ totalEntries = Cardinality(entries)
        /\ overlapped \/ Cardinality(entries) <= SeatCap
    BY DEF Withdraw, TourInv, CountersMatch
  <2>2. totalEntries' = Cardinality(entries')
    BY <1>2, <2>1 DEF Withdraw, Settle, Count
  <2>3. ~overlapped' => ~overlapped /\ request[r].entries = totalEntries
    <3>1. overlapped' = (overlapped \/ missed' # 0)
      BY Zenon DEF Withdraw, Settle
    <3>2. missed' = 0 => request[r].entries = totalEntries
      BY <1>1, <1>7 DEF TourInv, TourTypeOK
    <3> QED
      BY <3>1, <3>2, Zenon
  <2>4. ~overlapped' => Cardinality(entries') <= SeatCap
    BY <1>2, <2>1, <2>3, PricesAssumption
  <2>5. ~(repriced' > 0) => prizePool' = Pool(price', totalEntries' - missed')
    <3>1. repriced' = repriced /\ price' = price /\ repriced \in Nat
      BY DEF Withdraw, TourInv, TourTypeOK
    <3>2. ~(repriced > 0) => request[r].buyIn = price
      BY <1>1, <3>1 DEF TourInv, ReadsHold
    <3>3. prizePool' = Pool(request[r].buyIn, request[r].entries - 1)
      BY <1>1 DEF Withdraw, Settle
    <3>4. totalEntries' - missed' = request[r].entries - 1
      BY <1>1, <1>7 DEF Withdraw, Settle, Count, TourInv, TourTypeOK
    <3> QED
      BY <3>1, <3>2, <3>3, <3>4
  <2>6. settled' = TRUE
    BY DEF Withdraw, Settle
  <2>7. entries' # {} => Cardinality(entries') < SeatCap + Cardinality(Requests)
    <3>1. Cardinality(entries') = 0 => entries' = {}
      BY <1>2, FS_EmptySet
    <3>2. Cardinality(InFlight("enter")') \in Nat
      BY <1>11
    <3> QED
      BY <1>2, <1>12, <2>2, <3>1, <3>2, FewInFlight, PricesAssumption DEF CapBound
  <2> QED
    BY <2>2, <2>4, <2>5, <2>6, <2>7 DEF CountersMatch
<1> QED
  BY <1>3, <1>8, <1>9, <1>10, <1>12 DEF TourInv

(***************************************************************************)
(* The administrator, the clock and the lifecycle job.                     *)
(***************************************************************************)

\* A deleted tournament takes its entries with it.
LEMMA DeleteKeeps == ASSUME TourInv, Delete PROVE TourInv'
<1>1. /\ spilled' \in [Entrants -> Int] /\ paid' \in [Entrants -> Int]
      /\ entries' \subseteq Entrants /\ savings' \in [Entrants -> Int]
  BY DEF Delete, TourInv, TourTypeOK
<1>2. IsFiniteSet(entries')
  BY FS_EmptySet DEF Delete
<1>3. status' \in Statuses
  BY DEF Delete, Statuses
<1>4. TourTypeOK'
  BY <1>1, <1>2, <1>3 DEF Delete, TourInv, TourTypeOK
<1>5. TourBooks'
  BY PricesAssumption DEF Delete, TourInv, TourTypeOK, TourBooks
<1>6. CountersMatch' /\ ReadsHold'
  BY DEF Delete, TourInv, CountersMatch, ReadsHold
<1>7. CapBound'
  BY DEF Delete, TourInv, CapBound, InFlight
<1> QED
  BY <1>4, <1>5, <1>6, <1>7 DEF TourInv

\* A price change is counted, so no promise about the pool is left.
LEMMA RepriceKeeps == ASSUME TourInv, NEW p \in Prices, Reprice(p) PROVE TourInv'
<1>1. repriced' \in Nat /\ repriced' > 0
  BY DEF Reprice, TourInv, TourTypeOK
<1>2. TourTypeOK'
  BY <1>1 DEF Reprice, TourInv, TourTypeOK
<1>3. TourBooks' /\ CountersMatch' /\ ReadsHold' /\ CapBound'
  BY <1>1 DEF Reprice, TourInv, TourBooks, CountersMatch, ReadsHold, CapBound, InFlight
<1> QED
  BY <1>2, <1>3 DEF TourInv

\* The job's rules never lead to or from a deleted tournament.
LEMMA LifecycleKeeps == ASSUME TourInv, Lifecycle PROVE TourInv'
<1> USE DEF field, past
<1>1. CASE Transition
  <2>1. cron # NoRule => cron.to \in Statuses \ {"DELETED"}
    BY DEF TourInv, TourTypeOK, Move
  <2>2. status' \in Statuses /\ (status' = "DELETED" <=> status = "DELETED")
    BY <1>1, <2>1 DEF Transition, TourInv, TourTypeOK
  <2>3. TourTypeOK'
    BY <1>1, <2>2 DEF Transition, TourInv, TourTypeOK
  <2>4. TourBooks' /\ CountersMatch' /\ ReadsHold' /\ CapBound'
    BY <1>1, <2>2 DEF Transition, TourInv, TourBooks, CountersMatch, ReadsHold, CapBound, InFlight
  <2> QED
    BY <2>3, <2>4 DEF TourInv
<1>2. ASSUME NEW rule \in Rules, Look(rule) PROVE TourInv'
  <2>1. rule.to \in Statuses \ {"DELETED"}
    BY DEF Rules, Statuses
  <2>2. cron' \in Move
    BY <1>2, <2>1 DEF Look, Move, TourInv, TourTypeOK
  <2>3. TourTypeOK'
    BY <1>2, <2>2 DEF Look, TourInv, TourTypeOK
  <2>4. TourBooks' /\ CountersMatch' /\ ReadsHold' /\ CapBound'
    BY <1>2 DEF Look, TourInv, TourBooks, CountersMatch, ReadsHold, CapBound, InFlight
  <2> QED
    BY <2>3, <2>4 DEF TourInv
<1> QED
  BY <1>1, <1>2 DEF Lifecycle

\* Every step keeps the invariant.
LEMMA TourStep == TourInv /\ [TourNext]_tour => TourInv'
<1> SUFFICES ASSUME TourInv, [TourNext]_tour PROVE TourInv'
  OBVIOUS
<1> USE DEF field, past
<1>1. ASSUME NEW r \in Requests, AskEnter(r) PROVE TourInv'
  BY <1>1, NotedRequest DEF AskEnter
<1>2. ASSUME NEW r \in Requests, AskLeave(r) PROVE TourInv'
  BY <1>2, NotedRequest DEF AskLeave
<1>3. ASSUME NEW r \in Requests, Abort(r) PROVE TourInv'
  <2>1. /\ request' \in [Requests -> Request \cup {NoRequest}] /\ ReadsHold'
        /\ InFlight("enter")' \subseteq InFlight("enter")
    BY <1>3, ReadsLeft DEF Abort
  <2>3. CapBound'
    BY <1>3, <2>1, CapStays DEF Abort, TourInv, TourTypeOK
  <2>2. TourTypeOK' /\ TourBooks' /\ CountersMatch'
    BY <1>3, <2>1 DEF Abort, TourInv, TourTypeOK, TourBooks, CountersMatch
  <2> QED
    BY <2>1, <2>2, <2>3 DEF TourInv
<1>4. ASSUME PutOff \/ TimePasses \/ UNCHANGED tour PROVE TourInv'
  <2>1. /\ UNCHANGED <<status, lateReg, price, entries, totalEntries, prizePool, savings>>
        /\ UNCHANGED <<request, cron, overlapped, settled, missed, repriced, paid, spilled>>
    BY <1>4 DEF PutOff, TimePasses, tour, field, past
  <2>2. TourTypeOK' /\ TourBooks'
    BY <2>1, Zenon DEF TourInv, TourTypeOK, TourBooks
  <2>3. CountersMatch'
    BY <2>1, Zenon DEF TourInv, CountersMatch
  <2>4. ReadsHold' /\ CapBound'
    BY <2>1, Zenon DEF TourInv, ReadsHold, CapBound, InFlight
  <2> QED
    BY <2>2, <2>3, <2>4 DEF TourInv
<1> QED
  BY <1>1, <1>2, <1>3, <1>4, EnterKeeps, WithdrawKeeps, RepriceKeeps, DeleteKeeps, LifecycleKeeps
     DEF TourNext

(***************************************************************************)
(* The theorems.                                                           *)
(***************************************************************************)

\* Of the wallets only: whatever requests overlap and whatever the administrator and the
\* job do meanwhile, every wallet has what it had less what its owner paid for the entry he
\* holds, but for refunds at another price and entries deleted with the tournament
\* (registerPlayer, unregisterPlayer: one commit moves the money and the entry).
THEOREM TourBooksBalance == TourSpec => []TourBooks
<1>1. TourInv => TourBooks
  BY DEF TourInv
<1> QED
  BY <1>1, TourInitial, TourStep, PTL DEF TourSpec

\* The number of entries a tournament shows is the number it has, whatever overlaps.  The
\* seat cap holds without overlaps, and is exceeded by fewer than there are requests; the
\* prize pool of a tournament whose price nobody changed is 0 until the first commit, and
\* then wrong by what the last commit had not read (the increments and the writes of what
\* was read in registerPlayer and unregisterPlayer).
THEOREM CountersAreRight == TourSpec => []CountersMatch
<1>1. TourInv => CountersMatch
  BY DEF TourInv
<1> QED
  BY <1>1, TourInitial, TourStep, PTL DEF TourSpec

(***************************************************************************)
(* The archive of hands.                                                   *)
(***************************************************************************)
HistSpec == HistInit /\ [][HistNext]_hist

HistTypes ==
    /\ stream \in [Tables -> Seq(Hands)] /\ group \in [Tables -> Nat \cup {NoGroup}]
    /\ loop \in {"discover", "read", "add", "ack"} /\ watched \in SUBSET Tables
    /\ inbox \in Seq(Hands)
    /\ job \in [Hands -> Int] /\ running \in [Hands -> Int] /\ house \in Int
    /\ loop \in {"add", "ack"} => inbox # <<>>
    /\ \A t \in watched : group[t] # NoGroup

\* The hand is in its table's stream.
Ended(h) == \E i \in DOMAIN stream[TableOf[h]] : stream[TableOf[h]][i] = h

\* A stream has the hands of its table; what is read, queued or being saved came from it.
FromStreams ==
    /\ \A t \in Tables : \A i \in DOMAIN stream[t] : TableOf[stream[t][i]] = t
    /\ \A i \in DOMAIN inbox : Ended(inbox[i])
    /\ \A h \in Hands : job[h] # Unqueued \/ running[h] > 0 => Ended(h)

\* S are the hands saved, and the house has their rake.
Credited(S) ==
    /\ IsFiniteSet(S) /\ IsFiniteSet(archived)
    /\ \A h \in S : Ended(h)
    /\ Cardinality(S) = Cardinality(archived) /\ {IdOf[h] : h \in S} = archived
    /\ house = SumFunctionOnSet(RakeOf, S)

RakeCredited == \E S \in SUBSET Hands : Credited(S)

HistInv == HistTypes /\ FromStreams /\ RakeCredited

\* A hand that ended stays so: streams only grow.
LEMMA StreamsGrow ==
    ASSUME HistInv, NEW g \in Hands, HandEnds(g)
    PROVE  /\ stream' \in [Tables -> Seq(Hands)]
           /\ \A h \in Hands : Ended(h) => Ended(h)'
           /\ \A t \in Tables : \A i \in DOMAIN stream'[t] : TableOf[stream'[t][i]] = t
<1> DEFINE t == TableOf[g]
           s == stream[t]
<1>1. t \in Tables /\ s \in Seq(Hands) /\ stream' = [stream EXCEPT ![t] = Append(s, g)]
  BY HandsAssumption DEF HistInv, HistTypes, HandEnds
<1>2. stream'[t] = Append(s, g) /\ \A u \in Tables : u # t => stream'[u] = stream[u]
  BY <1>1 DEF HistInv, HistTypes
<1>3. /\ DOMAIN Append(s, g) = 1..Len(s) + 1 /\ DOMAIN s = 1..Len(s)
      /\ \A i \in DOMAIN s : i \in DOMAIN Append(s, g) /\ Append(s, g)[i] = s[i]
      /\ Append(s, g)[Len(s) + 1] = g /\ Len(s) \in Nat
  BY <1>1
<1>4. stream' \in [Tables -> Seq(Hands)]
  BY <1>1 DEF HistInv, HistTypes
<1>5. ASSUME NEW h \in Hands, Ended(h)
      PROVE  Ended(h)'
  <2>1. PICK i \in DOMAIN stream[TableOf[h]] : stream[TableOf[h]][i] = h
    BY <1>5 DEF Ended
  <2>2. TableOf[h] \in Tables
    BY HandsAssumption
  <2>3. CASE TableOf[h] = t
    <3> HIDE DEF t
    <3> QED
      BY <1>2, <1>3, <2>1, <2>3 DEF Ended
  <2>4. CASE TableOf[h] # t
    <3> HIDE DEF t
    <3> QED
      BY <1>2, <2>1, <2>2, <2>4 DEF Ended
  <2> QED
    BY <2>3, <2>4
<1>6. ASSUME NEW u \in Tables, NEW i \in DOMAIN stream'[u]
      PROVE  TableOf[stream'[u][i]] = u
  <2>1. CASE u # t
    BY <1>2, <2>1 DEF HistInv, FromStreams
  <2>2. CASE u = t
    <3>1. i \in DOMAIN s \/ i = Len(s) + 1
      BY <1>2, <1>3, <2>2
    <3> QED
      BY <1>1, <1>2, <1>3, <2>2, <3>1 DEF HistInv, FromStreams
  <2> QED
    BY <2>1, <2>2
<1> QED
  BY <1>4, <1>5, <1>6

\* A finite set can be listed.
LEMMA Listed ==
    ASSUME NEW S, IsFiniteSet(S)
    PROVE  /\ SetToSeq(S) \in [1..Cardinality(S) -> S] /\ Cardinality(S) \in Nat
<1>1. Cardinality(S) \in Nat /\ ExistsBijection(1..Cardinality(S), S)
  BY FS_CardinalityType
<1> DEFINE n == Cardinality(S)
<1>2. PICK f \in Bijection(1..n, S) : TRUE
  BY <1>1 DEF ExistsBijection
<1> HIDE DEF n
<1>3. f \in [1..n -> S] /\ IsInjective(f)
  BY <1>2 DEF Bijection, Injection, IsInjective
<1>4. \E h \in [1..n -> S] : IsInjective(h)
  BY <1>3
<1> QED
  BY <1>1, <1>4 DEF SetToSeq, n

\* A hand's end adds it to its table's stream (game.gateway.ts's XADD).
LEMMA HandEndsKeeps ==
    ASSUME HistInv, NEW g \in Hands, HandEnds(g)
    PROVE  HistInv'
<1>1. UNCHANGED <<group, loop, watched, inbox, job, running, archived, house>>
  BY DEF HandEnds, archive
<1>2. /\ stream' \in [Tables -> Seq(Hands)]
      /\ \A h \in Hands : Ended(h) => Ended(h)'
      /\ \A t \in Tables : \A i \in DOMAIN stream'[t] : TableOf[stream'[t][i]] = t
  BY StreamsGrow
<1>3. HistTypes'
  BY <1>1, <1>2 DEF HistInv, HistTypes
<1>4. FromStreams'
  <2>1. (\A i \in DOMAIN inbox : Ended(inbox[i]))'
    BY <1>1, <1>2 DEF HistInv, HistTypes, FromStreams
  <2>2. \A h \in Hands : job'[h] # Unqueued \/ running'[h] > 0 => Ended(h)'
    BY <1>1, <1>2 DEF HistInv, FromStreams
  <2> QED
    BY <1>2, <2>1, <2>2 DEF FromStreams
<1>5. RakeCredited'
  <2>1. PICK S \in SUBSET Hands : Credited(S)
    BY DEF HistInv, RakeCredited
  <2>2. Credited(S)'
    BY <1>1, <1>2, <2>1 DEF Credited
  <2> QED
    BY <2>2 DEF RakeCredited
<1> QED
  BY <1>3, <1>4, <1>5 DEF HistInv

\* Steps of the consumer leave the books, and the streams, as they are.
LEMMA BooksUnchanged ==
    ASSUME HistInv, UNCHANGED <<stream, archived, house>>
    PROVE  /\ \A h : Ended(h)' <=> Ended(h)
           /\ RakeCredited'
<1>1. \A h : Ended(h)' <=> Ended(h)
  BY DEF Ended
<1>2. PICK S \in SUBSET Hands : Credited(S)
  BY DEF HistInv, RakeCredited
<1>3. Credited(S)'
  BY <1>1, <1>2 DEF Credited
<1> QED
  BY <1>1, <1>3 DEF RakeCredited

\* What is discovered is followed from the start that is chosen.
LEMMA DiscoverKeeps ==
    ASSUME HistInv, Discover
    PROVE  HistInv'
<1>1. PICK found \in SUBSET Tables :
          /\ watched' = found /\ loop' = "read"
          /\ group' = [t \in Tables |-> IF t \in found THEN Start(t) ELSE group[t]]
  BY DEF Discover
<1>2. UNCHANGED <<stream, inbox, job, running, archived, house>>
  BY DEF Discover, archive
<1>3. \A t \in Tables : Start(t) \in Nat
  BY DEF Start, HistInv, HistTypes
<1>4. \A t \in Tables : Start(t) # NoGroup
  BY <1>3 DEF NoGroup
<1>5. HistTypes'
  BY <1>1, <1>2, <1>3, <1>4 DEF HistInv, HistTypes
<1>6. RakeCredited' /\ \A h : Ended(h)' <=> Ended(h)
  BY <1>2, BooksUnchanged
<1>7. FromStreams'
  BY <1>2, <1>6 DEF HistInv, FromStreams
<1> QED
  BY <1>5, <1>6, <1>7 DEF HistInv

\* What is read is the next hand of some streams, each the hand of its table.
LEMMA ReadStreamsKeeps ==
    ASSUME HistInv, ReadStreams
    PROVE  HistInv'
<1> DEFINE due == {t \in watched : group[t] < Len(stream[t])}
           ready == SetToSeq(due)
<1>1. /\ inbox' = [i \in DOMAIN ready |-> stream[ready[i]][group[ready[i]] + 1]]
      /\ group' = [t \in Tables |-> IF t \in ToSet(ready) THEN group[t] + 1 ELSE group[t]]
      /\ loop' = IF ready = <<>> THEN "discover" ELSE "add"
      /\ UNCHANGED <<stream, watched, job, running, archived, house>>
  BY DEF ReadStreams, archive
<1>2. due \in SUBSET watched /\ watched \in SUBSET Tables
      /\ \A t \in due : group[t] # NoGroup /\ group[t] < Len(stream[t])
  BY DEF HistInv, HistTypes
<1> HIDE DEF due
<1>3. IsFiniteSet(due)
  BY <1>2, HandsAssumption, FS_Subset
<1>4. ready \in [1..Cardinality(due) -> due] /\ Cardinality(due) \in Nat
  BY <1>3, Listed
<1>5. \A i \in DOMAIN ready : ready[i] \in due /\ ready[i] \in Tables
  BY <1>2, <1>4
<1>6. \A t \in due : /\ stream[t] \in Seq(Hands) /\ group[t] \in Nat
                     /\ group[t] + 1 \in DOMAIN stream[t]
  BY <1>2 DEF HistInv, HistTypes
<1>7. DOMAIN ready = 1..Cardinality(due) /\ ToSet(ready) \in SUBSET due
  BY <1>4, <1>5 DEF ToSet
<1> HIDE DEF ready
<1>8. \A i \in DOMAIN inbox' : \E t \in due : /\ inbox'[i] = stream[t][group[t] + 1]
                                              /\ inbox'[i] \in Hands
  BY <1>1, <1>5, <1>6
<1>9. inbox' \in Seq(Hands)
  <2>1. inbox' \in [1..Cardinality(due) -> Hands]
    BY <1>1, <1>7, <1>8
  <2> QED
    BY <1>4, <2>1
<1>10. inbox' = <<>> => ready = <<>>
  BY <1>1, <1>4, <1>7
<1>11. HistTypes'
  <2>1. group' \in [Tables -> Nat \cup {NoGroup}]
    <3>1. \A t \in Tables : (IF t \in ToSet(ready) THEN group[t] + 1 ELSE group[t])
                                \in Nat \cup {NoGroup}
      BY <1>6, <1>7 DEF HistInv, HistTypes
    <3> QED
      BY <1>1, <3>1
  <2>2. \A t \in watched' : group'[t] # NoGroup
    BY <1>1, <1>2, <1>6, <1>7 DEF HistInv, HistTypes, NoGroup
  <2>3. loop' \in {"discover", "read", "add", "ack"}
        /\ (loop' \in {"add", "ack"} => inbox' # <<>>)
    BY <1>1, <1>10
  <2> QED
    BY <1>1, <1>9, <2>1, <2>2, <2>3 DEF HistInv, HistTypes
<1>12. RakeCredited' /\ \A h : Ended(h)' <=> Ended(h)
  BY <1>1, BooksUnchanged
<1>13. \A i \in DOMAIN inbox' : Ended(inbox'[i])
  <2> SUFFICES ASSUME NEW i \in DOMAIN inbox' PROVE Ended(inbox'[i])
    OBVIOUS
  <2>1. PICK t \in due : inbox'[i] = stream[t][group[t] + 1]
    BY <1>8
  <2>2. t \in Tables /\ group[t] + 1 \in DOMAIN stream[t]
    BY <1>2, <1>6
  <2>3. TableOf[inbox'[i]] = t
    BY <2>1, <2>2 DEF HistInv, FromStreams
  <2> QED
    BY <2>1, <2>2, <2>3 DEF Ended
<1>14. FromStreams'
  BY <1>1, <1>12, <1>13 DEF HistInv, FromStreams
<1> QED
  BY <1>11, <1>12, <1>14 DEF HistInv

\* The hand at hand was read, so it ended; it is queued, or taken off the list.
LEMMA HandledKeeps ==
    ASSUME HistInv, AddJob \/ Acknowledge \/ Interrupted
    PROVE  HistInv'
<1>1. UNCHANGED <<stream, group, watched, running, archived, house>>
  BY DEF AddJob, Acknowledge, Interrupted, archive
<1>2. RakeCredited' /\ \A h : Ended(h)' <=> Ended(h)
  BY <1>1, BooksUnchanged
<1>3. inbox \in Seq(Hands) /\ (loop \in {"add", "ack"} => inbox # <<>>)
  BY DEF HistInv, HistTypes
<1>4. CASE AddJob
  <2>1. /\ inbox # <<>> /\ job' = [job EXCEPT ![Head(inbox)] = Attempts]
        /\ loop' = "ack" /\ inbox' = inbox
    BY <1>3, <1>4 DEF AddJob
  <2>2. Head(inbox) \in Hands /\ Ended(Head(inbox))
    BY <1>3, <2>1 DEF HistInv, FromStreams
  <2>3. HistTypes'
    BY <1>1, <2>1, <2>2 DEF HistInv, HistTypes, Attempts
  <2>4. FromStreams'
    BY <1>1, <1>2, <2>1, <2>2 DEF HistInv, HistTypes, FromStreams
  <2> QED
    BY <1>2, <2>3, <2>4 DEF HistInv
<1>5. CASE Acknowledge
  <2>1. /\ inbox # <<>> /\ inbox' = Tail(inbox) /\ job' = job
        /\ loop' = IF Len(inbox) = 1 THEN "discover" ELSE "add"
    BY <1>3, <1>5 DEF Acknowledge, archive
  <2>2. /\ Tail(inbox) \in Seq(Hands)
        /\ Len(inbox) # 1 => Tail(inbox) # <<>>
        /\ \A i \in DOMAIN Tail(inbox) : \E j \in DOMAIN inbox : Tail(inbox)[i] = inbox[j]
    <3>1. /\ DOMAIN Tail(inbox) = 1..Len(inbox) - 1 /\ DOMAIN inbox = 1..Len(inbox)
          /\ Len(inbox) \in Nat /\ Len(inbox) # 0
      BY <1>3, <2>1
    <3>2. \A i \in DOMAIN Tail(inbox) : Tail(inbox)[i] = inbox[i + 1] /\ i + 1 \in DOMAIN inbox
      BY <1>3, <2>1, <3>1
    <3> QED
      BY <1>3, <2>1, <3>1, <3>2
  <2>3. HistTypes'
    BY <1>1, <2>1, <2>2 DEF HistInv, HistTypes
  <2>4. FromStreams'
    BY <1>1, <1>2, <2>1, <2>2 DEF HistInv, FromStreams
  <2> QED
    BY <1>2, <2>3, <2>4 DEF HistInv
<1>6. CASE Interrupted
  <2>1. loop' = "discover" /\ inbox' = <<>> /\ job' = job
    BY <1>6 DEF Interrupted, archive
  <2>2. HistTypes'
    BY <1>1, <2>1 DEF HistInv, HistTypes
  <2>3. FromStreams'
    BY <1>1, <1>2, <2>1 DEF HistInv, FromStreams
  <2> QED
    BY <1>2, <2>2, <2>3 DEF HistInv
<1> QED
  BY <1>4, <1>5, <1>6

\* A worker starts, stalls or gives up only with a hand that ended, and no books change
\* (the archive-hand processor).
LEMMA WorkersKeep ==
    ASSUME HistInv, NEW h \in Hands, LookUp(h) \/ Stalled(h) \/ Fail(h)
    PROVE  HistInv'
<1>1. UNCHANGED <<stream, group, loop, watched, inbox, archived, house>>
  BY DEF LookUp, Stalled, Fail, nexus
<1>2. RakeCredited' /\ \A g : Ended(g)' <=> Ended(g)
  BY <1>1, BooksUnchanged
<1>3. /\ job' \in [Hands -> Int] /\ running' \in [Hands -> Int]
      /\ \A g \in Hands : g # h => job'[g] = job[g] /\ running'[g] = running[g]
  BY DEF LookUp, Stalled, Fail, Done, HistInv, HistTypes
<1>4. Ended(h)
  <2>1. job[h] # Unqueued \/ running[h] > 0
    BY DEF LookUp, Stalled, Fail, Queued, Unqueued
  <2> QED
    BY <2>1 DEF HistInv, FromStreams
<1>5. HistTypes'
  BY <1>1, <1>3 DEF HistInv, HistTypes
<1>6. FromStreams'
  BY <1>1, <1>2, <1>3, <1>4 DEF HistInv, FromStreams
<1> QED
  BY <1>2, <1>5, <1>6 DEF HistInv

\* A hand saved is new to the books, by the primary key, so its rake is added once.
LEMMA SaveKeeps ==
    ASSUME HistInv, NEW h \in Hands, Save(h)
    PROVE  HistInv'
<1>1. /\ running[h] > 0 /\ IdOf[h] \notin archived
      /\ archived' = archived \cup {IdOf[h]} /\ house' = house + RakeOf[h]
      /\ job' = [job EXCEPT ![h] = Done]
      /\ running' = [running EXCEPT ![h] = @ - 1]
      /\ UNCHANGED <<stream, group, loop, watched, inbox>>
  BY DEF Save, IsNew, nexus
<1>2. Ended(h) /\ \A g : Ended(g)' <=> Ended(g)
  BY <1>1 DEF HistInv, FromStreams, Ended
<1>3. HistTypes'
  <2>1. RakeOf[h] \in Int /\ house \in Int
    BY HandsAssumption DEF HistInv, HistTypes
  <2>2. house' \in Int
    BY <1>1, <2>1
  <2>3. job' \in [Hands -> Int] /\ running' \in [Hands -> Int]
    BY <1>1 DEF HistInv, HistTypes, Done
  <2> QED
    BY <1>1, <2>2, <2>3 DEF HistInv, HistTypes
<1>4. FromStreams'
  BY <1>1, <1>2 DEF HistInv, HistTypes, FromStreams
<1>5. PICK S \in SUBSET Hands : Credited(S)
  BY DEF HistInv, RakeCredited
<1>6. h \notin S
  BY <1>1, <1>5 DEF Credited
<1>7. IsFiniteSet(S) /\ IsFiniteSet(archived)
  BY <1>5 DEF Credited
<1>8. /\ IsFiniteSet(S \cup {h}) /\ IsFiniteSet(archived')
      /\ Cardinality(S \cup {h}) = Cardinality(S) + 1
      /\ Cardinality(archived') = Cardinality(archived) + 1
  BY <1>1, <1>6, <1>7, FS_AddElement
<1>9. SumFunctionOnSet(RakeOf, S \cup {h}) = SumFunctionOnSet(RakeOf, S) + RakeOf[h]
  <2>1. \A g \in S \cup {h} : RakeOf[g] \in Int
    BY HandsAssumption
  <2> QED
    BY <1>6, <1>7, <2>1, SumAdd
<1>10. {IdOf[g] : g \in S \cup {h}} = archived'
  BY <1>1, <1>5 DEF Credited
<1>11. Credited(S \cup {h})'
  BY <1>1, <1>2, <1>5, <1>8, <1>9, <1>10 DEF Credited
<1>12. S \cup {h} \in SUBSET Hands
  OBVIOUS
<1>13. RakeCredited'
  BY <1>11, <1>12 DEF RakeCredited
<1> QED
  BY <1>3, <1>4, <1>13 DEF HistInv

LEMMA HistInvInit == HistInit => HistInv
<1> SUFFICES ASSUME HistInit PROVE HistInv
  OBVIOUS
<1>1. HistTypes
  BY DEF HistInit, HistTypes, NoGroup, Unqueued
<1>2. FromStreams
  BY HandsAssumption DEF HistInit, FromStreams
<1>3. Credited({})
  <2>1. IsFiniteSet({}) /\ Cardinality({}) = 0 /\ SumFunctionOnSet(RakeOf, {}) = 0
    BY FS_EmptySet, SumDefined
  <2> QED
    BY <2>1 DEF HistInit, Credited
<1>4. RakeCredited
  BY <1>3 DEF RakeCredited
<1> QED
  BY <1>1, <1>2, <1>4 DEF HistInv

LEMMA HistInvNext == HistInv /\ [HistNext]_hist => HistInv'
<1> SUFFICES ASSUME HistInv, [HistNext]_hist PROVE HistInv'
  OBVIOUS
<1>1. CASE UNCHANGED hist
  <2>1. UNCHANGED <<stream, group, loop, watched, inbox, job, running, archived, house>>
    BY <1>1 DEF hist, nexus, archive
  <2>2. RakeCredited' /\ \A h : Ended(h)' <=> Ended(h)
    BY <2>1, BooksUnchanged
  <2> QED
    BY <2>1, <2>2 DEF HistInv, HistTypes, FromStreams
<1>2. CASE HistNext
  BY <1>2, HandEndsKeeps, DiscoverKeeps, ReadStreamsKeeps, HandledKeeps, WorkersKeep, SaveKeeps
     DEF HistNext, Consumer, Worker
<1> QED
  BY <1>1, <1>2

LEMMA HistInvariant == HistSpec => []HistInv
BY HistInvInit, HistInvNext, PTL DEF HistSpec

\* The house is credited the rake of every saved hand once and of no other, however many
\* hands, tables, restarts, stalled jobs and failed calls there are
\* (ARCHITECTURE.md "Jobs must be safe to run twice").
THEOREM RakeCreditedOnce == HistSpec => []RakeOnce
<1>1. HistInv => RakeOnce
  <2> SUFFICES ASSUME HistInv PROVE RakeOnce
    OBVIOUS
  <2>1. PICK S \in SUBSET Hands : Credited(S)
    BY DEF HistInv, RakeCredited
  <2>2. \A h \in S : h \in ToSet(stream[TableOf[h]])
    BY <2>1 DEF Credited, Ended, ToSet
  <2> QED
    BY <2>1, <2>2 DEF Credited, RakeOnce
<1> QED
  BY <1>1, HistInvariant, PTL

(***************************************************************************)
(* The display of a table.                                                 *)
(***************************************************************************)
OrchSpec == OrchInit /\ [][OrchNext]_orch

Picture == [street : Nat, bets : BOOLEAN, phase : Phases]
Shot == [n : Nat, pic : Pictures]
Animation == [next : Shot, prev : Picture, gather : BOOLEAN, left : Nat]

OrchTypes ==
    /\ net \in [n : Nat, pic : Picture]
    /\ display \in [n : Nat, pic : Picture, same : BOOLEAN]
    /\ queue \in Seq(Shot) /\ busy \in BOOLEAN /\ flush \in {Off} \cup 0..FlushAfter

\* The queue is the last broadcasts, in order.
InOrder ==
    /\ \A i \in DOMAIN queue : queue[i].n = net.n - Len(queue) + i
    /\ queue # <<>> => queue[Len(queue)] = net

\* The animation of the picture after the one shown; it is over before the flush, and
\* what it is about to show has no new cards unless the bets are gathered.
Awaited(w) ==
    /\ w \in Animation
    /\ w.next.n = net.n - Len(queue) /\ (queue = <<>> => w.next = net)
    /\ display.n \in {w.next.n - 1, w.next.n}
    /\ w.prev.street = display.pic.street
    /\ flush # Off /\ w.left < flush
    /\ ~w.gather /\ w.next.pic.street > display.pic.street => ~display.pic.bets

OneAwaited == busy => \E w : waits = {w} /\ Awaited(w)

\* Otherwise the last broadcast is shown.
AtRest == ~busy => /\ waits = {} /\ queue = <<>>
                   /\ display.n = net.n /\ display.pic = net.pic

OrchInv == OrchTypes /\ InOrder /\ OneAwaited /\ AtRest

\* A picture is a picture, and none is none of those broadcast.
LEMMA PicturesLook == Pictures \subseteq Picture /\ NoPicture \in Picture
<1>1. NoPicture \in Picture
  BY DEF Picture, NoPicture, Phases
<1> QED
  BY <1>1, PicturesAssumption DEF Picture

\* New cards are gathered for if there are bets; an animation is over before the flush.
LEMMA WaitStarts ==
    ASSUME NEW d \in [n : Nat, pic : Picture, same : BOOLEAN], NEW next \in Shot
    PROVE  LET w == Wait(d, next)
           IN  /\ w \in Animation /\ w.next = next /\ w.prev = d.pic /\ w.left < FlushAfter
               /\ ~w.gather /\ next.pic.street > d.pic.street => ~d.pic.bets
<1> DEFINE event == EventType(d.pic, next.pic)
<1>1. /\ Wait(d, next).next = next /\ Wait(d, next).prev = d.pic
      /\ Wait(d, next).gather = Gathers(d.pic, next.pic)
      /\ Wait(d, next).left = Ceiling(event)
  BY DEF Wait
<1>2. d.pic \in Picture /\ next.pic \in Pictures /\ next.pic \in Picture
  BY PicturesLook DEF Shot
<1>3. Ceiling(event) \in Nat /\ Ceiling(event) < FlushAfter
  BY DEF Ceiling, FlushAfter
<1>4. Gathers(d.pic, next.pic) \in BOOLEAN
  BY DEF Gathers
<1>5. Wait(d, next) \in Animation
  BY <1>2, <1>3, <1>4 DEF Wait, Animation
<1>6. ASSUME next.pic.street > d.pic.street
      PROVE  event = "community"
  <2>1. next.pic.street \in Nat /\ d.pic.street \in Nat
    BY <1>2 DEF Picture
  <2>2. next.pic.phase # "preflop"
    BY <1>2, <1>6, <2>1, PicturesAssumption
  <2> QED
    BY <1>6, <2>2 DEF EventType
<1>7. next.pic.street > d.pic.street => Gathers(d.pic, next.pic) \/ ~d.pic.bets
  BY <1>6 DEF Gathers
<1> QED
  BY <1>1, <1>3, <1>5, <1>7

\* A new broadcast joins the queue, or starts its animation, and sets the flush back.
LEMMA ArriveKeeps ==
    ASSUME OrchInv, NEW pic \in Pictures, Arrive(pic)
    PROVE  OrchInv'
<1> DEFINE shot == [n |-> net.n + 1, pic |-> pic]
           q == Append(queue, shot)
<1>1. /\ net' = shot /\ display' = display /\ flush' = Rearm(shot, display)
  BY DEF Arrive
<1>2. /\ net.n \in Nat /\ display.n \in Nat /\ queue \in Seq(Shot) /\ Len(queue) \in Nat
      /\ display \in [n : Nat, pic : Picture, same : BOOLEAN] /\ busy \in BOOLEAN
  BY DEF OrchInv, OrchTypes
<1>3. shot \in Shot /\ shot \in [n : Nat, pic : Picture] /\ shot.n = net.n + 1 /\ shot.pic = pic
  BY <1>2, PicturesLook DEF Shot
<1> HIDE DEF shot
<1>4. display.n <= net.n
  <2>1. CASE ~busy
    BY <1>2, <2>1 DEF OrchInv, AtRest
  <2>2. CASE busy
    <3>1. PICK w : Awaited(w)
      BY <2>2 DEF OrchInv, OneAwaited
    <3> QED
      BY <1>2, <3>1 DEF Awaited
  <2> QED
    BY <2>1, <2>2
<1>5. flush' = FlushAfter
  BY <1>1, <1>2, <1>3, <1>4 DEF Rearm
<1>6. flush' \in {Off} \cup 0..FlushAfter
  BY <1>5 DEF FlushAfter
<1>7. CASE busy
  <2>1. queue' = q /\ busy' = busy /\ waits' = waits
    BY <1>1, <1>7 DEF Arrive
  <2>2. /\ q \in Seq(Shot) /\ Len(q) = Len(queue) + 1 /\ q # <<>>
        /\ q[Len(queue) + 1] = shot
        /\ \A i \in DOMAIN q :
              i \in Nat /\ (i # Len(queue) + 1 => i \in DOMAIN queue /\ q[i] = queue[i])
    BY <1>2, <1>3
  <2> HIDE DEF q
  <2>3. OrchTypes'
    BY <1>1, <1>2, <1>3, <1>6, <2>1, <2>2 DEF OrchTypes
  <2>4. InOrder'
    <3>1. \A i \in DOMAIN queue : queue[i].n = net.n - Len(queue) + i
      BY DEF OrchInv, InOrder
    <3>2. ASSUME NEW i \in DOMAIN q
          PROVE  q[i].n = net.n + 1 - (Len(queue) + 1) + i
      <4>1. CASE i = Len(queue) + 1
        BY <1>2, <1>3, <2>2, <4>1
      <4>2. CASE i # Len(queue) + 1
        BY <1>2, <2>2, <3>1, <4>2
      <4> QED
        BY <4>1, <4>2
    <3>3. Len(queue') = Len(queue) + 1 /\ net'.n = net.n + 1
      BY <1>1, <1>3, <2>1, <2>2
    <3>4. \A i \in DOMAIN queue' : queue'[i].n = net'.n - Len(queue') + i
      BY <1>2, <2>1, <2>2, <3>2, <3>3
    <3>5. queue'[Len(queue')] = net'
      BY <1>1, <2>1, <2>2, <3>3
    <3> QED
      BY <3>4, <3>5 DEF InOrder
  <2>5. PICK w : waits = {w} /\ Awaited(w)
    BY <1>7 DEF OrchInv, OneAwaited
  <2>6. Awaited(w)'
    <3>1. w.left \in Nat /\ flush \in 0..FlushAfter /\ w.left < flush
      BY <2>5 DEF Awaited, Animation, OrchInv, OrchTypes
    <3>2. w.left < flush' /\ flush' # Off
      BY <1>5, <3>1 DEF FlushAfter, Off
    <3>3. w.next.n = net'.n - Len(queue')
      BY <1>1, <1>2, <1>3, <2>1, <2>2, <2>5 DEF Awaited
    <3> QED
      BY <1>1, <2>1, <2>2, <2>5, <3>2, <3>3 DEF Awaited
  <2> QED
    BY <1>7, <2>1, <2>3, <2>4, <2>5, <2>6 DEF OrchInv, OneAwaited, AtRest
<1>8. CASE ~busy
  <2>1. queue = <<>> /\ waits = {} /\ display.n = net.n
    BY <1>8 DEF OrchInv, AtRest
  <2>2. Tail(q) = <<>> /\ Head(q) = shot
    BY <1>3, <2>1
  <2>3. /\ busy' = TRUE /\ queue' = <<>> /\ waits' = {Wait(display, shot)}
    BY <1>1, <1>8, <2>1, <2>2 DEF Arrive
  <2>4. PICK w : w = Wait(display, shot)
    OBVIOUS
  <2>5. /\ w \in Animation /\ w.next = shot /\ w.prev = display.pic /\ w.left < FlushAfter
        /\ ~w.gather /\ shot.pic.street > display.pic.street => ~display.pic.bets
    BY <1>2, <1>3, <2>4, WaitStarts
  <2> HIDE DEF q
  <2>6. OrchTypes'
    BY <1>1, <1>2, <1>3, <1>6, <2>3 DEF OrchTypes
  <2>7. Awaited(w)'
    <3>1. /\ w.next.n = net'.n - Len(queue') /\ w.next = net'
          /\ display'.n \in {w.next.n - 1, w.next.n}
      BY <1>1, <1>2, <1>3, <2>1, <2>3, <2>5
    <3>2. w.left < flush' /\ flush' # Off
      BY <1>5, <2>5 DEF FlushAfter, Off
    <3> QED
      BY <1>1, <2>5, <3>1, <3>2 DEF Awaited
  <2> QED
    BY <2>3, <2>4, <2>6, <2>7 DEF OrchInv, InOrder, OneAwaited, AtRest
<1> QED
  BY <1>2, <1>7, <1>8

\* An animation that is waited for is the only one.
LEMMA OnlyOne ==
    ASSUME OrchInv, NEW w \in waits
    PROVE  /\ busy /\ waits = {w} /\ Awaited(w)
           /\ w \in Animation /\ w.next.n \in Nat /\ net.n \in Nat /\ display.n \in Nat
           /\ w.next.pic \in Pictures /\ w.next.pic \in Picture /\ w.prev \in Picture
           /\ w.next \in [n : Nat, pic : Picture]
           /\ queue \in Seq(Shot) /\ Len(queue) \in Nat /\ flush \in 0..FlushAfter
<1>1. busy
  BY DEF OrchInv, OrchTypes, AtRest
<1>2. waits = {w} /\ Awaited(w)
  BY <1>1 DEF OrchInv, OneAwaited
<1> QED
  BY <1>1, <1>2, PicturesLook DEF Awaited, Animation, Shot, OrchInv, OrchTypes

\* The gather picture: the old cards stay, the bets go, and the flush is set back.
LEMMA GatherKeeps ==
    ASSUME OrchInv, NEW w \in waits, Gather(w)
    PROVE  OrchInv'
<1>1. /\ display' = [n |-> w.next.n, same |-> FALSE,
                     pic |-> [w.next.pic EXCEPT !.street = w.prev.street, !.bets = FALSE]]
      /\ waits' = (waits \ {w}) \cup {[w EXCEPT !.gather = FALSE, !.left = 2]}
      /\ flush' = FlushAfter
      /\ UNCHANGED <<net, queue, busy>>
  BY DEF Gather, Rearm
<1>2. /\ busy /\ waits = {w} /\ Awaited(w)
      /\ w \in Animation /\ w.next.n \in Nat /\ net.n \in Nat
      /\ w.next.pic \in Picture /\ w.prev \in Picture /\ w.next \in Shot
  BY OnlyOne DEF Animation
<1>3. PICK v : v = [w EXCEPT !.gather = FALSE, !.left = 2]
  OBVIOUS
<1>4. /\ v \in Animation /\ v.next = w.next /\ v.prev = w.prev /\ v.left = 2
  BY <1>2, <1>3 DEF Animation
<1>5. /\ display' \in [n : Nat, pic : Picture, same : BOOLEAN]
      /\ display'.n = w.next.n /\ display'.pic.street = w.prev.street /\ ~display'.pic.bets
  BY <1>1, <1>2 DEF Picture
<1>6. OrchTypes'
  <2>1. flush' \in {Off} \cup 0..FlushAfter
    BY <1>1 DEF FlushAfter
  <2> QED
    BY <1>1, <1>5, <2>1 DEF OrchInv, OrchTypes
<1>7. Awaited(v)'
  <2>1. v.left < flush' /\ flush' # Off
    BY <1>1, <1>4 DEF FlushAfter, Off
  <2>2. v.next.n = net'.n - Len(queue') /\ (queue' = <<>> => v.next = net')
    BY <1>1, <1>2, <1>4 DEF Awaited
  <2> QED
    BY <1>4, <1>5, <2>1, <2>2 DEF Awaited
<1>8. waits' = {v}
  BY <1>1, <1>2, <1>3
<1> QED
  BY <1>1, <1>2, <1>6, <1>7, <1>8 DEF OrchInv, InOrder, OneAwaited, AtRest

\* The picture is shown, and the next one of the queue is waited for.
LEMMA ShowKeeps ==
    ASSUME OrchInv, NEW w \in waits, Show(w)
    PROVE  OrchInv'
<1>1. /\ display' = [n |-> w.next.n, pic |-> w.next.pic, same |-> FALSE]
      /\ Follow(display', waits \ {w})
      /\ flush' = FlushAfter /\ net' = net
  BY DEF Show, Rearm
<1>2. /\ busy /\ waits = {w} /\ Awaited(w)
      /\ w.next.n \in Nat /\ net.n \in Nat /\ w.next.pic \in Picture
      /\ queue \in Seq(Shot) /\ Len(queue) \in Nat
  BY OnlyOne
<1>3. /\ display' \in [n : Nat, pic : Picture, same : BOOLEAN]
      /\ display'.n = w.next.n /\ display'.pic = w.next.pic
  BY <1>1, <1>2
<1>4. flush' \in {Off} \cup 0..FlushAfter
  BY <1>1 DEF FlushAfter
<1>5. CASE queue = <<>>
  <2>1. busy' = FALSE /\ waits' = {} /\ queue' = <<>>
    BY <1>1, <1>2, <1>5 DEF Follow
  <2>2. OrchTypes'
    <3>1. queue' \in Seq(Shot) /\ busy' \in BOOLEAN
      BY <1>2, <1>5, <2>1
    <3> QED
      BY <1>1, <1>3, <1>4, <3>1 DEF OrchInv, OrchTypes
  <2>3. w.next = net
    BY <1>2, <1>5 DEF Awaited
  <2> QED
    BY <1>1, <1>3, <2>1, <2>2, <2>3 DEF OrchInv, InOrder, OneAwaited, AtRest
<1>6. CASE queue # <<>>
  <2>1. PICK head : head = Head(queue)
    OBVIOUS
  <2>2. PICK v : v = Wait(display', head)
    OBVIOUS
  <2>3. busy' = TRUE /\ queue' = Tail(queue) /\ waits' = {v}
    <3>1. /\ busy' = TRUE /\ queue' = Tail(queue)
          /\ waits' = (waits \ {w}) \cup {Wait(display', Head(queue))}
      BY <1>1, <1>6 DEF Follow
    <3> QED
      BY <1>2, <2>1, <2>2, <3>1
  <2>4. /\ head \in Shot /\ head = queue[1] /\ 1 \in DOMAIN queue /\ Len(queue) \in DOMAIN queue
        /\ Tail(queue) \in Seq(Shot) /\ Len(Tail(queue)) = Len(queue) - 1 /\ Len(queue) # 0
        /\ \A i \in DOMAIN Tail(queue) : /\ i \in Nat /\ i + 1 \in DOMAIN queue
                                         /\ Tail(queue)[i] = queue[i + 1]
    <3>1. Len(queue) # 0 /\ DOMAIN queue = 1..Len(queue)
      BY <1>2, <1>6
    <3>2. Tail(queue) \in Seq(Shot) /\ Len(Tail(queue)) = Len(queue) - 1
          /\ DOMAIN Tail(queue) = 1..Len(queue) - 1
      BY <1>2, <1>6, <3>1
    <3>3. \A i \in 1..Len(queue) - 1 : Tail(queue)[i] = queue[i + 1]
      BY <1>2, <1>6, <3>1
    <3>4. head \in Shot /\ head = queue[1]
      BY <1>2, <1>6, <2>1, <3>1
    <3> QED
      BY <1>2, <3>1, <3>2, <3>3, <3>4
  <2>5. /\ v \in Animation /\ v.next = head /\ v.prev = display'.pic /\ v.left < FlushAfter
        /\ ~v.gather /\ head.pic.street > display'.pic.street => ~display'.pic.bets
    BY <1>3, <2>2, <2>4, WaitStarts
  <2>6. OrchTypes'
    BY <1>1, <1>3, <1>4, <2>3, <2>4 DEF OrchInv, OrchTypes
  <2>7. \A i \in DOMAIN queue : queue[i].n = net.n - Len(queue) + i
    BY DEF OrchInv, InOrder
  <2>8. InOrder'
    <3>1. \A i \in DOMAIN queue' : queue'[i].n = net'.n - Len(queue') + i
      <4> SUFFICES ASSUME NEW i \in DOMAIN Tail(queue)
                   PROVE  Tail(queue)[i].n = net.n - (Len(queue) - 1) + i
        BY <1>1, <2>3, <2>4
      <4>1. queue[i + 1].n = net.n - Len(queue) + (i + 1) /\ i \in Nat
        BY <2>4, <2>7
      <4>2. Tail(queue)[i] = queue[i + 1]
        BY <2>4
      <4>3. net.n \in Int /\ Len(queue) \in Int /\ i \in Int
        BY <1>2, <4>1
      <4>4. \A a, b, j \in Int : a - b + (j + 1) = a - (b - 1) + j
        OBVIOUS
      <4>5. net.n - Len(queue) + (i + 1) = net.n - (Len(queue) - 1) + i
        BY <4>3, <4>4, Zenon
      <4> QED
        BY <4>1, <4>2, <4>5
    <3>2. queue' # <<>> => queue'[Len(queue')] = net'
      <4>1. queue[Len(queue)] = net
        BY <1>6 DEF OrchInv, InOrder
      <4>2. Len(queue) - 1 # 0 => Len(queue) - 1 \in DOMAIN Tail(queue)
        BY <1>2, <2>4
      <4>3. Tail(queue) # <<>> => Len(queue) - 1 # 0
        BY <1>2, <2>4
      <4> QED
        BY <1>1, <1>2, <2>3, <2>4, <4>1, <4>2, <4>3
    <3> QED
      BY <3>1, <3>2 DEF InOrder
  <2>9. Awaited(v)'
    <3>1. head.n = net.n - Len(queue) + 1 /\ w.next.n = net.n - Len(queue)
      BY <1>2, <2>4, <2>7 DEF Awaited
    <3>2. head.n \in Nat
      BY <2>4 DEF Shot
    <3>3. v.next.n = net'.n - Len(queue')
      BY <1>1, <1>2, <2>3, <2>4, <2>5, <3>1
    <3>4. display'.n = v.next.n - 1
      BY <1>2, <1>3, <2>5, <3>1
    <3>5. v.left < flush' /\ flush' # Off
      BY <1>1, <2>5 DEF FlushAfter, Off
    <3>6. queue' = <<>> => v.next = net'
      <4>1. queue[Len(queue)] = net
        BY <1>6 DEF OrchInv, InOrder
      <4>2. ASSUME Tail(queue) = <<>>
            PROVE  Len(queue) = 1
        <5>1. Len(<<>>) = 0
          OBVIOUS
        <5>2. Len(Tail(queue)) = Len(queue) - 1
          BY <2>4
        <5>3. Len(queue) - 1 = 0
          BY <4>2, <5>1, <5>2, Zenon
        <5> QED
          BY <1>2, <5>3
      <4> QED
        BY <1>1, <2>3, <2>4, <2>5, <4>1, <4>2
    <3> QED
      BY <2>5, <3>3, <3>4, <3>5, <3>6 DEF Awaited
  <2> QED
    BY <2>3, <2>6, <2>8, <2>9 DEF OrchInv, OneAwaited, AtRest
<1> QED
  BY <1>5, <1>6

\* The flush finds the last broadcast shown.
LEMMA FlushFindsRest ==
    ASSUME OrchInv, flush = 0
    PROVE  /\ ~busy /\ queue = <<>> /\ waits = {}
           /\ display.n = net.n /\ display.pic = net.pic
<1>1. ~busy
  <2> SUFFICES ASSUME busy PROVE FALSE
    OBVIOUS
  <2>1. PICK w : Awaited(w)
    BY DEF OrchInv, OneAwaited
  <2>2. w.left \in Nat /\ w.left < 0
    BY <2>1 DEF Awaited, Animation
  <2> QED
    BY <2>2
<1> QED
  BY <1>1 DEF OrchInv, AtRest

LEMMA SafetyFlushKeeps ==
    ASSUME OrchInv, SafetyFlush
    PROVE  OrchInv'
<1>1. /\ flush = 0
      /\ display' = [n |-> net.n, pic |-> net.pic, same |-> TRUE]
      /\ queue' = <<>> /\ busy' = FALSE /\ flush' = Off /\ net' = net /\ waits' = waits
  BY DEF SafetyFlush
<1>2. waits = {} /\ queue = <<>>
  BY <1>1, FlushFindsRest
<1>3. OrchTypes'
  <2>1. display' \in [n : Nat, pic : Picture, same : BOOLEAN]
    BY <1>1 DEF OrchInv, OrchTypes
  <2>2. queue' \in Seq(Shot) /\ busy' \in BOOLEAN /\ flush' \in {Off} \cup 0..FlushAfter
    BY <1>1, <1>2 DEF OrchInv, OrchTypes
  <2> QED
    BY <1>1, <2>1, <2>2 DEF OrchInv, OrchTypes
<1> QED
  BY <1>1, <1>2, <1>3 DEF OrchInv, InOrder, OneAwaited, AtRest

\* Time passes for the animation and for the flush alike.
LEMMA HalfSecondKeeps ==
    ASSUME OrchInv, HalfSecond
    PROVE  OrchInv'
<1>1. /\ flush # 0 /\ \A w \in waits : w.left > 0
      /\ flush' = IF flush = Off THEN Off ELSE flush - 1
      /\ waits' = {[w EXCEPT !.left = @ - 1] : w \in waits}
      /\ UNCHANGED <<net, display, queue, busy>>
  BY DEF HalfSecond
<1>2. flush' \in {Off} \cup 0..FlushAfter
  BY <1>1 DEF OrchInv, OrchTypes, FlushAfter, Off
<1>3. OrchTypes'
  BY <1>1, <1>2 DEF OrchInv, OrchTypes
<1>4. CASE busy
  <2>1. PICK w : waits = {w} /\ Awaited(w)
    BY <1>4 DEF OrchInv, OneAwaited
  <2>2. PICK v : v = [w EXCEPT !.left = @ - 1]
    OBVIOUS
  <2>3. w \in Animation /\ w.left > 0 /\ w.left < flush /\ flush # Off
        /\ flush \in {Off} \cup 0..FlushAfter
    BY <1>1, <2>1 DEF Awaited, OrchInv, OrchTypes
  <2>4. /\ v \in Animation /\ v.next = w.next /\ v.prev = w.prev /\ v.gather = w.gather
        /\ v.left = w.left - 1
    BY <2>2, <2>3 DEF Animation
  <2>5. v.left < flush' /\ flush' # Off
    BY <1>1, <2>3, <2>4 DEF Animation, Off, FlushAfter
  <2>6. Awaited(v)'
    BY <1>1, <2>1, <2>4, <2>5 DEF Awaited
  <2>7. waits' = {v}
    BY <1>1, <2>1, <2>2
  <2> QED
    BY <1>1, <1>3, <1>4, <2>6, <2>7 DEF OrchInv, InOrder, OneAwaited, AtRest
<1>5. CASE ~busy
  <2>1. waits' = {}
    BY <1>1, <1>5 DEF OrchInv, AtRest
  <2> QED
    BY <1>1, <1>3, <1>5, <2>1 DEF OrchInv, InOrder, OneAwaited, AtRest
<1> QED
  BY <1>4, <1>5

LEMMA OrchInvInit == OrchInit => OrchInv
<1> SUFFICES ASSUME OrchInit PROVE OrchInv
  OBVIOUS
<1>1. OrchTypes
  <2>1. /\ net \in [n : Nat, pic : Picture]
        /\ display \in [n : Nat, pic : Picture, same : BOOLEAN]
    BY PicturesLook DEF OrchInit
  <2>2. queue \in Seq(Shot) /\ busy \in BOOLEAN /\ flush \in {Off} \cup 0..FlushAfter
    <3>1. <<>> \in Seq(Shot) /\ FALSE \in BOOLEAN
      OBVIOUS
    <3> QED
      BY <3>1, Zenon DEF OrchInit
  <2> QED
    BY <2>1, <2>2 DEF OrchTypes
<1> QED
  BY <1>1 DEF OrchInit, OrchInv, InOrder, OneAwaited, AtRest

LEMMA OrchInvNext == OrchInv /\ [OrchNext]_orch => OrchInv'
<1> SUFFICES ASSUME OrchInv, [OrchNext]_orch PROVE OrchInv'
  OBVIOUS
<1>1. CASE UNCHANGED orch
  <2>1. UNCHANGED <<net, display, queue, busy, waits, flush>>
    BY <1>1 DEF orch
  <2>2. OrchTypes' /\ AtRest'
    BY <2>1 DEF OrchInv, OrchTypes, AtRest
  <2>3. InOrder'
    BY <2>1 DEF OrchInv, InOrder
  <2>4. \A w : Awaited(w) => Awaited(w)'
    BY <2>1 DEF Awaited
  <2>5. OneAwaited'
    BY <2>1, <2>4 DEF OrchInv, OneAwaited
  <2> QED
    BY <2>2, <2>3, <2>5 DEF OrchInv
<1>2. CASE OrchNext
  BY <1>2, ArriveKeeps, GatherKeeps, ShowKeeps, SafetyFlushKeeps, HalfSecondKeeps DEF OrchNext
<1> QED
  BY <1>1, <1>2

LEMMA OrchInvariant == OrchSpec => []OrchInv
BY OrchInvInit, OrchInvNext, PTL DEF OrchSpec

\* The safety flush never cuts an animation short or drops a queued picture, whatever is
\* broadcast and when (useGameOrchestrator.ts).
THEOREM FlushOnlyAtRest == OrchSpec => []FlushIsIdle
<1>1. OrchInv => FlushIsIdle
  BY FlushFindsRest DEF FlushIsIdle
<1> QED
  BY <1>1, OrchInvariant, PTL

\* What one step shows is no older than what was shown, and has no new cards while bets
\* lie on the table.
LEMMA StepShowsInOrder ==
    ASSUME OrchInv, [OrchNext]_orch
    PROVE  /\ display'.n >= display.n
           /\ display'.pic.street > display.pic.street => ~display.pic.bets
<1>1. display.n \in Nat /\ display.pic.street \in Nat
  BY DEF OrchInv, OrchTypes, Picture
<1>2. CASE display' = display
  BY <1>1, <1>2
<1>3. ASSUME NEW w \in waits, Gather(w) \/ Show(w)
      PROVE  /\ display'.n >= display.n
             /\ display'.pic.street > display.pic.street => ~display.pic.bets
  <2>1. /\ Awaited(w) /\ w.next.n \in Nat /\ w.next.pic \in Picture /\ w.prev \in Picture
    BY OnlyOne
  <2>2. w.next.n >= display.n
    BY <1>1, <2>1 DEF Awaited
  <2>3. CASE Gather(w)
    <3>1. display'.n = w.next.n /\ display'.pic.street = w.prev.street
      BY <2>1, <2>3 DEF Gather, Picture
    <3>2. w.prev.street = display.pic.street
      BY <2>1 DEF Awaited
    <3> QED
      BY <1>1, <2>2, <3>1, <3>2
  <2>4. CASE Show(w)
    <3>1. display'.n = w.next.n /\ display'.pic = w.next.pic /\ ~w.gather
      BY <2>4 DEF Show
    <3> QED
      BY <2>1, <2>2, <3>1 DEF Awaited
  <2> QED
    BY <1>3, <2>3, <2>4
<1>4. CASE SafetyFlush
  <2>1. display'.n = net.n /\ display'.pic = net.pic /\ flush = 0
    BY <1>4 DEF SafetyFlush
  <2> QED
    BY <1>1, <2>1, FlushFindsRest
<1> QED
  BY <1>2, <1>3, <1>4 DEF OrchNext, orch, Arrive, HalfSecond

\* The player sees the states in the order of the broadcasts, and never new cards while
\* the bets of the street before lie on the table, however fast broadcasts come.
THEOREM DisplayInOrder == OrchSpec => ShownInOrder
<1>1. OrchInv /\ [OrchNext]_orch =>
        [/\ display'.n >= display.n
         /\ display'.pic.street > display.pic.street => ~display.pic.bets]_orch
  BY StepShowsInOrder
<1> QED
  BY <1>1, OrchInvariant, PTL DEF OrchSpec, ShownInOrder

(***************************************************************************)
(* The gateway's sessions.                                                 *)
(***************************************************************************)
SessSpec == SessInit /\ [][SessNext]_sess

Spots == Places \cup {Nowhere}
Players == [Places -> Users \cup {Nobody}]
Seated == {"check", "reseat", "joined", "again"}
Task == [at : {"idle", "index"} \cup Seated, seat : Spots]

SessTypes ==
    /\ conn \in [Sockets -> {"new", "open", "closed"}] /\ room \in SUBSET Sockets
    /\ sessions \in [Sockets -> Spots]
    /\ tasks \in [Sockets -> Task]
    /\ seats \in Players /\ posted \in Players \cup {NoPost}
    /\ index \in [Users -> Spots]
    /\ \A s \in Sockets : tasks[s].at \in Seated <=> tasks[s].seat # Nowhere

\* What the session of a socket names, and what its handler in flight is about to make
\* it name, is its user's seat, unless he lost that elsewhere.
SeatsHeld ==
    \A s \in Sockets \ orphaned :
        /\ sessions[s] # Nowhere => seats[sessions[s]] = Owner[s]
        /\ tasks[s].at \in Seated \ {"check"} => seats[tasks[s].seat] = Owner[s]

\* A socket that is not connected yet is known nowhere.
Unknown ==
    \A s \in Sockets :
        conn[s] = "new" => sessions[s] = Nowhere /\ tasks[s] = Idle /\ s \notin room

SessInv == SessTypes /\ SeatsHeld /\ Unknown /\ OnlineWhileHere

(***************************************************************************)
(* Where a session comes from.                                             *)
(***************************************************************************)

\* Every socket has a user, and nobody is no user.
LEMMA OwnerIsUser ==
    ASSUME NEW s \in Sockets
    PROVE  Owner[s] \in Users /\ Owner[s] # Nobody
BY UsersAssumption

\* A seat is never the mark for none.
LEMMA PlacesAreSpots == Places \subseteq Spots /\ \A x \in Places : x # Nowhere
BY PlacesAssumption DEF Spots, Nowhere

\* The search for a user's seat finds it, in whatever picture of the players it looks.
LEMMA SeatInFinds ==
    ASSUME NEW ps, NEW u
    PROVE  LET x == SeatIn(ps, u)
           IN  /\ x \in Spots
               /\ x # Nowhere => x \in Places /\ ps[x] = u
<1>1. CASE \E y \in Places : ps[y] = u
  <2>1. PICK y \in Places : ps[y] = u
    BY <1>1
  <2>2. \E x \in Places \cup {Nowhere} :
            IF \E z \in Places : ps[z] = u THEN x # Nowhere /\ ps[x] = u ELSE x = Nowhere
    BY <2>1, PlacesAreSpots
  <2> QED
    BY <1>1, <2>2 DEF SeatIn, Spots
<1>2. CASE ~\E y \in Places : ps[y] = u
  <2>1. SeatIn(ps, u) = Nowhere
    BY <1>2 DEF SeatIn
  <2> QED
    BY <2>1 DEF Spots
<1> QED
  BY <1>1, <1>2

\* The seat a message acts on is a seat, and is its sender's if he did not lose his own
\* elsewhere.
LEMMA HealedFinds ==
    ASSUME SessInv, NEW s \in Sockets, Healed(s) # Nowhere
    PROVE  /\ Healed(s) \in Places
           /\ s \notin orphaned => seats[Healed(s)] = Owner[s]
<1>1. CASE sessions[s] # Nowhere
  BY <1>1 DEF SessInv, SessTypes, SeatsHeld, Healed, Spots
<1>2. CASE sessions[s] = Nowhere
  BY <1>2, SeatInFinds DEF Healed
<1> QED
  BY <1>1, <1>2

\* Recovered sessions are their users' seats, or are noted as not; who is marked
\* offline then is noted too.  The picture of the players may be an old one.
LEMMA RecoversKeeps ==
    ASSUME SessInv, NEW S \in SUBSET Sockets, NEW ps, Recovers(S, ps),
           UNCHANGED <<conn, tasks, seats, away>>
    PROVE  /\ sessions' \in [Sockets -> Spots]
           /\ \A s \in Sockets \ S : sessions'[s] = sessions[s]
           /\ SeatsHeld' /\ OnlineWhileHere'
<1> DEFINE found == [s \in S |-> IF sessions[s] # Nowhere THEN sessions[s]
                                 ELSE SeatIn(ps, Owner[s])]
           new == {s \in S : sessions[s] = Nowhere /\ found[s] # Nowhere}
<1>1. /\ sessions' = [s \in Sockets |-> IF s \in S THEN found[s] ELSE sessions[s]]
      /\ excused' = excused \cup {s \in new : found[s] \in away}
      /\ orphaned' = (orphaned \ {s \in new : tasks[s] = Idle})
                        \cup {s \in new : seats[found[s]] # Owner[s]}
  BY DEF Recovers
<1>2. \A s \in S : /\ found[s] \in Spots
                   /\ sessions[s] # Nowhere => found[s] = sessions[s]
  BY SeatInFinds DEF SessInv, SessTypes
<1>3. new \in SUBSET S
  OBVIOUS
<1>4. \A s \in S : s \notin new => found[s] = sessions[s]
  BY <1>2
<1>5. \A s \in new : found[s] # Nowhere
  OBVIOUS
<1> HIDE DEF found, new
<1>6. sessions' \in [Sockets -> Spots]
  BY <1>1, <1>2 DEF SessInv, SessTypes
<1>7. \A s \in Sockets \ new : /\ sessions'[s] = sessions[s]
                               /\ s \notin orphaned' => s \notin orphaned
                               /\ s \notin excused' => s \notin excused
  BY <1>1, <1>4
<1>8. \A s \in new : sessions'[s] = found[s]
  BY <1>1, <1>3
<1>9. ASSUME NEW s \in Sockets \ orphaned'
      PROVE  /\ sessions'[s] # Nowhere => seats'[sessions'[s]] = Owner[s]
             /\ tasks'[s].at \in Seated \ {"check"} => seats'[tasks'[s].seat] = Owner[s]
  <2>1. CASE s \in new
    <3>1. seats[found[s]] = Owner[s]
      BY <1>1, <2>1, <1>9
    <3>2. CASE tasks[s] = Idle
      BY <2>1, <1>8, <3>1, <3>2 DEF Idle, Seated
    <3>3. CASE tasks[s] # Idle
      <4>1. s \notin orphaned
        BY <1>1, <1>9, <3>3
      <4> QED
        BY <2>1, <1>8, <3>1, <4>1 DEF SessInv, SeatsHeld
    <3> QED
      BY <3>2, <3>3
  <2>2. CASE s \notin new
    BY <1>7, <2>2, <1>9 DEF SessInv, SeatsHeld
  <2> QED
    BY <2>1, <2>2
<1>10. ASSUME NEW s \in Sockets \ (orphaned' \cup excused'),
              sessions'[s] # Nowhere, conn'[s] = "open"
       PROVE  sessions'[s] \notin away'
  <2>1. CASE s \in new
    BY <1>1, <1>8, <1>10, <2>1
  <2>2. CASE s \notin new
    BY <1>7, <1>10, <2>2 DEF SessInv, OnlineWhileHere
  <2> QED
    BY <2>1, <2>2
<1> QED
  BY <1>3, <1>6, <1>7, <1>9, <1>10 DEF SeatsHeld, OnlineWhileHere

\* A seat given up: whoever else names it is orphaned, and who is told forgets it.
LEMMA VacateKeeps ==
    ASSUME SessInv, NEW x \in Places, NEW told \in SUBSET Sockets, Vacate(x, told),
           conn' = conn,
           \A s \in Sockets : /\ sessions'[s] \in {sessions[s], Nowhere}
                              /\ tasks'[s] \in {tasks[s], Idle},
           \A s \in told : sessions'[s] = Nowhere /\ tasks'[s].at \notin Seated
    PROVE  seats' \in Players /\ SeatsHeld' /\ OnlineWhileHere'
<1>1. /\ seats' = [seats EXCEPT ![x] = Nobody]
      /\ away' = away \ {x}
      /\ orphaned' = (orphaned \ told) \cup
             {s \in Sockets \ told : Owner[s] = seats[x] /\ x \in {sessions[s], tasks[s].seat}}
      /\ excused' = {s \in excused : sessions[s] # x}
  BY DEF Vacate
<1>2. seats' \in Players
  BY <1>1 DEF SessInv, SessTypes, Players
<1>3. \A y \in Places : y # x => seats'[y] = seats[y]
  BY <1>1 DEF SessInv, SessTypes, Players
<1>4. ASSUME NEW s \in Sockets \ orphaned'
      PROVE  /\ sessions'[s] # Nowhere => seats'[sessions'[s]] = Owner[s]
             /\ tasks'[s].at \in Seated \ {"check"} => seats'[tasks'[s].seat] = Owner[s]
  <2>1. CASE s \in told
    BY <2>1
  <2>2. CASE s \notin told
    <3>1. s \notin orphaned /\ (Owner[s] = seats[x] => sessions[s] # x /\ tasks[s].seat # x)
      BY <1>1, <1>4, <2>2
    <3>2. ASSUME sessions'[s] # Nowhere
          PROVE  seats'[sessions'[s]] = Owner[s]
      <4>1. sessions'[s] = sessions[s] /\ sessions[s] \in Places /\ seats[sessions[s]] = Owner[s]
        BY <3>1, <3>2 DEF SessInv, SessTypes, SeatsHeld, Spots
      <4> QED
        BY <1>3, <3>1, <4>1
    <3>3. ASSUME tasks'[s].at \in Seated \ {"check"}
          PROVE  seats'[tasks'[s].seat] = Owner[s]
      <4>1. tasks'[s] = tasks[s]
        BY <3>3 DEF Idle, Seated
      <4>2. tasks[s].seat \in Places /\ seats[tasks[s].seat] = Owner[s]
        BY <3>1, <3>3, <4>1 DEF SessInv, SessTypes, SeatsHeld, Spots, Task
      <4> QED
        BY <1>3, <3>1, <4>1, <4>2
    <3> QED
      BY <3>2, <3>3
  <2> QED
    BY <2>1, <2>2
<1>5. ASSUME NEW s \in Sockets \ (orphaned' \cup excused'),
             sessions'[s] # Nowhere, conn'[s] = "open"
      PROVE  sessions'[s] \notin away'
  <2>1. sessions'[s] = sessions[s] /\ s \notin told
    BY <1>5
  <2>2. CASE sessions[s] = x
    BY <1>1, <2>1, <2>2
  <2>3. CASE sessions[s] # x
    BY <1>1, <1>5, <2>1, <2>3 DEF SessInv, OnlineWhileHere
  <2> QED
    BY <2>2, <2>3
<1> QED
  BY <1>2, <1>4, <1>5 DEF SeatsHeld, OnlineWhileHere

(***************************************************************************)
(* Connections.                                                            *)
(***************************************************************************)

\* A handler that starts, or looks where the user sits, changes no session
\* (game.gateway.ts handleConnection).
LEMMA ConnectKeeps ==
    ASSUME SessInv, NEW s \in Sockets, Connect(s)
    PROVE  SessInv'
<1>1. /\ conn[s] = "new" /\ sessions[s] = Nowhere
      /\ conn' = [conn EXCEPT ![s] = "open"]
      /\ tasks' = [tasks EXCEPT ![s] = Doing("index", Nowhere)]
      /\ UNCHANGED <<room, sessions, seats, away, index, orphaned, excused, posted>>
  BY DEF Connect, chairs, books, ghosts, SessInv, Unknown
<1>2. Doing("index", Nowhere) \in Task /\ Doing("index", Nowhere).at \notin Seated
      /\ Doing("index", Nowhere).seat = Nowhere
  BY DEF Doing, Task, Seated, Spots
<1> HIDE DEF Doing
<1>3. SessTypes'
  BY <1>1, <1>2 DEF SessInv, SessTypes
<1>4. SeatsHeld'
  BY <1>1, <1>2 DEF SessInv, SessTypes, SeatsHeld
<1>5. Unknown' /\ OnlineWhileHere'
  BY <1>1 DEF SessInv, SessTypes, Unknown, OnlineWhileHere
<1> QED
  BY <1>3, <1>4, <1>5 DEF SessInv

\* A step that only moves one handler on, to no seat's session.
LEMMA HandlerMoves ==
    ASSUME SessInv, NEW s \in Sockets, NEW task \in Task, tasks[s] # Idle,
           tasks' = [tasks EXCEPT ![s] = task],
           task.at \in Seated <=> task.seat # Nowhere,
           task.at \in Seated \ {"check"} => s \in orphaned \/ seats[task.seat] = Owner[s],
           index' \in [Users -> Spots],
           UNCHANGED <<conn, room, sessions, seats, away, orphaned, excused, posted>>
    PROVE  SessInv'
<1>1. conn[s] # "new"
  BY DEF SessInv, Unknown
<1>2. SessTypes'
  BY DEF SessInv, SessTypes
<1>3. SeatsHeld'
  BY DEF SessInv, SessTypes, SeatsHeld
<1>4. Unknown' /\ OnlineWhileHere'
  BY <1>1 DEF SessInv, SessTypes, Unknown, OnlineWhileHere
<1> QED
  BY <1>2, <1>3, <1>4 DEF SessInv

LEMMA IdleTask == Idle \in Task /\ Idle.at \notin Seated /\ Idle.seat = Nowhere
BY DEF Idle, Task, Seated, Spots

LEMMA SeatedTask ==
    ASSUME NEW at \in Seated, NEW x \in Spots
    PROVE  /\ Doing(at, x) \in Task
           /\ Doing(at, x).at = at /\ Doing(at, x).seat = x
BY DEF Doing, Task

\* The seat to look at comes from the index or a session in memory.
LEMMA ReadIndexKeeps ==
    ASSUME SessInv, NEW s \in Sockets, ReadIndex(s)
    PROVE  SessInv'
<1> DEFINE u == Owner[s]
           known == IF index[u] # Nowhere THEN {index[u]}
                    ELSE {sessions[t] : t \in SessionsOf(u)}
<1>1. /\ tasks[s].at = "index"
      /\ IF known = {}
         THEN tasks' = [tasks EXCEPT ![s] = Idle]
         ELSE \E x \in known : tasks' = [tasks EXCEPT ![s] = Doing("check", x)]
      /\ UNCHANGED <<conn, room, sessions, seats, away, index, orphaned, excused, posted>>
  BY DEF ReadIndex, chairs, books, ghosts
<1>2. \A x \in known : x \in Spots /\ x # Nowhere
  BY OwnerIsUser DEF SessInv, SessTypes, SessionsOf
<1>3. tasks[s] # Idle /\ index' \in [Users -> Spots]
  BY <1>1 DEF Idle, SessInv, SessTypes
<1>4. CASE tasks' = [tasks EXCEPT ![s] = Idle]
  BY <1>1, <1>3, <1>4, IdleTask, HandlerMoves
<1>5. ASSUME NEW x \in known, tasks' = [tasks EXCEPT ![s] = Doing("check", x)]
      PROVE  SessInv'
  <2>1. x \in Spots /\ x # Nowhere
    BY <1>2
  <2>2. "check" \in Seated
    BY DEF Seated
  <2>3. /\ Doing("check", x) \in Task
        /\ Doing("check", x).at = "check" /\ Doing("check", x).seat = x
    BY <2>1, <2>2, SeatedTask
  <2> HIDE DEF known
  <2> QED
    BY <1>1, <1>3, <1>5, <2>1, <2>2, <2>3, HandlerMoves
<1> QED
  BY <1>1, <1>4, <1>5

\* The look at the players hash finds the user there, or forgets the seat.
LEMMA CheckSeatKeeps ==
    ASSUME SessInv, NEW s \in Sockets, CheckSeat(s)
    PROVE  SessInv'
<1> DEFINE x == tasks[s].seat
           mine == seats[x] = Owner[s]
<1>1. /\ tasks[s].at = "check"
      /\ tasks' = [tasks EXCEPT ![s] = IF mine THEN Doing("reseat", x) ELSE Idle]
      /\ index' = IF mine THEN index ELSE [index EXCEPT ![Owner[s]] = Nowhere]
      /\ UNCHANGED <<conn, room, sessions, seats, away, orphaned, excused, posted>>
  BY DEF CheckSeat, chairs, ghosts
<1>2. x \in Spots /\ x # Nowhere
  BY <1>1 DEF SessInv, SessTypes, Seated, Task
<1>3. tasks[s] # Idle
  BY <1>1 DEF Idle
<1>4. index' \in [Users -> Spots]
  BY <1>1 DEF SessInv, SessTypes, Spots
<1>5. "reseat" \in Seated
  BY DEF Seated
<1>6. /\ Doing("reseat", x) \in Task
      /\ Doing("reseat", x).at = "reseat" /\ Doing("reseat", x).seat = x
  BY <1>2, <1>5, SeatedTask
<1>7. CASE mine
  <2>1. tasks' = [tasks EXCEPT ![s] = Doing("reseat", x)] /\ seats[Doing("reseat", x).seat] = Owner[s]
    BY <1>1, <1>6, <1>7
  <2> HIDE DEF x
  <2> QED
    BY <1>1, <1>2, <1>3, <1>4, <1>5, <1>6, <2>1, HandlerMoves
<1>8. CASE ~mine
  <2>1. tasks' = [tasks EXCEPT ![s] = Idle]
    BY <1>1, <1>8
  <2> QED
    BY <1>1, <1>3, <1>4, <2>1, IdleTask, HandlerMoves
<1> QED
  BY <1>7, <1>8

\* The new socket takes the seat over, and its player is online.
LEMMA ReseatKeeps ==
    ASSUME SessInv, NEW s \in Sockets, Reseat(s)
    PROVE  SessInv'
<1> DEFINE x == tasks[s].seat
<1>1. /\ tasks[s].at = "reseat"
      /\ tasks' = [tasks EXCEPT ![s] = Idle]
      /\ sessions' = [t \in Sockets |-> IF t = s THEN x
                                        ELSE IF Owner[t] = Owner[s] THEN Nowhere
                                        ELSE sessions[t]]
      /\ room' = IF conn[s] = "open" THEN room \cup {s} ELSE room
      /\ away' = away \ {x}
      /\ excused' = {t \in excused : sessions[t] # x}
      /\ UNCHANGED <<conn, seats, index, orphaned, posted>>
  BY DEF Reseat, GoesOnline, books
<1>2. x \in Spots /\ x # Nowhere /\ (s \notin orphaned => seats[x] = Owner[s])
  BY <1>1 DEF SessInv, SessTypes, SeatsHeld, Seated, Task
<1>3. conn[s] # "new"
  BY <1>1 DEF SessInv, Unknown, Idle
<1> HIDE DEF x
<1>4. SessTypes'
  <2>1. sessions' \in [Sockets -> Spots]
    BY <1>1, <1>2 DEF SessInv, SessTypes, Spots
  <2> QED
    BY <1>1, <2>1, IdleTask DEF SessInv, SessTypes
<1>5. SeatsHeld'
  BY <1>1, <1>2, IdleTask DEF SessInv, SessTypes, SeatsHeld
<1>6. Unknown'
  BY <1>1, <1>3 DEF SessInv, SessTypes, Unknown
<1>7. OnlineWhileHere'
  BY <1>1, <1>2 DEF SessInv, SessTypes, OnlineWhileHere
<1> QED
  BY <1>4, <1>5, <1>6, <1>7 DEF SessInv

\* Closing a tab marks a player offline only when it is his last one: another's session
\* for the seat is noted (handleDisconnect).
LEMMA DisconnectKeeps ==
    ASSUME SessInv, NEW s \in Sockets, Disconnect(s)
    PROVE  SessInv'
<1> DEFINE x == sessions[s]
           leaves == x # Nowhere /\ LastTab(s) /\ seats[x] # Nobody
<1>1. /\ conn[s] = "open"
      /\ conn' = [conn EXCEPT ![s] = "closed"]
      /\ room' = room \ {s}
      /\ sessions' = [sessions EXCEPT ![s] = Nowhere]
      /\ away' = IF leaves THEN away \cup {x} ELSE away
      /\ orphaned' = orphaned \ {t \in {s} : tasks[t].seat = Nowhere}
      /\ excused' = (excused \ {s}) \cup
             {t \in Sockets \ {s} : leaves /\ seats[x] # Owner[s] /\ sessions[t] = x}
      /\ UNCHANGED <<tasks, seats, index, posted>>
  BY DEF Disconnect, books
<1>2. leaves => \A t \in Sockets \ {s} : sessions[t] # Nowhere => Owner[t] # Owner[s]
  BY DEF LastTab, SessionsOf
<1> HIDE DEF leaves
<1>3. SessTypes'
  BY <1>1 DEF SessInv, SessTypes, Spots
<1>4. \A t \in Sockets \ {s} : (t \in orphaned' <=> t \in orphaned)
                               /\ sessions'[t] = sessions[t] /\ conn'[t] = conn[t]
  BY <1>1 DEF SessInv, SessTypes
<1>5. sessions'[s] = Nowhere /\ conn'[s] = "closed"
  BY <1>1 DEF SessInv, SessTypes
<1>6. s \notin orphaned' => s \notin orphaned \/ tasks[s].seat = Nowhere
  BY <1>1
<1>7. SeatsHeld'
  BY <1>1, <1>4, <1>5, <1>6 DEF SessInv, SessTypes, SeatsHeld
<1>8. Unknown'
  BY <1>1, <1>4, <1>5 DEF SessInv, Unknown
<1>9. ASSUME NEW t \in Sockets \ (orphaned' \cup excused'),
             sessions'[t] # Nowhere, conn'[t] = "open"
      PROVE  sessions'[t] \notin away'
  <2>1. t # s /\ t \notin orphaned /\ sessions'[t] = sessions[t] /\ conn[t] = "open"
    BY <1>4, <1>5, <1>9
  <2>2. t \notin excused /\ sessions[t] \notin away
    BY <1>1, <1>9, <2>1 DEF SessInv, OnlineWhileHere
  <2>3. ASSUME leaves PROVE sessions[t] # x
    <3>1. Owner[t] # Owner[s] /\ seats[sessions[t]] = Owner[t]
      BY <1>2, <1>9, <2>1, <2>3 DEF SessInv, SeatsHeld
    <3> QED
      BY <1>1, <1>9, <2>1, <2>3, <3>1
  <2> QED
    BY <1>1, <2>1, <2>2, <2>3
<1> QED
  BY <1>3, <1>7, <1>8, <1>9 DEF SessInv, OnlineWhileHere

(***************************************************************************)
(* What clients send.                                                      *)
(***************************************************************************)

\* A socket with a message to send is open and has no handler in flight.
LEMMA FreeIsIdle ==
    ASSUME NEW s \in Sockets, Free(s)
    PROVE  /\ conn[s] = "open" /\ conn[s] # "new"
           /\ tasks[s] = Idle /\ tasks[s].at \notin Seated
BY IdleTask DEF Free

\* A request for the state recovers the sender's session (sendTableStateToClient).
LEMMA SubscribeKeeps ==
    ASSUME SessInv, NEW s \in Sockets, Subscribe(s)
    PROVE  SessInv'
<1>1. /\ Free(s) /\ room' = room \cup {s} /\ Recovers({s}, seats)
      /\ UNCHANGED <<conn, tasks, posted, seats, away, index>>
  BY DEF Subscribe, chairs, books
<1>2. /\ sessions' \in [Sockets -> Spots]
      /\ \A t \in Sockets \ {s} : sessions'[t] = sessions[t]
      /\ SeatsHeld' /\ OnlineWhileHere'
  BY <1>1, RecoversKeeps
<1>3. SessTypes'
  BY <1>1, <1>2 DEF SessInv, SessTypes
<1>4. Unknown'
  BY <1>1, <1>2, FreeIsIdle DEF SessInv, Unknown
<1> QED
  BY <1>2, <1>3, <1>4 DEF SessInv

\* A broadcast recovers the sessions of the room from the picture its script returned,
\* however old (broadcastTableState).
LEMMA BroadcastKeeps ==
    ASSUME SessInv, Broadcast
    PROVE  SessInv'
<1>1. /\ posted' = NoPost /\ Recovers(room, posted)
      /\ UNCHANGED <<conn, room, tasks, seats, away, index>>
  BY DEF Broadcast, chairs, books
<1>2. room \in SUBSET Sockets
  BY DEF SessInv, SessTypes
<1>3. /\ sessions' \in [Sockets -> Spots]
      /\ \A t \in Sockets \ room : sessions'[t] = sessions[t]
      /\ SeatsHeld' /\ OnlineWhileHere'
  BY <1>1, <1>2, RecoversKeeps
<1>4. SessTypes'
  BY <1>1, <1>3 DEF SessInv, SessTypes
<1>5. Unknown'
  BY <1>1, <1>3 DEF SessInv, Unknown
<1> QED
  BY <1>3, <1>4, <1>5 DEF SessInv

\* A script's answer is kept for the broadcast that follows.
LEMMA PostKeeps ==
    ASSUME SessInv, Post
    PROVE  SessInv'
<1>1. /\ posted' = seats
      /\ UNCHANGED <<conn, room, sessions, tasks, seats, away, index, orphaned, excused>>
  BY DEF Post, chairs, books, ghosts
<1> QED
  BY <1>1 DEF SessInv, SessTypes, SeatsHeld, Unknown, OnlineWhileHere

\* A join takes an empty seat, so nobody's session names it; a second one comes back to
\* the seat its user has (join_table.lua's duplicate check).
LEMMA JoinKeeps ==
    ASSUME SessInv, NEW s \in Sockets, NEW x \in Places, Join(s, x)
    PROVE  SessInv'
<1>1. /\ Free(s)
      /\ UNCHANGED <<conn, room, sessions, away, index, orphaned, excused, posted>>
  BY DEF Join, books, ghosts
<1>2. CASE /\ Seatable(Owner[s], x)
           /\ seats' = [seats EXCEPT ![x] = Owner[s]]
           /\ tasks' = [tasks EXCEPT ![s] = Doing("joined", x)]
  <2>1. "joined" \in Seated /\ x \in Spots /\ x # Nowhere
    BY PlacesAreSpots DEF Seated
  <2>2. /\ Doing("joined", x) \in Task
        /\ Doing("joined", x).at = "joined" /\ Doing("joined", x).seat = x
    BY <2>1, SeatedTask
  <2> HIDE DEF Doing
  <2>3. seats[x] = Nobody
    BY <1>2 DEF Seatable
  <2>4. \A y \in Places : y # x => seats'[y] = seats[y]
    BY <1>2 DEF SessInv, SessTypes, Players
  <2>5. seats'[x] = Owner[s] /\ seats' \in Players
    BY <1>2, OwnerIsUser DEF SessInv, SessTypes, Players
  <2>6. SessTypes'
    BY <1>1, <1>2, <2>1, <2>2, <2>5 DEF SessInv, SessTypes
  <2>7. ASSUME NEW t \in Sockets \ orphaned
        PROVE  /\ sessions[t] # Nowhere => seats'[sessions[t]] = Owner[t]
               /\ tasks'[t].at \in Seated \ {"check"} => seats'[tasks'[t].seat] = Owner[t]
    <3>1. ASSUME sessions[t] # Nowhere
          PROVE  seats'[sessions[t]] = Owner[t]
      <4>1. sessions[t] \in Places /\ seats[sessions[t]] = Owner[t]
        BY <2>7, <3>1 DEF SessInv, SessTypes, SeatsHeld, Spots
      <4> QED
        BY <2>3, <2>4, <4>1, OwnerIsUser
    <3>2. ASSUME tasks'[t].at \in Seated \ {"check"}
          PROVE  seats'[tasks'[t].seat] = Owner[t]
      <4>1. CASE t = s
        BY <1>2, <2>2, <2>5, <4>1 DEF SessInv, SessTypes
      <4>2. CASE t # s
        <5>1. tasks'[t] = tasks[t]
          BY <1>2, <4>2 DEF SessInv, SessTypes
        <5>2. tasks[t].seat \in Places /\ seats[tasks[t].seat] = Owner[t]
          BY <2>7, <3>2, <5>1 DEF SessInv, SessTypes, SeatsHeld, Spots, Task
        <5> QED
          BY <2>3, <2>4, <5>1, <5>2, OwnerIsUser
      <4> QED
        BY <4>1, <4>2
    <3> QED
      BY <3>1, <3>2
  <2>8. SeatsHeld'
    BY <1>1, <2>7 DEF SeatsHeld
  <2>9. Unknown' /\ OnlineWhileHere'
    BY <1>1, <1>2, FreeIsIdle DEF SessInv, SessTypes, Unknown, OnlineWhileHere
  <2> QED
    BY <2>6, <2>8, <2>9 DEF SessInv
<1>3. ASSUME NEW y \in SeatsOf(Owner[s]), tasks' = [tasks EXCEPT ![s] = Doing("again", y)],
             UNCHANGED seats
      PROVE  SessInv'
  <2>1. "again" \in Seated /\ y \in Spots /\ y # Nowhere /\ seats[y] = Owner[s]
    BY PlacesAreSpots DEF Seated, SeatsOf
  <2>2. /\ Doing("again", y) \in Task
        /\ Doing("again", y).at = "again" /\ Doing("again", y).seat = y
    BY <2>1, SeatedTask
  <2> HIDE DEF Doing
  <2>3. SessTypes'
    BY <1>1, <1>3, <2>1, <2>2 DEF SessInv, SessTypes
  <2>4. SeatsHeld'
    BY <1>1, <1>3, <2>1, <2>2 DEF SessInv, SessTypes, SeatsHeld
  <2>5. Unknown' /\ OnlineWhileHere'
    BY <1>1, <1>3, FreeIsIdle DEF SessInv, SessTypes, Unknown, OnlineWhileHere
  <2> QED
    BY <2>3, <2>4, <2>5 DEF SessInv
<1> QED
  BY <1>2, <1>3 DEF Join

\* After the funds are locked the session names the seat, though its user may have lost
\* it in between: then the socket stays orphaned (handleJoinTable).
LEMMA JoinedKeeps ==
    ASSUME SessInv, NEW s \in Sockets, Joined(s)
    PROVE  SessInv'
<1> DEFINE x == tasks[s].seat
           back == tasks[s].at = "again" /\ seats[x] # Nobody
<1>1. /\ tasks[s].at \in {"joined", "again"}
      /\ tasks' = [tasks EXCEPT ![s] = Idle]
      /\ sessions' = [sessions EXCEPT ![s] = x]
      /\ index' = [index EXCEPT ![Owner[s]] = x]
      /\ room' = IF conn[s] = "open" THEN room \cup {s} ELSE room
      /\ orphaned' = orphaned \ {t \in {s} : seats[x] = Owner[s]}
      /\ UNCHANGED <<conn, seats, posted>>
  BY DEF Joined
<1>2. \/ away' = away \ {x} /\ excused' = {t \in excused : sessions[t] # x}
      \/ away' = away /\ excused' = IF x \in away THEN excused \cup {s} ELSE excused
  BY DEF Joined, GoesOnline
<1>3. x \in Spots /\ x # Nowhere /\ (s \notin orphaned => seats[x] = Owner[s])
  BY <1>1 DEF SessInv, SessTypes, SeatsHeld, Seated, Task
<1>4. conn[s] # "new"
  BY <1>1 DEF SessInv, Unknown, Idle
<1> HIDE DEF x
<1>5. SessTypes'
  BY <1>1, <1>3, IdleTask, OwnerIsUser DEF SessInv, SessTypes
<1>6. SeatsHeld'
  BY <1>1, <1>3, IdleTask DEF SessInv, SessTypes, SeatsHeld
<1>7. Unknown'
  BY <1>1, <1>4 DEF SessInv, SessTypes, Unknown
<1>8. OnlineWhileHere'
  <2>1. \A t \in Sockets : sessions'[t] = IF t = s THEN x ELSE sessions[t]
    BY <1>1 DEF SessInv, SessTypes
  <2>2. \A t \in Sockets \ {s} : t \in orphaned' <=> t \in orphaned
    BY <1>1
  <2> QED
    BY <1>1, <1>2, <2>1, <2>2 DEF SessInv, OnlineWhileHere
<1> QED
  BY <1>5, <1>6, <1>7, <1>8 DEF SessInv

\* A join that could not be paid gives up the seat the client asked for, whoever sits
\* there; the sender forgets his own.
LEMMA NotPaidKeeps ==
    ASSUME SessInv, NEW s \in Sockets, NEW x \in Places, NotPaid(s, x)
    PROVE  SessInv'
<1> DEFINE told == IF seats[x] = Owner[s] /\ sessions[s] = Nowhere THEN {s} ELSE {}
<1>1. /\ tasks[s].at \in {"joined", "again"}
      /\ tasks' = [tasks EXCEPT ![s] = Idle]
      /\ Vacate(x, told)
      /\ UNCHANGED <<conn, room, sessions, index, posted>>
  BY DEF NotPaid, books
<1>2. told \in SUBSET Sockets /\ \A t \in told : t = s /\ sessions[t] = Nowhere
  OBVIOUS
<1> HIDE DEF told
<1>3. \A t \in Sockets : tasks'[t] = IF t = s THEN Idle ELSE tasks[t]
  BY <1>1 DEF SessInv, SessTypes
<1>4. \A t \in Sockets : /\ sessions'[t] \in {sessions[t], Nowhere}
                         /\ tasks'[t] \in {tasks[t], Idle}
  BY <1>1, <1>3
<1>5. \A t \in told : sessions'[t] = Nowhere /\ tasks'[t].at \notin Seated
  BY <1>1, <1>2, <1>3, IdleTask
<1>6. seats' \in Players /\ SeatsHeld' /\ OnlineWhileHere'
  BY <1>1, <1>2, <1>4, <1>5, VacateKeeps
<1>7. SessTypes'
  BY <1>1, <1>6, IdleTask DEF SessInv, SessTypes
<1>8. Unknown'
  BY <1>1, <1>3 DEF SessInv, Unknown
<1> QED
  BY <1>6, <1>7, <1>8 DEF SessInv

\* Who leaves forgets his session; his other tabs are orphaned (handleLeaveTable).
LEMMA LeaveKeeps ==
    ASSUME SessInv, NEW s \in Sockets, Leave(s)
    PROVE  SessInv'
<1> DEFINE x == Healed(s)
<1>1. /\ Free(s) /\ x # Nowhere
      /\ UNCHANGED <<conn, tasks, posted>>
  BY DEF Leave
<1>2. x \in Places
  BY <1>1, HealedFinds
<1>3. CASE /\ Vacate(x, {s})
           /\ sessions' = [sessions EXCEPT ![s] = Nowhere]
           /\ room' = room \ {s}
           /\ index' = [index EXCEPT ![Owner[s]] = Nowhere]
  <2> HIDE DEF x
  <2>1. \A t \in Sockets : /\ sessions'[t] = IF t = s THEN Nowhere ELSE sessions[t]
                           /\ tasks'[t] = tasks[t]
    BY <1>1, <1>3 DEF SessInv, SessTypes
  <2>2. seats' \in Players /\ SeatsHeld' /\ OnlineWhileHere'
    BY <1>1, <1>2, <1>3, <2>1, FreeIsIdle, VacateKeeps
  <2>3. SessTypes'
    BY <1>1, <1>3, <2>2 DEF SessInv, SessTypes, Spots
  <2>4. Unknown'
    BY <1>1, <1>3, <2>1 DEF SessInv, Unknown
  <2> QED
    BY <2>2, <2>3, <2>4 DEF SessInv
<1>4. CASE UNCHANGED <<sessions, room, index, chairs, ghosts>>
  BY <1>1, <1>4 DEF chairs, ghosts, SessInv, SessTypes, SeatsHeld, Unknown, OnlineWhileHere
<1> QED
  BY <1>3, <1>4 DEF Leave

\* Sitting out and coming back recover the sender's session.
LEMMA SitOutKeeps ==
    ASSUME SessInv, NEW s \in Sockets, SitOut(s)
    PROVE  SessInv'
<1>1. /\ Free(s) /\ Recovers({s}, seats)
      /\ UNCHANGED <<conn, room, tasks, posted, seats, away, index>>
  BY DEF SitOut
<1>2. /\ sessions' \in [Sockets -> Spots]
      /\ \A t \in Sockets \ {s} : sessions'[t] = sessions[t]
      /\ SeatsHeld' /\ OnlineWhileHere'
  BY <1>1, RecoversKeeps
<1>3. SessTypes'
  BY <1>1, <1>2 DEF SessInv, SessTypes
<1>4. Unknown'
  BY <1>1, <1>2, FreeIsIdle DEF SessInv, Unknown
<1> QED
  BY <1>2, <1>3, <1>4 DEF SessInv

(***************************************************************************)
(* Players put out.                                                        *)
(***************************************************************************)

\* Who is made to stand up loses one session; the others are orphaned, and so is the one
\* a handler in flight is about to make (forceStandUp).
LEMMA StandUpKeeps ==
    ASSUME SessInv, NEW x \in Places, StandUp(x), UNCHANGED <<conn, room, tasks, posted>>
    PROVE  SessInv'
<1> DEFINE u == seats[x]
           held == {s \in Sockets : tasks[s].seat # Nowhere}
<1>1. CASE SessionsOf(u) = {} /\ Vacate(x, {}) /\ UNCHANGED <<sessions, index>>
  <2>1. \A t \in Sockets : sessions'[t] = sessions[t] /\ tasks'[t] = tasks[t]
    BY <1>1
  <2>2. seats' \in Players /\ SeatsHeld' /\ OnlineWhileHere'
    BY <1>1, <2>1, VacateKeeps
  <2> QED
    BY <1>1, <2>2 DEF SessInv, SessTypes, Unknown
<1>2. ASSUME NEW s \in SessionsOf(u), Vacate(x, {s} \ held),
             sessions' = [sessions EXCEPT ![s] = Nowhere],
             index' = [index EXCEPT ![u] = Nowhere]
      PROVE  SessInv'
  <2>1. s \in Sockets /\ u \in Users
    BY OwnerIsUser DEF SessionsOf
  <2>2. \A t \in {s} \ held : t = s /\ tasks[t].at \notin Seated
    BY <2>1 DEF SessInv, SessTypes
  <2> HIDE DEF held, u
  <2>3. \A t \in Sockets : /\ sessions'[t] = IF t = s THEN Nowhere ELSE sessions[t]
                           /\ tasks'[t] = tasks[t]
    BY <1>2 DEF SessInv, SessTypes
  <2>4. /\ {s} \ held \in SUBSET Sockets
        /\ \A t \in Sockets : /\ sessions'[t] \in {sessions[t], Nowhere}
                              /\ tasks'[t] \in {tasks[t], Idle}
        /\ \A t \in {s} \ held : sessions'[t] = Nowhere /\ tasks'[t].at \notin Seated
    BY <2>1, <2>2, <2>3
  <2>5. seats' \in Players /\ SeatsHeld' /\ OnlineWhileHere'
    BY <1>2, <2>4, VacateKeeps
  <2>6. SessTypes'
    BY <1>2, <2>1, <2>5 DEF SessInv, SessTypes, Spots
  <2>7. Unknown'
    BY <2>3 DEF SessInv, Unknown
  <2> QED
    BY <2>5, <2>6, <2>7 DEF SessInv
<1> QED
  BY <1>1, <1>2 DEF StandUp

\* The sweeper, a reveal or an administrator makes somebody stand up, or nothing.
LEMMA PutOutKeeps ==
    ASSUME SessInv, NEW x \in Places, Sweep(x) \/ Kick(x)
    PROVE  SessInv'
<1>1. UNCHANGED <<conn, room, tasks, posted>>
  BY DEF Sweep, Kick
<1>2. CASE StandUp(x)
  BY <1>1, <1>2, StandUpKeeps
<1>3. CASE UNCHANGED <<sessions, index, chairs, ghosts>>
  BY <1>1, <1>3 DEF chairs, ghosts, SessInv, SessTypes, SeatsHeld, Unknown, OnlineWhileHere
<1> QED
  BY <1>2, <1>3 DEF Sweep, Kick

\* The reaper takes the seat and tells no socket (player-reaper.service.ts).
LEMMA ReapKickKeeps ==
    ASSUME SessInv, ReapKick
    PROVE  SessInv'
<1>1. UNCHANGED <<conn, room, sessions, tasks, posted>>
  BY DEF ReapKick, desk
<1>2. ASSUME NEW x \in Places, NEW u \in Users, Vacate(x, {}),
             index' = [index EXCEPT ![u] = Nowhere]
      PROVE  SessInv'
  <2>1. \A t \in Sockets : sessions'[t] = sessions[t] /\ tasks'[t] = tasks[t]
    BY <1>1
  <2>2. seats' \in Players /\ SeatsHeld' /\ OnlineWhileHere'
    BY <1>1, <1>2, <2>1, VacateKeeps
  <2>3. index' \in [Users -> Spots]
    BY <1>2 DEF SessInv, SessTypes, Spots
  <2> QED
    BY <1>1, <2>2, <2>3 DEF SessInv, SessTypes, Unknown
<1>3. CASE UNCHANGED <<index, chairs, ghosts>>
  BY <1>1, <1>3 DEF chairs, ghosts, SessInv, SessTypes, SeatsHeld, Unknown, OnlineWhileHere
<1> QED
  BY <1>2, <1>3 DEF ReapKick

(***************************************************************************)
(* The theorems.                                                           *)
(***************************************************************************)

LEMMA SessInvInit == SessInit => SessInv
<1> SUFFICES ASSUME SessInit PROVE SessInv
  OBVIOUS
<1>1. SessTypes
  BY IdleTask DEF SessInit, SessTypes, Players, Spots
<1>2. SeatsHeld /\ Unknown /\ OnlineWhileHere
  BY IdleTask DEF SessInit, SeatsHeld, Unknown, OnlineWhileHere
<1> QED
  BY <1>1, <1>2 DEF SessInv

LEMMA SessInvNext == SessInv /\ [SessNext]_sess => SessInv'
<1> SUFFICES ASSUME SessInv, [SessNext]_sess PROVE SessInv'
  OBVIOUS
<1>1. CASE UNCHANGED <<conn, room, sessions, tasks, posted, seats, away, index,
                       orphaned, excused>>
  BY <1>1 DEF SessInv, SessTypes, SeatsHeld, Unknown, OnlineWhileHere
<1>2. CASE UNCHANGED sess
  BY <1>1, <1>2 DEF sess, desk, chairs, books, ghosts
<1>3. CASE Handlers
  BY <1>3, ReadIndexKeeps, CheckSeatKeeps, ReseatKeeps, JoinedKeeps DEF Handlers
<1>4. CASE Clients
  <2>1. ASSUME NEW x \in Places, Bench(x)
        PROVE  SessInv'
    BY <1>1, <2>1 DEF Bench, desk, books, ghosts
  <2> QED
    BY <1>4, <2>1, ConnectKeeps, DisconnectKeeps, SubscribeKeeps, LeaveKeeps, SitOutKeeps,
       JoinKeeps, NotPaidKeeps, PutOutKeeps DEF Clients
<1>5. CASE Clockwork
  <2>1. CASE MinutePasses
    BY <1>1, <2>1 DEF MinutePasses, desk, books, ghosts
  <2>2. CASE ReapLook
    BY <1>1, <2>2 DEF ReapLook, desk, chairs, ghosts
  <2> QED
    BY <1>5, <2>1, <2>2, PutOutKeeps, ReapKickKeeps DEF Clockwork
<1> QED
  BY <1>2, <1>3, <1>4, <1>5, PostKeeps, BroadcastKeeps DEF SessNext

LEMMA SessionsInvariant == SessSpec => []SessInv
BY SessInvInit, SessInvNext, PTL DEF SessSpec

\* A socket sees the cards of its own player and acts for nobody else, for any number of
\* users, tabs and seats and any order of connections, joins, refreshes, broadcasts of
\* old pictures, sweeps and kicks; except a tab whose player's seat was given up
\* elsewhere (game.gateway.ts).
THEOREM SocketsKeepToTheirSeats == SessSpec => []OwnSeatOnly
<1>1. SessInv => OwnSeatOnly
  BY DEF SessInv, SeatsHeld, OwnSeatOnly
<1> QED
  BY <1>1, SessionsInvariant, PTL

\* A player with an open session is not marked offline, however his tabs open, close and
\* refresh; except where the invariant says so (handleDisconnect's last-tab guard).
THEOREM OpenTabsAreOnline == SessSpec => []OnlineWhileHere
<1>1. SessInv => OnlineWhileHere
  BY DEF SessInv
<1> QED
  BY <1>1, SessionsInvariant, PTL

(***************************************************************************)
(* Sums over layers of chips.                                              *)
(***************************************************************************)

\* The sum over the seats is the sum over the set of the seats.
LEMMA SeatSumIsSum ==
    ASSUME NEW f, \A s \in Seats : f[s] \in Int
    PROVE  SeatSum(f) = SumFunctionOnSet(f, Seats)
<1> DEFINE part(T) == [s \in Seats |-> IF s \in T THEN f[s] ELSE 0]
           G == {T \in SUBSET Seats : SeatSum(part(T)) = SumFunctionOnSet(f, T)}
<1>1. IsFiniteSet(Seats)
  BY SeatsFinite
<1>2. ASSUME NEW T \in SUBSET Seats, \A U \in SUBSET T : U # T => U \in G
      PROVE  T \in G
  <2>1. IsFiniteSet(T)
    BY <1>1, FS_Subset
  <2>2. CASE T = {}
    <3>1. \A s \in Seats : part(T)[s] = 0
      BY <2>2
    <3>2. \A i : At(part(T), i) = 0
      BY <3>1 DEF At
    <3> HIDE DEF part
    <3>3. SeatSum(part(T)) = 0
      BY <3>2 DEF SeatSum
    <3> QED
      BY <2>1, <2>2, <3>3, SumDefined
  <2>3. ASSUME NEW x \in T
        PROVE  T \in G
    <3>1. T \ {x} \in G
      BY <1>2
    <3>2. SumFunctionOnSet(f, T) = f[x] + SumFunctionOnSet(f, T \ {x})
      BY <2>1, SumTake
    <3>3. SumFunctionOnSet(f, T \ {x}) = SeatSum(part(T \ {x}))
      BY <3>1
    <3>4. /\ \A s \in Seats : part(T)[s] \in Int /\ part(T \ {x})[s] \in Int
          /\ \A s \in Seats \ {x} : part(T)[s] = part(T \ {x})[s]
          /\ part(T)[x] = f[x] /\ part(T \ {x})[x] = 0 /\ x \in Seats /\ f[x] \in Int
      OBVIOUS
    <3> HIDE DEF part
    <3>5. /\ SeatSum(part(T)) = SeatSum(part(T \ {x})) + part(T)[x] - part(T \ {x})[x]
          /\ SeatSum(part(T \ {x})) \in Int
      BY <3>4, SeatSumChange, SeatSumType
    <3>6. SeatSum(part(T)) = SumFunctionOnSet(f, T)
      BY <3>2, <3>3, <3>4, <3>5
    <3> QED
      BY <3>6
  <2> QED
    BY <2>2, <2>3
<1>3. Seats \in G
  <2> HIDE DEF G
  <2> QED
    BY <1>1, <1>2, SubsetInduction
<1>4. \A s \in Seats : part(Seats)[s] = f[s]
  OBVIOUS
<1>5. SeatSum(part(Seats)) = SeatSum(f)
  <2> HIDE DEF part
  <2> QED
    BY <1>4, SeatSumEqual
<1> QED
  BY <1>3, <1>5

\* The same for each of the chips between two heights.
LEMMA ConstantSum ==
    ASSUME NEW d, NEW a \in Nat, NEW b \in Nat, a <= b, NEW c \in Int,
           \A k \in (a + 1)..b : d[k] = c
    PROVE  SumFunctionOnSet(d, (a + 1)..b) = (b - a) * c
<1> DEFINE wrong == {n \in Nat : a + n <= b /\ SumFunctionOnSet(d, (a + 1)..(a + n)) # n * c}
<1>1. ASSUME wrong # {}
      PROVE  FALSE
  <2>1. PICK n \in wrong : \A i \in wrong : n <= i
    BY <1>1, LeastElement
  <2>2. CASE n = 0
    <3>1. (a + 1)..(a + n) = {}
      BY <2>2
    <3>2. SumFunctionOnSet(d, {}) = 0
      BY FS_EmptySet, SumDefined
    <3> QED
      BY <2>1, <2>2, <3>1, <3>2
  <2>3. CASE n # 0
    <3> DEFINE S == (a + 1)..(a + (n - 1))
               x == a + n
    <3>1. n - 1 \in Nat /\ n - 1 \notin wrong /\ a + (n - 1) <= b
      BY <2>1, <2>3
    <3>2. SumFunctionOnSet(d, S) = (n - 1) * c
      BY <3>1
    <3>3. (a + 1)..(a + n) = S \cup {x} /\ x \notin S
      BY <2>1, <2>3
    <3>4. IsFiniteSet(S)
      BY <2>1, FS_Interval
    <3>5. \A k \in S \cup {x} : d[k] = c
      BY <2>1, <3>3
    <3> HIDE DEF S
    <3>6. SumFunctionOnSet(d, S \cup {x}) = SumFunctionOnSet(d, S) + d[x]
      BY <3>3, <3>4, <3>5, SumAdd
    <3>7. SumFunctionOnSet(d, S \cup {x}) = (n - 1) * c + c
      BY <3>2, <3>5, <3>6
    <3>8. \A m \in Nat : m # 0 => (m - 1) * c + c = m * c
      OBVIOUS
    <3> QED
      BY <2>1, <2>3, <3>3, <3>7, <3>8
  <2> QED
    BY <2>2, <2>3
<1>2. b - a \in Nat /\ a + (b - a) = b
  OBVIOUS
<1>3. b - a \notin wrong
  BY <1>1
<1> QED
  BY <1>2, <1>3

\* Each level of L begins where the next lower one ends.
Stacked(L, below) ==
    \A l \in L : below[l] \in {0} \cup L /\ below[l] < l /\ \A k \in L : k < l => k <= below[l]

\* What each level holds of d.
Holds(L, below, d, slice) ==
    \A l \in L : slice[l] = SumFunctionOnSet(d, (below[l] + 1)..l)

\* The sum over the chips up to a level is the sum, over the levels up to it, of what each
\* holds.
LEMMA LevelByLevel ==
    ASSUME NEW L, \A l \in L : l \in Nat \ {0}, IsFiniteSet(L), NEW below, Stacked(L, below),
           NEW d, \A k \in Nat : d[k] \in Int, NEW slice, Holds(L, below, d, slice), NEW n \in L
    PROVE  SumFunctionOnSet(d, 1..n) = SumFunctionOnSet(slice, {l \in L : l <= n})
<1> DEFINE upTo(m) == {l \in L : l <= m}
           adds(m) == SumFunctionOnSet(d, 1..m) = SumFunctionOnSet(slice, upTo(m))
           wrong == {m \in {0} \cup L : ~ adds(m)}
<1> HIDE DEF adds
<1>1. \A l \in L : l \in Nat /\ l # 0 /\ below[l] \in Nat
  <2>1. \A l \in L : l \in Nat /\ l # 0
    OBVIOUS
  <2>2. \A l \in L : below[l] \in {0} \cup L
    BY DEF Stacked
  <2> QED
    BY <2>1, <2>2
<1>2. \A l \in L : slice[l] \in Int
  <2>1. ASSUME NEW l \in L
        PROVE  SumFunctionOnSet(d, (below[l] + 1)..l) \in Int
    <3>1. PICK a \in Nat : a = below[l]
      BY <1>1
    <3>2. \A k \in (a + 1)..l : k \in Nat
      BY <1>1
    <3>3. a + 1 \in Int /\ l \in Int
      BY <1>1
    <3>4. IsFiniteSet((a + 1)..l)
      BY <3>3, FS_Interval, Zenon
    <3>5. SumFunctionOnSet(d, (a + 1)..l) \in Int
      BY <3>2, <3>4, SumType
    <3> QED
      BY <3>1, <3>5
  <2> QED
    BY <2>1 DEF Holds
<1>3. wrong \in SUBSET Nat
  BY <1>1
<1>4. ASSUME wrong # {}
      PROVE  FALSE
  <2>1. PICK m \in wrong : \A i \in wrong : m <= i
    BY <1>3, <1>4, LeastElement
  <2>2. m \in Nat /\ ~ adds(m) /\ m \in {0} \cup L
    BY <1>3, <2>1
  <2>3. CASE m = 0
    <3>1. 1..m = {}
      BY <2>3
    <3>2. upTo(m) = {}
      BY <1>1, <2>3
    <3>3. SumFunctionOnSet(d, {}) = 0 /\ SumFunctionOnSet(slice, {}) = 0
      BY FS_EmptySet, SumDefined
    <3> QED
      BY <2>2, <3>1, <3>2, <3>3 DEF adds
  <2>4. CASE m # 0
    <3>1. m \in L
      BY <2>2, <2>4
    <3>2. PICK p \in Nat : p = below[m]
      BY <1>1, <3>1
    <3>3. p \in {0} \cup L /\ p < m /\ \A k \in L : k < m => k <= p
      BY <3>1, <3>2 DEF Stacked
    <3>4. adds(p)
      <4>1. p \notin wrong
        BY <2>1, <2>2, <3>3
      <4> QED
        BY <3>3, <4>1
    <3>5. /\ 1..m = (1..p) \cup ((p + 1)..m) /\ (1..p) \cap ((p + 1)..m) = {}
          /\ \A k \in (1..p) \cup ((p + 1)..m) : k \in Nat
      BY <2>2, <3>3
    <3>6. 1 \in Int /\ p \in Int /\ p + 1 \in Int /\ m \in Int
      BY <2>2
    <3>7. IsFiniteSet(1..p) /\ IsFiniteSet((p + 1)..m)
      BY <3>6, FS_Interval, Zenon
    <3>8. \A k \in (1..p) \cup ((p + 1)..m) : d[k] \in Int
      BY <3>5
    <3>9. SumFunctionOnSet(d, (1..p) \cup ((p + 1)..m))
            = SumFunctionOnSet(d, 1..p) + SumFunctionOnSet(d, (p + 1)..m)
      BY <3>5, <3>7, <3>8, SumUnion
    <3>10. upTo(m) = upTo(p) \cup {m} /\ m \notin upTo(p)
      <4>1. ASSUME NEW l \in L
            PROVE  l <= m <=> l <= p \/ l = m
        <5>1. l \in Nat
          BY <1>1
        <5> QED
          BY <2>2, <3>3, <5>1
      <4>2. ~ (m <= p)
        BY <2>2, <3>3
      <4> QED
        BY <3>1, <4>1, <4>2
    <3>11. upTo(p) \subseteq L
      OBVIOUS
    <3>12. IsFiniteSet(upTo(p))
      BY <3>11, FS_Subset
    <3>13. \A l \in upTo(p) \cup {m} : slice[l] \in Int
      BY <1>2, <3>1, <3>11
    <3> HIDE DEF upTo
    <3>14. SumFunctionOnSet(slice, upTo(p) \cup {m}) = SumFunctionOnSet(slice, upTo(p)) + slice[m]
      BY <3>10, <3>12, <3>13, SumAdd
    <3>15. slice[m] = SumFunctionOnSet(d, (p + 1)..m)
      BY <3>1, <3>2 DEF Holds
    <3>16. SumFunctionOnSet(d, 1..p) = SumFunctionOnSet(slice, upTo(p))
      BY <3>4 DEF adds
    <3>17. adds(m)
      BY <3>5, <3>9, <3>10, <3>14, <3>15, <3>16 DEF adds
    <3> QED
      BY <2>2, <3>17
  <2> QED
    BY <2>3, <2>4
<1>5. adds(n)
  BY <1>4
<1> QED
  BY <1>5 DEF adds

(***************************************************************************)
(* Who is paid what of a pot.                                              *)
(***************************************************************************)

\* Who put in one chip of a slice put in all of it, so that the same seats win them all.
LEMMA LayerOfSlice ==
    ASSUME \A s \in Seats : contrib[s] \in Nat,
           NEW level \in Nat \ {0}, NEW k \in (LevelBelow(contrib, level) + 1)..level
    PROVE  Layer(k) = Layer(level) /\ Claim(k) = Claim(level)
<1>1. /\ LevelBelow(contrib, level) \in Nat
      /\ \A s \in Seats : contrib[s] < level => contrib[s] <= LevelBelow(contrib, level)
  BY LevelBelowIs
<1>2. k \in Nat /\ k <= level /\ k > LevelBelow(contrib, level)
  BY <1>1
<1>3. \A s \in Seats : contrib[s] >= k <=> contrib[s] >= level
  BY <1>1, <1>2
<1>4. Layer(k) = Layer(level)
  BY <1>3 DEF Layer
<1> QED
  BY <1>4 DEF Claim

\* A slice is as many chips of each seat that paid it as it is high.
LEMMA SliceWidth ==
    ASSUME \A s \in Seats : contrib[s] \in Nat, NEW level \in Nat \ {0}
    PROVE  Slice(contrib, level)
             = (level - LevelBelow(contrib, level)) * Cardinality(Layer(level))
<1> DEFINE below == LevelBelow(contrib, level)
           put == [s \in Seats |-> Larger(0, Smaller(contrib[s], level) - below)]
           even == [s \in Seats |-> IF s \in Layer(level) THEN level - below ELSE 0]
<1>1. /\ below \in Nat /\ below < level
      /\ \A s \in Seats : contrib[s] < level => contrib[s] <= below
  BY LevelBelowIs
<1>2. Layer(level) \in SUBSET Seats /\ \A s \in Seats : s \in Layer(level) <=> contrib[s] >= level
  BY DEF Layer
<1>3. Slice(contrib, level) = SeatSum(put)
  BY DEF Slice
<1> HIDE DEF below
<1>4. \A s \in Seats : put[s] = even[s]
  BY <1>1, <1>2 DEF Larger, Smaller
<1>5. SeatSum(put) = SeatSum(even)
  <2> HIDE DEF put, even
  <2> QED
    BY <1>4, SeatSumEqual
<1>6. level - below \in Int
  BY <1>1
<1> DEFINE width == level - below
<1>7. SeatSum([s \in Seats |-> IF s \in Layer(level) THEN width ELSE 0])
        = Cardinality(Layer(level)) * width
  <2> HIDE DEF width
  <2> QED
    BY <1>2, <1>6, SameForEach DEF width
<1>8. Cardinality(Layer(level)) \in Nat
  BY <1>2, SeatsFinite
<1> QED
  BY <1>3, <1>5, <1>6, <1>7, <1>8 DEF below

\* Any number of winners up to ten shares evenly what is counted in Common parts.
LEMMA CommonParts ==
    ASSUME NEW n \in 1..10
    PROVE  /\ Common \div n \in Nat \ {0} /\ n * (Common \div n) = Common
           /\ \A x \in Nat : (Common * x) \div n = (Common \div n) * x
<1>1. n \in {1, 2, 3, 4, 5, 6, 7, 8, 9, 10}
  OBVIOUS
<1>2. CASE n = 1
  BY <1>2 DEF Common
<1>3. CASE n = 2
  BY <1>3 DEF Common
<1>4. CASE n = 3
  BY <1>4 DEF Common
<1>5. CASE n = 4
  BY <1>5 DEF Common
<1>6. CASE n = 5
  BY <1>6 DEF Common
<1>7. CASE n = 6
  BY <1>7 DEF Common
<1>8. CASE n = 7
  BY <1>8 DEF Common
<1>9. CASE n = 8
  BY <1>9 DEF Common
<1>10. CASE n = 9
  BY <1>10 DEF Common
<1>11. CASE n = 10
  BY <1>11 DEF Common
<1> QED
  BY <1>1, <1>2, <1>3, <1>4, <1>5, <1>6, <1>7, <1>8, <1>9, <1>10, <1>11

\* Products of naturals, in whichever order.
LEMMA Products ==
    ASSUME NEW a \in Nat, NEW b \in Nat, NEW c \in Nat
    PROVE  /\ a * b \in Nat /\ a * b = b * a
           /\ (a * b) * c = a * (b * c) /\ (a + b) * c = a * c + b * c
OBVIOUS

\* Ten seats at most win a slice.
LEMMA Winnings ==
    ASSUME NEW W \in SUBSET Seats, NEW s \in W
    PROVE  Cardinality(W) \in 1..10
<1>1. IsFiniteSet(W) /\ Cardinality(W) \in Nat /\ Cardinality(W) # 0
  BY SeatsFinite
<1>2. IsFiniteSet(0..9) /\ Cardinality(0..9) = 10
  <2>1. 0 \in Int /\ 9 \in Int /\ ~ (0 > 9) /\ 9 - 0 + 1 = 10
    OBVIOUS
  <2> QED
    BY <2>1, FS_Interval, Zenon
<1>3. W \subseteq 0..9
  BY SeatsAssumption
<1>4. Cardinality(W) <= 10
  BY <1>2, <1>3, FS_Subset, Zenon
<1> QED
  BY <1>1, <1>4

\* A winner's part of a slice is his even part of it, less the rake's part and but for a
\* chip per winner.
LEMMA FairPart ==
    ASSUME NEW amount \in Nat, NEW sl \in Nat, NEW total \in Nat, NEW left \in Nat,
           IsScaled(amount, sl, total, left),
           NEW W \in SUBSET Seats, NEW s \in W, NEW lead
    PROVE  LET n == Cardinality(W)
               due == (Common \div n) * sl
               part == Part(amount, W, lead, s)
           IN  /\ n \in 1..10
               /\ Common * total * part <= due * left + Common * total * n
               /\ Common * total * part >= due * left - Common * total * n
<1> DEFINE n == Cardinality(W)
           m == Common \div n
           q == amount \div n
           e == amount % n
           part == Part(amount, W, lead, s)
<1>1. n \in 1..10
  BY Winnings
<1>2. m \in Nat /\ n * m = Common
  BY <1>1, CommonParts
<1>3. part = q + (IF s = lead THEN e ELSE 0)
  BY DEF Part
<1>4. amount * total <= sl * left /\ sl * left <= amount * total + total
  BY DEF IsScaled
<1> SUFFICES /\ Common * total * part <= (m * sl) * left + Common * total * n
             /\ Common * total * part >= (m * sl) * left - Common * total * n
  BY <1>1
<1> HIDE DEF n, m
<1>5. q \in Nat /\ e \in 0..(n - 1) /\ amount = n * q + e
  BY <1>1, Division
<1> HIDE DEF q, e, part
<1>6. part \in Nat /\ n \in Nat /\ e \in Nat /\ (part = q \/ part = q + e)
  BY <1>1, <1>3, <1>5
<1>7. n * part <= amount + n * n /\ amount + 1 <= n * part + n
  <2>1. n * q \in Nat /\ n * e \in Nat /\ n * e <= n * n /\ n * (q + e) = n * q + n * e
    <3>1. e * n <= n * n
      BY <1>5, <1>6, ProductOrder
    <3>2. e * n = n * e
      BY <1>6, Products
    <3> QED
      BY <1>5, <1>6, <3>1, <3>2, Products
  <2>2. n * part = n * q \/ n * part = n * q + n * e
    BY <1>6, <2>1
  <2> QED
    BY <1>5, <1>6, <2>1, <2>2
<1>8. /\ n * part \in Nat /\ n * n \in Nat /\ m * sl \in Nat /\ sl * left \in Nat
      /\ Common \in Nat
  BY <1>2, <1>6 DEF Common
<1>9. Common * total * part <= (m * sl) * left + Common * total * n
  <2>1. (n * part) * total <= (amount + n * n) * total
    BY <1>7, <1>8, ProductOrder
  <2>2. /\ (amount + n * n) * total = amount * total + (n * n) * total
        /\ (n * part) * total \in Nat /\ amount * total \in Nat /\ (n * n) * total \in Nat
    BY <1>8, Products
  <2>3. (n * part) * total <= sl * left + (n * n) * total
    BY <1>4, <1>8, <2>1, <2>2
  <2>4. ((n * part) * total) * m <= (sl * left + (n * n) * total) * m
    BY <1>2, <1>8, <2>2, <2>3, ProductOrder
  <2>5. ((n * part) * total) * m = Common * total * part
    BY <1>2, <1>6
  <2>6. (sl * left + (n * n) * total) * m = (m * sl) * left + Common * total * n
    BY <1>2, <1>6
  <2> QED
    BY <2>4, <2>5, <2>6
<1>10. Common * total * part >= (m * sl) * left - Common * total * n
  <2>1. (amount + 1) * total <= (n * part + n) * total
    BY <1>6, <1>7, <1>8, ProductOrder
  <2>2. /\ (amount + 1) * total = amount * total + total
        /\ (n * part + n) * total \in Nat /\ amount * total \in Nat
    BY <1>6, <1>8, Products
  <2>3. sl * left <= (n * part + n) * total
    BY <1>4, <1>8, <2>1, <2>2
  <2>4. (sl * left) * m <= ((n * part + n) * total) * m
    BY <1>2, <1>8, <2>2, <2>3, ProductOrder
  <2>5. ((n * part + n) * total) * m = Common * total * part + Common * total
    BY <1>2, <1>6
  <2>6. (sl * left) * m = (m * sl) * left
    BY <1>2
  <2>7. /\ Common * total * part \in Nat /\ Common * total \in Nat /\ (m * sl) * left \in Nat
        /\ Common * total * n \in Nat
    BY <1>6, <1>8
  <2>8. 1 * (Common * total) <= n * (Common * total)
    BY <1>1, <1>6, <2>7, ProductOrder
  <2>9. n * (Common * total) = Common * total * n
    BY <1>6, <2>7, Products
  <2> QED
    BY <2>4, <2>5, <2>6, <2>7, <2>8, <2>9
<1> QED
  BY <1>9, <1>10

\* The same for each chip of every slice.
Even(d) ==
    \A level \in Nat \ {0} : \A k \in (LevelBelow(contrib, level) + 1)..level : d[k] = d[level]

\* What each slice holds of d, at the seat that stands for its level.
BySlice(d) ==
    [r \in Seats |-> IF r \in LevelSeats(contrib)
                       THEN (contrib[r] - LevelBelow(contrib, contrib[r])) * d[contrib[r]] ELSE 0]

\* The sum over the layers of chips is the sum over the slices, when it is even in each.
LEMMA SlicesOfLayers ==
    ASSUME \A s \in Seats : contrib[s] \in Nat, NEW d, \A k \in Nat : d[k] \in Int, Even(d)
    PROVE  /\ \A r \in Seats : BySlice(d)[r] \in Int
           /\ SumFunctionOnSet(d, 1..SeatMax(contrib)) = SeatSum(BySlice(d))
<1> DEFINE L == {contrib[s] : s \in Seats} \ {0}
           below == [l \in L |-> LevelBelow(contrib, l)]
           slice == [l \in L |-> (l - below[l]) * d[l]]
           max == SeatMax(contrib)
<1>1. \A l \in L : l \in Nat \ {0}
  OBVIOUS
<1>2. IsFiniteSet(L)
  <2>1. max \in Nat /\ \A s \in Seats : contrib[s] <= max
    BY SeatMaxType, SeatMaxIsLargest
  <2> HIDE DEF max
  <2>2. L \subseteq 0..max
    BY <2>1
  <2>3. IsFiniteSet(0..max)
    BY <2>1, FS_Interval
  <2> QED
    BY <2>2, <2>3, FS_Subset
<1>3. \A l \in L : /\ below[l] \in Nat /\ below[l] < l /\ below[l] \in {0} \cup L
                   /\ \A k \in L : k < l => k <= below[l]
  <2>1. ASSUME NEW l \in L
        PROVE  /\ LevelBelow(contrib, l) \in Nat /\ LevelBelow(contrib, l) < l
               /\ LevelBelow(contrib, l) \in {0} \cup L
               /\ \A s \in Seats : contrib[s] < l => contrib[s] <= LevelBelow(contrib, l)
    <3>1. \A s \in Seats : contrib[s] \in Int
      OBVIOUS
    <3>2. l \in Nat \ {0}
      BY <1>1
    <3>3. /\ LevelBelow(contrib, l) \in Nat /\ LevelBelow(contrib, l) < l
          /\ LevelBelow(contrib, l) = 0 \/ \E r \in Seats : contrib[r] = LevelBelow(contrib, l)
          /\ \A s \in Seats : contrib[s] < l => contrib[s] <= LevelBelow(contrib, l)
      BY <3>1, <3>2, LevelBelowIs
    <3> QED
      BY <3>3
  <2> QED
    BY <2>1
<1>4. \A l \in L : slice[l] = (l - below[l]) * d[l] /\ d[l] \in Int
  BY <1>1
<1>5. Stacked(L, below)
  BY <1>3 DEF Stacked
<1>6. \A l \in L : below[l] = LevelBelow(contrib, l)
  OBVIOUS
<1>7. \A x : x \in L <=> x # 0 /\ \E s \in Seats : x = contrib[s]
  OBVIOUS
<1> HIDE DEF L, below, slice
<1>8. Holds(L, below, d, slice)
  <2>1. ASSUME NEW l \in L
        PROVE  slice[l] = SumFunctionOnSet(d, (below[l] + 1)..l)
    <3>1. PICK a \in Nat : a = below[l]
      BY <1>3
    <3>2. a <= l /\ l \in Nat /\ d[l] \in Int
      BY <1>1, <1>3, <1>4, <3>1
    <3>3. \A k \in (a + 1)..l : d[k] = d[l]
      BY <1>1, <1>6, <3>1 DEF Even
    <3>4. SumFunctionOnSet(d, (a + 1)..l) = (l - a) * d[l]
      BY <3>2, <3>3, ConstantSum
    <3> QED
      BY <1>4, <3>1, <3>4
  <2> QED
    BY <2>1 DEF Holds
<1>9. max \in Nat /\ \A s \in Seats : contrib[s] <= max
  BY SeatMaxType, SeatMaxIsLargest
<1>10. SumFunctionOnSet(d, 1..max) = SumFunctionOnSet(slice, L)
  <2>1. CASE max = 0
    <3>1. L = {} /\ 1..max = {}
      BY <1>7, <1>9, <2>1
    <3>2. SumFunctionOnSet(d, {}) = 0 /\ SumFunctionOnSet(slice, {}) = 0
      BY FS_EmptySet, SumDefined
    <3> QED
      BY <3>1, <3>2
  <2>2. CASE max # 0
    <3>1. max \in L
      BY <1>7, <2>2, SeatMaxIsLargest
    <3>2. {l \in L : l <= max} = L
      BY <1>7, <1>9
    <3> HIDE DEF max
    <3>3. SumFunctionOnSet(d, 1..max) = SumFunctionOnSet(slice, {l \in L : l <= max})
      BY <1>1, <1>2, <1>5, <1>8, <3>1, LevelByLevel
    <3> QED
      BY <3>2, <3>3
  <2> QED
    BY <2>1, <2>2
<1> DEFINE S == LevelSeats(contrib)
           f == BySlice(d)
<1>11. /\ S \subseteq Seats /\ \A r \in S : contrib[r] \in L
       /\ \A r, q \in S : contrib[r] = contrib[q] => r = q
       /\ \A l \in L : \E r \in S : l = contrib[r]
  <2>1. S \subseteq Seats /\ \A r \in S : contrib[r] \in L
    BY <1>7 DEF LevelSeats
  <2>2. \A r, q \in S : contrib[r] = contrib[q] => r = q
    <3>1. ASSUME NEW r \in S, NEW q \in S, contrib[r] = contrib[q]
          PROVE  r = q
      <4>1. r <= q /\ q <= r /\ r \in Int /\ q \in Int
        BY <3>1, SeatsAssumption DEF LevelSeats
      <4> QED
        BY <4>1
    <3> QED
      BY <3>1
  <2>3. \A l \in L : \E r \in S : l = contrib[r]
    BY <1>7, LevelSeat
  <2> QED
    BY <2>1, <2>2, <2>3
<1>12. \A r \in S : f[r] = slice[contrib[r]] /\ f[r] \in Int
  <2>1. ASSUME NEW r \in S
        PROVE  f[r] = slice[contrib[r]] /\ f[r] \in Int
    <3>1. PICK l \in L : l = contrib[r]
      BY <1>11
    <3>2. f[r] = (l - below[l]) * d[l]
      BY <1>6, <1>11, <3>1 DEF BySlice
    <3>3. l \in Int /\ below[l] \in Int /\ d[l] \in Int
      BY <1>1, <1>3, <1>4
    <3>4. (l - below[l]) * d[l] \in Int
      BY <3>3
    <3> QED
      BY <1>4, <3>1, <3>2, <3>4
  <2> QED
    BY <2>1
<1>13. \A r \in Seats \ S : f[r] = 0
  BY DEF BySlice
<1>14. \A r \in Seats : f[r] \in Int
  BY <1>12, <1>13
<1>15. IsFiniteSet(Seats) /\ IsFiniteSet(S)
  BY <1>11, SeatsFinite
<1> HIDE DEF S, f
<1>16. SeatSum(f) = SumFunctionOnSet(f, Seats)
  BY <1>14, SeatSumIsSum
<1>17. SumFunctionOnSet(f, Seats) = SumFunctionOnSet(f, S)
  BY <1>11, <1>13, <1>14, <1>15, SumRestrict
<1>18. SumFunctionOnSet(slice, L) = SumFunctionOnSet(f, S)
  BY <1>11, <1>12, <1>15, SumRename
<1> QED
  BY <1>10, <1>14, <1>16, <1>17, <1>18 DEF f
\* What the layers owe a seat, layer by layer.
DueLayers(s) ==
    [k \in Nat |-> IF s \in Claim(k)
                     THEN (Common * Cardinality(Layer(k))) \div Cardinality(Claim(k)) ELSE 0]

\* How many seats claim a layer is a number up to ten, and what they are due is one too.
LEMMA Claims ==
    ASSUME NEW s \in Seats, NEW k \in Nat
    PROVE  /\ Claim(k) \in SUBSET Seats /\ Cardinality(Layer(k)) \in Nat
           /\ s \in Claim(k) => Cardinality(Claim(k)) \in 1..10
           /\ DueLayers(s)[k] \in Nat
<1>1. Claim(k) \in SUBSET Seats /\ Layer(k) \in SUBSET Seats
  BY DEF Claim, Layer
<1>2. Cardinality(Layer(k)) \in Nat
  BY <1>1, SeatsFinite
<1>3. s \in Claim(k) => Cardinality(Claim(k)) \in 1..10
  BY <1>1, Winnings
<1>4. DueLayers(s)[k] = IF s \in Claim(k)
         THEN (Common * Cardinality(Layer(k))) \div Cardinality(Claim(k)) ELSE 0
  BY DEF DueLayers
<1>5. CASE s \in Claim(k)
  <2> DEFINE n == Cardinality(Claim(k))
             x == Cardinality(Layer(k))
  <2>1. n \in 1..10 /\ x \in Nat
    BY <1>2, <1>3, <1>5
  <2>2. DueLayers(s)[k] = (Common * x) \div n
    BY <1>4, <1>5
  <2> HIDE DEF n, x
  <2>3. DueLayers(s)[k] = (Common \div n) * x /\ (Common \div n) \in Nat
    BY <2>1, <2>2, CommonParts
  <2>4. (Common \div n) * x \in Nat
    BY <2>1, <2>3, Products
  <2> QED
    BY <1>1, <1>2, <1>3, <2>3, <2>4
<1>6. CASE s \notin Claim(k)
  BY <1>1, <1>2, <1>3, <1>4, <1>6
<1> QED
  BY <1>5, <1>6

\* What the layers owe a seat is what the slices owe it.
LEMMA DueBySlice ==
    ASSUME \A r \in Seats : contrib[r] \in Nat, NEW s \in Seats
    PROVE  /\ \A r \in Seats : BySlice(DueLayers(s))[r] \in Int
           /\ CommonDue(s) = SeatSum(BySlice(DueLayers(s)))
<1> DEFINE d == DueLayers(s)
           max == SeatMax(contrib)
           e == [k \in 1..max |-> IF s \in Claim(k)
                    THEN (Common * Cardinality(Layer(k))) \div Cardinality(Claim(k)) ELSE 0]
<1>1. \A k \in Nat : d[k] \in Int
  BY Claims
<1>2. Even(d)
  <2>1. ASSUME NEW level \in Nat \ {0}, NEW k \in (LevelBelow(contrib, level) + 1)..level
        PROVE  d[k] = d[level]
    <3>1. Layer(k) = Layer(level) /\ Claim(k) = Claim(level)
      BY LayerOfSlice
    <3>2. LevelBelow(contrib, level) \in Nat
      BY LevelBelowIs
    <3>3. k \in Nat /\ level \in Nat
      BY <3>2
    <3> QED
      BY <3>1, <3>3 DEF DueLayers
  <2> QED
    BY <2>1 DEF Even
<1>3. max \in Nat
  BY SeatMaxType
<1>4. CommonDue(s) = SumFunctionOnSet(e, 1..max)
  <2>1. DOMAIN e = 1..max
    OBVIOUS
  <2> QED
    BY <2>1 DEF CommonDue, SumFunction
<1>5. \A k \in 1..max : e[k] = d[k]
  BY <1>3 DEF DueLayers
<1>6. IsFiniteSet(1..max)
  BY <1>3, FS_Interval
<1> HIDE DEF d, e, max
<1>7. SumFunctionOnSet(e, 1..max) = SumFunctionOnSet(d, 1..max)
  BY <1>5, <1>6, SumEqual
<1>8. /\ \A r \in Seats : BySlice(d)[r] \in Int
      /\ SumFunctionOnSet(d, 1..max) = SeatSum(BySlice(d))
  BY <1>1, <1>2, SlicesOfLayers DEF max
<1> QED
  BY <1>4, <1>7, <1>8 DEF d
\* Of each slice a seat is paid what it owes him, less the rake's part and but for a chip
\* per winner.
LEMMA SliceShare ==
    ASSUME \A q \in Seats : contrib[q] \in Nat, alive \in SUBSET Seats, DOMAIN score = alive,
           gross \in Nat, NEW first, NEW amounts \in Amounts(contrib, alive, score, gross, Net),
           NEW r \in Seats, NEW s \in Seats
    PROVE  LET got == Shares(contrib, alive, score, first, amounts)[r][s]
               due == BySlice(DueLayers(s))[r]
               slack == IF r \in LevelSeats(contrib) THEN Cardinality(Claim(contrib[r])) ELSE 0
           IN  /\ got \in Nat /\ slack \in Nat
               /\ Common * gross * got <= due * Net + Common * gross * slack
               /\ Common * gross * got >= due * Net - Common * gross * slack
<1> DEFINE level == contrib[r]
           W == Winners(contrib, alive, score, level)
           got == Shares(contrib, alive, score, first, amounts)[r][s]
           due == BySlice(DueLayers(s))[r]
           slack == IF r \in LevelSeats(contrib) THEN Cardinality(Claim(contrib[r])) ELSE 0
           fair == /\ got \in Nat /\ slack \in Nat
                   /\ Common * gross * got <= due * Net + Common * gross * slack
                   /\ Common * gross * got >= due * Net - Common * gross * slack
<1>1. Net \in Nat /\ Net \in 0..gross
  BY RakeBounds DEF Net
<1>2. W = Claim(level) /\ W \in SUBSET Seats
  BY DEF Winners, Claim, Layer
<1>3. got = IF r \in Winnable(contrib, alive, score)
               THEN Part(amounts[r], W, first[r], s) ELSE 0
  BY DEF Shares
<1>4. r \in Winnable(contrib, alive, score) <=> r \in LevelSeats(contrib) /\ W # {}
  BY DEF Winnable
<1>5. due = IF r \in LevelSeats(contrib)
              THEN (level - LevelBelow(contrib, level)) * DueLayers(s)[level] ELSE 0
  BY DEF BySlice
<1>6. DueLayers(s)[level] = IF s \in W
         THEN (Common * Cardinality(Layer(level))) \div Cardinality(W) ELSE 0
  BY <1>2 DEF DueLayers
<1>7. slack = IF r \in LevelSeats(contrib) THEN Cardinality(W) ELSE 0
  BY <1>2
<1>8. Cardinality(W) \in Nat /\ Common \in Nat
  BY <1>2, SeatsFinite DEF Common
<1>9. r \in LevelSeats(contrib) => level \in Nat \ {0}
  BY DEF LevelSeats
<1> SUFFICES fair
  OBVIOUS
<1> HIDE DEF W, got, due, slack, level
<1>10. CASE got = 0 /\ due = 0
  <2>1. slack \in Nat
    BY <1>7, <1>8
  <2>2. Common * gross \in Nat
    BY <1>8, Products
  <2>3. Common * gross * slack \in Nat
    BY <2>1, <2>2, Products
  <2>4. Common * gross * 0 = 0 /\ 0 * Net = 0
    BY <1>1, <2>2
  <2> QED
    BY <1>10, <2>1, <2>3, <2>4
<1>11. CASE r \in LevelSeats(contrib) /\ s \in W
  <2> DEFINE n == Cardinality(W)
             sl == Slice(contrib, level)
             x == Cardinality(Layer(level))
             h == level - LevelBelow(contrib, level)
  <2>1. r \in Winnable(contrib, alive, score)
    BY <1>4, <1>11
  <2>2. amounts[r] \in Nat /\ IsScaled(amounts[r], sl, gross, Net)
    BY <2>1 DEF Amounts, level
  <2>3. level \in Nat \ {0}
    BY <1>9, <1>11
  <2>4. sl = h * x
    BY <2>3, SliceWidth
  <2>5. h \in Nat /\ x \in Nat
    <3>1. LevelBelow(contrib, level) \in Nat /\ LevelBelow(contrib, level) < level
      BY <2>3, LevelBelowIs
    <3>2. x \in Nat
      BY SeatsFinite DEF Layer
    <3> QED
      BY <2>3, <3>1, <3>2
  <2>6. n \in 1..10
    BY <1>2, <1>11, Winnings
  <2>7. due = h * ((Common * x) \div n)
    BY <1>5, <1>6, <1>11
  <2> HIDE DEF n, x, h
  <2>8. sl \in Nat
    BY <2>4, <2>5, Products
  <2>9. (Common * x) \div n = (Common \div n) * x /\ Common \div n \in Nat
    BY <2>5, <2>6, CommonParts
  <2>10. due = (Common \div n) * sl
    <3> DEFINE m == Common \div n
    <3>1. m \in Nat
      BY <2>9
    <3> HIDE DEF m
    <3>2. h * (m * x) = m * (h * x)
      BY <2>5, <3>1
    <3> QED
      BY <2>4, <2>7, <2>9, <3>2 DEF m
  <2>11. got = Part(amounts[r], W, first[r], s)
    BY <1>3, <2>1
  <2>12. got \in Nat
    <3>1. Part(amounts[r], W, first[r], s) \in 0..amounts[r]
      BY <1>2, <2>2, PartBounds
    <3> QED
      BY <2>2, <2>11, <3>1
  <2>13. slack = n
    BY <1>7, <1>11 DEF n
  <2> HIDE DEF sl
  <2>14. /\ Common * gross * got <= due * Net + Common * gross * n
         /\ Common * gross * got >= due * Net - Common * gross * n
    BY <1>1, <1>2, <1>11, <2>2, <2>8, <2>10, <2>11, FairPart DEF n
  <2> QED
    BY <2>6, <2>12, <2>13, <2>14
<1>12. CASE ~ (r \in LevelSeats(contrib) /\ s \in W)
  <2>1. got = 0
    BY <1>3, <1>4, <1>12 DEF Part
  <2>2. due = 0
    <3>1. CASE r \notin LevelSeats(contrib)
      BY <1>5, <3>1
    <3>2. CASE r \in LevelSeats(contrib) /\ s \notin W
      <4>1. level - LevelBelow(contrib, level) \in Int
        BY <1>9, <3>2, LevelBelowIs
      <4> QED
        BY <1>5, <1>6, <3>2, <4>1
    <3> QED
      BY <1>12, <3>1, <3>2
  <2> QED
    BY <1>10, <2>1, <2>2
<1>13. fair
  BY <1>11, <1>12
<1> QED
  BY <1>13 DEF got, due, slack

\* A showdown pays each seat what the layers owe him, less the rake's part and but for the
\* rounding of each side pot.
LEMMA SplitIsFair ==
    ASSUME \A q \in Seats : contrib[q] \in Nat, alive \in SUBSET Seats, DOMAIN score = alive,
           gross \in Nat, won \in Payouts(contrib, alive, score, gross, Net), NEW s \in Seats
    PROVE  /\ Common * gross * won[s] <= CommonDue(s) * Net + Common * gross * Slack
           /\ Common * gross * won[s] >= CommonDue(s) * Net - Common * gross * Slack
<1>1. Net \in Nat /\ Net \in 0..gross
  BY RakeBounds DEF Net
<1>2. PICK first, amounts :
         /\ amounts \in Amounts(contrib, alive, score, gross, Net)
         /\ PaidOut(contrib, alive, score, first, amounts, won)
  BY <1>1, PayoutShares
<1> DEFINE c == Common * gross
           got == [r \in Seats |-> Shares(contrib, alive, score, first, amounts)[r][s]]
           due == BySlice(DueLayers(s))
           slack == [r \in Seats |-> IF r \in LevelSeats(contrib)
                                       THEN Cardinality(Claim(contrib[r])) ELSE 0]
           lhs == [r \in Seats |-> got[r] * c]
           mid == [r \in Seats |-> due[r] * Net]
           off == [r \in Seats |-> slack[r] * c]
           up == [r \in Seats |-> mid[r] + off[r]]
           lhsOff == [r \in Seats |-> lhs[r] + off[r]]
<1>3. c \in Nat
  BY Products DEF Common
<1>4. \A r \in Seats : /\ got[r] \in Nat /\ slack[r] \in Nat
                       /\ c * got[r] <= due[r] * Net + c * slack[r]
                       /\ c * got[r] >= due[r] * Net - c * slack[r]
  BY <1>2, SliceShare
<1>5. won[s] = SeatSum(got) /\ Slack = SeatSum(slack)
  BY <1>2 DEF PaidOut, Slack
<1>6. /\ \A r \in Seats : due[r] \in Int
      /\ CommonDue(s) = SeatSum(due)
  BY DueBySlice
<1> HIDE DEF c, got, due, slack
<1>7. \A r \in Seats : /\ lhs[r] = got[r] * c /\ lhs[r] \in Int
                       /\ mid[r] = due[r] * Net /\ mid[r] \in Int
                       /\ off[r] = slack[r] * c /\ off[r] \in Int
                       /\ up[r] = mid[r] + off[r] /\ up[r] \in Int
                       /\ lhsOff[r] = lhs[r] + off[r] /\ lhsOff[r] \in Int
  BY <1>1, <1>3, <1>4, <1>6
<1>8. \A r \in Seats : lhs[r] <= up[r] /\ mid[r] <= lhsOff[r]
  <2>1. ASSUME NEW r \in Seats
        PROVE  lhs[r] <= up[r] /\ mid[r] <= lhsOff[r]
    <3>1. c * got[r] = got[r] * c /\ c * slack[r] = slack[r] * c
      BY <1>3, <1>4, Products
    <3> HIDE DEF lhs, mid, off, up, lhsOff
    <3> QED
      BY <1>4, <1>7, <3>1
  <2> QED
    BY <2>1
<1> HIDE DEF lhs, mid, off, up, lhsOff
<1>9. SeatSum(lhs) = SeatSum(got) * c /\ SeatSum(got) \in Nat
  BY <1>3, <1>4, <1>7, SeatSumScale, SeatSumNat
<1>10. SeatSum(mid) = SeatSum(due) * Net /\ SeatSum(due) \in Int
  BY <1>1, <1>6, <1>7, SeatSumScale, SeatSumType
<1>11. SeatSum(off) = SeatSum(slack) * c /\ SeatSum(slack) \in Nat
  BY <1>3, <1>4, <1>7, SeatSumScale, SeatSumNat
<1>12. SeatSum(up) = SeatSum(mid) + SeatSum(off)
  BY <1>7, SeatSumAdd
<1>13. SeatSum(lhsOff) = SeatSum(lhs) + SeatSum(off)
  BY <1>7, SeatSumAdd
<1>14. SeatSum(lhs) <= SeatSum(up) /\ SeatSum(mid) <= SeatSum(lhsOff)
  BY <1>7, <1>8, SeatSumOrder
<1>15. /\ SeatSum(lhs) \in Int /\ SeatSum(mid) \in Int /\ SeatSum(off) \in Int
       /\ SeatSum(lhs) = c * won[s] /\ SeatSum(off) = c * Slack
       /\ SeatSum(mid) = CommonDue(s) * Net
  BY <1>3, <1>5, <1>6, <1>7, <1>9, <1>10, <1>11, SeatSumType, Products
<1>16. /\ c * won[s] <= CommonDue(s) * Net + c * Slack
       /\ c * won[s] >= CommonDue(s) * Net - c * Slack
  BY <1>12, <1>13, <1>14, <1>15
<1> QED
  BY <1>16 DEF c
(***************************************************************************)
(* The pots the client shows.                                              *)
(***************************************************************************)

\* A bounded set of numbers has a largest one, and a smallest one.
LEMMA MaxIs ==
    ASSUME NEW S, S # {}, NEW bound \in Nat, \A x \in S : x \in Nat /\ x <= bound
    PROVE  /\ Max(S) \in S /\ \A x \in S : x <= Max(S)
           /\ Min(S) \in S /\ \A x \in S : Min(S) <= x
<1> DEFINE above == {b \in Nat : \A x \in S : x <= b}
<1>1. PICK b \in above : \A c \in above : b <= c
  <2>1. above \in SUBSET Nat /\ bound \in above
    OBVIOUS
  <2> QED
    BY <2>1, LeastElement
<1>2. b \in S
  <2>1. SUFFICES ASSUME b \notin S PROVE FALSE
    OBVIOUS
  <2>2. PICK x \in S : TRUE
    OBVIOUS
  <2>3. \A y \in S : y \in Nat /\ y <= b - 1
    BY <1>1, <2>1
  <2>4. b - 1 \in above
    BY <1>1, <2>2, <2>3
  <2> QED
    BY <1>1, <2>4
<1>3. \E x \in S : \A y \in S : x >= y
  BY <1>1, <1>2
<1>4. Max(S) \in S /\ \A y \in S : Max(S) >= y
  BY <1>3 DEF Max
<1>5. \E x \in S : \A y \in S : x <= y
  <2>1. S \in SUBSET Nat
    OBVIOUS
  <2> QED
    BY <2>1, LeastElement
<1>6. Min(S) \in S /\ \A y \in S : Min(S) <= y
  BY <1>5 DEF Min
<1> QED
  BY <1>4, <1>6

\* The layers up to a height hold what the seats put in up to that height.
LEMMA LayersTotal ==
    ASSUME \A s \in Seats : contrib[s] \in Nat, NEW d,
           \A k \in Nat : d[k] = Cardinality(Layer(k)), NEW n \in Nat
    PROVE  SumFunctionOnSet(d, 1..n) = SeatSum([s \in Seats |-> Smaller(contrib[s], n)])
<1> DEFINE upTo(m) == [s \in Seats |-> Smaller(contrib[s], m)]
           adds(m) == SumFunctionOnSet(d, 1..m) = SeatSum(upTo(m))
           wrong == {m \in Nat : ~ adds(m)}
<1>1. \A k \in Nat : d[k] \in Nat /\ Layer(k) \in SUBSET Seats
  BY SeatsFinite DEF Layer
<1> HIDE DEF adds
<1>2. ASSUME wrong # {}
      PROVE  FALSE
  <2>1. PICK m \in wrong : \A i \in wrong : m <= i
    BY <1>2, LeastElement
  <2>2. CASE m = 0
    <3>1. \A s \in Seats : upTo(m)[s] = 0
      BY <2>2 DEF Smaller
    <3>2. \A i : At(upTo(m), i) = 0
      BY <3>1 DEF At
    <3> HIDE DEF upTo
    <3>3. SeatSum(upTo(m)) = 0
      BY <3>2 DEF SeatSum
    <3>4. 1..m = {}
      BY <2>2
    <3>5. IsFiniteSet({})
      BY FS_EmptySet
    <3>6. SumFunctionOnSet(d, {}) = 0
      BY <3>5, SumDefined
    <3>7. adds(m)
      BY <3>3, <3>4, <3>6 DEF adds
    <3> QED
      BY <2>1, <3>7
  <2>3. CASE m # 0
    <3> DEFINE p == m - 1
               layer == [s \in Seats |-> IF s \in Layer(m) THEN 1 ELSE 0]
    <3>1. m \in Nat /\ p \in Nat /\ p < m /\ m = p + 1 /\ 1 \in Int
      BY <2>1, <2>3
    <3>2. adds(p)
      BY <2>1, <3>1
    <3>3. \A s \in Seats : /\ upTo(p)[s] \in Int /\ layer[s] \in Int
                           /\ upTo(m)[s] = upTo(p)[s] + layer[s]
      BY <3>1 DEF Smaller, Layer
    <3>4. SeatSum(layer) = Cardinality(Layer(m)) * 1
      BY <1>1, <3>1, SameForEach
    <3>5. 1..m = (1..p) \cup {m} /\ m \notin 1..p /\ \A k \in (1..p) \cup {m} : k \in Nat
      BY <3>1
    <3>6. IsFiniteSet(1..p)
      BY <3>1, FS_Interval
    <3> HIDE DEF p, upTo, layer
    <3>7. SeatSum(upTo(m)) = SeatSum(upTo(p)) + SeatSum(layer)
      BY <3>3, SeatSumAdd
    <3>8. SumFunctionOnSet(d, (1..p) \cup {m}) = SumFunctionOnSet(d, 1..p) + d[m]
      <4>1. \A k \in (1..p) \cup {m} : d[k] \in Int
        BY <1>1, <3>5
      <4>2. m \notin 1..p
        BY <3>5
      <4> QED
        BY <3>6, <4>1, <4>2, SumAdd
    <3>9. d[m] = Cardinality(Layer(m)) /\ d[m] \in Nat
      BY <1>1, <3>1
    <3>10. adds(m)
      <4>1. SumFunctionOnSet(d, 1..m) = SumFunctionOnSet(d, 1..p) + d[m]
        BY <3>5, <3>8
      <4>2. SeatSum(upTo(m)) = SeatSum(upTo(p)) + d[m]
        BY <3>4, <3>7, <3>9
      <4>3. SumFunctionOnSet(d, 1..p) = SeatSum(upTo(p))
        BY <3>2 DEF adds
      <4> QED
        BY <4>1, <4>2, <4>3 DEF adds
    <3> QED
      BY <2>1, <3>10
  <2> QED
    BY <2>2, <2>3
<1>3. adds(n)
  BY <1>2
<1> QED
  BY <1>3 DEF adds
\* What a hand in play has put in, and who is still in it.
PotFacts ==
    /\ \A s \in Seats : contrib[s] \in Nat
    /\ alive \in SUBSET Seats /\ alive # {}
    /\ gross \in Nat /\ SeatSum(contrib) <= gross

Levels == ShownLevels(contrib, alive)
Beneath == [l \in Levels |-> ShownBelow(contrib, alive, l)]

\* The levels shown are contributions, and each begins where the next lower one ends.
LEMMA ShownStack ==
    ASSUME PotFacts
    PROVE  /\ \A l \in Levels : l \in Nat \ {0} /\ \E s \in alive : contrib[s] = l
           /\ \A s \in alive : contrib[s] # 0 => contrib[s] \in Levels
           /\ SeatMax(contrib) \in Nat /\ \A s \in Seats : contrib[s] <= SeatMax(contrib)
           /\ IsFiniteSet(Levels)
           /\ Levels # {} => /\ Min(Levels) \in Levels /\ \A l \in Levels : Min(Levels) <= l
                             /\ Max(Levels) \in Levels /\ \A l \in Levels : l <= Max(Levels)
           /\ Stacked(Levels, Beneath)
<1> DEFINE max == SeatMax(contrib)
<1>1. /\ \A l \in Levels : l \in Nat \ {0} /\ \E s \in alive : contrib[s] = l
      /\ \A s \in alive : contrib[s] # 0 => contrib[s] \in Levels
  BY DEF Levels, ShownLevels, PotFacts
<1>2. max \in Nat /\ \A s \in Seats : contrib[s] <= max
  BY SeatMaxType, SeatMaxIsLargest DEF PotFacts
<1>3. \A l \in Levels : l <= max
  BY <1>1, <1>2 DEF PotFacts
<1> HIDE DEF max
<1>4. Levels # {} => /\ Min(Levels) \in Levels /\ \A l \in Levels : Min(Levels) <= l
                     /\ Max(Levels) \in Levels /\ \A l \in Levels : l <= Max(Levels)
  <2>1. \A l \in Levels : l \in Nat /\ l <= max
    BY <1>1, <1>3
  <2> QED
    BY <1>2, <2>1, MaxIs
<1>5. IsFiniteSet(Levels)
  <2>1. IsFiniteSet(0..max)
    BY <1>2, FS_Interval
  <2>2. Levels \subseteq 0..max
    BY <1>1, <1>2, <1>3
  <2> QED
    BY <2>1, <2>2, FS_Subset
<1>6. ASSUME NEW l \in Levels
      PROVE  /\ Beneath[l] \in {0} \cup Levels /\ Beneath[l] < l
             /\ \A k \in Levels : k < l => k <= Beneath[l]
  <2> DEFINE S == {0} \cup {k \in Levels : k < l}
  <2>1. Beneath[l] = Max(S)
    BY DEF Beneath, ShownBelow, Levels
  <2>2. S # {} /\ \A x \in S : x \in Nat /\ x <= max
    BY <1>1, <1>2, <1>3
  <2>3. \A x \in S : x < l
    BY <1>1
  <2>4. \A x \in S : x \in {0} \cup Levels
    OBVIOUS
  <2>5. \A k \in Levels : k < l => k \in S
    OBVIOUS
  <2> HIDE DEF S
  <2>6. Max(S) \in S /\ \A x \in S : x <= Max(S)
    BY <1>2, <2>2, MaxIs
  <2> QED
    BY <2>1, <2>3, <2>4, <2>5, <2>6
<1>7. Stacked(Levels, Beneath)
  BY <1>6 DEF Stacked
<1> QED
  BY <1>1, <1>2, <1>4, <1>5, <1>7 DEF max

\* The same players of the hand put in every chip between two levels ...
LEMMA ShownRivals ==
    ASSUME PotFacts, NEW l \in Levels, NEW k \in (Beneath[l] + 1)..l
    PROVE  k \in Nat /\ Layer(k) \cap alive = Layer(l) \cap alive
<1>1. /\ l \in Nat \ {0} /\ Beneath[l] \in Nat
      /\ \A i \in Levels : i < l => i <= Beneath[l]
      /\ \A s \in alive : contrib[s] # 0 => contrib[s] \in Levels
  <2>1. \A i \in Levels : i \in Nat
    BY ShownStack
  <2>2. Beneath[l] \in {0} \cup Levels
    BY ShownStack DEF Stacked
  <2>3. Beneath[l] \in Nat
    BY <2>1, <2>2
  <2> QED
    BY <2>3, ShownStack DEF Stacked
<1>2. k \in Nat /\ k <= l /\ Beneath[l] < k
  BY <1>1
<1>3. ASSUME NEW s \in alive
      PROVE  contrib[s] >= k <=> contrib[s] >= l
  <2>1. contrib[s] \in Nat
    BY DEF PotFacts
  <2>2. contrib[s] = 0 \/ contrib[s] >= l \/ contrib[s] <= Beneath[l]
    BY <1>1, <2>1
  <2> QED
    BY <1>1, <1>2, <2>1, <2>2
<1> QED
  BY <1>2, <1>3 DEF Layer

\* ... and so did those who folded, above the lowest level, unless they folded in between.
LEMMA ShownPayers ==
    ASSUME PotFacts, FoldsAligned, NEW l \in Levels, l # Min(Levels), NEW k \in (Beneath[l] + 1)..l
    PROVE  Layer(k) = Layer(l)
<1>1. /\ l \in Nat \ {0} /\ Beneath[l] \in Nat /\ Min(Levels) \in Nat /\ Max(Levels) \in Nat
      /\ \A i \in Levels : i < l => i <= Beneath[l]
      /\ Min(Levels) <= Beneath[l] /\ l <= Max(Levels) /\ Levels # {}
      /\ \A s \in alive : contrib[s] # 0 => contrib[s] \in Levels
  <2>1. /\ \A i \in Levels : i \in Nat
        /\ Min(Levels) \in Levels /\ Max(Levels) \in Levels
        /\ Min(Levels) <= l /\ l <= Max(Levels)
    BY ShownStack
  <2>2. /\ Beneath[l] \in {0} \cup Levels
        /\ \A i \in Levels : i < l => i <= Beneath[l]
    BY ShownStack DEF Stacked
  <2>3. Min(Levels) < l
    BY <2>1
  <2>4. Beneath[l] \in Nat
    BY <2>1, <2>2
  <2> QED
    BY <2>1, <2>2, <2>3, <2>4, ShownStack
<1>2. k \in Nat /\ k <= l /\ Beneath[l] < k
  BY <1>1
<1>3. ASSUME NEW s \in Seats
      PROVE  contrib[s] >= k <=> contrib[s] >= l
  <2>1. contrib[s] \in Nat
    BY DEF PotFacts
  <2>2. contrib[s] \in Levels => contrib[s] >= l \/ contrib[s] <= Beneath[l]
    BY <1>1, <2>1
  <2>3. contrib[s] >= l \/ contrib[s] <= Beneath[l]
    <3>1. CASE s \in alive
      BY <1>1, <2>1, <2>2, <3>1
    <3>2. CASE s \notin alive
      <4>1. contrib[s] \in Levels \/ contrib[s] \in 0..Min(Levels) \/ contrib[s] >= Max(Levels)
        BY <1>1, <3>2 DEF FoldsAligned, Levels
      <4> QED
        BY <1>1, <2>1, <2>2, <4>1
    <3> QED
      BY <3>1, <3>2
  <2> QED
    BY <1>1, <1>2, <2>1, <2>3
<1> QED
  BY <1>3 DEF Layer
\* How many paid each layer, and how many paid it where two players contest it.
Width == [k \in Nat |-> Cardinality(Layer(k))]
Rivalled == [k \in Nat |-> IF Cardinality(Layer(k) \cap alive) > 1 THEN Width[k] ELSE 0]

\* The slices shown, what the folded put in below the lowest level, and both.
Each == [l \in Levels |-> ShownSlice(contrib, alive, l)]
Extra == SumFunctionOnSet(Width, 1..Min(Levels)) - Each[Min(Levels)]
Full == [l \in Levels |-> Each[l] + (IF l = Min(Levels) THEN Extra ELSE 0)]
Contest == [l \in Levels |-> IF l \in ContestedLevels(contrib, alive) THEN Full[l] ELSE 0]

\* Who paid a layer are a number of seats.
LEMMA WidthType ==
    /\ \A k \in Nat : Width[k] = Cardinality(Layer(k)) /\ Width[k] \in Nat
    /\ \A k \in Nat : Rivalled[k] \in Nat
<1>1. \A k \in Nat : Cardinality(Layer(k)) \in Nat
  BY SeatsFinite DEF Layer
<1> QED
  BY <1>1 DEF Width, Rivalled

\* A slice shown is as many chips of each seat that put in its level as it is high.
LEMMA EachIs ==
    ASSUME PotFacts, NEW l \in Levels
    PROVE  /\ Beneath[l] \in Nat /\ Beneath[l] < l /\ l \in Nat
           /\ Each[l] = (l - Beneath[l]) * Width[l] /\ Each[l] \in Nat
<1>1. l \in Nat /\ Beneath[l] \in Nat /\ Beneath[l] < l
  <2>1. \A i \in Levels : i \in Nat
    BY ShownStack
  <2>2. Beneath[l] \in {0} \cup Levels /\ Beneath[l] < l
    BY ShownStack DEF Stacked
  <2> QED
    BY <2>1, <2>2
<1>2. Width[l] = Cardinality({s \in Seats : contrib[s] >= l}) /\ Width[l] \in Nat
  BY <1>1, WidthType DEF Layer
<1>3. Each[l] = (l - Beneath[l]) * Width[l]
  BY <1>2 DEF Each, ShownSlice, Beneath
<1>4. l - Beneath[l] \in Nat
  BY <1>1
<1> QED
  BY <1>1, <1>2, <1>3, <1>4, Products

\* What the folded put in below the lowest level is no debt.
LEMMA ExtraType ==
    ASSUME PotFacts, Levels # {}
    PROVE  Extra \in Nat /\ Beneath[Min(Levels)] = 0
<1> DEFINE m == Min(Levels)
           even == [k \in Nat |-> Width[m]]
<1>1. m \in Levels /\ m \in Nat /\ \A l \in Levels : m <= l /\ l \in Nat
  BY ShownStack
<1>2. Beneath[m] = 0
  <2>1. Beneath[m] \in {0} \cup Levels /\ Beneath[m] < m
    BY <1>1, ShownStack DEF Stacked
  <2> QED
    BY <1>1, <2>1
<1>3. Each[m] = m * Width[m] /\ Each[m] \in Nat /\ Width[m] \in Nat
  <2>1. Each[m] = (m - 0) * Width[m] /\ Each[m] \in Nat
    BY <1>1, <1>2, EachIs
  <2>2. m - 0 = m
    BY <1>1
  <2> QED
    BY <1>1, <2>1, <2>2, WidthType
<1>4. \A k \in 1..m : /\ even[k] \in Int /\ Width[k] \in Int /\ even[k] <= Width[k]
                      /\ even[k] = Width[m]
  <2>1. ASSUME NEW k \in 1..m
        PROVE  k \in Nat /\ Width[k] \in Int /\ Width[m] \in Int /\ Width[m] <= Width[k]
    <3>1. k \in Nat /\ k <= m
      BY <1>1
    <3>2. \A s \in Seats : contrib[s] >= m => contrib[s] >= k
      BY <1>1, <3>1 DEF PotFacts
    <3>3. Layer(m) \in SUBSET Layer(k) /\ Layer(k) \in SUBSET Seats
      BY <3>2 DEF Layer
    <3>4. Cardinality(Layer(m)) <= Cardinality(Layer(k))
      BY <3>3, SeatsFinite, FS_Subset
    <3> QED
      BY <1>1, <3>1, <3>4, WidthType
  <2> QED
    BY <2>1
<1> HIDE DEF even, m
<1>5. 1..m = (0 + 1)..m /\ 0 <= m /\ m - 0 = m /\ IsFiniteSet(1..m)
  BY <1>1, FS_Interval
<1>6. SumFunctionOnSet(even, (0 + 1)..m) = (m - 0) * Width[m]
  <2>1. m \in Nat /\ Width[m] \in Int
    BY <1>1, <1>3
  <2>2. \A k \in (0 + 1)..m : even[k] = Width[m]
    BY <1>4, <1>5
  <2>3. ASSUME NEW a \in Nat, a <= m, \A k \in (a + 1)..m : even[k] = Width[m]
        PROVE  SumFunctionOnSet(even, (a + 1)..m) = (m - a) * Width[m]
    BY <2>1, <2>3, ConstantSum
  <2>4. 0 \in Nat /\ 0 <= m
    BY <2>1
  <2> QED
    BY <2>2, <2>3, <2>4, Zenon
<1>7. SumFunctionOnSet(even, 1..m) <= SumFunctionOnSet(Width, 1..m)
  BY <1>4, <1>5, SumOrder
<1>8. SumFunctionOnSet(Width, 1..m) \in Int
  BY <1>4, <1>5, SumType
<1>9. SumFunctionOnSet(Width, 1..m) - Each[m] \in Nat
  BY <1>3, <1>5, <1>6, <1>7, <1>8
<1> QED
  BY <1>2, <1>9 DEF Extra, m

\* Each slice shown holds the layers of chips between its level and the next lower one.
LEMMA FullHolds ==
    ASSUME PotFacts, FoldsAligned, Levels # {}
    PROVE  Holds(Levels, Beneath, Width, Full) /\ \A l \in Levels : Full[l] \in Int
<1>1. ASSUME NEW l \in Levels
      PROVE  Full[l] = SumFunctionOnSet(Width, (Beneath[l] + 1)..l) /\ Full[l] \in Int
  <2>1. /\ Beneath[l] \in Nat /\ Beneath[l] < l /\ l \in Nat
        /\ Each[l] = (l - Beneath[l]) * Width[l] /\ Each[l] \in Nat
    BY EachIs
  <2>2. Extra \in Nat /\ Beneath[Min(Levels)] = 0
    BY ExtraType
  <2>3. CASE l = Min(Levels)
    <3>1. Full[l] = Each[l] + Extra
      BY <2>3 DEF Full
    <3>2. (Beneath[l] + 1)..l = 1..l
      BY <2>2, <2>3
    <3>3. 1..l = 1..Min(Levels) /\ Extra = SumFunctionOnSet(Width, 1..l) - Each[l]
      BY <2>3 DEF Extra
    <3>4. SumFunctionOnSet(Width, 1..l) \in Int
      <4>1. IsFiniteSet(1..l)
        BY <2>1, FS_Interval
      <4>2. \A k \in 1..l : Width[k] \in Int
        BY <2>1, WidthType
      <4> QED
        BY <4>1, <4>2, SumType
    <3> QED
      BY <2>1, <2>2, <3>1, <3>2, <3>3, <3>4
  <2>4. CASE l # Min(Levels)
    <3>1. Full[l] = Each[l]
      BY <2>1, <2>4 DEF Full
    <3>2. ASSUME NEW k \in (Beneath[l] + 1)..l
          PROVE  Width[k] = Width[l]
      <4>1. Layer(k) = Layer(l)
        BY <2>4, ShownPayers
      <4>2. k \in Nat
        BY <2>1
      <4> QED
        BY <2>1, <4>1, <4>2, WidthType
    <3>3. PICK a \in Nat : a = Beneath[l]
      BY <2>1
    <3>4. a <= l /\ Width[l] \in Int /\ \A k \in (a + 1)..l : Width[k] = Width[l]
      BY <2>1, <3>2, <3>3, WidthType
    <3>5. SumFunctionOnSet(Width, (a + 1)..l) = (l - a) * Width[l]
      BY <2>1, <3>4, ConstantSum
    <3> QED
      BY <2>1, <3>1, <3>3, <3>5
  <2> QED
    BY <2>3, <2>4
<1> QED
  BY <1>1 DEF Holds

\* ... and, of those that two players contest, the pots shown do.
LEMMA ContestHolds ==
    ASSUME PotFacts, FoldsAligned, Levels # {}
    PROVE  Holds(Levels, Beneath, Rivalled, Contest)
<1>1. ASSUME NEW l \in Levels
      PROVE  Contest[l] = SumFunctionOnSet(Rivalled, (Beneath[l] + 1)..l)
  <2>1. PICK S : S = (Beneath[l] + 1)..l
    OBVIOUS
  <2>2. Beneath[l] \in Nat /\ l \in Nat
    BY EachIs
  <2>3. IsFiniteSet(S)
    <3>1. Beneath[l] + 1 \in Int /\ l \in Int
      BY <2>2
    <3> QED
      BY <2>1, <3>1, FS_Interval
  <2>4. l \in ContestedLevels(contrib, alive) <=> Cardinality(Layer(l) \cap alive) > 1
    <3>1. Layer(l) \cap alive = {s \in alive : contrib[s] >= l}
      BY DEF Layer, PotFacts
    <3> QED
      BY <3>1 DEF ContestedLevels, Levels
  <2>5. \A k \in S : k \in Nat /\ Layer(k) \cap alive = Layer(l) \cap alive
    BY <2>1, ShownRivals
  <2>6. Contest[l] = IF l \in ContestedLevels(contrib, alive) THEN Full[l] ELSE 0
    BY DEF Contest
  <2>7. CASE l \in ContestedLevels(contrib, alive)
    <3>1. \A k \in S : Rivalled[k] = Width[k]
      BY <2>4, <2>5, <2>7 DEF Rivalled
    <3>2. SumFunctionOnSet(Rivalled, S) = SumFunctionOnSet(Width, S)
      BY <2>3, <3>1, SumEqual
    <3> QED
      BY <2>1, <2>6, <2>7, <3>2, FullHolds DEF Holds
  <2>8. CASE l \notin ContestedLevels(contrib, alive)
    <3>1. \A k \in S : Rivalled[k] = 0
      BY <2>4, <2>5, <2>8 DEF Rivalled
    <3>2. SumFunctionOnSet(Rivalled, S) = 0
      BY <2>3, <3>1, SumZero
    <3> QED
      BY <2>1, <2>6, <2>8, <3>2
  <2> QED
    BY <2>7, <2>8
<1> QED
  BY <1>1 DEF Holds

\* What no slice shown accounts for is what is left above the top level, the dead money,
\* and what the folded put in below the lowest level.
LEMMA DeadIs ==
    ASSUME PotFacts, FoldsAligned, Levels # {}
    PROVE  LET loose == gross - SumFunctionOnSet(Width, 1..Max(Levels))
           IN  /\ loose \in Nat
               /\ gross - SumFunctionOnSet(Each, Levels) = loose + Extra
<1> DEFINE top == Max(Levels)
           m == Min(Levels)
<1>1. /\ \A l \in Levels : l \in Nat \ {0} /\ l <= top
      /\ IsFiniteSet(Levels) /\ Stacked(Levels, Beneath)
      /\ top \in Levels /\ top \in Nat /\ m \in Levels
  BY ShownStack
<1>2. Extra \in Nat /\ \A l \in Levels : Each[l] \in Int /\ Full[l] \in Int
  BY ExtraType, EachIs, FullHolds
<1>3. \A l \in Levels : Full[l] = Each[l] + (IF l = m THEN Extra ELSE 0)
  BY DEF Full
<1>4. {l \in Levels : l <= top} = Levels
  BY <1>1
<1> HIDE DEF top, m
<1>5. SumFunctionOnSet(Width, 1..top) = SumFunctionOnSet(Full, Levels)
  <2>1. \A k \in Nat : Width[k] \in Int
    BY WidthType
  <2>2. SumFunctionOnSet(Width, 1..top) = SumFunctionOnSet(Full, {l \in Levels : l <= top})
    <3>1. Holds(Levels, Beneath, Width, Full)
      BY FullHolds
    <3>2. IsFiniteSet(Levels) /\ Stacked(Levels, Beneath) /\ top \in Levels
      BY <1>1
    <3>3. \A l \in Levels : l \in Nat \ {0}
      BY <1>1
    <3> QED
      BY <2>1, <3>1, <3>2, <3>3, LevelByLevel
  <2> QED
    BY <1>4, <2>2
<1>6. SumFunctionOnSet(Full, Levels) = SumFunctionOnSet(Each, Levels) + Full[m] - Each[m]
  <2>1. \A l \in Levels : l # m => Full[l] = Each[l]
    BY <1>2, <1>3
  <2> QED
    BY <1>1, <1>2, <2>1, SumChange
<1>7. SumFunctionOnSet(Width, 1..top) <= gross /\ SumFunctionOnSet(Width, 1..top) \in Int
  <2> DEFINE upTo == [s \in Seats |-> Smaller(contrib[s], top)]
  <2>1. SumFunctionOnSet(Width, 1..top) = SeatSum(upTo)
    BY <1>1, WidthType, LayersTotal DEF PotFacts
  <2>2. \A s \in Seats : upTo[s] \in Int /\ contrib[s] \in Int /\ upTo[s] <= contrib[s]
    BY <1>1 DEF PotFacts, Smaller
  <2> HIDE DEF upTo
  <2>3. SeatSum(upTo) <= SeatSum(contrib) /\ SeatSum(upTo) \in Int /\ SeatSum(contrib) \in Int
    BY <2>2, SeatSumOrder, SeatSumType
  <2> QED
    BY <2>1, <2>3 DEF PotFacts
<1>8. SumFunctionOnSet(Each, Levels) \in Int
  BY <1>1, <1>2, SumType
<1>9. Full[m] - Each[m] = Extra
  BY <1>1, <1>2, <1>3
<1>10. /\ gross - SumFunctionOnSet(Width, 1..top) \in Nat
       /\ gross - SumFunctionOnSet(Each, Levels)
             = gross - SumFunctionOnSet(Width, 1..top) + Extra
  <2>1. gross \in Nat
    BY DEF PotFacts
  <2>2. SumFunctionOnSet(Width, 1..top) = SumFunctionOnSet(Each, Levels) + Extra
    <3>1. Full[m] \in Int /\ Each[m] \in Int
      BY <1>1, <1>2
    <3> QED
      BY <1>5, <1>6, <1>8, <1>9, <3>1
  <2> QED
    BY <1>2, <1>7, <1>8, <2>1, <2>2
<1> QED
  BY <1>10 DEF top
\* Two members, more than one.
LEMMA MoreThanOne ==
    ASSUME NEW S, IsFiniteSet(S)
    PROVE  Cardinality(S) > 1 <=> \E x, y \in S : x # y
<1>1. Cardinality(S) \in Nat /\ (Cardinality(S) = 0 <=> S = {})
  BY FS_CardinalityType, FS_EmptySet
<1>2. Cardinality(S) = 1 <=> \E x : S = {x}
  BY FS_Singleton
<1>3. ASSUME NEW x \in S, NEW y \in S, x # y
      PROVE  Cardinality(S) > 1
  <2>1. Cardinality(S) # 0
    BY <1>1
  <2>2. Cardinality(S) # 1
    BY <1>2, <1>3
  <2> QED
    BY <1>1, <2>1, <2>2
<1>4. ASSUME Cardinality(S) > 1
      PROVE  \E x, y \in S : x # y
  <2>1. PICK x \in S : TRUE
    BY <1>1, <1>4
  <2>2. S # {x}
    BY <1>2, <1>4
  <2> QED
    BY <2>1, <2>2
<1> QED
  BY <1>3, <1>4

\* A seat has put in no more than the pot.
LEMMA OnePaid ==
    ASSUME PotFacts, NEW s \in Seats
    PROVE  contrib[s] <= gross
<1> DEFINE one == [r \in Seats |-> IF r = s THEN contrib[r] ELSE 0]
<1>1. \A r \in Seats : one[r] \in Int /\ contrib[r] \in Int /\ one[r] <= contrib[r]
  BY DEF PotFacts
<1>2. one[s] = contrib[s] /\ \A r \in Seats \ {s} : one[r] = 0
  OBVIOUS
<1> HIDE DEF one
<1>3. SeatSum(one) = contrib[s]
  BY <1>1, <1>2, SeatSumSingle
<1>4. SeatSum(one) <= SeatSum(contrib) /\ SeatSum(contrib) \in Int
  BY <1>1, SeatSumOrder, SeatSumType
<1> QED
  BY <1>1, <1>3, <1>4 DEF PotFacts

\* The pot shown for a level.
Dead == gross - SumFunctionOnSet(Each, Levels)
Contenders(l) == {s \in alive : contrib[s] >= l}
PotOf(l) == [amount |-> Each[l] + (IF l = Min(Levels) THEN Larger(0, Dead) ELSE 0),
             players |-> Contenders(l)]

\* When the players have put in different amounts, a pot is shown for each level that two
\* of them have put in; the lowest is one.
LEMMA ManyLevels ==
    ASSUME PotFacts, Cardinality(Levels) > 1
    PROVE  /\ Levels # {} /\ Min(Levels) \in ContestedLevels(contrib, alive)
           /\ ContestedLevels(contrib, alive) \subseteq Levels
           /\ ShownPots(contrib, alive, gross)
                = {PotOf(k) : k \in ContestedLevels(contrib, alive)}
<1>1. PICK k, l \in Levels : k # l
  BY ShownStack, MoreThanOne
<1>2. PICK q, r \in alive : contrib[q] = k /\ contrib[r] = l
  BY ShownStack
<1>3. q # r /\ Levels # {} /\ Min(Levels) <= k /\ Min(Levels) <= l /\ Min(Levels) \in Levels
      /\ k \in Nat \ {0}
  BY <1>1, <1>2, ShownStack
<1>4. \A T \in SUBSET alive : IsFiniteSet(T)
  BY SeatsFinite DEF PotFacts
<1>5. Cardinality(alive) > 1
  BY <1>3, <1>4, MoreThanOne
<1>6. Cardinality(Contenders(Min(Levels))) > 1
  <2>1. q \in Contenders(Min(Levels)) /\ r \in Contenders(Min(Levels))
    BY <1>2, <1>3 DEF Contenders
  <2>2. IsFiniteSet(Contenders(Min(Levels)))
    BY <1>4 DEF Contenders
  <2> QED
    BY <1>3, <2>1, <2>2, MoreThanOne
<1>7. Min(Levels) \in ContestedLevels(contrib, alive)
  BY <1>3, <1>6 DEF ContestedLevels, Levels, Contenders
<1>8. ContestedLevels(contrib, alive) \subseteq Levels
  BY DEF ContestedLevels, Levels
<1>9. gross > 0
  <2>1. k <= gross
    BY <1>2, OnePaid DEF PotFacts
  <2> QED
    BY <1>3, <2>1 DEF PotFacts
<1>10. ShownSlices(contrib, alive) = SumFunctionOnSet(Each, Levels)
  <2>1. DOMAIN Each = Levels
    BY DEF Each
  <2> QED
    BY <2>1 DEF ShownSlices, SumFunction, Each, Levels
<1>11. /\ ~ (gross <= 0) /\ ~ (Cardinality(alive) <= 1) /\ ~ (Cardinality(Levels) <= 1)
  <2>1. Cardinality(alive) \in Int /\ Cardinality(Levels) \in Int
    BY <1>4, ShownStack, FS_CardinalityType
  <2> QED
    BY <1>5, <1>9, <2>1 DEF PotFacts
<1>12. \A i \in ContestedLevels(contrib, alive) :
          PotOf(i) = [amount |-> ShownSlice(contrib, alive, i)
                        + (IF i = Min(Levels) THEN Larger(0, Dead) ELSE 0),
                      players |-> {s \in alive : contrib[s] >= i}]
  BY <1>8 DEF PotOf, Each, Contenders
<1>13. ShownPots(contrib, alive, gross)
         = {[amount |-> ShownSlice(contrib, alive, i)
               + (IF i = Min(Levels) THEN Larger(0, Dead) ELSE 0),
             players |-> {s \in alive : contrib[s] >= i}] : i \in ContestedLevels(contrib, alive)}
  BY <1>10, <1>11 DEF ShownPots, Dead, Levels
<1> QED
  BY <1>3, <1>7, <1>8, <1>12, <1>13

\* What the client shows a player that he can win, and what PotsShown says it is.
ShownTo(s) == {q \in ShownPots(contrib, alive, gross) : s \in q.players}
Claimed(s) == SumFunction([p \in ShownTo(s) |-> p.amount])

\* A player who has put in anything is shown the layers up to it that somebody contests
\* and the dead money.
LEMMA ShownToPayer ==
    ASSUME PotFacts, FoldsAligned, Cardinality(Levels) > 1, NEW s \in alive, contrib[s] > 0
    PROVE  Claimed(s) = SumFunctionOnSet(Rivalled, 1..contrib[s])
                          + (gross - SumFunctionOnSet(Width, 1..Max(Levels)))
<1> DEFINE c == contrib[s]
           Z == ContestedLevels(contrib, alive)
           K == {k \in Z : k <= c}
           amount == [p \in ShownTo(s) |-> p.amount]
           f == [k \in K |-> PotOf(k).amount]
           pot == [k \in K |-> PotOf(k)]
           m == Min(Levels)
           loose == gross - SumFunctionOnSet(Width, 1..Max(Levels))
<1>1. /\ Levels # {} /\ m \in Z /\ Z \subseteq Levels
      /\ ShownPots(contrib, alive, gross) = {PotOf(k) : k \in Z}
  BY ManyLevels
<1>2. /\ \A l \in Levels : l \in Nat \ {0} /\ m <= l /\ \E r \in alive : contrib[r] = l
      /\ IsFiniteSet(Levels) /\ Stacked(Levels, Beneath)
      /\ c \in Levels
  BY <1>1, ShownStack DEF PotFacts
<1>3. /\ loose \in Nat /\ Extra \in Nat /\ Dead = loose + Extra
      /\ \A l \in Levels : Each[l] \in Int /\ Full[l] \in Int
  BY <1>1, DeadIs, ExtraType, EachIs, FullHolds DEF Dead
<1>4. \A k \in K : f[k] = Each[k] + (IF k = m THEN Dead ELSE 0)
  BY <1>3 DEF PotOf, Larger
<1>5. \A k \in K : /\ pot[k] = PotOf(k) /\ f[k] = pot[k].amount /\ k \in Levels
  BY <1>1
<1>6. \A k \in K : pot[k] \in ShownTo(s) /\ amount[pot[k]] = f[k]
  BY <1>1 DEF ShownTo, PotOf, Contenders
<1>7. \A p \in ShownTo(s) : \E k \in K : p = pot[k]
  <2>1. ASSUME NEW p \in ShownTo(s)
        PROVE  \E k \in K : p = pot[k]
    <3>1. PICK k \in Z : p = PotOf(k)
      BY <1>1 DEF ShownTo
    <3>2. s \in Contenders(k)
      BY <3>1 DEF ShownTo, PotOf
    <3> QED
      BY <3>1, <3>2 DEF Contenders
  <2> QED
    BY <2>1
<1>8. \A k, l \in K : pot[k] = pot[l] => k = l
  <2>1. ASSUME NEW k \in K, NEW l \in K, pot[k] = pot[l]
        PROVE  k <= l
    <3>1. Contenders(k) = Contenders(l)
      BY <2>1 DEF PotOf
    <3>2. PICK r \in alive : contrib[r] = l
      BY <1>2, <1>5
    <3>3. l \in Nat
      BY <1>2, <1>5
    <3>4. r \in Contenders(l)
      BY <3>2, <3>3 DEF Contenders
    <3>5. r \in Contenders(k)
      BY <3>1, <3>4
    <3> QED
      BY <3>2, <3>5 DEF Contenders
  <2>2. ASSUME NEW k \in K, NEW l \in K, pot[k] = pot[l]
        PROVE  k = l
    <3>1. k <= l /\ l <= k /\ k \in Nat /\ l \in Nat
      BY <1>2, <1>5, <2>1, <2>2
    <3> QED
      BY <3>1
  <2> QED
    BY <2>2
<1>9. K \subseteq Levels /\ IsFiniteSet(K)
  <2>1. K \subseteq Levels
    BY <1>1
  <2> QED
    BY <1>2, <2>1, FS_Subset
<1>10. DOMAIN amount = ShownTo(s)
  OBVIOUS
<1>11. m \in K
  BY <1>1, <1>2
<1>12. {l \in Levels : l <= c} \ K = {l \in Levels : l <= c /\ l \notin Z}
  OBVIOUS
<1>13. K \subseteq {l \in Levels : l <= c} /\ \A l \in K : l \in Z
  BY <1>1
<1> HIDE DEF c, Z, K, amount, f, pot, m, loose
<1>14. \A k \in K : f[k] \in Int
  BY <1>3, <1>4, <1>5
<1>15. Claimed(s) = SumFunctionOnSet(f, K)
  <2>1. SumFunctionOnSet(amount, ShownTo(s)) = SumFunctionOnSet(f, K)
    BY <1>6, <1>7, <1>8, <1>9, <1>14, SumRename
  <2>2. Claimed(s) = SumFunctionOnSet(amount, ShownTo(s))
    BY <1>10 DEF Claimed, SumFunction, amount
  <2> QED
    BY <2>1, <2>2
<1>16. \A l \in Levels : Contest[l] = (IF l \in Z THEN Full[l] ELSE 0) /\ Contest[l] \in Int
  BY <1>3 DEF Contest, Z
<1>17. SumFunctionOnSet(Rivalled, 1..c) = SumFunctionOnSet(Contest, K)
  <2> DEFINE low == {l \in Levels : l <= c}
  <2>1. SumFunctionOnSet(Rivalled, 1..c) = SumFunctionOnSet(Contest, low)
    <3>1. \A k \in Nat : Rivalled[k] \in Int
      BY WidthType
    <3> QED
      BY <1>1, <1>2, <3>1, ContestHolds, LevelByLevel
  <2>2. IsFiniteSet(low) /\ K \in SUBSET low
    BY <1>2, <1>13, FS_Subset
  <2>3. \A l \in low : Contest[l] \in Int
    BY <1>16
  <2>4. \A l \in low \ K : Contest[l] = 0
    BY <1>12, <1>16
  <2> HIDE DEF low
  <2>5. SumFunctionOnSet(Contest, low) = SumFunctionOnSet(Contest, K)
    BY <2>2, <2>3, <2>4, SumRestrict
  <2> QED
    BY <2>1, <2>5
<1>18. \A k \in K : Contest[k] = Each[k] + (IF k = m THEN Extra ELSE 0)
  BY <1>5, <1>13, <1>16 DEF Full, m
<1>19. SumFunctionOnSet(f, K) = SumFunctionOnSet(Contest, K) + f[m] - Contest[m]
  <2>1. \A k \in K : Contest[k] \in Int /\ f[k] \in Int
    BY <1>5, <1>14, <1>16
  <2>2. \A k \in K : k # m => f[k] = Contest[k]
    BY <1>3, <1>4, <1>5, <1>18
  <2> QED
    BY <1>9, <1>11, <2>1, <2>2, SumChange
<1>20. f[m] - Contest[m] = loose /\ f[m] \in Int /\ Contest[m] \in Int
  <2>1. f[m] = Each[m] + Dead /\ Contest[m] = Each[m] + Extra /\ Each[m] \in Int
    BY <1>3, <1>4, <1>5, <1>11, <1>18
  <2> QED
    BY <1>3, <2>1
<1>21. SumFunctionOnSet(Contest, K) \in Int
  <2>1. \A k \in K : Contest[k] \in Int
    BY <1>5, <1>16
  <2> QED
    BY <1>9, <2>1, SumType
<1> QED
  BY <1>3, <1>15, <1>17, <1>19, <1>20, <1>21 DEF c, loose
\* The largest contribution of a player is the top level, when there are any.
LEMMA TopIs ==
    ASSUME PotFacts
    PROVE  /\ Max({contrib[s] : s \in alive}) \in Nat
           /\ Levels # {} => Max({contrib[s] : s \in alive}) = Max(Levels)
           /\ \A r \in alive : contrib[r] <= Max({contrib[s] : s \in alive})
<1> DEFINE put == {contrib[s] : s \in alive}
           top == Max(put)
<1>1. put # {} /\ \A x \in put : x \in Nat /\ x <= SeatMax(contrib)
  BY ShownStack DEF PotFacts
<1>2. SeatMax(contrib) \in Nat
  BY ShownStack
<1>3. \A s \in alive : contrib[s] \in put
  OBVIOUS
<1>4. \A x \in put : \E s \in alive : contrib[s] = x
  OBVIOUS
<1> HIDE DEF put
<1>5. top \in put /\ \A x \in put : x <= top
  BY <1>1, <1>2, MaxIs
<1>6. Levels # {} => top = Max(Levels)
  <2>1. SUFFICES ASSUME Levels # {} PROVE top = Max(Levels)
    OBVIOUS
  <2>2. /\ Max(Levels) \in Levels /\ \A l \in Levels : l <= Max(Levels)
        /\ Max(Levels) \in Nat \ {0} /\ \E s \in alive : contrib[s] = Max(Levels)
    BY <2>1, ShownStack
  <2>3. Max(Levels) <= top
    BY <1>3, <1>5, <2>2
  <2>4. top \in Levels
    BY <1>1, <1>4, <1>5, <2>2, <2>3, ShownStack
  <2>5. top <= Max(Levels) /\ top \in Nat
    BY <1>1, <1>5, <2>2, <2>4
  <2> QED
    BY <2>2, <2>3, <2>5
<1> QED
  BY <1>1, <1>3, <1>5, <1>6 DEF put

\* What PotsShown says each contender is shown.
Owed(s, depth) ==
    SumFunction([k \in 1..Smaller(depth, contrib[s]) |->
        IF Cardinality(Layer(k) \cap alive) > 1 THEN Cardinality(Layer(k)) ELSE 0])
Loose(depth) == gross - SumFunction([k \in 1..depth |-> Cardinality(Layer(k))])

\* A sum over layers is a sum of what each is wide.
LEMMA OwedIs ==
    ASSUME PotFacts, NEW s \in alive, NEW depth \in Nat
    PROVE  /\ Owed(s, depth) = SumFunctionOnSet(Rivalled, 1..Smaller(depth, contrib[s]))
           /\ Loose(depth) = gross - SumFunctionOnSet(Width, 1..depth)
<1> DEFINE n == Smaller(depth, contrib[s])
           f == [k \in 1..n |->
                   IF Cardinality(Layer(k) \cap alive) > 1 THEN Cardinality(Layer(k)) ELSE 0]
           g == [k \in 1..depth |-> Cardinality(Layer(k))]
<1>1. n \in Nat
  BY DEF PotFacts, Smaller
<1>2. IsFiniteSet(1..n) /\ IsFiniteSet(1..depth)
  BY <1>1, FS_Interval
<1>3. DOMAIN f = 1..n /\ DOMAIN g = 1..depth
  OBVIOUS
<1>4. \A k \in 1..n : f[k] = Rivalled[k]
  BY <1>1, WidthType DEF Rivalled
<1>5. \A k \in 1..depth : g[k] = Width[k]
  BY WidthType
<1>6. Owed(s, depth) = SumFunctionOnSet(f, 1..n)
  BY <1>3 DEF Owed, SumFunction
<1>7. Loose(depth) = gross - SumFunctionOnSet(g, 1..depth)
  BY <1>3 DEF Loose, SumFunction
<1> HIDE DEF f, g, n
<1>8. SumFunctionOnSet(f, 1..n) = SumFunctionOnSet(Rivalled, 1..n)
  BY <1>2, <1>4, SumEqual
<1>9. SumFunctionOnSet(g, 1..depth) = SumFunctionOnSet(Width, 1..depth)
  BY <1>2, <1>5, SumEqual
<1> QED
  BY <1>6, <1>7, <1>8, <1>9 DEF n

\* A contender is shown what he can win.
LEMMA ShownToEach ==
    ASSUME PotFacts, FoldsAligned, NEW s \in alive, NEW depth,
           depth = IF Cardinality(Levels) <= 1 THEN 0 ELSE Max({contrib[r] : r \in alive})
    PROVE  Claimed(s) = Owed(s, depth) + (IF depth = 0 \/ contrib[s] > 0 THEN Loose(depth) ELSE 0)
<1>1. /\ IsFiniteSet(Levels) /\ IsFiniteSet(alive) /\ Cardinality(Levels) \in Nat
      /\ contrib[s] \in Nat /\ gross \in Nat /\ s \in Seats
  BY ShownStack, SeatsFinite, FS_CardinalityType DEF PotFacts
<1> DEFINE amount == [p \in ShownTo(s) |-> p.amount]
<1>2. Claimed(s) = SumFunctionOnSet(amount, ShownTo(s))
  <2>1. DOMAIN amount = ShownTo(s)
    OBVIOUS
  <2> QED
    BY <2>1 DEF Claimed, SumFunction
<1>3. \A f : SumFunctionOnSet(f, {}) = 0
  BY FS_EmptySet, SumDefined
<1>4. CASE Cardinality(Levels) <= 1
  <2>1. depth = 0
    BY <1>4
  <2>2. Owed(s, depth) = 0 /\ Loose(depth) = gross
    <3>1. Smaller(0, contrib[s]) = 0 /\ 1..0 = {}
      BY <1>1 DEF Smaller
    <3> QED
      BY <1>1, <1>3, <2>1, <3>1, OwedIs
  <2>3. Claimed(s) = gross
    <3>1. CASE gross = 0
      <4>1. ShownTo(s) = {}
        BY <3>1 DEF ShownTo, ShownPots
      <4> QED
        BY <1>2, <1>3, <3>1, <4>1
    <3>2. CASE gross # 0
      <4> DEFINE p == [amount |-> gross, players |-> alive]
      <4>1. ShownPots(contrib, alive, gross) = {p}
        BY <1>1, <1>4, <3>2 DEF ShownPots, Levels
      <4>2. p.players = alive /\ p.amount = gross
        OBVIOUS
      <4> HIDE DEF p
      <4>3. ShownTo(s) = {p}
        BY <4>1, <4>2 DEF ShownTo
      <4>4. amount[p] = gross
        BY <4>2, <4>3
      <4> HIDE DEF amount
      <4>5. SumFunctionOnSet(amount, {p}) = amount[p] + SumFunctionOnSet(amount, {p} \ {p})
        <5>1. IsFiniteSet({p})
          BY FS_Singleton
        <5>2. gross \in Int
          BY <1>1
        <5>3. \A y \in {p} : amount[y] \in Int
          BY <4>4, <5>2
        <5> QED
          BY <5>1, <5>3, SumTake
      <4>6. {p} \ {p} = {}
        OBVIOUS
      <4> QED
        BY <1>1, <1>2, <1>3, <4>3, <4>4, <4>5, <4>6
    <3> QED
      BY <3>1, <3>2
  <2> QED
    BY <1>1, <2>1, <2>2, <2>3
<1>5. CASE ~ (Cardinality(Levels) <= 1)
  <2>1. Cardinality(Levels) > 1 /\ Levels # {}
    BY <1>1, <1>5, ManyLevels
  <2>2. depth = Max(Levels) /\ depth \in Nat /\ contrib[s] <= depth
    BY <1>5, <2>1, TopIs
  <2>3. depth # 0
    BY <2>1, <2>2, ShownStack
  <2>4. Smaller(depth, contrib[s]) = contrib[s]
    BY <1>1, <2>2 DEF Smaller
  <2>5. /\ Owed(s, depth) = SumFunctionOnSet(Rivalled, 1..contrib[s])
        /\ Loose(depth) = gross - SumFunctionOnSet(Width, 1..Max(Levels))
    BY <2>2, <2>4, OwedIs
  <2>6. CASE contrib[s] > 0
    BY <2>1, <2>5, <2>6, ShownToPayer
  <2>7. CASE contrib[s] = 0
    <3>1. ShownTo(s) = {}
      <4>1. ASSUME NEW q \in ShownTo(s)
            PROVE  FALSE
        <5>1. PICK k \in ContestedLevels(contrib, alive) : q = PotOf(k)
          BY <2>1, ManyLevels DEF ShownTo
        <5>2. k \in Nat \ {0}
          BY <2>1, <5>1, ManyLevels, ShownStack
        <5>3. contrib[s] >= k
          BY <5>1 DEF ShownTo, PotOf, Contenders
        <5> QED
          BY <2>7, <5>2, <5>3
      <4> QED
        BY <4>1
    <3>2. Claimed(s) = 0
      BY <1>2, <1>3, <3>1
    <3>3. 1..contrib[s] = {}
      BY <2>7
    <3>4. Owed(s, depth) = 0
      BY <1>3, <2>5, <3>3
    <3> QED
      BY <2>3, <2>7, <3>2, <3>4
  <2> QED
    BY <1>1, <2>6, <2>7
<1> QED
  BY <1>4, <1>5

(***************************************************************************)
(* The theorems.                                                           *)
(***************************************************************************)

\* A pot is what was put in and dead money, and is paid as the script may pay it.
PotInv ==
    /\ contrib \in [Seats -> Bets]
    /\ alive \in SUBSET Seats /\ alive # {}
    /\ score \in [alive -> HandValues]
    /\ gross \in {SeatSum(contrib) + dead : dead \in DeadMoney}
    /\ won = Unpaid \/ won \in Payouts(contrib, alive, score, gross, Net)

LEMMA PotInvariant == PotSpec => []PotInv
<1>1. PotInit => PotInv
  BY DEF PotInit, PotInv
<1>2. PotInv /\ [Split]_pots => PotInv'
  <2> SUFFICES ASSUME PotInv, [Split]_pots
               PROVE  PotInv'
    OBVIOUS
  <2>1. CASE Split
    <3>1. Net' = Net
      BY <2>1 DEF Split, Net
    <3> QED
      BY <2>1, <3>1 DEF Split, PotInv
  <2>2. CASE UNCHANGED pots
    <3>1. Net' = Net
      BY <2>2 DEF pots, Net
    <3> QED
      BY <2>2, <3>1 DEF pots, PotInv
  <2> QED
    BY <2>1, <2>2
<1> QED
  BY <1>1, <1>2, PTL DEF PotSpec

LEMMA PotInvFacts ==
    ASSUME PotInv
    PROVE  PotFacts /\ DOMAIN score = alive
<1>1. \A s \in Seats : contrib[s] \in Nat
  BY PotAssumption DEF PotInv
<1>2. SeatSum(contrib) \in Nat
  BY <1>1, SeatSumNat
<1>3. PICK dead \in DeadMoney : gross = SeatSum(contrib) + dead
  BY DEF PotInv
<1>4. gross \in Nat /\ SeatSum(contrib) <= gross
  BY <1>2, <1>3, PotAssumption
<1> QED
  BY <1>1, <1>4 DEF PotInv, PotFacts

\* Whatever the seats have put in, whoever is all-in for less, whoever ties and whatever
\* the rake: each seat is paid what the layers of chips owe it, less its part of the rake
\* and but for the rounding of each side pot (showdown.lua's slices and shares).
THEOREM SharesAreFair == PotSpec => []FairShare
<1>1. PotInv => FairShare
  <2> SUFFICES ASSUME PotInv, won # Unpaid, NEW s \in Seats
               PROVE  /\ Common * gross * won[s] <= CommonDue(s) * Net + Common * gross * Slack
                      /\ Common * gross * won[s] >= CommonDue(s) * Net - Common * gross * Slack
    BY DEF FairShare
  <2>1. won \in Payouts(contrib, alive, score, gross, Net)
    BY DEF PotInv
  <2> QED
    BY <2>1, PotInvFacts, SplitIsFair DEF PotFacts
<1> QED
  BY <1>1, PotInvariant, PTL

\* Whatever the seats have put in and whoever folded, except between two contributions: the
\* client shows each contender the pots he can win, with the dead money in the main one
\* (useGameTable.ts computeSidePots).
THEOREM PotsAreShown == PotSpec => []PotsShown
<1>1. PotInv => PotsShown
  <2> SUFFICES ASSUME PotInv, FoldsAligned
               PROVE  PotsShown
    BY DEF PotsShown
  <2>1. PotFacts
    BY PotInvFacts
  <2> DEFINE depth == IF Cardinality(ShownLevels(contrib, alive)) <= 1 THEN 0
                        ELSE Max({contrib[s] : s \in alive})
  <2>2. \A s \in alive :
           Claimed(s) = Owed(s, depth) + (IF depth = 0 \/ contrib[s] > 0 THEN Loose(depth) ELSE 0)
    BY <2>1, ShownToEach DEF Levels
  <2> HIDE DEF depth
  <2> QED
    BY <2>2 DEF PotsShown, Claimed, ShownTo, Owed, Loose, depth
<1> QED
  BY <1>1, PotInvariant, PTL

(***************************************************************************)
(* Hands of five cards, for any deck: the ranks in a hand, listed by how   *)
(* often they occur.                                                       *)
(***************************************************************************)
Colours == {"s", "h", "d", "c"}
Five == {h \in SUBSET Deck : Cardinality(h) = 5}
OfRank(h, r) == {c \in h : c.rank = r}
Length(h) == Cardinality(RanksIn(h))

\* There are four suits, so a deck is finite.
LEMMA FourColours == IsFiniteSet(Colours) /\ Cardinality(Colours) = 4
<1>1. IsFiniteSet({"c"}) /\ Cardinality({"c"}) = 1
  BY FS_Singleton
<1>2. IsFiniteSet({"d"} \cup {"c"}) /\ Cardinality({"d"} \cup {"c"}) = 2
  BY <1>1, FS_Singleton, FS_AddElement
<1>3. IsFiniteSet({"h", "d", "c"}) /\ Cardinality({"h", "d", "c"}) = 3
  <2>1. {"h", "d", "c"} = ({"d"} \cup {"c"}) \cup {"h"} /\ "h" \notin {"d"} \cup {"c"}
    OBVIOUS
  <2> QED
    BY <1>2, <2>1, FS_AddElement
<1> QED
  <2>1. Colours = {"h", "d", "c"} \cup {"s"} /\ "s" \notin {"h", "d", "c"}
    BY DEF Colours
  <2> QED
    BY <1>3, <2>1, FS_AddElement

\* A deck of ranks and suits is finite.
LEMMA DeckFinite == IsFiniteSet(Deck)
<1> DEFINE all == [rank : 2..14, suit : Colours]
           card == [p \in (2..14) \X Colours |-> [rank |-> p[1], suit |-> p[2]]]
<1>1. IsFiniteSet((2..14) \X Colours)
  <2>1. 2 \in Int /\ 14 \in Int
    OBVIOUS
  <2>2. IsFiniteSet(2..14)
    BY <2>1, FS_Interval, Zenon
  <2> QED
    BY <2>2, FourColours, FS_Product
<1>2. card \in Surjection((2..14) \X Colours, all)
  <2>1. card \in [(2..14) \X Colours -> all]
    OBVIOUS
  <2>2. ASSUME NEW c \in all
        PROVE  \E p \in (2..14) \X Colours : card[p] = c
    <3> DEFINE p == <<c.rank, c.suit>>
    <3>1. p \in (2..14) \X Colours /\ c = [rank |-> c.rank, suit |-> c.suit]
      OBVIOUS
    <3>2. p[1] = c.rank /\ p[2] = c.suit
      OBVIOUS
    <3> HIDE DEF p
    <3>3. card[p] = c
      BY <3>1, <3>2
    <3> QED
      BY <3>1, <3>3
  <2> QED
    BY <2>1, <2>2 DEF Surjection
<1>3. IsFiniteSet(all)
  BY <1>1, <1>2, FS_Surjection
<1> QED
  BY <1>3, DeckAssumption, FS_Subset DEF Colours

\* A hand of the deck is finite, and its cards have ranks and suits.
LEMMA CardsOf ==
    ASSUME NEW h \in Five
    PROVE  /\ IsFiniteSet(h) /\ Cardinality(h) = 5
           /\ \A c \in h : c = [rank |-> c.rank, suit |-> c.suit] /\ c.rank \in 2..14 /\ c.suit \in Colours
           /\ RanksIn(h) \subseteq 2..14
<1>1. h \subseteq Deck /\ Cardinality(h) = 5
  BY DEF Five
<1>2. IsFiniteSet(h)
  BY <1>1, DeckFinite, FS_Subset
<1>3. \A c \in h : c \in [rank : 2..14, suit : Colours]
  BY <1>1, DeckAssumption DEF Colours
<1>4. \A c \in [rank : 2..14, suit : Colours] :
          c = [rank |-> c.rank, suit |-> c.suit] /\ c.rank \in 2..14 /\ c.suit \in Colours
  OBVIOUS
<1> QED
  BY <1>1, <1>2, <1>3, <1>4 DEF RanksIn

\* A hand has one to four cards of each of its ranks.
LEMMA CountType ==
    ASSUME NEW h \in Five, NEW r \in RanksIn(h)
    PROVE  CountOf(h, r) \in 1..4 /\ r \in 2..14
<1> DEFINE of == OfRank(h, r)
           quad == {[rank |-> r, suit |-> x] : x \in Colours}
           f == [x \in Colours |-> [rank |-> r, suit |-> x]]
<1>1. f \in Surjection(Colours, quad)
  BY DEF Surjection
<1>2. IsFiniteSet(quad) /\ Cardinality(quad) <= 4
  BY <1>1, FourColours, FS_Surjection
<1>3. of \subseteq quad
  BY CardsOf DEF OfRank
<1>4. IsFiniteSet(of) /\ Cardinality(of) <= Cardinality(quad)
  BY <1>2, <1>3, FS_Subset
<1>5. of # {}
  BY DEF OfRank, RanksIn
<1>6. Cardinality(of) \in Nat /\ Cardinality(of) # 0 /\ Cardinality(quad) \in Nat
  BY <1>2, <1>4, <1>5, FS_EmptySet, FS_CardinalityType
<1>7. Cardinality(of) = CountOf(h, r)
  BY DEF OfRank, CountOf
<1>8. r \in 2..14
  BY CardsOf
<1> QED
  BY <1>2, <1>4, <1>6, <1>7, <1>8

\* A hand of five has one to five ranks.
LEMMA LengthType ==
    ASSUME NEW h \in Five
    PROVE  IsFiniteSet(RanksIn(h)) /\ Length(h) \in 1..5
<1> DEFINE f == [c \in h |-> c.rank]
<1>1. IsFiniteSet(h) /\ Cardinality(h) = 5
  BY CardsOf
<1>2. f \in Surjection(h, RanksIn(h))
  BY DEF Surjection, RanksIn
<1>3. IsFiniteSet(RanksIn(h)) /\ Length(h) <= 5
  BY <1>1, <1>2, FS_Surjection DEF Length
<1>4. h # {}
  BY <1>1, FS_EmptySet
<1>5. RanksIn(h) # {}
  BY <1>4 DEF RanksIn
<1>6. Length(h) \in Nat /\ Length(h) # 0
  BY <1>3, <1>5, FS_EmptySet, FS_CardinalityType DEF Length
<1> QED
  BY <1>3, <1>6

\* Of two ranks one is ahead, and what is ahead of it is ahead of the other.
LEMMA AheadOrder ==
    ASSUME NEW h \in Five, NEW q \in RanksIn(h), NEW r \in RanksIn(h)
    PROVE  /\ Cardinality(Ahead(h, r)) \in 0..(Length(h) - 1)
           /\ q \in Ahead(h, r) => Cardinality(Ahead(h, q)) < Cardinality(Ahead(h, r))
           /\ q # r => q \in Ahead(h, r) \/ r \in Ahead(h, q)
<1>1. \A x \in RanksIn(h) : CountOf(h, x) \in Nat /\ x \in Nat
  BY CountType
<1>2. ASSUME NEW x \in RanksIn(h)
      PROVE  /\ IsFiniteSet(Ahead(h, x)) /\ Cardinality(Ahead(h, x)) \in Nat
             /\ x \notin Ahead(h, x) /\ Ahead(h, x) \subseteq RanksIn(h)
  <2>1. Ahead(h, x) \subseteq RanksIn(h)
    BY DEF Ahead
  <2>2. x \notin Ahead(h, x)
    BY <1>1 DEF Ahead
  <2>3. IsFiniteSet(Ahead(h, x))
    BY <2>1, LengthType, FS_Subset
  <2> QED
    BY <2>1, <2>2, <2>3, FS_CardinalityType
<1>3. Cardinality(Ahead(h, r)) \in 0..(Length(h) - 1)
  <2>1. Ahead(h, r) \subseteq RanksIn(h) \ {r}
    BY <1>2
  <2>2. IsFiniteSet(RanksIn(h) \ {r}) /\ Cardinality(RanksIn(h) \ {r}) = Length(h) - 1
    BY LengthType, FS_RemoveElement DEF Length
  <2>3. Cardinality(Ahead(h, r)) <= Length(h) - 1
    BY <2>1, <2>2, FS_Subset
  <2> QED
    BY <1>2, <2>3, LengthType
<1>4. ASSUME q \in Ahead(h, r)
      PROVE  Cardinality(Ahead(h, q)) < Cardinality(Ahead(h, r))
  <2>1. Ahead(h, q) \subseteq Ahead(h, r)
    <3>1. ASSUME NEW p \in Ahead(h, q)
          PROVE  p \in Ahead(h, r)
      <4>1. /\ p \in RanksIn(h) /\ CountOf(h, p) \in Nat /\ p \in Nat
            /\ CountOf(h, q) \in Nat /\ q \in Nat /\ CountOf(h, r) \in Nat /\ r \in Nat
            /\ CountOf(h, p) > CountOf(h, q) \/ (CountOf(h, p) = CountOf(h, q) /\ p > q)
            /\ CountOf(h, q) > CountOf(h, r) \/ (CountOf(h, q) = CountOf(h, r) /\ q > r)
        BY <1>1, <1>4 DEF Ahead
      <4>2. CountOf(h, p) > CountOf(h, r) \/ (CountOf(h, p) = CountOf(h, r) /\ p > r)
        BY <4>1
      <4> QED
        BY <4>1, <4>2 DEF Ahead
    <3> QED
      BY <3>1
  <2>2. Ahead(h, q) \subseteq Ahead(h, r) \ {q}
    BY <1>2, <2>1
  <2>3. /\ IsFiniteSet(Ahead(h, r) \ {q})
        /\ Cardinality(Ahead(h, r) \ {q}) = Cardinality(Ahead(h, r)) - 1
    BY <1>2, <1>4, FS_RemoveElement
  <2>4. Cardinality(Ahead(h, q)) <= Cardinality(Ahead(h, r)) - 1
    BY <2>2, <2>3, FS_Subset
  <2> QED
    BY <1>2, <2>4
<1>5. q # r => q \in Ahead(h, r) \/ r \in Ahead(h, q)
  BY <1>1 DEF Ahead
<1> QED
  BY <1>3, <1>4, <1>5

\* The ranks of a hand are listed once each, in their order.
LEMMA RankedIs ==
    ASSUME NEW h \in Five
    PROVE  /\ Ranked(h) \in [1..Length(h) -> RanksIn(h)]
           /\ \A r \in RanksIn(h) : \E i \in 1..Length(h) : Ranked(h)[i] = r
           /\ \A i, j \in 1..Length(h) : i < j => Ranked(h)[i] \in Ahead(h, Ranked(h)[j])
<1> DEFINE R == RanksIn(h)
           n == Length(h)
           place == [r \in R |-> Cardinality(Ahead(h, r)) + 1]
<1>1. IsFiniteSet(R) /\ n \in 1..5 /\ Cardinality(R) = n
  BY LengthType DEF Length
<1>2. IsFiniteSet(1..n) /\ Cardinality(1..n) = n
  BY <1>1, FS_Interval
<1>3. place \in Injection(R, 1..n)
  <2>1. ASSUME NEW r \in R
        PROVE  place[r] \in 1..n
    BY <1>1, AheadOrder
  <2>2. ASSUME NEW q \in R, NEW r \in R, q # r
        PROVE  place[q] # place[r]
    <3>1. /\ Cardinality(Ahead(h, q)) \in 0..(n - 1)
          /\ Cardinality(Ahead(h, r)) \in 0..(n - 1)
          /\ \/ Cardinality(Ahead(h, q)) < Cardinality(Ahead(h, r))
             \/ Cardinality(Ahead(h, r)) < Cardinality(Ahead(h, q))
      BY <2>2, AheadOrder
    <3> QED
      BY <1>1, <3>1
  <2>3. place \in [R -> 1..n]
    BY <2>1
  <2> HIDE DEF place
  <2> QED
    BY <2>2, <2>3 DEF Injection, IsInjective
<1>4. place \in Surjection(R, 1..n)
  BY <1>1, <1>2, <1>3, FS_Injection
<1>5. \A i \in 1..n : \E r \in R : Cardinality(Ahead(h, r)) = i - 1
  <2>1. ASSUME NEW i \in 1..n
        PROVE  \E r \in R : Cardinality(Ahead(h, r)) = i - 1
    <3>1. PICK r \in R : place[r] = i
      BY <1>4 DEF Surjection
    <3>2. Cardinality(Ahead(h, r)) + 1 = i /\ Cardinality(Ahead(h, r)) \in Int
      BY <3>1, <1>1, AheadOrder
    <3> QED
      BY <3>2
  <2> QED
    BY <2>1
<1>6. \A i \in 1..n : Ranked(h)[i] \in R /\ Cardinality(Ahead(h, Ranked(h)[i])) = i - 1
  BY <1>5 DEF Ranked, Length
<1>7. Ranked(h) \in [1..n -> R]
  BY <1>6 DEF Ranked, Length
<1>8. ASSUME NEW r \in R
      PROVE  \E i \in 1..n : Ranked(h)[i] = r
  <2>1. place[r] \in 1..n /\ place[r] = Cardinality(Ahead(h, r)) + 1
        /\ Cardinality(Ahead(h, r)) \in Int
    BY <1>1, AheadOrder
  <2>2. Cardinality(Ahead(h, Ranked(h)[place[r]])) = Cardinality(Ahead(h, r))
    BY <1>6, <2>1
  <2>3. Ranked(h)[place[r]] = r
    <3>1. Ranked(h)[place[r]] \in R
      BY <1>6, <2>1
    <3> QED
      BY <2>1, <2>2, <3>1, AheadOrder
  <2> QED
    BY <2>1, <2>3
<1>9. ASSUME NEW i \in 1..n, NEW j \in 1..n, i < j
      PROVE  Ranked(h)[i] \in Ahead(h, Ranked(h)[j])
  <2>1. /\ Ranked(h)[i] \in R /\ Cardinality(Ahead(h, Ranked(h)[i])) = i - 1
        /\ Ranked(h)[j] \in R /\ Cardinality(Ahead(h, Ranked(h)[j])) = j - 1
    BY <1>6
  <2>2. Ranked(h)[i] # Ranked(h)[j]
    BY <1>1, <1>9, <2>1
  <2>3. Ranked(h)[j] \notin Ahead(h, Ranked(h)[i])
    <3>1. Ranked(h)[j] \in Ahead(h, Ranked(h)[i]) => j - 1 < i - 1
      BY <2>1, AheadOrder
    <3> QED
      BY <1>1, <1>9, <3>1
  <2> QED
    BY <2>1, <2>2, <2>3, AheadOrder
<1> QED
  BY <1>7, <1>8, <1>9

(***************************************************************************)
(* The shapes of a hand.                                                   *)
(***************************************************************************)
\* The cards but for the first ranks of the list.
Rest(h, i) == {c \in h : \A j \in 1..i : c.rank # Ranked(h)[j]}

\* Earlier ranks are the more frequent, or as frequent and higher.
LEMMA InTurn ==
    ASSUME NEW h \in Five
    PROVE  /\ Counts(h) \in [1..Length(h) -> 1..4]
           /\ \A i \in 1..Length(h) : /\ Counts(h)[i] = CountOf(h, Ranked(h)[i])
                                      /\ Ranked(h)[i] \in RanksIn(h) /\ Ranked(h)[i] \in 2..14
           /\ \A i, j \in 1..Length(h) : i < j =>
                /\ Ranked(h)[i] # Ranked(h)[j]
                /\ \/ Counts(h)[i] > Counts(h)[j]
                   \/ Counts(h)[i] = Counts(h)[j] /\ Ranked(h)[i] > Ranked(h)[j]
<1>1. \A i \in 1..Length(h) : Ranked(h)[i] \in RanksIn(h)
  BY RankedIs
<1>2. DOMAIN Ranked(h) = 1..Length(h)
  BY DEF Ranked, Length
<1>3. \A i \in 1..Length(h) :
          Counts(h)[i] = CountOf(h, Ranked(h)[i]) /\ Counts(h)[i] \in 1..4 /\ Ranked(h)[i] \in 2..14
  BY <1>1, <1>2, CountType DEF Counts
<1>4. Counts(h) \in [1..Length(h) -> 1..4]
  BY <1>2, <1>3 DEF Counts
<1>5. ASSUME NEW i \in 1..Length(h), NEW j \in 1..Length(h), i < j
      PROVE  /\ Ranked(h)[i] # Ranked(h)[j]
             /\ \/ Counts(h)[i] > Counts(h)[j]
                \/ Counts(h)[i] = Counts(h)[j] /\ Ranked(h)[i] > Ranked(h)[j]
  <2>1. Ranked(h)[i] \in Ahead(h, Ranked(h)[j])
    BY <1>5, RankedIs
  <2>2. \/ Counts(h)[i] > Counts(h)[j]
        \/ Counts(h)[i] = Counts(h)[j] /\ Ranked(h)[i] > Ranked(h)[j]
    BY <1>3, <2>1 DEF Ahead
  <2> QED
    BY <1>3, <2>2
<1> QED
  BY <1>1, <1>3, <1>4, <1>5

\* The cards of a hand that its first ranks leave.
LEMMA RestIs ==
    ASSUME NEW h \in Five
    PROVE  /\ Cardinality(Rest(h, 0)) = 5 /\ Cardinality(Rest(h, Length(h))) = 0
           /\ \A i \in 0..Length(h) : Cardinality(Rest(h, i)) \in Nat
           /\ \A i \in 1..Length(h) :
                  Cardinality(Rest(h, i - 1)) = Counts(h)[i] + Cardinality(Rest(h, i))
<1>1. IsFiniteSet(h) /\ Cardinality(h) = 5 /\ Length(h) \in 1..5
  BY CardsOf, LengthType
<1>2. Rest(h, 0) = h
  BY DEF Rest
<1>3. Rest(h, Length(h)) = {}
  <2>1. \A c \in h : c.rank \in RanksIn(h)
    BY DEF RanksIn
  <2> QED
    BY <2>1, RankedIs DEF Rest
<1>4. ASSUME NEW i
      PROVE  IsFiniteSet(Rest(h, i)) /\ Cardinality(Rest(h, i)) \in Nat
  <2>1. Rest(h, i) \subseteq h
    BY DEF Rest
  <2> QED
    BY <1>1, <2>1, FS_Subset, FS_CardinalityType
<1>5. ASSUME NEW i \in 1..Length(h)
      PROVE  Cardinality(Rest(h, i - 1)) = Counts(h)[i] + Cardinality(Rest(h, i))
  <2> DEFINE r == Ranked(h)[i]
  <2>1. \A j \in 1..(i - 1) : Ranked(h)[j] # r
    BY <1>1, InTurn
  <2>2. \A j : j \in 1..i <=> j \in 1..(i - 1) \/ j = i
    BY <1>1
  <2>3. Rest(h, i) = Rest(h, i - 1) \ OfRank(h, r)
    BY <2>2 DEF Rest, OfRank
  <2>4. Rest(h, i - 1) \cap OfRank(h, r) = OfRank(h, r)
    BY <2>1 DEF Rest, OfRank
  <2>5. Cardinality(OfRank(h, r)) = Counts(h)[i]
    BY InTurn DEF OfRank, CountOf
  <2>6. Cardinality(Rest(h, i)) = Cardinality(Rest(h, i - 1)) - Counts(h)[i]
    BY <1>4, <2>3, <2>4, <2>5, FS_Difference
  <2>7. Counts(h)[i] \in Nat
    <3>1. Counts(h) \in [1..Length(h) -> 1..4]
      BY InTurn
    <3> QED
      BY <3>1
  <2> QED
    BY <1>4, <2>6, <2>7
<1> QED
  BY <1>1, <1>2, <1>3, <1>4, <1>5, FS_EmptySet

\* Five cards, no more than four of a rank, fall into seven patterns of equal ranks.
LEMMA Shapes ==
    ASSUME NEW h \in Five
    PROVE  \/ Length(h) = 2 /\ Counts(h) = <<4, 1>>
           \/ Length(h) = 2 /\ Counts(h) = <<3, 2>>
           \/ Length(h) = 3 /\ Counts(h) = <<3, 1, 1>>
           \/ Length(h) = 3 /\ Counts(h) = <<2, 2, 1>>
           \/ Length(h) = 4 /\ Counts(h) = <<2, 1, 1, 1>>
           \/ Length(h) = 5 /\ Counts(h) = <<1, 1, 1, 1, 1>>
<1> DEFINE n == Length(h)
           c == Counts(h)
           left(i) == Cardinality(Rest(h, i))
<1>1. /\ c \in [1..n -> 1..4] /\ n \in 1..5
      /\ \A i, j \in 1..n : i < j => c[i] >= c[j]
  <2>1. c \in [1..n -> 1..4] /\ n \in 1..5
    BY InTurn, LengthType
  <2>2. \A i \in 1..n : c[i] \in Int
    BY <2>1
  <2>3. ASSUME NEW i \in 1..n, NEW j \in 1..n, i < j
        PROVE  c[i] >= c[j]
    <3>1. c[i] > c[j] \/ c[i] = c[j]
      BY <2>3, InTurn
    <3> QED
      BY <2>2, <3>1
  <2> QED
    BY <2>1, <2>3
<1>2. left(0) = 5 /\ left(n) = 0 /\ \A i \in 0..n : left(i) \in Nat
  BY RestIs
<1>3. \A i \in 1..n : left(i - 1) = c[i] + left(i)
  BY RestIs
<1> HIDE DEF n, c, left
<1>4. \A i \in 1..n : c[i] \in 1..4
  BY <1>1
<1>5. CASE n = 1
  <2>1. left(0) = c[1] + left(1) /\ c[1] \in 1..4
    BY <1>3, <1>4, <1>5
  <2> QED
    BY <1>2, <1>5, <2>1
<1>6. CASE n = 2
  <2>1. 1 \in 1..n /\ 2 \in 1..n
    BY <1>6
  <2>2. left(0) = c[1] + left(1) /\ left(1) = c[2] + left(2) /\ left(1) \in Nat
    BY <1>2, <1>3, <2>1, <1>6
  <2>3. c[1] \in 1..4 /\ c[2] \in 1..4 /\ c[1] >= c[2]
    BY <1>1, <1>4, <2>1
  <2>4. (c[1] = 4 /\ c[2] = 1) \/ (c[1] = 3 /\ c[2] = 2)
    BY <1>2, <1>6, <2>2, <2>3
  <2>5. c = [i \in 1..2 |-> c[i]]
    BY <1>1, <1>6
  <2>6. c = <<c[1], c[2]>>
    BY <2>5
  <2> QED
    BY <1>6, <2>4, <2>6 DEF n, c
<1>7. CASE n = 3
  <2>1. 1 \in 1..n /\ 2 \in 1..n /\ 3 \in 1..n
    BY <1>7
  <2>2. /\ left(0) = c[1] + left(1) /\ left(1) = c[2] + left(2) /\ left(2) = c[3] + left(3)
        /\ left(1) \in Nat /\ left(2) \in Nat
    BY <1>2, <1>3, <2>1, <1>7
  <2>3. /\ c[1] \in 1..4 /\ c[2] \in 1..4 /\ c[3] \in 1..4
        /\ c[1] >= c[2] /\ c[2] >= c[3]
    BY <1>1, <1>4, <2>1
  <2>4. (c[1] = 3 /\ c[2] = 1 /\ c[3] = 1) \/ (c[1] = 2 /\ c[2] = 2 /\ c[3] = 1)
    BY <1>2, <1>7, <2>2, <2>3
  <2>5. c = [i \in 1..3 |-> c[i]]
    BY <1>1, <1>7
  <2>6. c = <<c[1], c[2], c[3]>>
    BY <2>5
  <2> QED
    BY <1>7, <2>4, <2>6 DEF n, c
<1>8. CASE n = 4
  <2>1. 1 \in 1..n /\ 2 \in 1..n /\ 3 \in 1..n /\ 4 \in 1..n
    BY <1>8
  <2>2. /\ left(0) = c[1] + left(1) /\ left(1) = c[2] + left(2) /\ left(2) = c[3] + left(3)
        /\ left(3) = c[4] + left(4)
        /\ left(1) \in Nat /\ left(2) \in Nat /\ left(3) \in Nat
    BY <1>2, <1>3, <2>1, <1>8
  <2>3. /\ c[1] \in 1..4 /\ c[2] \in 1..4 /\ c[3] \in 1..4 /\ c[4] \in 1..4
        /\ c[1] >= c[2] /\ c[2] >= c[3] /\ c[3] >= c[4]
    BY <1>1, <1>4, <2>1
  <2>4. c[1] = 2 /\ c[2] = 1 /\ c[3] = 1 /\ c[4] = 1
    BY <1>2, <1>8, <2>2, <2>3
  <2>5. c = [i \in 1..4 |-> c[i]]
    BY <1>1, <1>8
  <2>6. c = <<c[1], c[2], c[3], c[4]>>
    BY <2>5
  <2> QED
    BY <1>8, <2>4, <2>6 DEF n, c
<1>9. CASE n = 5
  <2>1. 1 \in 1..n /\ 2 \in 1..n /\ 3 \in 1..n /\ 4 \in 1..n /\ 5 \in 1..n
    BY <1>9
  <2>2. /\ left(0) = c[1] + left(1) /\ left(1) = c[2] + left(2) /\ left(2) = c[3] + left(3)
        /\ left(3) = c[4] + left(4) /\ left(4) = c[5] + left(5)
        /\ left(1) \in Nat /\ left(2) \in Nat /\ left(3) \in Nat /\ left(4) \in Nat
    BY <1>2, <1>3, <2>1, <1>9
  <2>3. /\ c[1] \in 1..4 /\ c[2] \in 1..4 /\ c[3] \in 1..4 /\ c[4] \in 1..4 /\ c[5] \in 1..4
    BY <1>4, <2>1
  <2>4. c[1] = 1 /\ c[2] = 1 /\ c[3] = 1 /\ c[4] = 1 /\ c[5] = 1
    BY <1>2, <1>9, <2>2, <2>3
  <2>5. c = [i \in 1..5 |-> c[i]]
    BY <1>1, <1>9
  <2>6. c = <<c[1], c[2], c[3], c[4], c[5]>>
    BY <2>5
  <2> QED
    BY <1>9, <2>4, <2>6 DEF n, c
<1> QED
  BY <1>1, <1>5, <1>6, <1>7, <1>8, <1>9

(***************************************************************************)
(* Flushes and straights.                                                  *)
(***************************************************************************)
\* A flush has five ranks.
LEMMA FlushIs ==
    ASSUME NEW h \in Five, IsFlush(h)
    PROVE  Length(h) = 5
<1> DEFINE suits == {c.suit : c \in h}
<1>1. IsFiniteSet(suits)
  <2>1. suits \subseteq Colours
    BY CardsOf
  <2> QED
    BY <2>1, FourColours, FS_Subset
<1>2. PICK x : suits = {x}
  BY <1>1, FS_Singleton DEF IsFlush
<1>3. 1 \in 1..Length(h)
  BY LengthType
<1> DEFINE r == Ranked(h)[1]
           card == [rank |-> r, suit |-> x]
<1>4. OfRank(h, r) \subseteq {card}
  <2>1. ASSUME NEW c \in OfRank(h, r)
        PROVE  c = card
    <3>1. c \in h /\ c.rank = r /\ c.suit \in suits
      BY DEF OfRank
    <3> QED
      BY <1>2, <3>1, CardsOf
  <2> QED
    BY <2>1
<1>5. Cardinality(OfRank(h, r)) <= 1
  <2>1. IsFiniteSet({card}) /\ Cardinality({card}) = 1
    BY FS_Singleton
  <2> QED
    BY <1>4, <2>1, FS_Subset
<1>6. Counts(h)[1] = Cardinality(OfRank(h, r))
  BY <1>3, InTurn DEF OfRank, CountOf
<1> HIDE DEF r, card
<1>7. ~ (Counts(h)[1] \in {2, 3, 4})
  BY <1>5, <1>6
<1> QED
  BY <1>7, Shapes

\* The list of the ranks of a straight from a top above five.
Run(t) == IF t = 5 THEN <<5>> ELSE <<t, t - 1, t - 2, t - 3, t - 4>>

\* The wheel has five ranks.
LEMMA WheelIs == Cardinality(Wheel) = 5
<1>1. 2 \in Int /\ 5 \in Int
  OBVIOUS
<1>2. IsFiniteSet(2..5) /\ Cardinality(2..5) = IF 2 > 5 THEN 0 ELSE 5 - 2 + 1
  BY <1>1, FS_Interval, Zenon
<1>3. Wheel = (2..5) \cup {14} /\ 14 \notin 2..5
  BY DEF Wheel
<1> QED
  BY <1>2, <1>3, FS_AddElement

\* What the browser takes for the top of a straight is one by the book.
LEMMA StraightIs ==
    ASSUME NEW h \in Five
    PROVE  /\ StraightHigh(h) \in {0} \cup 5..14
           /\ IsStraight(h) <=> StraightHigh(h) # 0
           /\ StraightHigh(h) # 0 => Length(h) = 5
           /\ StraightHigh(h) = 5 <=> RanksIn(h) = Wheel
           /\ StraightHigh(h) > 5 => RanksIn(h) = (StraightHigh(h) - 4)..StraightHigh(h)
<1> DEFINE R == RanksIn(h)
           top == StraightHigh(h)
<1>1. /\ IsFiniteSet(R) /\ Cardinality(R) \in Nat /\ R # {} /\ R \subseteq 2..14
      /\ Length(h) = Cardinality(R)
  <2>1. IsFiniteSet(R) /\ Length(h) \in 1..5 /\ R \subseteq 2..14 /\ Length(h) = Cardinality(R)
    BY LengthType, CardsOf DEF Length
  <2> QED
    BY <2>1, FS_EmptySet
<1>2. Max(R) \in R /\ Min(R) \in R /\ \A x \in R : Min(R) <= x /\ x <= Max(R)
  <2>1. \A x \in R : x \in Nat /\ x <= 14
    BY <1>1
  <2>2. 14 \in Nat
    OBVIOUS
  <2> HIDE DEF R
  <2> QED
    BY <1>1, <2>1, <2>2, MaxIs
<1>3. CASE R = Wheel
  <2>1. top = 5 /\ IsStraight(h) /\ Cardinality(R) = 5
    BY <1>3, WheelIs DEF StraightHigh, IsStraight
  <2> QED
    BY <1>1, <1>3, <2>1
<1>4. CASE R # Wheel /\ Cardinality(R) = 5 /\ Max(R) - Min(R) = 4
  <2> DEFINE low == Min(R)
             high == Max(R)
  <2>1. low \in 2..14 /\ high \in 2..14 /\ high = low + 4
    BY <1>1, <1>2, <1>4
  <2>2. R \subseteq low..high
    BY <1>1, <1>2
  <2>3. IsFiniteSet(low..high) /\ Cardinality(low..high) = 5
    BY <2>1, FS_Interval
  <2>4. R = low..high
    BY <1>4, <2>2, <2>3, FS_Subset
  <2>5. top = high
    BY <1>4 DEF StraightHigh
  <2> HIDE DEF low, high, top, R
  <2>0. high <= 14
    BY <2>1
  <2>6. top \in 6..14 /\ R = (top - 4)..top
    BY <2>1, <2>4, <2>5
  <2>7. IsStraight(h)
    <3>1. low \in 2..10 /\ high = low + 4
      BY <2>0, <2>1
    <3>2. RanksIn(h) = low..(low + 4)
      BY <2>4, <3>1 DEF R
    <3>3. \E r \in 2..10 : RanksIn(h) = r..(r + 4)
      BY <3>1, <3>2
    <3> QED
      BY <3>3 DEF IsStraight
  <2> QED
    BY <1>1, <1>4, <2>6, <2>7 DEF R, top
<1>5. CASE R # Wheel /\ ~ (Cardinality(R) = 5 /\ Max(R) - Min(R) = 4)
  <2>1. top = 0
    BY <1>5 DEF StraightHigh
  <2>2. ASSUME NEW r \in 2..10, R = r..(r + 4)
        PROVE  FALSE
    <3>1. Cardinality(r..(r + 4)) = 5
      BY FS_Interval
    <3>2. Max(R) = r + 4 /\ Min(R) = r
      <4>1. r \in R /\ r + 4 \in R
        BY <2>2
      <4>2. Max(R) \in r..(r + 4) /\ Min(R) \in r..(r + 4) /\ Min(R) <= r /\ r + 4 <= Max(R)
        BY <1>2, <2>2, <4>1
      <4> QED
        BY <4>2
    <3> QED
      BY <1>5, <2>2, <3>1, <3>2
  <2>3. ~ IsStraight(h)
    BY <1>5, <2>2 DEF IsStraight
  <2> QED
    BY <1>5, <2>1, <2>3
<1> QED
  BY <1>3, <1>4, <1>5

\* The ranks of a straight are listed from its top.
LEMMA StraightList ==
    ASSUME NEW h \in Five, StraightHigh(h) > 5
    PROVE  Ranked(h) = Run(StraightHigh(h))
<1> DEFINE top == StraightHigh(h)
           v == Ranked(h)
<1>1. top \in 6..14 /\ Length(h) = 5 /\ RanksIn(h) = (top - 4)..top
  BY StraightIs
<1>2. Counts(h) = <<1, 1, 1, 1, 1>>
  BY <1>1, Shapes
<1>3. /\ v \in [1..5 -> (top - 4)..top]
      /\ \A i, j \in 1..5 : i < j => v[i] > v[j]
  <2>1. v \in [1..5 -> (top - 4)..top]
    BY <1>1, RankedIs
  <2>2. ASSUME NEW i \in 1..5, NEW j \in 1..5, i < j
        PROVE  v[i] > v[j]
    <3>1. Counts(h)[i] = 1 /\ Counts(h)[j] = 1
      BY <1>2
    <3>2. Counts(h)[i] > Counts(h)[j] \/ v[i] > v[j]
      BY <1>1, <2>2, InTurn
    <3> QED
      BY <3>1, <3>2
  <2> QED
    BY <2>1, <2>2
<1> HIDE DEF top, v
<1>4. /\ v[1] \in (top - 4)..top /\ v[5] \in (top - 4)..top
      /\ v[2] \in (top - 4)..top /\ v[3] \in (top - 4)..top /\ v[4] \in (top - 4)..top
      /\ v[1] > v[2] /\ v[2] > v[3] /\ v[3] > v[4] /\ v[4] > v[5]
  BY <1>3
<1>5. v[1] = top /\ v[2] = top - 1 /\ v[3] = top - 2 /\ v[4] = top - 3 /\ v[5] = top - 4
  BY <1>1, <1>4
<1>6. v = <<v[1], v[2], v[3], v[4], v[5]>>
  <2>1. v = [i \in 1..5 |-> v[i]]
    BY <1>3
  <2> QED
    BY <2>1
<1> QED
  BY <1>1, <1>5, <1>6 DEF Run, top, v

(***************************************************************************)
(* Nine kinds of hands: the patterns by which the rule book orders them,   *)
(* the ranks that decide between two of a kind, and the browser's number   *)
(* for these.                                                              *)
(***************************************************************************)
Pattern(k) ==
    IF k = 8 THEN <<5>> ELSE IF k = 7 THEN <<4, 1>> ELSE IF k = 6 THEN <<3, 2>>
    ELSE IF k = 5 THEN <<3, 1, 3>> ELSE IF k = 4 THEN <<3, 1, 2>> ELSE IF k = 3 THEN <<3, 1, 1>>
    ELSE IF k = 2 THEN <<2, 2, 1>> ELSE IF k = 1 THEN <<2, 1, 1, 1>> ELSE <<1, 1, 1, 1, 1>>

\* How many ranks a hand of a kind has, and the lists these may be.
Wide(k) == IF k \in {6, 7} THEN 2 ELSE IF k \in {2, 3} THEN 3 ELSE IF k = 1 THEN 4 ELSE 5

Lines(k) == IF k \in {4, 8} THEN {Run(t) : t \in 5..14} ELSE [1..Wide(k) -> 2..14]

Number(k, v) ==
    IF k \in {4, 8} THEN v[1]
    ELSE IF k \in {6, 7} THEN v[1] * 100 + v[2]
    ELSE IF k \in {2, 3} THEN v[1] * 10000 + v[2] * 100 + v[3]
    ELSE IF k = 1 THEN v[1] * 1000000 + v[2] * 10000 + v[3] * 100 + v[4]
    ELSE Fifteens(v)

\* What the browser says of a hand of a kind, and what the rule book says.
SaidOf(k, v) == [rank |-> IF k = 8 /\ v[1] = 14 THEN 9 ELSE k, score |-> Number(k, v)]
BookOf(k, v) == Pattern(k) \o v

\* The cases of evaluate5.
LEMMA Cases ==
    ASSUME NEW h \in Five, NEW c, c = Counts(h), NEW v, v = Ranked(h), NEW top, top = StraightHigh(h)
    PROVE  /\ IsFlush(h) /\ top \in 5..14 => Evaluate5(h) = [rank |-> IF top = 14 THEN 9 ELSE 8, score |-> top]
           /\ IsFlush(h) /\ top = 0 => Evaluate5(h) = [rank |-> 5, score |-> Fifteens(v)]
           /\ ~ IsFlush(h) /\ top \in 5..14 => Evaluate5(h) = [rank |-> 4, score |-> top]
           /\ ~ IsFlush(h) /\ top = 0 =>
                /\ c = <<4, 1>> => Evaluate5(h) = [rank |-> 7, score |-> v[1] * 100 + v[2]]
                /\ c = <<3, 2>> => Evaluate5(h) = [rank |-> 6, score |-> v[1] * 100 + v[2]]
                /\ c = <<3, 1, 1>> =>
                     Evaluate5(h) = [rank |-> 3, score |-> v[1] * 10000 + v[2] * 100 + v[3]]
                /\ c = <<2, 2, 1>> =>
                     Evaluate5(h) = [rank |-> 2, score |-> v[1] * 10000 + v[2] * 100 + v[3]]
                /\ c = <<2, 1, 1, 1>> =>
                     Evaluate5(h) =
                       [rank |-> 1, score |-> v[1] * 1000000 + v[2] * 10000 + v[3] * 100 + v[4]]
                /\ c = <<1, 1, 1, 1, 1>> => Evaluate5(h) = [rank |-> 0, score |-> Fifteens(v)]
<1> DEFINE fifteens == Fifteens(v)
           suited == IsFlush(h)
           e == CASE suited /\ top = 14 -> [rank |-> 9, score |-> 14]
                  [] suited /\ top \in 1..13 -> [rank |-> 8, score |-> top]
                  [] c[1] = 4 -> [rank |-> 7, score |-> v[1] * 100 + v[2]]
                  [] c[1] = 3 /\ c[2] = 2 -> [rank |-> 6, score |-> v[1] * 100 + v[2]]
                  [] suited /\ top = 0 -> [rank |-> 5, score |-> fifteens]
                  [] ~suited /\ top > 0 -> [rank |-> 4, score |-> top]
                  [] c[1] = 3 /\ c[2] = 1 ->
                       [rank |-> 3, score |-> v[1] * 10000 + v[2] * 100 + v[3]]
                  [] c[1] = 2 /\ c[2] = 2 ->
                       [rank |-> 2, score |-> v[1] * 10000 + v[2] * 100 + v[3]]
                  [] c[1] = 2 /\ c[2] = 1 ->
                       [rank |-> 1, score |-> v[1] * 1000000 + v[2] * 10000 + v[3] * 100 + v[4]]
                  [] c[1] = 1 /\ ~suited /\ top = 0 -> [rank |-> 0, score |-> fifteens]
<1>1. Evaluate5(h) = e
  BY DEF Evaluate5
<1>2. (IsFlush(h) \/ top # 0) => c = <<1, 1, 1, 1, 1>>
  BY FlushIs, StraightIs, Shapes
<1> HIDE DEF fifteens
<1>3. CASE suited /\ top = 14
  <2>1. e = [rank |-> 9, score |-> 14]
    BY <1>2, <1>3
  <2> QED
    BY <1>1, <1>3, <2>1
<1>4. CASE suited /\ top \in 5..13
  <2>1. e = [rank |-> 8, score |-> top]
    BY <1>2, <1>4
  <2> QED
    BY <1>1, <1>4, <2>1
<1>5. CASE suited /\ top = 0
  <2>1. e = [rank |-> 5, score |-> fifteens]
    BY <1>2, <1>5
  <2> QED
    BY <1>1, <1>5, <2>1 DEF fifteens
<1>6. CASE ~suited /\ top \in 5..14
  <2>1. e = [rank |-> 4, score |-> top]
    BY <1>2, <1>6
  <2> QED
    BY <1>1, <1>6, <2>1
<1>7. CASE ~suited /\ top = 0
  <2>1. c = <<4, 1>> => e = [rank |-> 7, score |-> v[1] * 100 + v[2]]
    BY <1>7
  <2>2. c = <<3, 2>> => e = [rank |-> 6, score |-> v[1] * 100 + v[2]]
    BY <1>7
  <2>3. c = <<3, 1, 1>> => e = [rank |-> 3, score |-> v[1] * 10000 + v[2] * 100 + v[3]]
    BY <1>7
  <2>4. c = <<2, 2, 1>> => e = [rank |-> 2, score |-> v[1] * 10000 + v[2] * 100 + v[3]]
    BY <1>7
  <2>5. c = <<2, 1, 1, 1>> =>
          e = [rank |-> 1, score |-> v[1] * 1000000 + v[2] * 10000 + v[3] * 100 + v[4]]
    BY <1>7
  <2>6. c = <<1, 1, 1, 1, 1>> => e = [rank |-> 0, score |-> fifteens]
    BY <1>7
  <2> HIDE DEF e
  <2> QED
    BY <1>1, <1>7, <2>1, <2>2, <2>3, <2>4, <2>5, <2>6 DEF fifteens
<1>8. suited => top \in 5..13 \/ top = 14 \/ top = 0
  BY StraightIs
<1> HIDE DEF e
<1> QED
  BY <1>3, <1>4, <1>5, <1>6, <1>7, <1>8

\* Every hand is of a kind, for the browser as by the book.
LEMMA HandIs ==
    ASSUME NEW h \in Five
    PROVE  \E k \in 0..8 : \E v \in Lines(k) : Evaluate5(h) = SaidOf(k, v) /\ Strength(h) = BookOf(k, v)
<1> DEFINE c == Counts(h)
           v == Ranked(h)
           top == StraightHigh(h)
<1>1. top \in {0} \cup 5..14 /\ (IsStraight(h) <=> top # 0) /\ (top = 5 <=> RanksIn(h) = Wheel)
  BY StraightIs
<1>2. top > 5 => v = Run(top)
  BY StraightList
<1>3. v \in [1..Length(h) -> 2..14]
  <2>1. v \in [1..Length(h) -> RanksIn(h)] /\ RanksIn(h) \subseteq 2..14
    BY RankedIs, CardsOf
  <2> QED
    BY <2>1
<1>4. top # 0 \/ IsFlush(h) => Length(h) = 5
  BY StraightIs, FlushIs
<1>5. ASSUME top # 0
      PROVE  \E k \in 0..8 : \E u \in Lines(k) :
                 Evaluate5(h) = SaidOf(k, u) /\ Strength(h) = BookOf(k, u)
  <2>1. top \in 5..14
    BY <1>1, <1>5
  <2>2. (IF RanksIn(h) = Wheel THEN <<5>> ELSE Ranked(h)) = Run(top)
    <3>1. CASE top = 5
      BY <1>1, <3>1 DEF Run
    <3>2. CASE top > 5
      BY <1>1, <1>2, <3>2
    <3> QED
      BY <2>1, <3>1, <3>2
  <2>3. Run(top)[1] = top
    BY DEF Run
  <2> HIDE DEF c, v, top
  <2>4. CASE IsFlush(h)
    <3>1. Run(top) \in Lines(8)
      BY <2>1 DEF Lines
    <3>2. Strength(h) = BookOf(8, Run(top))
      <4>1. Strength(h) = <<5>> \o (IF RanksIn(h) = Wheel THEN <<5>> ELSE Ranked(h))
        BY <1>1, <1>5, <2>4 DEF Strength
      <4>2. Pattern(8) = <<5>>
        BY DEF Pattern
      <4> QED
        BY <2>2, <4>1, <4>2 DEF BookOf
    <3>3. Evaluate5(h) = SaidOf(8, Run(top))
      <4>1. Evaluate5(h) = [rank |-> IF top = 14 THEN 9 ELSE 8, score |-> top]
        BY <2>1, <2>4, Cases DEF top
      <4>2. Number(8, Run(top)) = top
        BY <2>3 DEF Number
      <4> QED
        BY <2>3, <4>1, <4>2 DEF SaidOf
    <3> QED
      BY <3>1, <3>2, <3>3
  <2>5. CASE ~ IsFlush(h)
    <3>1. Run(top) \in Lines(4)
      BY <2>1 DEF Lines
    <3>2. Strength(h) = BookOf(4, Run(top))
      <4>1. Strength(h) = <<3, 1, 2>> \o (IF RanksIn(h) = Wheel THEN <<5>> ELSE Ranked(h))
        BY <1>1, <1>5, <2>5 DEF Strength
      <4>2. Pattern(4) = <<3, 1, 2>>
        BY DEF Pattern
      <4> QED
        BY <2>2, <4>1, <4>2 DEF BookOf
    <3>3. Evaluate5(h) = SaidOf(4, Run(top))
      <4>1. Evaluate5(h) = [rank |-> 4, score |-> top]
        BY <2>1, <2>5, Cases DEF top
      <4>2. Number(4, Run(top)) = top
        BY <2>3 DEF Number
      <4> QED
        BY <2>3, <4>1, <4>2 DEF SaidOf
    <3> QED
      BY <3>1, <3>2, <3>3
  <2> QED
    BY <2>4, <2>5
<1>6. ASSUME top = 0
      PROVE  \E k \in 0..8 : \E u \in Lines(k) :
                 Evaluate5(h) = SaidOf(k, u) /\ Strength(h) = BookOf(k, u)
  <2>1. RanksIn(h) # Wheel /\ ~ IsStraight(h)
    BY <1>1, <1>6
  <2>2. Strength(h) = (IF IsFlush(h) THEN <<3, 1, 3>> ELSE c) \o v
    BY <2>1 DEF Strength
  <2> DEFINE Is(k) == v \in Lines(k) /\ Evaluate5(h) = SaidOf(k, v) /\ Strength(h) = BookOf(k, v)
  <2>3. CASE IsFlush(h)
    <3>1. Evaluate5(h) = [rank |-> 5, score |-> Fifteens(v)]
      BY <1>6, <2>3, Cases
    <3>2. v \in Lines(5)
      BY <1>3, <1>4, <2>3 DEF Lines, Wide
    <3>3. Is(5)
      BY <2>2, <2>3, <3>1, <3>2 DEF SaidOf, BookOf, Number, Pattern
    <3> QED
      BY <3>3
  <2>4. CASE ~ IsFlush(h)
    <3>0. Strength(h) = c \o v
      BY <2>2, <2>4
    <3>1. CASE Length(h) = 2 /\ c = <<4, 1>>
      <4>1. Evaluate5(h) = [rank |-> 7, score |-> v[1] * 100 + v[2]]
        BY <1>6, <2>4, <3>1, Cases
      <4>2. v \in Lines(7)
        BY <1>3, <3>1 DEF Lines, Wide
      <4>3. Is(7)
        BY <3>0, <3>1, <4>1, <4>2 DEF SaidOf, BookOf, Number, Pattern
      <4> QED
        BY <4>3
    <3>2. CASE Length(h) = 2 /\ c = <<3, 2>>
      <4>1. Evaluate5(h) = [rank |-> 6, score |-> v[1] * 100 + v[2]]
        BY <1>6, <2>4, <3>2, Cases
      <4>2. v \in Lines(6)
        BY <1>3, <3>2 DEF Lines, Wide
      <4>3. Is(6)
        BY <3>0, <3>2, <4>1, <4>2 DEF SaidOf, BookOf, Number, Pattern
      <4> QED
        BY <4>3
    <3>3. CASE Length(h) = 3 /\ c = <<3, 1, 1>>
      <4>1. Evaluate5(h) = [rank |-> 3, score |-> v[1] * 10000 + v[2] * 100 + v[3]]
        BY <1>6, <2>4, <3>3, Cases
      <4>2. v \in Lines(3)
        BY <1>3, <3>3 DEF Lines, Wide
      <4>3. Is(3)
        BY <3>0, <3>3, <4>1, <4>2 DEF SaidOf, BookOf, Number, Pattern
      <4> QED
        BY <4>3
    <3>4. CASE Length(h) = 3 /\ c = <<2, 2, 1>>
      <4>1. Evaluate5(h) = [rank |-> 2, score |-> v[1] * 10000 + v[2] * 100 + v[3]]
        BY <1>6, <2>4, <3>4, Cases
      <4>2. v \in Lines(2)
        BY <1>3, <3>4 DEF Lines, Wide
      <4>3. Is(2)
        BY <3>0, <3>4, <4>1, <4>2 DEF SaidOf, BookOf, Number, Pattern
      <4> QED
        BY <4>3
    <3>5. CASE Length(h) = 4 /\ c = <<2, 1, 1, 1>>
      <4>1. Evaluate5(h) = [rank |-> 1, score |-> v[1] * 1000000 + v[2] * 10000 + v[3] * 100 + v[4]]
        BY <1>6, <2>4, <3>5, Cases
      <4>2. v \in Lines(1)
        BY <1>3, <3>5 DEF Lines, Wide
      <4>3. Is(1)
        BY <3>0, <3>5, <4>1, <4>2 DEF SaidOf, BookOf, Number, Pattern
      <4> QED
        BY <4>3
    <3>6. CASE Length(h) = 5 /\ c = <<1, 1, 1, 1, 1>>
      <4>1. Evaluate5(h) = [rank |-> 0, score |-> Fifteens(v)]
        BY <1>6, <2>4, <3>6, Cases
      <4>2. v \in Lines(0)
        BY <1>3, <3>6 DEF Lines, Wide
      <4>3. Is(0)
        BY <3>0, <3>6, <4>1, <4>2 DEF SaidOf, BookOf, Number, Pattern
      <4> QED
        BY <4>3
    <3> QED
      BY <3>1, <3>2, <3>3, <3>4, <3>5, <3>6, Shapes
  <2> QED
    BY <2>3, <2>4
<1> QED
  BY <1>5, <1>6

(***************************************************************************)
(* The first place where two hands differ decides between them.            *)
(***************************************************************************)
Wins(x, y) ==
    /\ Outranks(Evaluate5(x), Evaluate5(y)) /\ ~ Outranks(Evaluate5(y), Evaluate5(x))
    /\ Below(Strength(y), Strength(x)) /\ ~ Below(Strength(x), Strength(y))
    /\ Evaluate5(x) # Evaluate5(y) /\ Strength(x) # Strength(y)

Ties(x, y) == Evaluate5(x) = Evaluate5(y) /\ Strength(x) = Strength(y)

\* Two lists are the same before a place.
Agree(p, q, i) == \A j \in 1..(i - 1) : p[j] = q[j]

\* Lists of m and of n ranks differ first at a place, where the one is lower.
LowerAt(p, m, q, n, i) ==
    /\ m \in Nat /\ n \in Nat /\ i \in Nat /\ 1 <= i /\ i <= m /\ i <= n
    /\ p \in [1..m -> Int] /\ q \in [1..n -> Int]
    /\ p[i] < q[i] /\ Agree(p, q, i)

\* The first place where two lists differ orders them, one way only.
LEMMA FirstPlace ==
    ASSUME NEW m, NEW n, NEW p, NEW q, NEW i, LowerAt(p, m, q, n, i)
    PROVE  Below(p, q) /\ ~ Below(q, p) /\ p # q
<1>0. /\ m \in Nat /\ n \in Nat /\ i \in Nat /\ 1 <= i /\ i <= m /\ i <= n
      /\ p \in [1..m -> Int] /\ q \in [1..n -> Int]
      /\ p[i] < q[i] /\ Agree(p, q, i)
  BY DEF LowerAt
<1>1. DOMAIN p = 1..m /\ DOMAIN q = 1..n /\ i \in DOMAIN p \cap DOMAIN q
  BY <1>0
<1>2. p[i] \in Int /\ q[i] \in Int
  BY <1>0, <1>1
<1>3. Below(p, q)
  BY <1>0, <1>1 DEF Below, Agree
<1>4. p # q
  BY <1>0, <1>2
<1>5. ASSUME NEW k \in DOMAIN q \cap DOMAIN p, q[k] < p[k], \A j \in 1..(k - 1) : q[j] = p[j]
      PROVE  FALSE
  <2>1. k \in Nat /\ k \in 1..m /\ p[k] \in Int /\ q[k] \in Int
    BY <1>0, <1>1
  <2>2. CASE k < i
    <3>1. k \in 1..(i - 1)
      BY <1>0, <2>1, <2>2
    <3> QED
      BY <1>0, <1>5, <2>1, <3>1 DEF Agree
  <2>3. CASE i < k
    <3>1. i \in 1..(k - 1)
      BY <1>0, <2>1, <2>3
    <3> QED
      BY <1>0, <1>2, <1>5, <3>1 DEF Agree
  <2>4. CASE i = k
    BY <1>0, <1>2, <1>5, <2>4
  <2> QED
    BY <1>0, <2>1, <2>2, <2>3, <2>4
<1> QED
  BY <1>3, <1>4, <1>5 DEF Below

\* The length of a kind's pattern.
Long(k) ==
    IF k = 8 THEN 1 ELSE IF k \in {6, 7} THEN 2 ELSE IF k \in 2..5 THEN 3 ELSE IF k = 1 THEN 4 ELSE 5

\* A list behind another, place by place.
LEMMA Appended ==
    ASSUME NEW a \in Nat, NEW b \in Nat, NEW p \in [1..a -> Int], NEW v \in [1..b -> Int]
    PROVE  /\ p \o v \in [1..(a + b) -> Int]
           /\ \A j \in 1..a : (p \o v)[j] = p[j]
           /\ \A j \in 1..b : (p \o v)[a + j] = v[j]
<1>1. p \in Seq(Int) /\ v \in Seq(Int) /\ Len(p) = a /\ Len(v) = b
  OBVIOUS
<1> DEFINE w == p \o v
<1>2. /\ w \in Seq(Int) /\ Len(w) = a + b
      /\ \A i \in 1..(a + b) : w[i] = IF i <= a THEN p[i] ELSE v[i - a]
  <2>1. /\ w \in Seq(Int) /\ Len(w) = Len(p) + Len(v)
        /\ \A i \in 1..(Len(p) + Len(v)) : w[i] = IF i <= Len(p) THEN p[i] ELSE v[i - Len(p)]
    BY <1>1, ConcatProperties
  <2> QED
    BY <1>1, <2>1
<1> HIDE DEF w
<1>3. w \in [1..(a + b) -> Int]
  <2>1. w \in [1..Len(w) -> Int]
    BY <1>2
  <2> QED
    BY <1>2, <2>1
<1>4. ASSUME NEW j \in 1..a
      PROVE  w[j] = p[j]
  <2>1. j \in 1..(a + b) /\ j <= a
    OBVIOUS
  <2> QED
    BY <1>2, <2>1
<1>5. ASSUME NEW j \in 1..b
      PROVE  w[a + j] = v[j]
  <2>1. a + j \in 1..(a + b) /\ ~ (a + j <= a) /\ a + j - a = j
    OBVIOUS
  <2> QED
    BY <1>2, <2>1
<1> QED
  BY <1>3, <1>4, <1>5 DEF w

\* The patterns of the nine kinds, place by place.
LEMMA PatternIs ==
    ASSUME NEW k \in 0..8
    PROVE  /\ Pattern(k) \in [1..Long(k) -> Int] /\ Long(k) \in 1..5
           /\ Pattern(k)[1] = IF k = 8 THEN 5 ELSE IF k = 7 THEN 4 ELSE IF k \in 3..6 THEN 3
                              ELSE IF k \in {1, 2} THEN 2 ELSE 1
           /\ k < 8 => Pattern(k)[2] = (IF k \in {2, 6} THEN 2 ELSE 1)
           /\ k \in 3..5 => Pattern(k)[3] = k - 2
<1>1. CASE k \in {0, 1, 2}
  BY <1>1 DEF Pattern, Long
<1>2. CASE k \in {3, 4, 5}
  BY <1>2 DEF Pattern, Long
<1>3. CASE k \in {6, 7, 8}
  BY <1>3 DEF Pattern, Long
<1> QED
  BY <1>1, <1>2, <1>3

\* The patterns order the kinds as the browser numbers them.
LEMMA PatternOrder ==
    ASSUME NEW k \in 0..8, NEW m \in 0..8, m < k
    PROVE  \E i \in 1..3 : /\ i <= Long(k) /\ i <= Long(m)
                           /\ Pattern(m)[i] < Pattern(k)[i]
                           /\ \A j \in 1..(i - 1) : Pattern(m)[j] = Pattern(k)[j]
<1> DEFINE First(x) == IF x = 8 THEN 5 ELSE IF x = 7 THEN 4 ELSE IF x \in 3..6 THEN 3
                       ELSE IF x \in {1, 2} THEN 2 ELSE 1
<1>1. /\ Pattern(k)[1] = First(k) /\ Long(k) \in 1..5
      /\ k < 8 => Pattern(k)[2] = (IF k \in {2, 6} THEN 2 ELSE 1)
      /\ k \in 3..5 => Pattern(k)[3] = k - 2
  BY PatternIs
<1>2. /\ Pattern(m)[1] = First(m) /\ Long(m) \in 1..5
      /\ m < 8 => Pattern(m)[2] = (IF m \in {2, 6} THEN 2 ELSE 1)
      /\ m \in 3..5 => Pattern(m)[3] = m - 2
  BY PatternIs
<1>3. First(m) < First(k) \/ (k = 2 /\ m = 1) \/ (k = 6 /\ m \in 3..5) \/ (k \in 3..5 /\ m \in 3..5)
  OBVIOUS
<1>4. CASE First(m) < First(k)
  <2>1. Pattern(m)[1] < Pattern(k)[1] /\ 1 <= Long(k) /\ 1 <= Long(m)
    BY <1>1, <1>2, <1>4
  <2>2. \A j \in 1..(1 - 1) : Pattern(m)[j] = Pattern(k)[j]
    OBVIOUS
  <2> QED
    BY <2>1, <2>2
<1>5. CASE (k = 2 /\ m = 1) \/ (k = 6 /\ m \in 3..5)
  <2>1. Pattern(m)[1] = Pattern(k)[1] /\ Pattern(m)[2] < Pattern(k)[2]
    BY <1>1, <1>2, <1>5
  <2>2. 2 <= Long(k) /\ 2 <= Long(m)
    BY <1>5 DEF Long
  <2>3. \A j \in 1..(2 - 1) : Pattern(m)[j] = Pattern(k)[j]
    BY <2>1
  <2> QED
    BY <2>1, <2>2, <2>3
<1>6. CASE k \in 3..5 /\ m \in 3..5
  <2>1. /\ Pattern(m)[1] = Pattern(k)[1] /\ Pattern(m)[2] = Pattern(k)[2]
        /\ Pattern(m)[3] < Pattern(k)[3]
    BY <1>1, <1>2, <1>6
  <2>2. 3 <= Long(k) /\ 3 <= Long(m)
    BY <1>6 DEF Long
  <2>3. \A j \in 1..(3 - 1) : Pattern(m)[j] = Pattern(k)[j]
    BY <2>1
  <2> QED
    BY <2>1, <2>2, <2>3
<1> QED
  BY <1>3, <1>4, <1>5, <1>6

\* The ranks that decide between two hands of a kind.
LEMMA LineType ==
    ASSUME NEW k \in 0..8, NEW v \in Lines(k)
    PROVE  /\ k \notin {4, 8} => v \in [1..Wide(k) -> Int] /\ v \in [1..Wide(k) -> 2..14]
           /\ k \in {4, 8} => \E t \in 5..14 : v = Run(t) /\ v[1] = t
           /\ \E n \in 1..5 : v \in [1..n -> Int]
           /\ Wide(k) \in 1..5 /\ v[1] \in 2..14
<1>1. CASE k \in {4, 8}
  <2>1. PICK t \in 5..14 : v = Run(t)
    BY <1>1 DEF Lines
  <2>2. v[1] = t
    BY <2>1 DEF Run
  <2>3. t = 5 => v \in [1..1 -> Int]
    BY <2>1 DEF Run
  <2>4. t # 5 => v \in [1..5 -> Int]
    BY <2>1 DEF Run
  <2> QED
    BY <1>1, <2>1, <2>2, <2>3, <2>4 DEF Wide
<1>2. CASE k \notin {4, 8}
  <2>1. v \in [1..Wide(k) -> 2..14] /\ Wide(k) \in 1..5
    BY <1>2 DEF Lines, Wide
  <2>2. v \in [1..Wide(k) -> Int]
    BY <2>1
  <2>3. v[1] \in 2..14
    BY <2>1
  <2> QED
    BY <1>2, <2>1, <2>2, <2>3
<1> QED
  BY <1>1, <1>2

\* The browser's numbers, by their digits.
Two(a, b) == a * 100 + b
Three(a, b, c) == a * 10000 + b * 100 + c
Four(a, b, c, d) == a * 1000000 + b * 10000 + c * 100 + d
AllFive(a, b, c, d, e) == a * 50625 + b * 3375 + c * 225 + d * 15 + e
Most == 20000000

\* Two numbers are ordered by the first of their digits that differ.
LEMMA TwoDigits ==
    ASSUME NEW a1 \in 2..14, NEW a2 \in 2..14, NEW b1 \in 2..14, NEW b2 \in 2..14
    PROVE  /\ Two(a1, a2) \in Nat /\ Two(a1, a2) <= Most
           /\ a1 < b1 \/ (a1 = b1 /\ a2 < b2) => Two(a1, a2) < Two(b1, b2)
BY SMT DEF Two, Most

\* Three ranks.
LEMMA ThreeDigits ==
    ASSUME NEW a1 \in 2..14, NEW a2 \in 2..14, NEW a3 \in 2..14,
           NEW b1 \in 2..14, NEW b2 \in 2..14, NEW b3 \in 2..14
    PROVE  /\ Three(a1, a2, a3) \in Nat /\ Three(a1, a2, a3) <= Most
           /\ a1 < b1 \/ (a1 = b1 /\ (a2 < b2 \/ (a2 = b2 /\ a3 < b3))) =>
                Three(a1, a2, a3) < Three(b1, b2, b3)
BY SMT DEF Three, Most

\* Four ranks.
LEMMA FourDigits ==
    ASSUME NEW a1 \in 2..14, NEW a2 \in 2..14, NEW a3 \in 2..14, NEW a4 \in 2..14,
           NEW b1 \in 2..14, NEW b2 \in 2..14, NEW b3 \in 2..14, NEW b4 \in 2..14
    PROVE  (\/ a1 < b1
            \/ a1 = b1 /\ (a2 < b2 \/ (a2 = b2 /\ (a3 < b3 \/ (a3 = b3 /\ a4 < b4)))))
              => Four(a1, a2, a3, a4) < Four(b1, b2, b3, b4)
BY SMT DEF Four, Most

\* The number four ranks make.
LEMMA FourType ==
    ASSUME NEW a1 \in 2..14, NEW a2 \in 2..14, NEW a3 \in 2..14, NEW a4 \in 2..14
    PROVE  Four(a1, a2, a3, a4) \in Nat /\ Four(a1, a2, a3, a4) <= Most
BY SMT DEF Four, Most

\* The number five ranks make.
LEMMA FiveType ==
    ASSUME NEW a1 \in 2..14, NEW a2 \in 2..14, NEW a3 \in 2..14, NEW a4 \in 2..14, NEW a5 \in 2..14
    PROVE  AllFive(a1, a2, a3, a4, a5) \in Nat /\ AllFive(a1, a2, a3, a4, a5) <= Most
BY SMT DEF AllFive, Most

\* Of five ranks, the first that differs is less.
Sooner(a1, a2, a3, a4, a5, b1, b2, b3, b4, b5) ==
    \/ a1 < b1
    \/ a1 = b1 /\ (a2 < b2 \/ (a2 = b2 /\ (a3 < b3 \/ (a3 = b3 /\
         (a4 < b4 \/ (a4 = b4 /\ a5 < b5))))))

\* The number of a hand is made of its first ranks.
LEMMA NumberIs ==
    ASSUME NEW k \in 0..8, NEW v
    PROVE  /\ k \in {4, 8} => Number(k, v) = v[1]
           /\ k \in {6, 7} => Number(k, v) = Two(v[1], v[2])
           /\ k \in {2, 3} => Number(k, v) = Three(v[1], v[2], v[3])
           /\ k = 1 => Number(k, v) = Four(v[1], v[2], v[3], v[4])
           /\ k \in {0, 5} => Number(k, v) = AllFive(v[1], v[2], v[3], v[4], v[5])
<1>1. k \in {0, 5} => Number(k, v) = Fifteens(v)
  BY SMT DEF Number
<1>2. Fifteens(v) = AllFive(v[1], v[2], v[3], v[4], v[5])
  BY SMT DEF Fifteens, AllFive
<1>3. k = 1 => Number(k, v) = Four(v[1], v[2], v[3], v[4])
  BY SMT DEF Number, Four
<1>4. k \in {2, 3} => Number(k, v) = Three(v[1], v[2], v[3])
  BY SMT DEF Number, Three
<1>5. k \in {6, 7} => Number(k, v) = Two(v[1], v[2])
  BY SMT DEF Number, Two
<1>6. k \in {4, 8} => Number(k, v) = v[1]
  BY SMT DEF Number
<1> QED
  BY <1>1, <1>2, <1>3, <1>4, <1>5, <1>6

\* The browser's number orders the hands of a kind by the first rank that differs.
LEMMA NumberOrder ==
    ASSUME NEW k \in 0..8, NEW v \in Lines(k), NEW u \in Lines(k), k \notin {4, 8},
           NEW i \in 1..Wide(k), u[i] < v[i], \A j \in 1..(i - 1) : u[j] = v[j]
    PROVE  Number(k, u) < Number(k, v)
<1>1. Wide(k) \in 1..5 /\ u \in [1..Wide(k) -> 2..14] /\ v \in [1..Wide(k) -> 2..14]
  BY LineType
<1>2. \A j \in 1..Wide(k) : u[j] \in 2..14 /\ v[j] \in 2..14
  BY <1>1
<1>3. \A j \in 1..5 : j < i => u[j] = v[j]
  <2>1. ASSUME NEW j \in 1..5, j < i
        PROVE  u[j] = v[j]
    <3>1. j \in 1..(i - 1)
      BY <1>1, <2>1
    <3> QED
      BY <3>1
  <2> QED
    BY <2>1
<1>4. CASE k \in {6, 7}
  <2>1. /\ u[1] \in 2..14 /\ v[1] \in 2..14 /\ u[2] \in 2..14 /\ v[2] \in 2..14
    BY <1>2, <1>4 DEF Wide
  <2>2. i \in {1, 2}
    BY <1>4 DEF Wide
  <2>3. u[1] < v[1] \/ (u[1] = v[1] /\ u[2] < v[2])
    <3>1. CASE i = 1
      BY <3>1
    <3>2. CASE i = 2
      BY <1>3, <3>2
    <3> QED
      BY <2>2, <3>1, <3>2
  <2>4. Two(u[1], u[2]) < Two(v[1], v[2])
    BY <2>1, <2>3, TwoDigits
  <2> QED
    BY <1>4, <2>4, NumberIs
<1>5. CASE k \in {2, 3}
  <2>1. /\ u[1] \in 2..14 /\ v[1] \in 2..14 /\ u[2] \in 2..14 /\ v[2] \in 2..14
        /\ u[3] \in 2..14 /\ v[3] \in 2..14
    BY <1>2, <1>5 DEF Wide
  <2>2. i \in {1, 2, 3}
    BY <1>5 DEF Wide
  <2>3. u[1] < v[1] \/ (u[1] = v[1] /\ (u[2] < v[2] \/ (u[2] = v[2] /\ u[3] < v[3])))
    <3>1. CASE i = 1
      BY <3>1
    <3>2. CASE i = 2
      BY <1>3, <3>2
    <3>3. CASE i = 3
      BY <1>3, <3>3
    <3> QED
      BY <2>2, <3>1, <3>2, <3>3
  <2>4. Three(u[1], u[2], u[3]) < Three(v[1], v[2], v[3])
    BY <2>1, <2>3, ThreeDigits
  <2> QED
    BY <1>5, <2>4, NumberIs
<1>6. CASE k = 1
  <2>1. /\ u[1] \in 2..14 /\ v[1] \in 2..14 /\ u[2] \in 2..14 /\ v[2] \in 2..14
        /\ u[3] \in 2..14 /\ v[3] \in 2..14 /\ u[4] \in 2..14 /\ v[4] \in 2..14
    BY <1>2, <1>6 DEF Wide
  <2>2. i \in {1, 2, 3, 4}
    BY <1>6 DEF Wide
  <2>3. \/ u[1] < v[1]
        \/ u[1] = v[1] /\ (u[2] < v[2] \/ (u[2] = v[2] /\
              (u[3] < v[3] \/ (u[3] = v[3] /\ u[4] < v[4]))))
    <3>1. CASE i = 1
      BY <3>1
    <3>2. CASE i = 2
      BY <1>3, <3>2
    <3>3. CASE i = 3
      BY <1>3, <3>3
    <3>4. CASE i = 4
      BY <1>3, <3>4
    <3> QED
      BY <2>2, <3>1, <3>2, <3>3, <3>4
  <2>4. Four(u[1], u[2], u[3], u[4]) < Four(v[1], v[2], v[3], v[4])
    BY <2>1, <2>3, FourDigits
  <2> QED
    BY <1>6, <2>4, NumberIs
<1>7. CASE k \in {0, 5}
  <2>1. /\ u[1] \in 2..14 /\ v[1] \in 2..14 /\ u[2] \in 2..14 /\ v[2] \in 2..14
        /\ u[3] \in 2..14 /\ v[3] \in 2..14 /\ u[4] \in 2..14 /\ v[4] \in 2..14
        /\ u[5] \in 2..14 /\ v[5] \in 2..14
    BY <1>2, <1>7 DEF Wide
  <2>2. i \in {1, 2, 3, 4, 5}
    BY <1>7 DEF Wide
  <2>3. Sooner(u[1], u[2], u[3], u[4], u[5], v[1], v[2], v[3], v[4], v[5])
    <3>1. CASE i = 1
      BY <3>1 DEF Sooner
    <3>2. CASE i = 2
      BY <1>3, <3>2 DEF Sooner
    <3>3. CASE i = 3
      BY <1>3, <3>3 DEF Sooner
    <3>4. CASE i = 4
      BY <1>3, <3>4 DEF Sooner
    <3>5. CASE i = 5
      BY <1>3, <3>5 DEF Sooner
    <3> QED
      BY <2>2, <3>1, <3>2, <3>3, <3>4, <3>5
  <2>4. AllFive(u[1], u[2], u[3], u[4], u[5]) < AllFive(v[1], v[2], v[3], v[4], v[5])
    <3>1. PICK a1 \in 2..14, a2 \in 2..14, a3 \in 2..14, a4 \in 2..14, a5 \in 2..14 :
              a1 = u[1] /\ a2 = u[2] /\ a3 = u[3] /\ a4 = u[4] /\ a5 = u[5]
      BY <2>1
    <3>2. PICK b1 \in 2..14, b2 \in 2..14, b3 \in 2..14, b4 \in 2..14, b5 \in 2..14 :
              b1 = v[1] /\ b2 = v[2] /\ b3 = v[3] /\ b4 = v[4] /\ b5 = v[5]
      BY <2>1
    <3>3. Sooner(a1, a2, a3, a4, a5, b1, b2, b3, b4, b5)
      BY <2>3, <3>1, <3>2
    <3>4. AllFive(a1, a2, a3, a4, a5) < AllFive(b1, b2, b3, b4, b5)
      BY <3>3, SMT DEF AllFive, Sooner
    <3> QED
      BY <3>1, <3>2, <3>4
  <2> QED
    BY <1>7, <2>4, NumberIs
<1> QED
  BY <1>4, <1>5, <1>6, <1>7

\* The number of a hand is within bounds.
LEMMA NumberType ==
    ASSUME NEW k \in 0..8, NEW v \in Lines(k)
    PROVE  Number(k, v) \in Nat /\ Number(k, v) <= Most
<1>1. v[1] \in 2..14
  BY LineType
<1>2. ASSUME k \notin {4, 8}
      PROVE  \A j \in 1..Wide(k) : v[j] \in 2..14
  <2>1. v \in [1..Wide(k) -> 2..14]
    BY <1>2, LineType
  <2> QED
    BY <2>1
<1>3. 14 <= Most
  BY SMT DEF Most
<1>4. CASE k \in {4, 8}
  <2>1. Number(k, v) = v[1] /\ Most \in Nat
    BY <1>4, NumberIs, SMT DEF Most
  <2> QED
    BY <1>1, <1>3, <2>1
<1>5. CASE k \in {6, 7}
  <2>1. v[1] \in 2..14 /\ v[2] \in 2..14
    BY <1>2, <1>5 DEF Wide
  <2> QED
    BY <1>5, <2>1, TwoDigits, NumberIs
<1>6. CASE k \in {2, 3}
  <2>1. v[1] \in 2..14 /\ v[2] \in 2..14 /\ v[3] \in 2..14
    BY <1>2, <1>6 DEF Wide
  <2> QED
    BY <1>6, <2>1, ThreeDigits, NumberIs
<1>7. CASE k = 1
  <2>1. v[1] \in 2..14 /\ v[2] \in 2..14 /\ v[3] \in 2..14 /\ v[4] \in 2..14
    BY <1>2, <1>7 DEF Wide
  <2>2. /\ Four(v[1], v[2], v[3], v[4]) \in Nat
        /\ Four(v[1], v[2], v[3], v[4]) <= Most
    BY <2>1, FourType
  <2> QED
    BY <1>7, <2>2, NumberIs
<1>8. CASE k \in {0, 5}
  <2>1. v[1] \in 2..14 /\ v[2] \in 2..14 /\ v[3] \in 2..14 /\ v[4] \in 2..14 /\ v[5] \in 2..14
    BY <1>2, <1>8 DEF Wide
  <2>2. /\ AllFive(v[1], v[2], v[3], v[4], v[5]) \in Nat
        /\ AllFive(v[1], v[2], v[3], v[4], v[5]) <= Most
    BY <2>1, FiveType
  <2> QED
    BY <1>8, <2>2, NumberIs
<1> QED
  BY <1>4, <1>5, <1>6, <1>7, <1>8

\* One way only.
Lower(p, q) == Below(p, q) /\ ~ Below(q, p) /\ p # q

\* Behind equal beginnings the first difference of the ends decides.
LEMMA Shifted ==
    ASSUME NEW a \in Nat, NEW p \in [1..a -> Int], NEW m \in Nat, NEW n \in Nat,
           NEW u \in [1..m -> Int], NEW v \in [1..n -> Int],
           NEW i \in Nat, 1 <= i, i <= m, i <= n, u[i] < v[i], Agree(u, v, i)
    PROVE  Lower(p \o u, p \o v)
<1>1. PICK x : x = p \o u
  OBVIOUS
<1>2. PICK y : y = p \o v
  OBVIOUS
<1>3. x \in [1..(a + m) -> Int] /\ (\A j \in 1..a : x[j] = p[j]) /\ (\A j \in 1..m : x[a + j] = u[j])
  <2>1. /\ p \o u \in [1..(a + m) -> Int]
        /\ \A j \in 1..a : (p \o u)[j] = p[j]
        /\ \A j \in 1..m : (p \o u)[a + j] = u[j]
    BY Appended, Zenon
  <2> QED
    BY <1>1, <2>1, Zenon
<1>4. y \in [1..(a + n) -> Int] /\ (\A j \in 1..a : y[j] = p[j]) /\ (\A j \in 1..n : y[a + j] = v[j])
  <2>1. /\ p \o v \in [1..(a + n) -> Int]
        /\ \A j \in 1..a : (p \o v)[j] = p[j]
        /\ \A j \in 1..n : (p \o v)[a + j] = v[j]
    BY Appended, Zenon
  <2> QED
    BY <1>2, <2>1, Zenon
<1>5. x[a + i] = u[i] /\ y[a + i] = v[i]
  <2>1. i \in 1..m /\ i \in 1..n
    OBVIOUS
  <2> QED
    BY <1>3, <1>4, <2>1
<1>6. ASSUME NEW j \in 1..(a + i - 1)
      PROVE  x[j] = y[j]
  <2>1. CASE j <= a
    <3>1. j \in 1..a
      BY <2>1
    <3> QED
      BY <1>3, <1>4, <3>1
  <2>2. CASE a < j
    <3>1. j - a \in 1..(i - 1) /\ j - a \in 1..m /\ j - a \in 1..n /\ a + (j - a) = j
      BY <2>2
    <3>2. x[a + (j - a)] = u[j - a] /\ y[a + (j - a)] = v[j - a]
      BY <1>3, <1>4, <3>1
    <3> QED
      BY <3>1, <3>2 DEF Agree
  <2> QED
    BY <2>1, <2>2
<1>7. Agree(x, y, a + i)
  BY <1>6 DEF Agree
<1>8. /\ a + m \in Nat /\ a + n \in Nat /\ a + i \in Nat
      /\ 1 <= a + i /\ a + i <= a + m /\ a + i <= a + n
  OBVIOUS
<1>9. x[a + i] < y[a + i]
  BY <1>5
<1>10. Below(x, y) /\ ~ Below(y, x) /\ x # y
  <2>1. LowerAt(x, a + m, y, a + n, a + i)
    BY <1>3, <1>4, <1>7, <1>8, <1>9 DEF LowerAt
  <2> QED
    BY <2>1, FirstPlace
<1> QED
  BY <1>1, <1>2, <1>10 DEF Lower

\* Within a kind the book decides by the first rank that differs.
LEMMA BookFirst ==
    ASSUME NEW k \in 0..8, NEW m \in Nat, NEW n \in Nat,
           NEW u \in [1..m -> Int], NEW v \in [1..n -> Int],
           NEW i \in Nat, 1 <= i, i <= m, i <= n, u[i] < v[i], Agree(u, v, i)
    PROVE  Lower(BookOf(k, u), BookOf(k, v))
<1>1. Pattern(k) \in [1..Long(k) -> Int] /\ Long(k) \in 1..5
  BY PatternIs
<1>2. Long(k) \in Nat
  BY <1>1
<1>3. Lower(Pattern(k) \o u, Pattern(k) \o v)
  BY <1>1, <1>2, Shifted
<1> QED
  BY <1>3 DEF BookOf

\* A better kind is better by the book whatever its ranks.
LEMMA OtherKind ==
    ASSUME NEW k \in 0..8, NEW l \in 0..8, l < k, NEW u \in Lines(l), NEW v \in Lines(k)
    PROVE  Lower(BookOf(l, u), BookOf(k, v))
<1>1. PICK m \in 1..5 : u \in [1..m -> Int]
  BY LineType
<1>2. PICK n \in 1..5 : v \in [1..n -> Int]
  BY LineType
<1>0. m \in Nat /\ n \in Nat /\ 1 <= m /\ 1 <= n
  OBVIOUS
<1>3. PICK i \in 1..3 : /\ i <= Long(k) /\ i <= Long(l)
                        /\ Pattern(l)[i] < Pattern(k)[i]
                        /\ \A j \in 1..(i - 1) : Pattern(l)[j] = Pattern(k)[j]
  BY PatternOrder
<1> DEFINE a == Long(l)
           b == Long(k)
           p == Pattern(l)
           q == Pattern(k)
           x == p \o u
           y == q \o v
<1>4. p \in [1..a -> Int] /\ a \in Nat /\ q \in [1..b -> Int] /\ b \in Nat
  <2>1. Pattern(k) \in [1..Long(k) -> Int] /\ Long(k) \in 1..5
    BY PatternIs
  <2>2. Pattern(l) \in [1..Long(l) -> Int] /\ Long(l) \in 1..5
    BY PatternIs
  <2> QED
    BY <2>1, <2>2
<1>5. i <= a /\ i <= b /\ p[i] < q[i] /\ \A j \in 1..(i - 1) : p[j] = q[j]
  BY <1>3
<1> HIDE DEF a, b, p, q
<1>6. x \in [1..(a + m) -> Int] /\ \A j \in 1..a : x[j] = p[j]
  BY <1>0, <1>1, <1>4, Appended
<1>7. y \in [1..(b + n) -> Int] /\ \A j \in 1..b : y[j] = q[j]
  BY <1>0, <1>2, <1>4, Appended
<1> HIDE DEF x, y
<1>8. \A j \in 1..i : x[j] = p[j] /\ y[j] = q[j]
  <2>1. \A j \in 1..i : j \in 1..a /\ j \in 1..b
    BY <1>4, <1>5
  <2> QED
    BY <1>6, <1>7, <2>1
<1>9. x[i] < y[i] /\ Agree(x, y, i)
  <2>1. i \in 1..i /\ \A j \in 1..(i - 1) : j \in 1..i
    OBVIOUS
  <2> QED
    BY <1>5, <1>8, <2>1 DEF Agree
<1> DEFINE m2 == a + m
           n2 == b + n
<1>10. m2 \in Nat /\ n2 \in Nat /\ i \in Nat /\ 1 <= i /\ i <= m2 /\ i <= n2
  BY <1>4, <1>5
<1>11. x \in [1..m2 -> Int] /\ y \in [1..n2 -> Int]
  BY <1>6, <1>7
<1> HIDE DEF m2, n2
<1>12. Below(x, y) /\ ~ Below(y, x) /\ x # y
  <2>1. LowerAt(x, m2, y, n2, i)
    BY <1>9, <1>10, <1>11 DEF LowerAt
  <2> QED
    BY <2>1, FirstPlace
<1> QED
  BY <1>12 DEF x, y, p, q, Lower, BookOf

\* The browser's rank of a hand of a kind: royal flushes have their own.
Ranks(k, v) == IF k = 8 /\ v[1] = 14 THEN 9 ELSE k

\* Of two hands of one kind, either they are the same or one is better for both.
Behind(k, u, v) ==
    /\ Ranks(k, u) < Ranks(k, v) \/ (Ranks(k, u) = Ranks(k, v) /\ Number(k, u) < Number(k, v))
    /\ Lower(BookOf(k, u), BookOf(k, v))

\* Of two hands of a kind that is no straight, the first rank that differs decides for both.
LEMMA FirstBehind ==
    ASSUME NEW k \in 0..8, k \notin {4, 8}, NEW u \in Lines(k), NEW v \in Lines(k),
           NEW i \in 1..Wide(k), u[i] < v[i], \A j \in 1..(i - 1) : u[j] = v[j]
    PROVE  Behind(k, u, v)
<1>1. Number(k, u) < Number(k, v)
  BY NumberOrder
<1>2. u \in [1..Wide(k) -> Int] /\ v \in [1..Wide(k) -> Int] /\ Wide(k) \in 1..5
  BY LineType
<1>3. Wide(k) \in Nat /\ i \in Nat /\ 1 <= i /\ i <= Wide(k) /\ Agree(u, v, i)
  BY <1>2 DEF Agree
<1>4. Lower(BookOf(k, u), BookOf(k, v))
  BY <1>2, <1>3, BookFirst
<1>5. Ranks(k, u) = Ranks(k, v)
  BY DEF Ranks
<1> QED
  BY <1>1, <1>4, <1>5 DEF Behind

\* Of two straights, the top decides for both.
LEMMA RunBehind ==
    ASSUME NEW k \in {4, 8}, NEW u \in Lines(k), NEW v \in Lines(k), u[1] < v[1]
    PROVE  Behind(k, u, v)
<1>1. PICK m \in 1..5 : u \in [1..m -> Int]
  BY LineType
<1>2. PICK n \in 1..5 : v \in [1..n -> Int]
  BY LineType
<1>0. m \in Nat /\ n \in Nat /\ 1 <= m /\ 1 <= n
  OBVIOUS
<1>3. u[1] \in 2..14 /\ v[1] \in 2..14
  BY LineType
<1>4. Number(k, u) = u[1] /\ Number(k, v) = v[1]
  BY NumberIs
<1>5. Agree(u, v, 1)
  BY DEF Agree
<1>6. Lower(BookOf(k, u), BookOf(k, v))
  <2>1. k \in 0..8 /\ 1 \in Nat /\ 1 <= 1
    OBVIOUS
  <2> QED
    BY <1>0, <1>1, <1>2, <1>5, <2>1, BookFirst
<1>7. Ranks(k, u) < Ranks(k, v) \/ (Ranks(k, u) = Ranks(k, v) /\ Number(k, u) < Number(k, v))
  BY <1>3, <1>4 DEF Ranks
<1> QED
  BY <1>6, <1>7 DEF Behind

\* Two hands of a kind tie or are ordered alike.
LEMMA SameKind ==
    ASSUME NEW k \in 0..8, NEW u \in Lines(k), NEW v \in Lines(k)
    PROVE  u = v \/ Behind(k, u, v) \/ Behind(k, v, u)
<1>1. CASE k \in {4, 8}
  <2>1. PICK s \in 5..14 : u = Run(s) /\ u[1] = s
    BY <1>1, LineType
  <2>2. PICK t \in 5..14 : v = Run(t) /\ v[1] = t
    BY <1>1, LineType
  <2>3. s = t \/ u[1] < v[1] \/ v[1] < u[1]
    BY <2>1, <2>2
  <2> QED
    BY <1>1, <2>1, <2>2, <2>3, RunBehind
<1>2. CASE k \notin {4, 8} /\ u # v
  <2>1. /\ u \in [1..Wide(k) -> Int] /\ v \in [1..Wide(k) -> Int] /\ Wide(k) \in 1..5
    BY <1>2, LineType
  <2> DEFINE T == {i \in 1..Wide(k) : u[i] # v[i]}
  <2>2. T \in SUBSET Nat /\ T # {}
    BY <1>2, <2>1
  <2>3. PICK i \in T : \A j \in T : i <= j
    BY <2>2, LeastElement
  <2>4. i \in 1..Wide(k) /\ u[i] # v[i] /\ u[i] \in Int /\ v[i] \in Int
    BY <2>1, <2>3
  <2>5. ASSUME NEW j \in 1..(i - 1)
        PROVE  u[j] = v[j]
    <3>1. j \in 1..Wide(k) /\ ~ (i <= j)
      BY <2>1, <2>4
    <3> QED
      BY <2>3, <3>1
  <2>6. CASE u[i] < v[i]
    BY <1>2, <2>4, <2>5, <2>6, FirstBehind
  <2>7. CASE v[i] < u[i]
    BY <1>2, <2>4, <2>5, <2>7, FirstBehind
  <2> QED
    BY <2>4, <2>6, <2>7
<1> QED
  BY <1>1, <1>2

\* Of any two hands one is better, for the browser as by the book, or they tie for both.
LEMMA Decided ==
    ASSUME NEW x \in Five, NEW y \in Five
    PROVE  Wins(x, y) \/ Wins(y, x) \/ Ties(x, y)
<1>1. PICK k \in 0..8 : \E w \in Lines(k) : Evaluate5(x) = SaidOf(k, w) /\ Strength(x) = BookOf(k, w)
  BY HandIs
<1>2. PICK v \in Lines(k) : Evaluate5(x) = SaidOf(k, v) /\ Strength(x) = BookOf(k, v)
  BY <1>1
<1>3. PICK l \in 0..8 : \E w \in Lines(l) : Evaluate5(y) = SaidOf(l, w) /\ Strength(y) = BookOf(l, w)
  BY HandIs
<1>4. PICK u \in Lines(l) : Evaluate5(y) = SaidOf(l, u) /\ Strength(y) = BookOf(l, u)
  BY <1>3
<1>5. Number(k, v) \in Nat /\ Number(l, u) \in Nat
  BY NumberType
<1>6. /\ Evaluate5(x).rank = Ranks(k, v) /\ Evaluate5(x).score = Number(k, v)
      /\ Evaluate5(y).rank = Ranks(l, u) /\ Evaluate5(y).score = Number(l, u)
  BY <1>2, <1>4 DEF SaidOf, Ranks
<1>7. Ranks(k, v) \in Int /\ Ranks(l, u) \in Int
  BY DEF Ranks
<1>8. CASE l < k
  <2>1. Lower(Strength(y), Strength(x))
    BY <1>2, <1>4, <1>8, OtherKind
  <2>2. Ranks(l, u) < Ranks(k, v)
    BY <1>8 DEF Ranks
  <2> QED
    BY <1>6, <1>7, <2>1, <2>2 DEF Wins, Outranks, Lower
<1>9. CASE k < l
  <2>1. Lower(Strength(x), Strength(y))
    BY <1>2, <1>4, <1>9, OtherKind
  <2>2. Ranks(k, v) < Ranks(l, u)
    BY <1>9 DEF Ranks
  <2> QED
    BY <1>6, <1>7, <2>1, <2>2 DEF Wins, Outranks, Lower
<1>10. CASE k = l
  <2>1. u = v \/ Behind(k, u, v) \/ Behind(k, v, u)
    BY <1>10, SameKind
  <2>2. CASE u = v
    BY <1>2, <1>4, <1>10, <2>2 DEF Ties
  <2>3. CASE Behind(k, u, v)
    BY <1>2, <1>4, <1>5, <1>6, <1>7, <1>10, <2>3 DEF Behind, Wins, Outranks, Lower
  <2>4. CASE Behind(k, v, u)
    BY <1>2, <1>4, <1>5, <1>6, <1>7, <1>10, <2>4 DEF Behind, Wins, Outranks, Lower
  <2> QED
    BY <2>1, <2>2, <2>3, <2>4
<1> QED
  BY <1>8, <1>9, <1>10

(***************************************************************************)
(* Of the hands a player may make some are the best, and for the browser   *)
(* these are the same as for the showdown.                                 *)
(***************************************************************************)
\* What the browser says of a hand is a rank and a score within bounds.
LEMMA SaidType ==
    ASSUME NEW h \in Five
    PROVE  Evaluate5(h).rank \in 0..9 /\ Evaluate5(h).score \in Nat /\ Evaluate5(h).score <= Most
<1>1. PICK k \in 0..8 : \E w \in Lines(k) : Evaluate5(h) = SaidOf(k, w) /\ Strength(h) = BookOf(k, w)
  BY HandIs
<1>2. PICK v \in Lines(k) : Evaluate5(h) = SaidOf(k, v) /\ Strength(h) = BookOf(k, v)
  BY <1>1
<1>3. Number(k, v) \in Nat /\ Number(k, v) <= Most
  BY NumberType
<1>4. Evaluate5(h).rank = Ranks(k, v) /\ Evaluate5(h).score = Number(k, v)
  BY <1>2 DEF SaidOf, Ranks
<1>5. Ranks(k, v) \in 0..9
  BY DEF Ranks
<1> QED
  BY <1>3, <1>4, <1>5

\* The book never puts a hand below itself.
LEMMA NotBelowItself ==
    ASSUME NEW h \in Five
    PROVE  ~ Below(Strength(h), Strength(h))
<1>1. PICK k \in 0..8 : \E w \in Lines(k) : Evaluate5(h) = SaidOf(k, w) /\ Strength(h) = BookOf(k, w)
  BY HandIs
<1>2. PICK v \in Lines(k) : Evaluate5(h) = SaidOf(k, v) /\ Strength(h) = BookOf(k, v)
  BY <1>1
<1>3. PICK n \in 1..5 : v \in [1..n -> Int]
  BY LineType
<1>4. PICK p : p = BookOf(k, v)
  OBVIOUS
<1>5. PICK m \in Nat : p \in [1..m -> Int]
  <2>1. Pattern(k) \in [1..Long(k) -> Int] /\ Long(k) \in 1..5
    BY PatternIs
  <2>2. Pattern(k) \o v \in [1..(Long(k) + n) -> Int]
    <3>1. Long(k) \in Nat /\ n \in Nat
      BY <2>1
    <3> QED
      BY <1>3, <2>1, <3>1, Appended
  <2>3. Long(k) + n \in Nat
    BY <2>1
  <2> QED
    BY <1>4, <2>2, <2>3 DEF BookOf
<1>6. ~ Below(p, p)
  <2>1. \A i \in DOMAIN p : p[i] \in Int
    BY <1>5
  <2>2. \A i \in DOMAIN p : ~ (p[i] < p[i])
    BY <2>1
  <2> QED
    BY <2>2 DEF Below
<1> QED
  BY <1>2, <1>4, <1>6

\* Of some hands, one is the best for the browser.
LEMMA SomeBest ==
    ASSUME NEW H \in SUBSET Five, H # {}
    PROVE  \E b \in H : \A h \in H : ~ Outranks(Evaluate5(h), Evaluate5(b))
<1> DEFINE rankOf(h) == Evaluate5(h).rank
           scoreOf(h) == Evaluate5(h).score
<1>0. Most \in Nat
  BY SMT DEF Most
<1>1. \A h \in H : rankOf(h) \in 0..9 /\ scoreOf(h) \in Nat /\ scoreOf(h) <= Most
  BY SaidType
<1> HIDE DEF rankOf, scoreOf
<1> DEFINE T == {9 - rankOf(h) : h \in H}
<1>2. T \in SUBSET Nat /\ T # {}
  BY <1>1
<1>3. PICK d \in T : \A e \in T : d <= e
  BY <1>2, LeastElement
<1>4. PICK top \in H : d = 9 - rankOf(top)
  BY <1>3
<1>5. \A h \in H : rankOf(h) <= rankOf(top)
  <2>1. ASSUME NEW h \in H
        PROVE  rankOf(h) <= rankOf(top)
    <3>1. 9 - rankOf(h) \in T
      BY DEF T
    <3>2. 9 - rankOf(top) <= 9 - rankOf(h)
      BY <1>3, <1>4, <3>1
    <3>3. rankOf(h) \in 0..9 /\ rankOf(top) \in 0..9
      BY <1>1
    <3> QED
      BY <3>2, <3>3
  <2> QED
    BY <2>1
<1> DEFINE U == {Most - scoreOf(h) : h \in {g \in H : rankOf(g) = rankOf(top)}}
<1>6. U \in SUBSET Nat /\ U # {}
  BY <1>0, <1>1
<1>7. PICK f \in U : \A e \in U : f <= e
  BY <1>6, LeastElement
<1>8. PICK b \in H : rankOf(b) = rankOf(top) /\ f = Most - scoreOf(b)
  BY <1>7
<1>9. ASSUME NEW h \in H
      PROVE  ~ Outranks(Evaluate5(h), Evaluate5(b))
  <2>0. /\ rankOf(h) \in 0..9 /\ rankOf(b) \in 0..9 /\ scoreOf(h) \in Nat /\ scoreOf(b) \in Nat
    BY <1>1
  <2>1. rankOf(h) <= rankOf(b)
    BY <1>5, <1>8
  <2>2. ASSUME rankOf(h) = rankOf(b)
        PROVE  scoreOf(h) <= scoreOf(b)
    <3>1. Most - scoreOf(h) \in U
      BY <1>8, <2>2 DEF U
    <3>2. Most - scoreOf(b) <= Most - scoreOf(h)
      BY <1>7, <1>8, <3>1
    <3> QED
      BY <1>0, <2>0, <3>2
  <2> QED
    BY <2>0, <2>1, <2>2 DEF Outranks, rankOf, scoreOf
<1> QED
  BY <1>9

\* Of some hands, those are the best for the browser that are the best by the book.
LEMMA SameBest ==
    ASSUME NEW H \in SUBSET Five,
           NEW results, results = [h \in H |-> Evaluate5(h)],
           NEW strengths, strengths = [h \in H |-> Strength(h)]
    PROVE  {h \in DOMAIN results : results[h] = Said(Range(results))} =
             {h \in DOMAIN strengths : strengths[h] = Best(Range(strengths))}
<1> DEFINE said == Said(Range(results))
           best == Best(Range(strengths))
<1>1. DOMAIN results = H /\ DOMAIN strengths = H
  OBVIOUS
<1>2. \A h \in H : results[h] = Evaluate5(h) /\ strengths[h] = Strength(h)
  OBVIOUS
<1>3. CASE H = {}
  BY <1>1, <1>3
<1>4. CASE H # {}
  <2>1. PICK b \in H : \A h \in H : ~ Outranks(Evaluate5(h), Evaluate5(b))
    BY <1>4, SomeBest
  <2>2. \A x, y \in H : Wins(x, y) \/ Wins(y, x) \/ Ties(x, y)
    BY Decided
  <2>3. Range(results) = {Evaluate5(h) : h \in H} /\ Range(strengths) = {Strength(h) : h \in H}
    BY <1>1, <1>2 DEF Range
  <2>4. /\ said \in Range(results) /\ \A e \in Range(results) : ~ Outranks(e, said)
    <3>1. \E e \in Range(results) : \A f \in Range(results) : ~ Outranks(f, e)
      BY <2>1, <2>3
    <3> QED
      BY <3>1 DEF Said
  <2>5. \A h \in H : ~ Below(Strength(b), Strength(h))
    <3>1. ASSUME NEW h \in H
          PROVE  ~ Below(Strength(b), Strength(h))
      <4>1. ~ Wins(h, b)
        BY <2>1 DEF Wins
      <4>2. CASE Wins(b, h)
        BY <4>2 DEF Wins
      <4>3. CASE Ties(b, h)
        <5>1. Wins(b, b) \/ Ties(b, b)
          BY <2>2
        <5>2. Strength(h) = Strength(b)
          BY <4>3 DEF Ties
        <5>3. ~ Below(Strength(b), Strength(b))
          BY NotBelowItself
        <5> QED
          BY <5>2, <5>3
      <4> QED
        BY <2>2, <4>1, <4>2, <4>3
    <3> QED
      BY <3>1
  <2>6. /\ best \in Range(strengths) /\ \A q \in Range(strengths) : ~ Below(best, q)
    <3>1. \E p \in Range(strengths) : \A q \in Range(strengths) : ~ Below(p, q)
      BY <2>3, <2>5
    <3> QED
      BY <3>1 DEF Best
  <2>7. PICK x \in H : said = Evaluate5(x)
    BY <2>3, <2>4
  <2>8. PICK y \in H : best = Strength(y)
    BY <2>3, <2>6
  <2>9. \A h \in H : ~ Wins(h, x)
    BY <2>3, <2>4, <2>7 DEF Wins
  <2>10. \A h \in H : ~ Wins(h, y)
    BY <2>3, <2>6, <2>8 DEF Wins
  <2>11. Evaluate5(x) = Evaluate5(y) /\ Strength(x) = Strength(y)
    BY <2>2, <2>9, <2>10 DEF Ties
  <2> HIDE DEF said, best
  <2>12. ASSUME NEW h \in H
         PROVE  Evaluate5(h) = said <=> Strength(h) = best
    <3>1. Wins(x, h) \/ Ties(x, h)
      BY <2>2, <2>9
    <3> QED
      BY <2>7, <2>8, <2>11, <3>1 DEF Wins, Ties
  <2>13. {h \in DOMAIN results : results[h] = said} = {h \in DOMAIN strengths : strengths[h] = best}
    BY <1>1, <1>2, <2>12
  <2> QED
    BY <2>13 DEF said, best
<1> QED
  BY <1>3, <1>4

\* The cards dealt are the deck's.
RankInv == hole \in SUBSET Deck /\ board \in SUBSET (Deck \ hole)

\* The cards dealt stay the deck's.
LEMMA RankInvHolds == RankSpec => []RankInv
<1>1. RankInit => RankInv
  BY DEF RankInit, RankInv
<1>2. RankInv /\ [DealHand]_hand => RankInv'
  <2> SUFFICES ASSUME RankInv, [DealHand]_hand
               PROVE  RankInv'
    OBVIOUS
  <2>1. CASE DealHand
    <3>1. PICK k \in HoleSizes : hole' \in kSubset(k, Deck)
      BY <2>1 DEF DealHand
    <3>2. board' \in kSubset(5, Deck \ hole')
      BY <2>1 DEF DealHand
    <3> QED
      BY <3>1, <3>2 DEF RankInv, kSubset
  <2>2. CASE UNCHANGED hand
    BY <2>2 DEF RankInv, hand
  <2> QED
    BY <2>1, <2>2
<1> QED
  BY <1>1, <1>2, PTL DEF RankSpec

\* Every hand a player may make has five cards.
LEMMA HandsAreFive ==
    ASSUME RankInv
    PROVE  DealtHands \in SUBSET Five /\ ShownHands = DealtHands
<1>1. ShownHands = DealtHands
  BY DEF ShownHands, DealtHands
<1>2. CASE Cardinality(hole) > 2
  <2>1. ASSUME NEW h \in kSubset(2, hole), NEW b \in kSubset(3, board)
        PROVE  h \cup b \in Five
    <3>1. h \in SUBSET Deck /\ b \in SUBSET Deck /\ Cardinality(h) = 2 /\ Cardinality(b) = 3
      BY DEF RankInv, kSubset
    <3>2. h \cap b = {}
      BY DEF RankInv, kSubset
    <3>3. IsFiniteSet(h) /\ IsFiniteSet(b)
      BY <3>1, DeckFinite, FS_Subset
    <3>4. Cardinality(h \cup b) = 5
      <4>1. Cardinality(h \cup b) = Cardinality(h) + Cardinality(b) - Cardinality(h \cap b)
        BY <3>3, FS_Union
      <4>2. Cardinality(h \cap b) = 0
        BY <3>2, FS_EmptySet
      <4> QED
        BY <3>1, <4>1, <4>2
    <3> QED
      BY <3>1, <3>4 DEF Five
  <2>2. DealtHands = {h \cup b : h \in kSubset(2, hole), b \in kSubset(3, board)}
    BY <1>2 DEF DealtHands
  <2> QED
    BY <1>1, <2>1, <2>2
<1>3. CASE ~ (Cardinality(hole) > 2)
  <2>1. DealtHands = kSubset(5, hole \cup board)
    BY <1>3 DEF DealtHands
  <2>2. kSubset(5, hole \cup board) \in SUBSET Five
    BY DEF RankInv, kSubset, Five
  <2> QED
    BY <1>1, <2>1, <2>2
<1> QED
  BY <1>2, <1>3

\* What the browser says a player holds is what the showdown counts for him: for every deck
\* of ranks and suits, every number of cards dealt and every board, the hands it finds best
\* (handEvaluator.ts) are those the rule book finds best (hand-evaluator.service.ts).
THEOREM BestIsSaid == RankSpec => []SaysTheBest
<1>1. RankInv => SaysTheBest
  <2> SUFFICES ASSUME RankInv
               PROVE  SaysTheBest
    OBVIOUS
  <2>1. DealtHands \in SUBSET Five /\ ShownHands = DealtHands
    BY HandsAreFive
  <2> DEFINE results == [h \in ShownHands |-> Evaluate5(h)]
             strengths == [h \in DealtHands |-> Strength(h)]
  <2>2. {h \in DOMAIN results : results[h] = Said(Range(results))} =
          {h \in DOMAIN strengths : strengths[h] = Best(Range(strengths))}
    BY <2>1, SameBest
  <2> QED
    BY <2>2 DEF SaysTheBest
<1> QED
  BY <1>1, RankInvHolds, PTL
=============================================================================

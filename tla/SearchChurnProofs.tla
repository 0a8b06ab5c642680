------------------------- MODULE SearchChurnProofs -------------------------
(***************************************************************************)
(* The connection table's invariants hold for any interleaving of its      *)
(* critical sections, whatever the callers do, and so of the searchers,    *)
(* churn goroutines and disconnect driver; a departed node is isolated,    *)
(* no wake-up of a searcher is lost, and a scheduled searcher skips no     *)
(* interval; for any number of nodes, searchers and churn goroutines.      *)
(***************************************************************************)
EXTENDS SearchChurn, FiniteSetTheorems, TLAPS

-----------------------------------------------------------------------------
(* The table by itself: its invariants hold whatever its callers do. *)

\* The invariant of the table: its type, and the three facts about its slots.
\* The counters can only stay natural numbers because they count the peers
\* (SlotAccounting), and a connection can only be dropped from both sides of
\* peers because it is the only one of its pair (OneConnectionPerPair).
TableInv ==
  /\ TableTypeOK
  /\ SlotAccounting
  /\ OneConnectionPerPair
  /\ WithinCapacity

\* newConnTable's split leaves at least one outbound slot and never a negative
\* number of inbound ones.
LEMMA Budgets == MaxOut \in Nat /\ MaxOut >= 1 /\ MaxIn \in Nat
<1> DEFINE ratio == IF DialRatio < 1 THEN 1 ELSE DialRatio
           quot  == MaxPeers \div ratio
<1>1. ratio \in Nat /\ ratio >= 1
  BY ConnTableAssumption
<1>2. quot \in Nat /\ quot <= MaxPeers
  <2> HIDE DEF ratio
  <2>1. MaxPeers \in Nat
    BY ConnTableAssumption
  <2>2. quot \in Int /\ ratio * quot <= MaxPeers /\ MaxPeers < ratio * quot + ratio
    BY <1>1, <2>1
  <2> QED
    BY <1>1, <2>1, <2>2
<1>3. MaxOut = IF quot < 1 THEN 1 ELSE quot
  BY DEF MaxOut
<1> QED
  BY <1>2, <1>3, ConnTableAssumption DEF MaxIn

\* Sets of peers are finite.
LEMMA PeersFinite ==
  ASSUME NEW S \in SUBSET Nodes
  PROVE  IsFiniteSet(S)
BY FS_Subset, ConnTableAssumption

LEMMA TableInitInv == TableInit => TableInv
<1> SUFFICES ASSUME TableInit PROVE TableInv
  OBVIOUS
<1>1. TableTypeOK
  BY DEF TableInit, TableTypeOK
<1>2. \A n \in Nodes : InPeers(n) = {}
  BY DEF TableInit, InPeers
<1>3. SlotAccounting
  BY <1>2, FS_EmptySet DEF TableInit, SlotAccounting
<1>4. OneConnectionPerPair
  BY DEF TableInit, OneConnectionPerPair
<1>5. WithinCapacity
  BY Budgets DEF TableInit, WithinCapacity
<1> QED
  BY <1>1, <1>3, <1>4, <1>5 DEF TableInv

\* dial keeps the invariant.
LEMMA ConnectInv ==
  ASSUME TableInv, NEW from \in Nodes, NEW to \in Nodes, Connect(from, to)
  PROVE  TableInv'
<1> USE DEF TableInv
<1>1. /\ to # from /\ to \notin peers[from]
      /\ out[from] < MaxOut /\ in[to] < MaxIn
  BY Budgets DEF Connect, DialFails, DialIgnored, DialRefused, TableTypeOK
<1>2. TableTypeOK'
  BY DEF Connect, TableTypeOK
<1>3. OneConnectionPerPair'
  BY <1>1 DEF Connect, TableTypeOK, OneConnectionPerPair
<1>4. SlotAccounting'
  <2>1. to \notin outPeers[from]
    BY <1>1 DEF OneConnectionPerPair
  <2>2. ASSUME NEW n \in Nodes
        PROVE  out'[n] = Cardinality(outPeers'[n])
    <3>1. IsFiniteSet(outPeers[n])
      BY PeersFinite DEF TableTypeOK
    <3>2. CASE n = from
      <4>1. out'[n] = out[n] + 1 /\ outPeers'[n] = outPeers[n] \cup {to}
        BY <3>2 DEF Connect, TableTypeOK
      <4>2. Cardinality(outPeers[n] \cup {to}) = Cardinality(outPeers[n]) + 1
        BY <2>1, <3>1, <3>2, FS_AddElement
      <4> QED
        BY <4>1, <4>2 DEF SlotAccounting
    <3>3. CASE n # from
      BY <3>3 DEF Connect, TableTypeOK, SlotAccounting
    <3> QED
      BY <3>2, <3>3
  <2>3. ASSUME NEW n \in Nodes
        PROVE  in'[n] = Cardinality(InPeers(n)')
    <3>1. IsFiniteSet(InPeers(n))
      BY PeersFinite DEF InPeers
    <3>2. CASE n = to
      <4>1. InPeers(n)' = InPeers(n) \cup {from}
        BY <3>2 DEF Connect, TableTypeOK, InPeers
      <4>2. from \notin InPeers(n)
        BY <2>1, <3>2 DEF InPeers
      <4>3. Cardinality(InPeers(n) \cup {from}) = Cardinality(InPeers(n)) + 1
        BY <3>1, <4>2, FS_AddElement
      <4>4. in'[n] = in[n] + 1
        BY <3>2 DEF Connect, TableTypeOK
      <4> QED
        BY <4>1, <4>3, <4>4 DEF SlotAccounting
    <3>3. CASE n # to
      <4>1. InPeers(n)' = InPeers(n)
        BY <3>3 DEF Connect, TableTypeOK, InPeers
      <4> QED
        BY <3>3, <4>1 DEF Connect, TableTypeOK, SlotAccounting
    <3> QED
      BY <3>2, <3>3
  <2> QED
    BY <2>2, <2>3 DEF SlotAccounting
<1>5. WithinCapacity'
  BY <1>1, Budgets DEF Connect, TableTypeOK, WithinCapacity
<1> QED
  BY <1>2, <1>3, <1>4, <1>5

\* dropConn keeps the invariant, whether or not the dialer is to refill.
LEMMA DropInv ==
  ASSUME TableInv, NEW from \in Nodes, NEW to \in Nodes, NEW w \in BOOLEAN,
         Drop(from, to, w)
  PROVE  TableInv'
<1> USE DEF TableInv
<1>1. to \in outPeers[from] /\ from \in InPeers(to) /\ to # from
  BY DEF Drop, InPeers, OneConnectionPerPair
<1>2. /\ IsFiniteSet(outPeers[from]) /\ Cardinality(outPeers[from]) \in Nat
      /\ IsFiniteSet(InPeers(to)) /\ Cardinality(InPeers(to)) \in Nat
  <2>1. outPeers[from] \in SUBSET Nodes /\ InPeers(to) \in SUBSET Nodes
    BY DEF TableTypeOK, InPeers
  <2> QED
    BY <2>1, PeersFinite, FS_CardinalityType
<1>3. out[from] >= 1 /\ in[to] >= 1
  <2>1. Cardinality(outPeers[from]) # 0 /\ Cardinality(InPeers(to)) # 0
    BY <1>1, <1>2, FS_EmptySet
  <2> QED
    BY <1>2, <2>1 DEF SlotAccounting
<1>4. TableTypeOK'
  BY <1>3 DEF Drop, TableTypeOK
<1>5. OneConnectionPerPair'
  BY <1>1 DEF Drop, TableTypeOK, OneConnectionPerPair
<1>6. SlotAccounting'
  <2>1. ASSUME NEW n \in Nodes
        PROVE  out'[n] = Cardinality(outPeers'[n])
    <3>1. CASE n = from
      <4>1. out'[n] = out[n] - 1 /\ outPeers'[n] = outPeers[n] \ {to}
        BY <3>1 DEF Drop, TableTypeOK
      <4>2. Cardinality(outPeers[n] \ {to}) = Cardinality(outPeers[n]) - 1
        BY <1>1, <1>2, <3>1, FS_RemoveElement
      <4> QED
        BY <4>1, <4>2 DEF SlotAccounting
    <3>2. CASE n # from
      BY <3>2 DEF Drop, TableTypeOK, SlotAccounting
    <3> QED
      BY <3>1, <3>2
  <2>2. ASSUME NEW n \in Nodes
        PROVE  in'[n] = Cardinality(InPeers(n)')
    <3>1. CASE n = to
      <4>1. InPeers(n)' = InPeers(n) \ {from}
        BY <3>1 DEF Drop, TableTypeOK, InPeers
      <4>2. Cardinality(InPeers(n) \ {from}) = Cardinality(InPeers(n)) - 1
        BY <1>1, <1>2, <3>1, FS_RemoveElement
      <4>3. in'[n] = in[n] - 1
        BY <3>1 DEF Drop, TableTypeOK
      <4> QED
        BY <4>1, <4>2, <4>3 DEF SlotAccounting
    <3>2. CASE n # to
      <4>1. InPeers(n)' = InPeers(n)
        BY <3>2 DEF Drop, TableTypeOK, InPeers
      <4> QED
        BY <3>2, <4>1 DEF Drop, TableTypeOK, SlotAccounting
    <3> QED
      BY <3>1, <3>2
  <2> QED
    BY <2>1, <2>2 DEF SlotAccounting
<1>7. WithinCapacity'
  BY <1>3, Budgets DEF Drop, TableTypeOK, WithinCapacity
<1> QED
  BY <1>4, <1>5, <1>6, <1>7

\* The sections that move no connection keep the invariant.
LEMMA QuietInv ==
  ASSUME TableInv, NEW n \in Nodes,
         MarkOffline(n) \/ MarkOnline(n) \/ Signal(n) \/ Receive(n)
  PROVE  TableInv'
<1> USE DEF TableInv
<1>1. UNCHANGED slotVars
  BY DEF MarkOffline, MarkOnline, Signal, Receive
<1>2. TableTypeOK'
  <2>1. CASE MarkOffline(n)
    BY <2>1 DEF MarkOffline, slotVars, TableTypeOK
  <2>2. CASE MarkOnline(n)
    BY <2>2 DEF MarkOnline, slotVars, countVars, TableTypeOK
  <2>3. CASE Signal(n) \/ Receive(n)
    BY <2>3 DEF Signal, Receive, slotVars, countVars, TableTypeOK
  <2> QED
    BY <2>1, <2>2, <2>3
<1>3. SlotAccounting'
  BY <1>1 DEF slotVars, SlotAccounting, InPeers
<1>4. OneConnectionPerPair'
  BY <1>1 DEF slotVars, OneConnectionPerPair
<1>5. WithinCapacity'
  BY Budgets DEF MarkOffline, MarkOnline, Signal, Receive, slotVars, TableTypeOK,
                 WithinCapacity
<1> QED
  BY <1>2, <1>3, <1>4, <1>5

LEMMA TableNextInv == TableInv /\ [TableNext]_tableVars => TableInv'
<1> SUFFICES ASSUME TableInv, [TableNext]_tableVars
             PROVE  TableInv'
  OBVIOUS
<1>1. ASSUME NEW from \in Nodes, NEW to \in Nodes, Connect(from, to)
      PROVE  TableInv'
  BY <1>1, ConnectInv
<1>2. ASSUME NEW from \in Nodes, NEW to \in Nodes, NEW w \in BOOLEAN, Drop(from, to, w)
      PROVE  TableInv'
  BY <1>2, DropInv
<1>3. ASSUME NEW n \in Nodes,
             MarkOffline(n) \/ MarkOnline(n) \/ Signal(n) \/ Receive(n)
      PROVE  TableInv'
  BY <1>3, QuietInv
<1>4. CASE UNCHANGED tableVars
  <2> USE <1>4 DEF tableVars, TableInv
  <2>1. TableTypeOK'
    BY DEF TableTypeOK
  <2>2. SlotAccounting'
    BY DEF SlotAccounting, InPeers
  <2>3. OneConnectionPerPair' /\ WithinCapacity'
    BY DEF OneConnectionPerPair, WithinCapacity
  <2> QED
    BY <2>1, <2>2, <2>3
<1> QED
  BY <1>1, <1>2, <1>3, <1>4 DEF TableNext

\* Whoever calls the table and in whatever order, its state is well typed.
THEOREM TableTypeCorrect == TableSpec => []TableTypeOK
<1>1. TableInv => TableTypeOK
  BY DEF TableInv
<1> QED
  BY <1>1, TableInitInv, TableNextInv, PTL DEF TableSpec

\* ... and the slot counters, the peer sets and the budgets agree: the in and
\* out counters of dial and dropConn count the connections that exist, and no
\* node exceeds its slots.
THEOREM TableCorrect ==
  TableSpec => [](SlotAccounting /\ OneConnectionPerPair /\ WithinCapacity)
<1>1. TableInv => SlotAccounting /\ OneConnectionPerPair /\ WithinCapacity
  BY DEF TableInv
<1> QED
  BY <1>1, TableInitInv, TableNextInv, PTL DEF TableSpec

-----------------------------------------------------------------------------
(* The searchers, churn goroutines and driver. *)

\* The types of the processes' own state.
ProcessTypeOK ==
  /\ mode \in Modes
  /\ disc \in [Nodes -> BOOLEAN]
  /\ pc \in [Searchers -> {"session", "consume", "received", "dial", "dialed",
                           "closing", "full", "parked", "waiting", "asleep", "done"}]
  /\ iter \in [Searchers -> {"none", "live", "dead"}]
  /\ cand \in [Searchers -> Nodes]
  /\ seen \in [Searchers -> SUBSET Nodes]
  /\ scheduleIdx \in [Searchers -> Nat] /\ lookups \in [Searchers -> Nat]
  /\ deadline \in BOOLEAN /\ churnOn \in BOOLEAN
  /\ cpc \in [Churners -> {"up", "dropping", "rousing", "stopping", "shutting",
                           "gap", "gone", "started", "rejoined"}]
  /\ left \in [Churners -> Nat]
  /\ dialed \in [Churners -> SUBSET Nodes]
  /\ dialers \in [Churners -> SUBSET Nodes]
  /\ rouse \in [Churners -> Nodes]
  /\ dpc \in {"idle", "picked", "rousing"}
  /\ picks \in Nat
  /\ edge \in {NoEdge} \cup (Nodes \X Nodes)
  /\ dpc # "idle" => edge # NoEdge

LEMMA SplitTypeOK == TypeOK <=> TableTypeOK /\ ProcessTypeOK
BY DEF TypeOK, ProcessTypeOK

\* Every step of a process is one critical section of the table, one operation
\* on a wake channel, or leaves the table alone.
LEMMA StepUsesTable ==
  ASSUME TypeOK, [Next]_vars
  PROVE  [TableNext]_tableVars
<1>1. ASSUME NEW s \in Searchers, SearcherStep(s)
      PROVE  [TableNext]_tableVars
  <2>1. NodeOf[s] \in Nodes /\ cand[s] \in Nodes
    BY SearchChurnAssumption DEF TypeOK
  <2>2. CASE DialSucceeds(s)
    BY <2>1, <2>2 DEF DialSucceeds, TableNext
  <2>3. CASE WakeUp(s)
    BY <2>1, <2>3 DEF WakeUp, TableNext
  <2>4. CASE OpenSearch(s) \/ ScheduleEnds(s) \/ (\E n \in Nodes : ReceiveNode(s, n))
               \/ EndOfNodes(s) \/ LookupTimeout(s) \/ CheckPark(s)
    BY <2>4 DEF OpenSearch, ScheduleEnds, ReceiveNode, EndOfNodes, LookupTimeout,
                CheckPark
  <2>5. CASE DialFailed(s) \/ CheckFull(s) \/ EndSession(s) \/ CheckAway(s)
               \/ HitDeadline(s)
    BY <2>5 DEF DialFailed, CheckFull, EndSession, CheckAway, HitDeadline
  <2> QED
    BY <1>1, <2>2, <2>3, <2>4, <2>5 DEF SearcherStep
<1>2. ASSUME NEW n \in Churners, ChurnStep(n)
      PROVE  [TableNext]_tableVars
  <2>1. n \in Nodes
    BY SearchChurnAssumption
  <2>2. CASE Depart(n)
    BY <2>1, <2>2 DEF Depart, TableNext
  <2>3. ASSUME NEW j \in Nodes, DropDialed(n, j)
        PROVE  [TableNext]_tableVars
    BY <2>1, <2>3 DEF DropDialed, TableNext
  <2>4. ASSUME NEW j \in Nodes, DropDialer(n, j)
        PROVE  [TableNext]_tableVars
    <3>1. CASE Drop(j, n, TRUE)
      BY <2>1, <3>1 DEF TableNext
    <3>2. CASE UNCHANGED tableVars
      BY <3>2
    <3> QED
      BY <2>4, <3>1, <3>2 DEF DropDialer
  <2>5. CASE RouseDialer(n)
    BY <2>1, <2>5 DEF RouseDialer, TableNext, TypeOK
  <2>6. CASE DepartReturns(n) \/ StopHost(n) \/ CloseHost(n) \/ LeaveForGood(n)
               \/ StartHost(n)
    BY <2>6 DEF DepartReturns, StopHost, CloseHost, LeaveForGood, StartHost
  <2>7. CASE Rejoin(n) \/ RejoinWake(n)
    BY <2>1, <2>7 DEF Rejoin, RejoinWake, TableNext
  <2> QED
    BY <1>2, <2>2, <2>3, <2>4, <2>5, <2>6, <2>7 DEF ChurnStep, ChurnProgress
<1>3. CASE PickConn \/ DriverProgress
  <2>1. CASE PickConn
    BY <2>1 DEF PickConn
  <2>2. CASE DropPicked
    <3>1. edge \in Nodes \X Nodes
      BY <2>2 DEF DropPicked, TypeOK
    <3> QED
      BY <2>2, <3>1 DEF DropPicked, TableNext
  <2>3. CASE RousePicked
    <3>1. edge \in Nodes \X Nodes
      BY <2>3 DEF RousePicked, TypeOK
    <3> QED
      BY <2>3, <3>1 DEF RousePicked, TableNext
  <2> QED
    BY <1>3, <2>1, <2>2, <2>3 DEF DriverProgress
<1>4. CASE Deadline \/ StartChurn
  BY <1>4 DEF Deadline, StartChurn
<1>5. CASE UNCHANGED vars
  BY <1>5 DEF vars
<1> QED
  BY <1>1, <1>2, <1>3, <1>4, <1>5 DEF Next

LEMMA InitType == Init => TypeOK
<1> SUFFICES ASSUME Init PROVE TypeOK
  OBVIOUS
<1>1. TableTypeOK
  BY TableInitInv DEF Init, TableInv
<1>2. ProcessTypeOK
  BY SearchChurnAssumption DEF Init, ProcessTypeOK, NoEdge
<1> QED
  BY <1>1, <1>2, SplitTypeOK

LEMMA StepType ==
  ASSUME TypeOK, TableTypeOK', [Next]_vars
  PROVE  TypeOK'
<1> USE DEF ProcessTypeOK, searchVars, churnVars, driverVars
<1> ProcessTypeOK /\ TableTypeOK
  BY SplitTypeOK
<1> SUFFICES ProcessTypeOK'
  BY DEF TypeOK, ProcessTypeOK
<1>1. ASSUME NEW s \in Searchers, SearcherStep(s)
      PROVE  ProcessTypeOK'
  <2> USE DEF Goto, Forget
  <2>0. NodeOf[s] \in Nodes
    BY SearchChurnAssumption
  <2>1. CASE OpenSearch(s)
    BY <2>1 DEF OpenSearch
  <2>2. CASE ScheduleEnds(s)
    BY <2>2 DEF ScheduleEnds
  <2>3. ASSUME NEW n \in Nodes, ReceiveNode(s, n)
        PROVE  ProcessTypeOK'
    BY <2>3 DEF ReceiveNode
  <2>4. CASE EndOfNodes(s) \/ LookupTimeout(s)
    BY <2>4 DEF EndOfNodes, LookupTimeout
  <2>5. CASE CheckPark(s)
    BY <2>0, <2>5 DEF CheckPark, NextResult
  <2>6. CASE DialSucceeds(s)
    BY <2>0, <2>6 DEF DialSucceeds
  <2>7. CASE DialFailed(s)
    BY <2>0, <2>7 DEF DialFailed, NextResult
  <2>8. CASE CheckFull(s)
    BY <2>0, <2>8 DEF CheckFull, NextResult
  <2>9. CASE EndSession(s)
    BY <2>9, SearchChurnAssumption DEF EndSession
  <2>10. CASE CheckAway(s)
    BY <2>10 DEF CheckAway
  <2>11. CASE WakeUp(s)
    BY <2>11 DEF WakeUp
  <2>12. CASE HitDeadline(s)
    BY <2>12 DEF HitDeadline
  <2> QED
    BY <1>1, <2>1, <2>2, <2>3, <2>4, <2>5, <2>6, <2>7, <2>8, <2>9, <2>10, <2>11,
       <2>12 DEF SearcherStep
<1>2. ASSUME NEW n \in Churners, ChurnStep(n)
      PROVE  ProcessTypeOK'
  <2> USE DEF ChurnGoto
  <2>0. n \in Nodes
    BY SearchChurnAssumption
  <2>1. CASE Depart(n)
    BY <2>0, <2>1 DEF Depart, Dialed, Dialers, TableTypeOK
  <2>2. ASSUME NEW j \in Nodes, DropDialed(n, j)
        PROVE  ProcessTypeOK'
    BY <2>2 DEF DropDialed
  <2>3. ASSUME NEW j \in Nodes, DropDialer(n, j)
        PROVE  ProcessTypeOK'
    BY <2>3 DEF DropDialer
  <2>4. CASE RouseDialer(n)
    BY <2>0, <2>4 DEF RouseDialer
  <2>5. CASE DepartReturns(n)
    BY <2>5 DEF DepartReturns
  <2>6. CASE StopHost(n)
    BY <2>6 DEF StopHost
  <2>7. CASE CloseHost(n)
    BY <2>7 DEF CloseHost
  <2>8. CASE LeaveForGood(n)
    BY <2>8 DEF LeaveForGood
  <2>9. CASE StartHost(n)
    BY <2>9 DEF StartHost
  <2>10. CASE Rejoin(n)
    BY <2>10 DEF Rejoin
  <2>11. CASE RejoinWake(n)
    BY <2>11 DEF RejoinWake
  <2> QED
    BY <1>2, <2>1, <2>2, <2>3, <2>4, <2>5, <2>6, <2>7, <2>8, <2>9, <2>10, <2>11
    DEF ChurnStep, ChurnProgress
<1>3. CASE PickConn
  <2>1. PICK i \in Nodes : \E j \in outPeers[i] : edge' = <<i, j>>
    BY <1>3 DEF PickConn
  <2>2. PICK j \in outPeers[i] : edge' = <<i, j>>
    BY <2>1
  <2>3. j \in Nodes
    BY <2>2 DEF TableTypeOK
  <2>4. edge' \in Nodes \X Nodes /\ edge' # NoEdge
    BY <2>2, <2>3 DEF NoEdge
  <2> QED
    BY <1>3, <2>4 DEF PickConn
<1>4. CASE DropPicked
  BY <1>4 DEF DropPicked
<1>5. CASE RousePicked
  BY <1>5 DEF RousePicked
<1>6. CASE Deadline
  BY <1>6 DEF Deadline
<1>7. CASE StartChurn
  BY <1>7 DEF StartChurn
<1>8. CASE UNCHANGED vars
  BY <1>8 DEF vars
<1> QED
  BY <1>1, <1>2, <1>3, <1>4, <1>5, <1>6, <1>7, <1>8 DEF Next, DriverProgress

\* The invariant of the composed system: its types and the table's invariant.
\* Neither is inductive alone: the driver's step is one of the table's only
\* because the connection it picked is a pair of nodes, and the table's
\* counters are natural numbers only because of the table's invariant.
SystemInv == TypeOK /\ TableInv

LEMMA SystemInvStep == SystemInv /\ [Next]_vars => SystemInv'
<1> SUFFICES ASSUME SystemInv, [Next]_vars
             PROVE  SystemInv'
  OBVIOUS
<1>1. [TableNext]_tableVars
  BY StepUsesTable DEF SystemInv
<1>2. TableInv'
  BY <1>1, TableNextInv DEF SystemInv
<1>3. TypeOK'
  BY <1>2, StepType DEF SystemInv, TableInv
<1> QED
  BY <1>2, <1>3 DEF SystemInv

LEMMA SystemInvInit == Init => SystemInv
BY InitType, TableInitInv DEF Init, SystemInv

\* Type correctness of the searchers, the churn goroutines, the driver and the
\* table they share.
THEOREM SystemTypeCorrect == Spec => []TypeOK
<1>1. SystemInv => TypeOK
  BY DEF SystemInv
<1> QED
  BY <1>1, SystemInvInit, SystemInvStep, PTL DEF Spec

\* However the searchers' dials, the disconnects and the departures overlap, and though
\* the searchers test their slots and the driver picks its connection outside the
\* lock: the counters count the connections, no pair is connected both ways, and no
\* node exceeds its slots.
THEOREM SystemSlots == Spec => [](SlotAccounting /\ OneConnectionPerPair /\ WithinCapacity)
<1>1. SystemInv => SlotAccounting /\ OneConnectionPerPair /\ WithinCapacity
  BY DEF SystemInv, TableInv
<1> QED
  BY <1>1, SystemInvInit, SystemInvStep, PTL DEF Spec

-----------------------------------------------------------------------------
(* A departed node is isolated                                             *)

Leaving == {"dropping", "rousing", "stopping", "shutting", "gap", "gone", "started"}

\* Where a churn goroutine is and what the table says of its node: the node is
\* away exactly from depart's critical section to rejoin's, and the snapshot is
\* worked off once depart has returned.
ChurnPhases ==
  /\ \A n \in Nodes : offline[n] => n \in Churners
  /\ \A n \in Churners : /\ offline[n] <=> cpc[n] \in Leaving
                         /\ cpc[n] \notin {"dropping", "rousing"}
                              => dialed[n] = {} /\ dialers[n] = {}

IsolationInv == SystemInv /\ ChurnPhases /\ AwayKeepsOnlyPending

LEMMA IsolationInit == Init => IsolationInv
<1> SUFFICES ASSUME Init PROVE IsolationInv
  OBVIOUS
<1>1. SystemInv
  BY SystemInvInit
<1>2. ChurnPhases
  BY SearchChurnAssumption DEF Init, TableInit, ChurnPhases, Leaving
<1>3. AwayKeepsOnlyPending
  BY SearchChurnAssumption DEF Init, TableInit, AwayKeepsOnlyPending
<1> QED
  BY <1>1, <1>2, <1>3 DEF IsolationInv

\* Connections are added between online nodes only, and dropped at will.
NoNewAway ==
  \A m, n \in Nodes : n \in outPeers'[m] /\ n \notin outPeers[m]
                         => ~ offline[m] /\ ~ offline[n]

\* A step that adds no connection to a node that is away, moves nobody on or off
\* line and takes nothing from the snapshots keeps AwayKeepsOnlyPending.
LEMMA QuietStep ==
  ASSUME IsolationInv, SystemInv', NoNewAway,
         UNCHANGED <<offline, dialed, dialers>>
  PROVE  AwayKeepsOnlyPending'
<1> SUFFICES ASSUME NEW n \in Churners, offline[n]
             PROVE  outPeers'[n] \subseteq dialed[n] /\ InPeers(n)' \subseteq dialers[n]
  BY DEF AwayKeepsOnlyPending
<1>1. n \in Nodes /\ outPeers[n] \subseteq dialed[n] /\ InPeers(n) \subseteq dialers[n]
  BY SearchChurnAssumption DEF IsolationInv, AwayKeepsOnlyPending
<1>2. outPeers'[n] \subseteq dialed[n]
  BY <1>1 DEF NoNewAway, SystemInv, TypeOK, TableTypeOK
<1>3. InPeers(n)' \subseteq dialers[n]
  BY <1>1 DEF NoNewAway, InPeers
<1> QED
  BY <1>2, <1>3

\* dropConn adds no connection, and the dropped one is gone.
LEMMA DropFacts ==
  ASSUME SystemInv, NEW from \in Nodes, NEW to \in Nodes, NEW w \in BOOLEAN,
         Drop(from, to, w)
  PROVE  /\ NoNewAway
         /\ UNCHANGED offline
         /\ to \notin outPeers'[from]
BY DEF SystemInv, TypeOK, TableTypeOK, Drop, NoNewAway

LEMMA ConnectFacts ==
  ASSUME SystemInv, NEW from \in Nodes, NEW to \in Nodes, Connect(from, to)
  PROVE  NoNewAway /\ UNCHANGED offline
BY DEF SystemInv, TypeOK, TableTypeOK, Connect, DialFails, DialIgnored, DialRefused,
       NoNewAway

LEMMA UnchangedFacts ==
  ASSUME UNCHANGED slotVars
  PROVE  NoNewAway
BY DEF slotVars, NoNewAway

LEMMA IsolationStep == IsolationInv /\ [Next]_vars => IsolationInv'
<1> SUFFICES ASSUME IsolationInv, [Next]_vars
             PROVE  IsolationInv'
  OBVIOUS
<1>0. SystemInv /\ SystemInv'
  BY SystemInvStep DEF IsolationInv
<1> SUFFICES ChurnPhases' /\ AwayKeepsOnlyPending'
  BY <1>0 DEF IsolationInv
<1>q. ASSUME NoNewAway, UNCHANGED <<offline, cpc, dialed, dialers>>
      PROVE  ChurnPhases' /\ AwayKeepsOnlyPending'
  BY <1>0, <1>q, QuietStep DEF IsolationInv, ChurnPhases
<1>1. ASSUME NEW s \in Searchers, SearcherStep(s)
      PROVE  NoNewAway /\ UNCHANGED <<offline, cpc, dialed, dialers>>
  <2>0. NodeOf[s] \in Nodes /\ cand[s] \in Nodes
    BY <1>0, SearchChurnAssumption DEF SystemInv, TypeOK
  <2>1. CASE DialSucceeds(s)
    BY <1>0, <2>0, <2>1, ConnectFacts DEF DialSucceeds, churnVars
  <2>2. CASE WakeUp(s)
    BY <2>2, UnchangedFacts DEF WakeUp, Receive, churnVars
  <2>3. CASE UNCHANGED <<tableVars, churnVars>>
    BY <2>3, UnchangedFacts DEF tableVars, slotVars, churnVars
  <2>4. OpenSearch(s) \/ ScheduleEnds(s) \/ (\E n \in Nodes : ReceiveNode(s, n))
          \/ EndOfNodes(s) \/ LookupTimeout(s) \/ CheckPark(s) \/ DialFailed(s)
          \/ CheckFull(s) \/ EndSession(s) \/ CheckAway(s) \/ HitDeadline(s)
        => UNCHANGED <<tableVars, churnVars>>
    BY DEF OpenSearch, ScheduleEnds, ReceiveNode, EndOfNodes, LookupTimeout,
           CheckPark, DialFailed, CheckFull, EndSession, CheckAway, HitDeadline
  <2> QED
    BY <1>1, <2>1, <2>2, <2>3, <2>4 DEF SearcherStep
<1>2. ASSUME NEW n \in Churners, ChurnStep(n)
      PROVE  ChurnPhases' /\ AwayKeepsOnlyPending'
  <2> USE SearchChurnAssumption DEF ChurnGoto, Leaving
  <2>0. n \in Nodes
    OBVIOUS
  <2>t. /\ cpc \in [Churners -> {"up", "dropping", "rousing", "stopping", "shutting",
                                 "gap", "gone", "started", "rejoined"}]
        /\ dialed \in [Churners -> SUBSET Nodes] /\ dialers \in [Churners -> SUBSET Nodes]
        /\ offline \in [Nodes -> BOOLEAN]
        /\ peers \in [Nodes -> SUBSET Nodes] /\ outPeers \in [Nodes -> SUBSET Nodes]
    BY <1>0 DEF SystemInv, TypeOK, TableTypeOK
  <2>1. CASE Depart(n)
    <3>1. UNCHANGED <<peers, outPeers>>
      BY <2>1 DEF Depart, MarkOffline, slotVars
    <3>2. ChurnPhases'
      BY <2>0, <2>t, <2>1 DEF Depart, MarkOffline, IsolationInv, ChurnPhases
    <3>3. outPeers[n] \subseteq Dialed(n) /\ InPeers(n) \subseteq Dialers(n)
      BY <1>0, <2>0, <2>t DEF SystemInv, TableInv, OneConnectionPerPair, Dialed,
                              Dialers, InPeers
    <3>4. AwayKeepsOnlyPending'
      BY <2>0, <2>t, <2>1, <3>1, <3>3 DEF Depart, MarkOffline, IsolationInv,
         AwayKeepsOnlyPending, InPeers
    <3> QED
      BY <3>2, <3>4
  <2>2. ASSUME NEW j \in Nodes, DropDialed(n, j)
        PROVE  ChurnPhases' /\ AwayKeepsOnlyPending'
    <3>1. NoNewAway /\ UNCHANGED offline /\ j \notin outPeers'[n]
      BY <1>0, <2>0, <2>2, DropFacts DEF DropDialed, tableVars, NoNewAway
    <3>2. ChurnPhases'
      BY <2>t, <2>2, <3>1 DEF DropDialed, IsolationInv, ChurnPhases
    <3>3. outPeers' \in [Nodes -> SUBSET Nodes]
      BY <1>0 DEF SystemInv, TypeOK, TableTypeOK
    <3>4. AwayKeepsOnlyPending'
      BY <2>t, <2>2, <3>1, <3>3 DEF DropDialed, IsolationInv, AwayKeepsOnlyPending,
         InPeers, NoNewAway
    <3> QED
      BY <3>2, <3>4
  <2>3. ASSUME NEW j \in Nodes, DropDialer(n, j)
        PROVE  ChurnPhases' /\ AwayKeepsOnlyPending'
    <3>1. NoNewAway /\ UNCHANGED offline /\ n \notin outPeers'[j]
      BY <1>0, <2>0, <2>3, DropFacts DEF DropDialer, tableVars, NoNewAway
    <3>2. ChurnPhases'
      <4>1. /\ cpc'[n] \in {"dropping", "rousing"} /\ cpc[n] = "dropping"
            /\ \A m \in Churners \ {n} : cpc'[m] = cpc[m] /\ dialers'[m] = dialers[m]
            /\ UNCHANGED dialed
        BY <2>t, <2>3 DEF DropDialer, ChurnGoto
      <4>2. ChurnPhases
        BY DEF IsolationInv
      <4> QED
        BY <3>1, <4>1, <4>2 DEF ChurnPhases, Leaving
    <3>3. outPeers' \in [Nodes -> SUBSET Nodes]
      BY <1>0 DEF SystemInv, TypeOK, TableTypeOK
    <3>4. AwayKeepsOnlyPending'
      BY <2>t, <2>3, <3>1, <3>3 DEF DropDialer, IsolationInv, AwayKeepsOnlyPending,
         InPeers, NoNewAway
    <3> QED
      BY <3>2, <3>4
  <2>4. CASE RouseDialer(n)
    <3>1. NoNewAway /\ UNCHANGED <<offline, dialed, dialers>>
      BY <2>4, UnchangedFacts DEF RouseDialer, Signal
    <3>2. ChurnPhases'
      BY <2>t, <2>4, <3>1 DEF RouseDialer, IsolationInv, ChurnPhases
    <3> QED
      BY <1>0, <3>1, <3>2, QuietStep
  <2>5. CASE DepartReturns(n) \/ StopHost(n) \/ CloseHost(n) \/ LeaveForGood(n)
               \/ StartHost(n)
    <3>1. UNCHANGED <<tableVars, dialed, dialers>>
      BY <2>5 DEF DepartReturns, StopHost, CloseHost, LeaveForGood, StartHost
    <3>2. NoNewAway /\ UNCHANGED <<offline, dialed, dialers>>
      BY <3>1, UnchangedFacts DEF tableVars, slotVars
    <3>3. ChurnPhases'
      BY <2>t, <2>5, <3>2 DEF DepartReturns, StopHost, CloseHost, LeaveForGood,
         StartHost, IsolationInv, ChurnPhases
    <3> QED
      BY <1>0, <3>2, <3>3, QuietStep
  <2>6. CASE Rejoin(n)
    <3>1. UNCHANGED <<outPeers, dialed, dialers>>
      BY <2>6 DEF Rejoin, MarkOnline, slotVars
    <3>2. ChurnPhases'
      BY <2>0, <2>t, <2>6, <3>1 DEF Rejoin, MarkOnline, IsolationInv, ChurnPhases
    <3>3. AwayKeepsOnlyPending'
      BY <2>0, <2>t, <2>6, <3>1 DEF Rejoin, MarkOnline, IsolationInv,
         AwayKeepsOnlyPending, InPeers
    <3> QED
      BY <3>2, <3>3
  <2>7. CASE RejoinWake(n)
    <3>1. NoNewAway /\ UNCHANGED <<offline, dialed, dialers>>
      BY <2>7, UnchangedFacts DEF RejoinWake, Signal
    <3>2. ChurnPhases'
      BY <2>t, <2>7, <3>1 DEF RejoinWake, IsolationInv, ChurnPhases
    <3> QED
      BY <1>0, <3>1, <3>2, QuietStep
  <2> QED
    BY <1>2, <2>1, <2>2, <2>3, <2>4, <2>5, <2>6, <2>7 DEF ChurnStep, ChurnProgress
<1>3. CASE DropPicked
  <2>1. edge \in Nodes \X Nodes
    BY <1>0, <1>3 DEF SystemInv, TypeOK, DropPicked
  <2>2. NoNewAway /\ UNCHANGED offline
    BY <1>0, <1>3, <2>1, DropFacts DEF DropPicked, tableVars, NoNewAway
  <2> QED
    BY <1>q, <1>3, <2>2 DEF DropPicked, churnVars
<1>4. CASE RousePicked
  <2>1. NoNewAway /\ UNCHANGED <<offline, churnVars>>
    BY <1>4, UnchangedFacts DEF RousePicked, Signal
  <2> QED
    BY <1>q, <2>1 DEF churnVars
<1>5. CASE PickConn \/ Deadline \/ StartChurn \/ UNCHANGED vars
  <2>1. UNCHANGED <<tableVars, cpc, dialed, dialers>>
    BY <1>5 DEF PickConn, Deadline, StartChurn, vars, churnVars
  <2>2. NoNewAway /\ UNCHANGED offline
    BY <2>1, UnchangedFacts DEF tableVars, slotVars
  <2> QED
    BY <1>q, <2>1, <2>2
<1> QED
  BY <1>q, <1>1, <1>2, <1>3, <1>4, <1>5 DEF Next, DriverProgress

\* From depart's critical section to rejoin's, the node keeps no connection but
\* those depart has still to drop, and once depart has returned none at all,
\* whatever the searchers, the driver and the other churn goroutines do.
THEOREM DepartedIsIsolated == Spec => [](AwayKeepsOnlyPending /\ GoneIsIsolated)
<1>1. IsolationInv => AwayKeepsOnlyPending /\ GoneIsIsolated
  <2> SUFFICES ASSUME IsolationInv, NEW n \in Churners,
                      cpc[n] \in {"stopping", "shutting", "gap", "gone", "started"}
               PROVE  peers[n] = {}
    BY DEF IsolationInv, GoneIsIsolated
  <2>1. offline[n] /\ dialed[n] = {} /\ dialers[n] = {}
    BY DEF IsolationInv, ChurnPhases, Leaving
  <2>2. outPeers[n] = {} /\ InPeers(n) = {}
    BY <2>1 DEF IsolationInv, AwayKeepsOnlyPending
  <2> QED
    BY <2>2, SearchChurnAssumption DEF IsolationInv, SystemInv, TableInv, TypeOK,
       TableTypeOK, OneConnectionPerPair, InPeers
<1> QED
  BY <1>1, IsolationInit, IsolationStep, PTL DEF Spec

-----------------------------------------------------------------------------
(* No wake-up is lost                                                      *)

\* The steps of a pacing model, and when the discovery service is stopped.
PcOfMode ==
  \A s \in Searchers :
    /\ mode = "conn" => pc[s] \notin {"waiting", "asleep"}
    /\ mode # "conn" => pc[s] \notin {"dial", "dialed", "full", "parked"}

ServicePhases ==
  /\ \A n \in Churners : cpc[n] \in {"stopping", "shutting", "gone", "started"} => ModelChurn
  /\ \A n \in Nodes :
       ~ disc[n] => n \in Churners /\ ModelChurn /\ cpc[n] \in {"shutting", "gap", "gone"}

\* A searcher at work on a running search, or about to open one: it does not end
\* unless its node leaves or fills its slots.
Working(s) ==
  \/ pc[s] \in {"session", "waiting"}
  \/ pc[s] \in {"consume", "received", "dial", "dialed"} /\ iter[s] = "live"

\* What becomes of a signal: it is about to be sent, in the channel, or with a
\* searcher that still works.
SignalKept ==
  \A n \in Nodes :
    Enduring /\ ~ deadline /\ (\E s \in Searchers : NodeOf[s] = n /\ ShouldWake(s))
      => \/ wake[n] = 1 \/ Signalling(n)
         \/ \E s \in Searchers : NodeOf[s] = n /\ Working(s)

WakeInv == IsolationInv /\ PcOfMode /\ ServicePhases /\ SignalKept

\* Every interval of a scheduled searcher has its lookup.
IntervalInv ==
  mode = "scheduled" =>
    \A s \in Searchers :
      /\ lookups[s] <= scheduleIdx[s] /\ scheduleIdx[s] <= Intervals
      /\ scheduleIdx[s] <= lookups[s] + 1
      /\ pc[s] \in Looking => scheduleIdx[s] = lookups[s] + 1
      /\ pc[s] \in {"session", "waiting", "asleep"} => scheduleIdx[s] = lookups[s]
      /\ pc[s] = "done" /\ ~ deadline => lookups[s] = Intervals

LEMMA WakeTypes ==
  ASSUME WakeInv
  PROVE  /\ pc \in [Searchers -> {"session", "consume", "received", "dial", "dialed",
                                  "closing", "full", "parked", "waiting", "asleep", "done"}]
         /\ iter \in [Searchers -> {"none", "live", "dead"}]
         /\ cpc \in [Churners -> {"up", "dropping", "rousing", "stopping", "shutting",
                                  "gap", "gone", "started", "rejoined"}]
         /\ rouse \in [Churners -> Nodes] /\ disc \in [Nodes -> BOOLEAN]
         /\ out \in [Nodes -> Nat] /\ wake \in [Nodes -> 0..1] /\ offline \in [Nodes -> BOOLEAN]
         /\ scheduleIdx \in [Searchers -> Nat] /\ lookups \in [Searchers -> Nat]
         /\ deadline \in BOOLEAN
         /\ dpc # "idle" => edge \in Nodes \X Nodes
BY DEF WakeInv, IsolationInv, SystemInv, TypeOK, TableTypeOK

\* A stopped service belongs to a node that is away.
LEMMA StoppedIsAway ==
  ASSUME WakeInv, NEW s \in Searchers
  PROVE  Away(s) <=> offline[NodeOf[s]]
<1>1. NodeOf[s] \in Nodes
  BY SearchChurnAssumption
<1>2. ~ disc[NodeOf[s]] => offline[NodeOf[s]]
  BY <1>1 DEF WakeInv, ServicePhases, IsolationInv, ChurnPhases, Leaving
<1> QED
  BY <1>2 DEF Away

\* What a step of searcher s may do to the wake-ups of its node.
SearcherOutcome(s) ==
  /\ pc' = [pc EXCEPT ![s] = pc'[s]] /\ iter' = [iter EXCEPT ![s] = iter'[s]]
  /\ UNCHANGED <<offline, disc, mode, deadline, churnVars, driverVars>>
  /\ \A n \in Nodes : /\ n # NodeOf[s] => out'[n] = out[n] /\ wake'[n] = wake[n]
                      /\ OutboundFull(n) => OutboundFull(n)'
  /\ pc'[s] = "parked" => ShouldPark(NodeOf[s]) /\ mode = "conn"
  /\ pc'[s] = "asleep" => Away(s) /\ mode # "conn"
  /\ pc'[s] \in {"dial", "dialed", "full"} => mode = "conn"
  /\ pc'[s] = "waiting" => mode # "conn"
  /\ \/ Working(s)'
     \/ /\ wake' = wake
        /\ Enduring /\ ~ deadline /\ Working(s) =>
             offline[NodeOf[s]] \/ (mode = "conn" /\ ShouldPark(NodeOf[s]))

LEMMA NextResultIn ==
  ASSUME NEW s \in Searchers, NextResult(s), WakeInv
  PROVE  /\ pc' = [pc EXCEPT ![s] = pc'[s]]
         /\ pc'[s] \in {"consume", "closing", "done"}
         /\ Enduring => pc'[s] = "consume"
<1>1. PICK l \in {"consume", "closing", "done"} :
        pc' = [pc EXCEPT ![s] = l] /\ (Enduring => l = "consume")
  <2>1. TargetCount = 0 => ~ TargetReached(s)
    BY DEF TargetReached
  <2>2. CASE mode = "scheduled" /\ TargetReached(s)
    BY <2>2 DEF NextResult, Goto, Enduring
  <2>3. CASE mode = "conn" /\ TargetReached(s)
    BY <2>1, <2>3 DEF NextResult, Goto, Enduring
  <2>4. CASE ~ (mode = "scheduled" /\ TargetReached(s)) /\ ~ (mode = "conn" /\ TargetReached(s))
    BY <2>4 DEF NextResult, Goto
  <2> QED
    BY <2>2, <2>3, <2>4
<1> QED
  BY <1>1, WakeTypes

LEMMA SearcherKeeps ==
  ASSUME WakeInv, NEW s \in Searchers, SearcherStep(s)
  PROVE  SearcherOutcome(s)
<1>0. NodeOf[s] \in Nodes
  BY SearchChurnAssumption
<1>t. /\ pc \in [Searchers -> {"session", "consume", "received", "dial", "dialed",
                               "closing", "full", "parked", "waiting", "asleep", "done"}]
      /\ iter \in [Searchers -> {"none", "live", "dead"}]
      /\ out \in [Nodes -> Nat] /\ wake \in [Nodes -> 0..1] /\ offline \in [Nodes -> BOOLEAN]
  BY WakeTypes
<1>p. /\ mode = "conn" => pc[s] \notin {"waiting", "asleep"}
      /\ mode # "conn" => pc[s] \notin {"dial", "dialed", "full", "parked"}
  BY DEF WakeInv, PcOfMode
<1>a. Away(s) <=> offline[NodeOf[s]]
  BY StoppedIsAway
<1> USE DEF searchVars, tableVars
<1>u. ASSUME UNCHANGED tableVars
      PROVE  \A n \in Nodes : /\ n # NodeOf[s] => out'[n] = out[n] /\ wake'[n] = wake[n]
                              /\ OutboundFull(n) => OutboundFull(n)'
  BY <1>u DEF OutboundFull
<1>1. CASE OpenSearch(s)
  <2>1. /\ pc[s] = "session" /\ pc' = [pc EXCEPT ![s] = "consume"]
        /\ iter' = [iter EXCEPT ![s] = IF disc[NodeOf[s]] THEN "live" ELSE "dead"]
        /\ UNCHANGED <<tableVars, disc, mode, deadline, churnVars, driverVars>>
    BY <1>1 DEF OpenSearch, Goto
  <2>2. pc'[s] = "consume" /\ iter'[s] = IF disc[NodeOf[s]] THEN "live" ELSE "dead"
    BY <1>t, <2>1
  <2>3. Working(s)' \/ offline[NodeOf[s]]
    BY <1>a, <2>2 DEF Working, Away
  <2> QED
    BY <1>t, <1>u, <2>1, <2>2, <2>3 DEF SearcherOutcome
<1>2. CASE ScheduleEnds(s) \/ LookupTimeout(s)
  <2>1. /\ mode = "scheduled" /\ UNCHANGED <<tableVars, disc, iter, mode, deadline, churnVars, driverVars>>
        /\ (pc' = [pc EXCEPT ![s] = "done"] \/ pc' = [pc EXCEPT ![s] = "closing"])
    BY <1>2 DEF ScheduleEnds, LookupTimeout, Goto
  <2>2. pc'[s] \in {"done", "closing"} /\ ~ Enduring
    BY <1>t, <2>1 DEF Enduring
  <2> QED
    BY <1>t, <1>u, <2>1, <2>2 DEF SearcherOutcome
<1>3. ASSUME NEW n \in Nodes, ReceiveNode(s, n)
      PROVE  SearcherOutcome(s)
  <2>1. /\ pc[s] = "consume" /\ pc' = [pc EXCEPT ![s] = "received"]
        /\ UNCHANGED <<tableVars, disc, iter, mode, deadline, churnVars, driverVars>>
    BY <1>3 DEF ReceiveNode, Goto
  <2>2. pc'[s] = "received" /\ iter'[s] = iter[s]
    BY <1>t, <2>1
  <2>3. Working(s)' \/ ~ Working(s)
    BY <2>1, <2>2 DEF Working
  <2> QED
    BY <1>t, <1>u, <2>1, <2>2, <2>3 DEF SearcherOutcome
<1>4. CASE EndOfNodes(s)
  <2>1. /\ pc[s] = "consume" /\ iter[s] = "dead" /\ pc' = [pc EXCEPT ![s] = "closing"]
        /\ UNCHANGED <<tableVars, disc, iter, mode, deadline, churnVars, driverVars>>
    BY <1>4 DEF EndOfNodes, Goto
  <2>2. pc'[s] = "closing" /\ ~ Working(s)
    BY <1>t, <2>1 DEF Working
  <2> QED
    BY <1>t, <1>u, <2>1, <2>2 DEF SearcherOutcome
<1>5. CASE CheckPark(s)
  <2>0. /\ pc[s] = "received"
        /\ UNCHANGED <<tableVars, disc, iter, mode, deadline, churnVars, driverVars>>
    BY <1>5 DEF CheckPark
  <2> DEFINE park == IF mode = "conn" THEN ShouldPark(NodeOf[s]) ELSE offline[NodeOf[s]]
  <2>1. CASE park /\ Goto(s, "closing")
    <3>1. pc' = [pc EXCEPT ![s] = "closing"] /\ pc'[s] = "closing"
      BY <1>t, <2>1 DEF Goto
    <3>2. offline[NodeOf[s]] \/ (mode = "conn" /\ ShouldPark(NodeOf[s]))
      BY <2>1
    <3> QED
      BY <1>t, <1>u, <2>0, <3>1, <3>2 DEF SearcherOutcome
  <2>2. CASE mode = "conn" /\ Goto(s, "dial")
    <3>1. pc' = [pc EXCEPT ![s] = "dial"] /\ pc'[s] = "dial"
      BY <1>t, <2>2 DEF Goto
    <3>2. Working(s)' \/ ~ Working(s)
      BY <2>0, <3>1 DEF Working
    <3> QED
      BY <1>t, <1>u, <2>0, <2>2, <3>1, <3>2 DEF SearcherOutcome
  <2>3. CASE NextResult(s)
    <3>1. /\ pc' = [pc EXCEPT ![s] = pc'[s]] /\ pc'[s] \in {"consume", "closing", "done"}
          /\ Enduring => pc'[s] = "consume"
      BY <2>3, NextResultIn
    <3>2. Enduring => Working(s)' \/ ~ Working(s)
      BY <2>0, <3>1 DEF Working
    <3> QED
      BY <1>t, <1>u, <2>0, <3>1, <3>2 DEF SearcherOutcome
  <2> QED
    BY <1>5, <2>1, <2>2, <2>3 DEF CheckPark
<1>6. CASE DialSucceeds(s)
  <2>1. /\ pc[s] = "dial" /\ pc' = [pc EXCEPT ![s] = "dialed"] /\ Connect(NodeOf[s], cand[s])
        /\ UNCHANGED <<disc, iter, mode, deadline, churnVars, driverVars>>
    BY <1>6 DEF DialSucceeds, Goto
  <2>2. out' = [out EXCEPT ![NodeOf[s]] = @ + 1] /\ UNCHANGED <<wake, offline>>
    BY <2>1 DEF Connect
  <2>3. \A n \in Nodes : out'[n] = IF n = NodeOf[s] THEN out[n] + 1 ELSE out[n]
    BY <1>t, <1>0, <2>2
  <2>4. \A n \in Nodes : OutboundFull(n) => OutboundFull(n)'
    BY <1>t, <2>3, Budgets DEF OutboundFull
  <2>5. pc'[s] = "dialed" /\ mode = "conn"
    BY <1>t, <1>p, <2>1
  <2>6. Working(s)' \/ ~ Working(s)
    BY <2>1, <2>5 DEF Working
  <2> QED
    BY <1>t, <2>1, <2>2, <2>3, <2>4, <2>5, <2>6 DEF SearcherOutcome
<1>7. CASE DialFailed(s) \/ (CheckFull(s) /\ NextResult(s))
  <2>1. /\ pc[s] \in {"dial", "dialed"} /\ NextResult(s)
        /\ UNCHANGED <<tableVars, disc, iter, mode, deadline, churnVars, driverVars>>
    BY <1>7 DEF DialFailed, CheckFull
  <2>2. /\ pc' = [pc EXCEPT ![s] = pc'[s]] /\ pc'[s] \in {"consume", "closing", "done"}
        /\ Enduring => pc'[s] = "consume"
    BY <2>1, NextResultIn
  <2>3. Enduring => Working(s)' \/ ~ Working(s)
    BY <2>1, <2>2 DEF Working
  <2> QED
    BY <1>t, <1>u, <2>1, <2>2, <2>3 DEF SearcherOutcome
<1>8. CASE CheckFull(s) /\ ~ NextResult(s)
  <2>1. /\ pc[s] = "dialed" /\ OutboundFull(NodeOf[s]) /\ pc' = [pc EXCEPT ![s] = "full"]
        /\ UNCHANGED <<tableVars, disc, iter, mode, deadline, churnVars, driverVars>>
    BY <1>8 DEF CheckFull, Goto
  <2>2. pc'[s] = "full" /\ mode = "conn" /\ ShouldPark(NodeOf[s])
    BY <1>t, <1>p, <2>1 DEF ShouldPark, OutboundFull
  <2> QED
    BY <1>t, <1>u, <2>1, <2>2 DEF SearcherOutcome
<1>9. CASE EndSession(s)
  <2>0. /\ pc[s] \in {"closing", "full"} /\ iter' = [iter EXCEPT ![s] = "none"]
        /\ UNCHANGED <<tableVars, disc, mode, deadline, churnVars, driverVars>>
    BY <1>9 DEF EndSession
  <2>1. mode \in {"conn", "continuous", "scheduled"}
    BY SearchChurnAssumption DEF WakeInv, IsolationInv, SystemInv, TypeOK
  <2>2. \/ mode = "conn" /\ ShouldPark(NodeOf[s]) /\ pc' = [pc EXCEPT ![s] = "parked"]
        \/ mode # "conn" /\ pc' = [pc EXCEPT ![s] = "waiting"]
        \/ pc' = [pc EXCEPT ![s] = "done"]
    BY <1>9, <2>1 DEF EndSession, Goto
  <2>3. \/ mode = "conn" /\ ShouldPark(NodeOf[s]) /\ pc'[s] = "parked"
        \/ mode # "conn" /\ pc'[s] = "waiting"
        \/ pc'[s] = "done"
    BY <1>t, <2>2
  <2>4. pc' = [pc EXCEPT ![s] = pc'[s]] /\ iter' = [iter EXCEPT ![s] = iter'[s]] /\ ~ Working(s)
    BY <1>t, <2>0, <2>2 DEF Working
  <2> QED
    BY <1>u, <2>0, <2>3, <2>4 DEF SearcherOutcome
<1>10. CASE CheckAway(s)
  <2>0. /\ pc[s] = "waiting" /\ pc' = [pc EXCEPT ![s] = IF Away(s) THEN "asleep" ELSE "session"]
        /\ UNCHANGED <<tableVars, disc, iter, mode, deadline, churnVars, driverVars>>
    BY <1>10 DEF CheckAway, Goto
  <2>1. pc'[s] = (IF Away(s) THEN "asleep" ELSE "session") /\ mode # "conn"
    BY <1>t, <1>p, <2>0
  <2>2. Working(s)' \/ offline[NodeOf[s]]
    BY <1>a, <2>1 DEF Working
  <2> QED
    BY <1>t, <1>u, <2>0, <2>1, <2>2 DEF SearcherOutcome
<1>11. CASE WakeUp(s)
  <2>0. /\ pc[s] \in {"parked", "asleep"} /\ Receive(NodeOf[s])
        /\ pc' = [pc EXCEPT ![s] = IF pc[s] = "parked" THEN "session" ELSE "waiting"]
        /\ UNCHANGED <<disc, iter, mode, deadline, churnVars, driverVars>>
    BY <1>11 DEF WakeUp, Goto
  <2>1. wake' = [wake EXCEPT ![NodeOf[s]] = 0] /\ UNCHANGED <<out, offline>>
    BY <2>0 DEF Receive, slotVars
  <2>2. /\ \A n \in Nodes : n # NodeOf[s] => out'[n] = out[n] /\ wake'[n] = wake[n]
        /\ \A n \in Nodes : OutboundFull(n) => OutboundFull(n)'
    BY <1>t, <2>1 DEF OutboundFull
  <2>3. pc'[s] = IF pc[s] = "parked" THEN "session" ELSE "waiting"
    BY <1>t, <2>0
  <2>4. Working(s)'
    BY <2>3 DEF Working
  <2> QED
    BY <1>t, <1>p, <2>0, <2>1, <2>2, <2>3, <2>4 DEF SearcherOutcome
<1>12. CASE HitDeadline(s)
  <2>0. /\ deadline /\ pc' = [pc EXCEPT ![s] = "done"] /\ iter' = [iter EXCEPT ![s] = "none"]
        /\ UNCHANGED <<tableVars, disc, mode, deadline, churnVars, driverVars>>
    BY <1>12 DEF HitDeadline, Goto
  <2>1. pc'[s] = "done" /\ iter'[s] = "none"
    BY <1>t, <2>0
  <2> QED
    BY <1>t, <1>u, <2>0, <2>1 DEF SearcherOutcome
<1> QED
  BY <1>1, <1>2, <1>3, <1>4, <1>5, <1>6, <1>7, <1>8, <1>9, <1>10, <1>11, <1>12 DEF SearcherStep

\* A searcher's step keeps what it has to.
LEMMA SearcherWake ==
  ASSUME WakeInv, NEW s \in Searchers, SearcherStep(s)
  PROVE  PcOfMode' /\ ServicePhases' /\ SignalKept'
<1>0. NodeOf[s] \in Nodes /\ SearcherOutcome(s)
  BY SearchChurnAssumption, SearcherKeeps
<1>t. /\ pc \in [Searchers -> {"session", "consume", "received", "dial", "dialed",
                               "closing", "full", "parked", "waiting", "asleep", "done"}]
      /\ iter \in [Searchers -> {"none", "live", "dead"}]
  BY WakeTypes
<1>1. \A t \in Searchers : t # s => pc'[t] = pc[t] /\ iter'[t] = iter[t]
  BY <1>0, <1>t DEF SearcherOutcome
<1>2. UNCHANGED <<offline, disc, mode, deadline, cpc, rouse, dpc, edge>>
  BY <1>0 DEF SearcherOutcome, churnVars, driverVars
<1>3. PcOfMode'
  BY <1>0, <1>1, <1>2 DEF SearcherOutcome, WakeInv, PcOfMode
<1>4. ServicePhases'
  BY <1>2 DEF WakeInv, ServicePhases
<1>5. ASSUME NEW n \in Nodes, Enduring', ~ deadline',
             NEW t \in Searchers, NodeOf[t] = n, ShouldWake(t)'
      PROVE  \/ wake'[n] = 1 \/ Signalling(n)'
             \/ \E u \in Searchers : NodeOf[u] = n /\ Working(u)'
  <2>1. Enduring /\ ~ deadline
    BY <1>2, <1>5 DEF Enduring
  <2>2. Signalling(n)' <=> Signalling(n)
    BY <1>2 DEF Signalling
  <2>3. ShouldPark(n) => ShouldPark(n)'
    BY <1>0, <1>2 DEF SearcherOutcome, ShouldPark, OutboundFull
  <2>4. Away(t)' <=> Away(t)
    BY <1>2 DEF Away
  <2>5. t # s
    <3>1. pc'[s] = "parked" => ShouldPark(NodeOf[s])
      BY <1>0 DEF SearcherOutcome
    <3>2. pc'[s] = "asleep" => Away(s)
      BY <1>0 DEF SearcherOutcome
    <3> QED
      BY <1>5, <2>3, <2>4, <3>1, <3>2 DEF ShouldWake
  <2>6. ShouldWake(t)
    BY <1>1, <1>5, <2>3, <2>4, <2>5 DEF ShouldWake
  <2>7. \/ wake[n] = 1 \/ Signalling(n)
        \/ \E u \in Searchers : NodeOf[u] = n /\ Working(u)
    BY <1>5, <2>1, <2>6 DEF WakeInv, SignalKept
  <2>8. ~ offline[n] /\ (mode = "conn" => ~ ShouldPark(n))
    <3>1. Away(t) <=> offline[n]
      BY <1>5, StoppedIsAway
    <3>2. mode = "conn" => pc[t] # "asleep"
      BY DEF WakeInv, PcOfMode
    <3> QED
      BY <1>5, <2>6, <3>1, <3>2 DEF ShouldWake, ShouldPark
  <2>9. CASE Working(s)' /\ NodeOf[s] = n
    BY <2>9
  <2>10. CASE Working(s)' /\ NodeOf[s] # n
    <3>1. wake'[n] = wake[n]
      BY <1>0, <2>10 DEF SearcherOutcome
    <3>2. \A u \in Searchers : NodeOf[u] = n /\ Working(u) => Working(u)'
      BY <1>1, <2>10 DEF Working
    <3> QED
      BY <2>2, <2>7, <3>1, <3>2
  <2>11. CASE ~ Working(s)'
    <3>1. wake'[n] = wake[n]
      BY <1>0, <2>11 DEF SearcherOutcome
    <3>2. NodeOf[s] = n => ~ Working(s)
      BY <1>0, <2>1, <2>8, <2>11 DEF SearcherOutcome
    <3>3. \A u \in Searchers : NodeOf[u] = n /\ Working(u) => Working(u)'
      BY <1>1, <3>2 DEF Working
    <3> QED
      BY <2>2, <2>7, <3>1, <3>3
  <2> QED
    BY <2>9, <2>10, <2>11
<1>6. SignalKept'
  BY <1>5 DEF SignalKept
<1> QED
  BY <1>3, <1>4, <1>6

\* A step of another goroutine keeps the signals unless it gives a searcher of an
\* online node a reason to wake up, and then it signals.
LEMMA OthersKeep ==
  ASSUME WakeInv, UNCHANGED <<pc, mode>>, deadline \in BOOLEAN, deadline => deadline',
         \A n \in Nodes :
           \/ offline'[n] \/ wake'[n] = 1 \/ Signalling(n)'
           \/ /\ ShouldPark(n) => ShouldPark(n)'
              /\ offline[n] \/ ~ disc[n] => ~ disc'[n]
              /\ Signalling(n) => Signalling(n)'
              /\ wake[n] = 1 => wake'[n] = 1
              /\ \A s \in Searchers : NodeOf[s] = n => iter'[s] = iter[s]
  PROVE  SignalKept'
<1> SUFFICES ASSUME NEW n \in Nodes, Enduring', ~ deadline',
                    NEW t \in Searchers, NodeOf[t] = n, ShouldWake(t)'
             PROVE  \/ wake'[n] = 1 \/ Signalling(n)'
                    \/ \E u \in Searchers : NodeOf[u] = n /\ Working(u)'
  BY DEF SignalKept
<1>1. Enduring /\ ~ deadline
  BY DEF Enduring
<1>2. ~ offline'[n]
  BY DEF ShouldWake, ShouldPark, Away
<1>3. CASE wake'[n] = 1 \/ Signalling(n)'
  BY <1>3
<1>4. CASE ~ (wake'[n] = 1 \/ Signalling(n)')
  <2>1. /\ ShouldPark(n) => ShouldPark(n)'
        /\ offline[n] \/ ~ disc[n] => ~ disc'[n]
        /\ Signalling(n) => Signalling(n)'
        /\ wake[n] = 1 => wake'[n] = 1
        /\ \A s \in Searchers : NodeOf[s] = n => iter'[s] = iter[s]
    BY <1>2, <1>4
  <2>2. ShouldWake(t)
    BY <2>1 DEF ShouldWake, Away
  <2>3. PICK u \in Searchers : NodeOf[u] = n /\ Working(u)
    BY <1>1, <1>4, <2>1, <2>2 DEF WakeInv, SignalKept
  <2>4. Working(u)'
    BY <2>1, <2>3 DEF Working
  <2> QED
    BY <2>3, <2>4
<1> QED
  BY <1>3, <1>4

\* dropConn frees a slot of the dialer only.
LEMMA DropFrees ==
  ASSUME WakeInv, NEW from \in Nodes, NEW to \in Nodes, NEW w \in BOOLEAN, Drop(from, to, w)
  PROVE  /\ UNCHANGED <<wake, offline>>
         /\ \A n \in Nodes : n # from => (ShouldPark(n) => ShouldPark(n)')
<1>1. UNCHANGED <<wake, offline>> /\ out' = [out EXCEPT ![from] = @ - 1]
  BY DEF Drop
<1>2. out \in [Nodes -> Nat]
  BY WakeTypes
<1> QED
  BY <1>1, <1>2 DEF ShouldPark

LEMMA ChurnWake ==
  ASSUME WakeInv, NEW n \in Churners, ChurnStep(n)
  PROVE  PcOfMode' /\ ServicePhases' /\ SignalKept'
<1> USE SearchChurnAssumption DEF searchVars, driverVars
<1>t. /\ n \in Nodes
      /\ cpc \in [Churners -> {"up", "dropping", "rousing", "stopping", "shutting",
                               "gap", "gone", "started", "rejoined"}]
      /\ rouse \in [Churners -> Nodes] /\ disc \in [Nodes -> BOOLEAN] /\ deadline \in BOOLEAN
      /\ wake \in [Nodes -> 0..1] /\ offline \in [Nodes -> BOOLEAN]
  BY WakeTypes
<1>0. UNCHANGED <<pc, mode, deadline, dpc, edge>> /\ \A c \in Churners : c # n => cpc'[c] = cpc[c] /\ rouse'[c] = rouse[c]
  <2>1. UNCHANGED <<pc, mode, deadline, dpc, edge>>
    BY DEF ChurnStep, ChurnProgress, Depart, DropDialed, DropDialer, RouseDialer, DepartReturns,
       StopHost, CloseHost, RejoinWake, LeaveForGood, StartHost, Rejoin
  <2>2. CASE Depart(n) \/ DepartReturns(n) \/ StopHost(n) \/ CloseHost(n) \/ RejoinWake(n)
             \/ LeaveForGood(n) \/ StartHost(n) \/ Rejoin(n)
    <3>1. UNCHANGED rouse
      BY <2>2 DEF Depart, DepartReturns, StopHost, CloseHost, RejoinWake, LeaveForGood, StartHost,
         Rejoin
    <3>2. ASSUME NEW l, ChurnGoto(n, l) PROVE \A c \in Churners : c # n => cpc'[c] = cpc[c]
      BY <1>t, <3>2 DEF ChurnGoto
    <3>3. \A c \in Churners : c # n => cpc'[c] = cpc[c]
      BY <2>2, <3>2 DEF Depart, DepartReturns, StopHost, CloseHost, RejoinWake, LeaveForGood, StartHost,
         Rejoin
    <3> QED
      BY <2>1, <3>1, <3>3
  <2>3. CASE RouseDialer(n)
    BY <1>t, <2>1, <2>3 DEF RouseDialer, ChurnGoto
  <2>4. ASSUME NEW j \in Nodes, DropDialed(n, j) \/ DropDialer(n, j)
        PROVE  \A c \in Churners : c # n => cpc'[c] = cpc[c] /\ rouse'[c] = rouse[c]
    BY <1>t, <2>4 DEF DropDialed, DropDialer, ChurnGoto
  <2> QED
    BY <2>1, <2>2, <2>3, <2>4 DEF ChurnStep, ChurnProgress
<1>1. PcOfMode'
  BY <1>0 DEF WakeInv, PcOfMode
<1>g. \A m \in Nodes : ~ disc[m] => offline[m]
  BY DEF WakeInv, ServicePhases, IsolationInv, ChurnPhases, Leaving
<1>l. cpc[n] \in Leaving <=> offline[n]
  BY DEF WakeInv, IsolationInv, ChurnPhases
<1>p. /\ \A c \in Churners : cpc[c] \in {"stopping", "shutting", "gone", "started"} => ModelChurn
      /\ \A m \in Nodes :
           ~ disc[m] => m \in Churners /\ ModelChurn /\ cpc[m] \in {"shutting", "gap", "gone"}
  BY DEF WakeInv, ServicePhases
\* A step that signals nobody and after which n is away.
<1>q. ASSUME offline'[n], cpc[n] \notin {"rousing", "rejoined"}, UNCHANGED <<wake, rouse>>,
             \A m \in Nodes : m # n => /\ offline'[m] = offline[m] /\ disc'[m] = disc[m]
                                       /\ ShouldPark(m) => ShouldPark(m)'
                                       /\ \A s \in Searchers : NodeOf[s] = m => iter'[s] = iter[s]
      PROVE  SignalKept'
  <2>1. \A m \in Nodes : Signalling(m) => Signalling(m)'
    BY <1>0, <1>q DEF Signalling
  <2>2. ASSUME NEW m \in Nodes
        PROVE  \/ offline'[m] \/ wake'[m] = 1 \/ Signalling(m)'
               \/ /\ ShouldPark(m) => ShouldPark(m)'
                  /\ offline[m] \/ ~ disc[m] => ~ disc'[m]
                  /\ Signalling(m) => Signalling(m)'
                  /\ wake[m] = 1 => wake'[m] = 1
                  /\ \A s \in Searchers : NodeOf[s] = m => iter'[s] = iter[s]
    BY <1>g, <1>q, <2>1
  <2> QED
    BY <1>0, <1>t, <2>2, OthersKeep
\* A step that signals node k, or is about to.
<1>s. ASSUME NEW k \in Nodes, wake'[k] = 1 \/ Signalling(k)', UNCHANGED <<disc, iter>>,
             \A m \in Nodes : m # k => /\ offline'[m] = offline[m]
                                       /\ ShouldPark(m) => ShouldPark(m)'
                                       /\ wake[m] = 1 => wake'[m] = 1
                                       /\ Signalling(m) => Signalling(m)'
      PROVE  SignalKept'
  <2>1. ASSUME NEW m \in Nodes
        PROVE  \/ offline'[m] \/ wake'[m] = 1 \/ Signalling(m)'
               \/ /\ ShouldPark(m) => ShouldPark(m)'
                  /\ offline[m] \/ ~ disc[m] => ~ disc'[m]
                  /\ Signalling(m) => Signalling(m)'
                  /\ wake[m] = 1 => wake'[m] = 1
                  /\ \A s \in Searchers : NodeOf[s] = m => iter'[s] = iter[s]
    BY <1>g, <1>s
  <2> QED
    BY <1>0, <1>t, <2>1, OthersKeep
<1>2. CASE Depart(n)
  <2>1. /\ cpc[n] = "up" /\ cpc' = [cpc EXCEPT ![n] = "dropping"]
        /\ offline' = [offline EXCEPT ![n] = TRUE] /\ UNCHANGED <<out, wake, rouse, disc, iter>>
    BY <1>2 DEF Depart, MarkOffline, ChurnGoto, slotVars
  <2>2. SignalKept'
    BY <1>q, <1>t, <2>1 DEF ShouldPark
  <2>3. ServicePhases'
    BY <1>p, <1>t, <2>1 DEF ServicePhases
  <2> QED
    BY <1>1, <2>2, <2>3
<1>3. ASSUME NEW j \in Nodes, DropDialed(n, j)
      PROVE  ServicePhases' /\ SignalKept'
  <2>1. /\ cpc[n] = "dropping" /\ UNCHANGED <<cpc, rouse, disc, iter>>
        /\ Drop(n, j, FALSE) \/ UNCHANGED tableVars
    BY <1>3 DEF DropDialed
  <2>2. UNCHANGED <<wake, offline>> /\ \A m \in Nodes : m # n => (ShouldPark(m) => ShouldPark(m)')
    BY <1>t, <2>1, DropFrees DEF tableVars, ShouldPark
  <2>3. SignalKept'
    BY <1>q, <1>l, <2>1, <2>2 DEF Leaving
  <2>4. ServicePhases'
    BY <1>p, <2>1 DEF ServicePhases
  <2> QED
    BY <2>3, <2>4
<1>4. ASSUME NEW j \in Nodes, DropDialer(n, j)
      PROVE  ServicePhases' /\ SignalKept'
  <2>1. cpc[n] = "dropping" /\ UNCHANGED <<disc, iter>>
    BY <1>4 DEF DropDialer
  <2>2. CASE UNCHANGED <<tableVars, cpc, rouse>>
    <3>1. UNCHANGED <<wake, offline>> /\ \A m \in Nodes : ShouldPark(m) => ShouldPark(m)'
      BY <2>2 DEF tableVars, ShouldPark
    <3> QED
      BY <1>q, <1>l, <1>p, <2>1, <2>2, <3>1 DEF Leaving, ServicePhases
  <2>3. CASE Drop(j, n, TRUE) /\ cpc' = [cpc EXCEPT ![n] = "rousing"] /\ rouse' = [rouse EXCEPT ![n] = j]
    <3>1. UNCHANGED <<wake, offline>> /\ \A m \in Nodes : m # j => (ShouldPark(m) => ShouldPark(m)')
      BY <1>t, <2>3, DropFrees
    <3>2. cpc'[n] = "rousing" /\ rouse'[n] = j
      BY <1>t, <2>3
    <3>3. Signalling(j)'
      BY <3>2 DEF Signalling
    <3>4. \A m \in Nodes : Signalling(m) => Signalling(m)'
      BY <1>0, <2>1 DEF Signalling
    <3>5. SignalKept'
      BY <1>s, <2>1, <3>1, <3>3, <3>4
    <3>6. ServicePhases'
      BY <1>0, <1>p, <2>1, <3>2 DEF ServicePhases
    <3> QED
      BY <3>5, <3>6
  <2> QED
    BY <1>4, <2>2, <2>3 DEF DropDialer, ChurnGoto
<1>5. CASE RouseDialer(n) \/ RejoinWake(n)
  <2> DEFINE k == IF cpc[n] = "rousing" THEN rouse[n] ELSE n
  <2>1. /\ cpc[n] \in {"rousing", "rejoined"} /\ Signal(k) /\ UNCHANGED <<disc, iter>>
        /\ cpc' = [cpc EXCEPT ![n] = IF cpc[n] = "rousing" THEN "dropping" ELSE "up"]
    BY <1>5 DEF RouseDialer, RejoinWake, ChurnGoto
  <2>2. k \in Nodes
    BY <1>t
  <2>3. wake' = [wake EXCEPT ![k] = 1] /\ UNCHANGED <<out, offline>>
    BY <2>1 DEF Signal, slotVars
  <2>4. wake'[k] = 1 /\ \A m \in Nodes : wake[m] = 1 => wake'[m] = 1
    BY <1>t, <2>2, <2>3
  <2>5. \A m \in Nodes : ShouldPark(m) => ShouldPark(m)'
    BY <2>3 DEF ShouldPark
  <2>6. \A m \in Nodes : m # k /\ Signalling(m) => Signalling(m)'
    BY <1>0, <1>t, <2>1 DEF Signalling
  <2>7. SignalKept'
    <3> HIDE DEF k
    <3> QED
      BY <1>s, <2>1, <2>2, <2>3, <2>4, <2>5, <2>6
  <2>8. ServicePhases'
    BY <1>p, <1>t, <2>1 DEF ServicePhases
  <2> QED
    BY <1>1, <2>7, <2>8
<1>6. CASE DepartReturns(n) \/ LeaveForGood(n) \/ StopHost(n) \/ StartHost(n)
  <2>1. /\ cpc[n] \in {"dropping", "gap", "stopping"} /\ UNCHANGED <<tableVars, rouse, iter>>
        /\ disc' = disc \/ \E b \in BOOLEAN : disc' = [disc EXCEPT ![n] = b]
    BY <1>6 DEF DepartReturns, LeaveForGood, StopHost, StartHost
  <2>2. /\ \A m \in Nodes : m # n => disc'[m] = disc[m]
        /\ \A m \in Nodes : ShouldPark(m) => ShouldPark(m)'
        /\ UNCHANGED <<wake, offline>>
    BY <1>t, <2>1 DEF tableVars, ShouldPark
  <2>3. SignalKept'
    BY <1>q, <1>l, <2>1, <2>2 DEF Leaving
  <2>4. ServicePhases'
    <3>1. CASE DepartReturns(n)
      BY <1>p, <1>t, <3>1 DEF DepartReturns, ChurnGoto, ServicePhases
    <3>2. CASE LeaveForGood(n)
      BY <1>p, <1>t, <3>2 DEF LeaveForGood, ChurnGoto, ServicePhases
    <3>3. CASE StopHost(n)
      BY <1>p, <1>t, <3>3 DEF StopHost, ChurnGoto, ServicePhases
    <3>4. CASE StartHost(n)
      BY <1>p, <1>t, <3>4 DEF StartHost, ChurnGoto, ServicePhases
    <3> QED
      BY <1>6, <3>1, <3>2, <3>3, <3>4
  <2> QED
    BY <1>1, <2>3, <2>4
<1>7. CASE CloseHost(n)
  <2>1. /\ cpc[n] = "shutting" /\ cpc' = [cpc EXCEPT ![n] = "gap"] /\ UNCHANGED <<tableVars, rouse, disc>>
        /\ iter' = [s \in Searchers |-> IF NodeOf[s] = n /\ iter[s] = "live" THEN "dead" ELSE iter[s]]
    BY <1>7 DEF CloseHost, ChurnGoto
  <2>2. /\ \A m \in Nodes : ShouldPark(m) => ShouldPark(m)'
        /\ UNCHANGED <<wake, offline>>
        /\ \A s \in Searchers : NodeOf[s] # n => iter'[s] = iter[s]
    BY <2>1 DEF tableVars, ShouldPark
  <2>3. SignalKept'
    BY <1>q, <1>l, <2>1, <2>2 DEF Leaving
  <2>4. ServicePhases'
    BY <1>p, <1>t, <2>1 DEF ServicePhases
  <2> QED
    BY <1>1, <2>3, <2>4
<1>8. CASE Rejoin(n)
  <2>1. /\ cpc[n] = (IF ModelChurn THEN "started" ELSE "gap") /\ cpc' = [cpc EXCEPT ![n] = "rejoined"]
        /\ offline' = [offline EXCEPT ![n] = FALSE] /\ UNCHANGED <<out, wake, disc, iter, rouse>>
    BY <1>8 DEF Rejoin, MarkOnline, ChurnGoto, slotVars
  <2>2. cpc'[n] = "rejoined"
    BY <1>t, <2>1
  <2>3. Signalling(n)' /\ \A m \in Nodes : Signalling(m) => Signalling(m)'
    BY <1>0, <2>1, <2>2 DEF Signalling
  <2>4. \A m \in Nodes : m # n => offline'[m] = offline[m] /\ (ShouldPark(m) => ShouldPark(m)')
    BY <1>t, <2>1 DEF ShouldPark
  <2>5. SignalKept'
    BY <1>s, <1>t, <2>1, <2>3, <2>4
  <2>6. ServicePhases'
    BY <1>p, <1>t, <2>1 DEF ServicePhases
  <2> QED
    BY <1>1, <2>5, <2>6
<1> QED
  BY <1>1, <1>2, <1>3, <1>4, <1>5, <1>6, <1>7, <1>8 DEF ChurnStep, ChurnProgress

LEMMA WakeStep == WakeInv /\ [Next]_vars => WakeInv'
<1> SUFFICES ASSUME WakeInv, [Next]_vars PROVE PcOfMode' /\ ServicePhases' /\ SignalKept'
  BY IsolationStep DEF WakeInv
<1>t. deadline \in BOOLEAN /\ wake \in [Nodes -> 0..1] /\ (dpc # "idle" => edge \in Nodes \X Nodes)
  BY WakeTypes
<1>g. \A m \in Nodes : ~ disc[m] => offline[m]
  BY DEF WakeInv, ServicePhases, IsolationInv, ChurnPhases, Leaving
<1> USE DEF searchVars, churnVars, driverVars
<1>0. ASSUME UNCHANGED <<pc, mode, disc, cpc>> PROVE PcOfMode' /\ ServicePhases'
  BY <1>0 DEF WakeInv, PcOfMode, ServicePhases
<1>1. ASSUME NEW s \in Searchers, SearcherStep(s)
      PROVE  PcOfMode' /\ ServicePhases' /\ SignalKept'
  BY <1>1, SearcherWake
<1>2. ASSUME NEW n \in Churners, ChurnStep(n)
      PROVE  PcOfMode' /\ ServicePhases' /\ SignalKept'
  BY <1>2, ChurnWake
<1>3. CASE Deadline \/ StartChurn \/ PickConn \/ UNCHANGED vars
  <2>1. /\ UNCHANGED <<tableVars, pc, iter, mode, disc, cpc, rouse>> /\ (deadline => deadline')
        /\ UNCHANGED <<dpc, edge>> \/ dpc = "idle"
    BY <1>3 DEF Deadline, StartChurn, PickConn, vars
  <2>2. \A m \in Nodes : Signalling(m) => Signalling(m)'
    BY <2>1 DEF Signalling
  <2>3. UNCHANGED <<wake, offline>> /\ \A m \in Nodes : ShouldPark(m) => ShouldPark(m)'
    BY <2>1 DEF tableVars, ShouldPark
  <2>4. ASSUME NEW m \in Nodes
        PROVE  \/ offline'[m] \/ wake'[m] = 1 \/ Signalling(m)'
               \/ /\ ShouldPark(m) => ShouldPark(m)'
                  /\ offline[m] \/ ~ disc[m] => ~ disc'[m]
                  /\ Signalling(m) => Signalling(m)'
                  /\ wake[m] = 1 => wake'[m] = 1
                  /\ \A s \in Searchers : NodeOf[s] = m => iter'[s] = iter[s]
    BY <1>g, <2>1, <2>2, <2>3
  <2>5. SignalKept'
    BY <1>t, <2>1, <2>4, OthersKeep
  <2> QED
    BY <1>0, <2>1, <2>5
<1>4. CASE DropPicked
  <2>1. /\ dpc = "picked" /\ UNCHANGED <<pc, iter, mode, disc, cpc, rouse, deadline>>
        /\ \/ Drop(edge[1], edge[2], TRUE) /\ dpc' = "rousing" /\ edge' = edge
           \/ UNCHANGED tableVars
    BY <1>4 DEF DropPicked
  <2>2. edge[1] \in Nodes /\ edge[2] \in Nodes
    BY <1>t, <2>1
  <2>3. /\ UNCHANGED <<wake, offline>>
        /\ \A m \in Nodes : (ShouldPark(m) => ShouldPark(m)') \/ Signalling(m)'
    <3>1. CASE Drop(edge[1], edge[2], TRUE) /\ dpc' = "rousing" /\ edge' = edge
      <4>1. /\ UNCHANGED <<wake, offline>>
            /\ \A m \in Nodes : m # edge[1] => (ShouldPark(m) => ShouldPark(m)')
        BY <2>2, <3>1, DropFrees
      <4>2. \A m \in Nodes : m = edge[1] => Signalling(m)'
        BY <3>1 DEF Signalling
      <4> QED
        BY <4>1, <4>2
    <3>2. CASE UNCHANGED tableVars
      BY <3>2 DEF tableVars, ShouldPark
    <3> QED
      BY <2>1, <3>1, <3>2
  <2>4. \A m \in Nodes : Signalling(m) => Signalling(m)'
    BY <2>1 DEF Signalling
  <2>5. ASSUME NEW m \in Nodes
        PROVE  \/ offline'[m] \/ wake'[m] = 1 \/ Signalling(m)'
               \/ /\ ShouldPark(m) => ShouldPark(m)'
                  /\ offline[m] \/ ~ disc[m] => ~ disc'[m]
                  /\ Signalling(m) => Signalling(m)'
                  /\ wake[m] = 1 => wake'[m] = 1
                  /\ \A s \in Searchers : NodeOf[s] = m => iter'[s] = iter[s]
    BY <1>g, <2>1, <2>3, <2>4
  <2>6. SignalKept'
    BY <1>t, <2>1, <2>5, OthersKeep
  <2> QED
    BY <1>0, <2>1, <2>6
<1>5. CASE RousePicked
  <2>1. /\ dpc = "rousing" /\ dpc' = "idle" /\ Signal(edge[1])
        /\ UNCHANGED <<pc, iter, mode, disc, cpc, rouse, deadline>>
    BY <1>5 DEF RousePicked
  <2>2. edge[1] \in Nodes
    BY <1>t, <2>1
  <2>3. wake' = [wake EXCEPT ![edge[1]] = 1] /\ UNCHANGED <<out, offline>>
    BY <2>1 DEF Signal, slotVars
  <2>4. wake'[edge[1]] = 1 /\ \A m \in Nodes : wake[m] = 1 => wake'[m] = 1
    BY <1>t, <2>2, <2>3
  <2>5. \A m \in Nodes : m # edge[1] /\ Signalling(m) => Signalling(m)'
    BY <2>1 DEF Signalling
  <2>6. \A m \in Nodes : ShouldPark(m) => ShouldPark(m)'
    BY <2>3 DEF ShouldPark
  <2>7. ASSUME NEW m \in Nodes
        PROVE  \/ offline'[m] \/ wake'[m] = 1 \/ Signalling(m)'
               \/ /\ ShouldPark(m) => ShouldPark(m)'
                  /\ offline[m] \/ ~ disc[m] => ~ disc'[m]
                  /\ Signalling(m) => Signalling(m)'
                  /\ wake[m] = 1 => wake'[m] = 1
                  /\ \A s \in Searchers : NodeOf[s] = m => iter'[s] = iter[s]
    BY <1>g, <2>1, <2>3, <2>4, <2>5, <2>6
  <2>8. SignalKept'
    BY <1>t, <2>1, <2>7, OthersKeep
  <2> QED
    BY <1>0, <2>1, <2>8
<1> QED
  BY <1>1, <1>2, <1>3, <1>4, <1>5 DEF Next, DriverProgress

LEMMA WakeInit == Init => WakeInv
<1> SUFFICES ASSUME Init PROVE WakeInv
  OBVIOUS
<1>1. IsolationInv
  BY IsolationInit
<1>2. PcOfMode /\ ServicePhases /\ SignalKept
  BY SearchChurnAssumption DEF Init, PcOfMode, ServicePhases, SignalKept, ShouldWake
<1> QED
  BY <1>1, <1>2 DEF WakeInv

\* No wake-up is lost, however departures, rejoins, disconnects and the searchers
\* of a node overlap: signal() is sent after the unlock, its channel holds one
\* token, and the searcher that takes the token may find its slots full again.
THEOREM WakeupsAreKept == Spec => []NoLostWakeup
<1>1. WakeInv => NoLostWakeup
  <2> SUFFICES ASSUME WakeInv, NEW n \in Nodes, Enduring, ~ deadline, Active(n) # {},
                      \A s \in Active(n) : ShouldWake(s)
               PROVE  wake[n] = 1 \/ Signalling(n)
    BY DEF NoLostWakeup
  <2>1. \E s \in Searchers : NodeOf[s] = n /\ ShouldWake(s)
    BY DEF Active
  <2>2. \A s \in Searchers : NodeOf[s] = n => ~ Working(s)
    BY DEF Active, ShouldWake, Working
  <2> QED
    BY <2>1, <2>2 DEF WakeInv, SignalKept
<1> QED
  BY <1>1, WakeInit, WakeStep, PTL DEF Spec

-----------------------------------------------------------------------------
(* Every interval is looked up                                             *)

LEMMA IntervalStep ==
  ASSUME WakeInv, IntervalInv, [Next]_vars
  PROVE  IntervalInv'
<1>t. /\ pc \in [Searchers -> {"session", "consume", "received", "dial", "dialed",
                               "closing", "full", "parked", "waiting", "asleep", "done"}]
      /\ lookups \in [Searchers -> Nat] /\ scheduleIdx \in [Searchers -> Nat]
      /\ Intervals \in Nat
  BY WakeTypes, SearchChurnAssumption
<1>1. ASSUME UNCHANGED <<mode, pc, lookups, scheduleIdx>>, deadline => deadline'
      PROVE  IntervalInv'
  BY <1>1 DEF IntervalInv
<1>2. ASSUME NEW s \in Searchers, SearcherStep(s), mode = "scheduled", mode' = mode
      PROVE  IntervalInv'
  <2> DEFINE L == lookups[s]
             K == scheduleIdx[s]
  <2>0. L \in Nat /\ K \in Nat /\ Intervals \in Nat
    BY <1>t
  <2>1. /\ L <= K /\ K <= Intervals /\ K <= L + 1
        /\ pc[s] \in Looking => K = L + 1
        /\ pc[s] \in {"session", "waiting", "asleep"} => K = L
        /\ pc[s] = "done" /\ ~ deadline => L = Intervals
        /\ pc[s] \notin {"dial", "dialed", "full", "parked"}
    BY <1>2 DEF IntervalInv, WakeInv, PcOfMode
  <2>2. ASSUME NEW l \in Nat, NEW k \in Nat, NEW p, deadline' = deadline,
               pc' = [pc EXCEPT ![s] = p],
               lookups' = [lookups EXCEPT ![s] = l], scheduleIdx' = [scheduleIdx EXCEPT ![s] = k],
               l <= k, k <= Intervals, k <= l + 1, p \in Looking => k = l + 1,
               p \in {"session", "waiting", "asleep"} => k = l,
               p = "done" /\ ~ deadline => l = Intervals
        PROVE  IntervalInv'
    <3>1. ASSUME NEW r \in Searchers
          PROVE  /\ lookups'[r] = IF r = s THEN l ELSE lookups[r]
                 /\ scheduleIdx'[r] = IF r = s THEN k ELSE scheduleIdx[r]
                 /\ pc'[r] = IF r = s THEN p ELSE pc[r]
      BY <1>t, <2>2
    <3> QED
      BY <1>2, <2>2, <3>1 DEF IntervalInv, Looking
  <2>u. UNCHANGED <<lookups, scheduleIdx>>
          => lookups' = [lookups EXCEPT ![s] = L] /\ scheduleIdx' = [scheduleIdx EXCEPT ![s] = K]
    BY <1>t
  <2>3. CASE OpenSearch(s)
    <3>1. /\ deadline' = deadline /\ pc' = [pc EXCEPT ![s] = "consume"]
          /\ lookups' = [lookups EXCEPT ![s] = L] /\ scheduleIdx' = [scheduleIdx EXCEPT ![s] = K + 1]
          /\ K = L /\ K < Intervals
      BY <1>t, <1>2, <2>1, <2>3 DEF OpenSearch, Goto
    <3>2. K + 1 \in Nat /\ L <= K + 1 /\ K + 1 <= Intervals /\ K + 1 <= L + 1
      BY <2>0, <3>1
    <3> QED
      BY <2>0, <2>2, <3>1, <3>2
  <2>4. CASE ScheduleEnds(s)
    <3>1. /\ deadline' = deadline /\ pc' = [pc EXCEPT ![s] = "done"]
          /\ UNCHANGED <<lookups, scheduleIdx>> /\ K = L /\ K >= Intervals
      BY <2>1, <2>4 DEF ScheduleEnds, Goto
    <3>2. L = Intervals /\ L <= K /\ K <= Intervals /\ K <= L + 1 /\ "done" \notin Looking
      BY <2>0, <2>1, <3>1 DEF Looking
    <3> HIDE DEF L, K
    <3> QED
      BY <2>0, <2>2, <2>u, <3>1, <3>2
  <2>6. CASE \/ \E n \in Nodes : ReceiveNode(s, n)
             \/ EndOfNodes(s) \/ LookupTimeout(s) \/ CheckPark(s)
    <3>1. /\ pc[s] \in Looking /\ UNCHANGED <<lookups, scheduleIdx, deadline>>
          /\ \E p \in {"received", "closing", "consume"} : pc' = [pc EXCEPT ![s] = p]
      BY <1>2, <2>6 DEF ReceiveNode, EndOfNodes, LookupTimeout, CheckPark, NextResult, Goto, Looking
    <3>2. PICK p \in {"received", "closing", "consume"} : pc' = [pc EXCEPT ![s] = p]
      BY <3>1
    <3>3. K = L + 1 /\ p \notin {"session", "waiting", "asleep", "done"}
      BY <2>1, <3>1
    <3> HIDE DEF L, K
    <3> QED
      BY <2>0, <2>1, <2>2, <2>u, <3>1, <3>2, <3>3
  <2>8. CASE EndSession(s)
    <3>1. /\ pc[s] = "closing" /\ deadline' = deadline /\ pc' = [pc EXCEPT ![s] = "waiting"]
          /\ lookups' = [lookups EXCEPT ![s] = L + 1] /\ scheduleIdx' = scheduleIdx
      BY <1>t, <1>2, <2>1, <2>8 DEF EndSession, Goto
    <3>2. scheduleIdx' = [scheduleIdx EXCEPT ![s] = K]
      BY <1>t, <3>1
    <3>3. K = L + 1 /\ L + 1 \in Nat /\ K <= Intervals
      BY <2>0, <2>1, <3>1 DEF Looking
    <3>4. L + 1 <= K /\ K <= (L + 1) + 1 /\ "waiting" \notin Looking
      BY <2>0, <3>3 DEF Looking
    <3> HIDE DEF L, K
    <3> QED
      BY <2>0, <2>2, <3>1, <3>2, <3>3, <3>4
  <2>9. CASE CheckAway(s) \/ WakeUp(s)
    <3>1. /\ pc[s] \in {"waiting", "asleep"} /\ UNCHANGED <<lookups, scheduleIdx, deadline>>
          /\ \E p \in {"session", "waiting", "asleep"} : pc' = [pc EXCEPT ![s] = p]
      BY <2>1, <2>9 DEF CheckAway, WakeUp, Goto
    <3> QED
      BY <2>0, <2>1, <2>2, <2>u, <3>1 DEF Looking
  <2>11. CASE HitDeadline(s)
    <3>1. /\ pc' = [pc EXCEPT ![s] = "done"] /\ deadline
          /\ UNCHANGED <<lookups, scheduleIdx, deadline>>
      BY <2>11 DEF HitDeadline, Goto
    <3> QED
      BY <2>0, <2>1, <2>2, <2>u, <3>1 DEF Looking
  <2>12. ~ DialSucceeds(s) /\ ~ DialFailed(s) /\ ~ CheckFull(s)
    BY <2>1 DEF DialSucceeds, DialFailed, CheckFull
  <2> QED
    BY <1>2, <2>3, <2>4, <2>6, <2>8, <2>9, <2>11, <2>12 DEF SearcherStep
<1>3. ASSUME NEW s \in Searchers, SearcherStep(s)
      PROVE  mode' = mode
  BY <1>3, SearcherKeeps DEF SearcherOutcome
<1>4. ASSUME NEW n \in Churners, ChurnStep(n)
      PROVE  UNCHANGED <<mode, pc, lookups, scheduleIdx, deadline>>
  BY <1>4 DEF ChurnStep, ChurnProgress, Depart, DropDialed, DropDialer, RouseDialer, DepartReturns,
     StopHost, CloseHost, RejoinWake, LeaveForGood, StartHost, Rejoin, searchVars
<1>5. CASE Deadline \/ StartChurn \/ PickConn \/ DriverProgress \/ UNCHANGED vars
  <2>1. UNCHANGED <<mode, pc, lookups, scheduleIdx>> /\ (deadline' = deadline \/ deadline' = TRUE)
    BY <1>5 DEF Deadline, StartChurn, PickConn, DriverProgress, DropPicked, RousePicked, vars,
       searchVars
  <2> QED
    BY <1>1, <2>1
<1>6. CASE \E s \in Searchers : SearcherStep(s)
  BY <1>2, <1>3, <1>6 DEF IntervalInv
<1> QED
  BY <1>1, <1>4, <1>5, <1>6 DEF Next

\* A scheduled searcher looks up every interval it takes off its schedule, and only
\* once, whatever departures interrupt it; if it ends before the deadline it has
\* looked up all.
THEOREM NoIntervalSkipped == Spec => []EveryIntervalLookedUp
<1>1. Init => IntervalInv
  BY SearchChurnAssumption DEF Init, IntervalInv, Looking
<1>2. WakeInv /\ IntervalInv /\ [Next]_vars => IntervalInv'
  BY IntervalStep
<1>3. WakeInv /\ IntervalInv => EveryIntervalLookedUp
  <2> SUFFICES ASSUME WakeInv, IntervalInv, mode = "scheduled", NEW s \in Searchers
               PROVE  /\ pc[s] # "done" =>
                           scheduleIdx[s] = lookups[s] + (IF pc[s] \in Looking THEN 1 ELSE 0)
                      /\ pc[s] = "done" => scheduleIdx[s] - lookups[s] \in 0..1
                      /\ pc[s] = "done" /\ ~ deadline
                           => lookups[s] = Intervals /\ scheduleIdx[s] = Intervals
    BY DEF EveryIntervalLookedUp
  <2>1. /\ lookups[s] \in Nat /\ scheduleIdx[s] \in Nat /\ Intervals \in Nat
        /\ pc[s] \in Looking \cup {"session", "waiting", "asleep", "done"}
    BY WakeTypes, SearchChurnAssumption DEF WakeInv, PcOfMode, Looking
  <2> QED
    BY <2>1 DEF IntervalInv
<1> QED
  BY <1>1, <1>2, <1>3, WakeInit, WakeStep, PTL DEF Spec
=============================================================================

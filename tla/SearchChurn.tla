---------------------------- MODULE SearchChurn ----------------------------
(***************************************************************************)
(* The processes of the in-process backend that share a ConnTable:         *)
(*   - the searchers of cmd/simnet/search.go (runOneSearcher), one per     *)
(*     (node, topic), under the three pacing models conn, continuous and   *)
(*     scheduled;                                                          *)
(*   - the disconnect driver (runDisconnectDriver, dropRandom);            *)
(*   - one churn goroutine per churning node (runSessionChurn, or          *)
(*     runModelChurn, which also stops and restarts the node's discovery   *)
(*     service in cmd/simnet/host.go).                                     *)
(*                                                                         *)
(* A step is one critical section or one channel operation; everything a   *)
(* goroutine does between two of them is local and folded into the step.   *)
(* Discovery is external: a live search may yield any node at any time, a  *)
(* search whose service was stopped yields what was buffered and ends.     *)
(* Pauses between results only delay a searcher, so they are part of the   *)
(* time it spends before its next receive.  The runs modelled are those    *)
(* with churn or disconnects, which have a table and are resumable         *)
(* (main.go:345-353): without them a conn searcher just ends, and the wait *)
(* that polls instead of using the wake channel does not occur.            *)
(***************************************************************************)
EXTENDS ConnTable, FiniteSetsExt

CONSTANTS
  Searchers,    \* one per (node, topic) job
  NodeOf,       \* the node a searcher runs on
  Registrants,  \* the nodes has() accepts
  Modes,        \* the values of pacing.Model a run may have
  TargetCount,  \* pacing.TargetCount; 0 means none
  Intervals,    \* lookups of a scheduled searcher
  Churners,     \* nodes with a churn goroutine; the bootnode is never one
  ModelChurn,   \* runModelChurn rather than runSessionChurn
  LookupOnly,   \* the table was built without the connection model
  MaxDrops,     \* bound: connections the disconnect driver picks
  MaxDeparts,   \* bound: departures of one churn goroutine
  Expires       \* bound: whether behaviours include the end of the phase

ASSUME SearchChurnAssumption ==
  /\ NodeOf \in [Searchers -> Nodes]
  /\ Registrants \subseteq Nodes
  /\ Modes \subseteq {"conn", "continuous", "scheduled"}
  /\ TargetCount \in Nat /\ Intervals \in Nat
  /\ Churners \subseteq Nodes
  /\ ModelChurn \in BOOLEAN /\ LookupOnly \in BOOLEAN
  /\ MaxDrops \in Nat /\ MaxDeparts \in Nat
  /\ Expires \in BOOLEAN

VARIABLES
  mode,      \* pacing.Model, fixed for the run
  disc,      \* the node's discovery service is running (host.disc # nil)
  pc,        \* where each searcher is
  iter,      \* its open search: "none", "live", or "dead" once closed
  cand,      \* the node it received last
  seen,      \* distinct registrants that count towards TargetCount
  scheduleIdx, \* intervals a scheduled searcher has taken off its schedule
  lookups,   \* lookups it has recorded
  deadline,  \* the search phase is over
  churnOn,   \* waitForTopology has returned
  cpc,       \* where each churn goroutine is
  left,      \* departures it has made
  dialed,    \* depart's snapshot: connections of the node still to drop ...
  dialers,   \* ... and connections to it
  rouse,     \* the dialer it must signal
  dpc,       \* where the disconnect driver is
  picks,     \* connections it has picked
  edge       \* the connection it picked, <<from, to>>, or NoEdge

searchVars == <<pc, iter, cand, seen, scheduleIdx, lookups, deadline>>
churnVars  == <<churnOn, cpc, left, dialed, dialers, rouse>>
driverVars == <<dpc, picks, edge>>
vars == <<tableVars, mode, disc, searchVars, churnVars, driverVars>>

NoEdge == <<>>

Init ==
  /\ TableInit
  /\ mode \in Modes
  /\ disc = [n \in Nodes |-> TRUE]
  /\ pc = [s \in Searchers |-> "session"]
  /\ iter = [s \in Searchers |-> "none"]
  /\ cand = [s \in Searchers |-> NodeOf[s]]
  /\ seen = [s \in Searchers |-> {}]
  /\ scheduleIdx = [s \in Searchers |-> 0]
  /\ lookups = [s \in Searchers |-> 0]
  /\ deadline = FALSE
  /\ churnOn = FALSE
  /\ cpc = [n \in Churners |-> "up"]
  /\ left = [n \in Churners |-> 0]
  /\ dialed = [n \in Churners |-> {}]
  /\ dialers = [n \in Churners |-> {}]
  /\ rouse = [n \in Churners |-> n]
  /\ dpc = "idle"
  /\ picks = 0
  /\ edge = NoEdge

-----------------------------------------------------------------------------
(* Searchers                                                               *)

Goto(s, label) == pc' = [pc EXCEPT ![s] = label]

\* offline(): the connection model says so or the service is stopped.
Away(s) == offline[NodeOf[s]] \/ ~ disc[NodeOf[s]]

\* Faulty variant: the interval of a node that is away is kept for later.
OpenSearchKeepsInterval(s) ==
  /\ pc[s] = "session"
  /\ mode = "scheduled" => scheduleIdx[s] < Intervals
  /\ scheduleIdx' = IF mode = "scheduled" /\ disc[NodeOf[s]]
                      THEN [scheduleIdx EXCEPT ![s] = @ + 1] ELSE scheduleIdx
  /\ iter' = [iter EXCEPT ![s] = IF disc[NodeOf[s]] THEN "live" ELSE "dead"]
  /\ seen' = IF mode = "scheduled" THEN [seen EXCEPT ![s] = {}] ELSE seen
  /\ Goto(s, "consume")
  /\ UNCHANGED <<tableVars, disc, cand, lookups, deadline, churnVars, driverVars, mode>>

\* The head of the sessions loop.  A scheduled searcher waits for its next
\* interval, takes it off the schedule and ends after the last; openSearch then
\* starts a search on the running service, or an empty one when the node has none.
OpenSearch(s) ==
  /\ pc[s] = "session"
  /\ mode = "scheduled" => scheduleIdx[s] < Intervals
  /\ scheduleIdx' = IF mode = "scheduled" THEN [scheduleIdx EXCEPT ![s] = @ + 1]
                                          ELSE scheduleIdx
  /\ iter' = [iter EXCEPT ![s] = IF disc[NodeOf[s]] THEN "live" ELSE "dead"]
  /\ seen' = IF mode = "scheduled" THEN [seen EXCEPT ![s] = {}] ELSE seen
  /\ Goto(s, "consume")
  /\ UNCHANGED <<tableVars, disc, cand, lookups, deadline, churnVars, driverVars, mode>>

ScheduleEnds(s) ==
  /\ pc[s] = "session"
  /\ mode = "scheduled" /\ scheduleIdx[s] >= Intervals
  /\ Goto(s, "done")
  /\ UNCHANGED <<tableVars, disc, iter, cand, seen, scheduleIdx, lookups, deadline,
                 churnVars, driverVars, mode>>

\* A node arrives on nodeCh (the searcher skips itself).
ReceiveNode(s, n) ==
  /\ pc[s] = "consume"
  /\ iter[s] \in {"live", "dead"}
  /\ n # NodeOf[s]
  /\ cand' = [cand EXCEPT ![s] = n]
  /\ seen' = IF TargetCount > 0 /\ n \in Registrants
               THEN [seen EXCEPT ![s] = @ \cup {n}]
               ELSE seen
  /\ Goto(s, "received")
  /\ UNCHANGED <<tableVars, disc, iter, scheduleIdx, lookups, deadline, churnVars, driverVars, mode>>

\* nodeCh is closed: the search's service was stopped.
EndOfNodes(s) ==
  /\ pc[s] = "consume"
  /\ iter[s] = "dead"
  /\ Goto(s, "closing")
  /\ UNCHANGED <<tableVars, disc, iter, cand, seen, scheduleIdx, lookups, deadline,
                 churnVars, driverVars, mode>>

\* A scheduled lookup's request timer fires.
LookupTimeout(s) ==
  /\ pc[s] = "consume"
  /\ mode = "scheduled"
  /\ Goto(s, "closing")
  /\ UNCHANGED <<tableVars, disc, iter, cand, seen, scheduleIdx, lookups, deadline,
                 churnVars, driverVars, mode>>

TargetReached(s) ==
  TargetCount > 0 /\ Cardinality(seen[s]) >= TargetCount

\* The result is dealt with; cand goes back to its idle value.
Forget(s) == cand' = [cand EXCEPT ![s] = NodeOf[s]]

\* What follows a result that is not dialed or whose dial leaves slots free: a
\* scheduled lookup ends at its target, a conn searcher ends there for good.
NextResult(s) ==
  /\ Forget(s)
  /\ Goto(s, CASE mode = "scheduled" /\ TargetReached(s) -> "closing"
              [] mode = "conn" /\ TargetReached(s)      -> "done"
              [] OTHER                                  -> "consume")

\* The check before dialing: a searcher whose node is away, or full under the
\* conn model, leaves the consume loop; a registrant outside its redial
\* cooldown is dialed next.
CheckPark(s) ==
  /\ pc[s] = "received"
  /\ LET park == IF mode = "conn" THEN ShouldPark(NodeOf[s])
                                  ELSE offline[NodeOf[s]]
     IN  \/ park /\ Forget(s) /\ Goto(s, "closing")
         \/ /\ ~ park /\ mode = "conn" /\ cand[s] \in Registrants
            /\ Goto(s, "dial") /\ UNCHANGED cand
         \/ ~ park /\ NextResult(s)
  /\ UNCHANGED <<tableVars, disc, iter, seen, scheduleIdx, lookups, deadline,
                 churnVars, driverVars, mode>>

DialSucceeds(s) ==
  /\ pc[s] = "dial"
  /\ Connect(NodeOf[s], cand[s])
  /\ Forget(s)
  /\ Goto(s, "dialed")
  /\ UNCHANGED <<disc, iter, seen, scheduleIdx, lookups, deadline, churnVars, driverVars, mode>>

DialFailed(s) ==
  /\ pc[s] = "dial"
  /\ DialFails(NodeOf[s], cand[s])
  /\ NextResult(s)
  /\ UNCHANGED <<tableVars, disc, iter, seen, scheduleIdx, lookups, deadline,
                 churnVars, driverVars, mode>>

\* outboundFull after a successful dial.
CheckFull(s) ==
  /\ pc[s] = "dialed"
  /\ \/ OutboundFull(NodeOf[s]) /\ Goto(s, "full") /\ UNCHANGED cand
     \/ ~ OutboundFull(NodeOf[s]) /\ NextResult(s)
  /\ UNCHANGED <<tableVars, disc, iter, seen, scheduleIdx, lookups, deadline,
                 churnVars, driverVars, mode>>

\* Faulty variant: a scheduled searcher is ended like a continuous one.
EndSessionScheduledEnds(s) ==
  /\ pc[s] \in {"closing", "full"}
  /\ iter' = [iter EXCEPT ![s] = "none"]
  /\ lookups' = IF mode = "scheduled" THEN [lookups EXCEPT ![s] = @ + 1]
                                      ELSE lookups
  /\ Goto(s, IF Away(s) THEN "waiting" ELSE "done")
  /\ UNCHANGED <<tableVars, disc, cand, seen, scheduleIdx, deadline, churnVars, driverVars, mode>>

\* closeIter, then the pacing model decides what ends a session: a conn
\* searcher parks while shouldPark holds and otherwise ends; a continuous one
\* goes on only if its node is away; a scheduled one records the lookup.
\* "full" is "closing" reached because the searcher saw its slots full.
EndSession(s) ==
  /\ pc[s] \in {"closing", "full"}
  /\ iter' = [iter EXCEPT ![s] = "none"]
  /\ lookups' = IF mode = "scheduled" THEN [lookups EXCEPT ![s] = @ + 1]
                                      ELSE lookups
  /\ Goto(s, CASE mode = "conn"       -> IF ShouldPark(NodeOf[s]) THEN "parked"
                                                                  ELSE "done"
               [] mode = "continuous" -> IF Away(s) THEN "waiting" ELSE "done"
               [] mode = "scheduled"  -> "waiting")
  /\ UNCHANGED <<tableVars, disc, cand, seen, scheduleIdx, deadline, churnVars, driverVars, mode>>

\* The wait of a lookup-only searcher whose node is away: test offline(), then
\* block on the wake channel.
CheckAway(s) ==
  /\ pc[s] = "waiting"
  /\ Goto(s, IF Away(s) THEN "asleep" ELSE "session")
  /\ UNCHANGED <<tableVars, disc, iter, cand, seen, scheduleIdx, lookups, deadline,
                 churnVars, driverVars, mode>>

\* A blocked searcher receives the token: a parked one opens a new search, a
\* sleeping one tests offline() again.
WakeUp(s) ==
  /\ pc[s] \in {"parked", "asleep"}
  /\ Receive(NodeOf[s])
  /\ Goto(s, IF pc[s] = "parked" THEN "session" ELSE "waiting")
  /\ UNCHANGED <<disc, iter, cand, seen, scheduleIdx, lookups, deadline, churnVars, driverVars, mode>>

\* Every blocking select also waits for the deadline.
HitDeadline(s) ==
  /\ deadline
  /\ \/ pc[s] \in {"consume", "parked", "asleep"}
     \/ pc[s] = "session" /\ mode = "scheduled" /\ scheduleIdx[s] < Intervals
  /\ Goto(s, "done")
  /\ iter' = [iter EXCEPT ![s] = "none"]
  /\ UNCHANGED <<tableVars, disc, cand, seen, scheduleIdx, lookups, deadline, churnVars, driverVars, mode>>

\* The search timeout, or a stop signal, ends the phase for every searcher.
Deadline ==
  /\ Expires /\ ~ deadline
  /\ deadline' = TRUE
  /\ UNCHANGED <<tableVars, disc, pc, iter, cand, seen, scheduleIdx, lookups, churnVars, driverVars, mode>>

SearcherStep(s) ==
  \/ OpenSearch(s) \/ ScheduleEnds(s)
  \/ \E n \in Nodes : ReceiveNode(s, n)
  \/ EndOfNodes(s) \/ LookupTimeout(s) \/ CheckPark(s)
  \/ DialSucceeds(s) \/ DialFailed(s) \/ CheckFull(s)
  \/ EndSession(s) \/ CheckAway(s) \/ WakeUp(s) \/ HitDeadline(s)

-----------------------------------------------------------------------------
(* Churn goroutines                                                        *)

ChurnGoto(n, label) == cpc' = [cpc EXCEPT ![n] = label]

\* waitForTopology: churn starts at the first connection, or at once when the
\* table is lookup-only.
StartChurn ==
  /\ ~ churnOn
  /\ LookupOnly \/ \E n \in Nodes : out[n] > 0
  /\ churnOn' = TRUE
  /\ UNCHANGED <<tableVars, disc, searchVars, cpc, left, dialed, dialers, rouse,
                 driverVars, mode>>

\* depart, first critical section: mark the node away and take the snapshot of
\* its connections.
Depart(n) ==
  /\ churnOn
  /\ cpc[n] = "up" /\ left[n] < MaxDeparts
  /\ MarkOffline(n)
  /\ dialed' = [dialed EXCEPT ![n] = Dialed(n)]
  /\ dialers' = [dialers EXCEPT ![n] = Dialers(n)]
  /\ left' = [left EXCEPT ![n] = @ + 1]
  /\ ChurnGoto(n, "dropping")
  /\ UNCHANGED <<disc, searchVars, churnOn, rouse, driverVars, mode>>

\* dropConn(n, j, false) for a connection of the snapshot.
DropDialed(n, j) ==
  /\ cpc[n] = "dropping"
  /\ j \in dialed[n]
  /\ dialed' = [dialed EXCEPT ![n] = @ \ {j}]
  /\ \/ Drop(n, j, FALSE)
     \/ j \notin outPeers[n] /\ UNCHANGED tableVars
  /\ UNCHANGED <<disc, searchVars, churnOn, cpc, left, dialers, rouse, driverVars, mode>>

\* disconnect(j, n) for a dialer of the snapshot: its critical section ...
DropDialer(n, j) ==
  /\ cpc[n] = "dropping"
  /\ dialed[n] = {}
  /\ j \in dialers[n]
  /\ dialers' = [dialers EXCEPT ![n] = @ \ {j}]
  /\ \/ Drop(j, n, TRUE) /\ ChurnGoto(n, "rousing") /\ rouse' = [rouse EXCEPT ![n] = j]
     \/ n \notin outPeers[j] /\ UNCHANGED <<tableVars, cpc, rouse>>
  /\ UNCHANGED <<disc, searchVars, churnOn, left, dialed, driverVars, mode>>

\* ... and the signal after it.
RouseDialer(n) ==
  /\ cpc[n] = "rousing"
  /\ Signal(rouse[n])
  /\ rouse' = [rouse EXCEPT ![n] = n]
  /\ ChurnGoto(n, "dropping")
  /\ UNCHANGED <<disc, searchVars, churnOn, left, dialed, dialers, driverVars, mode>>

\* Faulty variant: the dialers are not waited for.
DepartReturnsEarly(n) ==
  /\ cpc[n] = "dropping"
  /\ dialed[n] = {}
  /\ ChurnGoto(n, IF ModelChurn THEN "stopping" ELSE "gap")
  /\ UNCHANGED <<tableVars, disc, searchVars, churnOn, left, dialed, dialers,
                 rouse, driverVars, mode>>

\* depart returns; model churn goes on to stop the host.
DepartReturns(n) ==
  /\ cpc[n] = "dropping"
  /\ dialed[n] = {} /\ dialers[n] = {}
  /\ ChurnGoto(n, IF ModelChurn THEN "stopping" ELSE "gap")
  /\ UNCHANGED <<tableVars, disc, searchVars, churnOn, left, dialed, dialers,
                 rouse, driverVars, mode>>

\* host.stop: the service is unpublished first ...
StopHost(n) ==
  /\ cpc[n] = "stopping"
  /\ disc' = [disc EXCEPT ![n] = FALSE]
  /\ ChurnGoto(n, "shutting")
  /\ UNCHANGED <<tableVars, searchVars, churnOn, left, dialed, dialers, rouse,
                 driverVars, mode>>

\* ... and then closed, which ends the searches it was serving.
CloseHost(n) ==
  /\ cpc[n] = "shutting"
  /\ iter' = [s \in Searchers |->
                IF NodeOf[s] = n /\ iter[s] = "live" THEN "dead" ELSE iter[s]]
  /\ ChurnGoto(n, "gap")
  /\ UNCHANGED <<tableVars, disc, pc, cand, seen, scheduleIdx, lookups, deadline, churnOn,
                 left, dialed, dialers, rouse, driverVars, mode>>

\* An event whose return lies past the window: the node is gone for good.
LeaveForGood(n) ==
  /\ cpc[n] = "gap" /\ ModelChurn
  /\ ChurnGoto(n, "gone")
  /\ UNCHANGED <<tableVars, disc, searchVars, churnOn, left, dialed, dialers,
                 rouse, driverVars, mode>>

\* The gap ends: model churn starts a new service before the rejoin.
StartHost(n) ==
  /\ cpc[n] = "gap" /\ ModelChurn
  /\ disc' = [disc EXCEPT ![n] = TRUE]
  /\ ChurnGoto(n, "started")
  /\ UNCHANGED <<tableVars, searchVars, churnOn, left, dialed, dialers, rouse,
                 driverVars, mode>>

\* rejoin, critical section and signal.
Rejoin(n) ==
  /\ cpc[n] = IF ModelChurn THEN "started" ELSE "gap"
  /\ MarkOnline(n)
  /\ ChurnGoto(n, "rejoined")
  /\ UNCHANGED <<disc, searchVars, churnOn, left, dialed, dialers, rouse, driverVars, mode>>

\* Faulty variant: the returned node is not signalled.
RejoinSilent(n) ==
  /\ cpc[n] = "rejoined"
  /\ ChurnGoto(n, "up")
  /\ UNCHANGED <<tableVars, disc, searchVars, churnOn, left, dialed, dialers,
                 rouse, driverVars, mode>>

RejoinWake(n) ==
  /\ cpc[n] = "rejoined"
  /\ Signal(n)
  /\ ChurnGoto(n, "up")
  /\ UNCHANGED <<disc, searchVars, churnOn, left, dialed, dialers, rouse, driverVars, mode>>

\* What a churn goroutine does once it has begun a departure or a rejoin.
ChurnProgress(n) ==
  \/ \E j \in Nodes : DropDialed(n, j) \/ DropDialer(n, j)
  \/ RouseDialer(n) \/ DepartReturns(n) \/ StopHost(n) \/ CloseHost(n)
  \/ RejoinWake(n)

ChurnStep(n) ==
  \/ Depart(n) \/ ChurnProgress(n)
  \/ LeaveForGood(n) \/ StartHost(n) \/ Rejoin(n)

-----------------------------------------------------------------------------
(* Disconnect driver                                                       *)

\* dropRandom picks a connection under the lock and releases it ...
PickConn ==
  /\ dpc = "idle" /\ picks < MaxDrops
  /\ \E i \in Nodes : \E j \in outPeers[i] : edge' = <<i, j>>
  /\ picks' = picks + 1
  /\ dpc' = "picked"
  /\ UNCHANGED <<tableVars, disc, searchVars, churnVars, mode>>

\* ... so that dropConn may find it gone.
DropPicked ==
  /\ dpc = "picked"
  /\ \/ /\ Drop(edge[1], edge[2], TRUE)
        /\ dpc' = "rousing"
        /\ UNCHANGED edge
     \/ /\ edge[2] \notin outPeers[edge[1]]
        /\ dpc' = "idle"
        /\ edge' = NoEdge
        /\ UNCHANGED tableVars
  /\ UNCHANGED <<disc, searchVars, churnVars, picks, mode>>

\* Faulty variant: the dialer of the dropped connection is not signalled.
RouseNobody ==
  /\ dpc = "rousing"
  /\ dpc' = "idle"
  /\ edge' = NoEdge
  /\ UNCHANGED <<tableVars, disc, searchVars, churnVars, picks, mode>>

RousePicked ==
  /\ dpc = "rousing"
  /\ Signal(edge[1])
  /\ dpc' = "idle"
  /\ edge' = NoEdge
  /\ UNCHANGED <<disc, searchVars, churnVars, picks, mode>>

DriverProgress == DropPicked \/ RousePicked

-----------------------------------------------------------------------------
Next ==
  \/ \E s \in Searchers : SearcherStep(s)
  \/ Deadline
  \/ StartChurn
  \/ \E n \in Churners : ChurnStep(n)
  \/ PickConn \/ DriverProgress

Spec == Init /\ [][Next]_vars

\* Fairness: goroutines are scheduled, a started departure runs to its end, a
\* gap's timer fires, and a stopped search runs out of buffered results.
\* Nothing forces a departure, a disconnect, a result or the deadline.
SearcherFairness(s) ==
  /\ WF_vars(OpenSearch(s)) /\ WF_vars(ScheduleEnds(s))
  /\ SF_vars(EndOfNodes(s))
  /\ WF_vars(CheckPark(s)) /\ WF_vars(CheckFull(s))
  /\ WF_vars(DialSucceeds(s) \/ DialFailed(s))
  /\ WF_vars(EndSession(s)) /\ WF_vars(CheckAway(s)) /\ WF_vars(WakeUp(s))
  /\ WF_vars(HitDeadline(s))

Fairness ==
  /\ \A s \in Searchers : SearcherFairness(s)
  /\ \A n \in Churners : /\ WF_vars(ChurnProgress(n))
                         /\ WF_vars(StartHost(n) \/ LeaveForGood(n))
                         /\ WF_vars(Rejoin(n))
  /\ WF_vars(DriverProgress)

FairSpec == Spec /\ Fairness

-----------------------------------------------------------------------------
\* The type of every variable of the table and of the goroutines that share it; a
\* wake channel (make(chan struct{}, 1)) never holds more than one token.
TypeOK ==
  /\ TableTypeOK
  /\ mode \in Modes
  /\ disc \in [Nodes -> BOOLEAN]
  /\ pc \in [Searchers -> {"session", "consume", "received", "dial", "dialed",
                           "closing", "full", "parked", "waiting", "asleep", "done"}]
  /\ iter \in [Searchers -> {"none", "live", "dead"}]
  /\ cand \in [Searchers -> Nodes]
  /\ seen \in [Searchers -> SUBSET Nodes]
  /\ scheduleIdx \in [Searchers -> Nat] /\ lookups \in [Searchers -> Nat]
  /\ deadline \in BOOLEAN /\ churnOn \in BOOLEAN
  /\ cpc \in [Churners -> {"up", "dropping", "rousing", "stopping", "shutting",
                           "gap", "gone", "started", "rejoined"}]
  /\ left \in [Churners -> Nat]
  /\ dialed \in [Churners -> SUBSET Nodes]
  /\ dialers \in [Churners -> SUBSET Nodes]
  /\ rouse \in [Churners -> Nodes]
  /\ dpc \in {"idle", "picked", "rousing"}
  /\ picks \in Nat
  /\ edge \in {NoEdge} \cup (Nodes \X Nodes)
  /\ dpc # "idle" => edge # NoEdge
-----------------------------------------------------------------------------
(* Safety                                                                  *)

\* A node marked away keeps no connection but those its departure has still to
\* drop: depart marks the node under the lock that takes the snapshot, and
\* dial tests offline on both ends, so nothing connects to it meanwhile.
AwayKeepsOnlyPending ==
  \A n \in Churners :
    offline[n] => /\ outPeers[n] \subseteq dialed[n]
                  /\ InPeers(n) \subseteq dialers[n]

\* Once depart has returned and until the rejoin the node is isolated: the
\* topology holds no connection to or from a node whose service is stopped.
GoneIsIsolated ==
  \A n \in Churners :
    cpc[n] \in {"stopping", "shutting", "gap", "gone", "started"} => peers[n] = {}

\* A signal for node n is between the unlock and the channel send.
Signalling(n) ==
  \/ dpc = "rousing" /\ edge[1] = n
  \/ \E c \in Churners : cpc[c] = "rousing" /\ rouse[c] = n
  \/ n \in Churners /\ cpc[n] = "rejoined"

Active(n) == {s \in Searchers : NodeOf[s] = n /\ pc[s] # "done"}

\* Searcher s is blocked on the wake channel and has work to do.
ShouldWake(s) ==
  \/ pc[s] = "parked" /\ ~ ShouldPark(NodeOf[s])
  \/ pc[s] = "asleep" /\ ~ Away(s)

\* The searchers that go on until the phase ends.  A conn searcher ends at its
\* target and a scheduled one after its last lookup, and either may take the
\* node's only token with it.
Enduring == mode = "continuous" \/ (mode = "conn" /\ TargetCount = 0)

\* No wake-up is lost: when every remaining searcher of a node is blocked on
\* the wake channel although the node is back, or has a slot to fill, a token
\* is in the channel or about to be sent.
NoLostWakeup ==
  \A n \in Nodes :
    /\ Enduring
    /\ ~ deadline /\ Active(n) # {}
    /\ \A s \in Active(n) : ShouldWake(s)
    => wake[n] = 1 \/ Signalling(n)

\* A scheduled searcher is inside the lookup of the interval it took last.
Looking == {"consume", "received", "dial", "dialed", "closing", "full"}

\* Every interval taken off the schedule has one recorded lookup, or is the one being
\* looked up or cut by the deadline; and a searcher that ends before the deadline
\* has looked up all: departures, empty searches and timeouts make it neither
\* skip an interval nor look one up twice.
EveryIntervalLookedUp ==
  mode = "scheduled" =>
    \A s \in Searchers :
      /\ pc[s] # "done" => scheduleIdx[s] = lookups[s] + (IF pc[s] \in Looking THEN 1 ELSE 0)
      /\ pc[s] = "done" => scheduleIdx[s] - lookups[s] \in 0..1
      /\ pc[s] = "done" /\ ~ deadline => lookups[s] = Intervals /\ scheduleIdx[s] = Intervals

-----------------------------------------------------------------------------
(* Liveness                                                                *)

\* A parked searcher whose node is online with a free slot does not stay
\* parked: the dropped connection's signal reaches it.
ParkedSearcherWakes ==
  \A s \in Searchers :
    (pc[s] = "parked" /\ ~ ShouldPark(NodeOf[s]))
      ~> (pc[s] # "parked" \/ ShouldPark(NodeOf[s]))

\* A lookup-only searcher blocked on a departure resumes once its node is back
\* ("A departed node waits for its rejoin before looking up again").  It does
\* where a node has one searcher; several share the node's one token.
WaiterResumes ==
  \A s \in Searchers :
    (pc[s] = "asleep" /\ ~ Away(s)) ~> (pc[s] # "asleep" \/ Away(s))

=============================================================================

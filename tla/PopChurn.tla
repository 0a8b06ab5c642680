------------------------------ MODULE PopChurn ------------------------------
(***************************************************************************)
(* Population churn of the in-process backend: the search phase of         *)
(* runChurnWorkload (cmd/simnet/workload_churn.go) with its churnState,    *)
(* topicMembership (membership.go), deadResultTracker (deadresult.go), and *)
(* searchManager and liveStats (search.go).                                *)
(*                                                                         *)
(* Main waits for the searchers, the churn goroutine takes nodes away and  *)
(* brings new ones, and every node that takes part has a searcher.  A step *)
(* is one critical section, one call on a shared structure or one spawn.   *)
(* Nodes are their indices; time is a clock that ticks once per churn      *)
(* interval.  Of a result the model keeps whether it was dead, not its age *)
(* or time bucket.                                                         *)
(* Discovery (external) hands a searcher any node that has registered, the *)
(* departed ones too, since their ads outlive them; a result that is not a *)
(* registrant of the topic changes nothing here.                           *)
(***************************************************************************)
EXTENDS Integers, Sequences, FiniteSets, SequencesExt

CONSTANTS
  Initial,     \* nodes at the start: 0 .. Initial - 1
  Legacy,      \* those of them without a topic
  NumTopics,
  PerRound,    \* churn actions of a round
  Deadline,    \* tick of the search deadline
  HardLimit,   \* tick at which wait gives up
  MaxNodes,    \* bound: nodes ever created
  Setups       \* runs: steady is churnParams.SteadyState (steady state, or kill-only),
               \* nodes and yields bound the nodes ever created and the results handed
               \* to all searchers together

ASSUME PopChurnAssumption ==
  /\ {Initial, NumTopics, PerRound, MaxNodes} \subseteq Nat \ {0}
  /\ Initial <= MaxNodes /\ Legacy \subseteq 0..Initial - 1
  /\ {Deadline, HardLimit} \subseteq Nat /\ Deadline < HardLimit
  /\ Setups \subseteq [steady : BOOLEAN, nodes : Initial..MaxNodes, yields : Nat]

VARIABLES
  \* churnState
  all, alive, aliveIdx, killed, nextIdx,
  \* topicMembership and what each node has registered with discovery
  topicOf, registered,
  \* liveStats: finds per registrant and assigned registrants per topic
  counts, assigned,
  \* deadResultTracker
  offline, totals,
  \* searchManager: searchers running, where each is, its locals, the results
  wg, searcher, seen, local, results,
  \* the churn goroutine: where it is and the round's locals
  churn, leaver, wantLeaves, wantJoins, specs, spawned, exhausted, roundJoins, joins,
  \* main: where it is, wait's done channel, and what it reports
  main, done, report,
  \* time: ticks passed, and whether the ticker's channel holds one
  clock, tick,
  setup  \* which run this is

state    == <<all, alive, aliveIdx, killed, nextIdx>>
stats    == <<counts, assigned>>
dead     == <<offline, totals>>
searches == <<wg, searcher, seen, local, results>>
round    == <<leaver, wantLeaves, wantJoins, specs, spawned, exhausted, roundJoins>>
time     == <<clock, tick, setup>>
vars     == <<state, topicOf, registered, stats, dead, searches, churn, round, joins,
              main, done, report, time>>

Nodes    == 0..MaxNodes - 1
Topics   == 0..NumTopics - 1
Bootnode == 0
None     == -1

Founders == (0..Initial - 1) \ Legacy
Members(t) == {n \in Nodes : topicOf[n] = t}

\* An empty deadLocal: results returned, and those of them dead when returned.
NoneDead == [returned |-> 0, dead |-> 0]

\* alive lists the nodes that take part, in the order of all.
NewChurnState ==
  /\ all = [i \in 1..Initial |-> i - 1]
  /\ alive \in {s \in [1..Cardinality(Founders) -> Founders] :
                  ToSet(s) = Founders /\ \A i, j \in DOMAIN s : i < j => s[i] < s[j]}
  /\ aliveIdx = [n \in Founders |-> CHOOSE i \in DOMAIN alive : alive[i] = n]
  /\ killed = {} /\ nextIdx = Initial

NewLiveStats ==
  /\ counts = [t \in Topics |-> [n \in Nodes |-> 0]]
  /\ assigned = [t \in Topics |-> Cardinality(Members(t))]

Init ==
  /\ NewChurnState
  /\ topicOf \in {f \in [Nodes -> Topics \cup {None}] :
                    \A n \in Nodes : f[n] # None <=> n \in Founders}
  /\ registered = Founders
  /\ NewLiveStats
  /\ offline = {}
  /\ totals = [t \in Topics |-> NoneDead]
  /\ wg = Cardinality(Founders)
  /\ searcher = [n \in Nodes |-> IF n \in Founders THEN "launched" ELSE "none"]
  /\ seen = [n \in Nodes |-> {}]
  /\ local = [n \in Nodes |-> NoneDead]
  /\ results = {}
  /\ churn = "select" /\ leaver = None /\ wantLeaves = 0 /\ wantJoins = 0
  /\ specs = <<>> /\ spawned = {}
  /\ exhausted = FALSE /\ roundJoins = 0 /\ joins = 0
  /\ main = "wait" /\ done = {} /\ report = [partial |-> FALSE]
  /\ clock = 0 /\ tick = FALSE /\ setup \in Setups

-----------------------------------------------------------------------------
(* Time.  The ticker's channel has one place; a tick that finds it taken is  *)
(* dropped.                                                                  *)

Tick ==
  /\ clock < HardLimit
  /\ clock' = clock + 1 /\ tick' = TRUE
  /\ UNCHANGED <<state, topicOf, registered, stats, dead, searches, churn, round, joins,
                 main, done, report, setup>>

-----------------------------------------------------------------------------
(* The churn goroutine. *)

ChurnStops ==
  /\ churn = "select"
  /\ \/ main # "wait"                           \* churnStop is closed
     \/ tick /\ clock >= Deadline
  /\ churn' = "exited"
  /\ UNCHANGED <<state, topicOf, registered, stats, dead, searches, round, joins, main,
                 done, report, time>>

\* A tick before the deadline: so many of the round's actions are joins.
BeginRound ==
  /\ churn = "select" /\ tick /\ clock < Deadline
  /\ tick' = FALSE
  /\ exhausted' = FALSE /\ roundJoins' = 0
  /\ specs' = <<>> /\ spawned' = {}
  /\ \E j \in IF setup.steady THEN 0..PerRound ELSE {0} :
       /\ nextIdx + j <= setup.nodes
       /\ wantJoins' = j /\ wantLeaves' = PerRound - j
  /\ churn' = "leave"
  /\ UNCHANGED <<leaver, state, topicOf, registered, stats, dead, searches, joins, main, done,
                 report, clock, setup>>

\* Faulty variant: the places are counted on from i itself.
RedrawnFromItself(i) == {((i - 1 + r) % Len(alive)) + 1 : r \in 0..Len(alive) - 2}

\* The places a draw of the bootnode's place i is replaced by: so many places
\* further on, round the end.  There are none when nobody else is alive.
Redrawn(i) == {((i + r) % Len(alive)) + 1 : r \in 0..Len(alive) - 2}

\* Faulty variant: the bootnode is drawn like any other node.
AnyCandidate == DOMAIN alive

\* Places leaveRandom can end up with.
Candidates == UNION {IF alive[i] = Bootnode THEN Redrawn(i) ELSE {i} : i \in DOMAIN alive}

\* leaveRandom: the last node takes the place of the one that leaves.
SwapRemove(i) ==
  LET last == Len(alive)
      moved == [alive EXCEPT ![i] = alive[last]]
  IN
  /\ alive' = SubSeq(moved, 1, last - 1)
  /\ aliveIdx' = [n \in DOMAIN aliveIdx \ {alive[i]} |->
                    IF n = moved[i] THEN i ELSE aliveIdx[n]]

\* A node leaves: it is taken off the population ...
LeaveRandom ==
  /\ churn = "leave" /\ wantLeaves > 0
  /\ \E i \in Candidates :
       /\ SwapRemove(i)
       /\ killed' = killed \cup {alive[i]}
       /\ leaver' = alive[i]
  /\ churn' = "mark"
  /\ UNCHANGED <<all, nextIdx, topicOf, registered, stats, dead, searches, wantLeaves,
                 wantJoins, specs, spawned, exhausted, roundJoins, joins, main, done,
                 report, time>>

\* ... marked offline (as of the round's start, so from now on) and closed on a
\* goroutine of its own.
MarkOffline ==
  /\ churn = "mark"
  /\ offline' = offline \cup {leaver}
  /\ leaver' = None /\ wantLeaves' = wantLeaves - 1
  /\ churn' = "leave"
  /\ UNCHANGED <<state, topicOf, registered, stats, totals, searches, wantJoins, specs,
                 spawned, exhausted, roundJoins, joins, main, done, report, time>>

\* Nobody can leave: a kill-only round is over, a steady one goes on.
NobodyLeaves ==
  /\ churn = "leave" /\ wantLeaves > 0 /\ Candidates = {}
  /\ exhausted' = ~ setup.steady
  /\ wantLeaves' = IF setup.steady THEN wantLeaves - 1 ELSE 0
  /\ UNCHANGED <<leaver, state, topicOf, registered, stats, dead, searches, churn, wantJoins,
                 specs, spawned, roundJoins, joins, main, done, report, time>>

\* aliveSample: live nodes to bootstrap from; the first of the pool is always among
\* them.
AliveSample == IF alive = <<>> THEN {} ELSE {alive[1]}

\* The joins are planned one after the other: a fresh index, a live node to
\* bootstrap from and a topic.
PlanJoin ==
  /\ churn = "leave" /\ wantLeaves = 0 /\ Len(specs) < wantJoins
  /\ \E t \in Topics :
       specs' = Append(specs, [idx |-> nextIdx, topic |-> t, boot |-> AliveSample])
  /\ nextIdx' = nextIdx + 1
  /\ UNCHANGED <<all, alive, aliveIdx, killed, topicOf, registered, stats, dead, searches,
                 churn, leaver, wantLeaves, wantJoins, spawned, exhausted, roundJoins, joins,
                 main, done, report, time>>

Planned == Len(specs) = wantJoins

\* The nodes are spawned concurrently (at most churnJoinConcurrency at a time).
SpawnNode(c) ==
  /\ churn = "leave" /\ wantLeaves = 0 /\ Planned
  /\ c \in DOMAIN specs \ spawned
  /\ spawned' = spawned \cup {c}
  /\ UNCHANGED <<leaver, state, topicOf, registered, stats, dead, searches, churn, wantLeaves,
                 wantJoins, specs, exhausted, roundJoins, joins, main, done, report, time>>

\* All are up, or there are none: the joiners are admitted in order.
BeginAdmission ==
  /\ churn = "leave" /\ wantLeaves = 0 /\ Planned /\ spawned = DOMAIN specs
  /\ churn' = IF specs = <<>> THEN "end" ELSE "member"
  /\ UNCHANGED <<state, topicOf, registered, stats, dead, searches, round, joins, main,
                 done, report, time>>

Joiner == specs[roundJoins + 1]

AddMember ==
  /\ churn = "member"
  /\ topicOf' = [topicOf EXCEPT ![Joiner.idx] = Joiner.topic]
  /\ churn' = "assign"
  /\ UNCHANGED <<state, registered, stats, dead, searches, round, joins, main, done,
                 report, time>>

\* Faulty variant: the joiner is counted once it has registered.
AddAssignedLate ==
  /\ \/ churn = "assign" /\ churn' = "join" /\ UNCHANGED assigned
     \/ /\ churn = "launch" /\ assigned[Joiner.topic] < Cardinality(Members(Joiner.topic))
        /\ assigned' = [assigned EXCEPT ![Joiner.topic] = @ + 1]
        /\ UNCHANGED churn
  /\ UNCHANGED <<state, topicOf, registered, counts, dead, searches, round, joins, main,
                 done, report, time>>

AddAssigned ==
  /\ churn = "assign"
  /\ assigned' = [assigned EXCEPT ![Joiner.topic] = @ + 1]
  /\ churn' = "join"
  /\ UNCHANGED <<state, topicOf, registered, counts, dead, searches, round, joins, main,
                 done, report, time>>

\* churnState.join
JoinAlive ==
  /\ churn = "join"
  /\ all' = Append(all, Joiner.idx)
  /\ alive' = Append(alive, Joiner.idx)
  /\ aliveIdx' = [n \in DOMAIN aliveIdx \cup {Joiner.idx} |->
                    IF n = Joiner.idx THEN Len(alive) + 1 ELSE aliveIdx[n]]
  /\ churn' = "register"
  /\ UNCHANGED <<killed, nextIdx, topicOf, registered, stats, dead, searches, round, joins,
                 main, done, report, time>>

RegisterTopic ==
  /\ churn = "register"
  /\ registered' = registered \cup {Joiner.idx}
  /\ churn' = "launch"
  /\ UNCHANGED <<state, topicOf, stats, dead, searches, round, joins, main, done, report,
                 time>>

\* Faulty variant: the searcher is launched without counting it in.
LaunchUncounted ==
  /\ churn = "launch"
  /\ searcher' = [searcher EXCEPT ![Joiner.idx] = "launched"]
  /\ roundJoins' = roundJoins + 1
  /\ churn' = IF roundJoins' = Len(specs) THEN "end" ELSE "member"
  /\ UNCHANGED <<leaver, state, topicOf, registered, stats, dead, wg, seen, local, results,
                 wantLeaves, wantJoins, specs, spawned, exhausted, joins, main, done, report,
                 time>>

\* searchManager.launch, the last step of a joiner's admission.
Launch ==
  /\ churn = "launch"
  /\ wg' = wg + 1
  /\ searcher' = [searcher EXCEPT ![Joiner.idx] = "launched"]
  /\ roundJoins' = roundJoins + 1
  /\ churn' = IF roundJoins' = Len(specs) THEN "end" ELSE "member"
  /\ UNCHANGED <<leaver, state, topicOf, registered, stats, dead, seen, local, results,
                 wantLeaves, wantJoins, specs, spawned, exhausted, joins, main, done, report,
                 time>>

EndRound ==
  /\ churn = "end"
  /\ joins' = joins + roundJoins
  /\ churn' = IF exhausted /\ roundJoins = 0 THEN "exited" ELSE "select"
  /\ UNCHANGED <<state, topicOf, registered, stats, dead, searches, round, main, done,
                 report, time>>

ChurnStep ==
  \/ ChurnStops \/ BeginRound \/ LeaveRandom \/ MarkOffline \/ NobodyLeaves \/ PlanJoin
  \/ \E c \in 1..PerRound : SpawnNode(c)
  \/ BeginAdmission \/ AddMember \/ AddAssigned \/ JoinAlive \/ RegisterTopic \/ Launch
  \/ EndRound

-----------------------------------------------------------------------------
(* The searchers: runOneSearcher as the population sees it. *)

\* deadLocal.record: a result that has left by now counts as dead.
Record(l, id) ==
  [returned |-> l.returned + 1, dead |-> l.dead + IF id \in offline THEN 1 ELSE 0]

\* The results returned to each searcher.
Returned == [n \in Nodes |-> local[n].returned]

\* Discovery hands searcher n a registrant of its topic.
Yield(n, id) ==
  /\ searcher[n] = "launched"
  /\ SumFunctionOnSet(Returned, Nodes) < setup.yields
  /\ id \in registered \ {n} /\ topicOf[id] = topicOf[n]
  /\ local' = [local EXCEPT ![n] = Record(@, id)]
  /\ seen' = [seen EXCEPT ![n] = @ \cup {id}]
  /\ counts' = IF id \in seen[n] THEN counts ELSE [counts EXCEPT ![topicOf[n]][id] = @ + 1]
  /\ UNCHANGED <<state, topicOf, registered, assigned, dead, wg, searcher, results, churn,
                 round, joins, main, done, report, time>>

\* deadResultTracker.merge
Merge(a, b) == [returned |-> a.returned + b.returned, dead |-> a.dead + b.dead]

\* Faulty variant: only a searcher with dead results merges its counts.
EndSearchIfDead(n) ==
  /\ searcher[n] = "launched"
  /\ totals' = IF local[n].dead = 0 THEN totals
               ELSE [totals EXCEPT ![topicOf[n]] = Merge(@, local[n])]
  /\ searcher' = [searcher EXCEPT ![n] = "merged"]
  /\ UNCHANGED <<state, topicOf, registered, stats, offline, wg, seen, local, results,
                 churn, round, joins, main, done, report, time>>

\* The search ends: at the deadline, or before it when it has all it looks for or
\* its node is closed.
EndSearch(n) ==
  /\ searcher[n] = "launched"
  /\ totals' = [totals EXCEPT ![topicOf[n]] = Merge(@, local[n])]
  /\ searcher' = [searcher EXCEPT ![n] = "merged"]
  /\ UNCHANGED <<state, topicOf, registered, stats, offline, wg, seen, local, results,
                 churn, round, joins, main, done, report, time>>

Launched == {n \in Nodes : searcher[n] # "none"}

\* The result is kept, then wg.Done; the last one releases wait, whose channel
\* stays closed.  done holds the searchers launched by then.
AppendResult(n) ==
  /\ searcher[n] = "merged"
  /\ results' = results \cup {n}
  /\ searcher' = [searcher EXCEPT ![n] = "done"]
  /\ wg' = wg - 1
  /\ done' = IF done = {} /\ wg = 1 THEN Launched ELSE done
  /\ UNCHANGED <<state, topicOf, registered, stats, dead, seen, local, churn, round, joins,
                 main, report, time>>

-----------------------------------------------------------------------------
(* Main. *)

\* Faulty variant: wait has no limit.
WaitReturnsWhenDone ==
  /\ main = "wait" /\ done # {}
  /\ report' = [partial |-> FALSE, results |-> results]
  /\ main' = "stopping"
  /\ UNCHANGED <<state, topicOf, registered, stats, dead, searches, churn, round, joins,
                 done, time>>

\* searchManager.wait returns the results so far; churnStop is closed.
WaitReturns ==
  /\ main = "wait"
  /\ \/ done # {} /\ report' = [partial |-> FALSE, results |-> results]
     \/ clock >= HardLimit /\ report' = [partial |-> TRUE, results |-> results]
  /\ main' = "stopping"
  /\ UNCHANGED <<state, topicOf, registered, stats, dead, searches, churn, round, joins,
                 done, time>>

\* churnState.counts
Counts == [alive |-> Len(alive), killed |-> Cardinality(killed), total |-> Len(all)]

\* What the summary and the report are made of.  The populations and joins are read
\* one after another, but only the churn goroutine changes them; the totals are
\* read last.
Summary ==
  [partial |-> report.partial, results |-> report.results, nodes |-> Counts,
   joins |-> joins, returned |-> [t \in Topics |-> totals[t].returned]]

\* Faulty variant: the churn goroutine is told to stop but not waited for.
ReportAtOnce ==
  /\ main = "stopping"
  /\ report' = Summary
  /\ main' = "ended"
  /\ UNCHANGED <<state, topicOf, registered, stats, dead, searches, churn, round, joins,
                 done, time>>

\* Once the churn goroutine has ended (the monitor and the checkpoints, which only
\* read, end after it).
Report ==
  /\ main = "stopping" /\ churn = "exited"
  /\ report' = Summary
  /\ main' = "ended"
  /\ UNCHANGED <<state, topicOf, registered, stats, dead, searches, churn, round, joins,
                 done, time>>

Next ==
  \/ Tick \/ ChurnStep \/ WaitReturns \/ Report
  \/ \E n \in Nodes : EndSearch(n) \/ AppendResult(n) \/ \E id \in Nodes : Yield(n, id)

Spec == Init /\ [][Next]_vars

\* Time passes and every goroutine runs, but the search of a node that has left
\* may never end: "observed when a node is killed mid-search" (search.go:788).
FairSpec ==
  /\ Spec
  /\ WF_vars(Tick) /\ WF_vars(ChurnStep) /\ WF_vars(WaitReturns) /\ WF_vars(Report)
  /\ \A n \in Nodes : WF_vars(n \notin killed /\ EndSearch(n)) /\ WF_vars(AppendResult(n))

-----------------------------------------------------------------------------
\* printCheckpoint: registrants nobody has found, by which its percentiles are padded.
NeverFound(t) == assigned[t] - Cardinality({n \in Nodes : counts[t][n] > 0})

\* A checkpoint, at any moment, sees at least as many assigned registrants as
\* registrants found: a joiner is counted before discovery can return it.
FoundWithinAssigned == \A t \in Topics : NeverFound(t) >= 0

\* Unless the hard limit cut it short, the results wait returned are those of
\* every searcher launched by the time the last of them ended, the joiners' too.
ResultsComplete ==
  main # "wait" /\ ~ report.partial => done \subseteq report.results

\* Everybody who took part is alive or killed, joins included.
PopulationReported ==
  /\ report.nodes.alive + report.nodes.killed = Cardinality(Founders) + report.joins
  /\ report.nodes.total = Initial + report.joins

\* The searchers of topic t whose results are reported.
Reported(t) == {r \in report.results : topicOf[r] = t}

\* The live find counts cover every result that is reported ...
FindsReported ==
  \A t \in Topics, n \in Nodes :
    Cardinality({r \in Reported(t) : n \in seen[r]}) <= counts[t][n]

\* ... and so do the dead-result totals.
TotalsReported ==
  \A t \in Topics : SumFunctionOnSet(Returned, Reported(t)) <= report.returned[t]

\* The summary's figures agree: everybody who took part is alive or killed, joins
\* included, and the dead-result totals and the live find counts cover every result
\* that is reported.  The population, read first, no longer changes by then; late
\* searchers still add to totals and finds.
ReportAddsUp ==
  main = "ended" => PopulationReported /\ FindsReported /\ TotalsReported

Bounded == INSTANCE Population WITH present <- ToSet(alive), left <- killed

\* churnState implements Population: whatever the slices and maps do, nodes leave
\* one at a time and for good, never the bootnode, and joiners are new.
PopulationSpec == Bounded!PopulationSpec

\* The workload ends though searchers of departed nodes may hang.
WorkloadEnds == <>(main = "ended")
=============================================================================

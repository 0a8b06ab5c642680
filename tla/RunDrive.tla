------------------------------ MODULE RunDrive ------------------------------
(***************************************************************************)
(* The coordinator of the cloud backend and one of its hosts: RunCloud and *)
(* drive (pkg/coordinator), one testbed process per run, runs one after    *)
(* the other on the same agent.  Of the other hosts only failure matters.  *)
(* The main goroutine and one goroutine per node each have at most one     *)
(* HTTP call in flight; a call whose client gives up, or whose coordinator *)
(* has exited, is served on.                                               *)
(*                                                                         *)
(* Times are abstracted: a node's plan is the churn calls whose time lies  *)
(* before StopAt, and drive returns at any time.  The reads (/trace) are   *)
(* one step: the agent opens the file without a lock.                      *)
(***************************************************************************)
EXTENDS HostAgent, Sequences

CONSTANTS
  Boot,      \* as[0], started before the others, here or on another host
  Plan,      \* the churn calls of each node, "kill" and "start"
  Attempts,  \* fetches of a trace in a pass (3 in the code)
  LateSlots, \* bound: abandoned calls being served
  MaxFaults  \* bound: calls that time out or are lost, over all runs

ASSUME RunDriveAssumption ==
  /\ Plan \in [Nodes -> Seq({"kill", "start"})]
  /\ Attempts \in Nat \ {0} /\ LateSlots \in Nat /\ MaxFaults \in Nat
  /\ Tasks = {<<"main", 0>>} \cup ({"node"} \X Nodes) \cup ({"late"} \X (1..LateSlots))

VARIABLES
  run,      \* the current run
  cpc,      \* where its main goroutine is
  st,       \* st[n]: "new", "starting", "started" or "failed"
  churned,  \* churned[n]: calls of the plan that are done
  departs, rejoins, killFailed, startFailed,  \* churnLog
  att,      \* att[n]: fetches of n's trace in this pass
  file,     \* file[n]: the run of the fetched trace, 0 if none, Partial
  got,      \* traces counted as fetched
  failed,   \* nodes given up in the first pass
  faults    \* timeouts and lost calls so far

driveVars == <<run, cpc, st, churned, departs, rejoins, killFailed, startFailed,
               att, file, got, failed>>
vars == <<agentVars, driveVars, faults>>

Main == <<"main", 0>>
Node(n) == <<"node", n>>
Late == {"late"} \X (1..LateSlots)
Partial == -1

\* The state of a fresh coordinator process.
FreshRun ==
  [st |-> [n \in Nodes |-> "new"], zero |-> [n \in Nodes |-> 0]]

Init ==
  /\ AgentInit
  /\ run = 1 /\ cpc = "prepare"
  /\ st = FreshRun.st /\ churned = FreshRun.zero
  /\ departs = 0 /\ rejoins = 0 /\ killFailed = 0 /\ startFailed = 0
  /\ att = FreshRun.zero /\ file = FreshRun.zero /\ got = 0 /\ failed = {}
  /\ faults = 0

-----------------------------------------------------------------------------
(* Calls *)

agentElse == <<mu, cur, reg, proc, mon, asg, traces, downs, raced>>

Post(t, op, n) ==
  /\ h[t].pc = "idle"
  /\ h' = [h EXCEPT ![t] = [Idle EXCEPT !.op = op, !.node = n, !.run = run, !.pc = "recv"]]
  /\ UNCHANGED agentElse

\* The answer of the call, which the client takes.
Answered(t, ok) ==
  /\ h[t].pc = "done" /\ h[t].ok = ok
  /\ h' = [h EXCEPT ![t] = Idle]
  /\ UNCHANGED agentElse

InFlight(t) == h[t].pc # "idle"

\* The client sees an error.
Failed(t) == [Idle EXCEPT !.op = h[t].op, !.pc = "done"]

\* The client's timeout passes while the call is served: the call fails for the
\* client and goes on in the agent.
Hand(t, u, left) ==
  /\ h' = [h EXCEPT ![u] = h[t], ![t] = left]
  /\ mu' = IF mu = t THEN u ELSE mu
  /\ mon' = [g \in Runs |-> IF mon[g].asker = t THEN [mon[g] EXCEPT !.asker = u] ELSE mon[g]]
  /\ UNCHANGED <<cur, reg, proc, asg, traces, downs, raced>>

TimesOut(t) ==
  /\ t \notin Late /\ h[t].pc \notin {"idle", "done"}
  /\ faults < MaxFaults
  /\ \E u \in Late : ~ InFlight(u) /\ Hand(t, u, Failed(t))
  /\ faults' = faults + 1
  /\ UNCHANGED driveVars

\* The call never reaches the agent.
Lost(t) ==
  /\ t \notin Late /\ h[t].pc = "recv"
  /\ faults < MaxFaults
  /\ h' = [h EXCEPT ![t] = Failed(t)]
  /\ faults' = faults + 1
  /\ UNCHANGED <<agentElse, driveVars>>

\* Nobody reads the answer of an abandoned call.
Unread(t) ==
  /\ t \in Late /\ h[t].pc = "done"
  /\ h' = [h EXCEPT ![t] = Idle]
  /\ UNCHANGED <<agentElse, driveVars, faults>>

-----------------------------------------------------------------------------
(* RunCloud: prepare, and drive's starts *)

startElse == <<run, churned, departs, rejoins, killFailed, startFailed, att, file, got,
               failed, faults>>

\* A prepare that failed, here or on another host, ends the run before the
\* deferred stop is set up.
Prepare ==
  /\ \/ cpc = "prepare" /\ Post(Main, "prepare", 0) /\ cpc' = "preparing"
     \/ cpc = "preparing" /\ Answered(Main, TRUE) /\ cpc' = "boot"
     \/ cpc = "preparing" /\ (\E ok \in BOOLEAN : Answered(Main, ok)) /\ cpc' = "over"
  /\ UNCHANGED <<st, startElse>>

\* The bootnode first, then the others together.
StartNode(n) ==
  /\ st[n] = "new"
  /\ cpc = IF n = Boot THEN "boot" ELSE "start"
  /\ Post(Node(n), "start", n)
  /\ st' = [st EXCEPT ![n] = "starting"]
  /\ UNCHANGED <<cpc, startElse>>

StartReturns(n) ==
  /\ st[n] = "starting"
  /\ \E ok \in BOOLEAN :
       /\ Answered(Node(n), ok)
       /\ st' = [st EXCEPT ![n] = IF ok THEN "started" ELSE "failed"]
  /\ cpc' = IF n # Boot THEN cpc ELSE IF st'[n] = "failed" THEN "stop" ELSE "start"
  /\ UNCHANGED startElse

BootElsewhere ==
  /\ cpc = "boot" /\ Boot \notin Nodes
  /\ cpc' \in {"start", "stop"}
  /\ UNCHANGED <<agentVars, st, startElse>>

\* each waits for every start; the first error, here or elsewhere, ends drive.
AllStarted ==
  /\ cpc = "start"
  /\ \A n \in Nodes : st[n] \in {"started", "failed"}
  /\ \/ cpc' = "stop"
     \/ cpc' = "drive" /\ \A n \in Nodes : st[n] = "started"
  /\ UNCHANGED <<agentVars, st, startElse>>

-----------------------------------------------------------------------------
(* drive's churn goroutines: nobody waits for them, they end with the process *)

Driven == cpc \in {"drive", "sample", "sampling", "fetch", "retry", "metrics", "measuring",
                   "stop", "stopping"}

Started == \A n \in Nodes : st[n] = "started"

Churn(n) ==
  /\ Driven /\ Started
  /\ churned[n] < Len(Plan[n])
  /\ Post(Node(n), Plan[n][churned[n] + 1], n)
  /\ UNCHANGED <<driveVars, faults>>

\* Faulty variant: a departure is counted whether or not the call failed.
ChurnReturnsCounted(n) ==
  /\ Driven /\ Started
  /\ churned[n] < Len(Plan[n])
  /\ \E ok \in BOOLEAN : Answered(Node(n), ok)
  /\ departs' = IF Plan[n][churned[n] + 1] = "kill" THEN departs + 1 ELSE departs
  /\ rejoins' = IF Plan[n][churned[n] + 1] = "start" THEN rejoins + 1 ELSE rejoins
  /\ churned' = [churned EXCEPT ![n] = @ + 1]
  /\ UNCHANGED <<killFailed, startFailed, run, cpc, st, att, file, got, failed, faults>>

\* churnLog.record
ChurnReturns(n) ==
  /\ Driven /\ Started
  /\ churned[n] < Len(Plan[n])
  /\ LET op == Plan[n][churned[n] + 1]
         One(c) == IF c THEN 1 ELSE 0
     IN  \E ok \in BOOLEAN :
           /\ Answered(Node(n), ok)
           /\ departs' = departs + One(op = "kill" /\ ok)
           /\ rejoins' = rejoins + One(op = "start" /\ ok)
           /\ killFailed' = killFailed + One(op = "kill" /\ ~ ok)
           /\ startFailed' = startFailed + One(op = "start" /\ ~ ok)
  /\ churned' = [churned EXCEPT ![n] = @ + 1]
  /\ UNCHANGED <<run, cpc, st, att, file, got, failed, faults>>

-----------------------------------------------------------------------------
(* RunCloud: after drive *)

mainElse == <<run, st, churned, departs, rejoins, killFailed, startFailed, faults>>

DriveEnds ==
  /\ cpc = "drive"
  /\ cpc' = IF Monitored THEN "sample" ELSE "fetch"
  /\ UNCHANGED <<agentVars, att, file, got, failed, mainElse>>

\* sampleAtStop: best effort.
SampleAtStop ==
  /\ \/ cpc = "sample" /\ Post(Main, "sample", 0) /\ cpc' = "sampling"
     \/ cpc = "sampling" /\ (\E ok \in BOOLEAN : Answered(Main, ok)) /\ cpc' = "fetch"
  /\ UNCHANGED <<att, file, got, failed, mainElse>>

\* fetch: the trace is there and arrives, or nothing does, or the copy breaks
\* off and leaves the file it created.
Fetched(n) == traces[n] # 0 /\ file' = [file EXCEPT ![n] = traces[n]]

NotFetched(n) ==
  \/ UNCHANGED file
  \/ traces[n] # 0 /\ file' = [file EXCEPT ![n] = Partial]

\* The first pass: a node whose attempts all fail is given up for now.
Fetch(n) ==
  /\ cpc = "fetch" /\ att[n] < Attempts
  /\ \/ /\ Fetched(n)
        /\ got' = got + 1
        /\ att' = [att EXCEPT ![n] = Attempts]
        /\ UNCHANGED failed
     \/ /\ NotFetched(n)
        /\ att' = [att EXCEPT ![n] = @ + 1]
        /\ failed' = IF att'[n] = Attempts THEN failed \cup {n} ELSE failed
        /\ UNCHANGED got
  /\ UNCHANGED <<agentVars, cpc, mainElse>>

FirstPassEnds ==
  /\ cpc = "fetch" /\ \A n \in Nodes : att[n] = Attempts
  /\ att' = [n \in Nodes |-> IF n \in failed THEN 0 ELSE Attempts]
  /\ cpc' = "retry"
  /\ UNCHANGED <<agentVars, file, got, failed, mainElse>>

\* Faulty variant: a straggler's trace is counted, and stays in failed.
RefetchKeepsFailed(n) ==
  /\ cpc = "retry" /\ att[n] < Attempts
  /\ \/ /\ Fetched(n)
        /\ got' = got + 1
        /\ att' = [att EXCEPT ![n] = Attempts]
     \/ /\ NotFetched(n)
        /\ att' = [att EXCEPT ![n] = @ + 1]
        /\ UNCHANGED got
  /\ UNCHANGED <<agentVars, cpc, failed, mainElse>>

\* The second pass, over the nodes of failed.
Refetch(n) ==
  /\ cpc = "retry" /\ att[n] < Attempts
  /\ \/ /\ Fetched(n)
        /\ got' = got + 1
        /\ failed' = failed \ {n}
        /\ att' = [att EXCEPT ![n] = Attempts]
     \/ /\ NotFetched(n)
        /\ att' = [att EXCEPT ![n] = @ + 1]
        /\ UNCHANGED <<got, failed>>
  /\ UNCHANGED <<agentVars, cpc, mainElse>>

SecondPassEnds ==
  /\ cpc = "retry" /\ \A n \in Nodes : att[n] = Attempts
  /\ cpc' = IF Monitored THEN "metrics" ELSE "stop"
  /\ UNCHANGED <<agentVars, att, file, got, failed, mainElse>>

FetchMetrics ==
  /\ \/ cpc = "metrics" /\ Post(Main, "hostmetrics", 0) /\ cpc' = "measuring"
     \/ cpc = "measuring" /\ (\E ok \in BOOLEAN : Answered(Main, ok)) /\ cpc' = "stop"
  /\ UNCHANGED <<att, file, got, failed, mainElse>>

\* The deferred stop; its error is ignored.
StopAgent ==
  /\ \/ cpc = "stop" /\ Post(Main, "stop", 0) /\ cpc' = "stopping"
     \/ cpc = "stopping" /\ (\E ok \in BOOLEAN : Answered(Main, ok)) /\ cpc' = "over"
  /\ UNCHANGED <<att, file, got, failed, mainElse>>

\* The process exits: what its goroutines still had in flight is abandoned.
Abandon(n) ==
  /\ cpc = "over" /\ InFlight(Node(n))
  /\ \E u \in Late : ~ InFlight(u) /\ Hand(Node(n), u, Idle)
  /\ UNCHANGED <<driveVars, faults>>

\* The next run is a new coordinator process.
NextRun ==
  /\ cpc = "over" /\ run < MaxRuns
  /\ \A n \in Nodes : ~ InFlight(Node(n))
  /\ run' = run + 1 /\ cpc' = "prepare"
  /\ st' = FreshRun.st /\ churned' = FreshRun.zero
  /\ departs' = 0 /\ rejoins' = 0 /\ killFailed' = 0 /\ startFailed' = 0
  /\ att' = FreshRun.zero /\ file' = FreshRun.zero /\ got' = 0 /\ failed' = {}
  /\ UNCHANGED <<agentVars, faults>>

-----------------------------------------------------------------------------
\* A step of the agent or of a node process.
Quiet(A) == A /\ UNCHANGED <<driveVars, faults>>

AgentStep ==
  \/ \E t \in Tasks : Quiet(HandlerStep(t))
  \/ \E g \in Runs : Quiet(PeriodicSample(g)) \/ Quiet(RequestedSample(g)) \/ Quiet(MonitorEnds(g))
  \/ \E p \in Procs : Quiet(NodeFinishes(p)) \/ Quiet(NodeDies(p)) \/ Quiet(Reap(p))

DriveStep ==
  \/ Prepare \/ BootElsewhere \/ AllStarted \/ DriveEnds \/ SampleAtStop \/ FirstPassEnds
  \/ SecondPassEnds \/ FetchMetrics \/ StopAgent \/ NextRun
  \/ \E n \in Nodes : \/ StartNode(n) \/ StartReturns(n) \/ ChurnReturns(n)
                      \/ Fetch(n) \/ Refetch(n) \/ Abandon(n)

Next ==
  \/ AgentStep
  \/ DriveStep
  \/ \E n \in Nodes : Churn(n)
  \/ \E t \in Tasks : TimesOut(t) \/ Lost(t) \/ Unread(t)

Spec == Init /\ [][Next]_vars

\* Goroutines run and timers fire: a handler goes on (a node's call and SIGTERM
\* are bounded by timeouts), mu does not starve a waiter, an exited process is
\* reaped, the monitor and the coordinator take their next step.  Nothing is
\* assumed of the nodes, of faults or of when churn calls come.
Fairness ==
  /\ \A t \in Tasks : SF_vars(Quiet(HandlerStep(t))) /\ WF_vars(Unread(t))
  /\ \A g \in Runs : WF_vars(Quiet(RequestedSample(g))) /\ WF_vars(Quiet(MonitorEnds(g)))
  /\ \A p \in Procs : WF_vars(Quiet(Reap(p)))
  /\ WF_vars(DriveStep)

FairSpec == Spec /\ Fairness

-----------------------------------------------------------------------------
\* A trace collected for a run was written by a process of that run, although
\* the agent serves run after run from one directory and reads it without a
\* lock, and although a killed process writes its trace as it goes.  It needs
\* the agent to have been prepared for this run last: a /prepare its coordinator
\* gave up on may come after the next one's.
TracesOfThisRun ==
  ~ raced /\ asg = run => \A n \in Nodes : file[n] > 0 => file[n] = run

\* The departures drive reports as applied were made, and those made were
\* reported as applied or failed, except for a call still in flight, as long as
\* the coordinator runs.
DeparturesAccountedFor ==
  LET pending == {n \in Nodes : h[Node(n)].op = "kill"}
  IN  /\ departs <= downs[run]
      /\ cpc # "over" => downs[run] <= departs + killFailed + Cardinality(pending)

\* The summary "fetched %d/%d traces" and the list of missing ones add up: every
\* node is fetched or in failed, and those in failed have no whole trace.
FetchAddsUp ==
  cpc \in {"metrics", "measuring"} =>
    /\ got + Cardinality(failed) = Cardinality(Nodes)
    /\ \A n \in Nodes : n \in failed <=> file[n] \in {0, Partial}

\* Every call is answered, whatever it waits for: mu, the monitor, a process.
EveryCallAnswered ==
  \A t \in Tasks : []<>(h[t].pc \in {"idle", "done"})
=============================================================================

----------------------------- MODULE HostAgent -----------------------------
(***************************************************************************)
(* One host of the cloud backend: cmd/hostagent, the Runner of pkg/host it *)
(* swaps at every /prepare, the Runner's monitor, and the node processes.  *)
(*                                                                         *)
(* A handler is an HTTP call being served; net/http runs each on its own   *)
(* goroutine and goes on with it when the client has given up.  A step is  *)
(* one critical section of the agent's mu or of Runner.mu, one channel     *)
(* operation, one change of the work directory, or one event of a process. *)
(* Files are abstracted to the run they belong to, host samples to their   *)
(* number, a node process to whether its p2p server is up.                 *)
(***************************************************************************)
EXTENDS Integers, FiniteSets

CONSTANTS
  Nodes,      \* the nodes placed on this host
  Arrivals,   \* nodes that start down and come up by a churn call
  Tasks,      \* the callers whose calls may be in flight
  MaxRuns,    \* bound: runs served by the agent, one Runner each
  MaxProcs,   \* bound: node processes launched
  MaxSamples, \* bound: periodic samples of one monitor
  Monitored   \* sample_period_ms > 0

ASSUME HostAgentAssumption ==
  /\ IsFiniteSet(Nodes) /\ Nodes # {}
  /\ Arrivals \subseteq Nodes
  /\ MaxRuns \in Nat \ {0} /\ MaxProcs \in Nat /\ MaxSamples \in Nat
  /\ Monitored \in BOOLEAN

VARIABLES
  mu,       \* the task holding the agent's lock, or NoTask
  cur,      \* r: the number of the current Runner, 0 for nil
  h,        \* the handler of each task's call
  reg,      \* reg[g][n]: the process of node n in Runner g's procs, 0 if none
  proc,     \* proc[p]: the p-th process launched
  mon,      \* mon[g]: Runner g's monitor
  asg,      \* the run whose assignments are in the work directory, 0 if none
  traces,   \* traces[n]: the run whose trace of n is there, 0 if none
  downs,    \* history: downs[g]: departures made by calls of run g
  raced     \* history: a Start overlapped StopAll's listing, or two launch one node

agentVars == <<mu, cur, h, reg, proc, mon, asg, traces, downs, raced>>

Runs == 1..MaxRuns
Procs == 1..MaxProcs
NoTask == <<"none", 0>>

\* No call of the task is being served; ok is the last answer.
Idle == [op |-> "none", node |-> 0, run |-> 0, pc |-> "idle", r |-> 0, p |-> 0,
         todo |-> {}, ok |-> FALSE]
NoProc == [st |-> "none", node |-> 0, r |-> 0, run |-> 0, killed |-> FALSE, note |-> "none", up |-> FALSE]
NoMonitor == [st |-> "none", stop |-> FALSE, asker |-> NoTask, samples |-> 0]

AgentInit ==
  /\ mu = NoTask /\ cur = 0
  /\ h = [t \in Tasks |-> Idle]
  /\ reg = [g \in Runs |-> [n \in Nodes |-> 0]]
  /\ proc = [p \in Procs |-> NoProc]
  /\ mon = [g \in Runs |-> NoMonitor]
  /\ asg = 0 /\ traces = [n \in Nodes |-> 0]
  /\ downs = [g \in Runs |-> 0]
  /\ raced = FALSE

-----------------------------------------------------------------------------
(* Handlers *)

At(t, pc) == h[t].pc = pc

Goto(t, pc) == h' = [h EXCEPT ![t].pc = pc]

\* The response is written; whether anyone still reads it is the client's side.
Answer(t, ok) ==
  h' = [h EXCEPT ![t] = [Idle EXCEPT !.op = h[t].op, !.pc = "done", !.ok = ok]]

\* runner() and the test of r; the handlers of /start, /kill and /sample hold
\* mu no longer than that.
GetRunner(t) ==
  /\ At(t, "recv") /\ mu = NoTask
  /\ h[t].op \in {"start", "kill", "sample"}
  /\ IF cur = 0
     THEN Answer(t, FALSE)
     ELSE h' = [h EXCEPT ![t].r = cur,
                         ![t].pc = CASE h[t].op = "start"  -> "check"
                                     [] h[t].op = "kill"   -> "node"
                                     [] h[t].op = "sample" -> "ask"]
  /\ UNCHANGED <<mu, cur, reg, proc, mon, asg, traces, downs, raced>>

HostMetrics(t) ==
  /\ At(t, "recv") /\ mu = NoTask /\ h[t].op = "hostmetrics"
  /\ Answer(t, cur # 0)
  /\ UNCHANGED <<mu, cur, reg, proc, mon, asg, traces, downs, raced>>

\* /prepare and /stop hold mu throughout; both first stop the Runner there is.
Lock(t) ==
  /\ At(t, "recv") /\ mu = NoTask
  /\ h[t].op \in {"prepare", "stop"}
  /\ mu' = t
  /\ Goto(t, IF cur = 0 THEN "stopped" ELSE "stopMonitor")
  /\ UNCHANGED <<cur, reg, proc, mon, asg, traces, downs, raced>>

\* StopMonitor: close stop once, wait for the sampling goroutine.
StopMonitor(t) ==
  /\ At(t, "stopMonitor")
  /\ mon' = IF mon[cur].st = "none" THEN mon ELSE [mon EXCEPT ![cur].stop = TRUE]
  /\ Goto(t, "monitorWait")
  /\ UNCHANGED <<mu, cur, reg, proc, asg, traces, downs, raced>>

MonitorStopped(t) ==
  /\ At(t, "monitorWait")
  /\ mon[cur].st \in {"none", "done"}
  /\ Goto(t, "stopAll")
  /\ UNCHANGED <<mu, cur, reg, proc, mon, asg, traces, downs, raced>>

\* A Start that has its Runner and is not finished.
Starting(t) == h[t].op = "start" /\ h[t].pc \in {"check", "exec", "register"}

\* One that found its node not in the table: it is between its two sections.
BetweenSections(t) == h[t].pc \in {"exec", "register"}

\* StopAll: list the processes under Runner.mu, then terminate one by one.
StopAll(t) ==
  /\ At(t, "stopAll")
  /\ h' = [h EXCEPT ![t].pc = "terminate", ![t].todo = {n \in Nodes : reg[cur][n] # 0}]
  /\ raced' = (raced \/ \E u \in Tasks : Starting(u))
  /\ UNCHANGED <<mu, cur, reg, proc, mon, asg, traces, downs>>

\* Faulty variant: the process stays in the table.
TerminateKeepsEntry(t) ==
  /\ At(t, "terminate")
  /\ \E n \in h[t].todo :
       h' = [h EXCEPT ![t].pc = "signal", ![t].p = reg[cur][n], ![t].todo = @ \ {n}]
  /\ UNCHANGED <<mu, cur, reg, proc, mon, asg, traces, downs, raced>>

\* terminate: the process leaves the table under Runner.mu (no one else takes
\* it off, both callers of StopAll hold mu) ...
Terminate(t) ==
  /\ At(t, "terminate")
  /\ \E n \in h[t].todo :
       /\ reg' = [reg EXCEPT ![cur][n] = 0]
       /\ h' = [h EXCEPT ![t].pc = "signal", ![t].p = reg[cur][n], ![t].todo = @ \ {n}]
  /\ UNCHANGED <<mu, cur, proc, mon, asg, traces, downs, raced>>

\* ... gets SIGTERM ...
Sigterm(t) ==
  /\ At(t, "signal")
  /\ proc' = [proc EXCEPT ![h[t].p].killed = (proc[h[t].p].st = "running")]
  /\ Goto(t, "reapWait")
  /\ UNCHANGED <<mu, cur, reg, mon, asg, traces, downs, raced>>

\* ... and SIGKILL if it takes longer than five seconds ...
Sigkill(t) ==
  /\ At(t, "reapWait")
  /\ proc[h[t].p].st = "running"
  /\ proc' = [proc EXCEPT ![h[t].p].st = "exited", ![h[t].p].up = FALSE]
  /\ UNCHANGED <<mu, cur, h, reg, mon, asg, traces, downs, raced>>

\* Faulty variant: SIGTERM is sent and the process is not waited for.
ReapedUnwaited(t) ==
  /\ At(t, "reapWait")
  /\ h' = [h EXCEPT ![t].pc = "terminate", ![t].p = 0]
  /\ UNCHANGED <<mu, cur, reg, proc, mon, asg, traces, downs, raced>>

\* ... and is waited for.
Reaped(t) ==
  /\ At(t, "reapWait")
  /\ proc[h[t].p].st = "reaped"
  /\ h' = [h EXCEPT ![t].pc = "terminate", ![t].p = 0]
  /\ UNCHANGED <<mu, cur, reg, proc, mon, asg, traces, downs, raced>>

AllStopped(t) ==
  /\ At(t, "terminate") /\ h[t].todo = {}
  /\ Goto(t, "stopped")
  /\ UNCHANGED <<mu, cur, reg, proc, mon, asg, traces, downs, raced>>

Stop(t) ==
  /\ At(t, "stopped") /\ h[t].op = "stop"
  /\ mu' = NoTask
  /\ Answer(t, TRUE)
  /\ UNCHANGED <<cur, reg, proc, mon, asg, traces, downs, raced>>

\* Faulty variant: the assignments are removed, the traces stay.
RemoveAllKeepsTraces(t) ==
  /\ At(t, "stopped") /\ h[t].op = "prepare"
  /\ asg' = 0
  /\ Goto(t, "new")
  /\ UNCHANGED <<mu, cur, reg, proc, mon, traces, downs, raced>>

\* /prepare goes on: the work directory is removed ...
RemoveAll(t) ==
  /\ At(t, "stopped") /\ h[t].op = "prepare"
  /\ asg' = 0 /\ traces' = [n \in Nodes |-> 0]
  /\ Goto(t, "new")
  /\ UNCHANGED <<mu, cur, reg, proc, mon, downs, raced>>

\* ... a new Runner takes over, and its Prepare writes the assignments and
\* creates the namespaces, or fails before or after it wrote them.
NewRunner(t) ==
  /\ At(t, "new")
  /\ cur' = cur + 1
  /\ mu' = NoTask
  /\ \/ /\ asg' = h[t].run
        /\ mon' = IF Monitored THEN [mon EXCEPT ![cur'].st = "idle"] ELSE mon
        /\ Answer(t, TRUE)
     \/ /\ asg' \in {0, h[t].run}
        /\ UNCHANGED mon
        /\ Answer(t, FALSE)
  /\ UNCHANGED <<reg, proc, traces, downs, raced>>

\* Start: a node in the table is asked to come up, another is launched.
Check(t) ==
  /\ At(t, "check")
  /\ Goto(t, IF reg[h[t].r][h[t].node] # 0 THEN "node" ELSE "exec")
  /\ raced' = (raced \/ /\ reg[h[t].r][h[t].node] = 0
                        /\ \E u \in Tasks \ {t} : BetweenSections(u) /\ h[u].node = h[t].node)
  /\ UNCHANGED <<mu, cur, reg, proc, mon, asg, traces, downs>>

Launched == Cardinality({p \in Procs : proc[p].st # "none"})

\* The log cannot be opened without its directory; exec may fail.  The process
\* reads the assignment that is in the directory.
Exec(t) ==
  /\ At(t, "exec")
  /\ \/ \E p \in Procs :
          /\ asg # 0 /\ p = Launched + 1
          /\ proc' = [proc EXCEPT ![p] =
                        [NoProc EXCEPT !.st = "running", !.node = h[t].node, !.r = h[t].r,
                                       !.run = asg, !.up = h[t].node \notin Arrivals]]
          /\ h' = [h EXCEPT ![t].pc = "register", ![t].p = p]
     \/ Answer(t, FALSE) /\ UNCHANGED proc
  /\ UNCHANGED <<mu, cur, reg, mon, asg, traces, downs, raced>>

Register(t) ==
  /\ At(t, "register")
  /\ reg' = [reg EXCEPT ![h[t].r][h[t].node] = h[t].p]
  /\ Answer(t, TRUE)
  /\ UNCHANGED <<mu, cur, proc, mon, asg, traces, downs, raced>>

\* The processes that may answer at the node's status address.
Listening(n) == {p \in Procs : proc[p].st = "running" /\ proc[p].node = n}

\* call: /up or /down to the node.  It is refused in the wrong state; one that
\* is done may still be reported as failed, when the answer takes too long.
CallNode(t) ==
  /\ At(t, "node")
  /\ LET n == h[t].node
         up == h[t].op = "start"
     IN  \/ \E p \in Listening(n) :
              /\ proc[p].up = ~ up
              /\ proc' = [proc EXCEPT ![p].up = up]
              /\ downs' = IF up THEN downs ELSE [downs EXCEPT ![h[t].run] = @ + 1]
              /\ \E ok \in BOOLEAN : Answer(t, ok)
         \/ UNCHANGED <<proc, downs>> /\ Answer(t, FALSE)
  /\ UNCHANGED <<mu, cur, reg, mon, asg, traces, raced>>

\* Faulty variant: SampleNow waits for the sampling goroutine alone.
AskForever(t) ==
  /\ At(t, "ask")
  /\ \/ mon[h[t].r].st = "none" /\ Answer(t, FALSE) /\ UNCHANGED mon
     \/ /\ mon[h[t].r].st = "idle"
        /\ mon' = [mon EXCEPT ![h[t].r].st = "asked", ![h[t].r].asker = t]
        /\ Goto(t, "await")
  /\ UNCHANGED <<mu, cur, reg, proc, asg, traces, downs, raced>>

\* SampleNow: hand the request to the sampling goroutine, unless it has ended.
Ask(t) ==
  /\ At(t, "ask")
  /\ \/ mon[h[t].r].st \in {"none", "done"} /\ Answer(t, FALSE) /\ UNCHANGED mon
     \/ /\ mon[h[t].r].st = "idle"
        /\ mon' = [mon EXCEPT ![h[t].r].st = "asked", ![h[t].r].asker = t]
        /\ Goto(t, "await")
  /\ UNCHANGED <<mu, cur, reg, proc, asg, traces, downs, raced>>

Replied(t) ==
  /\ At(t, "await")
  /\ mon[h[t].r].asker # t
  /\ Answer(t, TRUE)
  /\ UNCHANGED <<mu, cur, reg, proc, mon, asg, traces, downs, raced>>

HandlerStep(t) ==
  \/ GetRunner(t) \/ HostMetrics(t) \/ Lock(t) \/ StopMonitor(t) \/ MonitorStopped(t)
  \/ StopAll(t) \/ Terminate(t) \/ Sigterm(t) \/ Sigkill(t) \/ Reaped(t)
  \/ AllStopped(t) \/ Stop(t) \/ RemoveAll(t) \/ NewRunner(t)
  \/ Check(t) \/ Exec(t) \/ Register(t) \/ CallNode(t) \/ Ask(t) \/ Replied(t)

-----------------------------------------------------------------------------
(* The sampling goroutine of Runner g *)

PeriodicSample(g) ==
  /\ mon[g].st = "idle" /\ mon[g].samples < MaxSamples
  /\ mon' = [mon EXCEPT ![g].samples = @ + 1]
  /\ UNCHANGED <<mu, cur, h, reg, proc, asg, traces, downs, raced>>

RequestedSample(g) ==
  /\ mon[g].st = "asked"
  /\ mon' = [mon EXCEPT ![g].st = "idle", ![g].asker = NoTask, ![g].samples = @ + 1]
  /\ UNCHANGED <<mu, cur, h, reg, proc, asg, traces, downs, raced>>

MonitorEnds(g) ==
  /\ mon[g].st = "idle" /\ mon[g].stop
  /\ mon' = [mon EXCEPT ![g].st = "done"]
  /\ UNCHANGED <<mu, cur, h, reg, proc, asg, traces, downs, raced>>

-----------------------------------------------------------------------------
(* Node process p *)

\* At StopAt or on SIGTERM the node writes its trace and exits; the write needs
\* the directory.
NodeFinishes(p) ==
  /\ proc[p].st = "running"
  /\ proc' = [proc EXCEPT ![p].st = "exited", ![p].up = FALSE]
  /\ traces' = IF asg # 0 THEN [traces EXCEPT ![proc[p].node] = proc[p].run] ELSE traces
  /\ UNCHANGED <<mu, cur, h, reg, mon, asg, downs, raced>>

\* A crash, or a SIGTERM before the node handles signals.
NodeDies(p) ==
  /\ proc[p].st = "running"
  /\ proc' = [proc EXCEPT ![p].st = "exited", ![p].up = FALSE]
  /\ UNCHANGED <<mu, cur, h, reg, mon, asg, traces, downs, raced>>

\* reap, which Start sets off once it has registered the process: Wait returns,
\* the exit is noted in the node's log, done is closed.
Reap(p) ==
  /\ proc[p].st = "exited"
  /\ \A t \in Tasks : At(t, "register") => h[t].p # p
  /\ proc' = [proc EXCEPT ![p].st = "reaped",
                          ![p].note = IF reg[proc[p].r][proc[p].node] = p THEN "exited on its own" ELSE "exited"]
  /\ UNCHANGED <<mu, cur, h, reg, mon, asg, traces, downs, raced>>

-----------------------------------------------------------------------------
\* A node has one process, over all the runs the agent serves: StopAll waits
\* for each process it terminates before /prepare brings in the next Runner.
\* Start tests the table and registers in two critical sections; only one that
\* is under way when StopAll lists the processes, or two of one node (one of an
\* abandoned call) that both find it not in the table, can escape this.
OneProcessPerNode ==
  ~ raced => \A n \in Nodes : Cardinality(Listening(n)) <= 1

\* reap: "a proc still registered when it exits was not killed (terminate
\* deletes it under r.mu before signalling)".
OwnExitNotKilled ==
  \A p \in Procs : proc[p].note = "exited on its own" => ~ proc[p].killed
=============================================================================

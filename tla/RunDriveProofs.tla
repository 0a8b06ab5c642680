--------------------------- MODULE RunDriveProofs ---------------------------
(***************************************************************************)
(* The host agent under its coordinators, for any number of nodes, runs,   *)
(* processes, late and lost calls: a process killed by the agent is never  *)
(* noted as having exited on its own; without a Start that races, a node   *)
(* has one process and a run collects its own traces; and what a run says  *)
(* departed, and what it says it fetched, adds up.                         *)
(***************************************************************************)
EXTENDS RunDrive, FiniteSetTheorems, TLAPS

-----------------------------------------------------------------------------
(* Types *)

\* Where a handler that holds mu is: stopping the Runner there is, then past it.
Listed  == {"terminate", "signal", "reapWait"}
Locked  == {"stopMonitor", "monitorWait", "stopAll", "stopped", "new"} \cup Listed
Serving == {"check", "exec", "register", "node", "ask", "await"}

Call ==
  [op : {"none", "start", "kill", "sample", "hostmetrics", "prepare", "stop"},
   node : Nodes \cup {0}, run : 0..MaxRuns,
   pc : {"idle", "recv", "done"} \cup Locked \cup Serving,
   r : 0..MaxRuns, p : 0..MaxProcs, todo : SUBSET Nodes, ok : BOOLEAN]

Process ==
  [st : {"none", "running", "exited", "reaped"}, node : Nodes \cup {0}, r : 0..MaxRuns,
   run : 0..MaxRuns, killed : BOOLEAN, note : {"none", "exited", "exited on its own"},
   up : BOOLEAN]

Monitor ==
  [st : {"none", "idle", "asked", "done"}, stop : BOOLEAN, asker : Tasks \cup {NoTask},
   samples : Nat]

AgentTypeOK ==
  /\ mu \in Tasks \cup {NoTask} /\ cur \in 0..MaxRuns
  /\ h \in [Tasks -> Call]
  /\ reg \in [Runs -> [Nodes -> 0..MaxProcs]]
  /\ proc \in [Procs -> Process]
  /\ mon \in [Runs -> Monitor]
  /\ asg \in 0..MaxRuns /\ traces \in [Nodes -> 0..MaxRuns]
  /\ downs \in [Runs -> Nat] /\ raced \in BOOLEAN

\* A first start is waited for.
DriveTypeOK ==
  /\ run \in Runs
  /\ cpc \in {"prepare", "preparing", "boot", "start", "drive", "sample", "sampling", "fetch",
              "retry", "metrics", "measuring", "stop", "stopping", "over"}
  /\ st \in [Nodes -> {"new", "starting", "started", "failed"}]
  /\ churned \in [Nodes -> Nat]
  /\ departs \in Nat /\ rejoins \in Nat /\ killFailed \in Nat /\ startFailed \in Nat
  /\ att \in [Nodes -> 0..Attempts] /\ file \in [Nodes -> {Partial} \cup (0..MaxRuns)]
  /\ got \in Nat /\ failed \in SUBSET Nodes /\ faults \in Nat
  /\ \A n \in Nodes : st[n] = "starting" => cpc = IF n = Boot THEN "boot" ELSE "start"

\* The calls being served: what each place of a handler relies on.
Served(t) == h[t].pc \notin {"idle", "done"}

CallOK(t) ==
  /\ h[t].pc = "idle" => h[t].op = "none"
  /\ Served(t) => h[t].run \in 1..run
  /\ h[t].pc \in {"check", "exec", "register"} => h[t].op = "start"
  /\ h[t].pc = "node" => h[t].op \in {"start", "kill"}
  /\ h[t].pc \in {"ask", "await"} => h[t].op = "sample"
  /\ Served(t) /\ h[t].op \in {"start", "kill"} => h[t].node \in Nodes
  /\ h[t].pc \in Serving => h[t].r \in 1..cur
  /\ h[t].pc \in Locked => h[t].op \in {"prepare", "stop"}
  /\ h[t].pc = "new" => h[t].op = "prepare"
  /\ h[t].pc \in Locked \ {"stopped", "new"} => cur # 0
  /\ h[t].pc \in {"register", "signal", "reapWait"} => h[t].p \in Procs
  /\ h[t].pc \in Listed => \A n \in h[t].todo : reg[cur][n] # 0

\* mu is held exactly from Lock to the end of /prepare and /stop.
LockInv == \A t \in Tasks : h[t].pc \in Locked <=> mu = t

ProcessOK(p) ==
  proc[p].st # "none" => proc[p].node \in Nodes /\ proc[p].r \in Runs /\ proc[p].run \in Runs

\* Each run prepares the agent once, so that a Runner is there for every
\* /prepare that is served.
Preparing(t) == h[t].op = "prepare" /\ Served(t)

PrepareBudget ==
  cur + Cardinality({t \in Tasks : Preparing(t)}) + (IF cpc = "prepare" THEN 1 ELSE 0) <= run

TypeOK ==
  /\ AgentTypeOK /\ DriveTypeOK
  /\ LockInv
  /\ \A t \in Tasks : CallOK(t)
  /\ \A p \in Procs : ProcessOK(p)
  /\ PrepareBudget

-----------------------------------------------------------------------------
(* Runners, processes and their owners *)

\* A process is launched, registered, taken off the table and signalled in this
\* order, and by one goroutine at a time.
Launching(t)   == h[t].pc = "register"
Terminating(t) == h[t].pc \in {"signal", "reapWait"}

LaunchOrder == {p \in Procs : proc[p].st # "none"} = 1..Launched

TableOK(g, n) ==
  reg[g][n] # 0 => /\ g <= cur
                   /\ proc[reg[g][n]].st # "none"
                   /\ proc[reg[g][n]].r = g /\ proc[reg[g][n]].node = n
                   /\ ~ proc[reg[g][n]].killed

LaunchOK(t) ==
  Launching(t) => /\ proc[h[t].p].st # "none"
                  /\ proc[h[t].p].r = h[t].r /\ proc[h[t].p].node = h[t].node
                  /\ ~ proc[h[t].p].killed
                  /\ reg[h[t].r][h[t].node] # h[t].p
                  /\ \A u \in Tasks \ {t} : Launching(u) => h[u].p # h[t].p

TerminateOK(t) ==
  Terminating(t) => /\ proc[h[t].p].st # "none"
                    /\ reg[proc[h[t].p].r][proc[h[t].p].node] # h[t].p
                    /\ proc[h[t].p].node \notin h[t].todo
                    /\ \A u \in Tasks : Launching(u) => h[u].p # h[t].p

NoteOK(p) == proc[p].note # "none" => proc[p].st = "reaped"

ProcInv ==
  /\ LaunchOrder
  /\ \A g \in Runs, n \in Nodes : TableOK(g, n)
  /\ \A t \in Tasks : LaunchOK(t) /\ TerminateOK(t)
  /\ \A p \in Procs : NoteOK(p)

-----------------------------------------------------------------------------
(* Without a race *)

Taken == {"register", "signal", "reapWait"}

\* The current Runner's table has the process, or the handler between the two
\* critical sections of Start or of terminate.
Owned(p) ==
  \/ cur # 0 /\ reg[cur][proc[p].node] = p
  \/ \E t \in Tasks : h[t].pc \in Taken /\ h[t].p = p

Past  == Listed \cup {"stopped", "new"}

\* A Start keeps the Runner it got and is over before the listing; it launches
\* only a node that is not in the table and that no other Start launches.
StartOK(t) ==
  Starting(t) => /\ h[t].r = cur
                 /\ \A u \in Tasks : h[u].pc \notin Past
                 /\ h[t].pc \in {"exec", "register"} =>
                      /\ reg[cur][h[t].node] = 0
                      /\ \A u \in Tasks \ {t} :
                           h[u].pc \in {"exec", "register"} => h[u].node # h[t].node

\* What is still in the table is still to be terminated.
ListOK(t) ==
  /\ h[t].pc \in Listed => \A n \in Nodes : reg[cur][n] # 0 => n \in h[t].todo
  /\ h[t].pc \in {"stopped", "new"} /\ cur # 0 => \A n \in Nodes : reg[cur][n] = 0

QuietStarts ==
  /\ \A t \in Tasks : StartOK(t) /\ ListOK(t)
  /\ \A p \in Procs : proc[p].st = "running" => Owned(p)

\* The work directory is that of the last Runner's run, and so are its files.
QuietFiles ==
  /\ \A p \in Procs : proc[p].st = "running" => proc[p].run = asg
  /\ \A n \in Nodes : traces[n] \in {0, asg}
  /\ \A t \in Tasks : h[t].pc = "new" => asg = 0

\* A run's /prepare is served once, before anything is fetched.
PrepareOK(t) ==
  Preparing(t) /\ h[t].run = run =>
    /\ cpc \in {"preparing", "over"}
    /\ \A n \in Nodes : file[n] = 0
    /\ cpc = "preparing" => t = Main \/ (h[Main].pc = "done" /\ ~ h[Main].ok)
    /\ \A u \in Tasks : Preparing(u) /\ h[u].run = run => u = t

PrepareOnce == \A t \in Tasks : PrepareOK(t)

-----------------------------------------------------------------------------
(* What was fetched *)

Open == {n \in Nodes : att[n] < Attempts}

FetchInv ==
  /\ cpc \in {"prepare", "preparing", "boot", "start", "drive", "sample", "sampling"} =>
       /\ got = 0 /\ failed = {}
       /\ \A n \in Nodes : att[n] = 0 /\ file[n] = 0
  /\ cpc = "fetch" =>
       /\ got + Cardinality(failed) + Cardinality(Open) = Cardinality(Nodes)
       /\ failed \cap Open = {}
       /\ \A n \in Nodes : n \in failed \cup Open <=> file[n] \in {0, Partial}
  /\ cpc \in {"retry", "metrics", "measuring"} =>
       /\ got + Cardinality(failed) = Cardinality(Nodes)
       /\ Open \subseteq failed
       /\ \A n \in Nodes : n \in failed <=> file[n] \in {0, Partial}

-----------------------------------------------------------------------------
(* What departed *)

\* The calls of a node's goroutine are the current run's, and the one that the
\* plan, or the first start, is at.
NodeCallOK(n) ==
  InFlight(Node(n)) =>
    /\ Served(Node(n)) => h[Node(n)].run = run
    /\ \/ st[n] = "starting" /\ h[Node(n)].op = "start"
       \/ st[n] = "started" /\ h[Node(n)].op = Plan[n][churned[n] + 1]

Kills    == {n \in Nodes : h[Node(n)].op = "kill"}
Departed == {n \in Kills : h[Node(n)].pc = "done" /\ h[Node(n)].ok}
Waiting  == {t \in Tasks : h[t].op = "kill" /\ h[t].run = run /\ Served(t)}

\* A kill answered well has been made; one that is served is yet to be
\* counted, also when its client gave up.
CountOK ==
  /\ departs + Cardinality(Departed) <= downs[run]
  /\ cpc # "over" => downs[run] + Cardinality(Waiting) <= departs + killFailed + Cardinality(Kills)

DepartInv ==
  /\ \A n \in Nodes : NodeCallOK(n)
  /\ \A g \in Runs : g > run => downs[g] = 0
  /\ CountOK

RunInv ==
  /\ TypeOK /\ ProcInv /\ OwnExitNotKilled /\ FetchInv /\ PrepareOnce
  /\ ~ raced => QuietStarts /\ QuietFiles
  /\ TracesOfThisRun /\ DepartInv

-----------------------------------------------------------------------------
(* Facts about the constants and the operators *)

LEMMA TaskFacts ==
  /\ NoTask \notin Tasks /\ Main \in Tasks /\ Main \notin Late /\ Late \subseteq Tasks
  /\ \A n \in Nodes : Node(n) \in Tasks /\ Node(n) \notin Late /\ Node(n) # Main
  /\ \A m, n \in Nodes : Node(m) = Node(n) => m = n
BY RunDriveAssumption DEF NoTask, Main, Late, Node

LEMMA TasksFinite == IsFiniteSet(Tasks)
<1>1. IsFiniteSet({<<"main", 0>>}) /\ IsFiniteSet({"node"}) /\ IsFiniteSet({"late"})
  BY FS_Singleton
<1>2. IsFiniteSet(1..LateSlots)
  BY RunDriveAssumption, FS_Interval
<1>3. IsFiniteSet({"node"} \X Nodes) /\ IsFiniteSet({"late"} \X (1..LateSlots))
  BY <1>1, <1>2, HostAgentAssumption, FS_Product
<1> QED
  BY <1>1, <1>3, FS_Union, RunDriveAssumption

LEMMA IdleFacts ==
  /\ Idle \in Call /\ Idle.pc = "idle" /\ Idle.op = "none"
  /\ NoProc \in Process /\ NoProc.st = "none" /\ NoMonitor \in Monitor
BY HostAgentAssumption DEF Idle, NoProc, NoMonitor, Call, Process, Monitor

\* A set of tasks that loses at most one member, or trades it for another.
LEMMA SmallerSet ==
  ASSUME NEW S \in SUBSET Tasks, NEW T \in SUBSET Tasks, NEW t \in Tasks, NEW u \in Tasks,
         T \subseteq S \/ (t \in S /\ T \subseteq (S \ {t}) \cup {u})
  PROVE  Cardinality(T) <= Cardinality(S) /\ Cardinality(S) \in Nat /\ Cardinality(T) \in Nat
<1>1. IsFiniteSet(S) /\ IsFiniteSet(T)
  BY TasksFinite, FS_Subset
<1>2. Cardinality(S) \in Nat /\ Cardinality(T) \in Nat
  BY <1>1, FS_CardinalityType
<1>3. CASE T \subseteq S
  BY <1>1, <1>2, <1>3, FS_Subset
<1>4. CASE t \in S /\ T \subseteq (S \ {t}) \cup {u}
  <2> DEFINE R == S \ {t}
  <2>1. IsFiniteSet(R) /\ Cardinality(R) = Cardinality(S) - 1
    BY <1>1, <1>4, FS_RemoveElement
  <2>2. /\ IsFiniteSet(R \cup {u})
        /\ Cardinality(R \cup {u}) = IF u \in R THEN Cardinality(R) ELSE Cardinality(R) + 1
    BY <2>1, FS_AddElement
  <2>3. Cardinality(T) <= Cardinality(R \cup {u})
    BY <1>4, <2>2, FS_Subset
  <2>4. Cardinality(R \cup {u}) <= Cardinality(S)
    <3> HIDE DEF R
    <3> QED
      BY <1>2, <2>1, <2>2
  <2>5. Cardinality(R \cup {u}) \in Nat
    BY <2>2, FS_CardinalityType
  <2> HIDE DEF R
  <2> QED
    BY <1>2, <2>3, <2>4, <2>5
<1> QED
  BY <1>2, <1>3, <1>4

-----------------------------------------------------------------------------
(* Type correctness *)

\* The updates of a process and of a monitor that the actions make.
LEMMA ProcessUpdates ==
  ASSUME NEW f \in [Procs -> Process], NEW p \in Procs, NEW b \in BOOLEAN,
         NEW x \in {"none", "exited", "exited on its own"}
  PROVE  /\ [f EXCEPT ![p].killed = b] \in [Procs -> Process]
         /\ [f EXCEPT ![p].up = b] \in [Procs -> Process]
         /\ [f EXCEPT ![p].st = "exited", ![p].up = FALSE] \in [Procs -> Process]
         /\ [f EXCEPT ![p].st = "reaped", ![p].note = x] \in [Procs -> Process]
<1>1. f[p] \in Process
  OBVIOUS
<1>2. /\ [f[p] EXCEPT !.killed = b] \in Process /\ [f[p] EXCEPT !.up = b] \in Process
      /\ [f[p] EXCEPT !.st = "exited", !.up = FALSE] \in Process
      /\ [f[p] EXCEPT !.st = "reaped", !.note = x] \in Process
  BY <1>1 DEF Process
<1>3. ASSUME NEW q \in Process
      PROVE  [f EXCEPT ![p] = q] \in [Procs -> Process]
  OBVIOUS
<1> QED
  BY <1>2, <1>3

\* What else they leave alone.
LEMMA ProcessFields ==
  ASSUME NEW f \in [Procs -> Process], NEW p \in Procs, NEW b \in BOOLEAN, NEW q \in Procs
  PROVE  /\ LET g == [f EXCEPT ![p].killed = b]
            IN  /\ g[q].st = f[q].st /\ g[q].node = f[q].node /\ g[q].r = f[q].r
                /\ g[q].run = f[q].run /\ g[q].note = f[q].note
                /\ g[q].killed = IF q = p THEN b ELSE f[q].killed
         /\ LET g == [f EXCEPT ![p].up = b]
            IN  /\ g[q].st = f[q].st /\ g[q].node = f[q].node /\ g[q].r = f[q].r
                /\ g[q].run = f[q].run /\ g[q].note = f[q].note /\ g[q].killed = f[q].killed
         /\ LET g == [f EXCEPT ![p].st = "exited", ![p].up = FALSE]
            IN  /\ g[q].st = (IF q = p THEN "exited" ELSE f[q].st)
                /\ g[q].node = f[q].node /\ g[q].r = f[q].r
                /\ g[q].run = f[q].run /\ g[q].note = f[q].note /\ g[q].killed = f[q].killed
<1> USE DEF Process
<1>1. LET g == [f EXCEPT ![p].killed = b]
      IN  /\ g[q].st = f[q].st /\ g[q].node = f[q].node /\ g[q].r = f[q].r
          /\ g[q].run = f[q].run /\ g[q].note = f[q].note
          /\ g[q].killed = IF q = p THEN b ELSE f[q].killed
  OBVIOUS
<1>2. LET g == [f EXCEPT ![p].up = b]
      IN  /\ g[q].st = f[q].st /\ g[q].node = f[q].node /\ g[q].r = f[q].r
          /\ g[q].run = f[q].run /\ g[q].note = f[q].note /\ g[q].killed = f[q].killed
  OBVIOUS
<1>3. LET g == [f EXCEPT ![p].st = "exited", ![p].up = FALSE]
      IN  /\ g[q].st = (IF q = p THEN "exited" ELSE f[q].st)
          /\ g[q].node = f[q].node /\ g[q].r = f[q].r
          /\ g[q].run = f[q].run /\ g[q].note = f[q].note /\ g[q].killed = f[q].killed
  <2>1. CASE q = p
    BY <2>1, ZenonT(60)
  <2>2. CASE q # p
    BY <2>2
  <2> QED
    BY <2>1, <2>2
<1> QED
  BY <1>1, <1>2, <1>3, Zenon

LEMMA ReapFields ==
  ASSUME NEW f \in [Procs -> Process], NEW p \in Procs, NEW x, NEW q \in Procs
  PROVE  /\ LET g == [f EXCEPT ![p].st = "reaped", ![p].note = x]
            IN  /\ g[q].st = (IF q = p THEN "reaped" ELSE f[q].st)
                /\ g[q].node = f[q].node /\ g[q].r = f[q].r /\ g[q].run = f[q].run
                /\ g[q].note = (IF q = p THEN x ELSE f[q].note) /\ g[q].killed = f[q].killed
BY DEF Process

LEMMA MonitorUpdates ==
  ASSUME NEW f \in [Runs -> Monitor], NEW g \in Runs, NEW t \in Tasks
  PROVE  /\ [f EXCEPT ![g].stop = TRUE] \in [Runs -> Monitor]
         /\ [f EXCEPT ![g].st = "idle"] \in [Runs -> Monitor]
         /\ [f EXCEPT ![g].st = "done"] \in [Runs -> Monitor]
         /\ [f EXCEPT ![g].st = "asked", ![g].asker = t] \in [Runs -> Monitor]
         /\ [f EXCEPT ![g].samples = @ + 1] \in [Runs -> Monitor]
         /\ [f EXCEPT ![g].st = "idle", ![g].asker = NoTask, ![g].samples = @ + 1]
              \in [Runs -> Monitor]
<1>1. f[g] \in Monitor /\ f[g].samples + 1 \in Nat
  BY DEF Monitor
<1>2. /\ [f[g] EXCEPT !.stop = TRUE] \in Monitor /\ [f[g] EXCEPT !.st = "idle"] \in Monitor
      /\ [f[g] EXCEPT !.st = "done"] \in Monitor
      /\ [f[g] EXCEPT !.st = "asked", !.asker = t] \in Monitor
      /\ [f[g] EXCEPT !.samples = f[g].samples + 1] \in Monitor
      /\ [f[g] EXCEPT !.st = "idle", !.asker = NoTask, !.samples = f[g].samples + 1] \in Monitor
  BY <1>1 DEF Monitor
<1>3. ASSUME NEW q \in Monitor
      PROVE  [f EXCEPT ![g] = q] \in [Runs -> Monitor]
  OBVIOUS
<1> QED
  BY <1>2, <1>3

LEMMA AnswerFacts ==
  ASSUME h \in [Tasks -> Call], NEW t \in Tasks, NEW ok \in BOOLEAN, Answer(t, ok)
  PROVE  /\ h' \in [Tasks -> Call]
         /\ \A u \in Tasks \ {t} : h'[u] = h[u]
         /\ h'[t].op = h[t].op /\ h'[t].pc = "done" /\ h'[t].ok = ok
<1> DEFINE c == [Idle EXCEPT !.op = h[t].op, !.pc = "done", !.ok = ok]
<1>1. h[t].op \in {"none", "start", "kill", "sample", "hostmetrics", "prepare", "stop"}
  BY DEF Call
<1>3. c \in Call /\ c.op = h[t].op /\ c.pc = "done" /\ c.ok = ok
  BY <1>1, IdleFacts DEF Call
<1>4. h' = [h EXCEPT ![t] = c]
  BY DEF Answer
<1> HIDE DEF c
<1> QED
  BY <1>3, <1>4

\* A handler changes its own call only; it is being served, and stays of its kind.
LEMMA HandlerCall ==
  ASSUME TypeOK, NEW t \in Tasks, HandlerStep(t)
  PROVE  /\ h' \in [Tasks -> Call]
         /\ \A u \in Tasks \ {t} : h'[u] = h[u]
         /\ h'[t].op = h[t].op /\ Served(t)
         /\ Served(t)' => h'[t].run = h[t].run /\ h'[t].node = h[t].node
<1> USE DEF TypeOK, AgentTypeOK, Runs, At
<1>0. h[t] \in Call /\ CallOK(t) /\ cur \in 0..MaxRuns
  OBVIOUS
<1>1. CASE GetRunner(t)
  <2>1. CASE Answer(t, FALSE)
    BY <1>1, <2>1, AnswerFacts DEF GetRunner, Served
  <2>2. CASE ~ Answer(t, FALSE)
    <3>1. PICK pc \in {"check", "node", "ask"} : h' = [h EXCEPT ![t].r = cur, ![t].pc = pc]
      BY <1>1, <2>2 DEF GetRunner
    <3> QED
      BY <1>0, <1>1, <3>1 DEF GetRunner, Call, Served, Serving
  <2> QED
    BY <2>1, <2>2
<1>2. CASE HostMetrics(t) \/ Stop(t) \/ NewRunner(t) \/ Register(t) \/ CallNode(t) \/ Replied(t)
  <2>1. PICK ok \in BOOLEAN : Answer(t, ok)
    BY <1>2 DEF HostMetrics, Stop, NewRunner, Register, CallNode, Replied
  <2>2. Served(t)
    BY <1>2 DEF HostMetrics, Stop, NewRunner, Register, CallNode, Replied, Served
  <2> QED
    BY <2>1, <2>2, AnswerFacts DEF Served
<1>3. CASE Lock(t) \/ StopMonitor(t) \/ MonitorStopped(t) \/ Sigterm(t) \/ AllStopped(t)
             \/ RemoveAll(t) \/ Check(t)
  <2>1. PICK pc \in Locked \cup Serving : Goto(t, pc)
    BY <1>3 DEF Lock, StopMonitor, MonitorStopped, Sigterm, AllStopped, RemoveAll, Check, Locked,
       Listed, Serving
  <2>2. Served(t)
    BY <1>3 DEF Lock, StopMonitor, MonitorStopped, Sigterm, AllStopped, RemoveAll, Check, Served
  <2> QED
    BY <1>0, <2>1, <2>2 DEF Goto, Call, Served
<1>4. CASE StopAll(t)
  BY <1>0, <1>4 DEF StopAll, Call, Served, Locked, Listed
<1>5. CASE Terminate(t)
  <2>1. PICK n \in h[t].todo :
          h' = [h EXCEPT ![t].pc = "signal", ![t].p = reg[cur][n], ![t].todo = @ \ {n}]
    BY <1>5 DEF Terminate
  <2>2. n \in Nodes /\ cur \in Runs /\ reg[cur][n] \in 0..MaxProcs
    BY <1>0, <1>5 DEF Terminate, CallOK, Locked, Listed, Call
  <2> QED
    BY <1>0, <1>5, <2>1, <2>2 DEF Terminate, Call, Served, Locked, Listed
<1>6. CASE Sigkill(t)
  BY <1>0, <1>6 DEF Sigkill, Call, Served
<1>7. CASE Reaped(t)
  <2>1. h' = [h EXCEPT ![t].pc = "terminate", ![t].p = 0] /\ Served(t)
    BY <1>7 DEF Reaped, Served
  <2>2. 0 \in 0..MaxProcs
    BY HostAgentAssumption
  <2> QED
    BY <1>0, <2>1, <2>2 DEF Call, Served, Locked, Listed
<1>8. CASE Exec(t)
  <2>1. CASE Answer(t, FALSE)
    BY <1>8, <2>1, AnswerFacts DEF Exec, Served
  <2>2. CASE ~ Answer(t, FALSE)
    <3>1. PICK p \in Procs : h' = [h EXCEPT ![t].pc = "register", ![t].p = p]
      BY <1>8, <2>2 DEF Exec
    <3>2. p \in 0..MaxProcs
      BY HostAgentAssumption DEF Procs
    <3> QED
      BY <1>0, <1>8, <3>1, <3>2 DEF Exec, Call, Served, Serving
  <2> QED
    BY <2>1, <2>2
<1>9. CASE Ask(t)
  <2>1. CASE Answer(t, FALSE)
    BY <1>9, <2>1, AnswerFacts DEF Ask, Served
  <2>2. CASE Goto(t, "await")
    BY <1>0, <1>9, <2>2 DEF Ask, Goto, Call, Served, Serving
  <2> QED
    BY <1>9, <2>1, <2>2 DEF Ask
<1> QED
  BY <1>1, <1>2, <1>3, <1>4, <1>5, <1>6, <1>7, <1>8, <1>9 DEF HandlerStep

\* A /prepare that is served has a Runner left to it.
LEMMA NewRunnerRoom ==
  ASSUME TypeOK, NEW t \in Tasks, NewRunner(t)
  PROVE  cur + 1 \in Runs /\ cur' = cur + 1
<1> DEFINE P == {u \in Tasks : Preparing(u)}
<1>1. t \in P
  BY DEF NewRunner, At, TypeOK, CallOK, Preparing, Served
<1>2. IsFiniteSet(P)
  BY TasksFinite, FS_Subset
<1>3. Cardinality(P) \in Nat /\ Cardinality(P) # 0
  BY <1>1, <1>2, FS_CardinalityType, FS_EmptySet
<1>4. cur + Cardinality(P) + (IF cpc = "prepare" THEN 1 ELSE 0) <= run
  BY DEF TypeOK, PrepareBudget
<1>5. cur \in 0..MaxRuns /\ run \in 1..MaxRuns
  BY DEF TypeOK, AgentTypeOK, DriveTypeOK, Runs
<1> HIDE DEF P
<1> QED
  BY <1>3, <1>4, <1>5, HostAgentAssumption DEF NewRunner, Runs

LEMMA HandlerAgentType ==
  ASSUME TypeOK, NEW t \in Tasks, HandlerStep(t)
  PROVE  AgentTypeOK'
<1> USE DEF TypeOK, AgentTypeOK, At
<1>0. h[t] \in Call /\ CallOK(t) /\ h' \in [Tasks -> Call]
  BY HandlerCall
<1>1. CASE GetRunner(t) \/ HostMetrics(t) \/ MonitorStopped(t) \/ Reaped(t) \/ AllStopped(t)
             \/ Replied(t)
  BY <1>0, <1>1 DEF GetRunner, HostMetrics, MonitorStopped, Reaped, AllStopped, Replied
<1>2. CASE Lock(t) \/ Stop(t) \/ StopAll(t) \/ Check(t)
  BY <1>0, <1>2 DEF Lock, Stop, StopAll, Check
<1>3. CASE StopMonitor(t)
  <2>1. mon' \in [Runs -> Monitor]
    BY <1>3, ZenonT(60) DEF StopMonitor, Monitor
  <2> QED
    BY <1>0, <1>3, <2>1 DEF StopMonitor
<1>4. CASE Terminate(t)
  <2>1. PICK n \in h[t].todo : reg' = [reg EXCEPT ![cur][n] = 0]
    BY <1>4 DEF Terminate
  <2>2. reg' \in [Runs -> [Nodes -> 0..MaxProcs]]
    <3>1. 0 \in 0..MaxProcs /\ cur \in Runs /\ n \in Nodes
      <4>1. h[t].pc = "terminate"
        BY <1>4 DEF Terminate
      <4>2. cur # 0
        BY <1>0, <4>1 DEF CallOK, Locked, Listed
      <4>3. n \in Nodes
        BY <1>0, <2>1 DEF Call
      <4> QED
        BY <4>2, <4>3, HostAgentAssumption DEF Runs
    <3> QED
      BY <2>1, <3>1
  <2> QED
    BY <1>0, <1>4, <2>2 DEF Terminate
<1>5. CASE Sigterm(t) \/ Sigkill(t)
  <2>1. proc' \in [Procs -> Process]
    <3>0. h[t].p \in Procs
      BY <1>0, <1>5 DEF Sigterm, Sigkill, CallOK
    <3>1. CASE Sigterm(t)
      <4>1. PICK b \in BOOLEAN : proc' = [proc EXCEPT ![h[t].p].killed = b]
        BY <3>1 DEF Sigterm
      <4> QED
        BY <3>0, <4>1, ProcessUpdates
    <3>2. CASE Sigkill(t)
      BY <3>0, <3>2, ProcessUpdates DEF Sigkill
    <3> QED
      BY <1>5, <3>1, <3>2
  <2> QED
    BY <1>0, <1>5, <2>1 DEF Sigterm, Sigkill
<1>6. CASE RemoveAll(t)
  BY <1>0, <1>6, HostAgentAssumption DEF RemoveAll
<1>7. CASE NewRunner(t)
  <2>1. cur' \in 0..MaxRuns
    BY <1>7, NewRunnerRoom DEF Runs
  <2>2. asg' \in 0..MaxRuns
    <3>1. h[t].run \in 0..MaxRuns /\ 0 \in 0..MaxRuns
      BY HostAgentAssumption DEF Call
    <3> QED
      BY <1>7, <3>1 DEF NewRunner
  <2>3. mon' \in [Runs -> Monitor]
    <3>1. UNCHANGED mon \/ mon' = [mon EXCEPT ![cur'].st = "idle"]
      BY <1>7 DEF NewRunner
    <3>2. cur' \in Runs
      BY <1>7, NewRunnerRoom
    <3>3. [mon EXCEPT ![cur'].st = "idle"] \in [Runs -> Monitor]
      BY ONLY mon \in [Runs -> Monitor], <3>2, t \in Tasks, MonitorUpdates
    <3> QED
      BY <3>1, <3>3
  <2> QED
    BY <1>0, <1>7, <2>1, <2>2, <2>3 DEF NewRunner
<1>8. CASE Exec(t)
  <2>1. proc' \in [Procs -> Process]
    <3>1. CASE UNCHANGED proc
      BY <3>1
    <3>2. CASE ~ UNCHANGED proc
      <4> DEFINE np == [NoProc EXCEPT !.st = "running", !.node = h[t].node, !.r = h[t].r,
                                      !.run = asg, !.up = h[t].node \notin Arrivals]
      <4>1. PICK p \in Procs : proc' = [proc EXCEPT ![p] = np]
        BY <1>8, <3>2 DEF Exec
      <4>2. h[t].node \in Nodes \cup {0} /\ h[t].r \in 0..MaxRuns
        BY DEF Call
      <4>3. np \in Process
        BY <4>2, IdleFacts DEF Process
      <4> HIDE DEF np
      <4> QED
        BY <4>1, <4>3
    <3> QED
      BY <3>1, <3>2
  <2> QED
    BY <1>0, <1>8, <2>1 DEF Exec
<1>9. CASE Register(t)
  <2>1. reg' \in [Runs -> [Nodes -> 0..MaxProcs]]
    <3>1. h[t].p \in 0..MaxProcs
      BY DEF Call
    <3> QED
      BY <1>9, <3>1 DEF Register
  <2> QED
    BY <1>0, <1>9, <2>1 DEF Register
<1>10. CASE CallNode(t)
  <2>1. proc' \in [Procs -> Process]
    <3>1. CASE UNCHANGED proc
      BY <3>1
    <3>2. CASE ~ UNCHANGED proc
      <4>1. PICK p \in Procs, b \in BOOLEAN : proc' = [proc EXCEPT ![p].up = b]
        BY <1>10, <3>2 DEF CallNode, Listening
      <4> QED
        BY <4>1, ProcessUpdates
    <3> QED
      BY <3>1, <3>2
  <2>2. downs' \in [Runs -> Nat]
    <3>1. h[t].run \in Runs
      <4>1. h[t].run \in 1..run /\ run \in 1..MaxRuns
        BY <1>0, <1>10 DEF CallNode, CallOK, Served, DriveTypeOK, Runs
      <4> QED
        BY <4>1, HostAgentAssumption DEF Runs
    <3>2. UNCHANGED downs \/ downs' = [downs EXCEPT ![h[t].run] = @ + 1]
      BY <1>10 DEF CallNode
    <3> QED
      BY <3>1, <3>2
  <2> QED
    BY <1>0, <1>10, <2>1, <2>2 DEF CallNode
<1>11. CASE Ask(t)
  <2>1. mon' \in [Runs -> Monitor]
    <3>1. h[t].r \in Runs
      <4>1. h[t].r \in 1..cur /\ cur \in 0..MaxRuns
        BY <1>0, <1>11 DEF Ask, CallOK, Serving
      <4> QED
        BY <4>1, HostAgentAssumption DEF Runs
    <3>2. UNCHANGED mon \/ mon' = [mon EXCEPT ![h[t].r].st = "asked", ![h[t].r].asker = t]
      BY <1>11 DEF Ask
    <3>3. [mon EXCEPT ![h[t].r].st = "asked", ![h[t].r].asker = t] \in [Runs -> Monitor]
      BY ONLY mon \in [Runs -> Monitor], <3>1, t \in Tasks, MonitorUpdates
    <3> QED
      BY <3>2, <3>3
  <2> QED
    BY <1>0, <1>11, <2>1 DEF Ask
<1> QED
  BY <1>1, <1>2, <1>3, <1>4, <1>5, <1>6, <1>7, <1>8, <1>9, <1>10, <1>11 DEF HandlerStep

\* Only NewRunner changes the Runner.
LEMMA HandlerCur ==
  ASSUME NEW t \in Tasks, HandlerStep(t)
  PROVE  NewRunner(t) \/ cur' = cur
BY DEF HandlerStep, GetRunner, HostMetrics, Lock, StopMonitor, MonitorStopped, StopAll, Terminate,
   Sigterm, Sigkill, Reaped, AllStopped, Stop, RemoveAll, Check, Exec, Register, CallNode, Ask,
   Replied

\* What the steps that do not answer make of their call.
Keeps(t) ==
  /\ h'[t].op = h[t].op /\ h'[t].run = h[t].run /\ h'[t].node = h[t].node
  /\ \A u \in Tasks \ {t} : h'[u] = h[u]

LEMMA GotoFacts ==
  ASSUME h \in [Tasks -> Call], NEW t \in Tasks, NEW pc, Goto(t, pc)
  PROVE  /\ h'[t].pc = pc /\ Keeps(t)
         /\ h'[t].r = h[t].r /\ h'[t].p = h[t].p /\ h'[t].todo = h[t].todo
BY DEF Goto, Keeps, Call

LEMMA GetRunnerFacts ==
  ASSUME h \in [Tasks -> Call], NEW t \in Tasks, GetRunner(t), cur # 0
  PROVE  /\ Keeps(t) /\ h'[t].r = cur /\ h'[t].p = h[t].p /\ h'[t].todo = h[t].todo
         /\ h[t].op = "start" => h'[t].pc = "check"
         /\ h[t].op = "kill" => h'[t].pc = "node"
         /\ h[t].op = "sample" => h'[t].pc = "ask"
BY DEF GetRunner, Keeps, Call

LEMMA StopAllFacts ==
  ASSUME h \in [Tasks -> Call], NEW t \in Tasks, StopAll(t)
  PROVE  /\ Keeps(t) /\ h'[t].pc = "terminate" /\ h'[t].r = h[t].r /\ h'[t].p = h[t].p
         /\ h'[t].todo = {n \in Nodes : reg[cur][n] # 0}
BY DEF StopAll, Keeps, Call

LEMMA TerminateFacts ==
  ASSUME h \in [Tasks -> Call], NEW t \in Tasks, Terminate(t)
  PROVE  \E n \in h[t].todo :
           /\ Keeps(t) /\ h'[t].pc = "signal" /\ h'[t].r = h[t].r
           /\ h'[t].p = reg[cur][n] /\ h'[t].todo = h[t].todo \ {n}
           /\ reg' = [reg EXCEPT ![cur][n] = 0]
<1>1. PICK n \in h[t].todo :
        /\ reg' = [reg EXCEPT ![cur][n] = 0]
        /\ h' = [h EXCEPT ![t].pc = "signal", ![t].p = reg[cur][n], ![t].todo = @ \ {n}]
  BY DEF Terminate
<1>2. /\ Keeps(t) /\ h'[t].pc = "signal" /\ h'[t].r = h[t].r
      /\ h'[t].p = reg[cur][n] /\ h'[t].todo = h[t].todo \ {n}
  BY <1>1 DEF Keeps, Call
<1> QED
  BY <1>1, <1>2

LEMMA ReapedFacts ==
  ASSUME h \in [Tasks -> Call], NEW t \in Tasks, Reaped(t)
  PROVE  /\ Keeps(t) /\ h'[t].pc = "terminate" /\ h'[t].r = h[t].r /\ h'[t].p = 0
         /\ h'[t].todo = h[t].todo
BY DEF Reaped, Keeps, Call

\* The process launched is a new one, of the Runner the Start got.
NewProc(t) == [NoProc EXCEPT !.st = "running", !.node = h[t].node, !.r = h[t].r,
                             !.run = asg, !.up = h[t].node \notin Arrivals]

LEMMA ExecFacts ==
  ASSUME h \in [Tasks -> Call], NEW t \in Tasks, Exec(t)
  PROVE  \/ Answer(t, FALSE) /\ UNCHANGED proc
         \/ \E p \in Procs :
              /\ Keeps(t) /\ h'[t].pc = "register" /\ h'[t].r = h[t].r /\ h'[t].p = p
              /\ h'[t].todo = h[t].todo
              /\ asg # 0 /\ p = Launched + 1 /\ proc' = [proc EXCEPT ![p] = NewProc(t)]
<1>1. CASE Answer(t, FALSE) /\ UNCHANGED proc
  BY <1>1
<1>2. CASE ~ (Answer(t, FALSE) /\ UNCHANGED proc)
  <2>1. PICK p \in Procs :
          /\ asg # 0 /\ p = Launched + 1 /\ proc' = [proc EXCEPT ![p] = NewProc(t)]
          /\ h' = [h EXCEPT ![t].pc = "register", ![t].p = p]
    BY <1>2 DEF Exec, NewProc
  <2>2. /\ Keeps(t) /\ h'[t].pc = "register" /\ h'[t].r = h[t].r /\ h'[t].p = p
        /\ h'[t].todo = h[t].todo
    BY <2>1 DEF Keeps, Call
  <2> QED
    BY <2>1, <2>2
<1> QED
  BY <1>1, <1>2

LEMMA NewProcFacts ==
  ASSUME NEW t \in Tasks
  PROVE  /\ NewProc(t).st = "running" /\ NewProc(t).node = h[t].node /\ NewProc(t).r = h[t].r
         /\ NewProc(t).run = asg /\ NewProc(t).killed = FALSE /\ NewProc(t).note = "none"
BY DEF NewProc, NoProc

\* Lock takes mu, Stop and NewRunner release it, nothing else touches it.
LEMMA HandlerLock ==
  ASSUME TypeOK, NEW t \in Tasks, HandlerStep(t)
  PROVE  LockInv'
<1>0. /\ h \in [Tasks -> Call] /\ h[t] \in Call /\ CallOK(t) /\ LockInv
  BY DEF TypeOK, AgentTypeOK
<1>1. \A u \in Tasks \ {t} : h'[u] = h[u]
  BY HandlerCall
<1>2. ASSUME h'[t].pc \in Locked <=> h[t].pc \in Locked, mu' = mu
      PROVE  LockInv'
  BY <1>0, <1>1, <1>2 DEF LockInv
<1> USE DEF At, Locked, Listed, Serving
<1>3. CASE Lock(t)
  BY <1>0, <1>1, <1>3, TaskFacts DEF Lock, Goto, Call, LockInv
<1>4. CASE Stop(t) \/ NewRunner(t)
  <2>1. mu = t /\ mu' = NoTask
    BY <1>0, <1>4 DEF Stop, NewRunner, LockInv
  <2>2. h'[t].pc = "done"
    BY <1>0, <1>4, AnswerFacts DEF Stop, NewRunner
  <2> QED
    BY <1>0, <1>1, <2>1, <2>2, TaskFacts DEF LockInv
<1>5. CASE GetRunner(t)
  <2>1. CASE Answer(t, FALSE)
    BY <1>0, <1>2, <1>5, <2>1, AnswerFacts DEF GetRunner
  <2>2. CASE ~ Answer(t, FALSE)
    BY <1>0, <1>2, <1>5, <2>2, GetRunnerFacts DEF GetRunner
  <2> QED
    BY <2>1, <2>2
<1>6. CASE HostMetrics(t) \/ Register(t) \/ CallNode(t) \/ Replied(t)
  <2>1. h'[t].pc = "done"
    BY <1>0, <1>6, AnswerFacts DEF HostMetrics, Register, CallNode, Replied
  <2> QED
    BY <1>0, <1>2, <1>6, <2>1 DEF HostMetrics, Register, CallNode, Replied
<1>7. CASE StopMonitor(t) \/ MonitorStopped(t) \/ Sigterm(t) \/ AllStopped(t) \/ RemoveAll(t)
             \/ Check(t)
  BY <1>0, <1>2, <1>7, GotoFacts DEF StopMonitor, MonitorStopped, Sigterm, AllStopped, RemoveAll,
     Check
<1>8. CASE StopAll(t) \/ Terminate(t) \/ Reaped(t) \/ Sigkill(t)
  <2>1. h'[t].pc \in Locked /\ h[t].pc \in Locked /\ mu' = mu
    BY <1>0, <1>8, StopAllFacts, TerminateFacts, ReapedFacts DEF StopAll, Terminate, Reaped, Sigkill
  <2> QED
    BY <1>2, <2>1
<1>9. CASE Exec(t) \/ Ask(t)
  <2>1. CASE Answer(t, FALSE)
    BY <1>0, <1>2, <1>9, <2>1, AnswerFacts DEF Exec, Ask
  <2>2. CASE ~ Answer(t, FALSE)
    <3>1. h'[t].pc \in {"register", "await"}
      BY <1>0, <1>9, <2>2, ExecFacts, GotoFacts DEF Ask
    <3>2. h[t].pc \in {"exec", "ask"} /\ mu' = mu
      BY <1>9 DEF Exec, Ask
    <3> QED
      BY <1>2, <3>1, <3>2
  <2> QED
    BY <2>1, <2>2
<1> QED
  BY <1>3, <1>4, <1>5, <1>6, <1>7, <1>8, <1>9 DEF HandlerStep

LEMMA HandlerCallOK ==
  ASSUME TypeOK, NEW t \in Tasks, HandlerStep(t), UNCHANGED <<driveVars, faults>>,
         NEW u \in Tasks
  PROVE  CallOK(u)'
<1>0. /\ h[t] \in Call /\ CallOK(t) /\ CallOK(u) /\ h \in [Tasks -> Call]
      /\ cur \in 0..MaxRuns /\ reg \in [Runs -> [Nodes -> 0..MaxProcs]]
  BY DEF TypeOK, AgentTypeOK
<1>1. /\ run' = run /\ cur' \in {cur, cur + 1} /\ cur \in Nat
  <2>1. run' = run /\ cur \in Nat
    BY <1>0 DEF driveVars
  <2>2. cur' = cur \/ cur' = cur + 1
    BY HandlerCur DEF NewRunner
  <2> QED
    BY <2>1, <2>2
<1>2. CASE u # t
  <2>1. h'[u] = h[u]
    BY <1>2, HandlerCall
  <2>2. 1..cur \subseteq 1..cur' /\ (cur # 0 => cur' # 0)
    BY <1>1
  <2>3. ASSUME h[u].pc \in Listed, NEW n \in h[u].todo
        PROVE  reg'[cur'][n] # 0
    <3>1. mu = u /\ h[t].pc \notin Locked /\ n \in Nodes
      BY <1>2, <2>3 DEF TypeOK, LockInv, Locked, AgentTypeOK, Call
    <3>2. UNCHANGED <<cur, reg>> \/ Register(t)
      BY <3>1 DEF HandlerStep, At, Locked, Listed, GetRunner, HostMetrics, Lock, StopMonitor,
         MonitorStopped, StopAll, Terminate, Sigterm, Sigkill, Reaped, AllStopped, Stop, RemoveAll,
         NewRunner, Check, Exec, CallNode, Ask, Replied
    <3>3. Register(t) => UNCHANGED cur /\ h[t].p # 0
      BY <1>0 DEF Register, At, CallOK, Procs
    <3>4. reg[cur][n] # 0 /\ cur \in Runs
      BY <1>0, <2>3 DEF CallOK, Locked, Listed, Runs
    <3>5. CASE Register(t)
      BY <1>0, <3>1, <3>3, <3>4, <3>5 DEF Register
    <3> QED
      BY <3>2, <3>4, <3>5
  <2> QED
    BY <1>0, <1>1, <2>1, <2>2, <2>3 DEF CallOK, Served
<1>3. ASSUME NEW ok \in BOOLEAN, Answer(t, ok)
      PROVE  CallOK(t)'
  BY <1>0, <1>3, AnswerFacts DEF CallOK, Served, Serving, Locked, Listed
<1>4. CASE u = t
  <2> SUFFICES CallOK(t)'
    BY <1>4
  <2> USE DEF At
  <2>1. CASE GetRunner(t)
    <3>1. CASE Answer(t, FALSE)
      BY <1>3, <3>1
    <3>2. CASE ~ Answer(t, FALSE)
      <4>1. PICK pc \in {"check", "node", "ask"} : h' = [h EXCEPT ![t].r = cur, ![t].pc = pc]
        BY <2>1, <3>2 DEF GetRunner
      <4>2. /\ cur # 0 /\ cur' = cur /\ h[t].pc = "recv"
            /\ pc = "check" => h[t].op = "start"
            /\ pc = "node" => h[t].op = "kill"
            /\ pc = "ask" => h[t].op = "sample"
        BY <1>0, <2>1, <3>2, <4>1 DEF GetRunner, Call
      <4>3. /\ h'[t].r = cur /\ h'[t].pc = pc
            /\ h'[t].op = h[t].op /\ h'[t].run = h[t].run /\ h'[t].node = h[t].node
        BY <1>0, <4>1 DEF Call
      <4>4. h'[t].r \in 1..cur'
        BY <1>1, <4>2, <4>3
      <4> QED
        BY <1>0, <1>1, <4>2, <4>3, <4>4 DEF CallOK, Served, Serving, Locked, Listed
    <3> QED
      BY <3>1, <3>2
  <2>2. CASE HostMetrics(t) \/ Stop(t) \/ NewRunner(t) \/ Register(t) \/ CallNode(t) \/ Replied(t)
    BY <1>3, <2>2 DEF HostMetrics, Stop, NewRunner, Register, CallNode, Replied
  <2>3. CASE Lock(t) \/ StopMonitor(t) \/ MonitorStopped(t) \/ Sigterm(t) \/ AllStopped(t)
               \/ RemoveAll(t) \/ Check(t)
    <3>1. PICK pc \in Locked \cup Serving : Goto(t, pc)
      BY <2>3 DEF Lock, StopMonitor, MonitorStopped, Sigterm, AllStopped, RemoveAll, Check, Locked,
         Listed, Serving
    <3>2. /\ h'[t].pc = pc /\ Keeps(t)
          /\ h'[t].r = h[t].r /\ h'[t].p = h[t].p /\ h'[t].todo = h[t].todo
      BY <1>0, <3>1, GotoFacts
    <3>3. UNCHANGED <<cur, reg>>
      BY <2>3 DEF Lock, StopMonitor, MonitorStopped, Sigterm, AllStopped, RemoveAll, Check
    <3>4. CASE Lock(t)
      BY <1>0, <1>1, <3>2, <3>3, <3>4 DEF Lock, CallOK, Served, Locked, Listed, Serving, Keeps, Goto
    <3>5. CASE StopMonitor(t) \/ MonitorStopped(t) \/ AllStopped(t)
      BY <1>0, <1>1, <3>2, <3>3, <3>5, GotoFacts DEF StopMonitor, MonitorStopped, AllStopped, CallOK,
         Served, Locked, Listed, Serving, Keeps
    <3>6. CASE Sigterm(t)
      BY <1>0, <1>1, <3>2, <3>3, <3>6, GotoFacts DEF Sigterm, CallOK, Served, Locked, Listed,
         Serving, Keeps
    <3>7. CASE RemoveAll(t)
      BY <1>0, <1>1, <3>2, <3>3, <3>7, GotoFacts DEF RemoveAll, CallOK, Served, Locked, Listed,
         Serving, Keeps
    <3>8. CASE Check(t)
      BY <1>0, <1>1, <3>2, <3>3, <3>8, GotoFacts DEF Check, CallOK, Served, Locked, Listed, Serving,
         Keeps
    <3> QED
      BY <2>3, <3>4, <3>5, <3>6, <3>7, <3>8
  <2>4. CASE StopAll(t)
    BY <1>0, <1>1, <2>4, StopAllFacts DEF StopAll, CallOK, Served, Locked, Listed, Serving, Keeps
  <2>5. CASE Terminate(t)
    <3>1. PICK n \in h[t].todo :
            /\ Keeps(t) /\ h'[t].pc = "signal" /\ h'[t].r = h[t].r
            /\ h'[t].p = reg[cur][n] /\ h'[t].todo = h[t].todo \ {n}
            /\ reg' = [reg EXCEPT ![cur][n] = 0]
      BY <1>0, <2>5, TerminateFacts
    <3>2. n \in Nodes /\ cur \in Runs /\ reg[cur][n] # 0 /\ UNCHANGED cur
          /\ h[t].todo \subseteq Nodes
      BY <1>0, <2>5 DEF Terminate, CallOK, Call, Locked, Listed, Runs
    <3>3. reg[cur][n] \in Procs
      BY <1>0, <3>2 DEF Procs
    <3>4. \A m \in h'[t].todo : reg'[cur'][m] # 0
      BY <1>0, <2>5, <3>1, <3>2 DEF Terminate, CallOK, Listed
    <3> QED
      BY <1>0, <1>1, <2>5, <3>1, <3>2, <3>3, <3>4 DEF Terminate, CallOK, Served, Locked, Listed,
         Serving, Keeps
  <2>6. CASE Sigkill(t)
    BY <1>0, <1>1, <2>6 DEF Sigkill, CallOK, Served
  <2>7. CASE Reaped(t)
    <3>1. /\ h'[t].pc = "terminate" /\ h'[t].todo = h[t].todo
          /\ h'[t].op = h[t].op /\ h'[t].run = h[t].run /\ h'[t].node = h[t].node
      BY <1>0, <2>7, ReapedFacts DEF Keeps
    <3>2. h[t].pc = "reapWait" /\ UNCHANGED <<cur, reg>>
      BY <2>7 DEF Reaped
    <3>3. /\ h[t].op \in {"prepare", "stop"} /\ cur # 0 /\ h[t].run \in 1..run
          /\ \A m \in h[t].todo : reg[cur][m] # 0
      BY <1>0, <3>2 DEF CallOK, Served, Locked, Listed
    <3> QED
      BY <1>1, <3>1, <3>2, <3>3 DEF CallOK, Served, Serving
  <2>8. CASE Exec(t)
    <3>1. CASE Answer(t, FALSE)
      BY <1>3, <3>1
    <3>2. CASE ~ Answer(t, FALSE)
      <4>1. h'[t].pc = "register" /\ h'[t].p \in Procs /\ Keeps(t) /\ h'[t].r = h[t].r
        BY <1>0, <2>8, <3>2, ExecFacts
      <4>2. h[t].pc = "exec" /\ UNCHANGED <<cur, reg>>
        BY <2>8 DEF Exec
      <4>3. h[t].op = "start" /\ h[t].r \in 1..cur /\ Served(t)
        BY <1>0, <4>2 DEF CallOK, Serving, Served
      <4>4. h[t].run \in 1..run /\ h[t].node \in Nodes
        BY <1>0, <4>3 DEF CallOK
      <4>5. h'[t].op = "start" /\ h'[t].run = h[t].run /\ h'[t].node = h[t].node
        BY <4>1, <4>3 DEF Keeps
      <4> QED
        BY <1>1, <4>1, <4>2, <4>3, <4>4, <4>5 DEF CallOK, Locked, Listed
    <3> QED
      BY <3>1, <3>2
  <2>9. CASE Ask(t)
    <3>1. CASE Answer(t, FALSE)
      BY <1>3, <3>1
    <3>2. CASE Goto(t, "await")
      BY <1>0, <1>1, <2>9, <3>2, GotoFacts DEF Ask, CallOK, Served, Locked, Listed, Serving, Keeps
    <3> QED
      BY <2>9, <3>1, <3>2 DEF Ask
  <2> QED
    BY <2>1, <2>2, <2>3, <2>4, <2>5, <2>6, <2>7, <2>8, <2>9 DEF HandlerStep
<1> QED
  BY <1>2, <1>4

LEMMA HandlerType ==
  ASSUME TypeOK, NEW t \in Tasks, HandlerStep(t), UNCHANGED <<driveVars, faults>>
  PROVE  TypeOK'
<1>0. /\ h[t] \in Call /\ CallOK(t) /\ h \in [Tasks -> Call] /\ proc \in [Procs -> Process]
      /\ cur \in 0..MaxRuns /\ asg \in 0..MaxRuns
  BY DEF TypeOK, AgentTypeOK
<1>1. AgentTypeOK' /\ LockInv' /\ \A u \in Tasks : CallOK(u)'
  BY HandlerAgentType, HandlerLock, HandlerCallOK
<1>2. DriveTypeOK'
  BY DEF TypeOK, DriveTypeOK, driveVars
<1>3. ASSUME NEW p \in Procs
      PROVE  ProcessOK(p)'
  <2>0. ProcessOK(p)
    BY DEF TypeOK
  <2>1. CASE Exec(t)
    <3>1. CASE UNCHANGED proc
      BY <2>0, <3>1 DEF ProcessOK
    <3>2. CASE ~ UNCHANGED proc
      <4>1. PICK q \in Procs : asg # 0 /\ proc' = [proc EXCEPT ![q] = NewProc(t)]
        BY <1>0, <2>1, <3>2, ExecFacts
      <4>2. h[t].node \in Nodes /\ h[t].r \in Runs /\ asg \in Runs
        BY <1>0, <2>1, <4>1, HostAgentAssumption DEF Exec, At, CallOK, Served, Serving, Runs
      <4> QED
        BY <1>0, <2>0, <4>1, <4>2, NewProcFacts DEF ProcessOK
    <3> QED
      BY <3>1, <3>2
  <2>2. CASE Sigterm(t) \/ Sigkill(t) \/ CallNode(t)
    <3>1. CASE UNCHANGED proc
      BY <2>0, <3>1 DEF ProcessOK
    <3>2. CASE ~ UNCHANGED proc
      <4>1. PICK q \in Procs, b \in BOOLEAN :
              \/ proc' = [proc EXCEPT ![q].killed = b]
              \/ proc' = [proc EXCEPT ![q].up = b]
              \/ proc' = [proc EXCEPT ![q].st = "exited", ![q].up = FALSE] /\ proc[q].st # "none"
        <5>1. CASE CallNode(t)
          BY <3>2, <5>1 DEF CallNode, Listening
        <5>2. CASE Sigterm(t)
          BY <1>0, <5>2 DEF Sigterm, At, CallOK
        <5>3. CASE Sigkill(t)
          BY <1>0, <5>3 DEF Sigkill, At, CallOK
        <5> QED
          BY <2>2, <5>1, <5>2, <5>3
      <4>2. /\ proc'[p].node = proc[p].node /\ proc'[p].r = proc[p].r /\ proc'[p].run = proc[p].run
            /\ proc'[p].st # "none" => proc[p].st # "none"
        <5>1. CASE proc' = [proc EXCEPT ![q].killed = b]
          BY <1>0, <5>1, ProcessFields
        <5>2. CASE proc' = [proc EXCEPT ![q].up = b]
          BY <1>0, <5>2, ProcessFields
        <5>3. CASE proc' = [proc EXCEPT ![q].st = "exited", ![q].up = FALSE] /\ proc[q].st # "none"
          BY <1>0, <5>3, ProcessFields
        <5> QED
          BY <4>1, <5>1, <5>2, <5>3
      <4> QED
        BY <2>0, <4>2 DEF ProcessOK
    <3> QED
      BY <3>1, <3>2
  <2>5. CASE ~ (Exec(t) \/ Sigterm(t) \/ Sigkill(t) \/ CallNode(t))
    <3>1. UNCHANGED proc
      BY <2>5 DEF HandlerStep, GetRunner, HostMetrics, Lock, StopMonitor, MonitorStopped, StopAll,
         Terminate, Reaped, AllStopped, Stop, RemoveAll, NewRunner, Check, Register, Ask, Replied
    <3> QED
      BY <2>0, <3>1 DEF ProcessOK
  <2> QED
    BY <2>1, <2>2, <2>5
<1>4. PrepareBudget'
  <2> DEFINE P == {u \in Tasks : Preparing(u)}
             Q == {u \in Tasks : Preparing(u)'}
  <2>0. /\ cpc' = cpc /\ run' = run
        /\ cur + Cardinality(P) + (IF cpc = "prepare" THEN 1 ELSE 0) <= run
    BY DEF TypeOK, PrepareBudget, driveVars
  <2>1. Q \subseteq P
    BY HandlerCall DEF Preparing, Served
  <2>2. cur \in Nat /\ run \in Nat
    BY <1>0 DEF TypeOK, DriveTypeOK, Runs
  <2>3. IsFiniteSet(P) /\ IsFiniteSet(Q) /\ Cardinality(P) \in Nat /\ Cardinality(Q) \in Nat
    BY TasksFinite, FS_Subset, FS_CardinalityType
  <2>4. CASE NewRunner(t)
    <3>1. t \in P /\ t \notin Q
      <4>1. h'[t].pc = "done"
        BY <1>0, <2>4, AnswerFacts DEF NewRunner
      <4> QED
        BY <1>0, <2>4, <4>1 DEF NewRunner, At, CallOK, Preparing, Served
    <3>2. Cardinality(P \ {t}) = Cardinality(P) - 1 /\ IsFiniteSet(P \ {t})
      BY <2>3, <3>1, FS_RemoveElement
    <3>3. Cardinality(Q) <= Cardinality(P \ {t})
      BY <2>1, <3>1, <3>2, FS_Subset
    <3>4. cur' = cur + 1
      BY <2>4 DEF NewRunner
    <3>5. cur' + Cardinality(Q) + (IF cpc' = "prepare" THEN 1 ELSE 0) <= run'
      <4> HIDE DEF P, Q
      <4> QED
        BY <2>0, <2>2, <2>3, <3>2, <3>3, <3>4
    <3> QED
      BY <3>5 DEF PrepareBudget
  <2>5. CASE ~ NewRunner(t)
    <3>1. cur' = cur /\ Cardinality(Q) <= Cardinality(P)
      BY <2>1, <2>3, <2>5, HandlerCur, FS_Subset
    <3>2. cur' + Cardinality(Q) + (IF cpc' = "prepare" THEN 1 ELSE 0) <= run'
      <4> HIDE DEF P, Q
      <4> QED
        BY <2>0, <2>2, <2>3, <3>1
    <3> QED
      BY <3>2 DEF PrepareBudget
  <2> QED
    BY <2>4, <2>5
<1> QED
  BY <1>1, <1>2, <1>3, <1>4 DEF TypeOK

\* A monitor's step, a process's step.
LEMMA MonitorType ==
  ASSUME TypeOK, NEW g \in Runs, PeriodicSample(g) \/ RequestedSample(g) \/ MonitorEnds(g),
         UNCHANGED <<driveVars, faults>>
  PROVE  TypeOK'
<1>1. mon \in [Runs -> Monitor] /\ Main \in Tasks
  BY TaskFacts DEF TypeOK, AgentTypeOK
<1>2. mon' \in [Runs -> Monitor]
  <2>1. \/ mon' = [mon EXCEPT ![g].samples = @ + 1]
        \/ mon' = [mon EXCEPT ![g].st = "idle", ![g].asker = NoTask, ![g].samples = @ + 1]
        \/ mon' = [mon EXCEPT ![g].st = "done"]
    BY DEF PeriodicSample, RequestedSample, MonitorEnds
  <2>2. /\ [mon EXCEPT ![g].samples = @ + 1] \in [Runs -> Monitor]
        /\ [mon EXCEPT ![g].st = "idle", ![g].asker = NoTask, ![g].samples = @ + 1]
             \in [Runs -> Monitor]
        /\ [mon EXCEPT ![g].st = "done"] \in [Runs -> Monitor]
    BY ONLY <1>1, g \in Runs, MonitorUpdates
  <2> QED
    BY <2>1, <2>2
<1>3. UNCHANGED <<mu, cur, h, reg, proc, asg, traces, downs, raced>>
  BY DEF PeriodicSample, RequestedSample, MonitorEnds
<1> QED
  BY <1>2, <1>3 DEF TypeOK, AgentTypeOK, DriveTypeOK, LockInv, CallOK, Served, ProcessOK, PrepareBudget,
     Preparing, driveVars

\* What the end of a process changes: no field that says whose it is.
Ends(p) == NodeFinishes(p) \/ NodeDies(p) \/ Reap(p)

LEMMA EndsFacts ==
  ASSUME TypeOK, NEW p \in Procs, Ends(p)
  PROVE  /\ UNCHANGED <<mu, cur, h, reg, mon, asg, downs, raced>>
         /\ proc' \in [Procs -> Process]
         /\ proc[p].st \in {"running", "exited"} /\ proc'[p].st # "none"
         /\ \A q \in Procs : /\ proc'[q].node = proc[q].node /\ proc'[q].r = proc[q].r
                             /\ proc'[q].run = proc[q].run /\ proc'[q].killed = proc[q].killed
                             /\ q # p => proc'[q].st = proc[q].st /\ proc'[q].note = proc[q].note
                             /\ proc'[q].st = "running" => proc[q].st = "running"
                             /\ proc'[q].st = "none" <=> proc[q].st = "none"
         /\ ~ Reap(p) => \A q \in Procs : proc'[q].note = proc[q].note
         /\ Reap(p) => proc'[p].st = "reaped" /\
              proc'[p].note = (IF reg[proc[p].r][proc[p].node] = p THEN "exited on its own"
                                                                  ELSE "exited")
<1>0. proc \in [Procs -> Process] /\ TRUE \in BOOLEAN
  BY DEF TypeOK, AgentTypeOK
<1>1. CASE NodeFinishes(p) \/ NodeDies(p)
  <2>1. /\ UNCHANGED <<mu, cur, h, reg, mon, asg, downs, raced>>
        /\ proc[p].st = "running" /\ ~ Reap(p)
        /\ proc' = [proc EXCEPT ![p].st = "exited", ![p].up = FALSE]
    BY <1>1 DEF NodeFinishes, NodeDies, Reap
  <2>2. proc' \in [Procs -> Process]
    BY <1>0, <2>1, ProcessUpdates
  <2>3. \A q \in Procs : /\ proc'[q].st = (IF q = p THEN "exited" ELSE proc[q].st)
                         /\ proc'[q].node = proc[q].node /\ proc'[q].r = proc[q].r
                         /\ proc'[q].run = proc[q].run /\ proc'[q].note = proc[q].note
                         /\ proc'[q].killed = proc[q].killed
    BY <1>0, <2>1, ProcessFields
  <2> QED
    BY <2>1, <2>2, <2>3
<1>2. CASE Reap(p)
  <2> DEFINE x == IF reg[proc[p].r][proc[p].node] = p THEN "exited on its own" ELSE "exited"
  <2>1. /\ UNCHANGED <<mu, cur, h, reg, mon, asg, downs, raced>>
        /\ proc[p].st = "exited"
        /\ proc' = [proc EXCEPT ![p].st = "reaped", ![p].note = x]
    BY <1>2 DEF Reap
  <2>2. x \in {"none", "exited", "exited on its own"}
    OBVIOUS
  <2> HIDE DEF x
  <2>3. proc' \in [Procs -> Process]
    BY <1>0, <2>1, <2>2, ProcessUpdates
  <2>4. \A q \in Procs : /\ proc'[q].st = (IF q = p THEN "reaped" ELSE proc[q].st)
                         /\ proc'[q].node = proc[q].node /\ proc'[q].r = proc[q].r
                         /\ proc'[q].run = proc[q].run
                         /\ proc'[q].note = (IF q = p THEN x ELSE proc[q].note)
                         /\ proc'[q].killed = proc[q].killed
    BY <1>0, <2>1, ReapFields
  <2>5. proc'[p].st = "reaped" /\ proc'[p].note = x
    BY <2>4
  <2>6. \A q \in Procs : q # p => proc'[q].st = proc[q].st /\ proc'[q].note = proc[q].note
    BY <2>4
  <2>7. \A q \in Procs : /\ proc'[q].st = "running" => proc[q].st = "running"
                         /\ proc'[q].st = "none" <=> proc[q].st = "none"
    BY <2>1, <2>5, <2>6
  <2> QED
    BY <1>2, <2>1, <2>3, <2>4, <2>5, <2>6, <2>7 DEF x
<1> QED
  BY <1>1, <1>2 DEF Ends

LEMMA EndsType ==
  ASSUME TypeOK, NEW p \in Procs, Ends(p), UNCHANGED <<driveVars, faults>>
  PROVE  TypeOK'
<1>1. UNCHANGED <<mu, cur, h, reg, mon, asg, downs, raced>> /\ proc' \in [Procs -> Process]
  BY EndsFacts
<1>2. traces' \in [Nodes -> 0..MaxRuns]
  <2>1. CASE UNCHANGED traces
    BY <2>1 DEF TypeOK, AgentTypeOK
  <2>2. CASE ~ UNCHANGED traces
    <3>1. traces' = [traces EXCEPT ![proc[p].node] = proc[p].run]
      BY <2>2 DEF Ends, NodeFinishes, NodeDies, Reap
    <3>2. proc[p].run \in 0..MaxRuns /\ traces \in [Nodes -> 0..MaxRuns]
      BY DEF TypeOK, AgentTypeOK, Process
    <3> QED
      BY <3>1, <3>2
  <2> QED
    BY <2>1, <2>2
<1>3. AgentTypeOK'
  BY <1>1, <1>2 DEF TypeOK, AgentTypeOK
<1>4. \A q \in Procs : ProcessOK(q)'
  <2> SUFFICES ASSUME NEW q \in Procs PROVE ProcessOK(q)'
    OBVIOUS
  <2>1. ProcessOK(q)
    BY DEF TypeOK
  <2> QED
    <3>1. /\ proc'[q].node = proc[q].node /\ proc'[q].r = proc[q].r /\ proc'[q].run = proc[q].run
          /\ proc'[q].st = "none" <=> proc[q].st = "none"
      BY EndsFacts
    <3> QED
      BY <2>1, <3>1 DEF ProcessOK
<1> QED
  BY <1>1, <1>3, <1>4 DEF TypeOK, DriveTypeOK, LockInv, CallOK, Served, PrepareBudget, Preparing, driveVars

-----------------------------------------------------------------------------
(* The coordinator's side *)

\* A client posts a call, takes an answer or sees an error: the calls of others
\* and the agent stay as they are.
Turn(t, c) ==
  /\ h' = [h EXCEPT ![t] = c] /\ UNCHANGED agentElse
  /\ c \in Call
  /\ h[t].pc \in {"idle", "recv", "done"} /\ c.pc \in {"idle", "recv", "done"}
  /\ c.pc = "idle" => c.op = "none"
  /\ c.pc = "recv" => /\ h[t].pc = "idle" /\ c.run = run
                      /\ c.op \in {"start", "kill"} => c.node \in Nodes

Posted(op, n) == [Idle EXCEPT !.op = op, !.node = n, !.run = run, !.pc = "recv"]

LEMMA PostTurn ==
  ASSUME TypeOK, NEW t \in Tasks, NEW op \in {"start", "kill", "sample", "hostmetrics", "prepare", "stop"},
         NEW n \in Nodes \cup {0}, op \in {"start", "kill"} => n \in Nodes, Post(t, op, n)
  PROVE  /\ Turn(t, Posted(op, n)) /\ h[t].pc = "idle"
         /\ Posted(op, n).pc = "recv" /\ Posted(op, n).op = op /\ Posted(op, n).run = run
         /\ Posted(op, n).node = n
<1>1. run \in 0..MaxRuns
  BY HostAgentAssumption DEF TypeOK, DriveTypeOK, Runs
<1>2. /\ Posted(op, n) \in Call /\ Posted(op, n).pc = "recv" /\ Posted(op, n).op = op
      /\ Posted(op, n).run = run /\ Posted(op, n).node = n
  BY <1>1, IdleFacts DEF Posted, Call
<1>3. h' = [h EXCEPT ![t] = Posted(op, n)] /\ UNCHANGED agentElse /\ h[t].pc = "idle"
  BY DEF Post, Posted
<1> QED
  BY <1>2, <1>3 DEF Turn

LEMMA AnsweredTurn ==
  ASSUME TypeOK, NEW t \in Tasks, NEW ok, Answered(t, ok)
  PROVE  Turn(t, Idle) /\ h[t].pc = "done" /\ h[t].ok = ok
BY IdleFacts DEF Answered, Turn

\* What the client is left with.
LEMMA FailedCall ==
  ASSUME TypeOK, NEW t \in Tasks
  PROVE  Failed(t) \in Call /\ Failed(t).pc = "done" /\ Failed(t).op = h[t].op /\ Failed(t).ok = FALSE
<1>1. h[t].op \in {"none", "start", "kill", "sample", "hostmetrics", "prepare", "stop"}
  BY DEF TypeOK, AgentTypeOK, Call
<1>2. Idle.ok = FALSE
  BY DEF Idle
<1> QED
  BY <1>1, <1>2, IdleFacts DEF Failed, Call

LEMMA LostTurn ==
  ASSUME TypeOK, NEW t \in Tasks, Lost(t)
  PROVE  /\ Turn(t, Failed(t)) /\ h[t].pc = "recv" /\ Failed(t).pc = "done"
         /\ Failed(t).op = h[t].op /\ Failed(t).ok = FALSE
BY FailedCall DEF Lost, Turn

\* What a turn leaves for the type invariant: the coordinator's own part.
LEMMA TurnType ==
  ASSUME TypeOK, NEW t \in Tasks, NEW c, Turn(t, c), run' = run, DriveTypeOK',
         cpc' = "prepare" => cpc = "prepare",
         c.pc = "recv" /\ c.op = "prepare" => cpc = "prepare" /\ cpc' # "prepare"
  PROVE  TypeOK'
<1>0. /\ h \in [Tasks -> Call] /\ c \in Call /\ h' = [h EXCEPT ![t] = c] /\ CallOK(t)
      /\ UNCHANGED <<mu, cur, reg, proc, mon, asg, traces, downs, raced>>
  BY DEF TypeOK, AgentTypeOK, Turn, agentElse
<1>1. h' \in [Tasks -> Call] /\ h'[t] = c /\ \A u \in Tasks \ {t} : h'[u] = h[u]
  BY <1>0
<1>2. AgentTypeOK'
  BY <1>0, <1>1 DEF TypeOK, AgentTypeOK
<1>3. LockInv'
  BY <1>0, <1>1 DEF TypeOK, LockInv, Turn, Locked, Listed
<1>4. ASSUME NEW u \in Tasks PROVE CallOK(u)'
  <2>1. CASE u = t
    <3>1. run \in 1..run
      BY DEF TypeOK, DriveTypeOK, Runs
    <3> QED
      BY <1>0, <1>1, <2>1, <3>1 DEF Turn, CallOK, Served, Locked, Listed, Serving
  <2>2. CASE u # t
    <3>1. CallOK(u)
      BY DEF TypeOK
    <3> QED
      BY <1>0, <1>1, <2>2, <3>1 DEF CallOK, Served
  <2> QED
    BY <2>1, <2>2
<1>5. \A p \in Procs : ProcessOK(p)'
  BY <1>0 DEF TypeOK, ProcessOK
<1>6. PrepareBudget'
  <2> DEFINE P == {u \in Tasks : Preparing(u)}
             Q == {u \in Tasks : Preparing(u)'}
  <2>1. cur + Cardinality(P) + (IF cpc = "prepare" THEN 1 ELSE 0) <= run
    BY DEF TypeOK, PrepareBudget
  <2>2. cur \in Nat /\ run \in Nat /\ cur' = cur
    BY <1>0 DEF TypeOK, AgentTypeOK, DriveTypeOK, Runs
  <2>3. IsFiniteSet(P) /\ IsFiniteSet(Q) /\ Cardinality(P) \in Nat /\ Cardinality(Q) \in Nat
    BY TasksFinite, FS_Subset, FS_CardinalityType
  <2>4. CASE c.pc = "recv" /\ c.op = "prepare"
    <3>1. Q \subseteq P \cup {t}
      BY <1>1 DEF Preparing, Served
    <3>2. /\ IsFiniteSet(P \cup {t}) /\ Cardinality(P \cup {t}) \in Nat
          /\ Cardinality(P \cup {t}) <= Cardinality(P) + 1
      <4>1. /\ IsFiniteSet(P \cup {t})
            /\ Cardinality(P \cup {t}) = IF t \in P THEN Cardinality(P) ELSE Cardinality(P) + 1
        BY <2>3, FS_AddElement
      <4> HIDE DEF P
      <4> QED
        BY <2>3, <4>1, FS_CardinalityType
    <3>3. Cardinality(Q) <= Cardinality(P \cup {t})
      BY <3>1, <3>2, FS_Subset
    <3>4. cur' + Cardinality(Q) + (IF cpc' = "prepare" THEN 1 ELSE 0) <= run'
      <4> HIDE DEF P, Q
      <4> QED
        BY <2>1, <2>2, <2>3, <2>4, <3>2, <3>3
    <3> QED
      BY <3>4 DEF PrepareBudget
  <2>5. CASE ~ (c.pc = "recv" /\ c.op = "prepare")
    <3>1. Q \subseteq P
      BY <1>0, <1>1, <2>5 DEF Preparing, Served, Turn
    <3>2. Cardinality(Q) <= Cardinality(P)
      BY <2>3, <3>1, FS_Subset
    <3>3. cur' + Cardinality(Q) + (IF cpc' = "prepare" THEN 1 ELSE 0) <= run'
      <4> HIDE DEF P, Q
      <4> QED
        BY <2>1, <2>2, <2>3, <3>2
    <3> QED
      BY <3>3 DEF PrepareBudget
  <2> QED
    BY <2>4, <2>5
<1> QED
  BY <1>2, <1>3, <1>4, <1>5, <1>6 DEF TypeOK

\* An abandoned call goes on under a late task, with what it holds and waits for.
LEMMA HandFacts ==
  ASSUME TypeOK, NEW t \in Tasks \ Late, NEW u \in Late, ~ InFlight(u), NEW left \in Call,
         left.pc \in {"idle", "done"}, Hand(t, u, left)
  PROVE  /\ u \in Tasks /\ u # t /\ h[u].pc = "idle"
         /\ h' \in [Tasks -> Call] /\ h'[u] = h[t] /\ h'[t] = left
         /\ \A v \in Tasks \ {t, u} : h'[v] = h[v]
         /\ mu' \in Tasks \cup {NoTask} /\ mon' \in [Runs -> Monitor]
         /\ UNCHANGED <<cur, reg, proc, asg, traces, downs, raced>>
<1>1. u \in Tasks /\ u # t /\ h[u].pc = "idle"
  BY TaskFacts DEF InFlight
<1>2. h \in [Tasks -> Call] /\ mon \in [Runs -> Monitor] /\ mu \in Tasks \cup {NoTask}
  BY DEF TypeOK, AgentTypeOK
<1>3. /\ h' = [h EXCEPT ![u] = h[t], ![t] = left]
      /\ mu' = IF mu = t THEN u ELSE mu
      /\ mon' = [g \in Runs |-> IF mon[g].asker = t THEN [mon[g] EXCEPT !.asker = u] ELSE mon[g]]
      /\ UNCHANGED <<cur, reg, proc, asg, traces, downs, raced>>
  BY DEF Hand
<1>4. ASSUME NEW g \in Runs
      PROVE  (IF mon[g].asker = t THEN [mon[g] EXCEPT !.asker = u] ELSE mon[g]) \in Monitor
  BY <1>1, <1>2 DEF Monitor
<1>5. mon' \in [Runs -> Monitor]
  BY <1>3, <1>4
<1>6. h' \in [Tasks -> Call] /\ h'[u] = h[t] /\ h'[t] = left /\ \A v \in Tasks \ {t, u} : h'[v] = h[v]
  BY <1>1, <1>2, <1>3
<1>7. mu' \in Tasks \cup {NoTask}
  BY <1>1, <1>2, <1>3
<1> QED
  BY <1>1, <1>3, <1>5, <1>6, <1>7

LEMMA HandType ==
  ASSUME TypeOK, NEW t \in Tasks \ Late, NEW u \in Late, ~ InFlight(u), NEW left \in Call,
         left.pc \in {"idle", "done"}, left.pc = "idle" => left.op = "none",
         Hand(t, u, left), UNCHANGED driveVars, faults' \in Nat
  PROVE  TypeOK'
<1>0. /\ u \in Tasks /\ u # t /\ h[u].pc = "idle"
      /\ h' \in [Tasks -> Call] /\ h'[u] = h[t] /\ h'[t] = left
      /\ \A v \in Tasks \ {t, u} : h'[v] = h[v]
      /\ mu' \in Tasks \cup {NoTask} /\ mon' \in [Runs -> Monitor]
      /\ UNCHANGED <<cur, reg, proc, asg, traces, downs, raced>>
  BY HandFacts
<1>1. AgentTypeOK' /\ DriveTypeOK'
  BY <1>0 DEF TypeOK, AgentTypeOK, DriveTypeOK, driveVars
<1>2. LockInv'
  <2>1. mu' = IF mu = t THEN u ELSE mu
    BY DEF Hand
  <2> QED
    BY <1>0, <2>1 DEF TypeOK, LockInv, Locked, Listed
<1>3. ASSUME NEW v \in Tasks PROVE CallOK(v)'
  <2>1. UNCHANGED run /\ CallOK(v) /\ CallOK(t)
    BY DEF TypeOK, driveVars
  <2>2. CASE v = t
    BY <1>0, <2>1, <2>2 DEF CallOK, Served, Serving, Locked, Listed
  <2>3. CASE v = u
    BY <1>0, <2>1, <2>3 DEF CallOK, Served
  <2>4. CASE v \notin {t, u}
    BY <1>0, <2>1, <2>4 DEF CallOK, Served
  <2> QED
    BY <2>2, <2>3, <2>4
<1>4. \A p \in Procs : ProcessOK(p)'
  BY <1>0 DEF TypeOK, ProcessOK
<1>5. PrepareBudget'
  <2> DEFINE P == {v \in Tasks : Preparing(v)}
             Q == {v \in Tasks : Preparing(v)'}
  <2>1. /\ cur + Cardinality(P) + (IF cpc = "prepare" THEN 1 ELSE 0) <= run
        /\ cur' = cur /\ run' = run /\ cpc' = cpc /\ cur \in Nat /\ run \in Nat
    BY <1>0 DEF TypeOK, PrepareBudget, driveVars, AgentTypeOK, DriveTypeOK, Runs
  <2>2. Q \subseteq P \/ (t \in P /\ Q \subseteq (P \ {t}) \cup {u})
    BY <1>0 DEF Preparing, Served
  <2>3. Cardinality(Q) <= Cardinality(P) /\ Cardinality(P) \in Nat /\ Cardinality(Q) \in Nat
    BY <1>0, <2>2, SmallerSet
  <2>4. cur' + Cardinality(Q) + (IF cpc' = "prepare" THEN 1 ELSE 0) <= run'
    <3> HIDE DEF P, Q
    <3> QED
      BY <2>1, <2>3
  <2> QED
    BY <2>4 DEF PrepareBudget
<1> QED
  BY <1>1, <1>2, <1>3, <1>4, <1>5 DEF TypeOK

LEMMA DriveType ==
  ASSUME TypeOK, DriveStep \/ \E n \in Nodes : Churn(n)
  PROVE  DriveTypeOK'
<1> USE DEF TypeOK, DriveTypeOK
<1>0. 0 \in 0..Attempts /\ Attempts \in 0..Attempts /\ 0 \in 0..MaxRuns
  BY RunDriveAssumption, HostAgentAssumption
<1>1. CASE Prepare \/ BootElsewhere \/ AllStarted \/ DriveEnds \/ SampleAtStop \/ SecondPassEnds
             \/ FetchMetrics \/ StopAgent
  BY <1>1 DEF Prepare, BootElsewhere, AllStarted, DriveEnds, SampleAtStop, SecondPassEnds,
     FetchMetrics, StopAgent, startElse, mainElse
<1>2. CASE FirstPassEnds
  BY <1>0, <1>2 DEF FirstPassEnds, mainElse
<1>3. CASE NextRun
  <2>1. run' \in Runs
    BY <1>3, HostAgentAssumption DEF NextRun, Runs
  <2> QED
    BY <1>0, <1>3, <2>1 DEF NextRun, FreshRun
<1>4. ASSUME NEW n \in Nodes, StartNode(n) \/ StartReturns(n) \/ Abandon(n) \/ Churn(n)
      PROVE  DriveTypeOK'
  BY <1>4 DEF StartNode, StartReturns, Abandon, Churn, startElse, driveVars
<1>5. ASSUME NEW n \in Nodes, ChurnReturns(n)
      PROVE  DriveTypeOK'
  <2>1. UNCHANGED <<run, cpc, st, att, file, got, failed, faults>>
    BY <1>5 DEF ChurnReturns
  <2>2. churned' \in [Nodes -> Nat]
    BY <1>5 DEF ChurnReturns
  <2>3. departs' \in Nat /\ rejoins' \in Nat /\ killFailed' \in Nat /\ startFailed' \in Nat
    BY <1>5 DEF ChurnReturns
  <2> QED
    BY <2>1, <2>2, <2>3
<1>6. ASSUME NEW n \in Nodes, Fetch(n) \/ Refetch(n)
      PROVE  DriveTypeOK'
  <2>1. UNCHANGED <<cpc, run, st, churned, departs, rejoins, killFailed, startFailed, faults>>
    BY <1>6 DEF Fetch, Refetch, mainElse
  <2>2. file' \in [Nodes -> {Partial} \cup (0..MaxRuns)]
    <3>1. file \in [Nodes -> {Partial} \cup (0..MaxRuns)] /\ traces \in [Nodes -> 0..MaxRuns]
      BY DEF AgentTypeOK
    <3>2. \E x \in {Partial, traces[n]} : file' = [file EXCEPT ![n] = x] \/ UNCHANGED file
      BY <1>6 DEF Fetch, Refetch, Fetched, NotFetched
    <3> QED
      BY <3>1, <3>2
  <2>3. att' \in [Nodes -> 0..Attempts]
    <3>1. att[n] < Attempts /\ att[n] \in 0..Attempts
      BY <1>6 DEF Fetch, Refetch
    <3>2. att[n] + 1 \in 0..Attempts
      BY <3>1, RunDriveAssumption
    <3>3. att' = [att EXCEPT ![n] = Attempts] \/ att' = [att EXCEPT ![n] = att[n] + 1]
      BY <1>6 DEF Fetch, Refetch
    <3> QED
      BY <1>0, <3>2, <3>3
  <2>4. got' \in Nat /\ failed' \in SUBSET Nodes
    BY <1>6 DEF Fetch, Refetch
  <2> QED
    BY <2>1, <2>2, <2>3, <2>4
<1> QED
  BY <1>1, <1>2, <1>3, <1>4, <1>5, <1>6 DEF DriveStep

\* The steps that leave the agent alone.
LEMMA AgentUntouched ==
  ASSUME TypeOK, UNCHANGED agentVars, DriveTypeOK', run' = run,
         cpc' = "prepare" => cpc = "prepare"
  PROVE  TypeOK'
<1>1. AgentTypeOK' /\ LockInv' /\ \A p \in Procs : ProcessOK(p)'
  BY DEF TypeOK, AgentTypeOK, LockInv, ProcessOK, agentVars
<1>2. \A t \in Tasks : CallOK(t)'
  BY DEF TypeOK, CallOK, Served, agentVars
<1>3. PrepareBudget'
  <2> DEFINE P == {t \in Tasks : Preparing(t)}
  <2>1. {t \in Tasks : Preparing(t)'} = P /\ cur' = cur
    BY DEF Preparing, Served, agentVars
  <2>2. cur \in Nat /\ run \in Nat /\ Cardinality(P) \in Nat
    BY TasksFinite, FS_Subset, FS_CardinalityType DEF TypeOK, AgentTypeOK, DriveTypeOK, Runs
  <2>3. cur + Cardinality(P) + (IF cpc = "prepare" THEN 1 ELSE 0) <= run
    BY DEF TypeOK, PrepareBudget
  <2>4. cur + Cardinality(P) + (IF cpc' = "prepare" THEN 1 ELSE 0) <= run
    <3> HIDE DEF P
    <3> QED
      BY <2>2, <2>3
  <2> QED
    BY <2>1, <2>4 DEF PrepareBudget
<1> QED
  BY <1>1, <1>2, <1>3 DEF TypeOK

LEMMA NextRunType ==
  ASSUME TypeOK, NextRun
  PROVE  TypeOK'
<1>0. UNCHANGED agentVars /\ run' = run + 1 /\ cpc = "over" /\ cpc' = "prepare" /\ run \in Nat
  BY DEF NextRun, TypeOK, DriveTypeOK, Runs
<1>1. DriveTypeOK'
  BY DriveType DEF DriveStep
<1>2. AgentTypeOK' /\ LockInv' /\ \A p \in Procs : ProcessOK(p)'
  BY <1>0 DEF TypeOK, AgentTypeOK, LockInv, ProcessOK, agentVars
<1>3. \A t \in Tasks : CallOK(t)'
  <2>1. 1..run \subseteq 1..run'
    BY <1>0
  <2> QED
    BY <1>0, <2>1 DEF TypeOK, CallOK, Served, agentVars
<1>4. PrepareBudget'
  <2> DEFINE P == {t \in Tasks : Preparing(t)}
  <2>1. {t \in Tasks : Preparing(t)'} = P /\ cur' = cur
    BY <1>0 DEF Preparing, Served, agentVars
  <2>2. cur \in Nat /\ run \in Nat /\ Cardinality(P) \in Nat
    BY TasksFinite, FS_Subset, FS_CardinalityType DEF TypeOK, AgentTypeOK, DriveTypeOK, Runs
  <2>3. cur + Cardinality(P) + (IF cpc = "prepare" THEN 1 ELSE 0) <= run
    BY DEF TypeOK, PrepareBudget
  <2>4. cur + Cardinality(P) + (IF cpc' = "prepare" THEN 1 ELSE 0) <= run'
    <3> HIDE DEF P
    <3> QED
      BY <1>0, <2>2, <2>3
  <2> QED
    BY <2>1, <2>4 DEF PrepareBudget
<1> QED
  BY <1>1, <1>2, <1>3, <1>4 DEF TypeOK

-----------------------------------------------------------------------------
(* The kinds of steps, as far as the invariants tell them apart *)

HandlerKind == \E t \in Tasks : HandlerStep(t) /\ UNCHANGED <<driveVars, faults>>

MonitorKind ==
  /\ \E g \in Runs : PeriodicSample(g) \/ RequestedSample(g) \/ MonitorEnds(g)
  /\ UNCHANGED <<driveVars, faults>>

EndsKind == \E p \in Procs : Ends(p) /\ UNCHANGED <<driveVars, faults>>

\* /prepare is posted once, and the run goes on when it is answered.
TurnOf(t, c) ==
  /\ Turn(t, c) /\ run' = run /\ file' = file /\ DriveTypeOK'
  /\ cpc' = "prepare" => cpc = "prepare"
  /\ c.pc = "recv" /\ c.op = "prepare" => t = Main /\ cpc = "prepare" /\ cpc' = "preparing"
  /\ cpc = "preparing" => \/ cpc' = "over"
                          \/ cpc' = "boot" /\ t = Main /\ h[Main].pc = "done" /\ h[Main].ok
                          \/ cpc' = cpc /\ (t = Main => c.pc = "done" /\ ~ c.ok)
  /\ cpc = "over" => cpc' = "over"

HandOf(t, u, left) ==
  /\ ~ InFlight(u) /\ left \in Call /\ left.pc \in {"idle", "done"}
  /\ left.pc = "done" => ~ left.ok
  /\ left.pc = "idle" => t # Main /\ left.op = "none"
  /\ Hand(t, u, left) /\ UNCHANGED driveVars /\ faults' \in Nat

\* The coordinator alone: it moves on, or fetches.
AloneKind ==
  /\ UNCHANGED agentVars /\ run' = run /\ DriveTypeOK'
  /\ cpc' = "prepare" => cpc = "prepare"
  /\ cpc \in {"preparing", "over"} => cpc' = cpc /\ file' = file
  /\ \A n \in Nodes : file'[n] \in {file[n], Partial, traces[n]}

LEMMA StepKinds ==
  ASSUME TypeOK, Next
  PROVE  \/ HandlerKind \/ MonitorKind \/ EndsKind \/ AloneKind \/ NextRun
         \/ \E t \in Tasks, c \in Call : TurnOf(t, c)
         \/ \E t \in Tasks \ Late, u \in Late, left \in Call : HandOf(t, u, left)
<1>1. CASE AgentStep
  BY <1>1 DEF AgentStep, Quiet, HandlerKind, MonitorKind, EndsKind, Ends
<1>2. ASSUME NEW t \in Tasks, TimesOut(t)
      PROVE  \E u \in Late, left \in Call : t \notin Late /\ HandOf(t, u, left)
  <2>1. PICK u \in Late : ~ InFlight(u) /\ Hand(t, u, Failed(t))
    BY <1>2 DEF TimesOut
  <2>2. t \notin Late /\ UNCHANGED driveVars /\ faults' \in Nat
    BY <1>2 DEF TimesOut, TypeOK, DriveTypeOK
  <2> QED
    BY <2>1, <2>2, FailedCall DEF HandOf
<1>3. ASSUME NEW n \in Nodes, Abandon(n)
      PROVE  \E u \in Late, left \in Call : Node(n) \notin Late /\ HandOf(Node(n), u, left)
  <2>1. PICK u \in Late : ~ InFlight(u) /\ Hand(Node(n), u, Idle)
    BY <1>3 DEF Abandon
  <2>2. Node(n) \notin Late /\ Node(n) # Main /\ UNCHANGED driveVars /\ faults' \in Nat
    BY <1>3, TaskFacts DEF Abandon, TypeOK, DriveTypeOK
  <2> QED
    BY <2>1, <2>2, IdleFacts DEF HandOf
<1>4. ASSUME NEW t \in Tasks, Lost(t) \/ Unread(t)
      PROVE  \E c \in Call : TurnOf(t, c)
  <2>1. /\ UNCHANGED driveVars /\ faults' \in Nat
    BY <1>4 DEF Lost, Unread, TypeOK, DriveTypeOK
  <2>2. DriveTypeOK' /\ run' = run /\ cpc' = cpc /\ file' = file
    BY <2>1 DEF TypeOK, DriveTypeOK, driveVars
  <2>3. CASE Lost(t)
    BY <2>2, <2>3, LostTurn, FailedCall DEF TurnOf
  <2>4. CASE Unread(t)
    <3>1. Turn(t, Idle) /\ t # Main
      BY <2>4, IdleFacts, TaskFacts DEF Unread, Turn
    <3> QED
      BY <2>2, <3>1, IdleFacts DEF TurnOf
  <2> QED
    BY <1>4, <2>3, <2>4
<1>5. DriveStep \/ (\E n \in Nodes : Churn(n)) => DriveTypeOK'
  BY DriveType
<1>6. ASSUME NEW n \in Nodes, StartNode(n) \/ Churn(n)
      PROVE  \E c \in Call : TurnOf(Node(n), c)
  <2>1. PICK op \in {"start", "kill"} : Post(Node(n), op, n)
    <3>1. CASE StartNode(n)
      BY <3>1 DEF StartNode
    <3>2. CASE Churn(n)
      <4>1. Plan[n] \in Seq({"kill", "start"}) /\ churned[n] \in Nat /\ churned[n] < Len(Plan[n])
        BY <3>2, RunDriveAssumption DEF Churn, TypeOK, DriveTypeOK
      <4>2. Plan[n][churned[n] + 1] \in {"kill", "start"}
        BY <4>1
      <4> QED
        BY <3>2, <4>2 DEF Churn
    <3> QED
      BY <1>6, <3>1, <3>2
  <2>2. /\ Turn(Node(n), Posted(op, n)) /\ Posted(op, n).pc = "recv" /\ Posted(op, n).op = op
    BY <2>1, TaskFacts, PostTurn
  <2>3. DriveTypeOK' /\ run' = run /\ cpc' = cpc /\ file' = file /\ cpc # "preparing"
    BY <1>5, <1>6 DEF StartNode, Churn, DriveStep, startElse, driveVars, Driven
  <2> QED
    BY <2>2, <2>3 DEF TurnOf, Turn
<1>7. ASSUME NEW n \in Nodes, StartReturns(n) \/ ChurnReturns(n)
      PROVE  \E c \in Call : TurnOf(Node(n), c)
  <2>1. PICK ok \in BOOLEAN : Answered(Node(n), ok)
    BY <1>7 DEF StartReturns, ChurnReturns
  <2>2. Turn(Node(n), Idle) /\ Node(n) # Main
    BY <2>1, TaskFacts, AnsweredTurn
  <2>3. DriveTypeOK'
    BY <1>5, <1>7 DEF DriveStep
  <2>4. CASE StartReturns(n)
    <3>1. run' = run /\ file' = file /\ (cpc' = cpc \/ cpc' \in {"stop", "start"})
      BY <2>4 DEF StartReturns, startElse
    <3>2. cpc \in {"boot", "start"}
      BY <2>4 DEF StartReturns, TypeOK, DriveTypeOK
    <3> QED
      BY <2>2, <2>3, <3>1, <3>2, IdleFacts DEF TurnOf
  <2>5. CASE ChurnReturns(n)
    <3>1. run' = run /\ file' = file /\ cpc' = cpc
      BY <2>5 DEF ChurnReturns
    <3> QED
      BY <2>2, <2>3, <3>1, IdleFacts DEF TurnOf
  <2> QED
    BY <1>7, <2>4, <2>5
<1>8. CASE Prepare \/ SampleAtStop \/ FetchMetrics \/ StopAgent
  <2>1. DriveTypeOK' /\ run' = run /\ file' = file
    BY <1>5, <1>8 DEF DriveStep, Prepare, SampleAtStop, FetchMetrics, StopAgent, startElse, mainElse
  <2>2. Main \in Tasks /\ 0 \in Nodes \cup {0}
    BY TaskFacts
  <2>3. CASE \E ok \in BOOLEAN : Answered(Main, ok)
    <3>1. PICK ok \in BOOLEAN : Answered(Main, ok)
      BY <2>3
    <3>2. Turn(Main, Idle) /\ h[Main].pc = "done" /\ h[Main].ok = ok
      BY <2>2, <3>1, AnsweredTurn
    <3>3. /\ cpc' # "prepare"
          /\ cpc = "preparing" => cpc' = "over" \/ (cpc' = "boot" /\ h[Main].ok)
          /\ cpc # "over"
      BY <1>8, <3>2 DEF Prepare, SampleAtStop, FetchMetrics, StopAgent, Post, Answered
    <3> QED
      BY <2>1, <3>2, <3>3, IdleFacts, <2>2 DEF TurnOf
  <2>4. CASE ~ \E ok \in BOOLEAN : Answered(Main, ok)
    <3>1. PICK op \in {"prepare", "sample", "hostmetrics", "stop"} :
            /\ Post(Main, op, 0) /\ cpc' # "prepare" /\ cpc # "preparing" /\ cpc # "over"
            /\ op = "prepare" => cpc = "prepare" /\ cpc' = "preparing"
      BY <1>8, <2>4 DEF Prepare, SampleAtStop, FetchMetrics, StopAgent
    <3>2. Turn(Main, Posted(op, 0)) /\ Posted(op, 0).op = op
      BY <2>2, <3>1, PostTurn
    <3> QED
      BY <2>1, <2>2, <3>1, <3>2 DEF TurnOf, Turn
  <2> QED
    BY <2>3, <2>4
<1>9. CASE BootElsewhere \/ AllStarted \/ DriveEnds \/ FirstPassEnds \/ SecondPassEnds
  BY <1>5, <1>9 DEF AloneKind, DriveStep, BootElsewhere, AllStarted, DriveEnds, FirstPassEnds,
     SecondPassEnds, startElse, mainElse
<1>10. ASSUME NEW n \in Nodes, Fetch(n) \/ Refetch(n)
       PROVE  AloneKind
  <2>1. DriveTypeOK' /\ file \in [Nodes -> {Partial} \cup (0..MaxRuns)]
    BY <1>5, <1>10 DEF DriveStep, TypeOK, DriveTypeOK
  <2>2. UNCHANGED <<agentVars, cpc, run>> /\ cpc \in {"fetch", "retry"}
    BY <1>10 DEF Fetch, Refetch, mainElse
  <2>3. \A m \in Nodes : file'[m] \in {file[m], Partial, traces[m]}
    BY <1>10, <2>1 DEF Fetch, Refetch, Fetched, NotFetched
  <2> QED
    BY <2>1, <2>2, <2>3 DEF AloneKind
<1> QED
  BY <1>1, <1>2, <1>3, <1>4, <1>6, <1>7, <1>8, <1>9, <1>10, TaskFacts DEF Next, DriveStep

LEMMA TypeInit == Init => TypeOK
<1> SUFFICES ASSUME Init PROVE TypeOK
  OBVIOUS
<1> USE DEF Init, AgentInit
<1>0. 0 \in 0..MaxRuns /\ 1 \in Runs /\ 0 \in 0..MaxProcs /\ 0 \in 0..Attempts
  BY HostAgentAssumption, RunDriveAssumption DEF Runs
<1>1. AgentTypeOK
  BY <1>0, IdleFacts DEF AgentTypeOK
<1>2. DriveTypeOK
  BY <1>0 DEF DriveTypeOK, FreshRun
<1>3. \A t \in Tasks : h[t].pc = "idle" /\ h[t].op = "none"
  BY IdleFacts
<1>4. LockInv /\ \A t \in Tasks : CallOK(t)
  BY <1>3, TaskFacts DEF LockInv, CallOK, Served, Serving, Locked, Listed
<1>5. \A p \in Procs : ProcessOK(p)
  BY IdleFacts DEF ProcessOK
<1>6. PrepareBudget
  <2>1. {t \in Tasks : Preparing(t)} = {}
    BY <1>3 DEF Preparing, Served
  <2>2. Cardinality({t \in Tasks : Preparing(t)}) = 0
    BY <2>1, FS_EmptySet
  <2>3. cur = 0 /\ run = 1
    OBVIOUS
  <2> QED
    BY <2>2, <2>3 DEF PrepareBudget
<1> QED
  BY <1>1, <1>2, <1>4, <1>5, <1>6 DEF TypeOK

LEMMA TypeStep ==
  ASSUME TypeOK, [Next]_vars
  PROVE  TypeOK'
<1>1. CASE UNCHANGED vars
  <2>1. UNCHANGED agentVars /\ UNCHANGED driveVars /\ UNCHANGED faults
    BY <1>1 DEF vars
  <2>2. DriveTypeOK' /\ run' = run /\ cpc' = cpc
    BY <2>1 DEF TypeOK, DriveTypeOK, driveVars
  <2> QED
    BY <2>1, <2>2, AgentUntouched
<1>2. CASE HandlerKind
  BY <1>2, HandlerType DEF HandlerKind
<1>3. CASE MonitorKind
  BY <1>3, MonitorType DEF MonitorKind
<1>4. CASE EndsKind
  BY <1>4, EndsType DEF EndsKind
<1>5. CASE AloneKind
  BY <1>5, AgentUntouched DEF AloneKind
<1>6. CASE NextRun
  BY <1>6, NextRunType
<1>7. ASSUME NEW t \in Tasks, NEW c \in Call, TurnOf(t, c) PROVE TypeOK'
  BY <1>7, TurnType DEF TurnOf
<1>8. ASSUME NEW t \in Tasks \ Late, NEW u \in Late, NEW left \in Call, HandOf(t, u, left)
      PROVE  TypeOK'
  BY <1>8, HandType DEF HandOf
<1> QED
  BY <1>1, <1>2, <1>3, <1>4, <1>5, <1>6, <1>7, <1>8, StepKinds

-----------------------------------------------------------------------------
(* The collection adds up *)

LEMMA NodesFinite ==
  \A S \in SUBSET Nodes : IsFiniteSet(S) /\ Cardinality(S) \in Nat
BY HostAgentAssumption, FS_Subset, FS_CardinalityType

LEMMA FetchInit == Init => FetchInv
BY DEF Init, FetchInv, FreshRun

\* The steps of the two passes.
LEMMA FetchStep ==
  ASSUME TypeOK, FetchInv, NEW n \in Nodes, Fetch(n)
  PROVE  FetchInv'
<1>0. /\ cpc = "fetch" /\ cpc' = "fetch" /\ n \in Open /\ Open \subseteq Nodes
      /\ got \in Nat /\ failed \subseteq Nodes
      /\ file \in [Nodes -> {Partial} \cup (0..MaxRuns)] /\ att \in [Nodes -> 0..Attempts]
  BY DEF Fetch, Open, TypeOK, DriveTypeOK
<1>1. /\ got + Cardinality(failed) + Cardinality(Open) = Cardinality(Nodes)
      /\ failed \cap Open = {}
      /\ \A m \in Nodes : m \in failed \cup Open <=> file[m] \in {0, Partial}
  BY <1>0 DEF FetchInv
<1>2. IsFiniteSet(failed) /\ IsFiniteSet(Open)
  BY <1>0, NodesFinite
<1>3. /\ Cardinality(failed) \in Nat /\ Cardinality(Open) \in Nat /\ Cardinality(Nodes) \in Nat
  BY <1>0, NodesFinite
<1>4. Cardinality(Open \ {n}) = Cardinality(Open) - 1
  BY <1>0, <1>2, FS_RemoveElement
<1>5. Cardinality(failed \cup {n}) = Cardinality(failed) + 1
  BY <1>0, <1>1, <1>2, FS_AddElement
<1>6. ASSUME Fetched(n), got' = got + 1, att' = [att EXCEPT ![n] = Attempts], failed' = failed
      PROVE  FetchInv'
  <2>1. Open' = Open \ {n}
    BY <1>0, <1>6, RunDriveAssumption DEF Open
  <2>2. \A m \in Nodes : m \in failed' \cup Open' <=> file'[m] \in {0, Partial}
    <3>1. file' = [file EXCEPT ![n] = traces[n]] /\ traces[n] \in 0..MaxRuns /\ traces[n] # 0
      BY <1>6 DEF Fetched, TypeOK, AgentTypeOK
    <3>2. file'[n] \notin {0, Partial} /\ \A m \in Nodes \ {n} : file'[m] = file[m]
      BY <1>0, <3>1 DEF Partial
    <3> QED
      BY <1>0, <1>1, <1>6, <2>1, <3>2
  <2>3. got' + Cardinality(failed') + Cardinality(Open') = Cardinality(Nodes)
    BY <1>0, <1>1, <1>3, <1>4, <1>6, <2>1
  <2> QED
    BY <1>0, <1>1, <1>6, <2>1, <2>2, <2>3 DEF FetchInv
<1>7. ASSUME NotFetched(n), att' = [att EXCEPT ![n] = @ + 1], got' = got,
             failed' = IF att'[n] = Attempts THEN failed \cup {n} ELSE failed
      PROVE  FetchInv'
  <2>0. \A m \in Nodes : m # n => file'[m] = file[m]
    BY <1>0, <1>7 DEF NotFetched
  <2>1. file'[n] \in {0, Partial}
    BY <1>0, <1>1, <1>7 DEF NotFetched
  <2>2. att'[n] = att[n] + 1 /\ att[n] \in Nat /\ att[n] < Attempts /\ Attempts \in Nat
    BY <1>0, <1>7, RunDriveAssumption DEF Open
  <2>3. CASE att'[n] = Attempts
    <3>1. Open' = Open \ {n}
      BY <1>0, <1>7, <2>2, <2>3 DEF Open
    <3>2. failed' = failed \cup {n}
      BY <1>7, <2>3
    <3>3. got' + Cardinality(failed') + Cardinality(Open') = Cardinality(Nodes)
      BY <1>0, <1>1, <1>3, <1>4, <1>5, <1>7, <3>1, <3>2
    <3>4. \A m \in Nodes : m \in failed' \cup Open' <=> file'[m] \in {0, Partial}
      BY <1>0, <1>1, <2>0, <2>1, <3>1, <3>2
    <3> QED
      BY <1>0, <1>1, <3>1, <3>2, <3>3, <3>4 DEF FetchInv
  <2>4. CASE att'[n] # Attempts
    <3>1. Open' = Open
      BY <1>0, <1>7, <2>2, <2>4 DEF Open
    <3>2. failed' = failed
      BY <1>7, <2>4
    <3>4. \A m \in Nodes : m \in failed' \cup Open' <=> file'[m] \in {0, Partial}
      BY <1>0, <1>1, <2>0, <2>1, <3>1, <3>2
    <3> QED
      BY <1>0, <1>1, <1>7, <3>1, <3>2, <3>4 DEF FetchInv
  <2> QED
    BY <2>3, <2>4
<1> QED
  BY <1>6, <1>7 DEF Fetch

LEMMA RefetchStep ==
  ASSUME TypeOK, FetchInv, NEW n \in Nodes, Refetch(n)
  PROVE  FetchInv'
<1>0. /\ cpc = "retry" /\ cpc' = "retry" /\ n \in Open /\ got \in Nat /\ failed \subseteq Nodes
      /\ file \in [Nodes -> {Partial} \cup (0..MaxRuns)] /\ att \in [Nodes -> 0..Attempts]
  BY DEF Refetch, Open, TypeOK, DriveTypeOK
<1>1. /\ got + Cardinality(failed) = Cardinality(Nodes)
      /\ Open \subseteq failed
      /\ \A m \in Nodes : m \in failed <=> file[m] \in {0, Partial}
  BY <1>0 DEF FetchInv
<1>2. /\ IsFiniteSet(failed) /\ Cardinality(failed) \in Nat /\ Cardinality(Nodes) \in Nat
  BY <1>0, NodesFinite
<1>3. Cardinality(failed \ {n}) = Cardinality(failed) - 1
  BY <1>0, <1>1, <1>2, FS_RemoveElement
<1>4. ASSUME Fetched(n), got' = got + 1, failed' = failed \ {n}, att' = [att EXCEPT ![n] = Attempts]
      PROVE  FetchInv'
  <2>1. Open' \subseteq failed'
    BY <1>0, <1>1, <1>4, RunDriveAssumption DEF Open
  <2>2. \A m \in Nodes : m \in failed' <=> file'[m] \in {0, Partial}
    <3>1. file' = [file EXCEPT ![n] = traces[n]] /\ traces[n] \in 0..MaxRuns /\ traces[n] # 0
      BY <1>4 DEF Fetched, TypeOK, AgentTypeOK
    <3>2. file'[n] \notin {0, Partial} /\ \A m \in Nodes \ {n} : file'[m] = file[m]
      BY <1>0, <3>1 DEF Partial
    <3> QED
      BY <1>1, <1>4, <3>2
  <2>3. got' + Cardinality(failed') = Cardinality(Nodes)
    BY <1>0, <1>1, <1>2, <1>3, <1>4
  <2> QED
    BY <1>0, <2>1, <2>2, <2>3 DEF FetchInv
<1>5. ASSUME NotFetched(n), att' = [att EXCEPT ![n] = @ + 1], got' = got, failed' = failed
      PROVE  FetchInv'
  <2>1. file'[n] \in {0, Partial} /\ \A m \in Nodes : m # n => file'[m] = file[m]
    BY <1>0, <1>1, <1>5 DEF NotFetched
  <2>2. Open' \subseteq Open
    <3>1. att[n] \in Nat /\ Attempts \in Nat
      BY <1>0, RunDriveAssumption
    <3> QED
      BY <1>0, <1>5, <3>1 DEF Open
  <2>3. \A m \in Nodes : m \in failed' <=> file'[m] \in {0, Partial}
    BY <1>0, <1>1, <1>5, <2>1
  <2> QED
    BY <1>0, <1>1, <1>5, <2>2, <2>3 DEF FetchInv
<1> QED
  BY <1>4, <1>5 DEF Refetch

LEMMA FetchInvStep ==
  ASSUME TypeOK, FetchInv, [Next]_vars
  PROVE  FetchInv'
<1>0. /\ got \in Nat /\ failed \subseteq Nodes /\ att \in [Nodes -> 0..Attempts]
      /\ Attempts \in Nat \ {0}
  BY RunDriveAssumption DEF TypeOK, DriveTypeOK
<1>1. ASSUME UNCHANGED <<cpc, att, file, got, failed>>
      PROVE  FetchInv'
  BY <1>1 DEF FetchInv, Open
<1>2. CASE UNCHANGED vars \/ AgentStep \/ (\E n \in Nodes : Churn(n) \/ StartNode(n) \/ ChurnReturns(n) \/ Abandon(n))
             \/ \E t \in Tasks : TimesOut(t) \/ Lost(t) \/ Unread(t)
  <2>1. UNCHANGED <<cpc, att, file, got, failed>>
    BY <1>2 DEF vars, driveVars, AgentStep, Quiet, Churn, StartNode, ChurnReturns, Abandon, startElse,
       TimesOut, Lost, Unread
  <2> QED
    BY <1>1, <2>1
<1>3. CASE Prepare \/ BootElsewhere \/ AllStarted \/ \E n \in Nodes : StartReturns(n)
  <2>1. UNCHANGED <<att, file, got, failed>>
    BY <1>3 DEF Prepare, BootElsewhere, AllStarted, StartReturns, startElse
  <2>2. cpc' \in {"preparing", "boot", "over", "start", "stop", "drive"}
    BY <1>3 DEF Prepare, BootElsewhere, AllStarted, StartReturns, TypeOK, DriveTypeOK
  <2>3. cpc \in {"prepare", "preparing", "boot", "start"}
    BY <1>3 DEF Prepare, BootElsewhere, AllStarted, StartReturns, TypeOK, DriveTypeOK
  <2> QED
    BY <2>1, <2>2, <2>3 DEF FetchInv
<1>4. CASE DriveEnds \/ SampleAtStop
  <2>1. UNCHANGED <<att, file, got, failed>> /\ cpc \in {"drive", "sample", "sampling"}
    BY <1>4 DEF DriveEnds, SampleAtStop
  <2>2. cpc' \in {"sample", "sampling", "fetch"}
    BY <1>4 DEF DriveEnds, SampleAtStop
  <2>3. /\ got = 0 /\ failed = {}
        /\ \A n \in Nodes : att[n] = 0 /\ file[n] = 0
    BY <2>1 DEF FetchInv
  <2>4. Open' = Nodes
    BY <1>0, <2>1, <2>3 DEF Open
  <2>5. Cardinality(failed') = 0 /\ Cardinality(Nodes) \in Nat
    BY <2>1, <2>3, FS_EmptySet, NodesFinite
  <2>6. got' + Cardinality(failed') + Cardinality(Open') = Cardinality(Nodes)
    BY <2>1, <2>3, <2>4, <2>5
  <2> QED
    BY <2>1, <2>2, <2>3, <2>4, <2>6 DEF FetchInv
<1>5. CASE FirstPassEnds
  <2>1. /\ cpc = "fetch" /\ cpc' = "retry" /\ UNCHANGED <<file, got, failed>>
        /\ \A n \in Nodes : att[n] = Attempts
        /\ att' = [n \in Nodes |-> IF n \in failed THEN 0 ELSE Attempts]
    BY <1>5 DEF FirstPassEnds
  <2>2. Open = {} /\ Open' \subseteq failed'
    BY <1>0, <2>1 DEF Open
  <2>3. Cardinality(Open) = 0 /\ Cardinality(failed) \in Nat
    BY <1>0, <2>2, FS_EmptySet, NodesFinite
  <2>4. /\ got + Cardinality(failed) + Cardinality(Open) = Cardinality(Nodes)
        /\ \A n \in Nodes : n \in failed \cup Open <=> file[n] \in {0, Partial}
    BY <2>1 DEF FetchInv
  <2>5. got' + Cardinality(failed') = Cardinality(Nodes)
    BY <1>0, <2>1, <2>3, <2>4
  <2>6. \A n \in Nodes : n \in failed' <=> file'[n] \in {0, Partial}
    BY <2>1, <2>2, <2>4
  <2> QED
    BY <2>1, <2>2, <2>5, <2>6 DEF FetchInv
<1>6. CASE SecondPassEnds \/ FetchMetrics
  <2>1. UNCHANGED <<att, file, got, failed>> /\ cpc \in {"retry", "metrics", "measuring"}
    BY <1>6 DEF SecondPassEnds, FetchMetrics
  <2>2. cpc' \in {"metrics", "measuring", "stop"}
    BY <1>6 DEF SecondPassEnds, FetchMetrics
  <2> QED
    BY <2>1, <2>2 DEF FetchInv, Open
<1>7. CASE StopAgent
  BY <1>7 DEF StopAgent, FetchInv
<1>8. CASE NextRun
  BY <1>8 DEF NextRun, FetchInv, FreshRun
<1> QED
  BY <1>2, <1>3, <1>4, <1>5, <1>6, <1>7, <1>8, FetchStep, RefetchStep DEF Next, DriveStep

-----------------------------------------------------------------------------
(* A process and its owner *)

\* Where the numbers of processes come from.
LEMMA OwnerTypes ==
  ASSUME TypeOK
  PROVE  /\ \A g \in Runs, n \in Nodes : reg[g][n] # 0 => reg[g][n] \in Procs
         /\ \A t \in Tasks : Launching(t) \/ Terminating(t) => h[t].p \in Procs
         /\ \A t \in Tasks : Launching(t) => h[t].r \in Runs /\ h[t].r <= cur /\ h[t].node \in Nodes
         /\ \A p \in Procs : proc[p].st # "none" => proc[p].r \in Runs /\ proc[p].node \in Nodes
<1>1. reg \in [Runs -> [Nodes -> 0..MaxProcs]] /\ cur \in 0..MaxRuns
  BY DEF TypeOK, AgentTypeOK
<1>2. \A g \in Runs, n \in Nodes : reg[g][n] # 0 => reg[g][n] \in Procs
  BY <1>1, HostAgentAssumption DEF Procs
<1>3. ASSUME NEW t \in Tasks, Launching(t) \/ Terminating(t)
      PROVE  h[t].p \in Procs
  BY <1>3 DEF Launching, Terminating, TypeOK, CallOK
<1>4. ASSUME NEW t \in Tasks, Launching(t)
      PROVE  h[t].r \in Runs /\ h[t].r <= cur /\ h[t].node \in Nodes
  <2>1. h[t].r \in 1..cur /\ h[t].node \in Nodes
    BY <1>4 DEF Launching, TypeOK, CallOK, Served, Serving
  <2> QED
    BY <1>1, <2>1, HostAgentAssumption DEF Runs
<1>5. \A p \in Procs : proc[p].st # "none" => proc[p].r \in Runs /\ proc[p].node \in Nodes
  BY DEF TypeOK, ProcessOK
<1> QED
  BY <1>2, <1>3, <1>4, <1>5

\* Most steps move no process from one owner to another.
LEMMA OwnersKept ==
  ASSUME TypeOK, ProcInv, UNCHANGED reg, cur' = cur \/ cur' = cur + 1,
         \A p \in Procs : /\ proc'[p].st = "none" <=> proc[p].st = "none"
                          /\ proc'[p].r = proc[p].r /\ proc'[p].node = proc[p].node
                          /\ proc'[p].killed = proc[p].killed,
         \A t \in Tasks : Launching(t)' => /\ Launching(t) /\ h'[t].p = h[t].p
                                           /\ h'[t].r = h[t].r /\ h'[t].node = h[t].node,
         \A t \in Tasks : Terminating(t)' =>
                            Terminating(t) /\ h'[t].p = h[t].p /\ h'[t].todo = h[t].todo,
         \A p \in Procs : NoteOK(p)'
  PROVE  ProcInv'
<1>1. LaunchOrder'
  <2>1. {p \in Procs : proc'[p].st # "none"} = {p \in Procs : proc[p].st # "none"}
    OBVIOUS
  <2> QED
    BY <2>1 DEF ProcInv, LaunchOrder, Launched
<1>2. ASSUME NEW g \in Runs, NEW n \in Nodes PROVE TableOK(g, n)'
  <2>1. TableOK(g, n) /\ g \in Nat /\ cur \in Nat /\ cur' >= cur
    BY DEF ProcInv, TypeOK, AgentTypeOK, Runs
  <2>2. CASE reg[g][n] # 0
    <3>1. reg[g][n] \in Procs
      BY <2>2, OwnerTypes
    <3>2. g <= cur'
      BY <2>1, <2>2 DEF TableOK
    <3> QED
      BY <2>1, <2>2, <3>1, <3>2 DEF TableOK
  <2>3. CASE reg[g][n] = 0
    BY <2>3 DEF TableOK
  <2> QED
    BY <2>2, <2>3
<1>3. ASSUME NEW t \in Tasks PROVE LaunchOK(t)'
  <2>1. LaunchOK(t) /\ (Launching(t) => h[t].p \in Procs)
    BY OwnerTypes DEF ProcInv
  <2>2. CASE Launching(t)'
    BY <2>1, <2>2 DEF LaunchOK
  <2> QED
    BY <2>2 DEF LaunchOK
<1>4. ASSUME NEW t \in Tasks PROVE TerminateOK(t)'
  <2>1. TerminateOK(t) /\ (Terminating(t) => h[t].p \in Procs)
    BY OwnerTypes DEF ProcInv
  <2>2. CASE Terminating(t)'
    BY <2>1, <2>2 DEF TerminateOK
  <2> QED
    BY <2>2 DEF TerminateOK
<1> QED
  BY <1>1, <1>2, <1>3, <1>4 DEF ProcInv

\* Start launches a process nobody has yet ...
LEMMA ExecOwner ==
  ASSUME TypeOK, ProcInv, NEW t \in Tasks, Exec(t), ~ Answer(t, FALSE)
  PROVE  /\ ProcInv'
         /\ \A p \in Procs : \/ proc'[p].note = proc[p].note /\ proc'[p].killed = proc[p].killed
                             \/ proc'[p].note = "none"
<1>0. /\ h \in [Tasks -> Call] /\ proc \in [Procs -> Process]
      /\ UNCHANGED <<cur, reg>> /\ h[t].pc = "exec"
  BY DEF TypeOK, AgentTypeOK, Exec, At
<1>1. PICK p \in Procs :
        /\ Keeps(t) /\ h'[t].pc = "register" /\ h'[t].r = h[t].r /\ h'[t].p = p
        /\ p = Launched + 1 /\ proc' = [proc EXCEPT ![p] = NewProc(t)]
  BY <1>0, ExecFacts
<1>2. Launched \in Nat /\ {q \in Procs : proc[q].st # "none"} = 1..Launched
  <2>1. IsFiniteSet(Procs)
    BY HostAgentAssumption, FS_Interval DEF Procs
  <2>2. Launched \in Nat
    BY <2>1, FS_Subset, FS_CardinalityType DEF Launched
  <2> QED
    BY <2>2 DEF ProcInv, LaunchOrder
<1>3. proc[p].st = "none"
  BY <1>1, <1>2
<1>4. /\ \A q \in Procs \ {p} : proc'[q] = proc[q]
      /\ proc'[p].st = "running" /\ proc'[p].node = h[t].node /\ proc'[p].r = h[t].r
      /\ proc'[p].killed = FALSE /\ proc'[p].note = "none"
  BY <1>0, <1>1, NewProcFacts
<1>5. LaunchOrder'
  <2>1. {q \in Procs : proc'[q].st # "none"} = (1..Launched) \cup {Launched + 1}
    BY <1>1, <1>2, <1>4
  <2>2. (1..Launched) \cup {Launched + 1} = 1..(Launched + 1)
    BY <1>2
  <2>3. Cardinality(1..(Launched + 1)) = Launched + 1
    BY <1>2, FS_Interval
  <2>4. Launched' = Cardinality({q \in Procs : proc'[q].st # "none"})
    BY DEF Launched
  <2> QED
    BY <2>1, <2>2, <2>3, <2>4 DEF LaunchOrder
<1>6. \A g \in Runs, n \in Nodes : reg[g][n] # p
  BY <1>3, OwnerTypes DEF ProcInv, TableOK, Procs
<1>7. \A u \in Tasks : Launching(u) \/ Terminating(u) => h[u].p # p
  BY <1>3 DEF ProcInv, LaunchOK, TerminateOK
<1>8. ASSUME NEW g \in Runs, NEW n \in Nodes PROVE TableOK(g, n)'
  BY <1>0, <1>4, <1>6, OwnerTypes DEF ProcInv, TableOK
<1>9. \A u \in Tasks \ {t} : h'[u] = h[u]
  BY <1>1 DEF Keeps
<1>10. ASSUME NEW u \in Tasks PROVE LaunchOK(u)'
  <2>1. CASE u = t
    <3>1. h'[t].node = h[t].node /\ h[t].node \in Nodes /\ h[t].r \in Runs
      <4>1. CallOK(t) /\ cur \in 0..MaxRuns
        BY DEF TypeOK, AgentTypeOK
      <4>2. h[t].r \in 1..cur /\ h[t].node \in Nodes
        BY <1>0, <4>1 DEF CallOK, Serving, Served
      <4> QED
        BY <1>1, <4>1, <4>2, HostAgentAssumption DEF Keeps, Runs
    <3>2. reg'[h'[t].r][h'[t].node] # p
      BY <1>0, <1>1, <1>6, <3>1
    <3> QED
      BY <1>1, <1>4, <1>7, <1>9, <2>1, <3>1, <3>2 DEF LaunchOK, Launching
  <2>2. CASE u # t
    <3>1. LaunchOK(u) /\ (Launching(u) => h[u].p \in Procs)
      BY OwnerTypes DEF ProcInv
    <3> QED
      BY <1>0, <1>1, <1>4, <1>7, <1>9, <2>2, <3>1 DEF LaunchOK, Launching
  <2> QED
    BY <2>1, <2>2
<1>11. ASSUME NEW u \in Tasks PROVE TerminateOK(u)'
  <2>1. CASE u = t
    BY <1>1, <2>1 DEF TerminateOK, Terminating
  <2>2. CASE u # t
    <3>1. TerminateOK(u) /\ (Terminating(u) => h[u].p \in Procs)
      BY OwnerTypes DEF ProcInv
    <3> QED
      BY <1>0, <1>1, <1>4, <1>7, <1>9, <2>2, <3>1 DEF TerminateOK, Launching, Terminating
  <2> QED
    BY <2>1, <2>2
<1>12. \A q \in Procs : NoteOK(q)'
  BY <1>4 DEF ProcInv, NoteOK
<1> QED
  BY <1>4, <1>5, <1>8, <1>10, <1>11, <1>12 DEF ProcInv

\* ... and enters it in the table ...
LEMMA RegisterOwner ==
  ASSUME TypeOK, ProcInv, NEW t \in Tasks, Register(t)
  PROVE  ProcInv'
<1>0. /\ h \in [Tasks -> Call] /\ reg \in [Runs -> [Nodes -> 0..MaxProcs]]
      /\ UNCHANGED <<cur, proc>> /\ Launching(t)
      /\ reg' = [reg EXCEPT ![h[t].r][h[t].node] = h[t].p]
  BY DEF TypeOK, AgentTypeOK, Register, At, Launching
<1>1. h'[t].pc = "done" /\ \A u \in Tasks \ {t} : h'[u] = h[u]
  BY <1>0, AnswerFacts DEF Register
<1>2. h[t].r \in Runs /\ h[t].r <= cur /\ h[t].node \in Nodes /\ h[t].p \in Procs
  BY <1>0, OwnerTypes
<1>3. \A g \in Runs, n \in Nodes :
        reg'[g][n] = IF g = h[t].r /\ n = h[t].node THEN h[t].p ELSE reg[g][n]
  BY <1>0, <1>2
<1>4. LaunchOrder' /\ \A p \in Procs : NoteOK(p)'
  BY <1>0 DEF ProcInv, LaunchOrder, Launched, NoteOK
<1>5. ASSUME NEW g \in Runs, NEW n \in Nodes PROVE TableOK(g, n)'
  <2>1. TableOK(g, n) /\ LaunchOK(t)
    BY DEF ProcInv
  <2> QED
    BY <1>0, <1>2, <1>3, <2>1 DEF TableOK, LaunchOK
<1>6. ASSUME NEW u \in Tasks PROVE LaunchOK(u)' /\ TerminateOK(u)'
  <2>1. CASE u = t
    BY <1>1, <2>1 DEF LaunchOK, TerminateOK, Launching, Terminating
  <2>2. CASE u # t
    <3>0. LaunchOK(u) /\ TerminateOK(u) /\ LaunchOK(t) /\ h'[u] = h[u]
      BY <1>1, <2>2 DEF ProcInv
    <3>1. LaunchOK(u)'
      <4>1. Launching(u) => h[u].r \in Runs /\ h[u].node \in Nodes
        BY OwnerTypes
      <4> QED
        BY <1>0, <1>1, <1>3, <2>2, <3>0, <4>1 DEF LaunchOK, Launching
    <3>2. TerminateOK(u)'
      <4>1. Terminating(u) => proc[h[u].p].r \in Runs /\ proc[h[u].p].node \in Nodes
        BY <3>0, OwnerTypes DEF TerminateOK
      <4> QED
        BY <1>0, <1>1, <1>3, <2>2, <3>0, <4>1 DEF TerminateOK, Launching, Terminating
    <3> QED
      BY <3>1, <3>2
  <2> QED
    BY <2>1, <2>2
<1> QED
  BY <1>4, <1>5, <1>6 DEF ProcInv

\* ... which terminate takes it off ...
LEMMA TerminateOwner ==
  ASSUME TypeOK, ProcInv, NEW t \in Tasks, Terminate(t)
  PROVE  ProcInv'
<1>0. /\ h \in [Tasks -> Call] /\ reg \in [Runs -> [Nodes -> 0..MaxProcs]]
      /\ UNCHANGED <<cur, proc>> /\ h[t].pc = "terminate" /\ h[t].todo \subseteq Nodes
  BY DEF TypeOK, AgentTypeOK, Terminate, At, Call
<1>1. PICK n \in h[t].todo :
        /\ Keeps(t) /\ h'[t].pc = "signal" /\ h'[t].p = reg[cur][n] /\ h'[t].todo = h[t].todo \ {n}
        /\ reg' = [reg EXCEPT ![cur][n] = 0]
  BY <1>0, TerminateFacts
<1>2. n \in Nodes /\ cur \in Runs /\ reg[cur][n] # 0 /\ reg[cur][n] \in Procs
  <2>1. CallOK(t) /\ cur \in 0..MaxRuns
    BY DEF TypeOK, AgentTypeOK
  <2>2. n \in Nodes /\ cur \in Runs /\ reg[cur][n] # 0
    BY <1>0, <1>1, <2>1 DEF CallOK, Locked, Listed, Runs
  <2> QED
    BY <2>2, OwnerTypes
<1>3. \A g \in Runs, m \in Nodes : reg'[g][m] = IF g = cur /\ m = n THEN 0 ELSE reg[g][m]
  BY <1>0, <1>1, <1>2
<1>4. LaunchOrder' /\ \A p \in Procs : NoteOK(p)'
  BY <1>0 DEF ProcInv, LaunchOrder, Launched, NoteOK
<1>5. ASSUME NEW g \in Runs, NEW m \in Nodes PROVE TableOK(g, m)'
  <2>1. TableOK(g, m)
    BY DEF ProcInv
  <2> QED
    BY <1>0, <1>3, <2>1 DEF TableOK
<1>6. \A u \in Tasks : u # t => h'[u] = h[u] /\ ~ Terminating(u)
  <2>1. mu = t
    BY <1>0 DEF TypeOK, LockInv, Locked, Listed
  <2> QED
    BY <1>1, <2>1 DEF Keeps, TypeOK, LockInv, Locked, Listed, Terminating
<1>7. ASSUME NEW u \in Tasks PROVE LaunchOK(u)'
  <2>0. LaunchOK(u) /\ (Launching(u) => h[u].r \in Runs /\ h[u].node \in Nodes /\ h[u].p \in Procs)
    BY OwnerTypes DEF ProcInv
  <2>1. CASE u = t
    BY <1>1, <2>1 DEF LaunchOK, Launching
  <2>2. CASE u # t /\ Launching(u)
    <3>1. reg'[h[u].r][h[u].node] # h[u].p
      BY <1>3, <2>0, <2>2 DEF LaunchOK, Procs
    <3>2. \A v \in Tasks : Launching(v)' => Launching(v) /\ h'[v] = h[v]
      BY <1>1, <1>6 DEF Launching
    <3> QED
      BY <1>0, <1>6, <2>0, <2>2, <3>1, <3>2 DEF LaunchOK
  <2>3. CASE u # t /\ ~ Launching(u)
    BY <1>6, <2>3 DEF LaunchOK, Launching
  <2> QED
    BY <2>1, <2>2, <2>3
<1>8. ASSUME NEW u \in Tasks PROVE TerminateOK(u)'
  <2>1. CASE u = t
    <3>1. TableOK(cur, n)
      BY <1>2 DEF ProcInv
    <3>2. proc[reg[cur][n]].st # "none" /\ proc[reg[cur][n]].r = cur /\ proc[reg[cur][n]].node = n
      BY <1>2, <3>1 DEF TableOK
    <3>3. reg'[cur][n] # reg[cur][n]
      BY <1>2, <1>3
    <3>4. \A v \in Tasks : Launching(v) => h[v].p # reg[cur][n]
      BY <1>2, <3>2 DEF ProcInv, LaunchOK
    <3>5. \A v \in Tasks : Launching(v)' => Launching(v) /\ h'[v] = h[v]
      BY <1>1, <1>6 DEF Launching
    <3> QED
      BY <1>0, <1>1, <2>1, <3>2, <3>3, <3>4, <3>5 DEF TerminateOK
  <2>2. CASE u # t
    BY <1>6, <2>2 DEF TerminateOK, Terminating
  <2> QED
    BY <2>1, <2>2
<1> QED
  BY <1>4, <1>5, <1>7, <1>8 DEF ProcInv

\* ... before it signals it: no entry and no Start has it any more.
LEMMA SigtermOwner ==
  ASSUME TypeOK, ProcInv, OwnExitNotKilled, NEW t \in Tasks, Sigterm(t)
  PROVE  ProcInv' /\ OwnExitNotKilled'
<1> DEFINE p == h[t].p
<1>0. /\ h \in [Tasks -> Call] /\ proc \in [Procs -> Process]
      /\ UNCHANGED <<cur, reg>> /\ Terminating(t) /\ p \in Procs
  BY OwnerTypes DEF TypeOK, AgentTypeOK, Sigterm, At, Terminating
<1>1. h'[t].pc = "reapWait" /\ h'[t].p = p /\ h'[t].todo = h[t].todo /\ \A u \in Tasks \ {t} : h'[u] = h[u]
  BY <1>0, GotoFacts DEF Sigterm, Keeps
<1>2. PICK b \in BOOLEAN : /\ proc' = [proc EXCEPT ![p].killed = b]
                           /\ b => proc[p].st = "running"
  BY DEF Sigterm
<1> HIDE DEF p
<1>3. \A q \in Procs : /\ proc'[q].st = proc[q].st /\ proc'[q].r = proc[q].r
                       /\ proc'[q].node = proc[q].node /\ proc'[q].note = proc[q].note
                       /\ proc'[q].killed = (IF q = p THEN b ELSE proc[q].killed)
  BY <1>0, <1>2, ProcessFields
<1>4. /\ TerminateOK(t) /\ proc[p].st # "none"
      /\ reg[proc[p].r][proc[p].node] # p /\ \A u \in Tasks : Launching(u) => h[u].p # p
  BY <1>0 DEF ProcInv, TerminateOK, p
<1>5. LaunchOrder'
  <2>1. {q \in Procs : proc'[q].st # "none"} = {q \in Procs : proc[q].st # "none"}
    BY <1>3
  <2> QED
    BY <2>1 DEF ProcInv, LaunchOrder, Launched
<1>6. \A q \in Procs : NoteOK(q)'
  BY <1>3 DEF ProcInv, NoteOK
<1>7. ASSUME NEW g \in Runs, NEW n \in Nodes PROVE TableOK(g, n)'
  <2>1. TableOK(g, n) /\ (reg[g][n] # 0 => reg[g][n] \in Procs)
    BY OwnerTypes DEF ProcInv
  <2>2. reg[g][n] # 0 => reg[g][n] # p
    BY <1>4, <2>1 DEF TableOK
  <2> QED
    BY <1>0, <1>3, <2>1, <2>2 DEF TableOK
<1>8. \A u \in Tasks : Launching(u)' => Launching(u) /\ h'[u] = h[u]
  BY <1>1 DEF Launching
<1>9. ASSUME NEW u \in Tasks PROVE LaunchOK(u)'
  <2>1. LaunchOK(u) /\ (Launching(u) => h[u].p \in Procs /\ h[u].p # p)
    BY <1>4, OwnerTypes DEF ProcInv
  <2> QED
    BY <1>0, <1>3, <1>8, <2>1 DEF LaunchOK
<1>10. ASSUME NEW u \in Tasks PROVE TerminateOK(u)'
  <2>1. TerminateOK(u) /\ (Terminating(u) => h[u].p \in Procs)
    BY OwnerTypes DEF ProcInv
  <2>2. Terminating(u)' => Terminating(u) /\ h'[u].p = h[u].p /\ h'[u].todo = h[u].todo
    BY <1>0, <1>1 DEF Terminating, p
  <2> QED
    BY <1>0, <1>3, <1>8, <2>1, <2>2 DEF TerminateOK
<1>11. OwnExitNotKilled'
  <2>1. b => proc[p].note = "none"
    BY <1>0, <1>2 DEF ProcInv, NoteOK
  <2> QED
    BY <1>3, <2>1 DEF OwnExitNotKilled
<1> QED
  BY <1>5, <1>6, <1>7, <1>9, <1>10, <1>11 DEF ProcInv

\* The steps of a handler that leave every process and its owner alone.
LEMMA HandlerElse ==
  ASSUME TypeOK, NEW t \in Tasks, HandlerStep(t),
         Exec(t) => Answer(t, FALSE), ~ Register(t), ~ Terminate(t), ~ Sigterm(t)
  PROVE  /\ UNCHANGED reg /\ (cur' = cur \/ cur' = cur + 1)
         /\ \A p \in Procs : /\ proc'[p].st = "none" <=> proc[p].st = "none"
                             /\ proc'[p].st = "running" => proc[p].st = "running"
                             /\ proc'[p].st = "reaped" <=> proc[p].st = "reaped"
                             /\ proc'[p].r = proc[p].r /\ proc'[p].node = proc[p].node
                             /\ proc'[p].run = proc[p].run
                             /\ proc'[p].killed = proc[p].killed /\ proc'[p].note = proc[p].note
         /\ \A u \in Tasks \ {t} : h'[u] = h[u]
         /\ ~ Launching(t)'
         /\ Terminating(t)' => Terminating(t) /\ h'[t] = h[t]
<1>0. /\ h \in [Tasks -> Call] /\ proc \in [Procs -> Process] /\ CallOK(t)
      /\ \A u \in Tasks \ {t} : h'[u] = h[u]
  BY HandlerCall DEF TypeOK, AgentTypeOK
<1>1. cur' = cur \/ cur' = cur + 1
  BY HandlerCur DEF NewRunner
<1>2. CASE Sigkill(t)
  <2>1. /\ h[t].p \in Procs /\ UNCHANGED <<h, reg>> /\ proc[h[t].p].st = "running" /\ h[t].pc = "reapWait"
        /\ proc' = [proc EXCEPT ![h[t].p].st = "exited", ![h[t].p].up = FALSE]
    BY <1>0, <1>2 DEF Sigkill, At, CallOK
  <2>2. \A q \in Procs : /\ proc'[q].st = (IF q = h[t].p THEN "exited" ELSE proc[q].st)
                         /\ proc'[q].node = proc[q].node /\ proc'[q].r = proc[q].r
                         /\ proc'[q].run = proc[q].run /\ proc'[q].note = proc[q].note
                         /\ proc'[q].killed = proc[q].killed
    BY <1>0, <2>1, ProcessFields, TRUE \in BOOLEAN
  <2> QED
    BY <1>0, <1>1, <2>1, <2>2 DEF Launching, Terminating
<1>3. CASE CallNode(t)
  <2>1. h'[t].pc = "done" /\ UNCHANGED reg
    BY <1>0, <1>3, AnswerFacts DEF CallNode
  <2>2. CASE UNCHANGED proc
    BY <1>0, <1>1, <2>1, <2>2 DEF Launching, Terminating
  <2>3. CASE ~ UNCHANGED proc
    <3>1. PICK q \in Procs, b \in BOOLEAN : proc' = [proc EXCEPT ![q].up = b]
      BY <1>3, <2>3 DEF CallNode, Listening
    <3>2. \A p \in Procs : /\ proc'[p].st = proc[p].st /\ proc'[p].node = proc[p].node
                           /\ proc'[p].r = proc[p].r /\ proc'[p].run = proc[p].run
                           /\ proc'[p].note = proc[p].note /\ proc'[p].killed = proc[p].killed
      BY <1>0, <3>1, ProcessFields
    <3> QED
      BY <1>0, <1>1, <2>1, <3>2 DEF Launching, Terminating
  <2> QED
    BY <2>2, <2>3
<1>4. ASSUME UNCHANGED <<reg, proc>>, h'[t].pc \notin {"register", "signal", "reapWait"}
      PROVE  /\ UNCHANGED reg
             /\ \A p \in Procs : proc'[p] = proc[p]
             /\ ~ Launching(t)' /\ ~ Terminating(t)'
  BY <1>4 DEF Launching, Terminating
<1>5. CASE ~ Sigkill(t) /\ ~ CallNode(t)
  <2>1. UNCHANGED <<reg, proc>>
    <3>1. Exec(t) => UNCHANGED <<reg, proc>>
      BY <1>0, ExecFacts, AnswerFacts DEF Exec
    <3> QED
      BY <1>5, <3>1 DEF HandlerStep, GetRunner, HostMetrics, Lock, StopMonitor, MonitorStopped,
         StopAll, Reaped, AllStopped, Stop, RemoveAll, NewRunner, Check, Ask, Replied
  <2>2. h'[t].pc \notin {"register", "signal", "reapWait"}
    <3>1. CASE \E ok \in BOOLEAN : Answer(t, ok)
      BY <1>0, <3>1, AnswerFacts
    <3>2. CASE ~ \E ok \in BOOLEAN : Answer(t, ok)
      <4>1. CASE GetRunner(t)
        <5>1. cur # 0 /\ h[t].op \in {"start", "kill", "sample"}
          BY <3>2, <4>1 DEF GetRunner
        <5> QED
          BY <1>0, <4>1, <5>1, GetRunnerFacts
      <4>2. CASE \E pc \in {"stopped", "stopMonitor", "monitorWait", "stopAll", "new", "node", "exec", "await"} : Goto(t, pc)
        BY <1>0, <4>2, GotoFacts
      <4>3. CASE StopAll(t) \/ Reaped(t)
        BY <1>0, <4>3, StopAllFacts, ReapedFacts
      <4> QED
        BY <1>5, <3>2, <4>1, <4>2, <4>3 DEF HandlerStep, HostMetrics, Lock, StopMonitor,
           MonitorStopped, AllStopped, Stop, RemoveAll, NewRunner, Check, Ask, Replied
    <3> QED
      BY <3>1, <3>2
  <2> QED
    BY <1>0, <1>1, <1>4, <2>1, <2>2
<1> QED
  BY <1>2, <1>3, <1>5

LEMMA ProcInit == Init => ProcInv /\ OwnExitNotKilled
<1> SUFFICES ASSUME Init PROVE ProcInv /\ OwnExitNotKilled
  OBVIOUS
<1>1. /\ \A p \in Procs : proc[p].st = "none" /\ proc[p].note = "none"
      /\ \A t \in Tasks : h[t].pc = "idle"
      /\ \A g \in Runs, n \in Nodes : reg[g][n] = 0
  BY IdleFacts DEF Init, AgentInit, NoProc
<1>2. LaunchOrder
  <2>1. {p \in Procs : proc[p].st # "none"} = {}
    BY <1>1
  <2> QED
    BY <2>1, FS_EmptySet DEF LaunchOrder, Launched
<1> QED
  BY <1>1, <1>2 DEF ProcInv, TableOK, LaunchOK, TerminateOK, NoteOK, Launching, Terminating,
     OwnExitNotKilled

\* A step that is not of the agent or a process leaves both to their owners.
LEMMA ClientProc ==
  ASSUME TypeOK, ProcInv, OwnExitNotKilled, UNCHANGED <<cur, reg, proc>>,
         \A t \in Tasks : Launching(t)' => Launching(t) /\ h'[t] = h[t],
         \A t \in Tasks : Terminating(t)' => Terminating(t) /\ h'[t] = h[t]
  PROVE  ProcInv' /\ OwnExitNotKilled'
<1>1. OwnExitNotKilled' /\ \A p \in Procs : NoteOK(p)'
  BY DEF ProcInv, NoteOK, OwnExitNotKilled
<1>2. \A p \in Procs : /\ proc'[p].st = "none" <=> proc[p].st = "none"
                       /\ proc'[p].r = proc[p].r /\ proc'[p].node = proc[p].node
                       /\ proc'[p].killed = proc[p].killed
  OBVIOUS
<1>3. ProcInv'
  BY <1>1, <1>2, OwnersKept
<1> QED
  BY <1>1, <1>3

LEMMA ProcHand ==
  ASSUME TypeOK, ProcInv, OwnExitNotKilled, NEW t \in Tasks \ Late, NEW u \in Late, NEW left \in Call,
         HandOf(t, u, left)
  PROVE  ProcInv' /\ OwnExitNotKilled'
<1>0. /\ u \in Tasks /\ u # t /\ h'[u] = h[t] /\ h'[t] = left /\ h[u].pc = "idle"
      /\ \A v \in Tasks \ {t, u} : h'[v] = h[v]
      /\ UNCHANGED <<cur, reg, proc>>
  BY HandFacts DEF HandOf
<1>1. ~ Launching(t)' /\ ~ Terminating(t)'
  BY <1>0 DEF HandOf, Launching, Terminating
<1>2. /\ LaunchOrder' /\ OwnExitNotKilled' /\ \A p \in Procs : NoteOK(p)'
      /\ \A g \in Runs, n \in Nodes : TableOK(g, n)'
  <2>1. OwnExitNotKilled' /\ \A p \in Procs : NoteOK(p)'
    BY <1>0 DEF ProcInv, NoteOK, OwnExitNotKilled
  <2>2. LaunchOrder'
    BY <1>0 DEF ProcInv, LaunchOrder, Launched
  <2>3. \A g \in Runs, n \in Nodes : TableOK(g, n)'
    BY <1>0 DEF ProcInv, TableOK
  <2> QED
    BY <2>1, <2>2, <2>3
<1>3. \A v \in Tasks : Launching(v)' =>
        \E w \in Tasks : Launching(w) /\ h'[v] = h[w] /\ (v # u => w = v) /\ (v = u => w = t)
  BY <1>0, <1>1 DEF Launching
<1>4. ASSUME NEW v \in Tasks PROVE LaunchOK(v)'
  <2>1. CASE v = u
    <3>1. LaunchOK(t)
      BY DEF ProcInv
    <3> QED
      BY <1>0, <1>1, <1>3, <2>1, <3>1 DEF LaunchOK, Launching
  <2>2. CASE v # u
    <3>1. LaunchOK(v)
      BY DEF ProcInv
    <3> QED
      BY <1>0, <1>1, <1>3, <2>2, <3>1 DEF LaunchOK, Launching
  <2> QED
    BY <2>1, <2>2
<1>5. ASSUME NEW v \in Tasks PROVE TerminateOK(v)'
  <2>1. CASE v = u
    <3>1. TerminateOK(t)
      BY DEF ProcInv
    <3> QED
      BY <1>0, <1>3, <2>1, <3>1 DEF TerminateOK, Terminating
  <2>2. CASE v # u
    <3>1. TerminateOK(v)
      BY DEF ProcInv
    <3> QED
      BY <1>0, <1>1, <1>3, <2>2, <3>1 DEF TerminateOK, Terminating
  <2> QED
    BY <2>1, <2>2
<1> QED
  BY <1>2, <1>4, <1>5 DEF ProcInv

LEMMA ProcStep ==
  ASSUME TypeOK, ProcInv, OwnExitNotKilled, [Next]_vars
  PROVE  ProcInv' /\ OwnExitNotKilled'
<1>1. ASSUME NEW t \in Tasks, HandlerStep(t)
      PROVE  ProcInv' /\ OwnExitNotKilled'
  <2>1. CASE Exec(t) /\ ~ Answer(t, FALSE)
    BY <2>1, ExecOwner DEF OwnExitNotKilled
  <2>2. CASE Register(t)
    BY <2>2, RegisterOwner DEF OwnExitNotKilled, Register
  <2>3. CASE Terminate(t)
    BY <2>3, TerminateOwner DEF OwnExitNotKilled, Terminate
  <2>4. CASE Sigterm(t)
    BY <2>4, SigtermOwner
  <2>5. CASE ~ ((Exec(t) /\ ~ Answer(t, FALSE)) \/ Register(t) \/ Terminate(t) \/ Sigterm(t))
    <3>1. /\ UNCHANGED reg /\ (cur' = cur \/ cur' = cur + 1)
          /\ \A p \in Procs : /\ proc'[p].st = "none" <=> proc[p].st = "none"
                              /\ proc'[p].st = "reaped" <=> proc[p].st = "reaped"
                              /\ proc'[p].r = proc[p].r /\ proc'[p].node = proc[p].node
                              /\ proc'[p].killed = proc[p].killed /\ proc'[p].note = proc[p].note
          /\ \A u \in Tasks \ {t} : h'[u] = h[u]
          /\ ~ Launching(t)'
          /\ Terminating(t)' => Terminating(t) /\ h'[t] = h[t]
      BY <1>1, <2>5, HandlerElse
    <3>2. \A p \in Procs : NoteOK(p)'
      BY <3>1 DEF ProcInv, NoteOK
    <3>3. /\ \A u \in Tasks : Launching(u)' => Launching(u) /\ h'[u] = h[u]
          /\ \A u \in Tasks : Terminating(u)' => Terminating(u) /\ h'[u] = h[u]
      BY <3>1 DEF Launching, Terminating
    <3>4. ProcInv'
      BY <3>1, <3>2, <3>3, OwnersKept
    <3> QED
      BY <3>1, <3>4 DEF OwnExitNotKilled
  <2> QED
    BY <2>1, <2>2, <2>3, <2>4, <2>5
<1>2. ASSUME NEW p \in Procs, Ends(p)
      PROVE  ProcInv' /\ OwnExitNotKilled'
  <2>0. /\ UNCHANGED <<cur, h, reg>> /\ proc[p].st \in {"running", "exited"}
        /\ \A q \in Procs : /\ proc'[q].node = proc[q].node /\ proc'[q].r = proc[q].r
                            /\ proc'[q].killed = proc[q].killed
                            /\ q # p => proc'[q].st = proc[q].st /\ proc'[q].note = proc[q].note
                            /\ proc'[q].st = "none" <=> proc[q].st = "none"
        /\ ~ Reap(p) => \A q \in Procs : proc'[q].note = proc[q].note
        /\ Reap(p) => proc'[p].st = "reaped" /\
             proc'[p].note = (IF reg[proc[p].r][proc[p].node] = p THEN "exited on its own"
                                                                 ELSE "exited")
    <3>1. UNCHANGED <<cur, h, reg>> /\ proc[p].st \in {"running", "exited"}
      BY <1>2, EndsFacts
    <3>2. \A q \in Procs : /\ proc'[q].node = proc[q].node /\ proc'[q].r = proc[q].r
                           /\ proc'[q].killed = proc[q].killed
                           /\ q # p => proc'[q].st = proc[q].st /\ proc'[q].note = proc[q].note
                           /\ proc'[q].st = "none" <=> proc[q].st = "none"
      <4> SUFFICES ASSUME NEW q \in Procs
                   PROVE  /\ proc'[q].node = proc[q].node /\ proc'[q].r = proc[q].r
                          /\ proc'[q].killed = proc[q].killed
                          /\ q # p => proc'[q].st = proc[q].st /\ proc'[q].note = proc[q].note
                          /\ proc'[q].st = "none" <=> proc[q].st = "none"
        OBVIOUS
      <4>1. /\ proc'[q].node = proc[q].node /\ proc'[q].r = proc[q].r
            /\ q # p => proc'[q].st = proc[q].st /\ proc'[q].note = proc[q].note
            /\ proc'[q].st = "none" <=> proc[q].st = "none"
        BY <1>2, EndsFacts, ZenonT(60)
      <4>2. proc'[q].killed = proc[q].killed
        BY <1>2, EndsFacts
      <4> QED
        BY <4>1, <4>2, Zenon
    <3>3. /\ ~ Reap(p) => \A q \in Procs : proc'[q].note = proc[q].note
          /\ Reap(p) => proc'[p].st = "reaped" /\
               proc'[p].note = (IF reg[proc[p].r][proc[p].node] = p THEN "exited on its own"
                                                                   ELSE "exited")
      BY <1>2, EndsFacts
    <3> QED
      BY <3>1, <3>2, <3>3, Zenon
  <2>1. \A q \in Procs : NoteOK(q) /\ NoteOK(q)'
    BY <2>0 DEF ProcInv, NoteOK
  <2>2. ProcInv'
    BY <2>0, <2>1, OwnersKept DEF Launching, Terminating
  <2>3. reg[proc[p].r][proc[p].node] = p => ~ proc[p].killed
    <3>1. proc[p].r \in Runs /\ proc[p].node \in Nodes
      BY <2>0, OwnerTypes
    <3> QED
      BY <3>1 DEF ProcInv, TableOK, Procs
  <2>4. OwnExitNotKilled'
    <3> SUFFICES ASSUME NEW q \in Procs, proc'[q].note = "exited on its own" PROVE ~ proc'[q].killed
      BY DEF OwnExitNotKilled
    <3>1. proc[q].note = "exited on its own" => ~ proc[q].killed
      BY DEF OwnExitNotKilled
    <3>2. proc'[q].killed = proc[q].killed
      BY <2>0
    <3>3. CASE q = p /\ Reap(p)
      <4>1. reg[proc[p].r][proc[p].node] = p
        BY <2>0, <3>3
      <4> QED
        BY <2>3, <3>2, <3>3, <4>1
    <3>4. CASE ~ (q = p /\ Reap(p))
      <4>1. proc'[q].note = proc[q].note
        BY <2>0, <3>4
      <4> QED
        BY <3>1, <3>2, <4>1
    <3> QED
      BY <3>3, <3>4
  <2> QED
    BY <2>2, <2>4
<1>3. CASE MonitorKind
  BY <1>3, ClientProc DEF MonitorKind, PeriodicSample, RequestedSample, MonitorEnds, Launching, Terminating
<1>4. CASE AloneKind \/ NextRun \/ UNCHANGED vars
  <2>1. UNCHANGED agentVars
    BY <1>4 DEF AloneKind, NextRun, vars
  <2> QED
    BY <2>1, ClientProc DEF agentVars, Launching, Terminating
<1>5. ASSUME NEW t \in Tasks, NEW c \in Call, TurnOf(t, c)
      PROVE  ProcInv' /\ OwnExitNotKilled'
  <2>1. /\ h' = [h EXCEPT ![t] = c] /\ UNCHANGED <<cur, reg, proc>> /\ c.pc \in {"idle", "recv", "done"}
        /\ h \in [Tasks -> Call]
    BY <1>5 DEF TurnOf, Turn, agentElse, TypeOK, AgentTypeOK
  <2> QED
    BY <2>1, ClientProc DEF Launching, Terminating
<1> QED
  BY <1>1, <1>2, <1>3, <1>4, <1>5, ProcHand, StepKinds DEF HandlerKind, EndsKind

-----------------------------------------------------------------------------
(* Without a race *)

\* A Start has its Runner; a call at exec or register is one.
LEMMA StartTypes ==
  ASSUME TypeOK
  PROVE  /\ cur \in Nat
         /\ \A t \in Tasks : Starting(t) => /\ h[t].r \in Runs /\ h[t].r <= cur /\ cur # 0 /\ cur \in Runs
                                            /\ h[t].node \in Nodes
         /\ \A t \in Tasks : h[t].pc \in {"exec", "register"} => Starting(t)
<1>0. cur \in 0..MaxRuns
  BY DEF TypeOK, AgentTypeOK
<1>1. ASSUME NEW t \in Tasks, Starting(t)
      PROVE  h[t].r \in Runs /\ h[t].r <= cur /\ cur # 0 /\ cur \in Runs /\ h[t].node \in Nodes
  <2>1. h[t].r \in 1..cur /\ h[t].node \in Nodes
    BY <1>1 DEF Starting, TypeOK, CallOK, Served, Serving
  <2> QED
    BY <1>0, <2>1, HostAgentAssumption DEF Runs
<1>2. \A t \in Tasks : h[t].pc \in {"exec", "register"} => Starting(t)
  BY DEF Starting, TypeOK, CallOK
<1> QED
  BY <1>0, <1>1, <1>2

\* Steps that start no Start, list nothing and give no process away.
LEMMA QuietKept ==
  ASSUME TypeOK, QuietStarts, UNCHANGED <<cur, reg>>,
         \A t \in Tasks : Starting(t)' => Starting(t) /\ h'[t] = h[t],
         \A t \in Tasks : h'[t].pc \in {"exec", "register"} => h'[t] = h[t],
         \A t \in Tasks : h'[t].pc \in Listed => h[t].pc \in Listed /\ h'[t].todo = h[t].todo,
         \A t \in Tasks : h'[t].pc \in {"stopped", "new"} =>
                            h[t].pc \in {"stopped", "new"} \/ cur = 0,
         \A p \in Procs : proc'[p].st = "running" =>
                            proc[p].st = "running" /\ proc'[p].node = proc[p].node,
         \A t \in Tasks : h[t].pc \in Taken => \/ h'[t].pc \in Taken /\ h'[t].p = h[t].p
                                               \/ proc'[h[t].p].st # "running"
  PROVE  QuietStarts'
<1>1. ASSUME NEW t \in Tasks PROVE StartOK(t)'
  <2>1. StartOK(t) /\ (Starting(t) => cur # 0)
    BY StartTypes DEF QuietStarts
  <2>2. CASE Starting(t)'
    <3>1. Starting(t) /\ h'[t] = h[t]
      BY <2>2
    <3>2. \A u \in Tasks : h'[u].pc \notin Past
      BY <2>1, <3>1 DEF StartOK, Past
    <3> QED
      BY <2>1, <3>1, <3>2 DEF StartOK
  <2> QED
    BY <2>2 DEF StartOK
<1>2. ASSUME NEW t \in Tasks PROVE ListOK(t)'
  <2>1. ListOK(t)
    BY DEF QuietStarts
  <2> QED
    BY <2>1 DEF ListOK
<1>3. ASSUME NEW p \in Procs, proc'[p].st = "running" PROVE Owned(p)'
  <2>1. Owned(p) /\ proc'[p].node = proc[p].node
    BY <1>3 DEF QuietStarts
  <2> QED
    BY <1>3, <2>1 DEF Owned
<1> QED
  BY <1>1, <1>2, <1>3 DEF QuietStarts

\* Between the listing and the next Runner nothing runs.
LEMMA NoneRunning ==
  ASSUME TypeOK, QuietStarts, NEW t \in Tasks, h[t].pc \in {"stopped", "new"}
  PROVE  /\ \A p \in Procs : proc[p].st # "running"
         /\ \A u \in Tasks : ~ Starting(u)
         /\ \A u \in Tasks \ {t} : h[u].pc \notin Locked
<1>1. \A u \in Tasks : ~ Starting(u)
  BY DEF QuietStarts, StartOK, Past
<1>2. \A u \in Tasks \ {t} : h[u].pc \notin Locked
  BY DEF TypeOK, LockInv, Locked
<1>3. \A u \in Tasks : h[u].pc \notin Taken
  BY <1>1, <1>2, StartTypes DEF Taken, Locked, Listed
<1>4. ASSUME NEW p \in Procs, proc[p].st = "running" PROVE FALSE
  <2>1. cur # 0 /\ reg[cur][proc[p].node] = p
    BY <1>3, <1>4 DEF QuietStarts, Owned
  <2>2. proc[p].node \in Nodes
    BY <1>4 DEF TypeOK, ProcessOK
  <2>3. ListOK(t)
    BY DEF QuietStarts
  <2> QED
    BY <2>1, <2>2, <2>3 DEF ListOK, Procs
<1> QED
  BY <1>1, <1>2, <1>4

LEMMA QuietTerminate ==
  ASSUME TypeOK, ProcInv, QuietStarts, NEW t \in Tasks, Terminate(t)
  PROVE  QuietStarts'
<1>0. /\ h \in [Tasks -> Call] /\ reg \in [Runs -> [Nodes -> 0..MaxProcs]]
      /\ UNCHANGED <<cur, proc>> /\ h[t].pc = "terminate" /\ h[t].todo \subseteq Nodes
  BY DEF TypeOK, AgentTypeOK, Terminate, At, Call
<1>1. PICK n \in h[t].todo :
        /\ Keeps(t) /\ h'[t].pc = "signal" /\ h'[t].p = reg[cur][n] /\ h'[t].todo = h[t].todo \ {n}
        /\ reg' = [reg EXCEPT ![cur][n] = 0]
  BY <1>0, TerminateFacts
<1>2. n \in Nodes /\ cur \in Runs
  <2>1. CallOK(t) /\ cur \in 0..MaxRuns
    BY DEF TypeOK, AgentTypeOK
  <2> QED
    BY <1>0, <1>1, <2>1 DEF CallOK, Locked, Listed, Runs
<1>3. \A m \in Nodes : reg'[cur][m] = IF m = n THEN 0 ELSE reg[cur][m]
  BY <1>0, <1>1, <1>2
<1>4. \A u \in Tasks \ {t} : h'[u] = h[u] /\ h[u].pc \notin Locked
  <2>1. mu = t
    BY <1>0 DEF TypeOK, LockInv, Locked, Listed
  <2> QED
    BY <1>1, <2>1 DEF Keeps, TypeOK, LockInv
<1>5. \A u \in Tasks : ~ Starting(u) /\ ~ Starting(u)'
  <2>1. \A u \in Tasks : ~ Starting(u)
    BY <1>0 DEF QuietStarts, StartOK, Past, Listed
  <2> QED
    BY <1>1, <1>4, <2>1 DEF Starting
<1>6. \A u \in Tasks : StartOK(u)'
  BY <1>5 DEF StartOK
<1>7. ASSUME NEW u \in Tasks PROVE ListOK(u)'
  <2>1. ListOK(u)
    BY DEF QuietStarts
  <2>2. CASE u = t
    BY <1>0, <1>1, <1>3, <2>1, <2>2 DEF ListOK, Listed
  <2>3. CASE u # t
    BY <1>4, <2>3 DEF ListOK, Locked, Listed
  <2> QED
    BY <2>2, <2>3
<1>8. ASSUME NEW p \in Procs, proc'[p].st = "running" PROVE Owned(p)'
  <2>1. Owned(p) /\ proc[p].node \in Nodes
    BY <1>0, <1>8 DEF QuietStarts, TypeOK, ProcessOK
  <2>2. CASE cur # 0 /\ reg[cur][proc[p].node] = p
    BY <1>0, <1>1, <1>3, <2>1, <2>2 DEF Owned, Taken
  <2>3. CASE \E u \in Tasks : h[u].pc \in Taken /\ h[u].p = p
    BY <1>0, <1>4, <2>3 DEF Owned, Taken
  <2> QED
    BY <2>1, <2>2, <2>3 DEF Owned
<1> QED
  BY <1>6, <1>7, <1>8 DEF QuietStarts

LEMMA QuietExec ==
  ASSUME TypeOK, ProcInv, QuietStarts, NEW t \in Tasks, Exec(t), ~ Answer(t, FALSE)
  PROVE  QuietStarts'
<1>0. /\ h \in [Tasks -> Call] /\ proc \in [Procs -> Process]
      /\ UNCHANGED <<cur, reg>> /\ h[t].pc = "exec"
  BY DEF TypeOK, AgentTypeOK, Exec, At
<1>1. PICK p \in Procs :
        /\ Keeps(t) /\ h'[t].pc = "register" /\ h'[t].r = h[t].r /\ h'[t].p = p
        /\ proc' = [proc EXCEPT ![p] = NewProc(t)]
  BY <1>0, ExecFacts
<1>2. \A u \in Tasks \ {t} : h'[u] = h[u]
  BY <1>1 DEF Keeps
<1>3. h'[t].node = h[t].node /\ h'[t].op = h[t].op /\ Starting(t)
  BY <1>0, <1>1, StartTypes DEF Keeps
<1>4. \A u \in Tasks : /\ Starting(u)' => Starting(u)
                       /\ h'[u].pc \in Past => h[u].pc \in Past
                       /\ h'[u].pc \in {"exec", "register"} =>
                            h[u].pc \in {"exec", "register"} /\ h'[u].node = h[u].node
                       /\ h'[u].r = h[u].r
  BY <1>0, <1>1, <1>2, <1>3 DEF Starting, Past, Listed
<1>5. ASSUME NEW u \in Tasks PROVE StartOK(u)' /\ ListOK(u)'
  <2>1. StartOK(u) /\ ListOK(u)
    BY DEF QuietStarts
  <2>2. StartOK(u)'
    BY <1>0, <1>4, <2>1 DEF StartOK
  <2>3. ListOK(u)'
    BY <1>0, <1>1, <1>2, <2>1 DEF ListOK, Listed
  <2> QED
    BY <2>2, <2>3
<1>6. ASSUME NEW q \in Procs, proc'[q].st = "running" PROVE Owned(q)'
  <2>1. CASE q = p
    BY <1>1, <2>1 DEF Owned, Taken
  <2>2. CASE q # p
    <3>1. proc'[q] = proc[q]
      BY <1>0, <1>1, <2>2
    <3>2. Owned(q)
      BY <1>6, <3>1 DEF QuietStarts
    <3>3. \A u \in Tasks : h[u].pc \in Taken => h'[u] = h[u]
      BY <1>0, <1>2 DEF Taken
    <3> QED
      BY <1>0, <3>1, <3>2, <3>3 DEF Owned
  <2> QED
    BY <2>1, <2>2
<1> QED
  BY <1>5, <1>6 DEF QuietStarts

LEMMA QuietRegister ==
  ASSUME TypeOK, ProcInv, QuietStarts, NEW t \in Tasks, Register(t)
  PROVE  QuietStarts'
<1>0. /\ h \in [Tasks -> Call] /\ reg \in [Runs -> [Nodes -> 0..MaxProcs]]
      /\ UNCHANGED <<cur, proc>> /\ h[t].pc = "register"
      /\ reg' = [reg EXCEPT ![h[t].r][h[t].node] = h[t].p]
  BY DEF TypeOK, AgentTypeOK, Register, At
<1>1. h'[t].pc = "done" /\ \A u \in Tasks \ {t} : h'[u] = h[u]
  BY <1>0, AnswerFacts DEF Register
<1>2. /\ Starting(t) /\ h[t].r = cur /\ cur \in Runs /\ cur # 0 /\ h[t].node \in Nodes
      /\ reg[cur][h[t].node] = 0
      /\ \A u \in Tasks : h[u].pc \notin Past
      /\ \A u \in Tasks \ {t} : h[u].pc \in {"exec", "register"} => h[u].node # h[t].node
  BY <1>0, StartTypes DEF QuietStarts, StartOK
<1>3. \A m \in Nodes : reg'[cur][m] = IF m = h[t].node THEN h[t].p ELSE reg[cur][m]
  BY <1>0, <1>2
<1>4. ASSUME NEW u \in Tasks PROVE StartOK(u)'
  <2>1. CASE u = t
    BY <1>1, <2>1 DEF StartOK, Starting
  <2>2. CASE u # t /\ Starting(u)
    <3>1. StartOK(u) /\ h'[u] = h[u] /\ h[u].node \in Nodes
      BY <1>1, <2>2, StartTypes DEF QuietStarts
    <3>2. \A v \in Tasks : h'[v].pc \in Past \cup {"exec", "register"} => h'[v] = h[v]
      BY <1>1 DEF Past, Listed
    <3>3. h[u].pc \in {"exec", "register"} => reg'[cur][h[u].node] = 0
      BY <1>2, <1>3, <2>2, <3>1 DEF StartOK
    <3> QED
      BY <1>0, <2>2, <3>1, <3>2, <3>3 DEF StartOK
  <2>3. CASE u # t /\ ~ Starting(u)
    BY <1>1, <2>3 DEF StartOK, Starting
  <2> QED
    BY <2>1, <2>2, <2>3
<1>5. ASSUME NEW u \in Tasks PROVE ListOK(u)'
  BY <1>1, <1>2 DEF ListOK, Past, Listed
<1>6. ASSUME NEW p \in Procs, proc'[p].st = "running" PROVE Owned(p)'
  <2>1. Owned(p) /\ proc[p].node \in Nodes
    BY <1>0, <1>6 DEF QuietStarts, TypeOK, ProcessOK
  <2>2. CASE p = h[t].p
    <3>1. proc[p].node = h[t].node
      BY <1>0, <2>2 DEF ProcInv, LaunchOK, Launching
    <3> QED
      BY <1>0, <1>2, <1>3, <2>1, <2>2, <3>1 DEF Owned
  <2>3. CASE p # h[t].p
    <3>1. CASE cur # 0 /\ reg[cur][proc[p].node] = p
      <4>1. proc[p].node # h[t].node
        BY <1>2, <3>1 DEF Procs
      <4> QED
        BY <1>0, <1>3, <2>1, <3>1, <4>1 DEF Owned
    <3>2. CASE \E u \in Tasks : h[u].pc \in Taken /\ h[u].p = p
      BY <1>0, <1>1, <2>3, <3>2 DEF Owned
    <3> QED
      BY <2>1, <3>1, <3>2 DEF Owned
  <2> QED
    BY <2>2, <2>3
<1> QED
  BY <1>4, <1>5, <1>6 DEF QuietStarts

LEMMA QuietPlain ==
  ASSUME TypeOK, QuietStarts, NEW t \in Tasks, UNCHANGED <<cur, reg>>,
         \A u \in Tasks \ {t} : h'[u] = h[u],
         h[t].pc \notin Taken, h'[t].pc \notin {"check", "exec", "register"} \cup Listed,
         h'[t].pc \in {"stopped", "new"} => h[t].pc \in {"stopped", "new"} \/ cur = 0,
         \A p \in Procs : proc'[p].st = "running" =>
                            proc[p].st = "running" /\ proc'[p].node = proc[p].node
  PROVE  QuietStarts'
<1>1. /\ \A u \in Tasks : Starting(u)' => Starting(u) /\ h'[u] = h[u]
      /\ \A u \in Tasks : h'[u].pc \in {"exec", "register"} => h'[u] = h[u]
      /\ \A u \in Tasks : h'[u].pc \in Listed => h[u].pc \in Listed /\ h'[u].todo = h[u].todo
      /\ \A u \in Tasks : h'[u].pc \in {"stopped", "new"} => h[u].pc \in {"stopped", "new"} \/ cur = 0
      /\ \A u \in Tasks : h[u].pc \in Taken => h'[u].pc \in Taken /\ h'[u].p = h[u].p
  BY DEF Starting
<1> QED
  BY <1>1, QuietKept

LEMMA QuietGetRunner ==
  ASSUME TypeOK, QuietStarts, NEW t \in Tasks, GetRunner(t)
  PROVE  QuietStarts'
<1>0. /\ h \in [Tasks -> Call] /\ UNCHANGED <<cur, reg, proc>> /\ h[t].pc = "recv"
      /\ mu = NoTask /\ \A u \in Tasks \ {t} : h'[u] = h[u]
      /\ h[t].op \in {"start", "kill", "sample"}
  BY HandlerCall DEF TypeOK, AgentTypeOK, GetRunner, At, HandlerStep
<1>1. CASE Answer(t, FALSE)
  BY <1>0, <1>1, AnswerFacts, QuietPlain DEF Listed, Taken
<1>2. CASE ~ Answer(t, FALSE)
  <2>0. cur # 0
    BY <1>2 DEF GetRunner
  <2>1. /\ Keeps(t) /\ h'[t].r = cur
        /\ h[t].op = "start" => h'[t].pc = "check"
        /\ h[t].op = "kill" => h'[t].pc = "node"
        /\ h[t].op = "sample" => h'[t].pc = "ask"
    BY <1>0, <2>0, GetRunnerFacts
  <2>2. CASE h[t].op # "start"
    BY <1>0, <2>1, <2>2, QuietPlain DEF Listed, Taken
  <2>3. CASE h[t].op = "start"
    <3>1. \A u \in Tasks : h[u].pc \notin Locked
      BY <1>0, TaskFacts DEF TypeOK, LockInv
    <3>2. \A u \in Tasks : h'[u].pc \notin Past
      BY <1>0, <2>1, <2>3, <3>1 DEF Past, Locked, Listed
    <3>3. ASSUME NEW u \in Tasks PROVE StartOK(u)'
      <4>1. CASE u = t
        BY <1>0, <2>1, <2>3, <3>2, <4>1 DEF StartOK
      <4>2. CASE u # t
        <5>1. StartOK(u) /\ h'[u] = h[u]
          BY <1>0, <4>2 DEF QuietStarts
        <5>2. \A v \in Tasks : h'[v].pc \in {"exec", "register"} => h'[v] = h[v]
          BY <1>0, <2>1, <2>3
        <5> QED
          BY <1>0, <3>2, <5>1, <5>2 DEF StartOK, Starting
      <4> QED
        BY <4>1, <4>2
    <3>4. \A u \in Tasks : ListOK(u)'
      BY <3>2 DEF ListOK, Past
    <3>5. ASSUME NEW p \in Procs, proc'[p].st = "running" PROVE Owned(p)'
      <4>1. Owned(p)
        BY <1>0, <3>5 DEF QuietStarts
      <4>2. \A v \in Tasks : h[v].pc \in Taken => h'[v] = h[v]
        BY <1>0 DEF Taken
      <4> QED
        BY <1>0, <4>1, <4>2 DEF Owned
    <3> QED
      BY <3>3, <3>4, <3>5 DEF QuietStarts
  <2> QED
    BY <2>2, <2>3
<1> QED
  BY <1>1, <1>2

\* The two steps that see a race.
LEMMA QuietStopAll ==
  ASSUME TypeOK, QuietStarts, NEW t \in Tasks, StopAll(t), ~ raced'
  PROVE  QuietStarts'
<1>0. /\ h \in [Tasks -> Call] /\ UNCHANGED <<cur, reg, proc>> /\ h[t].pc = "stopAll"
      /\ h'[t].pc = "terminate" /\ h'[t].todo = {n \in Nodes : reg[cur][n] # 0}
      /\ \A u \in Tasks \ {t} : h'[u] = h[u]
  BY StopAllFacts DEF TypeOK, AgentTypeOK, StopAll, At, Keeps
<1>1. \A u \in Tasks : ~ Starting(u)
  BY DEF StopAll
<1>2. \A u \in Tasks : ~ Starting(u)'
  BY <1>0, <1>1 DEF Starting
<1>3. \A u \in Tasks \ {t} : h'[u].pc \notin Locked
  BY <1>0 DEF TypeOK, LockInv, Locked
<1>4. \A u \in Tasks : StartOK(u)' /\ ListOK(u)'
  BY <1>0, <1>2, <1>3 DEF StartOK, ListOK, Locked, Listed
<1>5. ASSUME NEW p \in Procs, proc'[p].st = "running" PROVE Owned(p)'
  <2>1. Owned(p)
    BY <1>0, <1>5 DEF QuietStarts
  <2>2. \A v \in Tasks : h[v].pc \in Taken => h'[v] = h[v]
    BY <1>0 DEF Taken
  <2> QED
    BY <1>0, <2>1, <2>2 DEF Owned
<1> QED
  BY <1>4, <1>5 DEF QuietStarts

LEMMA QuietCheck ==
  ASSUME TypeOK, QuietStarts, NEW t \in Tasks, Check(t), ~ raced'
  PROVE  QuietStarts'
<1>0. /\ h \in [Tasks -> Call] /\ UNCHANGED <<cur, reg, proc>> /\ h[t].pc = "check" /\ CallOK(t)
      /\ Goto(t, IF reg[h[t].r][h[t].node] # 0 THEN "node" ELSE "exec")
      /\ reg[h[t].r][h[t].node] = 0 =>
           \A u \in Tasks \ {t} : h[u].pc \in {"exec", "register"} => h[u].node # h[t].node
  <2>1. /\ h \in [Tasks -> Call] /\ UNCHANGED <<cur, reg, proc>> /\ h[t].pc = "check" /\ CallOK(t)
        /\ Goto(t, IF reg[h[t].r][h[t].node] # 0 THEN "node" ELSE "exec")
    BY DEF TypeOK, AgentTypeOK, Check, At
  <2>2. ASSUME reg[h[t].r][h[t].node] = 0, NEW u \in Tasks \ {t}, h[u].pc \in {"exec", "register"},
               h[u].node = h[t].node
        PROVE  FALSE
    <3>1. raced' = TRUE
      BY <2>2, Zenon DEF Check, BetweenSections
    <3> QED
      BY <3>1
  <2> QED
    BY <2>1, <2>2
<1>1. /\ h'[t].pc = IF reg[h[t].r][h[t].node] # 0 THEN "node" ELSE "exec"
      /\ \A u \in Tasks \ {t} : h'[u] = h[u]
      /\ h'[t].r = h[t].r /\ h'[t].node = h[t].node /\ h'[t].op = h[t].op
  BY <1>0, GotoFacts DEF Keeps
<1>2. CASE reg[h[t].r][h[t].node] # 0
  BY <1>0, <1>1, <1>2, QuietPlain DEF Taken, Listed
<1>3. CASE reg[h[t].r][h[t].node] = 0
  <2>0. h'[t].pc = "exec" /\ Starting(t)
    BY <1>0, <1>1, <1>3 DEF CallOK, Starting
  <2>1. \A u \in Tasks : h'[u].pc \in Past => h[u].pc \in Past
    BY <1>1, <2>0 DEF Past, Listed
  <2>2. ASSUME NEW u \in Tasks PROVE StartOK(u)'
    <3>1. StartOK(u) /\ StartOK(t)
      BY DEF QuietStarts
    <3>2. CASE u = t
      BY <1>0, <1>1, <1>3, <2>0, <2>1, <3>1, <3>2, StartTypes DEF StartOK
    <3>3. CASE u # t
      <4>1. h'[u] = h[u] /\ (Starting(u)' => Starting(u))
        BY <1>1, <3>3 DEF Starting
      <4>2. \A v \in Tasks \ {t} : h'[v] = h[v]
        BY <1>1
      <4>3. h[u].pc \in {"exec", "register"} => h'[t].node # h[u].node
        BY <1>0, <1>1, <1>3, <3>3
      <4> QED
        BY <1>0, <2>1, <3>1, <3>3, <4>1, <4>2, <4>3 DEF StartOK
    <3> QED
      BY <3>2, <3>3
  <2>3. ASSUME NEW u \in Tasks PROVE ListOK(u)'
    <3>1. ListOK(u)
      BY DEF QuietStarts
    <3> QED
      BY <1>0, <1>1, <2>0, <3>1 DEF ListOK, Listed
  <2>4. ASSUME NEW p \in Procs, proc'[p].st = "running" PROVE Owned(p)'
    <3>1. Owned(p)
      BY <1>0, <2>4 DEF QuietStarts
    <3>2. \A v \in Tasks : h[v].pc \in Taken => h'[v] = h[v]
      BY <1>0, <1>1 DEF Taken
    <3> QED
      BY <1>0, <3>1, <3>2 DEF Owned
  <2> QED
    BY <2>2, <2>3, <2>4 DEF QuietStarts
<1> QED
  BY <1>2, <1>3

LEMMA QuietAllStopped ==
  ASSUME TypeOK, QuietStarts, NEW t \in Tasks, AllStopped(t)
  PROVE  QuietStarts'
<1>0. /\ h \in [Tasks -> Call] /\ UNCHANGED <<cur, reg, proc>> /\ h[t].pc = "terminate"
      /\ h[t].todo = {} /\ Goto(t, "stopped")
  BY DEF TypeOK, AgentTypeOK, AllStopped, At
<1>1. h'[t].pc = "stopped" /\ \A u \in Tasks \ {t} : h'[u] = h[u]
  BY <1>0, GotoFacts DEF Keeps
<1>2. \A u \in Tasks : ~ Starting(u)
  BY <1>0 DEF QuietStarts, StartOK, Past, Listed
<1>3. \A u \in Tasks : ~ Starting(u)'
  BY <1>1, <1>2 DEF Starting
<1>4. \A u \in Tasks : ListOK(u) /\ ListOK(u)'
  BY <1>0, <1>1 DEF QuietStarts, ListOK, Listed
<1>5. ASSUME NEW p \in Procs, proc'[p].st = "running" PROVE Owned(p)'
  <2>1. Owned(p)
    BY <1>0, <1>5 DEF QuietStarts
  <2>2. \A v \in Tasks : h[v].pc \in Taken => h'[v] = h[v]
    BY <1>0, <1>1 DEF Taken
  <2> QED
    BY <1>0, <2>1, <2>2 DEF Owned
<1> QED
  BY <1>3, <1>4, <1>5 DEF QuietStarts, StartOK

LEMMA QuietNewRunner ==
  ASSUME TypeOK, ProcInv, QuietStarts, NEW t \in Tasks, NewRunner(t)
  PROVE  QuietStarts'
<1>0. /\ h \in [Tasks -> Call] /\ UNCHANGED <<reg, proc>> /\ h[t].pc = "new"
      /\ \E ok \in BOOLEAN : Answer(t, ok)
  BY DEF TypeOK, AgentTypeOK, NewRunner, At
<1>1. h'[t].pc = "done" /\ \A u \in Tasks \ {t} : h'[u] = h[u]
  BY <1>0, AnswerFacts
<1>2. /\ \A p \in Procs : proc[p].st # "running"
      /\ \A u \in Tasks : ~ Starting(u)
      /\ \A u \in Tasks \ {t} : h[u].pc \notin Locked
  BY <1>0, NoneRunning
<1>3. \A u \in Tasks : ~ Starting(u)'
  BY <1>1, <1>2 DEF Starting
<1>4. \A u \in Tasks : ListOK(u)'
  BY <1>1, <1>2 DEF ListOK, Locked, Listed
<1> QED
  BY <1>0, <1>2, <1>3, <1>4 DEF QuietStarts, StartOK

LEMMA RacedStays ==
  ASSUME TypeOK, NEW t \in Tasks, HandlerStep(t), ~ raced'
  PROVE  ~ raced
BY DEF HandlerStep, GetRunner, HostMetrics, Lock, StopMonitor, MonitorStopped, StopAll, Terminate,
   Sigterm, Sigkill, Reaped, AllStopped, Stop, RemoveAll, NewRunner, Check, Exec, Register, CallNode,
   Ask, Replied, TypeOK, AgentTypeOK

LEMMA QuietHandler ==
  ASSUME TypeOK, ProcInv, QuietStarts, NEW t \in Tasks, HandlerStep(t), ~ raced'
  PROVE  QuietStarts'
<1>0. /\ h \in [Tasks -> Call] /\ proc \in [Procs -> Process] /\ CallOK(t)
      /\ \A u \in Tasks \ {t} : h'[u] = h[u]
  BY HandlerCall DEF TypeOK, AgentTypeOK
<1>1. CASE \/ GetRunner(t) \/ StopAll(t) \/ Check(t) \/ AllStopped(t) \/ NewRunner(t) \/ Terminate(t)
           \/ Register(t) \/ (Exec(t) /\ ~ Answer(t, FALSE))
  BY <1>1, QuietGetRunner, QuietStopAll, QuietCheck, QuietAllStopped, QuietNewRunner, QuietTerminate,
     QuietRegister, QuietExec
<1>2. CASE Sigterm(t) \/ Reaped(t)
  <2>1. /\ h[t].pc \in {"signal", "reapWait"} /\ h'[t].pc \in {"reapWait", "terminate"}
        /\ h'[t].todo = h[t].todo /\ UNCHANGED <<cur, reg>>
    BY <1>0, <1>2, GotoFacts, ReapedFacts DEF Sigterm, Reaped, At
  <2>2. \A p \in Procs : proc'[p].st = proc[p].st /\ proc'[p].node = proc[p].node
    <3>1. CASE Sigterm(t)
      <4>1. PICK b \in BOOLEAN : proc' = [proc EXCEPT ![h[t].p].killed = b]
        BY <3>1 DEF Sigterm
      <4>2. h[t].p \in Procs
        BY <1>0, <3>1 DEF Sigterm, At, CallOK
      <4> QED
        BY <1>0, <4>1, <4>2, ProcessFields
    <3>2. CASE Reaped(t)
      BY <3>2 DEF Reaped
    <3> QED
      BY <1>2, <3>1, <3>2
  <2>3. \/ h'[t].pc \in Taken /\ h'[t].p = h[t].p
        \/ proc'[h[t].p].st # "running"
    <3>1. CASE Sigterm(t)
      BY <1>0, <3>1, GotoFacts DEF Sigterm, Taken
    <3>2. CASE Reaped(t)
      BY <3>2 DEF Reaped
    <3> QED
      BY <1>2, <3>1, <3>2
  <2>4. /\ \A u \in Tasks : Starting(u)' => Starting(u) /\ h'[u] = h[u]
        /\ \A u \in Tasks : h'[u].pc \in {"exec", "register"} => h'[u] = h[u]
        /\ \A u \in Tasks : h'[u].pc \in Listed => h[u].pc \in Listed /\ h'[u].todo = h[u].todo
        /\ \A u \in Tasks : h'[u].pc \in {"stopped", "new"} => h[u].pc \in {"stopped", "new"}
    BY <1>0, <2>1 DEF Starting, Listed
  <2>5. \A u \in Tasks : h[u].pc \in Taken => \/ h'[u].pc \in Taken /\ h'[u].p = h[u].p
                                              \/ proc'[h[u].p].st # "running"
    BY <1>0, <2>3
  <2> QED
    BY <2>1, <2>2, <2>4, <2>5, QuietKept
<1>3. CASE Sigkill(t)
  <2>1. UNCHANGED <<cur, reg, h>>
    BY <1>3 DEF Sigkill
  <2>2. ~ Register(t) /\ ~ Terminate(t) /\ ~ Sigterm(t) /\ ~ Exec(t)
    BY <1>3 DEF Sigkill, Register, Terminate, Sigterm, Exec, At
  <2>3. \A p \in Procs : proc'[p].st = "running" =>
          proc[p].st = "running" /\ proc'[p].node = proc[p].node
    BY <2>2, HandlerElse
  <2> QED
    BY <2>1, <2>3, QuietKept DEF Starting
<1>4. CASE \/ HostMetrics(t) \/ Lock(t) \/ StopMonitor(t) \/ MonitorStopped(t) \/ Stop(t)
           \/ RemoveAll(t) \/ CallNode(t) \/ Ask(t) \/ Replied(t) \/ (Exec(t) /\ Answer(t, FALSE))
  <2>0. /\ ~ Register(t) /\ ~ Terminate(t) /\ ~ Sigterm(t) /\ (Exec(t) => Answer(t, FALSE))
        /\ h[t].pc \notin Taken
    BY <1>4 DEF HostMetrics, Lock, StopMonitor, MonitorStopped, Stop, RemoveAll, CallNode, Ask,
       Replied, Exec, Register, Terminate, Sigterm, At, Taken
  <2>1. /\ UNCHANGED reg
        /\ \A p \in Procs : proc'[p].st = "running" =>
             proc[p].st = "running" /\ proc'[p].node = proc[p].node
    BY <2>0, HandlerElse
  <2>2. UNCHANGED cur
    BY <1>4 DEF HostMetrics, Lock, StopMonitor, MonitorStopped, Stop, RemoveAll, CallNode, Ask,
       Replied, Exec
  <2>3. \/ h'[t].pc \in {"done", "stopMonitor", "monitorWait", "stopAll", "await"}
        \/ h'[t].pc = "stopped" /\ cur = 0
        \/ h'[t].pc = "new" /\ h[t].pc = "stopped"
    <3>1. CASE \E ok \in BOOLEAN : Answer(t, ok)
      BY <1>0, <3>1, AnswerFacts
    <3>2. CASE ~ \E ok \in BOOLEAN : Answer(t, ok)
      BY <1>0, <1>4, <3>2, GotoFacts DEF HostMetrics, Lock, StopMonitor, MonitorStopped, Stop,
         RemoveAll, CallNode, Ask, Replied, At
    <3> QED
      BY <3>1, <3>2
  <2> QED
    BY <1>0, <2>0, <2>1, <2>2, <2>3, QuietPlain DEF Listed
<1> QED
  BY <1>1, <1>2, <1>3, <1>4 DEF HandlerStep

LEMMA FilesHandler ==
  ASSUME TypeOK, ProcInv, QuietStarts, QuietFiles, NEW t \in Tasks, HandlerStep(t)
  PROVE  QuietFiles'
<1>0. /\ h \in [Tasks -> Call] /\ proc \in [Procs -> Process] /\ CallOK(t)
      /\ \A u \in Tasks \ {t} : h'[u] = h[u]
  BY HandlerCall DEF TypeOK, AgentTypeOK
<1>1. CASE RemoveAll(t)
  <2>1. /\ asg' = 0 /\ traces' = [n \in Nodes |-> 0] /\ UNCHANGED proc /\ h[t].pc = "stopped"
    BY <1>1 DEF RemoveAll, At
  <2>2. \A p \in Procs : proc[p].st # "running"
    BY <2>1, NoneRunning
  <2> QED
    BY <2>1, <2>2 DEF QuietFiles
<1>2. CASE NewRunner(t)
  <2>1. UNCHANGED <<proc, traces>> /\ h[t].pc = "new" /\ \E ok \in BOOLEAN : Answer(t, ok)
    BY <1>2 DEF NewRunner, At
  <2>2. /\ \A p \in Procs : proc[p].st # "running"
        /\ \A u \in Tasks \ {t} : h[u].pc \notin Locked
    BY <2>1, NoneRunning
  <2>3. \A u \in Tasks : h'[u].pc # "new"
    BY <1>0, <2>1, <2>2, AnswerFacts DEF Locked
  <2>4. \A n \in Nodes : traces[n] = 0
    BY <2>1 DEF QuietFiles
  <2> QED
    BY <2>1, <2>2, <2>3, <2>4 DEF QuietFiles
<1>3. CASE Exec(t) /\ ~ Answer(t, FALSE)
  <2>1. PICK p \in Procs : h'[t].pc = "register" /\ proc' = [proc EXCEPT ![p] = NewProc(t)]
    BY <1>0, <1>3, ExecFacts
  <2>2. UNCHANGED <<asg, traces>>
    BY <1>3 DEF Exec
  <2>3. \A q \in Procs : proc'[q].st = "running" => proc'[q].run = asg
    BY <1>0, <2>1, NewProcFacts DEF QuietFiles
  <2>4. \A u \in Tasks : h'[u].pc = "new" => h[u].pc = "new"
    BY <1>0, <2>1
  <2> QED
    BY <2>2, <2>3, <2>4 DEF QuietFiles
<1>4. CASE ~ (RemoveAll(t) \/ NewRunner(t) \/ (Exec(t) /\ ~ Answer(t, FALSE)))
  <2>1. UNCHANGED <<asg, traces>>
    BY <1>4 DEF HandlerStep, GetRunner, HostMetrics, Lock, StopMonitor, MonitorStopped, StopAll,
       Terminate, Sigterm, Sigkill, Reaped, AllStopped, Stop, Check, Exec, Register, CallNode, Ask,
       Replied
  <2>2. \A p \in Procs : proc'[p].st = "running" => proc[p].st = "running" /\ proc'[p].run = proc[p].run
    <3>1. CASE Register(t) \/ Terminate(t)
      BY <3>1 DEF Register, Terminate
    <3>2. CASE Sigterm(t)
      <4>1. PICK b \in BOOLEAN : proc' = [proc EXCEPT ![h[t].p].killed = b]
        BY <3>2 DEF Sigterm
      <4>2. h[t].p \in Procs
        BY <1>0, <3>2 DEF Sigterm, At, CallOK
      <4> QED
        BY <1>0, <4>1, <4>2, ProcessFields
    <3>3. CASE ~ (Register(t) \/ Terminate(t) \/ Sigterm(t))
      BY <1>4, <3>3, HandlerElse
    <3> QED
      BY <3>1, <3>2, <3>3
  <2>3. h'[t].pc # "new"
    <3>1. CASE \E ok \in BOOLEAN : Answer(t, ok)
      BY <1>0, <3>1, AnswerFacts
    <3>2. CASE GetRunner(t) /\ ~ Answer(t, FALSE)
      BY <1>0, <3>2, GetRunnerFacts DEF GetRunner
    <3>3. CASE StopAll(t) \/ Terminate(t) \/ Reaped(t)
      BY <1>0, <3>3, StopAllFacts, TerminateFacts, ReapedFacts
    <3>4. CASE Sigkill(t)
      BY <3>4 DEF Sigkill, At
    <3>5. CASE Lock(t) \/ StopMonitor(t) \/ MonitorStopped(t) \/ Sigterm(t) \/ AllStopped(t) \/ Check(t)
      BY <1>0, <3>5, GotoFacts DEF Lock, StopMonitor, MonitorStopped, Sigterm, AllStopped, Check
    <3>6. CASE Ask(t) /\ ~ Answer(t, FALSE)
      <4>1. Goto(t, "await")
        BY <3>6 DEF Ask
      <4> QED
        BY <1>0, <4>1, GotoFacts
    <3> QED
      BY <1>4, <3>1, <3>2, <3>3, <3>4, <3>5, <3>6 DEF HandlerStep, HostMetrics, Stop, Register, CallNode,
         Replied
  <2> QED
    BY <1>0, <2>1, <2>2, <2>3 DEF QuietFiles
<1> QED
  BY <1>1, <1>2, <1>3, <1>4

LEMMA QuietHand ==
  ASSUME TypeOK, QuietStarts, QuietFiles, NEW t \in Tasks \ Late, NEW u \in Late, NEW left \in Call,
         HandOf(t, u, left)
  PROVE  QuietStarts' /\ QuietFiles'
<1>0. /\ u \in Tasks /\ u # t /\ h'[u] = h[t] /\ h'[t] = left /\ h[u].pc = "idle"
      /\ \A v \in Tasks \ {t, u} : h'[v] = h[v]
      /\ UNCHANGED <<cur, reg, proc, asg, traces>>
      /\ left.pc \in {"idle", "done"}
  BY HandFacts DEF HandOf
<1> DEFINE from(v) == IF v = u THEN t ELSE v
<1>1. \A v \in Tasks : /\ from(v) \in Tasks
                       /\ h'[v].pc \notin {"idle", "done"} => v # t /\ h'[v] = h[from(v)]
  BY <1>0
<1>2. \A v, w \in Tasks : v # t /\ w # t /\ from(v) = from(w) => v = w
  OBVIOUS
<1>3. \A v \in Tasks : h[v].pc \notin {"idle", "done"} => \E w \in Tasks : h'[w] = h[v]
  BY <1>0
<1> HIDE DEF from
<1>4. ASSUME NEW v \in Tasks PROVE StartOK(v)'
  <2>1. CASE Starting(v)'
    <3>1. v # t /\ h'[v] = h[from(v)] /\ from(v) \in Tasks
      BY <1>1, <2>1 DEF Starting
    <3>2. Starting(from(v)) /\ StartOK(from(v))
      BY <2>1, <3>1 DEF Starting, QuietStarts
    <3>3. \A w \in Tasks : h'[w].pc \notin Past
      BY <1>1, <3>2 DEF StartOK, Past, Listed
    <3>4. ASSUME NEW w \in Tasks \ {v}, h'[w].pc \in {"exec", "register"}, h'[v].pc \in {"exec", "register"}
          PROVE  h'[w].node # h'[v].node
      <4>1. w # t /\ h'[w] = h[from(w)] /\ from(w) \in Tasks
        BY <1>1, <3>4
      <4>2. from(w) # from(v)
        BY <1>2, <3>1, <4>1
      <4> QED
        BY <3>1, <3>2, <3>4, <4>1, <4>2 DEF StartOK
    <3> QED
      BY <1>0, <3>1, <3>2, <3>3, <3>4 DEF StartOK
  <2> QED
    BY <2>1 DEF StartOK
<1>5. ASSUME NEW v \in Tasks PROVE ListOK(v)'
  <2>1. ListOK(from(v))
    BY <1>1 DEF QuietStarts
  <2> QED
    BY <1>0, <1>1, <2>1 DEF ListOK, Listed
<1>6. ASSUME NEW p \in Procs, proc'[p].st = "running" PROVE Owned(p)'
  <2>1. Owned(p)
    BY <1>0, <1>6 DEF QuietStarts
  <2> QED
    BY <1>0, <1>3, <2>1 DEF Owned, Taken
<1>7. QuietFiles'
  BY <1>0, <1>1 DEF QuietFiles
<1> QED
  BY <1>4, <1>5, <1>6, <1>7 DEF QuietStarts

LEMMA QuietStep ==
  ASSUME TypeOK, ProcInv, ~ raced => QuietStarts /\ QuietFiles, [Next]_vars, ~ raced'
  PROVE  ~ raced /\ QuietStarts' /\ QuietFiles'
<1>1. CASE HandlerKind
  BY <1>1, RacedStays, QuietHandler, FilesHandler DEF HandlerKind
<1>2. ASSUME UNCHANGED <<cur, reg, raced, asg, traces>>,
             \A t \in Tasks : h'[t].pc \notin {"idle", "recv", "done"} => h'[t] = h[t],
             \A t \in Tasks : h[t].pc \notin {"idle", "recv", "done"} => h'[t] = h[t],
             \A p \in Procs : proc'[p].st = "running" =>
                                /\ proc[p].st = "running" /\ proc'[p].node = proc[p].node
                                /\ proc'[p].run = proc[p].run
      PROVE  ~ raced /\ QuietStarts' /\ QuietFiles'
  <2>0. ~ raced /\ QuietStarts /\ QuietFiles
    BY <1>2
  <2>1. QuietFiles'
    BY <1>2, <2>0 DEF QuietFiles
  <2>2. /\ \A t \in Tasks : Starting(t)' => Starting(t) /\ h'[t] = h[t]
        /\ \A t \in Tasks : h'[t].pc \in {"exec", "register"} => h'[t] = h[t]
        /\ \A t \in Tasks : h'[t].pc \in Listed => h[t].pc \in Listed /\ h'[t].todo = h[t].todo
        /\ \A t \in Tasks : h'[t].pc \in {"stopped", "new"} => h[t].pc \in {"stopped", "new"}
        /\ \A t \in Tasks : h[t].pc \in Taken => h'[t].pc \in Taken /\ h'[t].p = h[t].p
    BY <1>2 DEF Starting, Listed, Taken
  <2>3. QuietStarts'
    BY <1>2, <2>0, <2>2, QuietKept
  <2> QED
    BY <2>0, <2>1, <2>3
<1>3. CASE MonitorKind \/ AloneKind \/ NextRun \/ UNCHANGED vars
  <2>1. UNCHANGED <<cur, reg, raced, asg, traces, h, proc>>
    BY <1>3 DEF MonitorKind, PeriodicSample, RequestedSample, MonitorEnds, AloneKind, NextRun, vars,
       agentVars
  <2> QED
    BY <1>2, <2>1
<1>4. ASSUME NEW t \in Tasks, NEW c \in Call, TurnOf(t, c)
      PROVE  ~ raced /\ QuietStarts' /\ QuietFiles'
  <2>1. /\ h' = [h EXCEPT ![t] = c] /\ UNCHANGED <<cur, reg, proc, raced, asg, traces>>
        /\ c.pc \in {"idle", "recv", "done"} /\ h[t].pc \in {"idle", "recv", "done"}
        /\ h \in [Tasks -> Call]
    BY <1>4 DEF TurnOf, Turn, agentElse, TypeOK, AgentTypeOK
  <2>2. h'[t] = c /\ \A u \in Tasks \ {t} : h'[u] = h[u]
    BY <2>1
  <2> QED
    BY <1>2, <2>1, <2>2
<1>5. ASSUME NEW p \in Procs, Ends(p)
      PROVE  ~ raced /\ QuietStarts' /\ QuietFiles'
  <2>1. /\ UNCHANGED <<cur, h, reg, asg, raced>>
        /\ \A q \in Procs : /\ proc'[q].node = proc[q].node /\ proc'[q].run = proc[q].run
                            /\ proc'[q].st = "running" => proc[q].st = "running"
    BY <1>5, EndsFacts
  <2>2. ~ raced /\ QuietStarts /\ QuietFiles
    BY <2>1
  <2>3. \A n \in Nodes : traces'[n] \in {0, asg}
    <3>1. CASE UNCHANGED traces
      BY <2>2, <3>1 DEF QuietFiles
    <3>2. CASE ~ UNCHANGED traces
      <4>1. /\ traces' = [traces EXCEPT ![proc[p].node] = proc[p].run]
            /\ proc[p].st = "running"
        BY <1>5, <3>2 DEF Ends, NodeFinishes, NodeDies, Reap
      <4>2. proc[p].run = asg /\ traces \in [Nodes -> 0..MaxRuns]
        BY <2>2, <4>1 DEF QuietFiles, TypeOK, AgentTypeOK
      <4> QED
        BY <2>2, <4>1, <4>2 DEF QuietFiles
    <3> QED
      BY <3>1, <3>2
  <2>4. QuietFiles'
    BY <2>1, <2>2, <2>3 DEF QuietFiles
  <2>5. QuietStarts'
    BY <2>1, <2>2, QuietKept DEF Starting
  <2> QED
    BY <2>2, <2>4, <2>5
<1>6. ASSUME NEW t \in Tasks \ Late, NEW u \in Late, NEW left \in Call, HandOf(t, u, left)
      PROVE  ~ raced /\ QuietStarts' /\ QuietFiles'
  BY <1>6, QuietHand DEF HandOf, Hand
<1> QED
  BY <1>1, <1>3, <1>4, <1>5, <1>6, StepKinds DEF EndsKind

-----------------------------------------------------------------------------
(* The traces of a run *)

LEMMA PrepareStep ==
  ASSUME TypeOK, FetchInv, PrepareOnce, [Next]_vars
  PROVE  PrepareOnce'
<1>0. ASSUME NEW v \in Tasks PROVE PrepareOK(v)
  BY DEF PrepareOnce
<1>1. ASSUME NEW t \in Tasks, HandlerStep(t), UNCHANGED driveVars
      PROVE  PrepareOnce'
  <2>1. /\ UNCHANGED <<run, cpc, file>> /\ Served(t)
        /\ \A v \in Tasks : Preparing(v)' => Preparing(v) /\ h'[v].run = h[v].run
        /\ \A v \in Tasks \ {t} : h'[v] = h[v]
    BY <1>1, HandlerCall DEF driveVars, Preparing, Served
  <2>2. ASSUME NEW v \in Tasks, Preparing(v)', h'[v].run = run
        PROVE  cpc = "preparing" => v = Main \/ (h'[Main].pc = "done" /\ ~ h'[Main].ok)
    <3>1. PrepareOK(v) /\ Preparing(v) /\ h[v].run = run
      BY <1>0, <2>1, <2>2
    <3>2. t = Main => h[Main].pc # "done"
      BY <2>1 DEF Served
    <3> QED
      BY <2>1, <3>1, <3>2, TaskFacts DEF PrepareOK
  <2> SUFFICES ASSUME NEW v \in Tasks PROVE PrepareOK(v)'
    BY DEF PrepareOnce
  <2> QED
    BY <1>0, <2>1, <2>2 DEF PrepareOK
<1>2. ASSUME UNCHANGED <<h, run, cpc, file>>
      PROVE  PrepareOnce'
  BY <1>2 DEF PrepareOnce, PrepareOK, Preparing, Served
<1>3. CASE MonitorKind \/ UNCHANGED vars
  BY <1>2, <1>3 DEF MonitorKind, PeriodicSample, RequestedSample, MonitorEnds, vars, agentVars, driveVars
<1>4. CASE EndsKind
  <2>1. UNCHANGED <<h, run, cpc, file>>
    BY <1>4, EndsFacts DEF EndsKind, driveVars
  <2> QED
    BY <1>2, <2>1
<1>5. CASE AloneKind
  BY <1>5 DEF AloneKind, PrepareOnce, PrepareOK, Preparing, Served, agentVars
<1>6. CASE NextRun
  <2>1. UNCHANGED h /\ run' = run + 1 /\ run \in Nat
    BY <1>6 DEF NextRun, agentVars, TypeOK, DriveTypeOK, Runs
  <2>2. ASSUME NEW v \in Tasks, Preparing(v)' PROVE h'[v].run # run'
    <3>1. h[v].run \in 1..run
      BY <2>1, <2>2 DEF Preparing, Served, TypeOK, CallOK
    <3> QED
      BY <2>1, <3>1
  <2> QED
    BY <2>2 DEF PrepareOnce, PrepareOK
<1>7. ASSUME NEW t \in Tasks, NEW c \in Call, TurnOf(t, c)
      PROVE  PrepareOnce'
  <2>1. /\ h' = [h EXCEPT ![t] = c] /\ UNCHANGED <<run, file>> /\ h \in [Tasks -> Call]
        /\ c.pc \in {"idle", "recv", "done"}
    BY <1>7 DEF TurnOf, Turn, TypeOK, AgentTypeOK
  <2>2. h'[t] = c /\ \A v \in Tasks \ {t} : h'[v] = h[v]
    BY <2>1
  <2>3. CASE c.pc = "recv" /\ c.op = "prepare"
    <3>1. t = Main /\ cpc = "prepare" /\ cpc' = "preparing" /\ \A n \in Nodes : file[n] = 0
      BY <1>7, <2>3 DEF TurnOf, FetchInv
    <3>2. \A v \in Tasks : ~ (Preparing(v) /\ h[v].run = run)
      BY <1>0, <3>1 DEF PrepareOK
    <3>3. \A v \in Tasks \ {t} : ~ (Preparing(v)' /\ h'[v].run = run)
      BY <2>2, <3>2 DEF Preparing, Served
    <3> QED
      BY <2>1, <3>1, <3>3 DEF PrepareOnce, PrepareOK
  <2>4. CASE ~ (c.pc = "recv" /\ c.op = "prepare")
    <3>1. \A v \in Tasks : Preparing(v)' => v # t /\ Preparing(v) /\ h'[v] = h[v]
      BY <2>1, <2>2, <2>4 DEF Preparing, Served
    <3>2. ASSUME NEW v \in Tasks, Preparing(v)', h'[v].run = run
          PROVE  PrepareOK(v)'
      <4>1. PrepareOK(v) /\ v # t /\ Preparing(v) /\ h[v].run = run
        BY <1>0, <3>1, <3>2
      <4>2. CASE cpc = "over"
        BY <1>7, <2>1, <3>1, <4>1, <4>2 DEF TurnOf, PrepareOK
      <4>3. CASE cpc = "preparing"
        <5>1. v = Main \/ (h[Main].pc = "done" /\ ~ h[Main].ok)
          BY <4>1, <4>3 DEF PrepareOK
        <5>2. cpc' = "over" \/ (cpc' = cpc /\ (t = Main => c.pc = "done" /\ ~ c.ok))
          BY <1>7, <4>1, <4>3, <5>1 DEF TurnOf
        <5>3. cpc' = "preparing" => v = Main \/ (h'[Main].pc = "done" /\ ~ h'[Main].ok)
          BY <2>2, <4>3, <5>1, <5>2, TaskFacts
        <5> QED
          BY <2>1, <3>1, <4>1, <4>3, <5>2, <5>3 DEF PrepareOK
      <4> QED
        BY <4>1, <4>2, <4>3 DEF PrepareOK
    <3> QED
      BY <2>1, <3>2 DEF PrepareOnce, PrepareOK
  <2> QED
    BY <2>3, <2>4
<1>8. ASSUME NEW t \in Tasks \ Late, NEW u \in Late, NEW left \in Call, HandOf(t, u, left)
      PROVE  PrepareOnce'
  <2>0. /\ u \in Tasks /\ u # t /\ h'[u] = h[t] /\ h'[t] = left /\ h[u].pc = "idle"
        /\ \A v \in Tasks \ {t, u} : h'[v] = h[v]
        /\ left.pc \in {"idle", "done"} /\ UNCHANGED <<run, cpc, file>>
    BY <1>8, HandFacts DEF HandOf, driveVars
  <2>1. t = Main => h'[Main].pc = "done" /\ ~ h'[Main].ok
    BY <1>8, <2>0 DEF HandOf
  <2>2. t # Main => h'[Main] = h[Main]
    BY <2>0, TaskFacts
  <2>3. \A v \in Tasks : Preparing(v)' =>
          v # t /\ \E w \in Tasks : Preparing(w) /\ h'[v] = h[w] /\ w = (IF v = u THEN t ELSE v)
    BY <2>0 DEF Preparing, Served
  <2>4. ASSUME NEW v \in Tasks, Preparing(v)', h'[v].run = run
        PROVE  PrepareOK(v)'
    <3>1. PICK w \in Tasks : Preparing(w) /\ h'[v] = h[w] /\ w = (IF v = u THEN t ELSE v) /\ v # t
      BY <2>3, <2>4
    <3>2. PrepareOK(w) /\ h[w].run = run
      BY <1>0, <2>4, <3>1
    <3>3. \A x \in Tasks : Preparing(x)' /\ h'[x].run = run => x = v
      BY <2>0, <2>3, <3>1, <3>2 DEF PrepareOK
    <3>4. cpc = "preparing" => v = Main \/ (h'[Main].pc = "done" /\ ~ h'[Main].ok)
      BY <2>1, <2>2, <3>1, <3>2 DEF PrepareOK
    <3> QED
      BY <2>0, <3>1, <3>2, <3>3, <3>4 DEF PrepareOK
  <2> QED
    BY <2>0, <2>4 DEF PrepareOnce, PrepareOK
<1> QED
  BY <1>1, <1>3, <1>4, <1>5, <1>6, <1>7, <1>8, StepKinds DEF HandlerKind

LEMMA TracesStep ==
  ASSUME TypeOK, ProcInv, ~ raced => QuietStarts /\ QuietFiles, PrepareOnce, TracesOfThisRun,
         [Next]_vars
  PROVE  TracesOfThisRun'
<1> SUFFICES ASSUME ~ raced', asg' = run', NEW n \in Nodes, file'[n] > 0
             PROVE  file'[n] = run'
  BY DEF TracesOfThisRun
<1>0. ~ raced /\ run \in Runs /\ asg \in 0..MaxRuns /\ file[n] \in {Partial} \cup (0..MaxRuns)
  BY QuietStep DEF TypeOK, AgentTypeOK, DriveTypeOK
<1>1. ASSUME UNCHANGED <<asg, run, file>> PROVE file'[n] = run'
  BY <1>0, <1>1 DEF TracesOfThisRun
<1>2. ASSUME NEW t \in Tasks, HandlerStep(t), UNCHANGED driveVars
      PROVE  file'[n] = run'
  <2>0. UNCHANGED <<run, file>>
    BY <1>2 DEF driveVars
  <2>1. CASE RemoveAll(t)
    BY <1>0, <2>0, <2>1 DEF RemoveAll, Runs
  <2>2. CASE NewRunner(t)
    <3>1. asg' \in {0, h[t].run} /\ h[t].pc = "new"
      BY <2>2 DEF NewRunner, At
    <3>2. h[t].run = run
      BY <1>0, <2>0, <3>1 DEF Runs
    <3>3. Preparing(t)
      BY <3>1 DEF Preparing, Served, TypeOK, CallOK
    <3> QED
      BY <2>0, <3>2, <3>3 DEF PrepareOnce, PrepareOK
  <2>3. CASE ~ (RemoveAll(t) \/ NewRunner(t))
    <3>1. UNCHANGED asg
      BY <1>2, <2>3 DEF HandlerStep, GetRunner, HostMetrics, Lock, StopMonitor, MonitorStopped, StopAll,
         Terminate, Sigterm, Sigkill, Reaped, AllStopped, Stop, Check, Exec, Register, CallNode, Ask,
         Replied
    <3> QED
      BY <1>1, <2>0, <3>1
  <2> QED
    BY <2>1, <2>2, <2>3
<1>3. CASE MonitorKind \/ UNCHANGED vars
  BY <1>1, <1>3 DEF MonitorKind, PeriodicSample, RequestedSample, MonitorEnds, vars, agentVars, driveVars
<1>4. CASE EndsKind
  <2>1. UNCHANGED <<asg, run, file>>
    BY <1>4, EndsFacts DEF EndsKind, driveVars
  <2> QED
    BY <1>1, <2>1
<1>5. CASE AloneKind
  <2>1. UNCHANGED <<asg, run>> /\ file'[n] \in {file[n], Partial, traces[n]}
    BY <1>5 DEF AloneKind, agentVars
  <2>2. traces[n] \in {0, asg}
    BY <1>0 DEF QuietFiles
  <2>3. CASE file'[n] = file[n]
    BY <1>0, <2>1, <2>3 DEF TracesOfThisRun
  <2>4. CASE file'[n] = traces[n]
    BY <2>1, <2>2, <2>4
  <2>5. CASE file'[n] = Partial
    BY <2>5 DEF Partial
  <2> QED
    BY <2>1, <2>3, <2>4, <2>5
<1>6. CASE NextRun
  BY <1>6 DEF NextRun, FreshRun
<1>7. ASSUME NEW t \in Tasks, NEW c \in Call, TurnOf(t, c) PROVE file'[n] = run'
  BY <1>1, <1>7 DEF TurnOf, Turn, agentElse
<1>8. ASSUME NEW t \in Tasks \ Late, NEW u \in Late, NEW left \in Call, HandOf(t, u, left)
      PROVE  file'[n] = run'
  BY <1>1, <1>8 DEF HandOf, Hand, driveVars
<1> QED
  BY <1>2, <1>3, <1>4, <1>5, <1>6, <1>7, <1>8, StepKinds DEF HandlerKind

-----------------------------------------------------------------------------
(* What departed *)

LEMMA CountTypes ==
  ASSUME TypeOK
  PROVE  /\ run \in Runs /\ downs[run] \in Nat /\ departs \in Nat /\ killFailed \in Nat
         /\ IsFiniteSet(Kills) /\ IsFiniteSet(Departed) /\ IsFiniteSet(Waiting)
         /\ Cardinality(Kills) \in Nat /\ Cardinality(Departed) \in Nat /\ Cardinality(Waiting) \in Nat
<1>1. run \in Runs /\ downs[run] \in Nat /\ departs \in Nat /\ killFailed \in Nat
  BY DEF TypeOK, AgentTypeOK, DriveTypeOK
<1>2. IsFiniteSet(Kills) /\ IsFiniteSet(Departed) /\ IsFiniteSet(Waiting)
  <2>1. Kills \subseteq Nodes /\ Departed \subseteq Nodes /\ Waiting \subseteq Tasks
    BY DEF Kills, Departed, Waiting
  <2> QED
    BY <2>1, HostAgentAssumption, TasksFinite, FS_Subset
<1> QED
  BY <1>1, <1>2, FS_CardinalityType

\* Most steps make no departure and take no answer of a kill.
LEMMA CountKept ==
  ASSUME TypeOK, CountOK, run' = run, downs'[run] = downs[run],
         departs' = departs, killFailed' = killFailed, cpc' # "over" => cpc # "over",
         Departed' \subseteq Departed, cpc' # "over" => Kills \subseteq Kills',
         cpc' # "over" => Cardinality(Waiting') <= Cardinality(Waiting)
  PROVE  CountOK'
<1>0. /\ run \in Runs /\ downs[run] \in Nat /\ departs \in Nat /\ killFailed \in Nat
      /\ IsFiniteSet(Departed) /\ IsFiniteSet(Kills)
      /\ Cardinality(Kills) \in Nat /\ Cardinality(Departed) \in Nat /\ Cardinality(Waiting) \in Nat
  BY CountTypes
<1>1. /\ IsFiniteSet(Kills') /\ IsFiniteSet(Departed')
      /\ Cardinality(Kills') \in Nat /\ Cardinality(Departed') \in Nat /\ Cardinality(Waiting') \in Nat
  <2>1. Kills' \subseteq Nodes /\ Departed' \subseteq Nodes /\ Waiting' \subseteq Tasks
    BY DEF Kills, Departed, Waiting
  <2>2. IsFiniteSet(Kills') /\ IsFiniteSet(Departed') /\ IsFiniteSet(Waiting')
    BY <2>1, HostAgentAssumption, TasksFinite, FS_Subset
  <2> QED
    BY <2>2, FS_CardinalityType
<1>2. Cardinality(Departed') <= Cardinality(Departed)
  BY <1>0, FS_Subset
<1>3. cpc' # "over" => Cardinality(Kills) <= Cardinality(Kills')
  BY <1>1, FS_Subset
<1> QED
  BY <1>0, <1>1, <1>2, <1>3 DEF CountOK

\* A kill is answered well by the step that makes the departure.
LEMMA DepartureMade ==
  ASSUME TypeOK, NEW t \in Tasks, HandlerStep(t)
  PROVE  \/ h[t].op = "kill" /\ h'[t].pc = "done" /\ downs' = [downs EXCEPT ![h[t].run] = @ + 1]
         \/ UNCHANGED downs /\ ~ (h[t].op = "kill" /\ h'[t].pc = "done" /\ h'[t].ok)
<1>0. h \in [Tasks -> Call] /\ h[t] \in Call /\ CallOK(t)
  BY DEF TypeOK, AgentTypeOK
<1> USE DEF At
<1>1. CASE CallNode(t)
  <2>1. h[t].op \in {"start", "kill"}
    BY <1>0, <1>1 DEF CallNode, CallOK
  <2>2. CASE UNCHANGED <<proc, downs>> /\ Answer(t, FALSE)
    BY <1>0, <2>2, AnswerFacts
  <2>3. CASE ~ (UNCHANGED <<proc, downs>> /\ Answer(t, FALSE))
    <3>1. /\ downs' = (IF h[t].op = "start" THEN downs ELSE [downs EXCEPT ![h[t].run] = @ + 1])
          /\ \E ok \in BOOLEAN : Answer(t, ok)
      BY <1>1, <2>3 DEF CallNode
    <3> QED
      BY <1>0, <2>1, <3>1, AnswerFacts
  <2> QED
    BY <2>2, <2>3
<1>2. CASE ~ CallNode(t)
  <2>1. UNCHANGED downs
    BY <1>2 DEF HandlerStep, GetRunner, HostMetrics, Lock, StopMonitor, MonitorStopped, StopAll,
       Terminate, Sigterm, Sigkill, Reaped, AllStopped, Stop, RemoveAll, NewRunner, Check, Exec,
       Register, Ask, Replied
  <2>2. CASE Answer(t, FALSE)
    BY <1>0, <2>1, <2>2, AnswerFacts
  <2>3. CASE HostMetrics(t) \/ Stop(t) \/ NewRunner(t) \/ Register(t) \/ Replied(t)
    BY <1>0, <2>1, <2>3 DEF HostMetrics, Stop, NewRunner, Register, Replied, CallOK
  <2>4. CASE GetRunner(t) /\ ~ Answer(t, FALSE)
    <3>1. cur # 0 /\ h[t].op \in {"start", "kill", "sample"}
      BY <2>4 DEF GetRunner
    <3> QED
      BY <1>0, <2>1, <2>4, <3>1, GetRunnerFacts
  <2>5. CASE StopAll(t) \/ Terminate(t) \/ Reaped(t) \/ Sigkill(t)
    BY <1>0, <2>1, <2>5, StopAllFacts, TerminateFacts, ReapedFacts DEF Sigkill
  <2>6. CASE \E pc \in {"stopped", "stopMonitor", "monitorWait", "stopAll", "new", "node", "exec",
                         "await", "reapWait"} : Goto(t, pc)
    BY <1>0, <2>1, <2>6, GotoFacts
  <2>7. CASE Exec(t) /\ ~ Answer(t, FALSE)
    BY <1>0, <2>1, <2>7, ExecFacts
  <2> QED
    BY <1>2, <2>2, <2>3, <2>4, <2>5, <2>6, <2>7 DEF HandlerStep, Lock, StopMonitor, MonitorStopped,
       Sigterm, AllStopped, RemoveAll, Check, Ask
<1> QED
  BY <1>1, <1>2

LEMMA CountHandler ==
  ASSUME TypeOK, DepartInv, NEW t \in Tasks, HandlerStep(t), UNCHANGED <<driveVars, faults>>
  PROVE  DepartInv'
<1>0. /\ UNCHANGED <<run, cpc, st, churned, departs, killFailed>> /\ CountOK
      /\ \A n \in Nodes : NodeCallOK(n)
      /\ \A g \in Runs : g > run => downs[g] = 0
      /\ downs \in [Runs -> Nat]
  BY DEF driveVars, DepartInv, TypeOK, AgentTypeOK
<1>1. /\ \A u \in Tasks : u # t => h'[u] = h[u]
      /\ h'[t].op = h[t].op /\ Served(t) /\ CallOK(t)
      /\ Served(t)' => h'[t].run = h[t].run
  BY HandlerCall DEF TypeOK
<1>2. ASSUME NEW n \in Nodes PROVE NodeCallOK(n)'
  <2>1. NodeCallOK(n)
    BY <1>0
  <2>2. CASE Node(n) = t
    BY <1>0, <1>1, <2>1, <2>2 DEF NodeCallOK, InFlight, Served
  <2>3. CASE Node(n) # t
    <3>1. h'[Node(n)] = h[Node(n)]
      BY <1>1, <2>3, TaskFacts
    <3> QED
      BY <1>0, <2>1, <3>1 DEF NodeCallOK, InFlight, Served
  <2> QED
    BY <2>2, <2>3
<1>3. \A n \in Nodes : h'[Node(n)].op = h[Node(n)].op /\ (Node(n) # t => h'[Node(n)] = h[Node(n)])
  BY <1>1, TaskFacts
<1>4. Kills' = Kills
  BY <1>3 DEF Kills
<1>5. Waiting' \subseteq Waiting /\ (h'[t].pc = "done" => t \notin Waiting')
  BY <1>0, <1>1 DEF Waiting, Served
<1>6. /\ run \in Runs /\ downs[run] \in Nat /\ departs \in Nat /\ killFailed \in Nat
      /\ IsFiniteSet(Departed) /\ IsFiniteSet(Waiting)
      /\ Cardinality(Kills) \in Nat /\ Cardinality(Departed) \in Nat /\ Cardinality(Waiting) \in Nat
  BY CountTypes
<1>7. Cardinality(Waiting') <= Cardinality(Waiting)
  BY <1>5, <1>6, FS_Subset
<1>8. CASE UNCHANGED downs /\ ~ (h[t].op = "kill" /\ h'[t].pc = "done" /\ h'[t].ok)
  <2>1. Departed' \subseteq Departed
    BY <1>1, <1>3, <1>4, <1>8 DEF Departed, Kills
  <2>2. CountOK'
    BY <1>0, <1>4, <1>7, <1>8, <2>1, CountKept
  <2> QED
    BY <1>0, <1>2, <1>8, <2>2 DEF DepartInv
<1>9. CASE h[t].op = "kill" /\ h'[t].pc = "done" /\ downs' = [downs EXCEPT ![h[t].run] = @ + 1]
  <2>0. h[t].run \in 1..run /\ h[t].run \in Runs /\ run \in 1..MaxRuns
    <3>1. h[t].run \in 1..run /\ run \in 1..MaxRuns
      BY <1>1, <1>6 DEF CallOK, Runs
    <3> QED
      BY <3>1, HostAgentAssumption DEF Runs
  <2>1. \A g \in Runs : g > run' => downs'[g] = 0
    BY <1>0, <1>9, <2>0 DEF Runs
  <2>2. CASE h[t].run # run
    <3>1. \A n \in Nodes : Node(n) # t
      BY <1>0, <1>1, <2>2 DEF NodeCallOK, InFlight, Served
    <3>2. Departed' \subseteq Departed
      BY <1>3, <3>1 DEF Departed, Kills
    <3>3. downs'[run] = downs[run]
      BY <1>0, <1>6, <1>9, <2>2
    <3>4. CountOK'
      BY <1>0, <1>4, <1>7, <3>2, <3>3, CountKept
    <3> QED
      BY <1>2, <2>1, <3>4 DEF DepartInv
  <2>3. CASE h[t].run = run
    <3>1. downs'[run] = downs[run] + 1
      BY <1>0, <1>6, <1>9, <2>3
    <3>2. t \in Waiting
      BY <1>1, <1>9, <2>3 DEF Waiting
    <3>3. Cardinality(Waiting') <= Cardinality(Waiting) - 1 /\ Cardinality(Waiting') \in Nat
      <4>1. IsFiniteSet(Waiting \ {t}) /\ Cardinality(Waiting \ {t}) = Cardinality(Waiting) - 1
        BY <1>6, <3>2, FS_RemoveElement
      <4>2. Waiting' \subseteq Waiting \ {t}
        BY <1>5, <1>9
      <4> QED
        BY <4>1, <4>2, FS_Subset, FS_CardinalityType
    <3>4. Cardinality(Departed') <= Cardinality(Departed) + 1 /\ Cardinality(Departed') \in Nat
      <4>1. CASE \E n \in Nodes : Node(n) = t
        <5>1. PICK n \in Nodes : Node(n) = t
          BY <4>1
        <5>2. Departed' \subseteq Departed \cup {n}
          BY <1>3, <1>4, <5>1, TaskFacts DEF Departed, Kills
        <5>3. /\ IsFiniteSet(Departed \cup {n})
              /\ Cardinality(Departed \cup {n}) = IF n \in Departed THEN Cardinality(Departed)
                                                  ELSE Cardinality(Departed) + 1
          BY <1>6, FS_AddElement
        <5>4. Cardinality(Departed') <= Cardinality(Departed \cup {n}) /\ IsFiniteSet(Departed')
          BY <5>2, <5>3, FS_Subset
        <5>5. Cardinality(Departed') \in Nat
          BY <5>4, FS_CardinalityType
        <5> QED
          BY <1>6, <5>3, <5>4, <5>5
      <4>2. CASE ~ \E n \in Nodes : Node(n) = t
        <5>1. Departed' \subseteq Departed
          BY <1>3, <1>4, <4>2 DEF Departed, Kills
        <5>2. Cardinality(Departed') <= Cardinality(Departed) /\ IsFiniteSet(Departed')
          BY <1>6, <5>1, FS_Subset
        <5>3. Cardinality(Departed') \in Nat
          BY <5>2, FS_CardinalityType
        <5> QED
          BY <1>6, <5>2, <5>3
      <4> QED
        BY <4>1, <4>2
    <3>5. CountOK'
      BY <1>0, <1>4, <1>6, <3>1, <3>3, <3>4 DEF CountOK
    <3> QED
      BY <1>2, <2>1, <3>5 DEF DepartInv
  <2> QED
    BY <2>2, <2>3
<1> QED
  BY <1>8, <1>9, DepartureMade

\* A client's turn: it posts a kill, or takes an answer that is not a kill's,
\* or sees an error.
LEMMA CountTurn ==
  ASSUME TypeOK, DepartInv, NEW t \in Tasks, NEW c \in Call, Turn(t, c),
         UNCHANGED <<run, departs, killFailed>>, cpc' # "over" => cpc # "over",
         c.pc = "done" => ~ c.ok,
         (\E n \in Nodes : t = Node(n)) /\ h[t].op = "kill" => c.op = "kill",
         c.pc = "recv" /\ c.op = "kill" => \E n \in Nodes : t = Node(n)
  PROVE  CountOK' /\ \A g \in Runs : g > run' => downs'[g] = 0
<1>0. /\ CountOK /\ \A g \in Runs : g > run => downs[g] = 0
      /\ h \in [Tasks -> Call] /\ CallOK(t)
  BY DEF DepartInv, TypeOK, AgentTypeOK
<1>1. /\ h'[t] = c /\ \A u \in Tasks : u # t => h'[u] = h[u]
      /\ UNCHANGED downs /\ c.pc \in {"idle", "recv", "done"}
      /\ h[t].pc \in {"idle", "recv", "done"}
      /\ c.pc = "recv" => h[t].pc = "idle" /\ c.run = run
  BY <1>0 DEF Turn, agentElse
<1>2. \A g \in Runs : g > run' => downs'[g] = 0
  BY <1>0, <1>1
<1>3. \A n \in Nodes : Node(n) \in Tasks /\ Node(n) \notin Late
  BY TaskFacts
<1>4. Departed' \subseteq Departed
  BY <1>1, <1>3 DEF Departed, Kills
<1>5. Kills \subseteq Kills'
  BY <1>1, <1>3 DEF Kills
<1>6. CASE c.pc = "recv" /\ c.op = "kill"
  <2>1. PICK n \in Nodes : t = Node(n)
    BY <1>6
  <2>2. h[t].op = "none" /\ h[t].pc = "idle"
    BY <1>0, <1>1, <1>6 DEF CallOK
  <2>3. Kills' = Kills \cup {n} /\ n \notin Kills
    BY <1>1, <1>3, <1>6, <2>1, <2>2, TaskFacts DEF Kills
  <2>4. Waiting' \subseteq Waiting \cup {t} /\ t \notin Waiting
    BY <1>1, <2>2 DEF Waiting, Served
  <2>5. /\ run \in Runs /\ downs[run] \in Nat /\ departs \in Nat /\ killFailed \in Nat
        /\ IsFiniteSet(Kills) /\ IsFiniteSet(Departed) /\ IsFiniteSet(Waiting)
        /\ Cardinality(Kills) \in Nat /\ Cardinality(Departed) \in Nat /\ Cardinality(Waiting) \in Nat
    BY CountTypes
  <2>6. Cardinality(Kills \cup {n}) = Cardinality(Kills) + 1
    BY <2>3, <2>5, FS_AddElement
  <2>7. Cardinality(Waiting \cup {t}) = Cardinality(Waiting) + 1 /\ IsFiniteSet(Waiting \cup {t})
    BY <2>4, <2>5, FS_AddElement
  <2>8. Cardinality(Waiting') <= Cardinality(Waiting \cup {t}) /\ IsFiniteSet(Waiting')
    BY <2>4, <2>7, FS_Subset
  <2>9. Cardinality(Departed') <= Cardinality(Departed) /\ IsFiniteSet(Departed')
    BY <1>4, <2>5, FS_Subset
  <2>10. Cardinality(Waiting') \in Nat /\ Cardinality(Departed') \in Nat
    BY <2>8, <2>9, FS_CardinalityType
  <2>11. Cardinality(Kills') = Cardinality(Kills) + 1
    BY <2>3, <2>6
  <2>12. downs'[run] = downs[run]
    BY <1>1
  <2> QED
    BY <1>0, <1>2, <2>5, <2>7, <2>8, <2>9, <2>10, <2>11, <2>12 DEF CountOK
<1>7. CASE ~ (c.pc = "recv" /\ c.op = "kill")
  <2>1. Waiting' \subseteq Waiting
    BY <1>1, <1>7 DEF Waiting, Served
  <2>2. Cardinality(Waiting') <= Cardinality(Waiting)
    BY <2>1, CountTypes, FS_Subset
  <2> QED
    BY <1>0, <1>1, <1>2, <1>4, <1>5, <2>2, CountKept
<1> QED
  BY <1>6, <1>7

\* The answer of a churn call is counted as its kind and its outcome say.
LEMMA CountReturns ==
  ASSUME TypeOK, DepartInv, NEW n \in Nodes, ChurnReturns(n)
  PROVE  CountOK' /\ \A g \in Runs : g > run' => downs'[g] = 0
<1> DEFINE t == Node(n)
           op == Plan[n][churned[n] + 1]
<1>0. /\ CountOK /\ \A g \in Runs : g > run => downs[g] = 0
      /\ h \in [Tasks -> Call] /\ NodeCallOK(n) /\ t \in Tasks
  BY TaskFacts DEF DepartInv, TypeOK, AgentTypeOK
<1>1. PICK ok \in BOOLEAN :
        /\ Answered(t, ok)
        /\ departs' = departs + (IF op = "kill" /\ ok THEN 1 ELSE 0)
        /\ killFailed' = killFailed + (IF op = "kill" /\ ~ ok THEN 1 ELSE 0)
  BY DEF ChurnReturns
<1>2. /\ UNCHANGED <<run, cpc, st, downs>> /\ st[n] = "started"
      /\ h[t].pc = "done" /\ h[t].ok = ok /\ h'[t] = Idle
      /\ \A u \in Tasks : u # t => h'[u] = h[u]
  BY <1>0, <1>1 DEF ChurnReturns, Started, Answered, agentElse
<1>3. h[t].op = op
  BY <1>0, <1>2 DEF NodeCallOK, InFlight
<1>4. \A g \in Runs : g > run' => downs'[g] = 0
  BY <1>0, <1>2
<1>5. \A m \in Nodes : Node(m) \in Tasks /\ (m # n => h'[Node(m)] = h[Node(m)])
  BY <1>2, TaskFacts
<1>6. h'[t].op = "none" /\ h'[t].pc = "idle"
  BY <1>2, IdleFacts
<1>7. Waiting' \subseteq Waiting
  BY <1>2, <1>6 DEF Waiting, Served
<1>8. /\ run \in Runs /\ downs[run] \in Nat /\ departs \in Nat /\ killFailed \in Nat
      /\ IsFiniteSet(Kills) /\ IsFiniteSet(Departed) /\ IsFiniteSet(Waiting)
      /\ Cardinality(Kills) \in Nat /\ Cardinality(Departed) \in Nat /\ Cardinality(Waiting) \in Nat
  BY CountTypes
<1>9. Cardinality(Waiting') <= Cardinality(Waiting) /\ IsFiniteSet(Waiting')
  BY <1>7, <1>8, FS_Subset
<1>10. Cardinality(Waiting') \in Nat /\ downs'[run] = downs[run]
  BY <1>2, <1>9, FS_CardinalityType
<1>11. Kills' = Kills \ {n} /\ Departed' = Departed \ {n}
  <2>1. \A m \in Nodes : m # n => (m \in Kills' <=> m \in Kills) /\ (m \in Departed' <=> m \in Departed)
    BY <1>5 DEF Kills, Departed
  <2>2. n \notin Kills' /\ n \notin Departed'
    BY <1>6 DEF Kills, Departed
  <2>3. Kills \subseteq Nodes /\ Departed \subseteq Nodes /\ Kills' \subseteq Nodes /\ Departed' \subseteq Nodes
    BY DEF Kills, Departed
  <2> QED
    BY <2>1, <2>2, <2>3
<1>12. (n \in Kills <=> op = "kill") /\ (n \in Departed <=> op = "kill" /\ ok)
  BY <1>2, <1>3 DEF Kills, Departed
<1>13. /\ IsFiniteSet(Kills \ {n}) /\ IsFiniteSet(Departed \ {n})
       /\ Cardinality(Kills \ {n}) = IF n \in Kills THEN Cardinality(Kills) - 1 ELSE Cardinality(Kills)
       /\ Cardinality(Departed \ {n}) = IF n \in Departed THEN Cardinality(Departed) - 1
                                        ELSE Cardinality(Departed)
  BY <1>8, FS_RemoveElement
<1>14. Cardinality(Kills \ {n}) \in Nat /\ Cardinality(Departed \ {n}) \in Nat
  BY <1>13, FS_CardinalityType
<1>15. /\ departs' = departs + (IF n \in Departed THEN 1 ELSE 0)
       /\ killFailed' = killFailed + (IF n \in Kills /\ n \notin Departed THEN 1 ELSE 0)
       /\ n \in Departed => n \in Kills
  BY <1>1, <1>12
<1>16. /\ Cardinality(Kills') = IF n \in Kills THEN Cardinality(Kills) - 1 ELSE Cardinality(Kills)
       /\ Cardinality(Departed') = IF n \in Departed THEN Cardinality(Departed) - 1
                                   ELSE Cardinality(Departed)
  BY <1>11, <1>13
<1>17. run' = run /\ cpc' = cpc
  BY <1>2
<1> HIDE DEF t, op
<1>18. CountOK'
  BY <1>0, <1>8, <1>9, <1>10, <1>15, <1>16, <1>17 DEF CountOK
<1> QED
  BY <1>4, <1>18

\* A call its client gave up on is still to be served, and still of its run.
LEMMA CountHand ==
  ASSUME TypeOK, DepartInv, NEW t \in Tasks \ Late, NEW u \in Late, NEW left \in Call,
         HandOf(t, u, left), left.op = h[t].op \/ cpc = "over"
  PROVE  CountOK' /\ \A g \in Runs : g > run' => downs'[g] = 0
<1>0. /\ CountOK /\ (\A g \in Runs : g > run => downs[g] = 0) /\ CallOK(u)
  BY TaskFacts DEF DepartInv, TypeOK
<1>1. /\ u \in Tasks /\ u # t /\ h[u].pc = "idle"
      /\ h'[u] = h[t] /\ h'[t] = left
      /\ (\A v \in Tasks \ {t, u} : h'[v] = h[v]) /\ UNCHANGED downs
  BY HandFacts DEF HandOf
<1>2. UNCHANGED <<run, cpc, departs, killFailed>>
  BY DEF HandOf, driveVars
<1>3. \A n \in Nodes : Node(n) \in Tasks /\ Node(n) # u
  BY TaskFacts
<1>4. left.pc \in {"idle", "done"} /\ (left.pc = "done" => ~ left.ok)
  BY DEF HandOf
<1>5. Departed' \subseteq Departed
  BY <1>1, <1>3, <1>4 DEF Departed, Kills
<1>6. cpc # "over" => Kills \subseteq Kills'
  BY <1>1, <1>3 DEF Kills
<1>7. Waiting' \subseteq Waiting \/ (t \in Waiting /\ Waiting' \subseteq (Waiting \ {t}) \cup {u})
  BY <1>1, <1>2, <1>4 DEF Waiting, Served
<1>8. Cardinality(Waiting') <= Cardinality(Waiting)
  <2>1. Waiting \in SUBSET Tasks /\ Waiting' \in SUBSET Tasks
    BY DEF Waiting
  <2> QED
    BY <1>1, <1>7, <2>1, SmallerSet
<1>9. CountOK'
  BY <1>0, <1>1, <1>2, <1>5, <1>6, <1>8, CountKept
<1> QED
  BY <1>0, <1>1, <1>2, <1>9

\* Only a node's own steps touch its goroutine's call.
LEMMA NodeCallElse ==
  ASSUME NEW n \in Nodes, NodeCallOK(n), h'[Node(n)] = h[Node(n)], run' = run,
         st'[n] = st[n], churned'[n] = churned[n]
  PROVE  NodeCallOK(n)'
BY DEF NodeCallOK, InFlight, Served

LEMMA NodeCallTurn ==
  ASSUME TypeOK, DepartInv, NEW t \in Tasks, NEW c \in Call, Turn(t, c), run' = run,
         NEW n \in Nodes, st'[n] = st[n] \/ t = Node(n), churned'[n] = churned[n] \/ t = Node(n),
         t = Node(n) /\ c.pc # "idle" =>
           /\ c.pc = "recv" => c.run = run
           /\ \/ st'[n] = "starting" /\ c.op = "start"
              \/ st'[n] = "started" /\ c.op = Plan[n][churned'[n] + 1]
  PROVE  NodeCallOK(n)'
<1>1. /\ h'[t] = c /\ (\A u \in Tasks : u # t => h'[u] = h[u]) /\ Node(n) \in Tasks
      /\ c.pc \in {"idle", "recv", "done"} /\ NodeCallOK(n)
  BY TaskFacts DEF Turn, TypeOK, AgentTypeOK, DepartInv
<1>2. CASE t = Node(n)
  BY <1>1, <1>2 DEF NodeCallOK, InFlight, Served
<1>3. CASE t # Node(n)
  BY <1>1, <1>3, NodeCallElse
<1> QED
  BY <1>2, <1>3

LEMMA DepartStill ==
  ASSUME TypeOK, DepartInv, UNCHANGED <<h, downs, run, st, churned, departs, killFailed>>,
         cpc' # "over" => cpc # "over"
  PROVE  DepartInv'
<1>1. CountOK /\ (\A n \in Nodes : NodeCallOK(n)) /\ \A g \in Runs : g > run => downs[g] = 0
  BY DEF DepartInv
<1>2. Kills' = Kills /\ Departed' = Departed /\ Waiting' = Waiting
  BY DEF Kills, Departed, Waiting, Served
<1>3. Cardinality(Waiting') <= Cardinality(Waiting)
  BY <1>2, CountTypes
<1>4. CountOK'
  BY <1>1, <1>2, <1>3, CountKept
<1>5. \A n \in Nodes : NodeCallOK(n)'
  BY <1>1, NodeCallElse
<1> QED
  BY <1>1, <1>4, <1>5 DEF DepartInv

\* A new run has made no departure and has no call in flight.
LEMMA DepartNextRun ==
  ASSUME TypeOK, DepartInv, NextRun
  PROVE  DepartInv'
<1>0. /\ run' = run + 1 /\ run \in Runs /\ run + 1 \in Runs /\ departs' = 0 /\ killFailed' = 0
      /\ UNCHANGED <<h, downs>> /\ run \in Nat
      /\ \A n \in Nodes : h[Node(n)].pc = "idle"
      /\ \A g \in Runs : g > run => downs[g] = 0
  BY HostAgentAssumption DEF NextRun, TypeOK, DriveTypeOK, Runs, agentVars, InFlight, DepartInv
<1>1. \A n \in Nodes : Node(n) \in Tasks /\ h[Node(n)].op = "none"
  BY <1>0, TaskFacts DEF TypeOK, CallOK
<1>2. Kills' = {} /\ Departed' = {}
  BY <1>0, <1>1 DEF Kills, Departed
<1>3. Waiting' = {}
  <2>1. \A t \in Tasks : Served(t) => h[t].run \in 1..run
    BY DEF TypeOK, CallOK
  <2>2. \A t \in Tasks : Served(t) => h[t].run # run + 1
    BY <1>0, <2>1
  <2> QED
    BY <1>0, <2>2 DEF Waiting, Served
<1>4. CountOK'
  BY <1>0, <1>2, <1>3, FS_EmptySet DEF CountOK
<1>5. \A n \in Nodes : NodeCallOK(n)'
  BY <1>0 DEF NodeCallOK, InFlight
<1>6. \A g \in Runs : g > run' => downs'[g] = 0
  BY <1>0 DEF Runs
<1> QED
  BY <1>4, <1>5, <1>6 DEF DepartInv

\* The main goroutine's calls are no departures.
LEMMA DepartMain ==
  ASSUME TypeOK, DepartInv, Prepare \/ SampleAtStop \/ FetchMetrics \/ StopAgent
  PROVE  DepartInv'
<1>1. /\ UNCHANGED <<run, st, churned, departs, killFailed>> /\ (cpc' # "over" => cpc # "over")
      /\ Main \in Tasks /\ 0 \in Nodes \cup {0}
  BY TaskFacts DEF Prepare, SampleAtStop, FetchMetrics, StopAgent, startElse, mainElse
<1>2. \A n \in Nodes : Node(n) # Main
  BY TaskFacts
<1>3. PICK c \in Call : Turn(Main, c) /\ c.pc # "done" /\ c.op # "kill"
  <2>1. CASE \E ok \in BOOLEAN : Answered(Main, ok)
    BY <1>1, <2>1, AnsweredTurn, IdleFacts
  <2>2. CASE ~ \E ok \in BOOLEAN : Answered(Main, ok)
    <3>1. PICK op \in {"prepare", "sample", "hostmetrics", "stop"} : Post(Main, op, 0)
      BY <2>2 DEF Prepare, SampleAtStop, FetchMetrics, StopAgent
    <3>2. Turn(Main, Posted(op, 0)) /\ Posted(op, 0).op = op /\ Posted(op, 0).pc = "recv"
      BY <1>1, <3>1, PostTurn
    <3> QED
      BY <3>2 DEF Turn
  <2> QED
    BY <2>1, <2>2
<1>4. CountOK' /\ \A g \in Runs : g > run' => downs'[g] = 0
  BY <1>1, <1>2, <1>3, CountTurn
<1>5. \A n \in Nodes : NodeCallOK(n)'
  BY <1>1, <1>2, <1>3, NodeCallTurn
<1> QED
  BY <1>4, <1>5 DEF DepartInv

\* A node's goroutine starts the node, or makes the next call of its plan.
LEMMA DepartPost ==
  ASSUME TypeOK, DepartInv, NEW n \in Nodes, StartNode(n) \/ Churn(n)
  PROVE  DepartInv'
<1>1. /\ UNCHANGED <<run, cpc, churned, departs, killFailed>> /\ Node(n) \in Tasks
      /\ \A m \in Nodes : Node(m) = Node(n) => m = n
  BY TaskFacts DEF StartNode, Churn, startElse, driveVars
<1>2. PICK op \in {"start", "kill"} :
        /\ Post(Node(n), op, n) /\ \A m \in Nodes : m # n => st'[m] = st[m]
        /\ \/ st'[n] = "starting" /\ op = "start"
           \/ st'[n] = "started" /\ op = Plan[n][churned[n] + 1]
  <2>1. CASE StartNode(n)
    <3>1. st \in [Nodes -> {"new", "starting", "started", "failed"}]
      BY DEF TypeOK, DriveTypeOK
    <3> QED
      BY <2>1, <3>1 DEF StartNode
  <2>2. CASE Churn(n)
    <3>1. Plan[n] \in Seq({"kill", "start"}) /\ churned[n] \in Nat /\ churned[n] < Len(Plan[n])
      BY <2>2, RunDriveAssumption DEF Churn, TypeOK, DriveTypeOK
    <3>2. Plan[n][churned[n] + 1] \in {"kill", "start"}
      BY <3>1
    <3> QED
      BY <2>2, <3>2 DEF Churn, Started, driveVars
  <2> QED
    BY <2>1, <2>2
<1>3. /\ Turn(Node(n), Posted(op, n)) /\ h[Node(n)].pc = "idle"
      /\ Posted(op, n).pc = "recv" /\ Posted(op, n).op = op /\ Posted(op, n).run = run
  BY <1>1, <1>2, PostTurn
<1>4. Posted(op, n) \in Call /\ h[Node(n)].op = "none"
  BY <1>1, <1>3 DEF Turn, TypeOK, CallOK
<1>5. CountOK' /\ \A g \in Runs : g > run' => downs'[g] = 0
  BY <1>1, <1>3, <1>4, CountTurn
<1>6. \A m \in Nodes : NodeCallOK(m)'
  BY <1>1, <1>2, <1>3, <1>4, NodeCallTurn
<1> QED
  BY <1>5, <1>6 DEF DepartInv

LEMMA DepartReturns ==
  ASSUME TypeOK, DepartInv, NEW n \in Nodes, StartReturns(n) \/ ChurnReturns(n)
  PROVE  DepartInv'
<1>1. /\ Node(n) \in Tasks /\ (\A m \in Nodes : Node(m) = Node(n) => m = n) /\ NodeCallOK(n)
      /\ st \in [Nodes -> {"new", "starting", "started", "failed"}] /\ churned \in [Nodes -> Nat]
  BY TaskFacts DEF DepartInv, TypeOK, DriveTypeOK
<1>2. PICK ok \in BOOLEAN : Answered(Node(n), ok)
  BY DEF StartReturns, ChurnReturns
<1>3. Turn(Node(n), Idle) /\ h[Node(n)].pc = "done"
  BY <1>1, <1>2, AnsweredTurn
<1>4. run' = run /\ \A m \in Nodes : m # n => st'[m] = st[m] /\ churned'[m] = churned[m]
  <2>1. CASE StartReturns(n)
    BY <1>1, <2>1 DEF StartReturns, startElse
  <2>2. CASE ChurnReturns(n)
    BY <1>1, <2>2 DEF ChurnReturns
  <2> QED
    BY <2>1, <2>2
<1>5. \A m \in Nodes : NodeCallOK(m)'
  BY <1>1, <1>3, <1>4, IdleFacts, NodeCallTurn
<1>6. CountOK' /\ \A g \in Runs : g > run' => downs'[g] = 0
  <2>1. CASE ChurnReturns(n)
    BY <2>1, CountReturns
  <2>2. CASE StartReturns(n)
    <3>1. UNCHANGED <<run, departs, killFailed>> /\ st[n] = "starting"
      BY <2>2 DEF StartReturns, startElse
    <3>2. cpc # "over"
      BY <3>1 DEF TypeOK, DriveTypeOK
    <3>3. h[Node(n)].op = "start"
      BY <1>1, <1>3, <3>1 DEF NodeCallOK, InFlight
    <3> QED
      BY <1>1, <1>3, <3>1, <3>2, <3>3, IdleFacts, CountTurn
  <2> QED
    BY <2>1, <2>2
<1> QED
  BY <1>5, <1>6 DEF DepartInv

\* A call that is lost, and an answer nobody reads.
LEMMA DepartLost ==
  ASSUME TypeOK, DepartInv, NEW t \in Tasks, Lost(t) \/ Unread(t)
  PROVE  DepartInv'
<1>1. UNCHANGED <<run, cpc, st, churned, departs, killFailed>>
  BY DEF Lost, Unread, driveVars
<1>2. PICK c \in Call :
        /\ Turn(t, c) /\ c.pc \in {"idle", "done"} /\ (c.pc = "done" => ~ c.ok)
        /\ t \in Late \/ (c.op = h[t].op /\ h[t].pc = "recv")
  <2>1. CASE Lost(t)
    BY <2>1, LostTurn, FailedCall
  <2>2. CASE Unread(t)
    BY <2>2, IdleFacts DEF Unread, Turn
  <2> QED
    BY <2>1, <2>2
<1>3. \A n \in Nodes : Node(n) \notin Late /\ NodeCallOK(n)
  BY TaskFacts DEF DepartInv
<1>4. CountOK' /\ \A g \in Runs : g > run' => downs'[g] = 0
  BY <1>1, <1>2, <1>3, CountTurn
<1>5. ASSUME NEW n \in Nodes PROVE NodeCallOK(n)'
  <2>1. CASE t = Node(n)
    <3>1. h[t].pc = "recv" /\ c.op = h[t].op
      BY <1>2, <1>3, <2>1
    <3>2. \/ st[n] = "starting" /\ c.op = "start"
          \/ st[n] = "started" /\ c.op = Plan[n][churned[n] + 1]
      BY <1>3, <2>1, <3>1 DEF NodeCallOK, InFlight
    <3> QED
      BY <1>1, <1>2, <3>2, NodeCallTurn
  <2>2. CASE t # Node(n)
    BY <1>1, <1>2, <2>2, NodeCallTurn
  <2> QED
    BY <2>1, <2>2
<1> QED
  BY <1>4, <1>5 DEF DepartInv

\* A call its client gives up on, or leaves behind when it exits.
LEMMA DepartHand ==
  ASSUME TypeOK, DepartInv, NEW t \in Tasks \ Late, NEW u \in Late, NEW left \in Call,
         HandOf(t, u, left),
         (left.pc = "done" /\ left.op = h[t].op /\ InFlight(t)) \/ (cpc = "over" /\ left.pc = "idle")
  PROVE  DepartInv'
<1>1. CountOK' /\ \A g \in Runs : g > run' => downs'[g] = 0
  BY CountHand
<1>2. /\ h'[t] = left /\ (\A v \in Tasks \ {t, u} : h'[v] = h[v])
      /\ UNCHANGED <<run, st, churned>>
  BY HandFacts DEF HandOf, driveVars
<1>3. ASSUME NEW n \in Nodes PROVE NodeCallOK(n)'
  <2>1. Node(n) \in Tasks /\ Node(n) # u /\ NodeCallOK(n)
    BY TaskFacts DEF DepartInv
  <2>2. CASE t = Node(n)
    BY <1>2, <2>1, <2>2 DEF NodeCallOK, InFlight, Served
  <2>3. CASE t # Node(n)
    BY <1>2, <2>1, <2>3, NodeCallElse
  <2> QED
    BY <2>2, <2>3
<1> QED
  BY <1>1, <1>3 DEF DepartInv

LEMMA DepartInit == Init => DepartInv
<1> SUFFICES ASSUME Init PROVE DepartInv
  OBVIOUS
<1>1. /\ \A t \in Tasks : h[t].pc = "idle" /\ h[t].op = "none"
      /\ \A g \in Runs : downs[g] = 0
      /\ departs = 0 /\ killFailed = 0 /\ run = 1 /\ 1 \in Runs
  BY IdleFacts, HostAgentAssumption DEF Init, AgentInit, Runs
<1>2. \A n \in Nodes : Node(n) \in Tasks
  BY TaskFacts
<1>3. Kills = {} /\ Departed = {} /\ Waiting = {}
  BY <1>1, <1>2 DEF Kills, Departed, Waiting
<1>4. CountOK
  BY <1>1, <1>3, FS_EmptySet DEF CountOK
<1>5. \A n \in Nodes : NodeCallOK(n)
  BY <1>1, <1>2 DEF NodeCallOK, InFlight
<1> QED
  BY <1>1, <1>4, <1>5 DEF DepartInv

LEMMA DepartStep ==
  ASSUME TypeOK, DepartInv, [Next]_vars
  PROVE  DepartInv'
<1>1. CASE UNCHANGED vars
  BY <1>1, DepartStill DEF vars, agentVars, driveVars
<1>2. CASE AgentStep
  <2>1. CASE \E t \in Tasks : Quiet(HandlerStep(t))
    BY <2>1, CountHandler DEF Quiet
  <2>2. ASSUME NEW g \in Runs,
               Quiet(PeriodicSample(g)) \/ Quiet(RequestedSample(g)) \/ Quiet(MonitorEnds(g))
        PROVE  DepartInv'
    BY <2>2, DepartStill DEF Quiet, PeriodicSample, RequestedSample, MonitorEnds, driveVars
  <2>3. ASSUME NEW p \in Procs,
               Quiet(NodeFinishes(p)) \/ Quiet(NodeDies(p)) \/ Quiet(Reap(p))
        PROVE  DepartInv'
    BY <2>3, DepartStill DEF Quiet, NodeFinishes, NodeDies, Reap, driveVars
  <2> QED
    BY <1>2, <2>1, <2>2, <2>3 DEF AgentStep
<1>3. CASE BootElsewhere \/ AllStarted \/ DriveEnds \/ FirstPassEnds \/ SecondPassEnds
  BY <1>3, DepartStill DEF BootElsewhere, AllStarted, DriveEnds, FirstPassEnds, SecondPassEnds,
     agentVars, startElse, mainElse
<1>4. ASSUME NEW n \in Nodes, Fetch(n) \/ Refetch(n) PROVE DepartInv'
  BY <1>4, DepartStill DEF Fetch, Refetch, agentVars, mainElse
<1>5. CASE NextRun
  BY <1>5, DepartNextRun
<1>6. CASE Prepare \/ SampleAtStop \/ FetchMetrics \/ StopAgent
  BY <1>6, DepartMain
<1>7. ASSUME NEW n \in Nodes, Abandon(n) PROVE DepartInv'
  <2>1. PICK u \in Late : ~ InFlight(u) /\ Hand(Node(n), u, Idle)
    BY <1>7 DEF Abandon
  <2>2. Node(n) \in Tasks \ Late /\ HandOf(Node(n), u, Idle) /\ cpc = "over"
    BY <1>7, <2>1, TaskFacts, IdleFacts DEF Abandon, HandOf, TypeOK, DriveTypeOK
  <2> QED
    BY <2>2, IdleFacts, DepartHand
<1>8. ASSUME NEW t \in Tasks, TimesOut(t) PROVE DepartInv'
  <2>1. PICK u \in Late : ~ InFlight(u) /\ Hand(t, u, Failed(t))
    BY <1>8 DEF TimesOut
  <2>2. t \notin Late /\ UNCHANGED driveVars /\ faults' \in Nat /\ InFlight(t)
    BY <1>8 DEF TimesOut, TypeOK, DriveTypeOK, InFlight
  <2>3. HandOf(t, u, Failed(t))
    BY <2>1, <2>2, FailedCall DEF HandOf
  <2> QED
    BY <2>2, <2>3, FailedCall, DepartHand
<1> QED
  BY <1>1, <1>2, <1>3, <1>4, <1>5, <1>6, <1>7, <1>8, DepartPost, DepartReturns, DepartLost
  DEF Next, DriveStep

-----------------------------------------------------------------------------
(* The invariant *)

LEMMA RunInit == Init => RunInv
<1> SUFFICES ASSUME Init PROVE RunInv
  OBVIOUS
<1>1. TypeOK /\ ProcInv /\ OwnExitNotKilled /\ FetchInv
  BY TypeInit, ProcInit, FetchInit
<1>2. /\ \A t \in Tasks : h[t].pc = "idle"
      /\ \A p \in Procs : proc[p].st = "none"
      /\ \A n \in Nodes : traces[n] = 0 /\ file[n] = 0
  BY IdleFacts DEF Init, AgentInit, FreshRun
<1>3. QuietStarts /\ QuietFiles
  BY <1>2 DEF QuietStarts, QuietFiles, StartOK, Starting, ListOK, Listed
<1>4. PrepareOnce /\ TracesOfThisRun
  BY <1>2 DEF PrepareOnce, PrepareOK, Preparing, Served, TracesOfThisRun
<1> QED
  BY <1>1, <1>3, <1>4, DepartInit DEF RunInv

LEMMA RunStep == RunInv /\ [Next]_vars => RunInv'
<1> SUFFICES ASSUME RunInv, [Next]_vars PROVE RunInv'
  OBVIOUS
<1>0. /\ TypeOK /\ ProcInv /\ OwnExitNotKilled /\ FetchInv /\ PrepareOnce
      /\ ~ raced => QuietStarts /\ QuietFiles
      /\ TracesOfThisRun /\ DepartInv
  BY DEF RunInv
<1>1. TypeOK' /\ ProcInv' /\ OwnExitNotKilled' /\ FetchInv' /\ PrepareOnce'
  BY <1>0, TypeStep, ProcStep, FetchInvStep, PrepareStep
<1>2. ~ raced' => QuietStarts' /\ QuietFiles'
  BY <1>0, QuietStep
<1>3. TracesOfThisRun' /\ DepartInv'
  BY <1>0, TracesStep, DepartStep
<1> QED
  BY <1>1, <1>2, <1>3 DEF RunInv

\* RunInv is an invariant of the host under its coordinators.
THEOREM RunInvariant == Spec => []RunInv
<1>1. Init => RunInv
  BY RunInit
<1>2. RunInv /\ [Next]_vars => RunInv'
  BY RunStep
<1> QED
  BY <1>1, <1>2, PTL DEF Spec

\* The agent's and the coordinator's state keep their types; mu is held from
\* Lock to the end of /prepare and /stop; every place of a handler has the
\* Runner, the node and the process it indexes with, so that no handler uses a
\* Runner or a process that is not there.
THEOREM HostTypes == Spec => []TypeOK
<1>1. RunInv => TypeOK
  BY DEF RunInv
<1> QED
  BY <1>1, RunInvariant, PTL

\* reap's note "exited on its own" is never written for a process the agent
\* killed, whatever calls are late, lost or repeated: terminate takes a process
\* off the table before it signals it, and nothing puts it back.
THEOREM OwnExitsAreOwn == Spec => []OwnExitNotKilled
<1>1. RunInv => OwnExitNotKilled
  BY DEF RunInv
<1> QED
  BY <1>1, RunInvariant, PTL

\* Two running processes of one node have, without a race, one owner, and so
\* are one.
LEMMA OneProcess == RunInv => OneProcessPerNode
<1> SUFFICES ASSUME RunInv, ~ raced, NEW n \in Nodes
             PROVE  Cardinality(Listening(n)) <= 1
  BY DEF OneProcessPerNode
<1>0. TypeOK /\ ProcInv /\ QuietStarts
  BY DEF RunInv
<1>1. ASSUME NEW p \in Listening(n), NEW q \in Listening(n) PROVE p = q
  <2>0. /\ p \in Procs /\ q \in Procs /\ p # 0 /\ q # 0 /\ proc[p].node = n /\ proc[q].node = n
        /\ Owned(p) /\ Owned(q)
    BY <1>0, <1>1 DEF Listening, QuietStarts, Procs
  <2>1. \A t \in Tasks : h[t].pc = "register" =>
          /\ h[t].node = proc[h[t].p].node /\ reg[cur][h[t].node] = 0
          /\ \A u \in Tasks \ {t} : h[u].pc = "register" => h[u].node # h[t].node
          /\ \A u \in Tasks : h[u].pc \notin {"signal", "reapWait"}
    BY <1>0, StartTypes DEF QuietStarts, StartOK, ProcInv, LaunchOK, Launching, Past, Listed
  <2>2. \A t \in Tasks : h[t].pc \in {"signal", "reapWait"} =>
          /\ reg[cur][proc[h[t].p].node] = 0 \/ proc[h[t].p].node \notin Nodes
          /\ \A u \in Tasks : h[u].pc \in {"signal", "reapWait"} => t = u
    BY <1>0 DEF QuietStarts, ListOK, ProcInv, TerminateOK, Terminating, TypeOK, LockInv, Locked, Listed
  <2>3. \A t \in Tasks : h[t].pc \in Taken => h[t].pc = "register" \/ h[t].pc \in {"signal", "reapWait"}
    BY DEF Taken
  <2>4. CASE reg[cur][n] = p \/ reg[cur][n] = q
    BY <2>0, <2>1, <2>2, <2>3, <2>4 DEF Owned
  <2>5. CASE ~ (reg[cur][n] = p \/ reg[cur][n] = q)
    <3>1. PICK t \in Tasks : h[t].pc \in Taken /\ h[t].p = p
      BY <2>0, <2>5 DEF Owned
    <3>2. PICK u \in Tasks : h[u].pc \in Taken /\ h[u].p = q
      BY <2>0, <2>5 DEF Owned
    <3>3. t = u
      BY <2>0, <2>1, <2>2, <2>3, <3>1, <3>2
    <3> QED
      BY <3>1, <3>2, <3>3
  <2> QED
    BY <2>4, <2>5
<1>2. CASE Listening(n) = {}
  BY <1>2, FS_EmptySet
<1>3. CASE Listening(n) # {}
  <2>1. PICK p : Listening(n) = {p}
    BY <1>1, <1>3
  <2> QED
    BY <2>1, FS_Singleton
<1> QED
  BY <1>2, <1>3

\* Unless a Start races with StopAll's listing or with another Start of its
\* node, a node has at most one process, over every run the agent serves.
THEOREM OneProcessANode == Spec => []OneProcessPerNode
BY OneProcess, RunInvariant, PTL

\* Under the same condition, what a run collects was written by its own
\* processes, although the runs share the work directory and /trace takes no
\* lock.
THEOREM OwnTraces == Spec => []TracesOfThisRun
<1>1. RunInv => TracesOfThisRun
  BY DEF RunInv
<1> QED
  BY <1>1, RunInvariant, PTL

\* When the two passes are over, "fetched %d/%d traces" and the list of missing
\* ones add up, for any number of nodes and attempts.
THEOREM CollectionAddsUp == Spec => []FetchAddsUp
<1>1. RunInv => FetchAddsUp
  BY DEF RunInv, FetchInv, FetchAddsUp
<1> QED
  BY <1>1, RunInvariant, PTL

\* What drive reports as departed did depart, and no departure is missed: it is
\* counted as applied or failed, or its call is still in flight, whatever times
\* out, is lost or answers late.
THEOREM DeparturesCounted == Spec => []DeparturesAccountedFor
<1>1. RunInv => DeparturesAccountedFor
  <2> SUFFICES ASSUME RunInv PROVE DeparturesAccountedFor
    OBVIOUS
  <2>1. /\ downs[run] \in Nat /\ departs \in Nat /\ killFailed \in Nat /\ CountOK
        /\ Cardinality(Kills) \in Nat /\ Cardinality(Departed) \in Nat /\ Cardinality(Waiting) \in Nat
    BY CountTypes DEF RunInv, DepartInv
  <2>2. departs <= downs[run] /\ (cpc # "over" => downs[run] <= departs + killFailed + Cardinality(Kills))
    BY <2>1 DEF CountOK
  <2> QED
    BY <2>2 DEF DeparturesAccountedFor, Kills
<1> QED
  BY <1>1, RunInvariant, PTL
=============================================================================

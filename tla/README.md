# A verification project for topdisc-testbed

The testbed evaluates TopDisc topic discovery on discv5. It runs the same
workload on two backends: thousands of discv5 services in one process over a
simulated network (`cmd/simnet`), or real node processes (`cmd/node`) on hosts
served by an agent (`cmd/hostagent`) and driven by a coordinator
(`pkg/coordinator`). A third program crawls a live network (`cmd/crawl`).

What the testbed must get right is bookkeeping under concurrency: its output is
numbers (slots in use, sessions, packets, departures applied, traces fetched,
nodes up), and goroutines, processes and calls that end, stop or overlap at the
wrong moment make them wrong without any error. The modules here model that
part of each program. TLC checks them on small instances, and TLAPS proves the
main safety properties of every program for any number of nodes, calls,
sessions and packets.

Sources are cited as `path:line` below `src/`.

## 1. Inventory

### In-process backend (`cmd/simnet`)

| part | state | operations | used by |
|---|---|---|---|
| connection table `conn_model.go` | `connTable`: slot counters, `peers`, `outPeers`, `wake` channels, `offline`, `lostAt`, behind one mutex | `dial`, `dropConn`, `dropRandom`, `depart`, `rejoin`, `shouldPark`, `outboundFull` | searchers, churn goroutines, disconnect driver |
| searchers `search.go` | one goroutine per (node, topic): search iterator, seen set, result | `runOneSearcher` under the pacing models conn, continuous, scheduled; `searchManager` | table, hosts |
| churn drivers `conn_model.go`, `churn_model.go` | a goroutine per churning node | `runSessionChurn`, `runModelChurn`, `runDisconnectDriver` | table, hosts |
| host `host.go` | `host`: the published service, counters of stopped instances | `stop`, `start`, `stats` | churn drivers, series |
| overhead series `overhead_series.go` | the samples, `stop`/`done` channels | `sample`, `dump`, `dumpSeries` in `main.go` | teardown and watchdog |
| population churn `workload_churn.go`, `membership.go`, `deadresult.go` | `churnState`: alive indices, membership intervals, dead-result counts | churn rounds, `launch`/`wait` of the search manager | searchers |
| set-up and reports (`main.go`, `nodes.go`, `adapter.go`, `report.go`, `coverage.go`, ...) | none of their own | flags, construction, printing | - |

### Distributed backend

| part | state | operations | used by |
|---|---|---|---|
| node process `cmd/node` | `node`: current session, totals of earlier ones, `done`; `lazyIter`; the goroutines phases, watchAds, watchPeers, sampler | `up`, `down`, `finish`, `trace`; `/up`, `/down`, StopAt, SIGTERM | host agent |
| lookups `pkg/workload/lookup.go` | the lookups recorded so far | `Scheduled`, `Continuous`, `runOne` | node process |
| host agent `cmd/hostagent`, `pkg/host/host.go` | the current `Runner`, its `procs`, the work directory | `/prepare`, `/start`, `/kill`, `/sample`, `/hostmetrics`, `/stop`, `/trace` | coordinator |
| monitor `pkg/host/monitor.go` | samples, `stop`, request channel | `Monitor`, `SampleNow`, `StopMonitor` | host agent |
| coordinator `cloud.go`, `drive.go`, `local.go` | `churnLog`, fetched and failed traces | `RunCloud`, `drive`, `fetch`, `each`, `eachByHost` | the agents |
| plans `pkg/churn`, `pkg/addr`, `pkg/assign`, `place` in `cloud.go` | none: drawn before the run | schedules of absences, addresses, slots and routes | coordinator |
| collection `collect.go`, `trace.go`, `metrics.go`, `cmd/recollect` | none (files in, files out) | planned and applied departures, drops before and after the stop, merged traces | - |
| legacy node `legacy/cmd/node-legacy` | as the node process, on stock discv5 | as the node process | host agent |

### Elsewhere

The crawler `cmd/crawl` (registry, probe loop, table sampler); the pure
functions that plan a run (`pkg/assign`, `pkg/churn`, `pkg/addr`,
`pkg/scenario`, `pkg/wan`); the Distem client (`pkg/distem`); kernel and device
counters (`pkg/host/netns*.go`, `ena*.go`); Python and shell around runs.

### What is hard here

- **Checks made outside the lock they guard.** `runOneSearcher` asks
  `shouldPark` and dials later; `dropRandom` picks a connection and drops it
  later; `Start` tests the process table and registers later; `ping` decides
  which counter it belongs to before it is sent.
- **Operations made of several critical sections.** `depart` drops a snapshot
  of connections one lock at a time; `host.stop` unpublishes, absorbs, closes;
  `downLocked` cancels, closes, stops, waits, reads and folds in that order.
- **Channels as wake-ups and limits.** One-token wake channels shared by all
  searchers of a node; an event channel of 64 that a stopped reader no longer
  empties; the probe channels of the crawler.
- **Ends.** StopAt, SIGTERM, `/down` and `/up` in any order; two callers of
  `dumpSeries`; `srv.Stop` waiting for goroutines that wait for something else.
- **Calls that outlive their caller.** A `/prepare` or `/kill` the coordinator
  gave up on is served on, perhaps during the next run.
- **Figures of several moments.** The churn report adds up numbers that another
  goroutine still changes; the verdict on drops compares samples that may have
  read only some of the counters.

The list, line by line, is under `hazards` in `PROJECT.json`, each with the
properties that would catch it.

## 2. Modules

    ConnTable   <- SearchChurn <- MCSearchChurn        in-process backend
    Population  <- PopChurn    <- MCPopChurn           population churn
    NodeSession <- MCNodeSession                       a node process
    TraceMerge  <- LegacySession                       a legacy node process
    HostAgent   <- RunDrive    <- MCRunDrive           agent and coordinator
    ChurnPlan, Placement, HostDrops, FetchPool, SimHost <- MCCampaign
                                                       around a run
    Crawl       <- MCCrawl                             the crawler

(`<-` reads "is used by"; Population and TraceMerge are the references the
module to their right is compared with.)

The proofs about a component are in a module that extends it:
SearchChurnProofs (ConnTable and SearchChurn), PopChurnProofs, CrawlProofs,
NodeSessionProofs, LegacyProofs (LegacySession and TraceMerge), RunDriveProofs
(HostAgent and RunDrive), and PartProofs (SimHost, ChurnPlan, Placement,
HostDrops and FetchPool, which share no variable). SumFacts has the lemmas on
sums over finite sets that several of them cite.

An action is one critical section, one channel operation, or one call whose
effect others can see; what a goroutine does between two of those is local and
part of the step. Times become nondeterministic delays, and payloads shrink to
what a property compares (a packet is one count, a lookup is how it ended).
"Faulty variant" operators are not used by the specifications: each is the
mutation that shows that a property can fail.

**ConnTable** (`cmd/simnet/conn_model.go`). Variables are the fields of
`connTable`. Actions are its critical sections: `Connect`, the two ways `dial`
fails, `Drop`, `MarkOffline`, `MarkOnline`, and `Signal`/`Receive` on a wake
channel. `TableSpec` lets anyone call them in any order. It is what the table
promises by itself.

**SearchChurn** (`search.go`, `churn_model.go`, the processes of
`conn_model.go`). The searchers as state machines under the three pacing
models, `depart`/`rejoin` split at their locks, host stop and start, the
disconnect driver, and the deadline. Composes with ConnTable by extension: the
table's variables change only by its operators, as in the code every change is
made by a method of `connTable` under its mutex, so what is checked of the table
is its counters and limits under the processes that call it. A schedule is where
it is (`scheduleIdx`, counted when an interval is taken) and what was looked up
(`lookups`, counted at the end of a session). Discovery is external: a live
search may yield any registrant.

**SimHost** (`host.go`, `overhead_series.go`, `dumpSeries` in `main.go`). One
host, its instances and endpoints, the sampling goroutine with the points at
which it reads, and the two callers of `dumpSeries`, whose `sync.Once` lets one
of them dump and the other wait. The history variable `packets` is what was
really sent.

**NodeSession** (`cmd/node`, `pkg/workload/lookup.go`). `ctl` admits one
operation; `up`, `down` and `finish` are sequences of steps under it. The
session's goroutines, `lazyIter` (ready, Next, Close), the lookup loops and the
select of `runOne`, the StopAt timer and the signal all interleave with it. The
p2p server is external: traffic, peers, the event feed and a `Stop` that waits
for the dial scheduler and the peers.

The constant `Jobs` is a set of records (search model, arrival, number of
lookups and the bounds that go with them) from which Init picks one, so that a
run covers several jobs and each has only the traffic its question needs.

**LegacySession** (`legacy/cmd/node-legacy`). The same life as NodeSession in
separate code: the random-walk lookups, `walkIterator`, the capable-peer watch
and the rules by which `fold` and `trace` treat each field. The history
variable keeps, for every session, the file the session would have left as a
process of its own.

**TraceMerge** (`pkg/host/trace.go`). `LoadTrace` and `mergeTraces` as operators
over such files. A comment of the legacy node names them as the rules of its
own trace ("The per-field rules are host.LoadTrace's", `session.go:501`), and
`LegacyLedger` compares the two.

**Population** and **PopChurn** (`workload_churn.go`, `membership.go`,
`deadresult.go`, `searchManager` and `liveStats` in `search.go`). Population
says what churn does to the set of nodes: they leave one at a time and for good,
never the bootnode, and joiners are new. PopChurn has the `alive` slice with its
index map and the swap-remove, the churn goroutine's rounds one lock at a time,
the searchers with their local tallies, `wait` with its hard limit, and the
order of stops that precedes the report. It implements Population with
`present <- ToSet(alive)` and `left <- killed`.

**HostAgent** (`cmd/hostagent`, `pkg/host`). A handler per call in flight, the
agent's `mu`, one `Runner` per run, node processes with launch, SIGTERM,
SIGKILL, exit and reap, and the monitor. The log directory and the assignments
of a run are written in one step, so a start between the two is not modelled.

**RunDrive** (`pkg/coordinator/cloud.go`, `drive.go`). One coordinator process
per run on the same agent: prepare, starts, churn calls, the sample at the
stop, both passes of the trace fetch, host metrics and the deferred stop. Calls
may be lost or time out, and a call that timed out is served on.

**Crawl** (`cmd/crawl/main.go`). The registry entry of each node, the probe
loop with its two channels and worker pools, the sampler, a random walk, and
main's shutdown. Answers may be processed after the service was closed, and a
node may be due again before the event of its last ping is written (the probe
interval has no lower bound): the history variable `rushed` names such nodes.
The constant `Setups` plays the part of `Jobs` above.

**ChurnPlan** (`pkg/churn/model.go`, `drive.go`, `planned` in `collect.go`). One
node's schedule drawn step by step with every random draw a choice, then driven
as kill and start calls, then counted. Calls are listed at their planned time and
reach the node; those that are lost, late or refused are RunDrive's.

**Placement** (`pkg/addr`, `DrawPrefix`, `DrawTopics`, `place`,
`placeByPrefix`, `prefixRoutes`). Addresses drawn from the crawl's /24s, whole
/24s put on hosts (pins are then not read, section 6), or nodes put on hosts by
pinned region and fill order; the routes that result.

**HostDrops** (`monitor.go`, `netns*.go`, `collect.go`). Counters of one of the
four kinds (namespaces, the host's ARP counters, its ENA device, its UDP
counter) that really rise, are read in whole, in part or not at all, and may
start again; the rules that turn samples into a count up to the stop, a count
after it and gaps. The history variables are what was really lost, and whether a
host's UDP counter was kept as a zero because it could not be read (`misread`).

**FetchPool** (`each`, `eachByHost` in `cloud.go`). Queues, workers, the
semaphore, the first error.

**MCCampaign** holds these four and SimHost side by side. They share no state, so a
behaviour runs one of them (variable `part`) and their state spaces add up
instead of multiplying.

## 3. Runs

All passing runs finish with no state left on the queue. Deadlock checking is
off in the runs that model programs which end; NodeSession says so by its
`Gone` step, and `node_ledger` checks for deadlock.

| run | what it asks | distinct states |
|---|---|---|
| `conn_shared` | two topics of one node and one of another, conn and continuous: exact slots, no node over its limits, no pair connected both ways, no lost wake-up | 2.5 M |
| `conn_wakes` | liveness of parked and departed searchers, complete schedules, isolation of departed nodes | 0.42 M |
| `pop_churn` | the population, the report and the end of the churn workload | 0.80 M |
| `node_ledger` | totals, samples, lookups and trace over several sessions and search models | 4.3 M |
| `node_stops` | every operation returns, the process ends | 0.24 M |
| `legacy_node` | the legacy node's ledger, its cut lookups, its stops | 2.6 M |
| `host_runs` | two runs on one agent: processes and traces do not mix | 0.68 M |
| `host_calls` | departures and fetches add up, every call is answered | 0.22 M |
| `campaign` | schedules, placement, verdict on drops and pools, for every small input; the series of a simulated host, nothing counted twice and dumped whole | 0.81 M |
| `crawl` | nodes queued once, event log, probe schedule, the stop and the last sweep | 0.43 M |
| `one_token_two_topics` | violation: see section 6 | - |
| `unread_udp` | violation: see section 6 | - |

### Properties, by component

- *Table and searchers.* `SlotAccounting`: the counters of the report are those
  of the connections. `WithinCapacity`: no node has more slots in use, or lost
  and to be refilled, than it has. `OneConnectionPerPair`: two nodes that dial
  each other end with one connection. `GoneIsIsolated`: a departed node has no
  connection once `depart` has returned. `NoLostWakeup`: a searcher that looks
  up for as long as the phase lasts (`Enduring`) is not left blocked with work
  to do and no signal on its way. `ParkedSearcherWakes`, `WaiterResumes`: the
  signal sent after the unlock arrives. `EveryIntervalLookedUp`: departures
  neither shorten a schedule nor repeat or skip an interval of it.
- *Population churn.* `FoundWithinAssigned`: a checkpoint never sees more
  registrants found than there are. `ResultsComplete`: unless the hard limit cut
  `wait` short, it returns the results of every searcher launched by the time
  the last of them ended, joiners included (a later one: section 6).
  `ReportAddsUp`: populations, joins, dead results and find counts agree
  although late searchers still write when they are read. `PopulationSpec`: the
  refinement. `WorkloadEnds`: also when searchers of killed nodes hang.
- *Host and series.* `StatsNeverOvercount`; `DumpIsComplete`: whoever is past
  `dumpSeries` finds the whole series on disk.
- *Node process.* `LedgerExact`: every packet and every registrant found is in
  the totals once, whatever the order of departures. `SamplesCumulative`,
  `TraceCoversRun`, `NoSearchOnStoppedServer`, `RecordedWithinSchedule`,
  `OperationEnds`, `ExitsAfterStop`.
- *Legacy node.* `LegacyLedger`: the ledger, and the trace against `LoadTrace`.
  `CutLookupsUnrecorded`. `OperationNeverStuck`: whenever an operation is under
  way, a step that goroutines owe is enabled. Sessions owe finitely many steps
  (no request, signal, packet or peer is among them), so this is the safety form
  of "every operation returns", cheap enough for the whole state space.
- *Agent and coordinator.* `OneProcessPerNode`, `OwnExitNotKilled`,
  `TracesOfThisRun`, `DeparturesAccountedFor`, `FetchAddsUp`,
  `EveryCallAnswered`. The first and third exclude, by the history variable
  `raced`, two starts of a node that both find it not in the table, and a start
  under way when StopAll lists the table: there the code does launch a second
  process or leaves one running (hazard at `pkg/host/host.go:207`). A start that
  is overtaken without that is not excluded.
- *Around a cloud run.* `DrivenAsPlanned`: drive makes exactly the calls that
  `planned` counts, in order, none of which the node refuses. `PlacementSound`:
  own slots, own addresses, one route per /24 and host; and in a placement by
  region the pins respected and no error while a placement exists.
  `DropVerdictSound`: as long as no sample kept a zero for an unread host
  counter, the drops reported happened, and "no packet drops" is true (without
  that condition the first half is `DropsHappened`, which the code violates).
  `EveryJobOnce`: each index once, both limits, the error kept, and never stuck.
- *Crawler.* `QueuedOnce`. `LogFollowsRegistry`: no session event is lost or
  written twice, and a node's events alternate unless it was `rushed`.
  `FinalSweepAddsUp`: the pings of each pool are accounted for, pings and pongs
  being those on the probe schedule. `FastNodesProbed`, `EndsAfterStop`.

### Bounds, and why they are enough

What section 4 lists as proved does not depend on a bound. For the rest:

- *Nodes.* Every conflict in the table is between two endpoints of a connection
  and a third party, so three nodes suffice; with `MaxPeers = 2`,
  `DialRatio = 2` each has one outbound and one inbound slot, so they are full
  after one dial.
- *Searchers.* Two on one node, sharing its channel, and one on another in
  `conn_shared`; one in `conn_wakes`, where a node's channel has one reader.
- *Departures* once per churning node (in `conn_wakes` two churners overlap),
  *drops* 1 or 2, so a driver's drop can fall into a departure, before or after
  it.
- *PopChurn.* A bootnode, one other node with a topic, a legacy node, and up
  to two churn rounds of two actions before the deadline and one tick beyond it
  for the hard limit. The constant `Setups` splits what would be too large
  together: kill-only with three results, one joiner with three results, two
  joiners of one round (spawned concurrently, admitted in order) with one.
- *NodeSession.* One peer, two control calls where packets are counted and three
  where searches are: away, back and away again before or after StopAt. An event
  channel of one, so that it is full after one event (the code has 64). Two
  packets and two samples straddle a fold.
- *LegacySession.* Two requests and a budget of two packets, samples, events,
  finds and capable records together: any two of them, in any two sessions.
- *Campaign.* A window of six with gaps of two and four: up to three absences,
  ending before, at and past the window. Four nodes, two /24s with two addresses
  each, six inventories with enough, just enough and too few slots. Two hosts
  (interchangeable, hence the symmetry), two namespaces, a stop with samples
  before, at and after it; counters start at zero, which for the host's own only
  makes what an unread sample adds as small as it can be. Five jobs on two hosts
  with three places in all.
- *HostAgent/RunDrive.* One node per host, since processes of different nodes
  share only `mu` and the directory, both in the model; two runs, two
  processes, one fault (a lost call or a timeout served late). `Attempts = 1`
  for three fetches in the code. `host_calls` has a monitor, `host_runs` has
  none.
- *Crawl.* One worker per pool and channels with one place, so both are full
  with two nodes; `Misses` 1 and 2. One setup has two nodes and no sampler, one a
  node that is probed five more times and may be due before its event is written,
  and one a node whose record changes, and the sampler.

### Fairness

Goroutines are scheduled and timers fire: weak fairness of each goroutine's next
step. Strong fairness is assumed of `sync.Mutex` (which hands the lock over to a
waiter after a millisecond), of a search iterator whose service was closed and
that runs out of buffered results, and of handlers waiting for `mu`. Requests of
discovery and HTTP calls have timeouts in the code. Nothing is assumed of the
searchers of killed nodes in PopChurn ("observed when a node is killed
mid-search", `search.go:788`), of departures, results, faults, signals, traffic,
the coordinator's calls or the moment a run is stopped.

## 4. Proofs

TLAPS checks the theorems below. Each is of the form `Spec => []P` or a
refinement, and follows from one inductive invariant per specification: it holds
initially, every action keeps it (one lemma or one step per action), and it
implies `P`. The runs' bounds are constants, and the proofs hold for every value
of them. The assumptions are the `ASSUME`s of the modules: constants have their
types, sets of nodes and peers are finite, capacities and limits that the code
requires to be positive are positive. They contain nothing about the behaviour
of the programs. No theorem uses fairness.

### SearchChurnProofs

- **`TableTypeCorrect`, `TableCorrect`**: `TableSpec => []TableInv`, with
  `TableInv` the conjunction of `TableTypeOK`, `SlotAccounting`,
  `OneConnectionPerPair` and `WithinCapacity`. The conjunction is inductive and its parts are not: `Drop` removes both `peers`
  entries, which is right only if no pair is connected both ways, and it
  decrements `in` once, which is right only if the counters are exact;
  `WithinCapacity` of `MaxIn` needs the lemma `Budgets` on the rounding of
  `newConnTable`.
- **`SystemTypeCorrect`, `SystemSlots`**: types, and the three properties of the
  table for the whole system: `TableInv` is kept by every step of a searcher, a
  churn goroutine and the driver, whatever they tested before they took the lock.
- **`DepartedIsIsolated`**: `[](AwayKeepsOnlyPending /\ GoneIsIsolated)`. The
  inductive invariant `IsolationInv` adds `ChurnPhases` (which phases of a churn
  goroutine are those of an offline node and what its two snapshots hold). The
  key facts: connections are only added between online nodes (`ConnectFacts`),
  drops only remove (`DropFacts`), so what an away node holds is within the
  snapshot its own departure took, however many departures overlap.
- **`WakeupsAreKept`**: `NoLostWakeup`. `WakeInv` adds that a node with a blocked
  searcher that has work to do has a token, a signal on its way or a searcher
  that is at work and will look at the slots again (`SignalKept`). The proof
  showed that an earlier statement of the property was too strong: of two
  scheduled searchers of one node, the one past its last lookup may take the
  node's only token with it. `Enduring` names the searchers for which it holds.
- **`NoIntervalSkipped`**: `EveryIntervalLookedUp`, from `IntervalInv`: inside a
  lookup `scheduleIdx` is one ahead of `lookups`, between lookups and while the node
  is away they are equal, and a searcher that is done before the deadline has made
  all of them.

### PopChurnProofs

`PopInv` is `TypeOK` with `RoundInv` (joiners are numbered as they are planned,
and `Upto` says how far the round has come), `PopulationInv` (every node that
took part is in `alive` once or killed), `MemberInv` and `FindInv` (topics,
assigned and registered counts lag behind each other in the order of the
critical sections; what is counted as found was seen), `SearchInv` and
`ReportInv`.

- **`ChurnImplementsPopulation`**: `Spec => PopulationSpec`. The lemma on
  `SwapRemove` (it removes one element and moves one) makes a kill an abstract
  departure, the one on the redraw (`CandidateFacts`: going on from the bootnode's
  place, round the end, never comes back to it) keeps the bootnode, and
  `PopulationInv` makes an admitted joiner new.
- **`CheckpointsNeverNegative`** (`FoundWithinAssigned`), **`WaitReturnsAll`**
  (`ResultsComplete`), **`PopulationTypes`**.
- **`SummaryAddsUp`** (`ReportAddsUp`). The populations and find counts follow
  from `PopInv`. For the totals of dead results `TotalInv` adds that a topic's
  total is the sum over the searchers that have merged (`TopicTotals`), each
  merging before it is done and changing nothing after.

### NodeSessionProofs and LegacyProofs

`NodeInv` is `TypeOK` with the order of the steps under `ctl` (`Lifecycle`: an
operation relies on what it tested, because the lock keeps the others out),
`GoroutinesInside` (`wg.Wait` keeps the final snapshot and `fold` behind the last
goroutine), `SearchClosed` (`closed` is set before `Close` takes the lock and
read again under it) and the four ledgers, each with what a snapshot held by a
goroutine may lag behind by.

- **`LedgerIsExact`**, **`SeriesIsCumulative`**, **`TraceIsComplete`**,
  **`SearchDiesWithServer`**, **`LookupsWithinSchedule`**, **`NodeTypes`**: all
  safety properties of NodeSession.
- **`LegacyCountsAddUp`**, **`CutWalksDropped`**, **`LegacyTypes`** say the same
  of the legacy node, whose `LegacyInv` is built alike and adds `CutInv`: a walk
  that was cut ended with `stop` closed, where the test that follows finds it.
- **`OperationsGoOn`** (`OperationNeverStuck`): `GoingInv` says what `down` has
  done by the time it waits. With `stop` closed every goroutine of the session
  has a step, with the iterator closed so has the dialer, and without a
  subscriber a full event channel holds nobody.
- **`OneTraceAsMerged`** (`LegacyLedger`): the trace of a node that stays is, field
  by field, what `LoadTrace` makes of one file per session. `MergeInv` says at
  every moment before the trace is written that the node holds the merge of the
  files so far and what the session that is up has added (`AsMerged`). The proof
  needs what `mergeTraces` computes when there is one file more (`MergeOneMore`:
  a sum, a joined list, the carried samples, the earliest age and the finds each
  have a lemma), and that the merge of one file is that file (`LoadIsMerge`), as
  `LoadTrace` returns it unmerged. From `LegacyInv` it takes that samples and peer
  events are added only while their session is up (`GoroutinesInside`), so they
  belong to a file that is still open, and that the trace is written once.

### RunDriveProofs

`RunInv` combines what one lock, one process table per `Runner` and calls that
are served after their client gave up leave true: `mu` is held by exactly the
handler that is between `Lock` and its end (`LockInv`); a process is in at most
one place of the tables, launched and terminated in order (`ProcInv`); a
`/prepare` of a run is served once (`PrepareOnce`); and, unless two starts of a
node both found it not in the table or one was under way when StopAll listed it
(`raced`), every running process is in the table of its run and the files in the
work directory are that run's (`QuietStarts`, `QuietFiles`).

- **`OwnExitsAreOwn`** (`OwnExitNotKilled`), **`OneProcessANode`**
  (`OneProcessPerNode`), **`OwnTraces`** (`TracesOfThisRun`), **`HostTypes`**.
- **`CollectionAddsUp`** (`FetchAddsUp`): during the fetch, fetched, failed and
  open nodes add up to all of them (`FetchInv`).
- **`DeparturesCounted`** (`DeparturesAccountedFor`): `CountOK` counts the calls
  answered, served and in flight against the departures made.

### PartProofs

- **`PoolRunsEveryJob`** (`EveryJobOnce`). `PoolInv`: an index is queued, held, in
  a call or done, in one of them only, and both limits are kept (`LimitInv`). The
  pool is never stuck because a held index waits for the semaphore only while
  somebody is in a call, and a host with a queue and no busy worker has one to
  take from it.
- **`CallsAsPlanned`** (`DrivenAsPlanned`): for every window, crawl interval and
  set of absences. `PlanInv` keeps absences in order, `DriveInv` ties the state
  of the node to the half of the event drive is at, `CallInv` counts the calls
  made by the events behind it.
- **`NodesArePlaced`** (`PlacementSound`). `PlaceInv` has one part per stage: an
  octet drawn is within what its /24 has used up, so addresses differ
  (`DrawInv`); a /24 is on one host, whose slots are taken from the front
  (`GroupInv`), which gives own slots and one route per host; by region, pinned
  nodes are where they are pinned (`PinInv`). A placement by region that fails
  shows that more nodes want slots than there are, in the region of the pin or
  in all; this counts slots and does not depend on the order of the map walk.
- **`VerdictIsSound`** (`DropVerdictSound`). `DropInv`: on each host the rises
  between the points of comparison, with the rise since the last of them, are at
  most what was lost (`LossOf`), although counters restart and samples are read
  in part, as long as no sample kept a zero for an unread host counter
  (`misread`); and a whole sample taken after the stop shows what was lost until
  then (`SeriesOf`). The two halves of the verdict cut the series at the stop: a
  part of a series never rises by more than the whole (`WholeAndCut`).
- **`NothingCountedTwice`** (`StatsNeverOvercount`): what the host has absorbed,
  with the count of the instance it has not, is within `packets`
  (`AbsorbedOnce`); so is what `stats` has copied and still adds (`SeriesInv`).
- **`DumpsAreComplete`** (`DumpIsComplete`), **`SeriesTypes`**. `DumpInv`: while one
  caller makes the dump nobody is past it, and it waits for the last sample.

### CrawlProofs

- **`QueuedInOnePlace`** (`QueuedOnce`): the queued nodes are the disjoint union
  of the two due sets, the two channels and the nodes under a worker
  (`PlaceInv`), and no two workers hold one node (`HolderInv`).
- **`LogIsTrue`** (`LogFollowsRegistry`): of a node that was never `rushed`, the
  event a worker has still to write is the step from the log to the registry
  (`LogInv`); of any node, the events written and those still with a worker balance
  with its state (`BalanceInv`).
- **`SweepAddsUp`** (`FinalSweepAddsUp`). `SweepInv` says that nothing counted
  changes after the workers have ended. `CountInv` adds, for each of the two
  schedules, that every ping counted is a pong, an error, an attempt noted for its
  node or still in a worker's hands; that no two workers hold one node
  (`HolderInv`) is what lets the last be counted by node, and what leaves a node on
  the schedule on which its ping was counted (`SentInv`).
- **`CrawlTypes`**.

### Sums and joined sequences

The community modules define `SumFunctionOnSet` and `FlattenSeq` by recursive
functions over subsets and over positions. Nothing can be derived from such a
definition before it is known that a function satisfies its equation, and the
library's induction theorems take an operator. SumFacts and LegacyProofs do
without: a solution exists and any two agree because, in the set of sizes at
which one would fail, there is no least one (`LeastNumber`, from `WFMin`). The
rest (a sum takes one element after the other, in any order; sums of equal,
smaller and updated functions; a flattened sequence and one sequence more) is
shown the same way.

### Only model-checked

Liveness, all of it: `ParkedSearcherWakes`, `WaiterResumes`, `OperationEnds`,
`ExitsAfterStop`, `EveryCallAnswered`, `FastNodesProbed`, `EndsAfterStop` and
`WorkloadEnds`. The prover has no rule for fairness or ENABLED.
`OperationNeverStuck` and the last part of `EveryJobOnce` are stated with the
guards of the actions instead of ENABLED, which is what they mean, and are proved.
Every invariant that a passing run checks is proved.

## 5. Not modelled

Reports and printing; set-up; parsing of scenarios and static tables; loading
and evaluating the fitted churn curves; `metrics.go` (percentiles and averages
of finished traces); the printing half of `collect.go`; parsing of kernel files
and ioctls; the workloads without churn, which use the searchers and the manager
that are modelled; `waitAgents`; the Distem client; Python and shell.
`PROJECT.json` gives the reason for each. External code is modelled from its
use: go-ethereum's p2p server and discovery, `net/http`, process exits, kernel
counters.

Left out of parts that are modelled:

- The legacy node's trace is taken as written. That the file cannot be written is
  modelled for the TopDisc node, which logs it and goes on likewise.
- In ChurnPlan the calls of `drive` reach the node at their planned time. A
  coordinator that is late makes the same calls in the same order; calls that are
  lost, refused or given up are in RunDrive.
- `launch` calls `wg.Add` and `wait` calls `wg.Wait` (`search.go:767`, 793). That
  `sync.WaitGroup` may panic when a late `Add` meets a `Wait` that is just returning
  is not modelled; that a late searcher's result is missing is (section 6).
- The searchers run with a connection table. Without one (`pacing.Conns == nil`) a
  searcher whose node is away polls once a second (`search.go:456`) and a
  connection-driven one ends after its first session (`search.go:685`).
- `TopicCacheOccupancy` (`overhead_series.go:185`), a round trip to the service in
  the middle of a sample, is taken to return, so that the dump ends is not a
  property here.
- Where two starts of a node or a start and StopAll are `raced`, the properties of
  HostAgent and RunDrive say nothing of what follows.

## 6. Where comments and code disagree

`one_token_two_topics` shows one: `rejoin` sends one token (`conn_model.go:388`)
while all searchers of a node share its channel, so of two topics of a node one
stays blocked after the node is back, although "A departed node waits for its
rejoin before looking up again" (`search.go:674`). With one searcher per node
the same property holds (`conn_wakes`).

`unread_udp` shows another: `hostDrops` takes the host's UDP counter from every
sample (`collect.go:481`), and one that could not read `/proc/net/snmp` keeps a zero
(`monitor.go:324-328`). "A counter's rise is summed between the samples that
measured it, a fall being a reset after which the new value is all rise"
(`collect.go:335-337`): the zero is the fall, and the next sample adds the whole
counter, which counts since the host was booted, to the drops of this run. The
other three sources say when they were not read, and of them the property holds
(`campaign`).

Others met while modelling. The models take these paths, no property states the
opposite:

- `sweepEvent` says that `pings` are "to nodes that ever answered", `pongs` "from
  them" and `deadPings` "to nodes that never answered"
  (`cmd/crawl/main.go:419-421`). The code goes by the schedule (477-495): pings of
  nodes within their first tries, and what they answer, are in `pings` and `pongs`.
  `FinalSweepAddsUp` states the sums as the code makes them.
- `scenario.network.node_regions` pins nodes to regions (`scenario.go:371`) and the
  bootnode goes to the home region (`cloud.go:514-516`). With crawl addresses
  `place` returns `placeByPrefix` (`cloud.go:586-588`), which does neither, and
  nothing refuses a configuration with both. `PlacementSound` asks for pins in a
  placement by region only.
- Up and down events of a node are written after the registry is unlocked
  (`cmd/crawl/main.go:527`). With a probe interval shorter than a worker's delay they
  may be written in another order than the states they tell of.
- A lookup cut short by a departure may be recorded: `downLocked` closes `stop`
  and then stops the server, which ends the iterator, and the select of
  `runOne` (`pkg/workload/lookup.go:97`) takes either; the comment at 45-46 says
  it is not recorded.
- A sample between the two sections of `host.stop` (`host.go:97`) misses an
  instance, so a cumulative series may go down, and packets counted between
  absorb and Close are in no sample.
- Pings that fail because the crawler has closed its service count as misses, so
  nodes are logged as down at the stop (`cmd/crawl/main.go:516`; the flag says
  "unanswered pings in a row", line 70).
- A searcher that left its loop with full slots tests them again before it parks
  (`search.go:685`): a drop in between ends it for good. Likewise
  `search.go:658` decides from the present whether a departure ended a
  continuous search.
- With the lookup-only table the searchers still dial (`search.go:607`).
- A drop of an away dialer's connection counts as a loss (`conn_model.go:106`).
- `watchPeers` may charge an added peer to the clock of a lost one of the other
  kind (`cmd/node/session.go:544`), and `watchAds` may keep a snapshot of a
  stopped server (`session.go:460`).
- A churn round begun before the deadline launches its joiners' searchers after
  `wait` began (`workload_churn.go:279-280` says the test of the deadline
  prevents it). If every other searcher has ended by then, `wait` has returned
  or will return without the late one's result, and nothing in the report says
  so. `ResultsComplete` states what does hold; `ReportAddsUp` holds because the
  report waits for the churn goroutine.
- With `common_topic` a node's own topic is the drawn one moved up by one
  (`assign.go:315`), and its address is drawn for the moved number, that is from
  the /24s of the next topic of the crawl or, past the last, of all nodes;
  Placement follows the code.
- A sample without `NetnsExpected` takes the largest number of namespaces read so
  far as what there was to read (`collect.go:424`), so a source that was never
  read in whole would count as whole; samples of this version always carry it.

## 7. Plan

Done: the modules of section 2, the runs of section 3, the proofs of section 4.

Still open in the model: `waitAgents` and the building of the per-node
configurations. Still open in the proofs: that the searchers, sessions and
calls end, which would need the liveness rules the prover lacks.

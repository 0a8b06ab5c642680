------------------------------ MODULE SimHost ------------------------------
(***************************************************************************)
(* One node's discovery service in the in-process backend (cmd/simnet/     *)
(* host.go), stopped and started again by its churn goroutine, while the   *)
(* overhead sampler (cmd/simnet/overhead_series.go) reads its counters and *)
(* the end of the run dumps the series.  The normal teardown and the       *)
(* absolute watchdog both ask for the dump and may both do so; a sync.Once *)
(* of main.go lets one of them make it and the other wait for it.          *)
(*                                                                         *)
(* Every start makes a new instance with its own endpoint.  Counters are   *)
(* one number per instance: what the instance's discover.WireStats and its *)
(* endpoint count.  A step is a critical section of host.mu, of the        *)
(* endpoint registry or of the series, or one call on the instance.        *)
(***************************************************************************)
EXTENDS Integers, Sequences, Functions

CONSTANTS
  Dumpers,      \* callers of dumpSeries
  MaxInstances, \* bound: instances of the node
  MaxTraffic,   \* bound: packets
  MaxTicks      \* bound: periodic samples

ASSUME SimHostAssumption ==
  MaxInstances \in Nat \ {0} /\ MaxTraffic \in Nat /\ MaxTicks \in Nat

VARIABLES
  instances,  \* endpoints registered so far, one per instance
  open,       \* the newest instance is open
  disc,       \* host.disc: the published instance, 0 while away
  count,      \* the counters of each instance
  packets,    \* history: packets so far
  absorbed,   \* host.wire
  churn,      \* where the churn goroutine is
  sampler,    \* where the sampling goroutine is
  endpoints,  \* the sample's endpoint counters
  copy,       \* stats: host.wire as copied ...
  live,       \* ... and host.disc as read with it
  overhead,   \* the series: endpoint counters and per-type counters
  ticks,      \* samples started
  stopping,   \* o.stop is closed
  finished,   \* o.done is closed
  dumper,     \* where each caller of dumpSeries is; "done" is past it
  dumped      \* the length of the series on disk

hostVars   == <<instances, open, disc, count, packets, absorbed, churn>>
sampleVars == <<sampler, endpoints, copy, live, overhead, ticks, finished>>
dumpVars   == <<stopping, dumper, dumped>>
simVars    == <<hostVars, sampleVars, dumpVars>>

Instances == 1..MaxInstances

\* The counters of instance i, if there is one, added to those kept so far.
MergeStats(kept, i) == kept + IF i = 0 THEN 0 ELSE count[i]

SimInit ==
  /\ instances = 1 /\ open = TRUE /\ disc = 1
  /\ count = [i \in Instances |-> 0] /\ packets = 0
  /\ absorbed = 0 /\ churn = "up"
  /\ sampler = "idle" /\ endpoints = 0 /\ copy = 0 /\ live = 0
  /\ overhead = <<>> /\ ticks = 0 /\ finished = FALSE
  /\ stopping = FALSE
  /\ dumper = [d \in Dumpers |-> "running"]
  /\ dumped = 0

-----------------------------------------------------------------------------
(* host.stop and host.start, called by the churn goroutine. *)

Packet ==
  /\ open /\ packets < MaxTraffic
  /\ count' = [count EXCEPT ![instances] = @ + 1]
  /\ packets' = packets + 1
  /\ UNCHANGED <<instances, open, disc, absorbed, churn, sampleVars, dumpVars>>

\* Faulty variant: the instance stays published while it is stopped.
StopKeepsPublished ==
  /\ churn = "up"
  /\ churn' = "absorb"
  /\ UNCHANGED <<instances, open, disc, count, packets, absorbed, sampleVars, dumpVars>>

\* The service is unpublished ...
StopUnpublishes ==
  /\ churn = "up"
  /\ disc' = 0
  /\ churn' = "absorb"
  /\ UNCHANGED <<instances, open, count, packets, absorbed, sampleVars, dumpVars>>

\* ... its counters are added to the host's ...
StopAbsorbs ==
  /\ churn = "absorb"
  /\ absorbed' = MergeStats(absorbed, instances)
  /\ churn' = "close"
  /\ UNCHANGED <<instances, open, disc, count, packets, sampleVars, dumpVars>>

\* ... and it is closed.
StopCloses ==
  /\ churn = "close"
  /\ open' = FALSE
  /\ churn' = "down"
  /\ UNCHANGED <<instances, disc, count, packets, absorbed, sampleVars, dumpVars>>

\* start: a new endpoint is registered and a new service listens on it ...
StartListens ==
  /\ churn = "down" /\ instances < MaxInstances
  /\ instances' = instances + 1
  /\ open' = TRUE
  /\ churn' = "publish"
  /\ UNCHANGED <<disc, count, packets, absorbed, sampleVars, dumpVars>>

\* ... and is published.
StartPublishes ==
  /\ churn = "publish"
  /\ disc' = instances
  /\ churn' = "up"
  /\ UNCHANGED <<instances, open, count, packets, absorbed, sampleVars, dumpVars>>

ChurnStep ==
  StopUnpublishes \/ StopAbsorbs \/ StopCloses \/ StartListens \/ StartPublishes

-----------------------------------------------------------------------------
(* overheadSeries.sample *)

\* A tick, or the final sample once stop is closed: the select takes either
\* when both are ready.  The final sample takes the same steps, marked "last".
SampleTick ==
  /\ sampler = "idle" /\ ticks < MaxTicks
  /\ ticks' = ticks + 1
  /\ sampler' = "endpoints"
  /\ UNCHANGED <<endpoints, copy, live, overhead, finished, hostVars, dumpVars>>

FinalTick ==
  /\ sampler = "idle" /\ stopping
  /\ sampler' = "lastEndpoints"
  /\ UNCHANGED <<endpoints, copy, live, overhead, ticks, finished, hostVars, dumpVars>>

\* A restarted node has one endpoint per instance; its counters add up.
Endpoints == SumFunctionOnSet(count, Instances)

ReadEndpoints ==
  /\ sampler \in {"endpoints", "lastEndpoints"}
  /\ endpoints' = Endpoints
  /\ sampler' = IF sampler = "endpoints" THEN "stats" ELSE "lastStats"
  /\ UNCHANGED <<copy, live, overhead, ticks, finished, hostVars, dumpVars>>

\* host.stats: the absorbed counters and the published instance ...
CopyStats ==
  /\ sampler \in {"stats", "lastStats"}
  /\ copy' = absorbed /\ live' = disc
  /\ sampler' = IF sampler = "stats" THEN "merge" ELSE "lastMerge"
  /\ UNCHANGED <<endpoints, overhead, ticks, finished, hostVars, dumpVars>>

\* ... whose counters are read after host.mu is released; then the sample joins
\* the series.
AppendSample ==
  /\ sampler \in {"merge", "lastMerge"}
  /\ overhead' = Append(overhead,
       [endpoints |-> endpoints, wire |-> MergeStats(copy, live)])
  /\ sampler' = IF sampler = "merge" THEN "idle" ELSE "ended"
  /\ UNCHANGED <<endpoints, copy, live, ticks, finished, hostVars, dumpVars>>

SamplerEnds ==
  /\ sampler = "ended" /\ ~ finished
  /\ finished' = TRUE
  /\ UNCHANGED <<sampler, endpoints, copy, live, overhead, ticks, hostVars, dumpVars>>

SamplerStep ==
  SampleTick \/ FinalTick \/ ReadEndpoints \/ CopyStats \/ AppendSample \/ SamplerEnds

-----------------------------------------------------------------------------
(* dumpSeries of main.go and overheadSeries.dump *)

\* dumpOnce: the first caller stops the sampler ...
DumpStops(d) ==
  /\ \A e \in Dumpers : dumper[e] = "running"
  /\ stopping' = TRUE
  /\ dumper' = [dumper EXCEPT ![d] = "waiting"]
  /\ UNCHANGED <<dumped, hostVars, sampleVars>>

\* Faulty variant: the sampler is stopped but not waited for.
DumpWritesAtOnce(d) ==
  /\ dumper[d] = "waiting"
  /\ dumped' = Len(overhead)
  /\ dumper' = [dumper EXCEPT ![d] = "done"]
  /\ UNCHANGED <<stopping, hostVars, sampleVars>>

\* ... waits for its last sample and writes the series ...
DumpWrites(d) ==
  /\ dumper[d] = "waiting" /\ finished
  /\ dumped' = Len(overhead)
  /\ dumper' = [dumper EXCEPT ![d] = "done"]
  /\ UNCHANGED <<stopping, hostVars, sampleVars>>

\* Faulty variant: a flag instead of the Once; who comes second returns at once.
DumpIsBeingMade(d) ==
  /\ dumper[d] = "running" /\ \E e \in Dumpers : dumper[e] # "running"
  /\ dumper' = [dumper EXCEPT ![d] = "done"]
  /\ UNCHANGED <<stopping, dumped, hostVars, sampleVars>>

\* ... and another one returns when the first has.
DumpWasMade(d) ==
  /\ dumper[d] = "running" /\ \E e \in Dumpers : dumper[e] = "done"
  /\ dumper' = [dumper EXCEPT ![d] = "done"]
  /\ UNCHANGED <<stopping, dumped, hostVars, sampleVars>>

SimNext ==
  \/ Packet \/ ChurnStep \/ SamplerStep
  \/ \E d \in Dumpers : DumpStops(d) \/ DumpWrites(d) \/ DumpWasMade(d)

SimSpec == SimInit /\ [][SimNext]_simVars

-----------------------------------------------------------------------------
\* stats never counts an instance twice, though it reads the live one after
\* releasing host.mu, when stop may already have absorbed it.
StatsNeverOvercount ==
  \A i \in 1..Len(overhead) : overhead[i].wire <= packets

\* Who is past dumpSeries may end the process, as the watchdog does: the series on
\* disk then has every sample, the final one included, whoever wrote it.
DumpIsComplete ==
  \A d \in Dumpers : dumper[d] = "done" => dumped = Len(overhead) /\ dumped > 0
=============================================================================

----------------------------- MODULE HostDrops -----------------------------
(***************************************************************************)
(* The verdict on dropped packets: the host monitors' samples of one       *)
(* cumulative counter (pkg/host/monitor.go) and the rules by which         *)
(* hostDrops, upToStop and windowDropLine (pkg/coordinator/collect.go)     *)
(* turn them into a count up to the stop, a count after it and gaps.       *)
(*                                                                         *)
(* The sources are counted apart from each other, so a behaviour follows   *)
(* one of them: a sum over namespaces ("netns"), a file ("ARP"), a         *)
(* driver's counter ("ENA"), the only one that can start again at zero, or *)
(* the host's own UDP receive buffers ("UDP").  A sample says whether it   *)
(* read the first three; of the last it keeps a zero when it did not.      *)
(* lost, lostInRun and misread are what really happened, for the           *)
(* properties.                                                             *)
(***************************************************************************)
EXTENDS Integers, Sequences, FiniteSets, FiniteSetsExt, SequencesExt

CONSTANTS
  DropHosts,  \* the hosts
  Units,      \* namespaces of a host
  StopAt,     \* the run's stop
  LastTick,   \* the last moment of the collection
  MaxDrops,   \* packets dropped
  MaxTaken    \* samples taken by all hosts together

ASSUME HostDropsAssumption ==
  /\ {StopAt, LastTick, MaxDrops, MaxTaken} \subseteq Nat /\ StopAt <= LastTick
  /\ IsFiniteSet(DropHosts) /\ IsFiniteSet(Units) /\ Units # {}

VARIABLES
  source,     \* which counter
  fitted,     \* hosts that have the source at all
  counter,    \* its value, per host and unit
  clock,      \* the time
  samples,    \* each host's samples
  restarted,  \* a driver's counter started again
  lost,       \* drops since the host's first sample
  lostInRun,  \* those of them before StopAt
  misread     \* a zero stands in a sample for a UDP counter that was not read

dropVars == <<source, fitted, counter, clock, samples, restarted, lost, lostInRun, misread>>

UnitsOf(s) == IF s = "netns" THEN Units ELSE {CHOOSE u \in Units : TRUE}

DropInit ==
  /\ source \in {"netns", "ARP", "ENA", "UDP"}
  /\ fitted \in IF source = "UDP" THEN {DropHosts} ELSE SUBSET DropHosts
  /\ counter = [h \in DropHosts |-> [u \in UnitsOf(source) |-> 0]]
  /\ clock = 0
  /\ samples = [h \in DropHosts |-> <<>>]
  /\ restarted = FALSE
  /\ lost = [h \in DropHosts |-> 0]
  /\ lostInRun = [h \in DropHosts |-> 0]
  /\ misread = FALSE

Started(h) == samples[h] # <<>>

\* The kernel or the hypervisor drops a packet.
Drop(h, u) ==
  /\ h \in fitted /\ Started(h) /\ SumFunctionOnSet(lost, DropHosts) < MaxDrops
  /\ counter' = [counter EXCEPT ![h][u] = @ + 1]
  /\ lost' = [lost EXCEPT ![h] = @ + 1]
  /\ lostInRun' = IF clock < StopAt THEN [lostInRun EXCEPT ![h] = @ + 1] ELSE lostInRun
  /\ UNCHANGED <<source, fitted, clock, samples, restarted, misread>>

\* The driver is loaded again.
Restart(h) ==
  /\ source = "ENA" /\ h \in fitted /\ SumFunctionOnSet(counter[h], UnitsOf(source)) > 0
  /\ counter' = [counter EXCEPT ![h] = [u \in UnitsOf(source) |-> 0]]
  /\ restarted' = TRUE
  /\ UNCHANGED <<source, fitted, clock, samples, lost, lostInRun, misread>>

\* How a read of a namespace or a file ends: with everything, with some of its
\* files, or with nothing.
Outcomes == {"whole", "part", "none"}

\* Faulty variant: what could be read of a namespace counts.
ReadNetnsInPart(outcome) == outcome # "none"

\* readNetns: "A namespace read in part would show its counters falling to zero: it
\* counts as unread instead."
ReadNetns(outcome) == outcome = "whole"

\* netnsCounters: one namespace that fails does not keep the others from being read.
NetnsCounters(got) == {u \in DOMAIN got : ReadNetns(got[u])}

\* NetSample.add over the namespaces read; files that were not read count zero.
AddUp(h, got) ==
  SumFunctionOnSet([u \in DOMAIN got |-> IF got[u] = "whole" THEN counter[h][u] ELSE 0],
                   NetnsCounters(got))

\* udpErrors returns a zero when it cannot read /proc/net/snmp, and hostDrops takes
\* the host's own counter as measured by every sample.
ReadCount(got) == IF source = "UDP" THEN 1 ELSE Cardinality(NetnsCounters(got))
Misreads(got) == source = "UDP" /\ NetnsCounters(got) = {}

\* sampleENA: a device that cannot be read is noted and tried again.
SampleENAFails(h, got) == source = "ENA" /\ h \in fitted /\ NetnsCounters(got) = {}

\* Runner.sample: what was read, and how many namespaces there are to read.  A host
\* without the source notes nothing.
Sample(h, got) ==
  /\ Started(h) => Last(samples[h]).at < clock
  /\ h \in fitted \/ \A u \in DOMAIN got : got[u] = "none"
  /\ SumFunctionOnSet([k \in DropHosts |-> Len(samples[k])], DropHosts) < MaxTaken
  /\ samples' = [samples EXCEPT ![h] = Append(@,
       [at |-> clock, read |-> ReadCount(got), sum |-> AddUp(h, got),
        expected |-> IF source = "netns" /\ h \in fitted THEN Cardinality(Units) ELSE 0,
        failed |-> SampleENAFails(h, got)])]
  /\ misread' = (misread \/ Misreads(got))
  /\ UNCHANGED <<source, fitted, counter, clock, restarted, lost, lostInRun>>

Tick ==
  /\ clock < LastTick /\ clock' = clock + 1
  /\ UNCHANGED <<source, fitted, counter, samples, restarted, lost, lostInRun, misread>>

DropNext ==
  \/ \E h \in DropHosts : \E u \in UnitsOf(source) : Drop(h, u)
  \/ \E h \in DropHosts : Restart(h)
  \/ \E h \in DropHosts : \E got \in [UnitsOf(source) -> Outcomes] : Sample(h, got)
  \/ Tick

DropSpec == DropInit /\ [][DropNext]_dropVars

-----------------------------------------------------------------------------
(* hostDrops *)

\* A sample is a point of comparison when it read the whole source.
MeasuredInPart(hs, k) == hs[k].read > 0

Top(hs) == Max({hs[k].read : k \in DOMAIN hs})
Measured(hs, k) ==
  LET want == IF hs[k].expected = 0 THEN Top(hs) ELSE hs[k].expected IN
  hs[k].read > 0 /\ hs[k].read = want

Points(hs) == {k \in DOMAIN hs : Measured(hs, k)}
Covered(hs) == Len(hs) >= 2 /\ 1 \in Points(hs) /\ Len(hs) \in Points(hs)

\* The rise between two points; after a fall the new value is all rise.
Rise(from, to) == IF to >= from THEN to - from ELSE to

\* The sum of the rises between each point and the one before it.
Earlier(hs, k) == {j \in Points(hs) : j < k}
RiseTo(hs, k) ==
  IF Earlier(hs, k) = {} THEN 0 ELSE Rise(hs[Max(Earlier(hs, k))].sum, hs[k].sum)
Increase(hs) == SumFunctionOnSet([k \in Points(hs) |-> RiseTo(hs, k)], Points(hs))

HasSource(hs) ==
  \/ \E k \in DOMAIN hs : hs[k].read > 0 \/ hs[k].expected > 0
  \/ Last(hs).failed

\* The hosts of a set of series that sent samples, and those that have the source.
Live(series) == {h \in DropHosts : series[h] # <<>>}
Having(series) == {h \in Live(series) : HasSource(series[h])}

Total(series) ==
  SumFunctionOnSet([h \in DropHosts |-> Increase(series[h])], Having(series))

\* Hosts not measured throughout; without ENA is no gap, without namespaces or ARP is
\* one as soon as any host has the source.  The host's own counter has no gaps.
GapHosts(series) ==
  IF source = "UDP" \/ Having(series) = {} THEN {}
  ELSE {h \in Having(series) : ~ Covered(series[h])} \cup (DropHosts \ Live(series))
       \cup (IF source = "ENA" THEN {} ELSE Live(series) \ Having(series))

\* Faulty variant: cut at the last sample before the stop.
CutBefore(hs) == SubSeq(hs, 1, Cardinality({k \in DOMAIN hs : hs[k].at <= StopAt}))

\* upToStop: the samples up to the stop, and the one that closes the interval
\* crossing it.
CutAtStop(hs) ==
  LET k == Cardinality({j \in DOMAIN hs : hs[j].at <= StopAt}) IN
  SubSeq(hs, 1, IF k \in 1..Len(hs) - 1 /\ hs[k].at < StopAt THEN k + 1 ELSE k)

\* windowDropLine: what is reported up to the stop and after it.
UpToStop == [h \in DropHosts |-> CutAtStop(samples[h])]
InWindow == Total(UpToStop)
AfterStop == Max({0, Total(samples) - InWindow})

\* dropLine's "no packet drops up to the stop", unqualified.  The host's own counter
\* is in every verdict, the others once a host has them.
SaysNoDrops ==
  /\ source = "UDP" \/ Having(UpToStop) # {}
  /\ InWindow = 0 /\ GapHosts(UpToStop) = {}

ReachesStop == \A h \in DropHosts : Started(h) /\ Last(samples[h]).at >= StopAt

-----------------------------------------------------------------------------
\* hostDrops: "a counter's rise is summed between the samples that measured it, a
\* fall being a reset after which the new value is all rise": the drops reported, in
\* the window and after it, are drops that happened.
DropsHappened == InWindow + AfterStop <= SumFunctionOnSet(lost, DropHosts)

\* As long as every sample read the host's own counter, the drops reported are drops
\* that happened: namespaces, files and devices left unread and counters started again
\* never inflate them.  And a run reported clean lost nothing between the first samples
\* and the stop, unless a counter's restart or a host counter read as zero hid it or
\* the samples end before the stop.
DropVerdictSound ==
  ~ misread =>
    /\ DropsHappened
    /\ SaysNoDrops /\ ReachesStop /\ ~ restarted
       => SumFunctionOnSet(lostInRun, DropHosts) = 0
=============================================================================

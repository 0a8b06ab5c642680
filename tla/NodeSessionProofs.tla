------------------------- MODULE NodeSessionProofs -------------------------
(***************************************************************************)
(* What a node process promises of its run, for every assignment, any      *)
(* number of requests, packets, samples and peers: the ledger adds up, the *)
(* samples are cumulative, the trace covers the run, the dialer's search   *)
(* never runs on a stopped server, and the lookups stay within their       *)
(* schedule.                                                               *)
(***************************************************************************)
EXTENDS NodeSession, FiniteSetTheorems, TLAPS

Event == [type : {"add", "drop"}, kind : Kinds]

Outcomes == {"none", "cut", "timeout", "stopped", "hit", "progress"}

\* Places of an operation: up, the two halves of down, finish.
Starting == {"subscribe", "publish"}
Closing  == {"cancel", "stop", "close"}
Closed   == {"unsubscribe", "live", "stopServer", "stopping"}
Stopped  == {"wait", "counters", "fold"}
Finish   == {"liveTrace", "countTrace", "trace"}

Places == {"idle", "check", "start", "down", "finish", "closeIt"}
            \cup Starting \cup Closing \cup Closed \cup Stopped \cup Finish

-----------------------------------------------------------------------------
(* Types *)

ProcTypeOK ==
  /\ main \in {"starting", "calling", "started", "running", "signalled", "exiting"}
  /\ timer \in {"unset", "armed", "calling", "exiting"}
  /\ exit \in {"no", "killed", "failed", "finished"}
  /\ holder \in {"none", "main", "http", "timer"}
  /\ op \in {"none", "up", "down", "finish"}
  /\ pc \in Places
  /\ requests \in Nat /\ job \in Jobs

SessionTypeOK ==
  /\ done \in BOOLEAN /\ cur \in BOOLEAN /\ sessions \in Nat /\ begun \in Nat
  /\ trace \in Seq([wire : Nat, sessions : Nat, found : Nat, samples : Seq(Nat)])
  /\ server \in {"none", "up", "stopping", "stopped"}
  /\ subscribed \in BOOLEAN
  /\ cancelled \in BOOLEAN /\ stopped \in BOOLEAN /\ ready \in BOOLEAN

IterTypeOK ==
  /\ itClosed \in BOOLEAN /\ it \in {"nil", "open", "closed"}
  /\ dialer \in {"wait", "lock", "open", "load", "next", "ended"}
  /\ found \in SUBSET Peers /\ foundDone \in Nat /\ yielded \in Nat

PhaseTypeOK ==
  /\ phase \in {"register", "registering", "search", "ready", "pick", "open",
                "consume", "got", "record", "ended"}
  /\ left \in Nat
  /\ outcome \in Outcomes
  /\ lookups \in Seq(Outcomes) /\ lookupsDone \in Seq(Outcomes)

CountTypeOK ==
  /\ wire \in Nat /\ snap \in Nat /\ wireDone \in Nat /\ traffic \in Nat
  /\ sampler \in {"tick", "add", "ended"} /\ smp \in Nat /\ samples \in Seq(Nat)
  /\ ads \in {"tick", "store", "ended"} /\ snaps \in Nat
  /\ adsRead \in {"none", "up", "stopping", "stopped"}
  /\ adsLast \in {"none", "up", "stopping", "stopped"}

PeerTypeOK ==
  /\ outPeers \in Nat /\ inPeers \in Nat /\ churned \in Nat
  /\ sender \in Seq(Event) /\ events \in Seq(Event)
  /\ watcher \in {"recv", "added", "ended"}
  /\ counted \in [kind : Kinds, out : Nat]
  /\ lostAt \in Seq(Kinds) /\ refills \in SUBSET (Kinds \X Kinds)
  /\ connFull \in BOOLEAN

\* Every variable has its type.
TypeOK ==
  ProcTypeOK /\ SessionTypeOK /\ IterTypeOK /\ PhaseTypeOK /\ CountTypeOK /\ PeerTypeOK

-----------------------------------------------------------------------------
(* The inductive invariant *)

\* The operation under way, the session and its server.  A session is open from
\* srv.Start to fold; its server runs until srv.Stop; an operation past its test
\* relies on what it tested, because node.ctl keeps every other one out.
Lifecycle ==
  /\ holder = "none" => pc = "idle"
  /\ begun = sessions + (IF cur \/ pc \in Starting THEN 1 ELSE 0)
  /\ pc \in Closing \cup {"closeIt"} \cup Closed \cup Stopped \cup {"liveTrace", "countTrace"} => cur
  /\ pc \in {"start"} \cup Starting => ~ cur /\ ~ done
  /\ pc = "stopping" => server = "stopping"
  /\ pc \in Stopped => server = "stopped"
  /\ pc \in Starting \/ (cur /\ pc \notin {"stopping"} \cup Stopped) => server = "up"
  /\ ~ cur /\ pc \notin Starting => server \in {"none", "stopped"}

\* The session's goroutines live inside it; wg.Wait keeps the final snapshot and
\* fold behind the last of them.
GoroutinesInside ==
  ~ cur \/ pc \in {"counters", "fold"} =>
    phase = "ended" /\ ads = "ended" /\ watcher = "ended" /\ sampler = "ended"

\* The dial scheduler lives inside its server.  l.closed is closed before Close
\* takes l.mu, and Next looks at it again under l.mu, so that nothing is opened
\* once Close has passed, and nothing it finds open stays open.
SearchClosed ==
  /\ server \notin {"up", "stopping"} => dialer = "ended"
  /\ pc \in {"closeIt"} \cup Closed \cup Stopped => itClosed
  /\ pc \in Closed \cup Stopped \/ server \notin {"up", "stopping"} =>
       dialer # "open" /\ it # "open"

\* The ledger, with what the snapshots of the counters may lag behind by.
LedgerInv ==
  /\ LedgerExact
  /\ snap <= wire \/ ~ Unfolded
  /\ pc = "fold" => snap = wire

\* The counters the sampler holds lie between the last sample and the server's.
SamplesInv ==
  /\ SamplesCumulative
  /\ \A i \in 1..Len(samples) : samples[i] <= traffic
  /\ sampler = "add" =>
       /\ smp <= wire
       /\ \A i \in 1..Len(samples) : samples[i] <= wireDone + smp

\* The trace is written once, by the operation that set done.
TraceInv ==
  /\ TraceCoversRun
  /\ trace # <<>> => done
  /\ pc \in Finish => done /\ trace = <<>>

\* The lookup under way was taken off the schedule.
UnderWay == IF phase \in {"open", "consume", "got", "record"} THEN 1 ELSE 0

ScheduleInv ==
  /\ RecordedWithinSchedule
  /\ pc \in Starting => lookups = <<>>
  /\ model = "conn" => phase \notin {"pick", "open", "consume", "got", "record"} /\ lookups = <<>>
  /\ model = "scheduled" /\ cur => Len(lookups) + left + UnderWay <= Lookups

NodeInv ==
  /\ TypeOK
  /\ Lifecycle /\ GoroutinesInside /\ SearchClosed
  /\ LedgerInv /\ SamplesInv /\ TraceInv /\ ScheduleInv

-----------------------------------------------------------------------------
(* Facts about the operators *)

\* What a node is assigned.
LEMMA JobFacts ==
  ASSUME job \in Jobs
  PROVE  model \in Model /\ Lookups \in Nat /\ Arrival \in BOOLEAN
BY NodeSessionAssumption DEF model, Lookups, Arrival

\* What the dialer has found is finite, and grows by one at a new registrant.
LEMMA FoundFacts ==
  ASSUME found \in SUBSET Peers
  PROVE  /\ Cardinality(found) \in Nat
         /\ \A p \in Peers : Cardinality(found \cup {p}) =
                               IF p \in found THEN Cardinality(found) ELSE Cardinality(found) + 1
<1>1. IsFiniteSet(found)
  BY NodeSessionAssumption, FS_Subset
<1> QED
  BY <1>1, FS_CardinalityType, FS_AddElement

\* A step that returns answers the caller, or ends the process.
LEMMA ReturnType ==
  ASSUME ProcTypeOK, NEW ok \in BOOLEAN, Return(ok)
  PROVE  ProcTypeOK'
BY DEF ProcTypeOK, Return, Release, Places

\* The two outcomes of srv.Start: a new session, or none.
ServerStarts ==
  /\ pc = "start" /\ pc' = "subscribe"
  /\ server' = "up" /\ begun' = begun + 1
  /\ NewSession
  /\ UNCHANGED <<holder, op, procVars, done, cur, sessions, trace, subscribed, foundDone,
                 yielded, wireDone, traffic, phase, left, outcome, lookupsDone, sampVars,
                 ads, adsRead, snaps, watcher, counted, refills, churned>>

ServerFails ==
  /\ pc = "start" /\ Return(FALSE)
  /\ UNCHANGED <<nodeVars, server, subscribed, chanVars, iterVars, countVars, goVars>>

LEMMA StartCases ==
  ASSUME StartServer
  PROVE  ServerStarts \/ ServerFails
BY DEF StartServer, ServerStarts, ServerFails, nodeVars, iterVars, countVars, goVars, phaseVars,
   adVars, peerVars

-----------------------------------------------------------------------------
(* Type correctness *)

LEMMA EmptyIsSeq == \A S : <<>> \in Seq(S)
OBVIOUS

LEMMA TypeInit == Init => TypeOK
<1> SUFFICES ASSUME Init PROVE TypeOK
  OBVIOUS
<1>1. ProcTypeOK /\ SessionTypeOK
  BY EmptyIsSeq DEF Init, ProcTypeOK, SessionTypeOK, Places
<1>2. IterTypeOK /\ PhaseTypeOK
  BY EmptyIsSeq DEF Init, IterTypeOK, PhaseTypeOK, Outcomes
<1>3. CountTypeOK
  BY EmptyIsSeq DEF Init, CountTypeOK
<1>4. PeerTypeOK
  BY EmptyIsSeq DEF Init, PeerTypeOK, Kinds
<1> QED
  BY <1>1, <1>2, <1>3, <1>4 DEF TypeOK

LEMMA MainType ==
  ASSUME TypeOK,
         MainStarts \/ Request \/ StopAt \/ Notify \/ Signal \/ MainFinishes \/ Exit
  PROVE  TypeOK'
<1>1. UNCHANGED <<nodeVars, server, subscribed, chanVars, iterVars, countVars, goVars>>
  BY DEF MainStarts, Request, StopAt, Notify, Signal, MainFinishes, Exit
<1>2. SessionTypeOK' /\ IterTypeOK' /\ PhaseTypeOK' /\ CountTypeOK' /\ PeerTypeOK'
  BY <1>1 DEF TypeOK, SessionTypeOK, IterTypeOK, PhaseTypeOK, CountTypeOK, PeerTypeOK, nodeVars, chanVars,
     iterVars, countVars, goVars, phaseVars, sampVars, adVars, peerVars
<1>3. ProcTypeOK'
  BY DEF TypeOK, ProcTypeOK, Places, MainStarts, Request, StopAt, Notify, Signal,
     MainFinishes, Exit, Acquire, ctlVars
<1> QED
  BY <1>2, <1>3 DEF TypeOK

LEMMA ControlType ==
  ASSUME TypeOK, ControlStep
  PROVE  TypeOK'
<1> USE DEF TypeOK
<1>1. CASE UpCheck \/ DownCheck \/ SnapshotLive \/ WaitGoroutines \/ TraceLive
  <2>1. UNCHANGED <<nodeVars, server, subscribed, chanVars, iterVars, countVars, goVars>>
    BY <1>1 DEF UpCheck, DownCheck, SnapshotLive, WaitGoroutines, TraceLive
  <2>2. SessionTypeOK' /\ IterTypeOK' /\ PhaseTypeOK' /\ CountTypeOK' /\ PeerTypeOK'
    BY <2>1 DEF SessionTypeOK, IterTypeOK, PhaseTypeOK, CountTypeOK, PeerTypeOK, nodeVars,
       chanVars, iterVars, countVars, goVars, phaseVars, sampVars, adVars, peerVars
  <2>3. ProcTypeOK'
    BY <1>1, ReturnType DEF UpCheck, DownCheck, SnapshotLive, WaitGoroutines, TraceLive, Goes,
       ProcTypeOK, procVars, Places, Closing, Closed, Stopped, Finish
  <2> QED
    BY <2>2, <2>3
<1>2. CASE Subscribe \/ Cancel \/ CloseStop \/ CloseIter \/ CloseOpened \/ Unsubscribe
             \/ StopServer \/ ServerStopped
  <2>0. UNCHANGED <<nodeVars, countVars, goVars>>
    BY <1>2 DEF Subscribe, Cancel, CloseStop, CloseIter, CloseOpened, Unsubscribe, StopServer,
       ServerStopped
  <2>1. PhaseTypeOK' /\ CountTypeOK' /\ PeerTypeOK'
    BY <2>0 DEF PhaseTypeOK, CountTypeOK, PeerTypeOK, countVars, goVars, phaseVars, sampVars,
       adVars, peerVars
  <2>2. SessionTypeOK'
    <3>1. CASE Subscribe \/ Cancel \/ CloseStop \/ CloseIter
      BY <2>0, <3>1 DEF SessionTypeOK, nodeVars, chanVars, Subscribe, Cancel, CloseStop, CloseIter
    <3>2. CASE CloseOpened \/ Unsubscribe \/ StopServer \/ ServerStopped
      BY <2>0, <3>2 DEF SessionTypeOK, nodeVars, chanVars, CloseOpened, Unsubscribe, StopServer,
         ServerStopped
    <3> QED
      BY <1>2, <3>1, <3>2
  <2>4. IterTypeOK'
    BY <1>2 DEF IterTypeOK, iterVars, Subscribe, Cancel, CloseStop, CloseIter, CloseOpened,
       Unsubscribe, StopServer, ServerStopped
  <2>3. ProcTypeOK'
    BY <1>2 DEF ProcTypeOK, procVars, Goes, Places, Starting, Closing, Closed, Stopped,
       Subscribe, Cancel, CloseStop, CloseIter, CloseOpened, Unsubscribe, StopServer, ServerStopped
  <2> QED
    BY <2>1, <2>2, <2>3, <2>4
<1>3. CASE StartServer
  <2>1. CASE ServerFails
    <3>1. UNCHANGED <<nodeVars, server, subscribed, chanVars, iterVars, countVars, goVars>>
      BY <2>1 DEF ServerFails
    <3>2. SessionTypeOK' /\ IterTypeOK' /\ PhaseTypeOK' /\ CountTypeOK' /\ PeerTypeOK'
      BY <3>1 DEF SessionTypeOK, IterTypeOK, PhaseTypeOK, CountTypeOK, PeerTypeOK, nodeVars,
         chanVars, iterVars, countVars, goVars, phaseVars, sampVars, adVars, peerVars
    <3> QED
      BY <2>1, <3>2, ReturnType DEF ServerFails
  <2>2. CASE ServerStarts
    <3>1. ProcTypeOK'
      BY <2>2 DEF ServerStarts, ProcTypeOK, procVars, Places, Starting
    <3>2. begun' \in Nat /\ server' = "up"
          /\ UNCHANGED <<done, cur, sessions, trace, subscribed>>
      BY <2>2 DEF ServerStarts, SessionTypeOK
    <3>3. cancelled' = FALSE /\ stopped' = FALSE /\ ready' = FALSE
      BY <2>2 DEF ServerStarts, NewSession
    <3>4. SessionTypeOK'
      BY <3>2, <3>3 DEF SessionTypeOK
    <3>5. IterTypeOK'
      BY <2>2 DEF ServerStarts, NewSession, IterTypeOK, LookupOnly
    <3>6. PhaseTypeOK'
      BY <2>2, EmptyIsSeq DEF ServerStarts, NewSession, PhaseTypeOK
    <3>7. wire' \in Nat /\ snap' \in Nat /\ adsLast' = "none"
          /\ UNCHANGED <<wireDone, traffic, sampVars, ads, adsRead, snaps>>
      BY <2>2 DEF ServerStarts, NewSession
    <3>8. CountTypeOK'
      BY <3>7 DEF CountTypeOK, sampVars
    <3>9. outPeers' \in Nat /\ inPeers' \in Nat /\ sender' = <<>> /\ events' = <<>>
          /\ lostAt' = <<>> /\ connFull' = FALSE /\ UNCHANGED <<watcher, counted, refills, churned>>
      BY <2>2 DEF ServerStarts, NewSession
    <3>10. PeerTypeOK'
      BY <3>9, EmptyIsSeq DEF PeerTypeOK
    <3> QED
      BY <3>1, <3>4, <3>5, <3>6, <3>8, <3>10
  <2> QED
    BY <1>3, <2>1, <2>2, StartCases
<1>4. CASE Publish
  <2>1. ProcTypeOK'
    BY <1>4, ReturnType DEF Publish
  <2>2. SessionTypeOK' /\ IterTypeOK' /\ CountTypeOK' /\ PeerTypeOK'
    BY <1>4 DEF Publish, SessionTypeOK, IterTypeOK, CountTypeOK, PeerTypeOK, chanVars, iterVars,
       countVars
  <2>3. PhaseTypeOK'
    BY <1>4, JobFacts DEF Publish, PhaseTypeOK, ProcTypeOK, Outcomes
  <2> QED
    BY <2>1, <2>2, <2>3
<1>5. CASE SnapshotCounters \/ TraceCounters
  <2>1. ProcTypeOK'
    BY <1>5 DEF ProcTypeOK, procVars, Goes, Places, Stopped, Finish, SnapshotCounters, TraceCounters
  <2>2. SessionTypeOK' /\ IterTypeOK' /\ CountTypeOK'
    <3>1. /\ snap' = wire
          /\ UNCHANGED <<nodeVars, server, subscribed, chanVars, iterVars, wire, wireDone, traffic, goVars>>
      BY <1>5 DEF SnapshotCounters, TraceCounters
    <3>2. SessionTypeOK' /\ IterTypeOK'
      BY <3>1 DEF SessionTypeOK, IterTypeOK, nodeVars, chanVars, iterVars
    <3>3. CountTypeOK'
      BY <3>1 DEF CountTypeOK, goVars, sampVars, adVars
    <3> QED
      BY <3>2, <3>3
  <2>3. PhaseTypeOK' /\ PeerTypeOK'
    BY <1>5 DEF PhaseTypeOK, PeerTypeOK, goVars, phaseVars, peerVars, SnapshotCounters, TraceCounters
  <2> QED
    BY <2>1, <2>2, <2>3
<1>6. CASE Fold
  <2>1. ProcTypeOK'
    BY <1>6, ReturnType DEF Fold
  <2>0. sessions' \in Nat /\ cur' = FALSE
        /\ UNCHANGED <<done, begun, trace, server, subscribed, chanVars>>
    BY <1>6 DEF Fold, SessionTypeOK
  <2>4. SessionTypeOK'
    BY <2>0 DEF SessionTypeOK, chanVars
  <2>2. SessionTypeOK' /\ IterTypeOK'
    BY <1>6, <2>4, FoundFacts DEF Fold, IterTypeOK
  <2>3. PhaseTypeOK' /\ CountTypeOK' /\ PeerTypeOK'
    BY <1>6 DEF Fold, PhaseTypeOK, CountTypeOK, PeerTypeOK, sampVars, adVars, peerVars
  <2> QED
    BY <2>1, <2>2, <2>3
<1>7. CASE FinishCheck \/ WriteTrace
  <2>1. ProcTypeOK'
    BY <1>7, ReturnType DEF ProcTypeOK, procVars, Goes, Places, Finish, FinishCheck, WriteTrace
  <2>0. UNCHANGED <<iterVars, countVars, goVars>>
    BY <1>7 DEF FinishCheck, WriteTrace
  <2>2. IterTypeOK' /\ PhaseTypeOK' /\ CountTypeOK' /\ PeerTypeOK'
    BY <2>0 DEF IterTypeOK, PhaseTypeOK, CountTypeOK, PeerTypeOK, iterVars, countVars, goVars,
       phaseVars, sampVars, adVars, peerVars
  <2>3. Trace \in [wire : Nat, sessions : Nat, found : Nat, samples : Seq(Nat)]
    <3>1. /\ wireDone + (IF cur THEN snap ELSE 0) \in Nat
          /\ sessions + (IF cur THEN 1 ELSE 0) \in Nat
      BY DEF SessionTypeOK, CountTypeOK
    <3>2. foundDone + (IF cur THEN Cardinality(found) ELSE 0) \in Nat
      BY FoundFacts DEF IterTypeOK
    <3> QED
      BY <3>1, <3>2 DEF Trace, CountTypeOK
  <2>4. CASE FinishCheck
    <3>1. done' = TRUE /\ UNCHANGED <<cur, sessions, begun, trace, server, subscribed, chanVars>>
      BY <2>4 DEF FinishCheck
    <3>2. SessionTypeOK'
      BY <3>1 DEF SessionTypeOK, chanVars
    <3> QED
      BY <2>1, <2>2, <3>2
  <2>5. CASE WriteTrace
    <3>1. /\ trace' \in {trace, Append(trace, Trace)}
          /\ UNCHANGED <<done, cur, sessions, begun, server, subscribed, chanVars>>
      BY <2>5 DEF WriteTrace
    <3> DEFINE R == [wire : Nat, sessions : Nat, found : Nat, samples : Seq(Nat)]
    <3>a. trace' \in Seq(R)
      <4>1. trace \in Seq(R) /\ Trace \in R
        BY <2>3 DEF SessionTypeOK
      <4> HIDE DEF R
      <4> QED
        BY <3>1, <4>1
    <3>2. SessionTypeOK'
      BY <3>1, <3>a DEF SessionTypeOK, chanVars
    <3> QED
      BY <2>1, <2>2, <3>2
  <2> QED
    BY <1>7, <2>4, <2>5
<1> QED
  BY <1>1, <1>2, <1>3, <1>4, <1>5, <1>6, <1>7 DEF ControlStep

\* The steps of the dialer, of the phases, of the counters and of the peers each
\* leave the rest alone.
LEMMA DialerType ==
  ASSUME TypeOK, DialerStep
  PROVE  TypeOK' /\ UNCHANGED iterElse
<1>1. UNCHANGED iterElse
  BY DEF DialerStep, NextWaits, NextLocks, NextOpens, NextLoads, NextYields, NextEnds
<1>2. IterTypeOK'
  <2>1. CASE NextWaits \/ NextLocks \/ NextOpens \/ NextLoads \/ NextEnds
    BY <2>1 DEF TypeOK, IterTypeOK, NextWaits, NextLocks, NextOpens, NextLoads, NextEnds
  <2>2. ASSUME NEW p \in Peers, NextYields(p)
        PROVE  IterTypeOK'
    BY <2>2 DEF TypeOK, IterTypeOK, NextYields
  <2> QED
    BY <2>1, <2>2 DEF DialerStep
<1>3. ProcTypeOK' /\ SessionTypeOK' /\ PhaseTypeOK' /\ CountTypeOK' /\ PeerTypeOK'
  BY <1>1 DEF TypeOK, ProcTypeOK, SessionTypeOK, PhaseTypeOK, CountTypeOK, PeerTypeOK, iterElse,
     ctlVars, procVars, nodeVars, chanVars, countVars, goVars, phaseVars, sampVars, adVars, peerVars
<1> QED
  BY <1>1, <1>2, <1>3 DEF TypeOK

LEMMA PhaseType ==
  ASSUME TypeOK, PhaseStep
  PROVE  TypeOK' /\ UNCHANGED phaseElse
<1>1. UNCHANGED phaseElse
  BY DEF PhaseStep, WaitCtx, RegisterTopic, CloseReady, PickLookup, OpenLookup, Consume,
     TakeResult, RecordLookup
<1>2. ready' \in BOOLEAN
  BY DEF TypeOK, SessionTypeOK, PhaseStep, WaitCtx, RegisterTopic, CloseReady, PickLookup,
     OpenLookup, Consume, TakeResult, RecordLookup
<1>3. PhaseTypeOK'
  <2> USE DEF TypeOK, PhaseTypeOK
  <2>1. CASE WaitCtx("register", "registering") \/ RegisterTopic \/ WaitCtx("search", "ready")
    BY <2>1 DEF WaitCtx, RegisterTopic
  <2>2. CASE CloseReady
    BY <2>2, JobFacts DEF CloseReady, Model, ProcTypeOK
  <2>3. CASE PickLookup
    BY <2>3 DEF PickLookup
  <2>4. CASE OpenLookup \/ Consume
    BY <2>4 DEF OpenLookup, Consume, Outcomes
  <2>5. CASE TakeResult
    <3>1. <<"progress">> \in Seq(Outcomes)
      BY DEF Outcomes
    <3> QED
      BY <2>5, <3>1 DEF TakeResult, Outcomes
  <2>6. CASE RecordLookup
    BY <2>6 DEF RecordLookup
  <2> QED
    BY <2>1, <2>2, <2>3, <2>4, <2>5, <2>6 DEF PhaseStep
<1>4. ProcTypeOK' /\ SessionTypeOK' /\ IterTypeOK' /\ CountTypeOK' /\ PeerTypeOK'
  BY <1>1, <1>2 DEF TypeOK, ProcTypeOK, SessionTypeOK, IterTypeOK, CountTypeOK, PeerTypeOK, phaseElse,
     ctlVars, procVars, nodeVars, iterVars, countVars, sampVars, adVars, peerVars
<1> QED
  BY <1>1, <1>3, <1>4 DEF TypeOK

LEMMA CountType ==
  ASSUME TypeOK, SamplerStep \/ AdsStep \/ Packet
  PROVE  TypeOK'
<1>1. UNCHANGED <<ctlVars, procVars, nodeVars, server, subscribed, chanVars, iterVars,
                  phaseVars, peerVars>>
  BY DEF SamplerStep, SamplerReads, AddSample, SamplerEnds, AdsStep, ReadAds, StoreAds, AdsEnd,
     Packet, sampElse, adElse, goVars
<1>2. CountTypeOK'
  <2> USE DEF TypeOK, CountTypeOK
  <2>1. CASE SamplerStep
    <3>1. UNCHANGED <<countVars, adVars>>
      BY <2>1 DEF SamplerStep, SamplerReads, AddSample, SamplerEnds, sampElse
    <3>2. wireDone + smp \in Nat
      OBVIOUS
    <3>3. samples' \in Seq(Nat) /\ smp' \in Nat
      <4>1. \A n \in Nat : Append(samples, n) \in Seq(Nat)
        OBVIOUS
      <4> QED
        BY <2>1, <3>2, <4>1, Zenon DEF SamplerStep, SamplerReads, AddSample, SamplerEnds
    <3>4. sampler' \in {"tick", "add", "ended"}
      BY <2>1 DEF SamplerStep, SamplerReads, AddSample, SamplerEnds
    <3> QED
      BY <3>1, <3>3, <3>4 DEF countVars, adVars
  <2>2. CASE AdsStep
    <3>1. CASE ReadAds
      BY <3>1 DEF ReadAds, adElse, countVars, sampVars, SessionTypeOK
    <3>2. CASE StoreAds
      BY <3>2 DEF StoreAds, adElse, countVars, sampVars
    <3>3. CASE AdsEnd
      BY <3>3 DEF AdsEnd, adElse, countVars, sampVars
    <3> QED
      BY <2>2, <3>1, <3>2, <3>3 DEF AdsStep
  <2>3. CASE Packet
    BY <2>3 DEF Packet, goVars, sampVars, adVars
  <2> QED
    BY <2>1, <2>2, <2>3
<1>3. ProcTypeOK' /\ SessionTypeOK' /\ IterTypeOK' /\ PhaseTypeOK' /\ PeerTypeOK'
  BY <1>1 DEF TypeOK, ProcTypeOK, SessionTypeOK, IterTypeOK, PhaseTypeOK, PeerTypeOK,
     ctlVars, procVars, nodeVars, chanVars, iterVars, phaseVars, peerVars
<1> QED
  BY <1>2, <1>3 DEF TypeOK

PeerStep == FeedSends \/ WatchStep \/ \E k \in Kinds : PeerAdded(k) \/ PeerDropped(k)

LEMMA PeerType ==
  ASSUME TypeOK, PeerStep
  PROVE  TypeOK' /\ UNCHANGED peerElse
<1>1. UNCHANGED peerElse
  BY DEF PeerStep, FeedSends, WatchStep, WatchDrop, WatchAdd, StopClock, WatchEnds, PeerAdded,
     PeerDropped
<1>2. PeerTypeOK'
  <2> USE DEF TypeOK, PeerTypeOK
  <2>1. CASE FeedSends
    <3>1. events \o sender \in Seq(Event)
      OBVIOUS
    <3>2. events' \in Seq(Event) /\ sender' \in Seq(Event)
      BY <2>1, <3>1, EmptyIsSeq DEF FeedSends
    <3> QED
      BY <2>1, <3>2 DEF FeedSends
  <2>2. CASE WatchDrop
    <3>1. events \in Seq(Event) /\ events # <<>> /\ lostAt \in Seq(Kinds)
      BY <2>2 DEF WatchDrop
    <3>2. Head(events) \in Event /\ Tail(events) \in Seq(Event)
      BY <3>1
    <3>3. Append(lostAt, Head(events).kind) \in Seq(Kinds)
      BY <3>1, <3>2 DEF Event
    <3> QED
      BY <2>2, <3>2, <3>3 DEF WatchDrop
  <2>3. CASE WatchAdd
    <3>1. events \in Seq(Event) /\ events # <<>> /\ outPeers \in Nat
      BY <2>3 DEF WatchAdd
    <3>2. Head(events) \in Event /\ Tail(events) \in Seq(Event)
      BY <3>1
    <3>3. counted' \in [kind : Kinds, out : Nat] /\ events' \in Seq(Event)
      BY <2>3, <3>1, <3>2 DEF WatchAdd, Event
    <3> QED
      BY <2>3, <3>3 DEF WatchAdd
  <2>4. CASE StopClock
    <3>1. lostAt' \in Seq(Kinds) /\ refills' \in SUBSET (Kinds \X Kinds)
      <4>1. lostAt # <<>> => Head(lostAt) \in Kinds /\ Tail(lostAt) \in Seq(Kinds)
        OBVIOUS
      <4>2. counted.kind \in Kinds
        OBVIOUS
      <4>3. lostAt # <<>> => <<Head(lostAt), counted.kind>> \in Kinds \X Kinds
        BY <4>1, <4>2
      <4> QED
        BY <2>4, <4>1, <4>3, Zenon DEF StopClock
    <3>2. connFull' \in BOOLEAN
      BY <2>4 DEF StopClock
    <3> QED
      BY <2>4, <3>1, <3>2 DEF StopClock
  <2>5. CASE WatchEnds
    BY <2>5 DEF WatchEnds
  <2>6. ASSUME NEW k \in Kinds, PeerAdded(k) \/ PeerDropped(k)
        PROVE  PeerTypeOK'
    <3>1. outPeers' \in Nat /\ inPeers' \in Nat /\ churned' \in Nat
      BY <2>6 DEF PeerAdded, PeerDropped, Kinds
    <3>2. sender' \in Seq(Event)
      <4>1. \A t \in {"add", "drop"} : [type |-> t, kind |-> k] \in Event
        BY DEF Event
      <4>2. \A e \in Event : <<e>> \in Seq(Event)
        OBVIOUS
      <4> QED
        BY <2>6, <4>1, <4>2 DEF PeerAdded, PeerDropped
    <3> QED
      BY <2>6, <3>1, <3>2 DEF PeerAdded, PeerDropped
  <2> QED
    BY <2>1, <2>2, <2>3, <2>4, <2>5, <2>6 DEF PeerStep, WatchStep
<1>3. ProcTypeOK' /\ SessionTypeOK' /\ IterTypeOK' /\ PhaseTypeOK' /\ CountTypeOK'
  BY <1>1 DEF TypeOK, ProcTypeOK, SessionTypeOK, IterTypeOK, PhaseTypeOK, CountTypeOK, peerElse,
     ctlVars, procVars, nodeVars, chanVars, iterVars, countVars, phaseVars, sampVars, adVars
<1> QED
  BY <1>1, <1>2, <1>3 DEF TypeOK

LEMMA TypeStep == TypeOK /\ [Next]_vars => TypeOK'
<1> SUFFICES ASSUME TypeOK, [Next]_vars PROVE TypeOK'
  OBVIOUS
<1>1. CASE Gone \/ UNCHANGED vars
  <2>1. UNCHANGED vars
    BY <1>1 DEF Gone
  <2>2. ProcTypeOK' /\ SessionTypeOK' /\ IterTypeOK' /\ PhaseTypeOK' /\ CountTypeOK' /\ PeerTypeOK'
    BY <2>1 DEF TypeOK, ProcTypeOK, SessionTypeOK, IterTypeOK, PhaseTypeOK, CountTypeOK, PeerTypeOK,
       vars, ctlVars, procVars, nodeVars, chanVars, iterVars, countVars, goVars, phaseVars,
       sampVars, adVars, peerVars
  <2> QED
    BY <2>2 DEF TypeOK
<1> QED
  BY <1>1, MainType, ControlType, DialerType, PhaseType, CountType, PeerType DEF Next, PeerStep

\* Every variable of the node process keeps its type, for every assignment.
THEOREM NodeTypes == Spec => []TypeOK
BY TypeInit, TypeStep, PTL DEF Spec

-----------------------------------------------------------------------------
(* The lifecycle *)

\* What the dialer, the goroutines of a session and its peers leave alone.
LEMMA BackgroundFrame ==
  ASSUME TypeOK, DialerStep \/ PhaseStep \/ SamplerStep \/ AdsStep \/ Packet \/ PeerStep
         \/ Gone \/ UNCHANGED vars
  PROVE  UNCHANGED <<ctlVars, procVars, nodeVars, server, subscribed, cancelled, stopped>>
<1>1. CASE DialerStep
  BY <1>1, DialerType DEF iterElse, chanVars
<1>2. CASE PhaseStep
  BY <1>2, PhaseType DEF phaseElse
<1>3. CASE SamplerStep \/ AdsStep \/ Packet
  BY <1>3 DEF SamplerStep, SamplerReads, AddSample, SamplerEnds, AdsStep, ReadAds, StoreAds,
     AdsEnd, Packet, sampElse, adElse, chanVars
<1>4. CASE PeerStep
  BY <1>4, PeerType DEF peerElse, chanVars
<1>5. CASE Gone \/ UNCHANGED vars
  BY <1>5 DEF Gone, vars, chanVars
<1> QED
  BY <1>1, <1>2, <1>3, <1>4, <1>5

LEMMA LifeStep ==
  ASSUME TypeOK, Lifecycle, [Next]_vars
  PROVE  Lifecycle'
<1> USE DEF Starting, Closing, Closed, Stopped
<1>0. begun \in Nat /\ sessions \in Nat
  BY DEF TypeOK, SessionTypeOK
<1>1. CASE MainStarts \/ Request \/ StopAt \/ Notify \/ Signal \/ MainFinishes \/ Exit
  <2>1. UNCHANGED <<nodeVars, server>>
    BY <1>1 DEF MainStarts, Request, StopAt, Notify, Signal, MainFinishes, Exit
  <2>2. \/ UNCHANGED ctlVars
        \/ holder = "none" /\ holder' # "none" /\ pc' \in {"check", "down", "finish"}
    BY <1>1 DEF MainStarts, Request, StopAt, Notify, Signal, MainFinishes, Exit, Acquire
  <2> QED
    BY <2>1, <2>2 DEF Lifecycle, nodeVars, ctlVars
<1>2. CASE UpCheck \/ DownCheck
  BY <1>2 DEF Lifecycle, UpCheck, UpRefused, DownCheck, Goes, Return, Release, nodeVars
<1>3. CASE StartServer
  <2>1. CASE ServerStarts
    BY <1>0, <2>1 DEF Lifecycle, ServerStarts
  <2>2. CASE ServerFails
    BY <2>2 DEF Lifecycle, ServerFails, Return, Release, nodeVars
  <2> QED
    BY <1>3, <2>1, <2>2, StartCases
<1>4. CASE Publish
  BY <1>4 DEF Lifecycle, Publish, Return, Release
<1>5. CASE Fold
  BY <1>0, <1>5 DEF Lifecycle, Fold, Return, Release
<1>6. CASE Subscribe \/ Cancel \/ CloseStop \/ CloseIter \/ CloseOpened \/ Unsubscribe
             \/ SnapshotLive \/ WaitGoroutines \/ SnapshotCounters \/ TraceLive \/ TraceCounters
  BY <1>6 DEF Lifecycle, Goes, nodeVars, Subscribe, Cancel, CloseStop, CloseIter, CloseOpened,
     Unsubscribe, SnapshotLive, WaitGoroutines, SnapshotCounters, TraceLive, TraceCounters
<1>7. CASE StopServer \/ ServerStopped
  BY <1>7 DEF Lifecycle, Goes, nodeVars, StopServer, ServerStopped
<1>8. CASE FinishCheck
  BY <1>8 DEF Lifecycle, Goes, FinishCheck, Return, Release
<1>9. CASE WriteTrace
  BY <1>9 DEF Lifecycle, Goes, WriteTrace
<1>10. CASE DialerStep \/ PhaseStep \/ SamplerStep \/ AdsStep \/ Packet \/ PeerStep
              \/ Gone \/ UNCHANGED vars
  BY <1>10, BackgroundFrame DEF Lifecycle, ctlVars, nodeVars
<1> QED
  BY <1>1, <1>2, <1>3, <1>4, <1>5, <1>6, <1>7, <1>8, <1>9, <1>10 DEF Next, ControlStep, PeerStep

LEMMA GoroutinesStep ==
  ASSUME TypeOK, Lifecycle, GoroutinesInside, [Next]_vars
  PROVE  GoroutinesInside'
<1> USE DEF GoroutinesInside
<1>1. CASE MainStarts \/ Request \/ StopAt \/ Notify \/ Signal \/ MainFinishes \/ Exit
  <2>1. UNCHANGED <<nodeVars, goVars>>
    BY <1>1 DEF MainStarts, Request, StopAt, Notify, Signal, MainFinishes, Exit
  <2>2. UNCHANGED pc \/ pc' \in {"check", "down", "finish"}
    BY <1>1 DEF MainStarts, Request, StopAt, Notify, Signal, MainFinishes, Exit, Acquire, ctlVars
  <2> QED
    BY <2>1, <2>2 DEF nodeVars, goVars, phaseVars, adVars, sampVars, peerVars
<1>2. CASE UpCheck \/ DownCheck \/ Subscribe \/ Cancel \/ CloseStop \/ CloseIter \/ CloseOpened
             \/ Unsubscribe \/ SnapshotLive \/ TraceLive \/ TraceCounters \/ StopServer
             \/ ServerStopped
  <2>1. UNCHANGED <<nodeVars, goVars>> /\ pc' \notin {"counters", "fold"}
    BY <1>2 DEF UpCheck, DownCheck, Return, Release, Goes, Subscribe, Cancel, CloseStop,
       CloseIter, CloseOpened, Unsubscribe, SnapshotLive, TraceLive, TraceCounters, StopServer,
       ServerStopped
  <2> QED
    BY <2>1 DEF nodeVars, goVars, phaseVars, adVars, sampVars, peerVars
<1>3. CASE StartServer
  <2>1. UNCHANGED <<cur, phase, ads, watcher, sampler>> /\ pc' \notin {"counters", "fold"}
    BY <1>3, StartCases DEF ServerStarts, ServerFails, Return, Release, nodeVars, goVars,
       phaseVars, adVars, sampVars, peerVars
  <2> QED
    BY <2>1
<1>4. CASE Publish
  BY <1>4 DEF Publish, Return, Release
<1>5. CASE WaitGoroutines \/ SnapshotCounters
  <2>1. UNCHANGED <<nodeVars, goVars>>
    BY <1>5 DEF WaitGoroutines, SnapshotCounters
  <2>2. phase = "ended" /\ ads = "ended" /\ watcher = "ended" /\ sampler = "ended"
    BY <1>5 DEF WaitGoroutines, SnapshotCounters, Goes
  <2> QED
    BY <2>1, <2>2 DEF goVars, phaseVars, adVars, sampVars, peerVars
<1>6. CASE Fold
  BY <1>6 DEF Fold, sampVars, adVars, peerVars
<1>7. CASE FinishCheck \/ WriteTrace
  <2>1. UNCHANGED <<cur, goVars>> /\ pc' \notin {"counters", "fold"}
    BY <1>7 DEF FinishCheck, WriteTrace, Return, Release, Goes
  <2> QED
    BY <2>1 DEF goVars, phaseVars, adVars, sampVars, peerVars
<1>8. CASE DialerStep \/ Packet \/ Gone \/ UNCHANGED vars
  <2>1. UNCHANGED <<pc, cur, goVars>>
    BY <1>8, DialerType DEF Packet, Gone, vars, iterElse, ctlVars, nodeVars
  <2> QED
    BY <2>1 DEF goVars, phaseVars, adVars, sampVars, peerVars
<1>9. CASE PhaseStep
  <2>1. phase # "ended"
    BY <1>9 DEF PhaseStep, WaitCtx, RegisterTopic, CloseReady, PickLookup, OpenLookup, Consume,
       TakeResult, RecordLookup
  <2> QED
    BY <1>9, <2>1, PhaseType DEF phaseElse, ctlVars, nodeVars
<1>10. CASE SamplerStep
  <2>1. sampler # "ended" /\ UNCHANGED sampElse
    BY <1>10 DEF SamplerStep, SamplerReads, AddSample, SamplerEnds
  <2> QED
    BY <2>1 DEF sampElse, ctlVars, nodeVars
<1>11. CASE AdsStep
  <2>1. ads # "ended" /\ UNCHANGED adElse
    BY <1>11 DEF AdsStep, ReadAds, StoreAds, AdsEnd
  <2> QED
    BY <2>1 DEF adElse, ctlVars, nodeVars
<1>12. CASE PeerStep
  <2>1. UNCHANGED peerElse /\ (UNCHANGED watcher \/ watcher # "ended")
    BY <1>12, PeerType DEF PeerStep, FeedSends, WatchStep, WatchDrop, WatchAdd, StopClock,
       WatchEnds, PeerAdded, PeerDropped
  <2> QED
    BY <2>1 DEF peerElse, ctlVars, nodeVars, phaseVars, sampVars, adVars
<1> QED
  BY <1>1, <1>2, <1>3, <1>4, <1>5, <1>6, <1>7, <1>8, <1>9, <1>10, <1>11, <1>12
     DEF Next, ControlStep, PeerStep

-----------------------------------------------------------------------------
(* The dialer's search *)

LEMMA SearchStep ==
  ASSUME TypeOK, Lifecycle, SearchClosed, [Next]_vars
  PROVE  SearchClosed'
<1> USE DEF Closed, Stopped
<1>1. CASE MainStarts \/ Request \/ StopAt \/ Notify \/ Signal \/ MainFinishes \/ Exit
  <2>1. UNCHANGED <<server, iterVars>>
    BY <1>1 DEF MainStarts, Request, StopAt, Notify, Signal, MainFinishes, Exit
  <2>2. UNCHANGED pc \/ pc' \in {"check", "down", "finish"}
    BY <1>1 DEF MainStarts, Request, StopAt, Notify, Signal, MainFinishes, Exit, Acquire, ctlVars
  <2> QED
    BY <2>1, <2>2 DEF SearchClosed, iterVars
<1>2. CASE UpCheck \/ DownCheck \/ Subscribe \/ Cancel \/ CloseStop \/ Publish \/ Fold
             \/ FinishCheck \/ TraceLive \/ TraceCounters \/ WriteTrace
  <2>1. UNCHANGED <<server, itClosed, it, dialer>>
    BY <1>2 DEF UpCheck, DownCheck, Subscribe, Cancel, CloseStop, Publish, Fold, FinishCheck,
       TraceLive, TraceCounters, WriteTrace, iterVars
  <2>2. pc' \in {"idle", "start", "cancel", "publish", "stop", "close", "down"} \cup Finish
    BY <1>2 DEF UpCheck, DownCheck, Subscribe, Cancel, CloseStop, Publish, Fold, FinishCheck,
       TraceLive, TraceCounters, WriteTrace, Return, Release, Goes, Finish
  <2> QED
    BY <2>1, <2>2 DEF SearchClosed, Finish
<1>3. CASE StartServer
  <2>1. CASE ServerStarts
    BY <2>1 DEF SearchClosed, ServerStarts, NewSession
  <2>2. CASE ServerFails
    BY <2>2 DEF SearchClosed, ServerFails, Return, Release, iterVars
  <2> QED
    BY <1>3, <2>1, <2>2, StartCases
<1>4. CASE CloseIter
  BY <1>4 DEF SearchClosed, CloseIter, Goes
<1>5. CASE CloseOpened
  BY <1>5 DEF SearchClosed, CloseOpened, Goes, IterLocked
<1>6. CASE Unsubscribe \/ SnapshotLive \/ StopServer \/ WaitGoroutines \/ SnapshotCounters
  <2>1. UNCHANGED iterVars /\ (UNCHANGED server \/ server' = "stopping")
    BY <1>6 DEF Unsubscribe, SnapshotLive, StopServer, WaitGoroutines, SnapshotCounters
  <2>2. pc \in Closed \cup Stopped
    BY <1>6 DEF Unsubscribe, SnapshotLive, StopServer, WaitGoroutines, SnapshotCounters, Goes
  <2> QED
    BY <2>1, <2>2 DEF SearchClosed, iterVars
<1>7. CASE ServerStopped
  BY <1>7 DEF SearchClosed, ServerStopped, Goes, iterVars
<1>8. CASE DialerStep
  <2>1. UNCHANGED <<pc, server>> /\ dialer # "ended"
    BY <1>8, DialerType DEF iterElse, ctlVars, DialerStep, NextWaits, NextLocks, NextOpens,
       NextLoads, NextYields, NextEnds
  <2>2. itClosed' = itClosed
        /\ (dialer' = "open" => dialer' = dialer \/ ~ itClosed)
        /\ (it' = "open" => it = "open" \/ dialer = "open")
    BY <1>8 DEF DialerStep, NextWaits, NextLocks, NextOpens, NextLoads, NextYields, NextEnds
  <2> QED
    BY <2>1, <2>2 DEF SearchClosed
<1>9. CASE PhaseStep \/ SamplerStep \/ AdsStep \/ Packet \/ PeerStep \/ Gone \/ UNCHANGED vars
  <2>1. UNCHANGED iterVars
    BY <1>9, PhaseType, PeerType DEF phaseElse, peerElse, SamplerStep, SamplerReads, AddSample,
       SamplerEnds, AdsStep, ReadAds, StoreAds, AdsEnd, Packet, sampElse, adElse, Gone, vars
  <2> QED
    BY <1>9, <2>1, BackgroundFrame DEF SearchClosed, iterVars, ctlVars
<1> QED
  BY <1>1, <1>2, <1>3, <1>4, <1>5, <1>6, <1>7, <1>8, <1>9 DEF Next, ControlStep, PeerStep

-----------------------------------------------------------------------------
(* The ledger *)

\* A session is open exactly from srv.Start to fold, and a running server is its.
LEMMA OpenSession ==
  ASSUME TypeOK, Lifecycle
  PROVE  /\ Unfolded <=> cur \/ pc \in Starting
         /\ Unfolded => begun = sessions + 1
         /\ ~ Unfolded => begun = sessions
         /\ server \in {"up", "stopping"} => Unfolded /\ pc # "fold"
BY DEF TypeOK, SessionTypeOK, Lifecycle, Unfolded, Starting, Stopped

LEMMA LedgerStep ==
  ASSUME TypeOK, Lifecycle, SearchClosed, LedgerInv, [Next]_vars
  PROVE  LedgerInv'
<1> USE DEF LedgerInv
<1>0. /\ begun \in Nat /\ sessions \in Nat
      /\ wire \in Nat /\ snap \in Nat /\ wireDone \in Nat /\ traffic \in Nat
      /\ found \in SUBSET Peers /\ foundDone \in Nat /\ yielded \in Nat
      /\ Cardinality(found) \in Nat
  BY FoundFacts DEF TypeOK, SessionTypeOK, CountTypeOK, IterTypeOK
<1>q. ASSUME UNCHANGED <<begun, sessions, countVars, found, foundDone, yielded>>,
             pc' = "fold" => pc = "fold"
      PROVE  LedgerInv'
  BY <1>q DEF LedgerExact, Unfolded, countVars
<1>1. CASE MainStarts \/ Request \/ StopAt \/ Notify \/ Signal \/ MainFinishes \/ Exit
  <2>1. UNCHANGED <<nodeVars, countVars, iterVars>>
    BY <1>1 DEF MainStarts, Request, StopAt, Notify, Signal, MainFinishes, Exit
  <2>2. UNCHANGED pc \/ pc' \in {"check", "down", "finish"}
    BY <1>1 DEF MainStarts, Request, StopAt, Notify, Signal, MainFinishes, Exit, Acquire, ctlVars
  <2> QED
    BY <1>q, <2>1, <2>2 DEF nodeVars, iterVars
<1>2. CASE UpCheck \/ DownCheck \/ Subscribe \/ Cancel \/ CloseStop \/ CloseIter \/ CloseOpened
             \/ Unsubscribe \/ SnapshotLive \/ TraceLive \/ StopServer \/ ServerStopped
             \/ WaitGoroutines \/ Publish \/ FinishCheck \/ WriteTrace
  <2>1. UNCHANGED <<begun, sessions, countVars, found, foundDone, yielded>>
    BY <1>2 DEF UpCheck, DownCheck, Subscribe, Cancel, CloseStop, CloseIter, CloseOpened,
       Unsubscribe, SnapshotLive, TraceLive, StopServer, ServerStopped, WaitGoroutines, Publish,
       FinishCheck, WriteTrace, nodeVars, iterVars
  <2>2. pc' # "fold"
    BY <1>2 DEF UpCheck, DownCheck, Subscribe, Cancel, CloseStop, CloseIter, CloseOpened,
       Unsubscribe, SnapshotLive, TraceLive, StopServer, ServerStopped, WaitGoroutines, Publish,
       FinishCheck, WriteTrace, Return, Release, Goes
  <2> QED
    BY <1>q, <2>1, <2>2
<1>3. CASE StartServer
  <2>1. CASE ServerStarts
    <3>1. wireDone = traffic /\ foundDone = yielded /\ begun = sessions
      BY <1>0, <2>1, OpenSession DEF LedgerExact, ServerStarts, Lifecycle, Starting
    <3>2. /\ begun' = begun + 1 /\ UNCHANGED <<sessions, wireDone, traffic, foundDone, yielded>>
          /\ wire' = 0 /\ snap' = 0 /\ found' = {} /\ pc' # "fold"
      BY <2>1 DEF ServerStarts, NewSession
    <3> QED
      BY <1>0, <3>1, <3>2, FS_EmptySet DEF LedgerExact, Unfolded
  <2>2. CASE ServerFails
    BY <1>q, <2>2 DEF ServerFails, Return, Release, nodeVars, iterVars
  <2> QED
    BY <1>3, <2>1, <2>2, StartCases
<1>4. CASE SnapshotCounters \/ TraceCounters
  <2>1. /\ snap' = wire
        /\ UNCHANGED <<begun, sessions, wire, wireDone, traffic, found, foundDone, yielded>>
    BY <1>4 DEF SnapshotCounters, TraceCounters, nodeVars, iterVars
  <2> QED
    BY <1>0, <2>1 DEF LedgerExact, Unfolded
<1>5. CASE Fold
  <2>1. begun = sessions + 1 /\ snap = wire
    BY <1>5, OpenSession DEF Fold, Lifecycle, Stopped
  <2>2. /\ wireDone' = wireDone + snap /\ foundDone' = foundDone + Cardinality(found)
        /\ sessions' = sessions + 1 /\ pc' = "idle"
        /\ UNCHANGED <<begun, found, yielded, wire, snap, traffic>>
    BY <1>5 DEF Fold, Return, Release
  <2> QED
    BY <1>0, <2>1, <2>2 DEF LedgerExact, Unfolded
<1>6. CASE Packet
  <2>1. Unfolded /\ pc # "fold"
    BY <1>6, OpenSession DEF Packet
  <2>2. /\ wire' = wire + 1 /\ traffic' = traffic + 1
        /\ UNCHANGED <<begun, sessions, pc, snap, wireDone, found, foundDone, yielded>>
    BY <1>6 DEF Packet, nodeVars, iterVars, ctlVars
  <2> QED
    BY <1>0, <2>1, <2>2 DEF LedgerExact, Unfolded
<1>7. ASSUME NEW p \in Peers, NextYields(p)
      PROVE  LedgerInv'
  <2>1. Unfolded
    BY <1>7, OpenSession DEF NextYields, SearchClosed
  <2>2. /\ found' = found \cup {p}
        /\ yielded' = IF p \in found THEN yielded ELSE yielded + 1
        /\ UNCHANGED <<begun, sessions, pc, countVars, foundDone>>
    BY <1>7 DEF NextYields, iterElse, nodeVars, ctlVars
  <2>3. Cardinality(found') = IF p \in found THEN Cardinality(found) ELSE Cardinality(found) + 1
    BY <1>0, <2>2, FoundFacts
  <2> QED
    BY <1>0, <2>1, <2>2, <2>3 DEF LedgerExact, Unfolded, countVars
<1>8. CASE NextWaits \/ NextLocks \/ NextOpens \/ NextLoads \/ NextEnds
  <2>1. UNCHANGED <<begun, sessions, pc, countVars, found, foundDone, yielded>>
    BY <1>8 DEF NextWaits, NextLocks, NextOpens, NextLoads, NextEnds, iterElse, nodeVars, ctlVars
  <2> QED
    BY <1>q, <2>1
<1>9. CASE PhaseStep \/ SamplerStep \/ AdsStep \/ PeerStep \/ Gone \/ UNCHANGED vars
  <2>1. UNCHANGED <<iterVars, countVars>>
    BY <1>9, PhaseType, PeerType DEF phaseElse, peerElse, SamplerStep, SamplerReads, AddSample,
       SamplerEnds, AdsStep, ReadAds, StoreAds, AdsEnd, sampElse, adElse, Gone, vars
  <2> QED
    BY <1>q, <1>9, <2>1, BackgroundFrame DEF iterVars, ctlVars, nodeVars
<1> QED
  BY <1>1, <1>2, <1>3, <1>4, <1>5, <1>6, <1>7, <1>8, <1>9
     DEF Next, ControlStep, DialerStep, PeerStep

-----------------------------------------------------------------------------
(* The samples *)

LEMMA SamplesStep ==
  ASSUME TypeOK, Lifecycle, GoroutinesInside, LedgerInv, SamplesInv, [Next]_vars
  PROVE  SamplesInv'
<1> USE DEF SamplesInv
<1>0. /\ wire \in Nat /\ wireDone \in Nat /\ traffic \in Nat /\ smp \in Nat /\ samples \in Seq(Nat)
      /\ sampler # "ended" => wireDone + wire = traffic
  BY OpenSession DEF TypeOK, CountTypeOK, GoroutinesInside, LedgerInv, LedgerExact
<1>q. ASSUME UNCHANGED <<samples, sampler, smp, wireDone>>,
             UNCHANGED <<wire, traffic>> \/ (sampler = "ended" /\ traffic' = traffic)
      PROVE  SamplesInv'
  BY <1>q DEF SamplesCumulative
<1>1. CASE MainStarts \/ Request \/ StopAt \/ Notify \/ Signal \/ MainFinishes \/ Exit
  <2>1. UNCHANGED <<sampVars, countVars>>
    BY <1>1 DEF MainStarts, Request, StopAt, Notify, Signal, MainFinishes, Exit, goVars
  <2> QED
    BY <1>q, <2>1 DEF sampVars, countVars
<1>2. CASE UpCheck \/ DownCheck \/ Subscribe \/ Cancel \/ CloseStop \/ CloseIter \/ CloseOpened
             \/ Unsubscribe \/ SnapshotLive \/ TraceLive \/ StopServer \/ ServerStopped
             \/ WaitGoroutines \/ FinishCheck \/ WriteTrace \/ SnapshotCounters \/ TraceCounters
  <2>1. UNCHANGED <<sampVars, wire, wireDone, traffic>>
    BY <1>2 DEF UpCheck, DownCheck, Subscribe, Cancel, CloseStop, CloseIter, CloseOpened,
       Unsubscribe, SnapshotLive, TraceLive, StopServer, ServerStopped, WaitGoroutines,
       FinishCheck, WriteTrace, SnapshotCounters, TraceCounters, countVars, goVars
  <2> QED
    BY <1>q, <2>1 DEF sampVars
<1>3. CASE StartServer
  <2>1. CASE ServerStarts
    <3>1. sampler = "ended"
      BY <2>1 DEF ServerStarts, Lifecycle, GoroutinesInside
    <3> QED
      BY <1>q, <2>1, <3>1 DEF ServerStarts, sampVars
  <2>2. CASE ServerFails
    BY <1>q, <2>2 DEF ServerFails, goVars, sampVars, countVars
  <2> QED
    BY <1>3, <2>1, <2>2, StartCases
<1>4. CASE Publish
  <2>1. sampler' = "tick" /\ UNCHANGED <<samples, traffic>>
    BY <1>4 DEF Publish, countVars
  <2> QED
    BY <2>1 DEF SamplesCumulative
<1>5. CASE Fold
  <2>1. sampler = "ended" /\ UNCHANGED <<sampler, samples, traffic>>
    BY <1>5 DEF Fold, GoroutinesInside, sampVars
  <2> QED
    BY <2>1 DEF SamplesCumulative
<1>6. CASE SamplerReads \/ SamplerEnds
  <2>1. /\ UNCHANGED <<samples, wire, wireDone, traffic>> /\ sampler # "ended"
        /\ sampler' = "add" => smp' = wire
    BY <1>6 DEF SamplerReads, SamplerEnds, sampElse, countVars
  <2> QED
    BY <1>0, <2>1 DEF SamplesCumulative
<1>7. CASE AddSample
  <2>1. /\ samples' = Append(samples, wireDone + smp) /\ sampler' = "tick"
        /\ sampler = "add" /\ UNCHANGED traffic
    BY <1>7 DEF AddSample, sampElse, countVars
  <2>2. wireDone + smp \in Nat /\ wireDone + smp <= traffic
    BY <1>0, <2>1
  <2>3. /\ Len(samples') = Len(samples) + 1
        /\ \A i \in 1..Len(samples) : samples'[i] = samples[i] /\ samples[i] \in Nat
        /\ samples'[Len(samples) + 1] = wireDone + smp
    BY <1>0, <2>1, <2>2
  <2> QED
    BY <1>0, <2>1, <2>2, <2>3 DEF SamplesCumulative
<1>8. CASE Packet
  <2>1. /\ wire' = wire + 1 /\ traffic' = traffic + 1
        /\ UNCHANGED <<samples, sampler, smp, wireDone>>
    BY <1>8 DEF Packet, goVars, sampVars
  <2>2. \A i \in 1..Len(samples) : samples[i] \in Nat
    BY <1>0
  <2> QED
    BY <1>0, <2>1, <2>2 DEF SamplesCumulative
<1>9. CASE DialerStep \/ PhaseStep \/ AdsStep \/ PeerStep \/ Gone \/ UNCHANGED vars
  <2>1. UNCHANGED <<sampVars, countVars>>
    BY <1>9, DialerType, PhaseType, PeerType DEF iterElse, phaseElse, peerElse, AdsStep, ReadAds,
       StoreAds, AdsEnd, adElse, Gone, vars, goVars
  <2> QED
    BY <1>q, <2>1 DEF sampVars, countVars
<1> QED
  BY <1>1, <1>2, <1>3, <1>4, <1>5, <1>6, <1>7, <1>8, <1>9 DEF Next, ControlStep, SamplerStep, PeerStep

-----------------------------------------------------------------------------
(* The trace *)

LEMMA TraceStep ==
  ASSUME TypeOK, Lifecycle, LedgerInv, TraceInv, [Next]_vars
  PROVE  TraceInv'
<1> USE DEF TraceInv, Finish
<1>0. /\ begun \in Nat /\ sessions \in Nat /\ wire \in Nat /\ snap \in Nat
      /\ wireDone \in Nat /\ traffic \in Nat
  BY DEF TypeOK, SessionTypeOK, CountTypeOK
<1>a. trace # <<>> => trace[1].wire \in Nat
  <2> DEFINE R == [wire : Nat, sessions : Nat, found : Nat, samples : Seq(Nat)]
  <2>1. trace \in Seq(R)
    BY DEF TypeOK, SessionTypeOK
  <2>2. trace # <<>> => trace[1] \in R
    <3> HIDE DEF R
    <3> QED
      BY <2>1
  <2> QED
    BY <2>2
<1>q. ASSUME UNCHANGED <<begun, trace, traffic, done>>,
             pc' \in Finish => pc \in Finish
      PROVE  TraceInv'
  BY <1>q DEF TraceCoversRun
<1>1. CASE MainStarts \/ Request \/ StopAt \/ Notify \/ Signal \/ MainFinishes \/ Exit
  <2>1. UNCHANGED <<nodeVars, countVars>>
    BY <1>1 DEF MainStarts, Request, StopAt, Notify, Signal, MainFinishes, Exit
  <2>2. UNCHANGED pc \/ pc' \in {"check", "down", "finish"}
    BY <1>1 DEF MainStarts, Request, StopAt, Notify, Signal, MainFinishes, Exit, Acquire, ctlVars
  <2> QED
    BY <1>q, <2>1, <2>2 DEF nodeVars, countVars
<1>2. CASE UpCheck \/ DownCheck \/ Subscribe \/ Cancel \/ CloseStop \/ CloseIter \/ CloseOpened
             \/ Unsubscribe \/ SnapshotLive \/ StopServer \/ ServerStopped
             \/ WaitGoroutines \/ SnapshotCounters \/ Publish \/ Fold
  <2>1. UNCHANGED <<begun, trace, traffic, done>>
    BY <1>2 DEF UpCheck, DownCheck, Subscribe, Cancel, CloseStop, CloseIter, CloseOpened,
       Unsubscribe, SnapshotLive, StopServer, ServerStopped, WaitGoroutines, SnapshotCounters,
       Publish, Fold, nodeVars, countVars
  <2>2. pc' \notin Finish
    BY <1>2 DEF UpCheck, DownCheck, Subscribe, Cancel, CloseStop, CloseIter, CloseOpened,
       Unsubscribe, SnapshotLive, StopServer, ServerStopped, WaitGoroutines, SnapshotCounters,
       Publish, Fold, Return, Release, Goes
  <2> QED
    BY <1>q, <2>1, <2>2
<1>3. CASE StartServer
  <2>1. CASE ServerStarts
    <3>1. ~ done /\ trace = <<>> /\ UNCHANGED <<done, trace>> /\ pc' \notin Finish
      BY <2>1 DEF ServerStarts, Lifecycle
    <3> QED
      BY <3>1 DEF TraceCoversRun
  <2>2. CASE ServerFails
    BY <1>q, <2>2 DEF ServerFails, Return, Release, nodeVars, countVars
  <2> QED
    BY <1>3, <2>1, <2>2, StartCases
<1>4. CASE TraceLive \/ TraceCounters
  <2>1. UNCHANGED <<begun, trace, traffic, done>> /\ pc \in Finish
    BY <1>4 DEF TraceLive, TraceCounters, Goes, nodeVars, countVars
  <2> QED
    BY <1>q, <2>1
<1>5. CASE FinishCheck
  <2>1. /\ done' = TRUE /\ UNCHANGED <<begun, trace, traffic>>
        /\ pc' \in Finish => ~ done
    BY <1>5 DEF FinishCheck, Return, Release, Goes, countVars
  <2> QED
    BY <2>1 DEF TraceCoversRun
<1>6. CASE WriteTrace
  <2>1. /\ trace = <<>> /\ done /\ UNCHANGED <<begun, traffic, done>> /\ pc' = "down"
        /\ trace' \in {trace, Append(trace, Trace)} /\ pc = "trace"
    BY <1>6 DEF WriteTrace, Goes, countVars
  <2>2. sessions + (IF cur THEN 1 ELSE 0) = begun
    BY <2>1 DEF Lifecycle, Starting
  <2>3. wireDone + (IF cur THEN snap ELSE 0) <= traffic
    BY <1>0, <2>1, OpenSession DEF LedgerInv, LedgerExact
  <2>4. Trace.sessions = begun /\ Trace.wire <= traffic
    BY <2>2, <2>3 DEF Trace
  <2>5. trace' \in {<<>>, <<Trace>>}
    BY <2>1
  <2> QED
    BY <2>1, <2>4, <2>5 DEF TraceCoversRun
<1>7. CASE Packet
  <2>1. traffic' = traffic + 1 /\ UNCHANGED <<begun, trace, done, pc>>
    BY <1>7 DEF Packet, nodeVars, ctlVars
  <2> QED
    BY <1>0, <1>a, <2>1 DEF TraceCoversRun
<1>8. CASE DialerStep \/ PhaseStep \/ SamplerStep \/ AdsStep \/ PeerStep \/ Gone \/ UNCHANGED vars
  <2>1. UNCHANGED traffic
    BY <1>8, DialerType, PhaseType, PeerType DEF iterElse, phaseElse, peerElse, SamplerStep,
       SamplerReads, AddSample, SamplerEnds, sampElse, AdsStep, ReadAds, StoreAds, AdsEnd, adElse,
       Gone, vars, countVars
  <2> QED
    BY <1>q, <1>8, <2>1, BackgroundFrame DEF ctlVars, nodeVars
<1> QED
  BY <1>1, <1>2, <1>3, <1>4, <1>5, <1>6, <1>7, <1>8 DEF Next, ControlStep, PeerStep

-----------------------------------------------------------------------------
(* The lookups *)

\* The most lookups a session records.
Most == IF model = "continuous" THEN 1 ELSE Lookups

LEMMA ScheduleStep ==
  ASSUME TypeOK, Lifecycle, GoroutinesInside, ScheduleInv, [Next]_vars
  PROVE  ScheduleInv'
<1>0. /\ model \in Model /\ Lookups \in Nat /\ Most \in Nat /\ left \in Nat /\ sessions \in Nat
      /\ lookups \in Seq(Outcomes) /\ lookupsDone \in Seq(Outcomes)
      /\ Len(lookups) \in Nat /\ Len(lookupsDone) \in Nat
      /\ UnderWay \in {0, 1}
  BY JobFacts DEF TypeOK, ProcTypeOK, PhaseTypeOK, SessionTypeOK, Most, UnderWay
<1>q. ASSUME UNCHANGED <<job, phase, left, lookups, lookupsDone, cur, sessions>>,
             pc' \in Starting => pc \in Starting
      PROVE  ScheduleInv'
  BY <1>q DEF ScheduleInv, RecordedWithinSchedule, UnderWay, model, Lookups
<1>1. CASE MainStarts \/ Request \/ StopAt \/ Notify \/ Signal \/ MainFinishes \/ Exit
  <2>1. UNCHANGED <<nodeVars, phaseVars, job>>
    BY <1>1 DEF MainStarts, Request, StopAt, Notify, Signal, MainFinishes, Exit, goVars
  <2>2. UNCHANGED pc \/ pc' \in {"check", "down", "finish"}
    BY <1>1 DEF MainStarts, Request, StopAt, Notify, Signal, MainFinishes, Exit, Acquire, ctlVars
  <2> QED
    BY <1>q, <2>1, <2>2 DEF nodeVars, phaseVars, Starting
<1>2. CASE UpCheck \/ DownCheck \/ Subscribe \/ Cancel \/ CloseStop \/ CloseIter \/ CloseOpened
             \/ Unsubscribe \/ SnapshotLive \/ StopServer \/ ServerStopped \/ WaitGoroutines
             \/ SnapshotCounters \/ TraceLive \/ TraceCounters \/ FinishCheck \/ WriteTrace
  <2>1. UNCHANGED <<cur, sessions, phaseVars, job>>
    BY <1>2 DEF UpCheck, DownCheck, Subscribe, Cancel, CloseStop, CloseIter, CloseOpened,
       Unsubscribe, SnapshotLive, StopServer, ServerStopped, WaitGoroutines, SnapshotCounters,
       TraceLive, TraceCounters, FinishCheck, WriteTrace, nodeVars, goVars, Return, Goes, procVars
  <2>2. pc' \in Starting => pc \in Starting
    BY <1>2 DEF UpCheck, DownCheck, Subscribe, Cancel, CloseStop, CloseIter, CloseOpened,
       Unsubscribe, SnapshotLive, StopServer, ServerStopped, WaitGoroutines, SnapshotCounters,
       TraceLive, TraceCounters, FinishCheck, WriteTrace, Return, Release, Goes, Starting
  <2> QED
    BY <1>q, <2>1, <2>2 DEF phaseVars
<1>3. CASE StartServer
  <2>1. CASE ServerStarts
    <3>1. ~ cur /\ lookups' = <<>> /\ UNCHANGED <<job, phase, left, lookupsDone, cur, sessions>>
      BY <2>1 DEF ServerStarts, NewSession, Lifecycle, procVars
    <3>2. Len(lookups') = 0 /\ model' = model /\ Lookups' = Lookups
      BY <3>1 DEF model, Lookups
    <3> QED
      BY <1>0, <3>1, <3>2 DEF ScheduleInv, RecordedWithinSchedule, Most
  <2>2. CASE ServerFails
    BY <1>q, <2>2 DEF ServerFails, Return, Release, nodeVars, goVars, phaseVars, Starting
  <2> QED
    BY <1>3, <2>1, <2>2, StartCases
<1>4. CASE Publish
  <2>1. /\ lookups = <<>> /\ UNCHANGED <<job, lookups, lookupsDone, sessions>>
        /\ phase' = "register" /\ left' = Lookups /\ pc' = "idle"
    BY <1>4 DEF Publish, Return, Release, ScheduleInv, Starting
  <2>2. Len(lookups') = 0 /\ model' = model /\ Lookups' = Lookups /\ UnderWay' = 0
    BY <2>1 DEF model, Lookups, UnderWay
  <2> QED
    BY <1>0, <2>1, <2>2 DEF ScheduleInv, RecordedWithinSchedule, Most, Starting
<1>5. CASE Fold
  <2>1. /\ cur /\ lookupsDone' = lookupsDone \o lookups /\ sessions' = sessions + 1
        /\ cur' = FALSE /\ pc' = "idle" /\ UNCHANGED <<job, phase, left, lookups>>
    BY <1>5 DEF Fold, Lifecycle, Stopped, Return, Release
  <2>2. Len(lookups) <= Most
    BY <1>0, <2>1 DEF ScheduleInv, RecordedWithinSchedule, Most
  <2>3. Len(lookupsDone') = Len(lookupsDone) + Len(lookups)
    BY <1>0, <2>1
  <2>4. Len(lookupsDone) <= Most * sessions
    BY DEF ScheduleInv, RecordedWithinSchedule, Most
  <2>5. Most * (sessions + 1) = Most * sessions + Most /\ Most * sessions \in Nat
    BY <1>0
  <2>6. Len(lookupsDone') <= Most * sessions'
    BY <1>0, <2>1, <2>2, <2>3, <2>4, <2>5
  <2>7. model' = model /\ Lookups' = Lookups /\ Most' = Most
    BY <2>1 DEF model, Lookups, Most
  <2> QED
    BY <2>1, <2>2, <2>6, <2>7 DEF ScheduleInv, RecordedWithinSchedule, Most, Starting
<1>6. CASE PhaseStep
  <2>1. cur /\ UNCHANGED <<pc, job, cur, sessions>> /\ phase # "ended"
    <3>1. phase # "ended"
      BY <1>6 DEF PhaseStep, WaitCtx, RegisterTopic, CloseReady, PickLookup, OpenLookup, Consume,
         TakeResult, RecordLookup
    <3> QED
      BY <1>6, <3>1, PhaseType DEF GoroutinesInside, phaseElse, ctlVars, procVars, nodeVars
  <2>2. pc \notin Starting /\ model' = model /\ Lookups' = Lookups
    BY <2>1 DEF Lifecycle, Starting, model, Lookups
  <2>s. ASSUME UNCHANGED <<lookups, lookupsDone>>, left' + UnderWay' <= left + UnderWay,
               left' \in Nat, UnderWay' \in Nat,
               model = "conn" => phase' \notin {"pick", "open", "consume", "got", "record"}
        PROVE  ScheduleInv'
    <3>1. Len(lookupsDone') <= (IF model' = "continuous" THEN 1 ELSE Lookups') * sessions'
      BY <2>1, <2>2, <2>s DEF ScheduleInv, RecordedWithinSchedule
    <3>2. model = "scheduled" => Len(lookups') + left' + UnderWay' <= Lookups
      <4>1. model = "scheduled" => Len(lookups) + left + UnderWay <= Lookups
        BY <2>1 DEF ScheduleInv
      <4>2. Len(lookups') = Len(lookups) /\ UnderWay \in Nat
        BY <1>0, <2>s
      <4>3. \A n, l, u, m, v, w \in Nat : n + l + u <= m /\ v + w <= l + u => n + v + w <= m
        OBVIOUS
      <4> QED
        BY <1>0, <2>s, <4>1, <4>2, <4>3
    <3>3. model # "scheduled" => Len(lookups') <= IF model' = "continuous" THEN 1 ELSE Lookups'
      BY <1>0, <2>1, <2>2, <2>s DEF ScheduleInv, RecordedWithinSchedule
    <3>4. model = "scheduled" => Len(lookups') <= Lookups - left'
      BY <1>0, <2>s, <3>2
    <3>5. RecordedWithinSchedule'
      BY <2>1, <2>2, <3>1, <3>3, <3>4 DEF RecordedWithinSchedule
    <3> QED
      BY <1>0, <2>1, <2>2, <2>s, <3>2, <3>5 DEF ScheduleInv
  <2>3. CASE WaitCtx("register", "registering") \/ RegisterTopic \/ WaitCtx("search", "ready")
               \/ CloseReady
    BY <1>0, <2>3, <2>1, <2>2 DEF ScheduleInv, RecordedWithinSchedule, WaitCtx, RegisterTopic,
       CloseReady, UnderWay
  <2>4. CASE PickLookup
    BY <1>0, <2>4, <2>s DEF PickLookup, UnderWay, ScheduleInv
  <2>5. CASE OpenLookup \/ Consume
    BY <1>0, <2>5, <2>s DEF OpenLookup, Consume, UnderWay, ScheduleInv
  <2>6. CASE TakeResult
    <3>1. UNCHANGED <<left, lookupsDone>> /\ UnderWay = 1 /\ UnderWay' = 1
      BY <2>6 DEF TakeResult, UnderWay
    <3>2. CASE model = "continuous"
      BY <1>0, <2>1, <2>2, <2>6, <3>1, <3>2 DEF TakeResult, ScheduleInv, RecordedWithinSchedule
    <3>3. CASE model # "continuous"
      BY <1>0, <2>s, <2>6, <3>1, <3>3 DEF TakeResult, ScheduleInv
    <3> QED
      BY <3>2, <3>3
  <2>7. CASE RecordLookup
    <3>1. UNCHANGED <<left, lookupsDone>> /\ UnderWay = 1 /\ UnderWay' = 0 /\ model # "conn"
      BY <2>7 DEF RecordLookup, UnderWay, ScheduleInv
    <3>2. CASE model = "continuous"
      <4>1. Len(lookups') = 1
        BY <2>7, <3>2 DEF RecordLookup
      <4> QED
        BY <1>0, <2>1, <2>2, <3>1, <3>2, <4>1 DEF ScheduleInv, RecordedWithinSchedule
    <3>3. CASE model = "scheduled"
      <4>1. Len(lookups') = Len(lookups) + 1
        BY <1>0, <2>7, <3>3 DEF RecordLookup
      <4> QED
        BY <1>0, <2>1, <2>2, <3>1, <3>3, <4>1 DEF ScheduleInv, RecordedWithinSchedule
    <3> QED
      BY <1>0, <3>1, <3>2, <3>3 DEF Model
  <2> QED
    BY <1>6, <2>3, <2>4, <2>5, <2>6, <2>7 DEF PhaseStep
<1>7. CASE DialerStep \/ SamplerStep \/ AdsStep \/ Packet \/ PeerStep \/ Gone \/ UNCHANGED vars
  <2>1. UNCHANGED phaseVars
    BY <1>7, DialerType, PeerType DEF iterElse, peerElse, SamplerStep, SamplerReads, AddSample,
       SamplerEnds, AdsStep, ReadAds, StoreAds, AdsEnd, Packet, sampElse, adElse, Gone, vars, goVars
  <2> QED
    BY <1>q, <1>7, <2>1, BackgroundFrame DEF phaseVars, ctlVars, procVars, nodeVars
<1> QED
  BY <1>1, <1>2, <1>3, <1>4, <1>5, <1>6, <1>7 DEF Next, ControlStep, PeerStep

-----------------------------------------------------------------------------
(* The theorems *)

LEMMA NodeInit == Init => NodeInv
<1> SUFFICES ASSUME Init PROVE NodeInv
  OBVIOUS
<1>1. TypeOK
  BY TypeInit
<1>2. Lifecycle /\ GoroutinesInside /\ SearchClosed
  BY DEF Init, Lifecycle, GoroutinesInside, SearchClosed, Starting, Closing, Closed, Stopped
<1>3. LedgerInv
  BY FS_EmptySet DEF Init, LedgerInv, LedgerExact, Unfolded
<1>4. SamplesInv
  BY DEF Init, SamplesInv, SamplesCumulative
<1>5. TraceInv
  BY DEF Init, TraceInv, TraceCoversRun, Finish
<1>6. ScheduleInv
  <2>1. lookups = <<>> /\ lookupsDone = <<>> /\ sessions = 0 /\ ~ cur /\ phase = "ended"
    BY DEF Init
  <2>2. Lookups \in Nat
    BY JobFacts DEF Init
  <2> QED
    BY <2>1, <2>2 DEF ScheduleInv, RecordedWithinSchedule
<1> QED
  BY <1>1, <1>2, <1>3, <1>4, <1>5, <1>6 DEF NodeInv

LEMMA NodeStep == NodeInv /\ [Next]_vars => NodeInv'
BY TypeStep, LifeStep, GoroutinesStep, SearchStep, LedgerStep, SamplesStep, TraceStep, ScheduleStep
   DEF NodeInv

LEMMA NodeInvariant == Spec => []NodeInv
BY NodeInit, NodeStep, PTL DEF Spec

\* Every packet and every registrant is in the node's totals or in the open
\* session, exactly once, over any number of /up, /down and finish.
THEOREM LedgerIsExact == Spec => []LedgerExact
<1>1. NodeInv => LedgerExact
  BY DEF NodeInv, LedgerInv
<1> QED
  BY <1>1, NodeInvariant, PTL

\* The samples never decrease and never exceed what was sent, over any number of
\* sessions, though addSample reads the counters before it takes node.mu.
THEOREM SeriesIsCumulative == Spec => []SamplesCumulative
<1>1. NodeInv => SamplesCumulative
  BY DEF NodeInv, SamplesInv
<1> QED
  BY <1>1, NodeInvariant, PTL

\* Whoever writes the trace, no session starts after it, and it claims no more
\* traffic than there was.
THEOREM TraceIsComplete == Spec => []TraceCoversRun
<1>1. NodeInv => TraceCoversRun
  BY DEF NodeInv, TraceInv
<1> QED
  BY <1>1, NodeInvariant, PTL

\* lazyIter never opens a search on a server that is being stopped, and leaves
\* none open behind it, whatever the order of ready, Next and Close.
THEOREM SearchDiesWithServer == Spec => []NoSearchOnStoppedServer
<1>1. NodeInv => NoSearchOnStoppedServer
  <2> SUFFICES ASSUME NodeInv PROVE NoSearchOnStoppedServer
    OBVIOUS
  <2>1. server = "stopping" => pc = "stopping"
    BY DEF NodeInv, Lifecycle, Stopped, TypeOK, SessionTypeOK
  <2> QED
    BY <2>1 DEF NodeInv, SearchClosed, NoSearchOnStoppedServer, Closed, Stopped, TypeOK,
       SessionTypeOK
<1> QED
  BY <1>1, NodeInvariant, PTL

\* No lookup is recorded twice, and none that was not taken off the schedule.
THEOREM LookupsWithinSchedule == Spec => []RecordedWithinSchedule
<1>1. NodeInv => RecordedWithinSchedule
  BY DEF NodeInv, ScheduleInv
<1> QED
  BY <1>1, NodeInvariant, PTL
=============================================================================

---------------------------- MODULE NodeSession ----------------------------
(***************************************************************************)
(* One node process of the testbed (cmd/node): the control operations up,  *)
(* down and finish, serialised by node.ctl; the goroutines of a session    *)
(* (phases, watchAds, watchPeers, sampler); the lazy iterator through      *)
(* which the dialer gets its topic search; and main, with its StopAt timer *)
(* and its signal.                                                         *)
(*                                                                         *)
(* node.ctl admits one operation at a time, so a caller is modelled from   *)
(* the moment it gets the lock.  Every other step is one critical section  *)
(* of node.mu or lazyIter.mu, one channel operation, or one call on the    *)
(* p2p server.  The server belongs to go-ethereum: its traffic, its peers  *)
(* and their event feed, its dial scheduler's calls of Next, and a Stop    *)
(* that waits for the dial scheduler and the peers are modelled from the   *)
(* way session.go uses them.                                               *)
(*                                                                         *)
(* Times, identities and report fields are abstracted: the wire counters   *)
(* are one number, an advertisement snapshot is where it was read, a       *)
(* lookup is how it ended.                                                 *)
(***************************************************************************)
EXTENDS Integers, Sequences, FiniteSets

CONSTANTS
  Jobs,        \* what a node may be assigned and how far its run is followed
  Peers,       \* the registrants a search may yield
  MaxDialed,   \* srv.MaxDialedConns()
  EventCap     \* capacity of the peer event channel (64 in the code)

Model == {"conn", "scheduled", "continuous"}

ASSUME NodeSessionAssumption ==
  /\ Jobs \subseteq [model : Model, arrival : BOOLEAN, lookups : Nat, requests : Nat,
                     traffic : Nat, samples : Nat, snaps : Nat, events : Nat]
  /\ IsFiniteSet(Peers)
  /\ MaxDialed \in Nat /\ EventCap \in Nat \ {0}

VARIABLES
  \* The process: main, the StopAt goroutine, the holder of ctl.
  main,        \* where main is
  timer,       \* the StopAt goroutine
  exit,        \* "no", or how the process ended
  holder,      \* who holds ctl
  op,          \* the operation it runs
  pc,          \* and where that is
  requests,    \* HTTP requests so far
  job,         \* the node's assignment, and the bounds of the run
  \* The node.
  done,        \* n.done
  cur,         \* n.cur # nil
  sessions,    \* len(n.sessions)
  begun,       \* sessions whose server was started (history)
  trace,       \* the trace file: <<>> or one record
  \* The session's server and its channels.
  server,      \* "none", "up", "stopping" or "stopped"
  cancelled,   \* s.ctx is cancelled
  stopped,     \* s.stop is closed
  ready,       \* s.ready is closed
  subscribed,  \* s.sub is live
  \* lazyIter and the dial scheduler.
  itClosed,    \* l.closed is closed
  it,          \* l.it: "nil", "open" or "closed"
  dialer,      \* where the dial scheduler is in Next
  found,       \* s.connSeen
  foundDone,   \* len(n.connDone)
  yielded,     \* registrants handed to the dialer (history)
  \* phases and the lookups.
  phase,       \* where the goroutine is
  left,        \* lookups still scheduled
  outcome,     \* how the current lookup ended
  lookups,     \* s.lookups
  lookupsDone, \* n.lookupsDone
  \* Counters.
  wire,        \* the server's own counters
  snap,        \* s.wire
  wireDone,    \* n.wireDone
  traffic,     \* packets of all servers (history)
  sampler,     \* where the goroutine is
  smp,         \* the counters it read
  samples,     \* n.samples
  \* watchAds.
  ads,         \* where the goroutine is
  adsRead,     \* the snapshot it took
  adsLast,     \* s.adsLast
  snaps,       \* ticks so far
  \* Peers, their events and watchPeers.
  outPeers,    \* dialed peers of the server
  inPeers,     \* accepted peers of the server
  sender,      \* the event a peer goroutine is about to send
  events,      \* the event channel
  watcher,     \* where watchPeers is
  counted,     \* the add it handles, the outbound peers it counted
  lostAt,      \* s.lostAt: the kind of peer lost
  refills,     \* n.refills: <<kind lost, kind added>>
  connFull,    \* s.connFullMs >= 0
  churned      \* peer events so far

ctlVars   == <<holder, op, pc>>
procVars  == <<main, timer, exit, requests, job>>
nodeVars  == <<done, cur, sessions, begun, trace>>
chanVars  == <<cancelled, stopped, ready>>
iterVars  == <<itClosed, it, dialer, found, foundDone, yielded>>
phaseVars == <<phase, left, outcome, lookups, lookupsDone>>
countVars == <<wire, snap, wireDone, traffic>>
sampVars  == <<sampler, smp, samples>>
adVars    == <<ads, adsRead, adsLast, snaps>>
peerVars  == <<outPeers, inPeers, sender, events, watcher, counted, lostAt,
               refills, connFull, churned>>
goVars    == <<phaseVars, sampVars, adVars, peerVars>>
vars      == <<ctlVars, procVars, nodeVars, server, subscribed, chanVars,
               iterVars, countVars, goVars>>

Kinds == {"out", "in"}

\* The assignment: search.model, whether the node is first brought up by /up, and
\* len(LookupAtMs).
model   == job.model
Arrival == job.arrival
Lookups == job.lookups

\* Bounds of the environment: /up and /down calls, packets over all servers, ticks
\* of the sampler and of watchAds, peer adds and drops.
MaxRequests == job.requests
MaxTraffic  == job.traffic
MaxSamples  == job.samples
MaxSnaps    == job.snaps
MaxEvents   == job.events

LookupOnly == model # "conn"

\* The process is there: nothing happens once it has exited.
Alive == exit = "no"

Init ==
  /\ job \in Jobs
  /\ main = "starting" /\ timer = "unset" /\ exit = "no" /\ requests = 0
  /\ holder = "none" /\ op = "none" /\ pc = "idle"
  /\ done = FALSE /\ cur = FALSE /\ sessions = 0 /\ begun = 0 /\ trace = <<>>
  /\ server = "none" /\ subscribed = FALSE
  /\ cancelled = FALSE /\ stopped = FALSE /\ ready = FALSE
  /\ itClosed = FALSE /\ it = "nil" /\ dialer = "ended"
  /\ found = {} /\ foundDone = 0 /\ yielded = 0
  /\ phase = "ended" /\ left = 0 /\ outcome = "none"
  /\ lookups = <<>> /\ lookupsDone = <<>>
  /\ wire = 0 /\ snap = 0 /\ wireDone = 0 /\ traffic = 0
  /\ sampler = "ended" /\ smp = 0 /\ samples = <<>>
  /\ ads = "ended" /\ adsRead = "none" /\ adsLast = "none" /\ snaps = 0
  /\ outPeers = 0 /\ inPeers = 0 /\ sender = <<>> /\ events = <<>>
  /\ watcher = "ended" /\ counted = [kind |-> "in", out |-> 0] /\ lostAt = <<>> /\ refills = {}
  /\ connFull = FALSE /\ churned = 0

-----------------------------------------------------------------------------
(* Getting and releasing node.ctl. *)

Acquire(who, what, at) ==
  /\ holder = "none"
  /\ holder' = who /\ op' = what /\ pc' = at

Release == holder' = "none" /\ op' = "none" /\ pc' = "idle"

\* main starts its node once StartAt has passed; the status port is open by
\* then, so churn calls may come first.  An arrival waits for /up.
MainStarts ==
  /\ Alive
  /\ main = "starting"
  /\ \/ /\ ~ Arrival
        /\ Acquire("main", "up", "check")
        /\ main' = "calling"
        /\ UNCHANGED timer
     \/ /\ Arrival
        /\ main' = "started"
        /\ timer' = "armed"
        /\ UNCHANGED ctlVars
  /\ UNCHANGED <<exit, requests, job, nodeVars, server, subscribed, chanVars, iterVars,
                 countVars, goVars>>

\* The handlers of /up and /down.
Request ==
  /\ Alive
  /\ requests < MaxRequests
  /\ requests' = requests + 1
  /\ \/ Acquire("http", "up", "check")
     \/ Acquire("http", "down", "down")
  /\ UNCHANGED <<main, timer, exit, job, nodeVars, server, subscribed, chanVars,
                 iterVars, countVars, goVars>>

\* StopAt passes: the goroutine finishes the node.
StopAt ==
  /\ Alive
  /\ timer = "armed"
  /\ Acquire("timer", "finish", "finish")
  /\ timer' = "calling"
  /\ UNCHANGED <<main, exit, requests, job, nodeVars, server, subscribed, chanVars,
                 iterVars, countVars, goVars>>

Notify ==
  /\ Alive
  /\ main = "started"
  /\ main' = "running"
  /\ UNCHANGED <<timer, exit, requests, job, ctlVars, nodeVars, server, subscribed,
                 chanVars, iterVars, countVars, goVars>>

\* SIGTERM: main finishes the node; before signal.Notify it kills the process.
Signal ==
  /\ Alive
  /\ \/ /\ main = "running"
        /\ main' = "signalled"
        /\ UNCHANGED exit
     \/ /\ main \in {"starting", "calling", "started"}
        /\ exit' = "killed"
        /\ UNCHANGED main
  /\ UNCHANGED <<timer, requests, job, ctlVars, nodeVars, server, subscribed,
                 chanVars, iterVars, countVars, goVars>>

MainFinishes ==
  /\ Alive
  /\ main = "signalled"
  /\ Acquire("main", "finish", "finish")
  /\ main' = "calling"
  /\ UNCHANGED <<timer, exit, requests, job, nodeVars, server, subscribed, chanVars,
                 iterVars, countVars, goVars>>

\* What the caller does with the result: main fails when its up fails, main and
\* the timer are about to exit after finish, the handlers answer.
Return(ok) ==
  /\ Release
  /\ \/ /\ holder = "main" /\ op = "up" /\ ok
        /\ main' = "started" /\ timer' = "armed"
        /\ UNCHANGED exit
     \/ /\ holder = "main" /\ op = "up" /\ ~ ok
        /\ exit' = "failed"
        /\ UNCHANGED <<main, timer>>
     \/ /\ holder = "main" /\ op = "finish"
        /\ main' = "exiting"
        /\ UNCHANGED <<timer, exit>>
     \/ /\ holder = "timer"
        /\ timer' = "exiting"
        /\ UNCHANGED <<main, exit>>
     \/ /\ holder = "http"
        /\ UNCHANGED <<main, timer, exit>>
  /\ UNCHANGED <<requests, job>>

Exit ==
  /\ Alive
  /\ "exiting" \in {main, timer}
  /\ exit' = "finished"
  /\ UNCHANGED <<main, timer, requests, job, ctlVars, nodeVars, server, subscribed,
                 chanVars, iterVars, countVars, goVars>>

-----------------------------------------------------------------------------
(* up *)

\* Faulty variant: a node that has written its trace may still come up.
UpRefusedIfUp == cur

\* errStopped, errUp.
UpRefused == done \/ cur

UpCheck ==
  /\ Alive
  /\ pc = "check"
  /\ \/ /\ UpRefused
        /\ Return(FALSE)
     \/ /\ ~ UpRefused
        /\ pc' = "start"
        /\ UNCHANGED <<holder, op, procVars>>
  /\ UNCHANGED <<nodeVars, server, subscribed, chanVars, iterVars, countVars, goVars>>

\* A fresh session: its own channels and iterator, empty records; the server's
\* counters start from zero.  The dial scheduler runs from srv.Start on, in
\* the connection-driven model only.
NewSession ==
  /\ cancelled' = FALSE /\ stopped' = FALSE /\ ready' = FALSE
  /\ itClosed' = FALSE /\ it' = "nil" /\ found' = {}
  /\ dialer' = IF LookupOnly THEN "ended" ELSE "wait"
  /\ wire' = 0 /\ snap' = 0
  /\ lookups' = <<>> /\ adsLast' = "none" /\ lostAt' = <<>> /\ connFull' = FALSE
  /\ outPeers' = 0 /\ inPeers' = 0 /\ sender' = <<>> /\ events' = <<>>

StartServer ==
  /\ Alive
  /\ pc = "start"
  /\ \/ /\ server' = "up"
        /\ begun' = begun + 1
        /\ NewSession
        /\ pc' = "subscribe"
        /\ UNCHANGED <<holder, op, procVars>>
     \/ /\ Return(FALSE)   \* srv.Start fails: only the context is released
        /\ UNCHANGED <<server, begun, chanVars, itClosed, it, dialer, found, wire, snap,
                       lookups, adsLast, lostAt, connFull, outPeers, inPeers, sender, events>>
  /\ UNCHANGED <<done, cur, sessions, trace, subscribed, foundDone, yielded,
                 wireDone, traffic, phase, left, outcome, lookupsDone, sampVars,
                 ads, adsRead, snaps, watcher, counted, refills, churned>>

Subscribe ==
  /\ Alive
  /\ pc = "subscribe"
  /\ subscribed' = TRUE
  /\ pc' = "publish"
  /\ UNCHANGED <<holder, op, procVars, nodeVars, server, chanVars, iterVars, countVars, goVars>>

\* n.cur = s, and the session's goroutines start.
Publish ==
  /\ Alive
  /\ pc = "publish"
  /\ cur' = TRUE
  /\ phase' = "register" /\ left' = Lookups /\ outcome' = "none"
  /\ sampler' = "tick" /\ ads' = "tick" /\ watcher' = "recv"
  /\ Return(TRUE)
  /\ UNCHANGED <<done, sessions, begun, trace, server, subscribed, chanVars, iterVars,
                 countVars, lookups, lookupsDone, smp, samples, adsRead, adsLast, snaps,
                 outPeers, inPeers, sender, events, counted, lostAt, refills,
                 connFull, churned>>

-----------------------------------------------------------------------------
(* down *)

\* The step of the operation from one place to the next, with nothing returned.
Goes(from, to) ==
  /\ pc = from
  /\ pc' = to
  /\ UNCHANGED <<holder, op, procVars>>

\* downLocked's test; errDown when there is no session.
DownCheck ==
  /\ Alive
  /\ \/ ~ cur /\ pc = "down" /\ Return(FALSE)
     \/ cur /\ Goes("down", "cancel")
  /\ UNCHANGED <<nodeVars, server, subscribed, chanVars, iterVars, countVars, goVars>>

Cancel ==
  /\ Alive
  /\ Goes("cancel", "stop")
  /\ cancelled' = TRUE
  /\ UNCHANGED <<nodeVars, server, subscribed, stopped, ready, iterVars, countVars, goVars>>

CloseStop ==
  /\ Alive
  /\ Goes("stop", "close")
  /\ stopped' = TRUE
  /\ UNCHANGED <<nodeVars, server, subscribed, cancelled, ready, iterVars, countVars, goVars>>

\* Faulty variant: Close only closes an iterator that is already open.
CloseIterSilent ==
  /\ Alive
  /\ Goes("close", "closeIt")
  /\ UNCHANGED <<nodeVars, server, subscribed, chanVars, iterVars, countVars, goVars>>

\* lazyIter.Close: first l.closed, then under l.mu the iterator.
CloseIter ==
  /\ Alive
  /\ Goes("close", "closeIt")
  /\ itClosed' = TRUE
  /\ UNCHANGED <<nodeVars, server, subscribed, chanVars, it, dialer, found, foundDone,
                 yielded, countVars, goVars>>

\* The dial scheduler holds l.mu while it opens the search.
IterLocked == dialer = "open"

CloseOpened ==
  /\ Alive
  /\ ~ IterLocked
  /\ Goes("closeIt", "unsubscribe")
  /\ it' = IF it = "open" THEN "closed" ELSE it
  /\ UNCHANGED <<nodeVars, server, subscribed, chanVars, itClosed, dialer, found, foundDone,
                 yielded, countVars, goVars>>

\* Faulty variant: the subscription is kept.
UnsubscribeLate ==
  /\ Alive
  /\ Goes("unsubscribe", "live")
  /\ UNCHANGED <<nodeVars, server, subscribed, chanVars, iterVars, countVars, goVars>>

Unsubscribe ==
  /\ Alive
  /\ Goes("unsubscribe", "live")
  /\ subscribed' = FALSE
  /\ UNCHANGED <<nodeVars, server, chanVars, iterVars, countVars, goVars>>

\* snapshotLive needs the running server; what it reads is not told apart.
SnapshotLive ==
  /\ Alive
  /\ Goes("live", "stopServer")
  /\ UNCHANGED <<nodeVars, server, subscribed, chanVars, iterVars, countVars, goVars>>

StopServer ==
  /\ Alive
  /\ Goes("stopServer", "stopping")
  /\ server' = "stopping"
  /\ UNCHANGED <<nodeVars, subscribed, chanVars, iterVars, countVars, goVars>>

\* srv.Stop returns: the dial scheduler and every peer are gone.
ServerStopped ==
  /\ Alive
  /\ dialer = "ended" /\ sender = <<>>
  /\ Goes("stopping", "wait")
  /\ server' = "stopped"
  /\ UNCHANGED <<nodeVars, subscribed, chanVars, iterVars, countVars, goVars>>

WaitGoroutines ==
  /\ Alive
  /\ {phase, ads, watcher, sampler} = {"ended"}
  /\ Goes("wait", "counters")
  /\ UNCHANGED <<nodeVars, server, subscribed, chanVars, iterVars, countVars, goVars>>

\* Faulty variant: a snapshot the trace already took is kept.
SnapshotCountersOnce ==
  /\ Alive
  /\ Goes("counters", "fold")
  /\ snap' = IF snap = 0 THEN wire ELSE snap
  /\ UNCHANGED <<nodeVars, server, subscribed, chanVars, iterVars, wire, wireDone, traffic, goVars>>

SnapshotCounters ==
  /\ Alive
  /\ Goes("counters", "fold")
  /\ snap' = wire
  /\ UNCHANGED <<nodeVars, server, subscribed, chanVars, iterVars, wire, wireDone, traffic, goVars>>

\* Faulty variant: what the session's dialer found is not carried over.
FoldForgetsFinds ==
  /\ Alive
  /\ pc = "fold"
  /\ wireDone' = wireDone + snap
  /\ lookupsDone' = lookupsDone \o lookups
  /\ sessions' = sessions + 1
  /\ cur' = FALSE
  /\ Return(TRUE)
  /\ UNCHANGED <<done, begun, trace, server, subscribed, chanVars, itClosed, it, dialer,
                 found, foundDone, yielded, wire, snap, traffic, phase, left, outcome,
                 lookups, sampVars, adVars, peerVars>>

Fold ==
  /\ Alive
  /\ pc = "fold"
  /\ wireDone' = wireDone + snap
  /\ foundDone' = foundDone + Cardinality(found)
  /\ lookupsDone' = lookupsDone \o lookups
  /\ sessions' = sessions + 1
  /\ cur' = FALSE
  /\ Return(TRUE)
  /\ UNCHANGED <<done, begun, trace, server, subscribed, chanVars, itClosed, it, dialer,
                 found, yielded, wire, snap, traffic, phase, left, outcome, lookups,
                 sampVars, adVars, peerVars>>

-----------------------------------------------------------------------------
(* finish *)

FinishCheck ==
  /\ Alive
  /\ \/ /\ done
        /\ pc = "finish"
        /\ Return(TRUE)
     \/ /\ ~ done
        /\ IF cur THEN Goes("finish", "liveTrace") ELSE Goes("finish", "trace")
  /\ done' = TRUE
  /\ UNCHANGED <<cur, sessions, begun, trace, server, subscribed, chanVars, iterVars,
                 countVars, goVars>>

TraceLive ==
  /\ Alive
  /\ Goes("liveTrace", "countTrace")
  /\ UNCHANGED <<nodeVars, server, subscribed, chanVars, iterVars, countVars, goVars>>

TraceCounters ==
  /\ Alive
  /\ Goes("countTrace", "trace")
  /\ snap' = wire
  /\ UNCHANGED <<nodeVars, server, subscribed, chanVars, iterVars, wire, wireDone, traffic, goVars>>

\* trace(): the closed sessions and, when one is live, the current one.
Trace ==
  [wire     |-> wireDone + (IF cur THEN snap ELSE 0),
   sessions |-> sessions + (IF cur THEN 1 ELSE 0),
   found    |-> foundDone + (IF cur THEN Cardinality(found) ELSE 0),
   samples  |-> samples]

WriteTrace ==
  /\ Alive
  /\ Goes("trace", "down")
  /\ \/ trace' = Append(trace, Trace)
     \/ trace' = trace                   \* the write fails, which is only printed
  /\ UNCHANGED <<done, cur, sessions, begun, server, subscribed, chanVars, iterVars,
                 countVars, goVars>>

ControlStep ==
  \/ UpCheck \/ StartServer \/ Subscribe \/ Publish
  \/ DownCheck \/ Cancel \/ CloseStop \/ CloseIter \/ CloseOpened \/ Unsubscribe
  \/ SnapshotLive \/ StopServer \/ ServerStopped \/ WaitGoroutines
  \/ SnapshotCounters \/ Fold
  \/ FinishCheck \/ TraceLive \/ TraceCounters \/ WriteTrace

-----------------------------------------------------------------------------
(* lazyIter.Next, called by the dial scheduler. *)

iterElse == <<ctlVars, procVars, nodeVars, server, subscribed, chanVars, countVars, goVars>>

\* Inside once.Do: ready or closed, whichever the select finds (either, when
\* both are).
NextWaits ==
  /\ Alive
  /\ dialer = "wait"
  /\ \/ ready /\ dialer' = "lock"
     \/ itClosed /\ dialer' = "load"
  /\ UNCHANGED <<itClosed, it, found, foundDone, yielded, iterElse>>

\* Faulty variant: l.closed is not looked at again under l.mu.
NextLocksUnchecked ==
  /\ Alive
  /\ dialer = "lock"
  /\ dialer' = "open"
  /\ UNCHANGED <<itClosed, it, found, foundDone, yielded, iterElse>>

NextLocks ==
  /\ Alive
  /\ dialer = "lock"
  /\ dialer' = IF itClosed THEN "load" ELSE "open"
  /\ UNCHANGED <<itClosed, it, found, foundDone, yielded, iterElse>>

\* l.open: the topic search, its start recorded under node.mu.
NextOpens ==
  /\ Alive
  /\ dialer = "open"
  /\ it' = "open"
  /\ dialer' = "load"
  /\ UNCHANGED <<itClosed, found, foundDone, yielded, iterElse>>

NextLoads ==
  /\ Alive
  /\ dialer = "load"
  /\ dialer' = IF it = "nil" THEN "ended" ELSE "next"
  /\ UNCHANGED <<itClosed, it, found, foundDone, yielded, iterElse>>

\* A registrant is handed to the dialer; seen keeps the distinct ones.
NextYields(p) ==
  /\ Alive
  /\ dialer = "next" /\ it = "open"
  /\ found' = found \cup {p}
  /\ yielded' = IF p \in found THEN yielded ELSE yielded + 1
  /\ dialer' = "load"
  /\ UNCHANGED <<itClosed, it, foundDone, iterElse>>

\* The closed iterator ends; the dial scheduler asks no more.
NextEnds ==
  /\ Alive
  /\ dialer = "next" /\ it = "closed"
  /\ dialer' = "ended"
  /\ UNCHANGED <<itClosed, it, found, foundDone, yielded, iterElse>>

DialerStep ==
  NextWaits \/ NextLocks \/ NextOpens \/ NextLoads \/ NextEnds \/ \E p \in Peers : NextYields(p)

-----------------------------------------------------------------------------
(* phases, with the lookups of pkg/workload. *)

phaseElse == <<ctlVars, procVars, nodeVars, server, subscribed, cancelled, stopped,
               iterVars, countVars, sampVars, adVars, peerVars>>

\* waitCtx: the time has come, and the context was still live when looked at.
WaitCtx(from, to) ==
  /\ Alive
  /\ phase = from
  /\ phase' = IF cancelled THEN "ended" ELSE to
  /\ UNCHANGED <<ready, left, outcome, lookups, lookupsDone, phaseElse>>

RegisterTopic ==
  /\ Alive
  /\ phase = "registering"
  /\ phase' = "search"
  /\ UNCHANGED <<ready, left, outcome, lookups, lookupsDone, phaseElse>>

CloseReady ==
  /\ Alive
  /\ phase = "ready"
  /\ ready' = TRUE
  /\ phase' = CASE model = "conn" -> "ended"
                [] model = "scheduled" -> "pick"
                [] model = "continuous" -> "open"
  /\ UNCHANGED <<left, outcome, lookups, lookupsDone, phaseElse>>

\* Scheduled: the next time comes, or none is left, or the deadline passes, or
\* stop is closed; the select takes any that is ready.
PickLookup ==
  /\ Alive
  /\ phase = "pick"
  /\ \/ left > 0 /\ phase' = "open" /\ left' = left - 1
     \/ phase' = "ended" /\ UNCHANGED left
  /\ UNCHANGED <<ready, outcome, lookups, lookupsDone, phaseElse>>

OpenLookup ==
  /\ Alive
  /\ phase = "open"
  /\ phase' = "consume"
  /\ outcome' = "none"
  /\ UNCHANGED <<ready, left, lookups, lookupsDone, phaseElse>>

\* runOne's select: a result, the end of the iterator (the server is stopping),
\* the timeout or the deadline, or stop.  A scheduled lookup that stop cut short
\* is not recorded; the continuous search is, with what it found.
Consume ==
  /\ Alive
  /\ phase = "consume"
  /\ \/ server = "up" /\ phase' = "got" /\ UNCHANGED outcome
     \/ server # "up" /\ phase' = "record" /\ outcome' = "cut"
     \/ phase' = "record" /\ outcome' = "timeout"
     \/ /\ stopped
        /\ phase' = IF model = "scheduled" THEN "ended" ELSE "record"
        /\ outcome' = "stopped"
  /\ UNCHANGED <<ready, left, lookups, lookupsDone, phaseElse>>

\* A distinct registrant: the continuous search reports its progress.
TakeResult ==
  /\ Alive
  /\ phase = "got"
  /\ \/ phase' = "consume" /\ UNCHANGED outcome
     \/ model = "scheduled" /\ phase' = "record" /\ outcome' = "hit"
  /\ lookups' = IF model = "continuous" THEN <<"progress">> ELSE lookups
  /\ UNCHANGED <<ready, left, lookupsDone, phaseElse>>

\* Faulty variant: a lookup that timed out is looked up again.
RecordLookupRetries ==
  /\ Alive
  /\ phase = "record"
  /\ lookups' = IF model = "continuous" THEN <<outcome>> ELSE Append(lookups, outcome)
  /\ phase' = CASE model = "continuous" -> "ended"
                [] model # "continuous" /\ outcome = "timeout" -> "open"
                [] OTHER -> "pick"
  /\ UNCHANGED <<ready, left, outcome, lookupsDone, phaseElse>>

RecordLookup ==
  /\ Alive
  /\ phase = "record"
  /\ lookups' = IF model = "continuous" THEN <<outcome>> ELSE Append(lookups, outcome)
  /\ phase' = IF model = "continuous" THEN "ended" ELSE "pick"
  /\ UNCHANGED <<ready, left, outcome, lookupsDone, phaseElse>>

PhaseStep ==
  \/ WaitCtx("register", "registering") \/ RegisterTopic \/ WaitCtx("search", "ready")
  \/ CloseReady \/ PickLookup \/ OpenLookup \/ Consume \/ TakeResult \/ RecordLookup

-----------------------------------------------------------------------------
(* sampler and watchAds. *)

sampElse == <<ctlVars, procVars, nodeVars, server, subscribed, chanVars, iterVars,
              countVars, phaseVars, adVars, peerVars>>

\* The counters are read from the server, then added under node.mu.
SamplerReads ==
  /\ Alive
  /\ sampler = "tick" /\ Len(samples) < MaxSamples
  /\ smp' = wire
  /\ sampler' = "add"
  /\ UNCHANGED <<samples, sampElse>>

\* Faulty variant: the sample is the live server's alone.
AddSampleLive ==
  /\ Alive
  /\ sampler = "add"
  /\ samples' = Append(samples, smp)
  /\ sampler' = "tick"
  /\ UNCHANGED <<smp, sampElse>>

AddSample ==
  /\ Alive
  /\ sampler = "add"
  /\ samples' = Append(samples, wireDone + smp)
  /\ sampler' = "tick"
  /\ UNCHANGED <<smp, sampElse>>

SamplerEnds ==
  /\ Alive
  /\ sampler = "tick" /\ cancelled
  /\ sampler' = "ended"
  /\ UNCHANGED <<smp, samples, sampElse>>

adElse == <<ctlVars, procVars, nodeVars, server, subscribed, chanVars, iterVars,
            countVars, phaseVars, sampVars, peerVars>>

\* At a tick, which may come after the cancellation, the advertisements are read
\* from the server, then stored.
ReadAds ==
  /\ Alive
  /\ ads = "tick" /\ snaps < MaxSnaps
  /\ snaps' = snaps + 1
  /\ adsRead' = server
  /\ ads' = "store"
  /\ UNCHANGED <<adsLast, adElse>>

StoreAds ==
  /\ Alive
  /\ ads = "store"
  /\ adsLast' = adsRead
  /\ ads' = "tick"
  /\ UNCHANGED <<adsRead, snaps, adElse>>

AdsEnd ==
  /\ Alive
  /\ ads = "tick" /\ cancelled
  /\ ads' = "ended"
  /\ UNCHANGED <<adsRead, adsLast, snaps, adElse>>

SamplerStep == SamplerReads \/ AddSample \/ SamplerEnds

AdsStep == ReadAds \/ StoreAds \/ AdsEnd

-----------------------------------------------------------------------------
(* The server's traffic and peers, and watchPeers. *)

Packet ==
  /\ Alive
  /\ server \in {"up", "stopping"} /\ traffic < MaxTraffic
  /\ wire' = wire + 1 /\ traffic' = traffic + 1
  /\ UNCHANGED <<ctlVars, procVars, nodeVars, server, subscribed, chanVars, iterVars,
                 snap, wireDone, goVars>>

peerElse == <<ctlVars, procVars, nodeVars, server, subscribed, chanVars, iterVars,
              countVars, phaseVars, sampVars, adVars>>

\* A peer goroutine has an event for the feed; dialed peers need a dialer.
PeerAdded(kind) ==
  /\ Alive
  /\ server = "up" /\ sender = <<>> /\ churned < MaxEvents
  /\ kind = "out" => ~ LookupOnly /\ outPeers < MaxDialed
  /\ outPeers' = IF kind = "out" THEN outPeers + 1 ELSE outPeers
  /\ inPeers' = IF kind = "in" THEN inPeers + 1 ELSE inPeers
  /\ sender' = <<[type |-> "add", kind |-> kind]>>
  /\ churned' = churned + 1
  /\ UNCHANGED <<events, watcher, counted, lostAt, refills, connFull, peerElse>>

PeerDropped(kind) ==
  /\ Alive
  /\ server \in {"up", "stopping"} /\ sender = <<>> /\ churned < MaxEvents
  /\ IF kind = "out" THEN outPeers > 0 ELSE inPeers > 0
  /\ outPeers' = IF kind = "out" THEN outPeers - 1 ELSE outPeers
  /\ inPeers' = IF kind = "in" THEN inPeers - 1 ELSE inPeers
  /\ sender' = <<[type |-> "drop", kind |-> kind]>>
  /\ churned' = churned + 1
  /\ UNCHANGED <<events, watcher, counted, lostAt, refills, connFull, peerElse>>

\* The feed delivers to the subscriber's channel, and waits while it is full.
FeedSends ==
  /\ Alive
  /\ sender # <<>>
  /\ \/ subscribed /\ Len(events) < EventCap /\ events' = events \o sender
     \/ ~ subscribed /\ UNCHANGED events
  /\ sender' = <<>>
  /\ UNCHANGED <<outPeers, inPeers, watcher, counted, lostAt, refills, connFull, churned, peerElse>>

\* An event is taken.  A drop starts a clock at once; an add first asks the
\* server for its peers.
WatchDrop ==
  /\ Alive
  /\ watcher = "recv" /\ events # <<>> /\ Head(events).type = "drop"
  /\ events' = Tail(events)
  /\ lostAt' = Append(lostAt, Head(events).kind)
  /\ UNCHANGED <<outPeers, inPeers, sender, watcher, counted, refills, connFull, churned, peerElse>>

WatchAdd ==
  /\ Alive
  /\ watcher = "recv" /\ events # <<>> /\ Head(events).type = "add"
  /\ events' = Tail(events)
  /\ counted' = [kind |-> Head(events).kind, out |-> IF server = "up" THEN outPeers ELSE 0]
  /\ watcher' = "added"
  /\ UNCHANGED <<outPeers, inPeers, sender, lostAt, refills, connFull, churned, peerElse>>

\* The add stops the oldest clock, and may find the outbound slots full.
StopClock ==
  /\ Alive
  /\ watcher = "added"
  /\ IF lostAt = <<>>
     THEN UNCHANGED <<lostAt, refills>>
     ELSE /\ refills' = refills \cup {<<Head(lostAt), counted.kind>>}
          /\ lostAt' = Tail(lostAt)
  /\ connFull' = (connFull \/ (~ LookupOnly /\ it # "nil" /\ counted.out >= MaxDialed))
  /\ watcher' = "recv"
  /\ UNCHANGED <<outPeers, inPeers, sender, events, counted, churned, peerElse>>

WatchEnds ==
  /\ Alive
  /\ watcher = "recv" /\ cancelled
  /\ watcher' = "ended"
  /\ UNCHANGED <<outPeers, inPeers, sender, events, counted, lostAt, refills,
                 connFull, churned, peerElse>>

WatchStep == WatchDrop \/ WatchAdd \/ StopClock \/ WatchEnds

-----------------------------------------------------------------------------
\* The process is gone.
Gone == ~ Alive /\ UNCHANGED vars

Next ==
  \/ MainStarts \/ Request \/ StopAt \/ Notify \/ Signal \/ MainFinishes \/ Exit
  \/ ControlStep \/ DialerStep \/ PhaseStep \/ SamplerStep \/ AdsStep
  \/ Packet \/ FeedSends \/ WatchStep
  \/ \E k \in Kinds : PeerAdded(k) \/ PeerDropped(k)
  \/ Gone

Spec == Init /\ [][Next]_vars

\* Goroutines run; ctl is a Go mutex, which does not starve a waiter; StartAt
\* and StopAt pass.  Nothing is assumed of the coordinator's calls, of signals,
\* of traffic or of peers.
Fairness ==
  /\ SF_vars(MainStarts) /\ SF_vars(StopAt)
  /\ SF_vars(MainFinishes)
  /\ WF_vars(Notify) /\ WF_vars(Exit)
  /\ WF_vars(ControlStep) /\ WF_vars(DialerStep)
  /\ WF_vars(PhaseStep) /\ WF_vars(SamplerStep)
  /\ WF_vars(AdsStep) /\ WF_vars(WatchStep)
  /\ WF_vars(FeedSends)

FairSpec == Spec /\ Fairness

-----------------------------------------------------------------------------
(* Properties *)

\* A session is open from srv.Start until fold.
Unfolded == begun > sessions

\* The node's totals and the open session's server account for every packet and
\* every registrant exactly once, over any number of departures and returns:
\* snapshotCounters reads after Stop, fold adds once, finish's own snapshot is
\* not added twice.
LedgerExact ==
  /\ wireDone + (IF Unfolded THEN wire ELSE 0) = traffic
  /\ foundDone + (IF Unfolded THEN Cardinality(found) ELSE 0) = yielded

\* addSample: the series stays cumulative across sessions, and never counts more
\* than was sent, though the counters are read before node.mu is taken.
SamplesCumulative ==
  \A i \in 1..Len(samples) :
    samples[i] <= IF i < Len(samples) THEN samples[i + 1] ELSE traffic

\* The trace lists every session of the run: none starts once it is written.
TraceCoversRun ==
  trace # <<>> => trace[1].sessions = begun /\ trace[1].wire <= traffic

\* lazyIter: the dialer's search is opened only on a running server, and is
\* closed once the server is stopped, whatever the order of ready, Next and Close.
NoSearchOnStoppedServer ==
  /\ dialer = "open" => server = "up"
  /\ server = "stopped" => it # "open"

\* A lookup is recorded once: the continuous search is one lookup of its session
\* however often it reports progress, a scheduled one is recorded only after it
\* was taken off the schedule, and fold keeps what each session recorded.
RecordedWithinSchedule ==
  LET most == IF model = "continuous" THEN 1 ELSE Lookups
  IN  /\ Len(lookups) <= IF model = "scheduled" /\ cur THEN Lookups - left ELSE most
      /\ Len(lookupsDone) <= most * sessions

\* Every up, down and finish returns: srv.Stop waits for a dialer that may be
\* waiting for ready, and for peers that may be waiting for the event channel.
OperationEnds == holder # "none" ~> (holder = "none" \/ exit # "no")

\* Once the StopAt goroutine is there, the process ends.
ExitsAfterStop == timer = "armed" ~> exit # "no"
=============================================================================

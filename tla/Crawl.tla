------------------------------- MODULE Crawl -------------------------------
(***************************************************************************)
(* The crawler (cmd/crawl): the registry of nodes, the probe loop with its *)
(* two pools of ping workers, the table sampler, the random walks and the  *)
(* shutdown of main.                                                       *)
(*                                                                         *)
(* A step is one critical section of registry.mu, one channel operation,   *)
(* one write to the event log or one answer of the discovery service.      *)
(* Time is abstracted: a node's next probe becomes due at any time after   *)
(* its last ping (-probe has no lower bound), be the event of that ping    *)
(* written or not, and how long ago the last pong was is a choice.  An     *)
(* answer may have come before the service was closed and be handled after *)
(* it; that a request sent after it fails is not used.  Nodes without an   *)
(* address, which are never pinged, are left out, and of the log only the  *)
(* session events "up" and "down" are kept.  One random walk stands for    *)
(* the -crawlers of them.                                                  *)
(***************************************************************************)
EXTENDS Integers, Sequences, FiniteSets, Functions

CONSTANTS
  Network,       \* all nodes there may be
  Bootnodes,     \* the ones known from the start
  LiveWorkers,   \* workers for nodes that ever answered or are new
  DeadWorkers,   \* workers for never-responders
  LiveCap,       \* capacity of the channel live (4 per worker)
  DeadCap,       \* capacity of the channel dead (4 per worker)
  NewTries,      \* attempts at the probe rate before a node is a never-responder
  Setups         \* the crawls: their flags and network, and how far each is followed

ASSUME CrawlAssumption ==
  /\ IsFiniteSet(Network) /\ 0 \notin Network
  /\ IsFiniteSet(LiveWorkers \cup DeadWorkers) /\ LiveWorkers \cap DeadWorkers = {}
  /\ {LiveCap, DeadCap, NewTries} \subseteq Nat \ {0}
  /\ \A s \in Setups :
       /\ Bootnodes \subseteq s.nodes /\ s.nodes \subseteq Network
       /\ s.misses \in Nat \ {0} /\ {s.seq, s.probes, s.samples} \subseteq Nat

VARIABLES
  setup,    \* the crawl
  reg,      \* reg[n]: the node's entry in the registry
  pings, pongs, deadPings, deadPongs, errs, samples, sampleErr,  \* counters
  live, dead,        \* the channels of the probe loop
  dueLive, dueDead,  \* the nodes a tick found due and has still to offer
  lpc,      \* the probe loop: "select", "offer", "drain" or "ended"
  wk,       \* wk[w]: the ping worker w
  log,      \* log[n]: the session events written for n
  crawler,  \* the random walks: "walk" or "ended"
  spc,      \* the sampler: "snapshot", "send", "drain" or "ended"
  todo,     \* the nodes the sampler has still to hand out
  sw,       \* sw[s]: the sample worker s
  stop, closed,  \* close(stop) and disc.Close() of main
  mpc,      \* main: "run", "stopped", "closing", "waited" or "swept"
  final,    \* the last sweep event
  probes,   \* times a node became due again
  rushed    \* history: the nodes due again before the event of a ping was written

countVars == <<pings, pongs, deadPings, deadPongs, errs>>
loopVars == <<live, dead, dueLive, dueDead, lpc>>
sampleVars == <<samples, sampleErr, spc, todo, sw>>
mainVars == <<setup, stop, closed, mpc, final>>
vars == <<reg, countVars, loopVars, wk, log, crawler, sampleVars, mainVars, probes, rushed>>

\* The nodes of the network, unanswered pings in a row before a live node counts as
\* down, and the workers of the table sampler, {} when it is off.
Nodes         == setup.nodes
Misses        == setup.misses
SampleWorkers == setup.samplers

\* Bounds: sequence numbers of a node's record, times a node becomes due again over
\* all nodes, FINDNODE requests of the sampler.
MaxSeq     == setup.seq
MaxProbes  == setup.probes
MaxSamples == setup.samples

Workers == LiveWorkers \cup DeadWorkers

Unknown == [known |-> FALSE, seq |-> 0, up |-> FALSE, everUp |-> FALSE, attempts |-> 0,
            misses |-> 0, due |-> FALSE, queued |-> FALSE]
IdleWorker == [pc |-> "idle", n |-> 0, fast |-> FALSE, ev |-> "none", refresh |-> FALSE]

\* observe: a new node is due at once; a known one takes a newer record.
Observed(n, seq) ==
  IF ~ reg[n].known THEN [reg EXCEPT ![n] = [Unknown EXCEPT !.known = TRUE, !.seq = seq, !.due = TRUE]]
  ELSE IF seq > reg[n].seq THEN [reg EXCEPT ![n].seq = seq]
  ELSE reg

\* fast: the node answered once, or is within its first tries.
Fast(n) == reg[n].everUp \/ reg[n].attempts < NewTries

Init ==
  /\ setup \in Setups
  /\ reg = [n \in Nodes |-> IF n \in Bootnodes THEN [Unknown EXCEPT !.known = TRUE, !.due = TRUE]
                            ELSE Unknown]
  /\ pings = 0 /\ pongs = 0 /\ deadPings = 0 /\ deadPongs = 0 /\ errs = 0
  /\ samples = 0 /\ sampleErr = 0
  /\ live = <<>> /\ dead = <<>> /\ dueLive = {} /\ dueDead = {} /\ lpc = "select"
  /\ wk = [w \in Workers |-> IdleWorker]
  /\ log = [n \in Nodes |-> <<>>]
  /\ crawler = "walk"
  /\ spc = IF SampleWorkers = {} THEN "ended" ELSE "snapshot"
  /\ todo = {} /\ sw = [s \in SampleWorkers |-> "idle"]
  /\ stop = FALSE /\ closed = FALSE /\ mpc = "run" /\ final = <<>>
  /\ probes = 0 /\ rushed = {}

-----------------------------------------------------------------------------
(* The probe loop *)

loopElse == <<countVars, wk, log, crawler, sampleVars, mainVars, probes, rushed>>

\* Workers that have the end of a ping of n noted and its event still to write.
Reporting(n) == {w \in Workers : wk[w].n = n /\ wk[w].pc = "report"}

\* st.next passes.
Due(n) ==
  /\ reg[n].known /\ ~ reg[n].due /\ probes < MaxProbes
  /\ reg' = [reg EXCEPT ![n].due = TRUE]
  /\ rushed' = IF Reporting(n) = {} THEN rushed ELSE rushed \cup {n}
  /\ probes' = probes + 1
  /\ UNCHANGED <<countVars, loopVars, wk, log, crawler, sampleVars, mainVars>>

\* Faulty variant: a node that is queued is collected again.
TickAgain ==
  /\ lpc = "select"
  /\ LET found == {n \in Nodes : reg[n].known /\ reg[n].due}
     IN  /\ found # {}
         /\ reg' = [n \in Nodes |-> IF n \in found THEN [reg[n] EXCEPT !.queued = TRUE] ELSE reg[n]]
         /\ dueLive' = {n \in found : Fast(n)}
         /\ dueDead' = {n \in found : ~ Fast(n)}
  /\ lpc' = "offer"
  /\ UNCHANGED <<live, dead, loopElse>>

\* A tick collects the nodes that are due and not queued yet (one that finds
\* none changes nothing).  Stop may be closed already: select takes either.
Tick ==
  /\ lpc = "select"
  /\ LET found == {n \in Nodes : reg[n].known /\ reg[n].due /\ ~ reg[n].queued}
     IN  /\ found # {}
         /\ reg' = [n \in Nodes |-> IF n \in found THEN [reg[n] EXCEPT !.queued = TRUE] ELSE reg[n]]
         /\ dueLive' = {n \in found : Fast(n)}
         /\ dueDead' = {n \in found : ~ Fast(n)}
  /\ lpc' = "offer"
  /\ UNCHANGED <<live, dead, loopElse>>

\* Faulty variant: the last slot of the channel is not used.
OfferLiveOneFewer(n) ==
  /\ lpc = "offer" /\ n \in dueLive
  /\ Len(live) + 1 < LiveCap
  /\ live' = Append(live, n)
  /\ dueLive' = dueLive \ {n}
  /\ UNCHANGED <<reg, dead, dueDead, lpc, loopElse>>

\* The nodes on the probe schedule are never dropped ...
OfferLive(n) ==
  /\ lpc = "offer" /\ n \in dueLive
  /\ Len(live) < LiveCap
  /\ live' = Append(live, n)
  /\ dueLive' = dueLive \ {n}
  /\ UNCHANGED <<reg, dead, dueDead, lpc, loopElse>>

\* ... never-responders are offered after them, and tried again at a later tick
\* when their pool does not keep up.
OfferDead(n) ==
  /\ lpc = "offer" /\ dueLive = {} /\ n \in dueDead
  /\ \/ /\ Len(dead) < DeadCap
        /\ dead' = Append(dead, n)
        /\ UNCHANGED reg
     \/ /\ Len(dead) >= DeadCap
        /\ reg' = [reg EXCEPT ![n].queued = FALSE]
        /\ UNCHANGED dead
  /\ dueDead' = dueDead \ {n}
  /\ UNCHANGED <<live, dueLive, lpc, loopElse>>

Offered ==
  /\ lpc = "offer" /\ dueLive = {} /\ dueDead = {}
  /\ lpc' = "select"
  /\ UNCHANGED <<reg, live, dead, dueLive, dueDead, loopElse>>

\* The stop is seen at the select of the tick or of an offer to live: both
\* channels are closed and the workers waited for.
LoopStops ==
  /\ stop
  /\ lpc = "select" \/ (lpc = "offer" /\ dueLive # {})
  /\ lpc' = "drain"
  /\ UNCHANGED <<reg, live, dead, dueLive, dueDead, loopElse>>

LoopEnds ==
  /\ lpc = "drain" /\ \A w \in Workers : wk[w].pc = "ended"
  /\ lpc' = "ended"
  /\ UNCHANGED <<reg, live, dead, dueLive, dueDead, loopElse>>

LoopProgress ==
  \/ Tick \/ Offered \/ LoopStops \/ LoopEnds
  \/ \E n \in Nodes : OfferLive(n) \/ OfferDead(n)

-----------------------------------------------------------------------------
(* A ping worker *)

pingElse == <<crawler, sampleVars, mainVars, probes, rushed>>

Take(w) ==
  /\ wk[w].pc = "idle"
  /\ \/ /\ w \in LiveWorkers /\ live # <<>>
        /\ wk' = [wk EXCEPT ![w].pc = "begin", ![w].n = Head(live)]
        /\ live' = Tail(live)
        /\ UNCHANGED dead
     \/ /\ w \in DeadWorkers /\ dead # <<>>
        /\ wk' = [wk EXCEPT ![w].pc = "begin", ![w].n = Head(dead)]
        /\ dead' = Tail(dead)
        /\ UNCHANGED live
  /\ UNCHANGED <<reg, countVars, dueLive, dueDead, lpc, log, pingElse>>

\* Faulty variant: dead is not closed.
WorkerEndsLive(w) ==
  /\ wk[w].pc = "idle" /\ lpc = "drain"
  /\ w \in LiveWorkers /\ live = <<>>
  /\ wk' = [wk EXCEPT ![w].pc = "ended"]
  /\ UNCHANGED <<reg, countVars, loopVars, log, pingElse>>

\* The range over a closed channel ends once it is empty.
WorkerEnds(w) ==
  /\ wk[w].pc = "idle" /\ lpc = "drain"
  /\ (IF w \in LiveWorkers THEN live ELSE dead) = <<>>
  /\ wk' = [wk EXCEPT ![w].pc = "ended"]
  /\ UNCHANGED <<reg, countVars, loopVars, log, pingElse>>

\* Which counter the ping belongs to is decided before it is sent.
Begin(w) ==
  /\ wk[w].pc = "begin"
  /\ wk' = [wk EXCEPT ![w].pc = "sent", ![w].fast = Fast(wk[w].n)]
  /\ IF Fast(wk[w].n)
     THEN pings' = pings + 1 /\ UNCHANGED deadPings
     ELSE deadPings' = deadPings + 1 /\ UNCHANGED pings
  /\ UNCHANGED <<reg, pongs, deadPongs, errs, loopVars, log, pingElse>>

\* Faulty variant: whether the ping was on the probe schedule is looked up when the
\* answer is there, and the node has answered by then.
PongCountedLate(w) ==
  LET n == wk[w].n
  IN  /\ wk[w].pc = "sent"
      /\ pongs' = pongs + 1 /\ UNCHANGED deadPongs
      /\ reg' = [reg EXCEPT ![n].misses = 0, ![n].up = TRUE, ![n].everUp = TRUE,
                            ![n].due = FALSE, ![n].queued = FALSE]
      /\ \E newer \in BOOLEAN :
           wk' = [wk EXCEPT ![w].pc = "report", ![w].refresh = newer,
                            ![w].ev = IF reg[n].up THEN "none" ELSE "up"]
      /\ UNCHANGED <<pings, deadPings, errs, loopVars, log, pingElse>>

\* The pong: the node is up; it may tell of a newer record.
Pong(w) ==
  LET n == wk[w].n
  IN  /\ wk[w].pc = "sent"
      /\ IF wk[w].fast
         THEN pongs' = pongs + 1 /\ UNCHANGED deadPongs
         ELSE deadPongs' = deadPongs + 1 /\ UNCHANGED pongs
      /\ reg' = [reg EXCEPT ![n].misses = 0, ![n].up = TRUE, ![n].everUp = TRUE,
                            ![n].due = FALSE, ![n].queued = FALSE]
      /\ \E newer \in BOOLEAN :
           wk' = [wk EXCEPT ![w].pc = "report", ![w].refresh = newer,
                            ![w].ev = IF reg[n].up THEN "none" ELSE "up"]
      /\ UNCHANGED <<pings, deadPings, errs, loopVars, log, pingElse>>

\* Faulty variant: a node that is not up goes down.
GoesDownAnyway(n) == reg[n].misses + 1 >= Misses

\* A node goes down after Misses unanswered pings, if the last pong is old.
GoesDown(n) == reg[n].up /\ reg[n].misses + 1 >= Misses

\* No pong: a timeout, or the discovery service has been closed.
Miss(w) ==
  LET n == wk[w].n
  IN  /\ wk[w].pc = "sent"
      /\ errs' = IF reg[n].everUp THEN errs + 1 ELSE errs
      /\ \E down \in {FALSE, GoesDown(n)} :
           /\ reg' = [reg EXCEPT ![n].misses = @ + 1,
                                 ![n].attempts = IF reg[n].everUp THEN @ ELSE @ + 1,
                                 ![n].up = @ /\ ~ down, ![n].due = FALSE, ![n].queued = FALSE]
           /\ wk' = [wk EXCEPT ![w].pc = "report", ![w].ev = IF down THEN "down" ELSE "none"]
      /\ UNCHANGED <<pings, pongs, deadPings, deadPongs, loopVars, log, pingElse>>

\* The event is written after the unlock.
Report(w) ==
  /\ wk[w].pc = "report"
  /\ log' = IF wk[w].ev = "none" THEN log ELSE [log EXCEPT ![wk[w].n] = Append(@, wk[w].ev)]
  /\ wk' = [wk EXCEPT ![w] = IF wk[w].refresh THEN [@ EXCEPT !.pc = "refresh"] ELSE IdleWorker]
  /\ UNCHANGED <<reg, countVars, loopVars, pingElse>>

\* RequestENR, whose answer is observed.
Refresh(w) ==
  /\ wk[w].pc = "refresh"
  /\ \/ UNCHANGED reg
     \/ \E seq \in 0..MaxSeq : reg' = Observed(wk[w].n, seq)
  /\ wk' = [wk EXCEPT ![w] = IdleWorker]
  /\ UNCHANGED <<countVars, loopVars, log, pingElse>>

WorkerStep(w) ==
  \/ Take(w) \/ WorkerEnds(w) \/ Begin(w) \/ Pong(w) \/ Miss(w) \/ Report(w) \/ Refresh(w)

-----------------------------------------------------------------------------
(* The random walks and the table sampler *)

otherElse == <<countVars, loopVars, wk, log, mainVars, probes, rushed>>

\* A walk looks at stop after each node; its iterator ends with the service.
CrawlNode ==
  /\ crawler = "walk"
  /\ \E n \in Nodes, seq \in 0..MaxSeq : reg' = Observed(n, seq)
  /\ crawler' = IF stop THEN "ended" ELSE "walk"
  /\ UNCHANGED <<sampleVars, otherElse>>

CrawlEnds ==
  /\ crawler = "walk" /\ closed
  /\ crawler' = "ended"
  /\ UNCHANGED <<reg, sampleVars, otherElse>>

\* The nodes that are up at the start of the period, handed out one by one.
Snapshot ==
  /\ spc = "snapshot" /\ samples < MaxSamples
  /\ todo' = {n \in Nodes : reg[n].up}
  /\ spc' = "send"
  /\ UNCHANGED <<reg, crawler, samples, sampleErr, sw, otherElse>>

HandOut(n, s) ==
  /\ spc = "send" /\ n \in todo
  /\ sw[s] = "idle"
  /\ sw' = [sw EXCEPT ![s] = "ask"]
  /\ todo' = todo \ {n}
  /\ UNCHANGED <<reg, crawler, samples, sampleErr, spc, otherElse>>

PeriodEnds ==
  /\ spc = "send" /\ todo = {}
  /\ spc' = "snapshot"
  /\ UNCHANGED <<reg, crawler, samples, sampleErr, todo, sw, otherElse>>

SamplerStops ==
  /\ stop /\ spc \in {"snapshot", "send"}
  /\ spc' = "drain"
  /\ UNCHANGED <<reg, crawler, samples, sampleErr, todo, sw, otherElse>>

SamplerEnds ==
  /\ spc = "drain" /\ \A s \in SampleWorkers : sw[s] = "idle"
  /\ spc' = "ended"
  /\ UNCHANGED <<reg, crawler, samples, sampleErr, todo, sw, otherElse>>

\* findnode is counted before it is sent.
AskTable(s) ==
  /\ sw[s] = "ask"
  /\ samples' = samples + 1
  /\ sw' = [sw EXCEPT ![s] = "asked"]
  /\ UNCHANGED <<reg, crawler, sampleErr, spc, todo, otherElse>>

\* The reply's records are observed; a full table takes another request until
\* one fails.
TableReply(s) ==
  /\ sw[s] = "asked"
  /\ \/ /\ sampleErr' = sampleErr + 1
        /\ sw' = [sw EXCEPT ![s] = "idle"]
        /\ UNCHANGED reg
     \/ /\ \E n \in Nodes, seq \in 0..MaxSeq : reg' = Observed(n, seq)
        /\ \/ sw' = [sw EXCEPT ![s] = "idle"]
           \/ samples < MaxSamples /\ sw' = [sw EXCEPT ![s] = "ask"]
        /\ UNCHANGED sampleErr
  /\ UNCHANGED <<crawler, samples, spc, todo, otherElse>>

SamplerProgress ==
  \/ SamplerStops \/ SamplerEnds
  \/ \E s \in SampleWorkers : AskTable(s) \/ TableReply(s) \/ \E n \in Nodes : HandOut(n, s)

-----------------------------------------------------------------------------
(* main *)

mainElse == <<setup, reg, countVars, loopVars, wk, log, crawler, sampleVars, probes, rushed>>

\* The signal or the end of -duration.
CloseStop ==
  /\ mpc = "run" /\ mpc' = "stopped" /\ stop' = TRUE
  /\ UNCHANGED <<closed, final, mainElse>>

CloseDisc ==
  /\ mpc = "stopped" /\ mpc' = "closing" /\ closed' = TRUE
  /\ UNCHANGED <<stop, final, mainElse>>

\* Faulty variant: the probe loop is not in the wait group.
WaitSome ==
  /\ mpc = "closing"
  /\ crawler = "ended" /\ spc = "ended"
  /\ mpc' = "waited"
  /\ UNCHANGED <<stop, closed, final, mainElse>>

Wait ==
  /\ mpc = "closing"
  /\ crawler = "ended" /\ lpc = "ended" /\ spc = "ended"
  /\ mpc' = "waited"
  /\ UNCHANGED <<stop, closed, final, mainElse>>

\* The last sweep: the counters and what the registry holds.
FinalSweep ==
  /\ mpc = "waited" /\ mpc' = "swept"
  /\ final' = [pings |-> pings, pongs |-> pongs, deadPings |-> deadPings,
               deadPongs |-> deadPongs, errs |-> errs,
               everUp |-> Cardinality({n \in Nodes : reg[n].everUp}),
               up |-> Cardinality({n \in Nodes : reg[n].up})]
  /\ UNCHANGED <<stop, closed, mainElse>>

Next ==
  \/ LoopProgress
  \/ SamplerProgress \/ Snapshot \/ PeriodEnds
  \/ CrawlNode \/ CrawlEnds
  \/ CloseStop \/ CloseDisc \/ Wait \/ FinalSweep
  \/ \E n \in Nodes : Due(n)
  \/ \E w \in Workers : WorkerStep(w)

Spec == Init /\ [][Next]_vars

\* Goroutines run, the ticker ticks and requests of the discovery service time
\* out.  Nothing is assumed of when probes are due, of what the walks find or of
\* when the crawl is stopped.
Fairness ==
  /\ WF_vars(LoopProgress)
  /\ \A w \in Workers : WF_vars(WorkerStep(w))
  /\ WF_vars(CrawlEnds) /\ WF_vars(SamplerProgress)
  /\ WF_vars(CloseDisc) /\ WF_vars(Wait) /\ WF_vars(FinalSweep)

FairSpec == Spec /\ Fairness

-----------------------------------------------------------------------------
\* Workers with a ping of n to send or under way.
Pinging(n) == {w \in Workers : wk[w].n = n /\ wk[w].pc \in {"begin", "sent"}}

Copies(q, n) == Cardinality({i \in 1..Len(q) : q[i] = n})

One(b) == IF b THEN 1 ELSE 0

\* A node is queued exactly while it is in one place, and one only: about to be
\* offered, in a channel, or with a worker.  So no node is pinged by two workers
\* at a time and none is left behind marked as queued, which no tick would ever
\* pick up again.
QueuedOnce ==
  \A n \in Nodes :
    One(reg[n].queued) = One(n \in dueLive) + One(n \in dueDead) + Copies(live, n)
                         + Copies(dead, n) + Cardinality(Pinging(n))

\* A session event is written after the registry is unlocked.  The log of a node
\* alternates between up and down unless the node was due again before the event
\* of its last ping was written.  Even then no event is lost or written twice: once
\* no worker has one to write, the log starts one session more than it ends if
\* the node is up, and as many if it is not.
LogFollowsRegistry ==
  \A n \in Nodes :
    /\ n \notin rushed =>
         \A i \in 1..Len(log[n]) : log[n][i] = IF i % 2 = 1 THEN "up" ELSE "down"
    /\ Reporting(n) = {} =>
         Copies(log[n], "up") = Copies(log[n], "down") + One(reg[n].up)

\* Of k attempts, those that were made on the probe schedule, a node's first tries,
\* and those made of a never-responder.
FirstTries(k) == IF k < NewTries THEN k ELSE NewTries
LaterTries(k) == k - FirstTries(k)

\* Each ping on the probe schedule is a pong, an error of a node that has answered
\* before, or one of the first tries of a node that has not; each ping of a
\* never-responder is its first answer or another attempt.
PingsAddUp ==
  /\ final.pings = final.pongs + final.errs
                   + SumFunctionOnSet([n \in Nodes |-> FirstTries(reg[n].attempts)], Nodes)
  /\ final.deadPings = final.deadPongs
                       + SumFunctionOnSet([n \in Nodes |-> LaterTries(reg[n].attempts)], Nodes)

\* The dead pongs are the first answers of the nodes that had been given up, the
\* nodes that are up are among those that ever answered, and they are the ones
\* whose last session in the log is open.
NodesAddUp ==
  /\ final.deadPongs = Cardinality({n \in Nodes : reg[n].everUp /\ reg[n].attempts >= NewTries})
  /\ final.up <= final.everUp
  /\ final.up = Cardinality({n \in Nodes : Copies(log[n], "up") > Copies(log[n], "down")})

\* The last sweep is written when every ping has come to its end.  Each pool's
\* pings are then accounted for, pings and pongs being those on the probe schedule,
\* nodes within their first tries included; the dead pongs are first answers; and
\* the count of nodes that are up is the log's.
FinalSweepAddsUp == mpc = "swept" => PingsAddUp /\ NodesAddUp

Awaiting(n) == n \in Nodes /\ reg[n].known /\ reg[n].due

\* "Fast-schedule nodes are never dropped": one that is due is pinged.
FastNodesProbed ==
  \A n \in Network :
    (Awaiting(n) /\ Fast(n)) ~> (~ Awaiting(n) \/ stop)

\* Once main has closed stop the crawl ends: the loops, the workers with the
\* pings still queued, the walks and the sampler.
EndsAfterStop == stop ~> mpc = "swept"
=============================================================================

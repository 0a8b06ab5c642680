--------------------------- MODULE LegacySession ---------------------------
(***************************************************************************)
(* One legacy node process (legacy/cmd/node-legacy): the operations up,    *)
(* down and finish behind node.ctl, the goroutines of a session (search,   *)
(* watchPeers, watchCapable and, in the fork build, sampler), the lazy     *)
(* iterator of the dialer, and main with its StopAt timer and its signal.  *)
(* It has the life of cmd/node (NodeSession) but its own code: nothing is  *)
(* registered, a scheduled walk that a departure cuts short is dropped, a  *)
(* continuous walk is one lookup, replaced as it grows.                    *)
(*                                                                         *)
(* A step is one critical section of node.mu or lazyIter.mu, one channel   *)
(* operation or one call on the p2p server, which is external.  A lookup   *)
(* is how it ended and how many providers it found; the wire counters are  *)
(* one number; peers and table as read by snapshotLive, times, pacing and  *)
(* connFullMs are left out.                                                *)
(***************************************************************************)
EXTENDS TraceMerge, FiniteSets

CONSTANTS
  Models,       \* values of search.model: "conn", "scheduled", "continuous"
  Arrivals,     \* whether the node is first brought up by /up
  ForkBuild,    \* the build with counters and a sampler
  Lookups,      \* len(LookupAtMs)
  EventCap,     \* capacity of the peer event channel
  Ages,         \* ages of a session at which a capable record may show up
  MaxRequests,  \* bound: calls of /up and /down
  Budget        \* bound: packets, samples, peer events, finds and capable records,
                \* all together

ASSUME LegacySessionAssumption ==
  /\ Models \subseteq {"conn", "scheduled", "continuous"}
  /\ Arrivals \subseteq BOOLEAN /\ ForkBuild \in BOOLEAN /\ Ages \subseteq Nat
  /\ EventCap \in Nat \ {0}
  /\ {Lookups, MaxRequests, Budget} \subseteq Nat

VARIABLES
  model,  \* search.model of the assignment
  proc,   \* main, the StopAt timer, whether the process is there and is an arrival,
          \* requests so far
  ctl,    \* who holds node.ctl, the operation and where it is
  n,      \* node: done, cur and its totals; trace is the file
  s,      \* the fields of the session that is up
  srv,    \* the p2p server: its state, counters, dial scheduler and peer events
  go,     \* where the session's goroutines are, and their locals
  hist    \* history: packets, finds and sessions so far, the file each session would
          \* have left had it been a process of its own, and what LoadTrace makes of them

vars == <<model, proc, ctl, n, s, srv, go, hist>>

LookupOnly == model # "conn"
Free == [who |-> "none", op |-> "none", pc |-> "idle"]
Alive == proc.exit = "no"

\* The history after one more happening of the environment.
Within == hist.spent < Budget
Spend(h) == [h EXCEPT !.spent = @ + 1]

FreshSession ==
  [stop |-> FALSE, ready |-> FALSE, closed |-> FALSE, sub |-> FALSE, conn |-> FALSE,
   found |-> 0, lookups |-> <<>>, wire |-> 0, capable |-> -1, lost |-> 0]

NoServer == [state |-> "none", wire |-> 0, dialer |-> "ended", it |-> "nil",
             sender |-> "none", events |-> <<>>]

\* What a process of its own would have recorded besides the session's fields.
OwnNothing == [samples |-> <<>>, drops |-> 0, refills |-> 0]

\* The file the session that is up would leave if it ended now.
File ==
  [sessions |-> 1, lookups |-> s.lookups, samples |-> hist.own.samples, wire |-> s.wire,
   drops |-> hist.own.drops, refills |-> hist.own.refills, capable |-> s.capable,
   conn |-> IF s.conn THEN <<s.found>> ELSE <<>>]

AllEnded == [search |-> "ended", peers |-> "ended", capable |-> "ended", sampler |-> "ended",
             left |-> 0, found |-> 0, cut |-> FALSE, smp |-> 0]

Init ==
  /\ model \in Models
  /\ proc \in [main : {"starting"}, timer : {"unset"}, exit : {"no"}, requests : {0},
               arrival : Arrivals]
  /\ ctl = Free
  /\ n = [done |-> FALSE, cur |-> FALSE, sessions |-> 0, lookups |-> <<>>, wire |-> 0,
          samples |-> <<>>, capable |-> -1, conn |-> FALSE, finds |-> 0, drops |-> 0,
          refills |-> 0, trace |-> <<>>]
  /\ s = FreshSession /\ srv = NoServer /\ go = AllEnded
  /\ hist = [sent |-> 0, finds |-> 0, begun |-> 0, spent |-> 0, files |-> <<>>,
             own |-> OwnNothing, merged |-> <<>>]

-----------------------------------------------------------------------------
(* The callers of up, down and finish. *)

Acquire(who, op, pc) ==
  /\ ctl = Free
  /\ ctl' = [who |-> who, op |-> op, pc |-> pc]

\* main starts its node; an arrival waits for /up, which the status port takes
\* before that already.
MainStarts ==
  /\ Alive /\ proc.main = "starting"
  /\ IF proc.arrival
     THEN proc' = [proc EXCEPT !.main = "running", !.timer = "armed"] /\ UNCHANGED ctl
     ELSE proc' = [proc EXCEPT !.main = "calling"] /\ Acquire("main", "up", "check")
  /\ UNCHANGED <<model, n, s, srv, go, hist>>

Request(op) ==
  /\ Alive /\ proc.requests < MaxRequests
  /\ proc' = [proc EXCEPT !.requests = @ + 1]
  /\ Acquire("http", op, IF op = "up" THEN "check" ELSE "down")
  /\ UNCHANGED <<model, n, s, srv, go, hist>>

StopAt ==
  /\ Alive /\ proc.timer = "armed"
  /\ proc' = [proc EXCEPT !.timer = "calling"]
  /\ Acquire("timer", "finish", "finish")
  /\ UNCHANGED <<model, n, s, srv, go, hist>>

\* SIGTERM: main finishes the node.  A signal before signal.Notify ends the
\* process at once.
Signal ==
  /\ Alive
  /\ \/ /\ proc.main = "running"
        /\ proc' = [proc EXCEPT !.main = "calling"]
        /\ Acquire("main", "finish", "finish")
     \/ /\ proc.main = "starting"
        /\ proc' = [proc EXCEPT !.exit = "killed"]
        /\ UNCHANGED ctl
  /\ UNCHANGED <<model, n, s, srv, go, hist>>

\* The operation returns: handlers answer, main's failed start ends the process, and
\* main and the timer end it after their finish.
Return(ok) ==
  /\ ctl' = Free
  /\ proc' = CASE ctl.who = "http" -> proc
               [] ctl.who = "main" /\ ctl.op = "up" /\ ok ->
                    [proc EXCEPT !.main = "running", !.timer = "armed"]
               [] ctl.who = "main" /\ ctl.op = "up" /\ ~ ok -> [proc EXCEPT !.exit = "failed"]
               [] ctl.who = "main" /\ ctl.op = "finish" -> [proc EXCEPT !.main = "returning"]
               [] OTHER -> [proc EXCEPT !.timer = "returning"]

\* os.Exit after the timer's finish, or the end of main.  Others may have taken ctl.
Exit ==
  /\ Alive /\ "returning" \in {proc.main, proc.timer}
  /\ proc' = [proc EXCEPT !.exit = "finished"]
  /\ UNCHANGED <<model, ctl, n, s, srv, go, hist>>

Goes(from, to) == Alive /\ ctl.pc = from /\ ctl' = [ctl EXCEPT !.pc = to] /\ UNCHANGED proc

-----------------------------------------------------------------------------
(* up *)

\* errStopped, errUp
UpRefused ==
  /\ Alive /\ ctl.pc = "check" /\ (n.done \/ n.cur)
  /\ Return(FALSE)
  /\ UNCHANGED <<model, n, s, srv, go, hist>>

\* A new session and its server, which dials in the connection-driven model only.
StartServer ==
  /\ ~ (n.done \/ n.cur)
  /\ Goes("check", "publish")
  /\ srv' = [NoServer EXCEPT !.state = "up", !.dialer = IF LookupOnly THEN "ended" ELSE "wait"]
  /\ hist' = [hist EXCEPT !.begun = @ + 1]
  /\ UNCHANGED <<model, n, s, go>>

StartFails ==
  /\ Alive /\ ctl.pc = "check" /\ ~ (n.done \/ n.cur)
  /\ Return(FALSE)
  /\ UNCHANGED <<model, n, s, srv, go, hist>>

\* Subscribed to the peer events, the session is n.cur and its goroutines run.
Publish ==
  /\ Alive /\ ctl.pc = "publish"
  /\ s' = [s EXCEPT !.sub = TRUE]
  /\ n' = [n EXCEPT !.cur = TRUE]
  /\ go' = [AllEnded EXCEPT !.search = "wait", !.peers = "recv", !.capable = "tick",
                            !.sampler = IF ForkBuild THEN "tick" ELSE "ended", !.left = Lookups]
  /\ Return(TRUE)
  /\ UNCHANGED <<model, srv, hist>>

-----------------------------------------------------------------------------
(* down *)

DownRefused ==
  /\ Alive /\ ctl.pc = "down" /\ ~ n.cur
  /\ Return(FALSE)
  /\ UNCHANGED <<model, n, s, srv, go, hist>>

\* The context is cancelled and stop closed: no goroutine waits for both.
Cancel ==
  /\ n.cur /\ Goes("down", "iter")
  /\ s' = [s EXCEPT !.stop = TRUE]
  /\ UNCHANGED <<model, n, srv, go, hist>>

\* Faulty variant: only an open search is closed; a waiting Next is not released.
CloseIterOpen ==
  /\ Goes("iter", "unsubscribe")
  /\ s' = [s EXCEPT !.closed = (srv.it = "open")]
  /\ srv' = [srv EXCEPT !.it = IF @ = "open" THEN "closed" ELSE @]
  /\ UNCHANGED <<model, n, go, hist>>

\* lazyIter.Close: l.closed is closed before l.it is read under the lock that
\* Next opens it under, so an iterator opened earlier is seen here and none is
\* opened later.
CloseIter ==
  /\ Goes("iter", "unsubscribe")
  /\ s' = [s EXCEPT !.closed = TRUE]
  /\ srv' = [srv EXCEPT !.it = IF @ = "open" THEN "closed" ELSE @]
  /\ UNCHANGED <<model, n, go, hist>>

\* ... and the peers are read.
Unsubscribe ==
  /\ Goes("unsubscribe", "stop")
  /\ s' = [s EXCEPT !.sub = FALSE]
  /\ UNCHANGED <<model, n, srv, go, hist>>

\* srv.Stop waits for the dial scheduler and for the peers' goroutines.
ServerQuiet == srv.dialer = "ended" /\ srv.sender = "none"
StopServer ==
  /\ ServerQuiet
  /\ Goes("stop", "wait")
  /\ srv' = [srv EXCEPT !.state = "stopped"]
  /\ UNCHANGED <<model, n, s, go, hist>>

\* Faulty variant: the goroutines are not waited for.
WaitGoroutinesNot ==
  /\ Goes("wait", "counters")
  /\ UNCHANGED <<model, n, s, srv, go, hist>>

GoroutinesEnded == {go.search, go.peers, go.capable, go.sampler} = {"ended"}
WaitGoroutines ==
  /\ GoroutinesEnded
  /\ Goes("wait", "counters")
  /\ UNCHANGED <<model, n, s, srv, go, hist>>

SnapshotCounters ==
  /\ Goes("counters", "fold")
  /\ s' = [s EXCEPT !.wire = srv.wire]
  /\ UNCHANGED <<model, n, srv, go, hist>>

\* minCapable: -1 is none.
MinCapable(a, b) == IF a < 0 \/ (b >= 0 /\ b < a) THEN b ELSE a

FoldSession ==
  [n EXCEPT !.cur = FALSE, !.sessions = @ + 1, !.lookups = @ \o s.lookups,
            !.wire = @ + s.wire, !.capable = MinCapable(@, s.capable),
            !.conn = @ \/ s.conn, !.finds = @ + IF s.conn THEN s.found ELSE 0]

Fold ==
  /\ Alive /\ ctl.pc = "fold"
  /\ n' = FoldSession
  /\ s' = FreshSession /\ srv' = NoServer
  /\ hist' = [hist EXCEPT !.files = IF n.done THEN @ ELSE Append(@, File), !.own = OwnNothing]
  /\ Return(TRUE)
  /\ UNCHANGED <<model, go>>

-----------------------------------------------------------------------------
(* finish *)

FinishAgain ==
  /\ Alive /\ ctl.pc = "finish" /\ n.done
  /\ Return(TRUE)
  /\ UNCHANGED <<model, n, s, srv, go, hist>>

\* done is set, the counters of the session that is up are read ...
Finish ==
  /\ ~ n.done /\ Goes("finish", "trace")
  /\ n' = [n EXCEPT !.done = TRUE]
  /\ s' = IF n.cur THEN [s EXCEPT !.wire = srv.wire] ELSE s
  /\ UNCHANGED <<model, srv, go, hist>>

\* ... and the trace is written before the node goes down.
WriteTrace ==
  /\ Goes("trace", "down")
  /\ n' = LET t == IF n.cur THEN FoldSession ELSE n IN
          [n EXCEPT !.trace = <<[sessions |-> t.sessions, lookups |-> t.lookups,
                                 samples |-> n.samples, wire |-> t.wire, drops |-> n.drops,
                                 refills |-> n.refills, capable |-> t.capable,
                                 conn |-> IF t.conn THEN <<t.finds>> ELSE <<>>]>>]
  /\ hist' = [hist EXCEPT !.merged =
                <<LoadTrace(IF n.cur THEN Append(hist.files, File) ELSE hist.files)>>]
  /\ UNCHANGED <<model, s, srv, go>>

-----------------------------------------------------------------------------
(* The search goroutine. *)

MayCancel == go.search \in {"wait", "sleep"} /\ s.stop
SearchCancelled ==
  /\ Alive /\ MayCancel
  /\ go' = [go EXCEPT !.search = "ended"]
  /\ UNCHANGED <<model, proc, ctl, n, s, srv, hist>>

\* SearchAt has passed: the dialer may open its search.
SearchBegins ==
  /\ Alive /\ go.search = "wait" /\ ~ s.stop
  /\ s' = [s EXCEPT !.ready = TRUE]
  /\ go' = [go EXCEPT !.search = CASE model = "conn" -> "ended"
                                   [] model = "scheduled" -> "sleep"
                                   [] model = "continuous" -> "walk"]
  /\ UNCHANGED <<model, proc, ctl, n, srv, hist>>

\* The next lookup is due.  The schedule is over after its last one, or before
\* that when the next one falls on the deadline or later.
LookupDue ==
  /\ Alive /\ go.search = "sleep"
  /\ \/ go' = [go EXCEPT !.search = "ended"]
     \/ /\ go.left > 0
        /\ go' = [go EXCEPT !.search = "walk", !.left = @ - 1, !.found = 0, !.cut = FALSE]
  /\ UNCHANGED <<model, proc, ctl, n, s, srv, hist>>

\* A provider turns up.  A continuous walk sets its one lookup to the walk so far.
WalkFinds ==
  /\ Alive /\ go.search = "walk" /\ Within
  /\ go' = [go EXCEPT !.found = @ + 1]
  /\ s' = IF model = "scheduled" THEN s
          ELSE [s EXCEPT !.lookups = <<[cut |-> FALSE, found |-> go'.found]>>]
  /\ hist' = Spend(hist)
  /\ UNCHANGED <<model, proc, ctl, n, srv>>

\* randomWalk returns: at its target, timeout or deadline, or because stop is closed.
RandomWalkReturns ==
  /\ Alive /\ go.search = "walk" /\ model = "scheduled"
  /\ \E cut \in {FALSE, s.stop} : go' = [go EXCEPT !.search = "walked", !.cut = cut]
  /\ UNCHANGED <<model, proc, ctl, n, s, srv, hist>>

\* walkIterator returns: at the deadline, or closed by the goroutine that waits
\* for stop.
WalkIteratorReturns ==
  /\ Alive /\ go.search = "walk" /\ model = "continuous"
  /\ s' = [s EXCEPT !.lookups = <<[cut |-> s.stop, found |-> go.found]>>]
  /\ go' = [go EXCEPT !.search = "ended"]
  /\ UNCHANGED <<model, proc, ctl, n, srv, hist>>

\* Faulty variant: whatever the walk returned is recorded.
CheckCutNot ==
  /\ Alive /\ go.search = "walked"
  /\ go' = [go EXCEPT !.search = "record"]
  /\ UNCHANGED <<model, proc, ctl, n, s, srv, hist>>

\* Stop closed by now: the walk is taken as cut short and dropped.
CheckCut ==
  /\ Alive /\ go.search = "walked"
  /\ go' = [go EXCEPT !.search = IF s.stop THEN "ended" ELSE "record"]
  /\ UNCHANGED <<model, proc, ctl, n, s, srv, hist>>

RecordLookup ==
  /\ Alive /\ go.search = "record"
  /\ s' = [s EXCEPT !.lookups = Append(@, [cut |-> go.cut, found |-> go.found])]
  /\ go' = [go EXCEPT !.search = "sleep"]
  /\ UNCHANGED <<model, proc, ctl, n, srv, hist>>

SearchStep ==
  \/ SearchCancelled \/ SearchBegins \/ LookupDue \/ RandomWalkReturns
  \/ WalkIteratorReturns \/ CheckCut \/ RecordLookup

-----------------------------------------------------------------------------
(* The other goroutines. *)

\* ctx is cancelled; a tick that is ready at the same time may be taken instead.
MayEnd(g) == go[g] \in {"tick", "recv"} /\ s.stop
WatcherEnds(g) ==
  /\ Alive /\ MayEnd(g)
  /\ go' = [go EXCEPT ![g] = "ended"]
  /\ UNCHANGED <<model, proc, ctl, n, s, srv, hist>>

SamplerReads ==
  /\ Alive /\ go.sampler = "tick" /\ Within
  /\ go' = [go EXCEPT !.sampler = "add", !.smp = srv.wire]
  /\ hist' = Spend(hist)
  /\ UNCHANGED <<model, proc, ctl, n, s, srv>>

AddSample ==
  /\ Alive /\ go.sampler = "add"
  /\ n' = [n EXCEPT !.samples = Append(@, n.wire + go.smp)]
  /\ go' = [go EXCEPT !.sampler = "tick"]
  /\ hist' = [hist EXCEPT !.own.samples = Append(@, go.smp)]
  /\ UNCHANGED <<model, proc, ctl, s, srv>>

\* The table holds a capable record: the session's age is noted once.
SeesCapable ==
  /\ Alive /\ go.capable = "tick" /\ Within
  /\ \E age \in Ages : s' = [s EXCEPT !.capable = age]
  /\ go' = [go EXCEPT !.capable = "ended"]
  /\ hist' = Spend(hist)
  /\ UNCHANGED <<model, proc, ctl, n, srv>>

\* watchPeers: a drop, or an add that refills the oldest one.
HandleEvent ==
  /\ Alive /\ go.peers = "recv" /\ srv.events # <<>>
  /\ srv' = [srv EXCEPT !.events = Tail(@)]
  /\ IF Head(srv.events) = "drop"
     THEN /\ n' = [n EXCEPT !.drops = @ + 1]
          /\ s' = [s EXCEPT !.lost = @ + 1]
          /\ hist' = [hist EXCEPT !.own.drops = @ + 1]
     ELSE LET refill == IF s.lost > 0 THEN 1 ELSE 0 IN
          /\ n' = [n EXCEPT !.refills = @ + refill]
          /\ s' = [s EXCEPT !.lost = @ - refill]
          /\ hist' = [hist EXCEPT !.own.refills = @ + refill]
  /\ UNCHANGED <<model, proc, ctl, go>>

-----------------------------------------------------------------------------
(* The p2p server (external) and the iterator its dial scheduler calls. *)

Traffic ==
  /\ Alive /\ srv.state = "up" /\ Within
  /\ srv' = [srv EXCEPT !.wire = @ + 1]
  /\ hist' = [Spend(hist) EXCEPT !.sent = @ + 1]
  /\ UNCHANGED <<model, proc, ctl, n, s, go>>

\* A peer comes or goes; its goroutine posts the event and waits for a place in
\* every subscribed channel.
PeerEvent(kind) ==
  /\ Alive /\ srv.state = "up" /\ srv.sender = "none" /\ Within
  /\ srv' = [srv EXCEPT !.sender = kind]
  /\ hist' = Spend(hist)
  /\ UNCHANGED <<model, proc, ctl, n, s, go>>

MayDeliver == srv.sender # "none" /\ (~ s.sub \/ Len(srv.events) < EventCap)
Deliver ==
  /\ Alive /\ MayDeliver
  /\ srv' = [srv EXCEPT !.events = IF s.sub THEN Append(@, srv.sender) ELSE @,
                        !.sender = "none"]
  /\ UNCHANGED <<model, proc, ctl, n, s, go, hist>>

\* Next waits for ready or closed.
NextWaits ==
  /\ Alive /\ srv.dialer = "wait"
  /\ \/ s.ready /\ srv' = [srv EXCEPT !.dialer = "enter"]
     \/ s.closed /\ srv' = [srv EXCEPT !.dialer = "ended"]
  /\ UNCHANGED <<model, proc, ctl, n, s, go, hist>>

\* Under the lock: a closed iterator is not opened any more.
NextOpens ==
  /\ Alive /\ srv.dialer = "enter"
  /\ IF s.closed
     THEN srv' = [srv EXCEPT !.dialer = "ended"] /\ UNCHANGED s
     ELSE /\ srv' = [srv EXCEPT !.dialer = "next", !.it = "open"]
          /\ s' = [s EXCEPT !.conn = TRUE]
  /\ UNCHANGED <<model, proc, ctl, n, go, hist>>

\* The walk hands the dialer a provider it has not seen, or ends once closed.
NextFinds ==
  /\ Alive /\ srv.dialer = "next" /\ Within
  /\ s' = [s EXCEPT !.found = @ + 1]
  /\ hist' = [Spend(hist) EXCEPT !.finds = @ + 1]
  /\ UNCHANGED <<model, proc, ctl, n, srv, go>>

NextEnds ==
  /\ Alive /\ srv.dialer = "next" /\ srv.it = "closed"
  /\ srv' = [srv EXCEPT !.dialer = "ended"]
  /\ UNCHANGED <<model, proc, ctl, n, s, go, hist>>

-----------------------------------------------------------------------------
OperationStep ==
  \/ UpRefused \/ StartServer \/ StartFails \/ Publish
  \/ DownRefused \/ Cancel \/ CloseIter \/ Unsubscribe \/ StopServer \/ WaitGoroutines
  \/ SnapshotCounters \/ Fold \/ FinishAgain \/ Finish \/ WriteTrace

Watchers == {"peers", "capable", "sampler"}

Next ==
  \/ MainStarts \/ (\E op \in {"up", "down"} : Request(op)) \/ StopAt \/ Signal \/ Exit
  \/ OperationStep \/ SearchStep \/ WalkFinds
  \/ (\E g \in Watchers : WatcherEnds(g))
  \/ SamplerReads \/ AddSample \/ SeesCapable \/ HandleEvent
  \/ Traffic \/ (\E kind \in {"add", "drop"} : PeerEvent(kind)) \/ Deliver
  \/ NextWaits \/ NextOpens \/ NextFinds \/ NextEnds

Spec == Init /\ [][Next]_vars

-----------------------------------------------------------------------------
\* The counters of every server count once, the samples never fall and never exceed
\* the packets sent, dialer finds are kept though their session is gone, and no
\* refill is without its drop.
CountsKept ==
  /\ n.wire + srv.wire = hist.sent
  /\ \A i \in DOMAIN n.samples :
       n.samples[i] <= IF i < Len(n.samples) THEN n.samples[i + 1] ELSE hist.sent
  /\ n.finds + s.found = hist.finds
  /\ n.refills <= n.drops

\* The trace has every session there will be.
TraceHasAllSessions == n.trace # <<>> => n.trace[1].sessions = hist.begun

\* The trace is the one that LoadTrace would have made of one file per session.
TraceAsMerged == n.trace # <<>> /\ hist.begun > 0 => n.trace = hist.merged

\* What the node records over its sessions adds up, and its one trace covers all of
\* them as their files would: "The per-field rules are host.LoadTrace's"
\* (session.go:501).
LegacyLedger == CountsKept /\ TraceHasAllSessions /\ TraceAsMerged

\* "cut short by the departure" (session.go:366): no scheduled lookup that a
\* departure ended is among the recorded ones.
CutLookupsUnrecorded ==
  model = "scheduled" => \A i \in DOMAIN (n.lookups \o s.lookups) : ~ (n.lookups \o s.lookups)[i].cut

\* What the dialer, the search and the watchers can do of themselves.
MayDial ==
  \/ srv.dialer = "wait" /\ (s.ready \/ s.closed)
  \/ srv.dialer = "enter"
  \/ srv.dialer = "next" /\ srv.it = "closed"

MaySearch ==
  \/ MayCancel \/ go.search \in {"walked", "record"}
  \/ go.search = "walk" /\ model \in {"scheduled", "continuous"}

MayWatch == (\E g \in Watchers : MayEnd(g)) \/ go.sampler = "add"

\* No up, down or finish ever waits for good: whatever state the dialer's iterator,
\* the event channel and the walk are in, the operation or what it waits for can go
\* on.  As a session owes finitely many steps, the operation returns.
OperationNeverStuck ==
  Alive /\ ctl # Free =>
    \/ ctl.pc \in {"check", "publish", "down", "iter", "unsubscribe", "counters", "fold",
                   "finish", "trace"}
    \/ ctl.pc = "stop" /\ (ServerQuiet \/ MayDial \/ MayDeliver)
    \/ ctl.pc = "wait" /\ (GoroutinesEnded \/ MaySearch \/ MayWatch)
=============================================================================

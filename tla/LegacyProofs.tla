---------------------------- MODULE LegacyProofs ----------------------------
(***************************************************************************)
(* What a legacy node process promises of its run, for any number of       *)
(* sessions, requests, packets, samples and peers, and any capacity of the *)
(* event channel: its counts add up over its sessions, its one trace is    *)
(* what LoadTrace would make of a file per session, a walk that a          *)
(* departure cut short is not recorded, and no operation is ever stuck.    *)
(***************************************************************************)
EXTENDS LegacySession, SumFacts

-----------------------------------------------------------------------------
(* Types *)

Walk == [cut : BOOLEAN, found : Nat]

FileType ==
  [sessions : Nat, lookups : Seq(Walk), samples : Seq(Nat), wire : Nat, drops : Nat,
   refills : Nat, capable : Int, conn : Seq(Nat)]

\* Places of an operation once down has found a session.
Leaving == {"iter", "unsubscribe", "stop", "wait", "counters", "fold"}

ProcType ==
  [main : {"starting", "calling", "running", "returning"},
   timer : {"unset", "armed", "calling", "returning"},
   exit : {"no", "killed", "failed", "finished"}, requests : Nat, arrival : BOOLEAN]

CtlType ==
  [who : {"none", "main", "http", "timer"}, op : {"none", "up", "down", "finish"},
   pc : {"idle", "check", "publish", "down", "finish", "trace"} \cup Leaving]

NodeType ==
  [done : BOOLEAN, cur : BOOLEAN, sessions : Nat, lookups : Seq(Walk), wire : Nat,
   samples : Seq(Nat), capable : Int, conn : BOOLEAN, finds : Nat, drops : Nat,
   refills : Nat, trace : Seq(FileType)]

SessionType ==
  [stop : BOOLEAN, ready : BOOLEAN, closed : BOOLEAN, sub : BOOLEAN, conn : BOOLEAN,
   found : Nat, lookups : Seq(Walk), wire : Nat, capable : Int, lost : Nat]

ServerType ==
  [state : {"none", "up", "stopped"}, wire : Nat, dialer : {"wait", "enter", "next", "ended"},
   it : {"nil", "open", "closed"}, sender : {"none", "add", "drop"},
   events : Seq({"add", "drop"})]

GoType ==
  [search : {"wait", "sleep", "walk", "walked", "record", "ended"}, peers : {"recv", "ended"},
   capable : {"tick", "ended"}, sampler : {"tick", "add", "ended"}, left : Nat, found : Nat,
   cut : BOOLEAN, smp : Nat]

OwnType == [samples : Seq(Nat), drops : Nat, refills : Nat]

HistType ==
  [sent : Nat, finds : Nat, begun : Nat, spent : Nat, files : Seq(FileType), own : OwnType,
   merged : {<<>>} \cup {<<LoadTrace(f)>> : f \in Seq(FileType)}]

\* Every variable has its type.
TypeOK ==
  /\ model \in Models /\ proc \in ProcType /\ ctl \in CtlType /\ n \in NodeType
  /\ s \in SessionType /\ srv \in ServerType /\ go \in GoType /\ hist \in HistType

-----------------------------------------------------------------------------
(* The inductive invariant *)

\* The operation under way and the session: node.ctl keeps every other operation out
\* of it, so that what up, down and finish tested stays true until they return.
Lifecycle ==
  /\ hist.begun = n.sessions + (IF n.cur \/ ctl.pc = "publish" THEN 1 ELSE 0)
  /\ ctl.pc \in Leaving => n.cur
  /\ ctl.pc = "publish" => ~ n.cur /\ ~ n.done /\ srv.dialer \in {"wait", "ended"}
  /\ ctl.pc = "trace" => n.done
  /\ ctl.pc \in {"wait", "counters", "fold"} => srv.state = "stopped" /\ srv.dialer = "ended"
  /\ ~ n.cur => s = FreshSession
  /\ ~ n.cur /\ ctl.pc # "publish" => srv = NoServer

\* The session's goroutines live inside it, and down waits for the last of them.
GoroutinesInside ==
  ~ n.cur \/ ctl.pc \in {"counters", "fold"} =>
    go.search = "ended" /\ go.peers = "ended" /\ go.capable = "ended" /\ go.sampler = "ended"

\* The counters, with what the session has not yet handed to the node.
LedgerInv ==
  /\ n.wire + srv.wire = hist.sent
  /\ ctl.pc = "fold" => s.wire = srv.wire
  /\ n.finds + s.found = hist.finds
  /\ srv.dialer = "next" \/ s.found > 0 => s.conn
  /\ n.refills + s.lost <= n.drops

\* The counters the sampler holds lie between the last sample and the server's.
SamplesInv ==
  /\ \A i \in 1..Len(n.samples) :
       /\ n.samples[i] <= hist.sent
       /\ i < Len(n.samples) => n.samples[i] <= n.samples[i + 1]
  /\ go.sampler = "add" =>
       /\ go.smp <= srv.wire
       /\ \A i \in 1..Len(n.samples) : n.samples[i] <= n.wire + go.smp

\* The trace is written once, by the operation that set done.
TraceInv ==
  n.trace # <<>> => n.done /\ ctl.pc # "trace" /\ n.trace[1].sessions = hist.begun

\* A walk that stop cut short ended with stop closed, where the test after it finds it.
CutInv ==
  model = "scheduled" =>
    /\ \A i \in 1..Len(n.lookups) : ~ n.lookups[i].cut
    /\ \A i \in 1..Len(s.lookups) : ~ s.lookups[i].cut
    /\ go.search = "walked" /\ go.cut => s.stop
    /\ go.search = "record" => ~ go.cut

LegacyInv ==
  /\ TypeOK
  /\ Lifecycle /\ GoroutinesInside
  /\ LedgerInv /\ SamplesInv /\ TraceInv /\ CutInv

-----------------------------------------------------------------------------
LEMMA EmptyIsSeq == \A S : <<>> \in Seq(S)
OBVIOUS

LEMMA LegacyInit == Init => LegacyInv
<1> SUFFICES ASSUME Init PROVE LegacyInv
  OBVIOUS
<1>1. model \in Models /\ proc \in ProcType /\ ctl \in CtlType
  BY LegacySessionAssumption DEF Init, ProcType, CtlType, Free
<1>2. n \in NodeType
  BY EmptyIsSeq DEF Init, NodeType
<1>3. s \in SessionType
  BY EmptyIsSeq DEF Init, SessionType, FreshSession
<1>4. srv \in ServerType
  BY EmptyIsSeq DEF Init, ServerType, NoServer
<1>5. go \in GoType
  BY DEF Init, GoType, AllEnded
<1>6. OwnNothing \in OwnType
  BY EmptyIsSeq DEF OwnNothing, OwnType
<1>7. hist \in HistType
  BY <1>6, EmptyIsSeq DEF Init, HistType
<1>8. Lifecycle /\ GoroutinesInside /\ LedgerInv /\ TraceInv
  BY DEF Init, Free, Lifecycle, GoroutinesInside, LedgerInv, TraceInv, Leaving, FreshSession,
     NoServer, AllEnded
<1>9. SamplesInv /\ CutInv
  BY DEF Init, SamplesInv, CutInv, FreshSession, AllEnded
<1> QED
  BY <1>1, <1>2, <1>3, <1>4, <1>5, <1>7, <1>8, <1>9 DEF LegacyInv, TypeOK
-----------------------------------------------------------------------------
(* Operations *)

\* An operation answers its caller, or ends the process.
LEMMA ReturnType ==
  ASSUME TypeOK, NEW ok \in BOOLEAN, Return(ok)
  PROVE  proc' \in ProcType /\ ctl' \in CtlType /\ ctl'.pc = "idle"
BY DEF TypeOK, ProcType, CtlType, Return, Free

\* Steps that only move an operation, outside of down, publish and trace.
LEMMA QuietStep ==
  ASSUME LegacyInv, UNCHANGED <<model, n, s, srv, go, hist>>,
         proc' \in ProcType, ctl' \in CtlType,
         \/ ctl' = ctl
         \/ ctl.pc # "publish" /\ ctl'.pc \in {"idle", "check", "down", "finish"}
  PROVE  LegacyInv'
<1>1. TypeOK'
  BY DEF LegacyInv, TypeOK
<1>2. Lifecycle' /\ GoroutinesInside'
  BY DEF LegacyInv, Lifecycle, GoroutinesInside, Leaving
<1>3. LedgerInv' /\ TraceInv'
  BY DEF LegacyInv, LedgerInv, TraceInv
<1>4. SamplesInv' /\ CutInv'
  BY DEF LegacyInv, SamplesInv, CutInv
<1> QED
  BY <1>1, <1>2, <1>3, <1>4 DEF LegacyInv

LEMMA MainStep ==
  ASSUME LegacyInv,
         MainStarts \/ (\E op \in {"up", "down"} : Request(op)) \/ StopAt \/ Signal \/ Exit
  PROVE  LegacyInv'
<1>1. UNCHANGED <<model, n, s, srv, go, hist>>
  BY DEF MainStarts, Request, StopAt, Signal, Exit
<1>2. proc' \in ProcType /\ ctl' \in CtlType
  <2>1. proc \in ProcType /\ ctl \in CtlType
    BY DEF LegacyInv, TypeOK
  <2>2. CASE MainStarts
    <3>1. CASE proc.arrival
      BY <2>1, <2>2, <3>1 DEF MainStarts, ProcType
    <3>2. CASE ~ proc.arrival
      BY <2>1, <2>2, <3>2 DEF MainStarts, Acquire, ProcType, CtlType
    <3> QED
      BY <3>1, <3>2
  <2>3. CASE \E op \in {"up", "down"} : Request(op)
    BY <2>1, <2>3 DEF Request, Acquire, ProcType, CtlType
  <2>4. CASE StopAt
    BY <2>1, <2>4 DEF StopAt, Acquire, ProcType, CtlType
  <2>5. CASE Signal
    BY <2>1, <2>5 DEF Signal, Acquire, ProcType, CtlType
  <2>6. CASE Exit
    BY <2>1, <2>6 DEF Exit, ProcType
  <2> QED
    BY <2>2, <2>3, <2>4, <2>5, <2>6
<1>3. ctl' = ctl \/ (ctl.pc # "publish" /\ ctl'.pc \in {"idle", "check", "down", "finish"})
  BY DEF MainStarts, Request, StopAt, Signal, Exit, Acquire, Free
<1> QED
  BY <1>1, <1>2, <1>3, QuietStep

LEMMA RefusedStep ==
  ASSUME LegacyInv, UpRefused \/ StartFails \/ DownRefused \/ FinishAgain
  PROVE  LegacyInv'
<1>1. /\ UNCHANGED <<model, n, s, srv, go, hist>> /\ ctl.pc # "publish"
      /\ Return(FALSE) \/ Return(TRUE)
  BY DEF UpRefused, StartFails, DownRefused, FinishAgain
<1>2. proc' \in ProcType /\ ctl' \in CtlType /\ ctl'.pc = "idle"
  BY <1>1, ReturnType DEF LegacyInv
<1> QED
  BY <1>1, <1>2, QuietStep

LEMMA StartServerStep ==
  ASSUME LegacyInv, StartServer
  PROVE  LegacyInv'
<1>1. /\ ~ n.done /\ ~ n.cur /\ ctl.pc = "check" /\ ctl' = [ctl EXCEPT !.pc = "publish"]
      /\ srv' = [NoServer EXCEPT !.state = "up", !.dialer = IF LookupOnly THEN "ended" ELSE "wait"]
      /\ hist' = [hist EXCEPT !.begun = @ + 1] /\ UNCHANGED <<model, proc, n, s, go>>
  BY DEF StartServer, Goes
<1>2. ctl' \in CtlType /\ ctl'.pc = "publish"
  BY <1>1 DEF LegacyInv, TypeOK, CtlType
<1>3. /\ srv' \in ServerType /\ srv'.dialer \in {"wait", "ended"} /\ srv'.wire = 0
  BY <1>1, EmptyIsSeq DEF NoServer, ServerType
<1>4. hist' \in HistType /\ hist'.begun = hist.begun + 1
      /\ hist'.sent = hist.sent /\ hist'.finds = hist.finds
  BY <1>1 DEF LegacyInv, TypeOK, HistType
<1>5. srv = NoServer /\ s = FreshSession /\ srv.wire = 0
  BY <1>1 DEF LegacyInv, Lifecycle, NoServer
<1>6. TypeOK'
  BY <1>1, <1>2, <1>3, <1>4 DEF LegacyInv, TypeOK
<1>7. Lifecycle' /\ GoroutinesInside'
  <2>1. n.sessions \in Nat /\ hist.begun = n.sessions
    BY <1>1 DEF LegacyInv, Lifecycle, TypeOK, NodeType
  <2> QED
    BY <1>1, <1>2, <1>3, <1>4, <1>5, <2>1 DEF LegacyInv, Lifecycle, GoroutinesInside, Leaving
<1>8. LedgerInv'
  BY <1>1, <1>2, <1>3, <1>4, <1>5 DEF LegacyInv, LedgerInv
<1>9. SamplesInv' /\ TraceInv' /\ CutInv'
  <2>1. n.trace = <<>> /\ go.sampler # "add"
    BY <1>1 DEF LegacyInv, TraceInv, GoroutinesInside
  <2> QED
    BY <1>1, <1>2, <1>4, <2>1 DEF LegacyInv, SamplesInv, TraceInv, CutInv
<1> QED
  BY <1>6, <1>7, <1>8, <1>9 DEF LegacyInv

LEMMA PublishStep ==
  ASSUME LegacyInv, Publish
  PROVE  LegacyInv'
<1>1. /\ ctl.pc = "publish" /\ s' = [s EXCEPT !.sub = TRUE] /\ n' = [n EXCEPT !.cur = TRUE]
      /\ go' = [AllEnded EXCEPT !.search = "wait", !.peers = "recv", !.capable = "tick",
                     !.sampler = IF ForkBuild THEN "tick" ELSE "ended", !.left = Lookups]
      /\ Return(TRUE) /\ UNCHANGED <<model, srv, hist>>
  BY DEF Publish
<1>2. proc' \in ProcType /\ ctl' \in CtlType /\ ctl'.pc = "idle"
  BY <1>1, ReturnType DEF LegacyInv
<1>3. go' \in GoType /\ go'.search = "wait" /\ go'.sampler # "add"
  BY <1>1, LegacySessionAssumption DEF GoType, AllEnded
<1>4. /\ s' \in SessionType /\ s'.lookups = s.lookups /\ s'.found = s.found /\ s'.conn = s.conn
      /\ s'.lost = s.lost
  BY <1>1 DEF LegacyInv, TypeOK, SessionType
<1>5. /\ n' \in NodeType /\ n'.cur = TRUE /\ n'.done = n.done /\ n'.sessions = n.sessions
      /\ n'.lookups = n.lookups /\ n'.wire = n.wire /\ n'.samples = n.samples /\ n'.finds = n.finds
      /\ n'.drops = n.drops /\ n'.refills = n.refills /\ n'.trace = n.trace
  BY <1>1 DEF LegacyInv, TypeOK, NodeType
<1>6. TypeOK'
  BY <1>1, <1>2, <1>3, <1>4, <1>5 DEF LegacyInv, TypeOK
<1>7. Lifecycle' /\ GoroutinesInside'
  BY <1>1, <1>2, <1>5 DEF LegacyInv, Lifecycle, GoroutinesInside, Leaving
<1>8. LedgerInv'
  BY <1>1, <1>2, <1>4, <1>5 DEF LegacyInv, LedgerInv
<1>9. SamplesInv' /\ TraceInv' /\ CutInv'
  BY <1>1, <1>2, <1>3, <1>4, <1>5 DEF LegacyInv, SamplesInv, TraceInv, CutInv
<1> QED
  BY <1>6, <1>7, <1>8, <1>9 DEF LegacyInv

\* What Goes does.
LEMMA GoesFacts ==
  ASSUME TypeOK, NEW from, NEW to, Goes(from, to),
         to \in {"trace", "down"} \cup Leaving
  PROVE  proc' \in ProcType /\ ctl' \in CtlType /\ ctl.pc = from /\ ctl'.pc = to
BY DEF TypeOK, Goes, CtlType, Leaving

\* The steps of down up to fold.
LEMMA DownStep ==
  ASSUME LegacyInv,
         Cancel \/ CloseIter \/ Unsubscribe \/ StopServer \/ WaitGoroutines \/ SnapshotCounters
  PROVE  LegacyInv'
<1>1. UNCHANGED <<model, n, go, hist>> /\ n.cur
  BY DEF Cancel, CloseIter, Unsubscribe, StopServer, WaitGoroutines, SnapshotCounters, Goes,
     LegacyInv, Lifecycle, Leaving
<1>2. PICK to \in Leaving : \E from : Goes(from, to) /\ from \in {"down"} \cup (Leaving \ {"fold"})
  BY DEF Cancel, CloseIter, Unsubscribe, StopServer, WaitGoroutines, SnapshotCounters, Leaving
<1>3. /\ proc' \in ProcType /\ ctl' \in CtlType /\ ctl'.pc = to
      /\ ctl.pc \in {"down"} \cup (Leaving \ {"fold"})
  BY <1>2, GoesFacts DEF LegacyInv
<1>4. /\ s' \in SessionType /\ s'.found = s.found /\ s'.conn = s.conn /\ s'.lost = s.lost
      /\ s'.lookups = s.lookups /\ (s.stop => s'.stop)
  <2>0. s \in SessionType /\ srv.wire \in Nat
    BY DEF LegacyInv, TypeOK, ServerType
  <2>1. CASE Cancel
    BY <2>0, <2>1 DEF Cancel, SessionType
  <2>2. CASE CloseIter
    BY <2>0, <2>2 DEF CloseIter, SessionType
  <2>3. CASE Unsubscribe
    BY <2>0, <2>3 DEF Unsubscribe, SessionType
  <2>4. CASE StopServer \/ WaitGoroutines
    BY <2>0, <2>4 DEF StopServer, WaitGoroutines
  <2>5. CASE SnapshotCounters
    BY <2>0, <2>5 DEF SnapshotCounters, SessionType
  <2> QED
    BY <2>1, <2>2, <2>3, <2>4, <2>5
<1>5. /\ srv' \in ServerType /\ srv'.wire = srv.wire /\ srv'.dialer = srv.dialer
  BY DEF LegacyInv, TypeOK, ServerType, Cancel, CloseIter, Unsubscribe, StopServer,
     WaitGoroutines, SnapshotCounters
<1>6. to \in {"wait", "counters", "fold"} => srv'.state = "stopped" /\ srv'.dialer = "ended"
  <2>1. CASE StopServer
    BY <2>1 DEF StopServer, ServerQuiet, LegacyInv, TypeOK, ServerType
  <2>2. CASE WaitGoroutines \/ SnapshotCounters
    BY <2>2 DEF WaitGoroutines, SnapshotCounters, LegacyInv, Lifecycle, Goes
  <2>3. CASE Cancel \/ CloseIter \/ Unsubscribe
    <3>1. to \in {"iter", "unsubscribe", "stop"}
      BY <1>3, <2>3 DEF Cancel, CloseIter, Unsubscribe, Goes, LegacyInv, TypeOK, CtlType
    <3> QED
      BY <3>1
  <2> QED
    BY <2>1, <2>2, <2>3
<1>7. to = "fold" => s'.wire = srv'.wire
  <2>1. CASE SnapshotCounters
    BY <2>1 DEF SnapshotCounters, LegacyInv, TypeOK, SessionType
  <2>2. CASE ~ SnapshotCounters
    <3>1. to # "fold"
      BY <1>3, <2>2 DEF Cancel, CloseIter, Unsubscribe, StopServer, WaitGoroutines, Goes,
         LegacyInv, TypeOK, CtlType
    <3> QED
      BY <3>1
  <2> QED
    BY <2>1, <2>2
<1>8. to \in {"counters", "fold"} =>
        go.search = "ended" /\ go.peers = "ended" /\ go.capable = "ended" /\ go.sampler = "ended"
  <2>1. CASE WaitGoroutines
    BY <2>1 DEF WaitGoroutines, GoroutinesEnded
  <2>2. CASE SnapshotCounters
    BY <2>2 DEF SnapshotCounters, Goes, LegacyInv, GoroutinesInside
  <2>3. CASE Cancel \/ CloseIter \/ Unsubscribe \/ StopServer
    <3>1. to \in {"iter", "unsubscribe", "stop", "wait"}
      BY <1>3, <2>3 DEF Cancel, CloseIter, Unsubscribe, StopServer, Goes, LegacyInv, TypeOK, CtlType
    <3> QED
      BY <3>1
  <2> QED
    BY <2>1, <2>2, <2>3
<1>9. TypeOK'
  BY <1>1, <1>3, <1>4, <1>5 DEF LegacyInv, TypeOK
<1>10. Lifecycle' /\ GoroutinesInside'
  BY <1>1, <1>2, <1>3, <1>6, <1>8 DEF LegacyInv, Lifecycle, GoroutinesInside, Leaving
<1>11. LedgerInv'
  BY <1>1, <1>3, <1>4, <1>5, <1>7 DEF LegacyInv, LedgerInv
<1>12. SamplesInv' /\ TraceInv' /\ CutInv'
  BY <1>1, <1>2, <1>3, <1>4, <1>5 DEF LegacyInv, SamplesInv, TraceInv, CutInv, Leaving
<1> QED
  BY <1>9, <1>10, <1>11, <1>12 DEF LegacyInv

-----------------------------------------------------------------------------
(* fold and finish *)

\* What fold makes of the session that is up.
LEMMA FoldFacts ==
  ASSUME TypeOK
  PROVE  /\ FoldSession \in NodeType
         /\ FoldSession.cur = FALSE /\ FoldSession.done = n.done
         /\ FoldSession.sessions = n.sessions + 1 /\ FoldSession.lookups = n.lookups \o s.lookups
         /\ FoldSession.wire = n.wire + s.wire
         /\ FoldSession.finds = n.finds + (IF s.conn THEN s.found ELSE 0)
         /\ FoldSession.capable = MinCapable(n.capable, s.capable)
         /\ FoldSession.conn = (n.conn \/ s.conn)
         /\ FoldSession.samples = n.samples /\ FoldSession.drops = n.drops
         /\ FoldSession.refills = n.refills /\ FoldSession.trace = n.trace
<1>1. /\ n \in NodeType /\ n.sessions \in Nat /\ n.wire \in Nat /\ n.finds \in Nat /\ n.capable \in Int
      /\ n.lookups \in Seq(Walk) /\ n.conn \in BOOLEAN
  BY DEF TypeOK, NodeType
<1>2. /\ s.lookups \in Seq(Walk) /\ s.wire \in Nat /\ s.found \in Nat /\ s.capable \in Int
      /\ s.conn \in BOOLEAN
  BY DEF TypeOK, SessionType
<1> DEFINE l == n.lookups \o s.lookups
           w == n.wire + s.wire
           c == MinCapable(n.capable, s.capable)
           b == n.conn \/ s.conn
           f == n.finds + IF s.conn THEN s.found ELSE 0
           k == n.sessions + 1
<1>3. l \in Seq(Walk)
  BY <1>1, <1>2
<1>4. w \in Nat /\ c \in Int /\ f \in Nat /\ k \in Nat
  <2>0. n.wire \in Nat /\ s.wire \in Nat /\ n.sessions \in Nat
    BY <1>1, <1>2, Zenon
  <2>1. w \in Nat /\ k \in Nat
    BY <2>0
  <2>2. c \in Int
    BY <1>1, <1>2 DEF MinCapable
  <2>3. f \in Nat
    <3>1. CASE s.conn
      BY <1>1, <1>2, <3>1
    <3>2. CASE ~ s.conn
      BY <1>1, <1>2, <3>2
    <3> QED
      BY <3>1, <3>2
  <2> QED
    BY <2>1, <2>2, <2>3
<1>5. b \in BOOLEAN
  OBVIOUS
<1>6. FoldSession = [n EXCEPT !.cur = FALSE, !.sessions = k, !.lookups = l, !.wire = w,
                              !.capable = c, !.conn = b, !.finds = f]
  BY <1>1 DEF FoldSession, NodeType
<1> HIDE DEF l, w, c, b, f, k
<1>7. /\ FoldSession \in NodeType
      /\ FoldSession.cur = FALSE /\ FoldSession.done = n.done
      /\ FoldSession.sessions = k /\ FoldSession.lookups = l
      /\ FoldSession.wire = w /\ FoldSession.finds = f
      /\ FoldSession.capable = c /\ FoldSession.conn = b
      /\ FoldSession.samples = n.samples /\ FoldSession.drops = n.drops
      /\ FoldSession.refills = n.refills /\ FoldSession.trace = n.trace
  BY <1>1, <1>3, <1>4, <1>5, <1>6 DEF NodeType
<1> QED
  BY <1>7 DEF l, w, c, b, f, k

\* Two sequences without a walk that was cut have none together.
LEMMA NoneCut ==
  ASSUME NEW a \in Seq(Walk), NEW b \in Seq(Walk),
         \A i \in 1..Len(a) : ~ a[i].cut, \A i \in 1..Len(b) : ~ b[i].cut
  PROVE  \A i \in 1..Len(a \o b) : ~ (a \o b)[i].cut
<1> SUFFICES ASSUME NEW i \in 1..Len(a \o b) PROVE ~ (a \o b)[i].cut
  OBVIOUS
<1>1. Len(a) \in Nat /\ Len(b) \in Nat /\ Len(a \o b) = Len(a) + Len(b)
  OBVIOUS
<1>2. CASE i \in 1..Len(a)
  <2>1. (a \o b)[i] = a[i]
    BY <1>1, <1>2
  <2> QED
    BY <1>2, <2>1
<1>3. CASE i \notin 1..Len(a)
  <2>1. i - Len(a) \in 1..Len(b) /\ (a \o b)[i] = b[i - Len(a)]
    BY <1>1, <1>3
  <2> QED
    BY <2>1
<1> QED
  BY <1>2, <1>3

\* The file of the session that is up.
LEMMA FileTyped ==
  ASSUME TypeOK
  PROVE  File \in FileType
<1>1. s.lookups \in Seq(Walk) /\ s.wire \in Nat /\ s.capable \in Int /\ s.found \in Nat
  BY DEF TypeOK, SessionType
<1>2. hist.own \in OwnType
  BY DEF TypeOK, HistType
<1>3. hist.own.samples \in Seq(Nat) /\ hist.own.drops \in Nat /\ hist.own.refills \in Nat
  BY <1>2 DEF OwnType
<1> DEFINE c == IF s.conn THEN <<s.found>> ELSE <<>>
<1>4. c \in Seq(Nat)
  BY <1>1, EmptyIsSeq
<1> HIDE DEF c
<1> QED
  BY <1>1, <1>3, <1>4 DEF File, FileType, c

LEMMA FoldStep ==
  ASSUME LegacyInv, Fold
  PROVE  LegacyInv'
<1>1. /\ ctl.pc = "fold" /\ n' = FoldSession /\ s' = FreshSession /\ srv' = NoServer
      /\ hist' = [hist EXCEPT !.files = IF n.done THEN @ ELSE Append(@, File), !.own = OwnNothing]
      /\ Return(TRUE) /\ UNCHANGED <<model, go>>
  BY DEF Fold
<1>2. proc' \in ProcType /\ ctl' \in CtlType /\ ctl'.pc = "idle"
  BY <1>1, ReturnType DEF LegacyInv
<1>3. s' \in SessionType /\ s'.found = 0 /\ s'.lost = 0 /\ s'.lookups = <<>> /\ ~ s'.conn
  BY <1>1, EmptyIsSeq DEF SessionType, FreshSession
<1>4. srv' \in ServerType /\ srv'.wire = 0 /\ srv'.dialer = "ended"
  BY <1>1, EmptyIsSeq DEF ServerType, NoServer
<1>5. /\ hist' \in HistType /\ hist'.sent = hist.sent /\ hist'.finds = hist.finds
      /\ hist'.begun = hist.begun
  <2> DEFINE fs == IF n.done THEN hist.files ELSE Append(hist.files, File)
  <2>1. hist \in HistType /\ hist.files \in Seq(FileType)
    BY DEF LegacyInv, TypeOK, HistType
  <2>2. fs \in Seq(FileType) /\ OwnNothing \in OwnType
    BY <2>1, FileTyped, EmptyIsSeq DEF LegacyInv, OwnNothing, OwnType
  <2>3. hist' = [hist EXCEPT !.files = fs, !.own = OwnNothing]
    BY <1>1, <2>1 DEF HistType
  <2> HIDE DEF fs
  <2> QED
    BY <2>1, <2>2, <2>3 DEF HistType
<1>6. /\ n' \in NodeType
      /\ n'.cur = FALSE /\ n'.done = n.done
      /\ n'.sessions = n.sessions + 1 /\ n'.lookups = n.lookups \o s.lookups
      /\ n'.wire = n.wire + s.wire
      /\ n'.finds = n.finds + (IF s.conn THEN s.found ELSE 0)
      /\ n'.samples = n.samples /\ n'.drops = n.drops
      /\ n'.refills = n.refills /\ n'.trace = n.trace
  BY <1>1, FoldFacts DEF LegacyInv
<1>7. n.cur /\ s.wire = srv.wire /\ go.sampler = "ended" /\ go.search = "ended"
  BY <1>1 DEF LegacyInv, Lifecycle, LedgerInv, GoroutinesInside, Leaving
<1>8. TypeOK'
  BY <1>1, <1>2, <1>3, <1>4, <1>5, <1>6 DEF LegacyInv, TypeOK
<1>9. Lifecycle' /\ GoroutinesInside'
  <2>1. hist.begun = n.sessions + 1 /\ n.sessions \in Nat
    BY <1>7 DEF LegacyInv, Lifecycle, TypeOK, NodeType
  <2>2. GoroutinesInside'
    BY <1>1 DEF LegacyInv, GoroutinesInside
  <2> QED
    BY <1>1, <1>2, <1>5, <1>6, <2>1, <2>2 DEF Lifecycle, Leaving
<1>10. LedgerInv'
  <2>1. /\ n.wire \in Nat /\ n.finds \in Nat /\ s.found \in Nat /\ s.conn \in BOOLEAN
        /\ n.refills \in Nat /\ n.drops \in Nat /\ s.lost \in Nat /\ srv.wire \in Nat
    BY DEF LegacyInv, TypeOK, NodeType, SessionType, ServerType
  <2>2. /\ n.wire + srv.wire = hist.sent /\ n.finds + s.found = hist.finds
        /\ s.found > 0 => s.conn
        /\ n.refills + s.lost <= n.drops
    BY DEF LegacyInv, LedgerInv
  <2>3. n'.finds = hist.finds
    <3>1. CASE s.conn
      BY <1>6, <2>2, <3>1
    <3>2. CASE ~ s.conn
      <4>1. s.found = 0
        BY <2>1, <2>2, <3>2
      <4> QED
        BY <1>6, <2>1, <2>2, <3>2, <4>1
    <3> QED
      BY <3>1, <3>2
  <2>4. n'.finds + s'.found = hist'.finds /\ n'.wire + srv'.wire = hist'.sent
    BY <1>3, <1>4, <1>5, <1>6, <1>7, <2>1, <2>2, <2>3
  <2>5. n'.refills + s'.lost <= n'.drops
    BY <1>3, <1>6, <2>1, <2>2
  <2>6. ~ (srv'.dialer = "next" \/ s'.found > 0) /\ ctl'.pc # "fold"
    BY <1>2, <1>3, <1>4
  <2> QED
    BY <2>4, <2>5, <2>6 DEF LedgerInv
<1>11. SamplesInv' /\ TraceInv'
  BY <1>1, <1>2, <1>5, <1>6, <1>7 DEF LegacyInv, SamplesInv, TraceInv
<1>12. CutInv'
  <2>1. n.lookups \in Seq(Walk) /\ s.lookups \in Seq(Walk)
    BY DEF LegacyInv, TypeOK, NodeType, SessionType
  <2>2. model = "scheduled" => \A i \in 1..Len(n'.lookups) : ~ n'.lookups[i].cut
    BY <1>6, <2>1, NoneCut DEF LegacyInv, CutInv
  <2>3. \A i \in 1..Len(s'.lookups) : FALSE
    BY <1>3
  <2> QED
    BY <1>1, <1>7, <2>2, <2>3 DEF CutInv
<1> QED
  BY <1>8, <1>9, <1>10, <1>11, <1>12 DEF LegacyInv

LEMMA FinishStep ==
  ASSUME LegacyInv, Finish
  PROVE  LegacyInv'
<1>1. /\ ~ n.done /\ Goes("finish", "trace") /\ n' = [n EXCEPT !.done = TRUE]
      /\ s' = IF n.cur THEN [s EXCEPT !.wire = srv.wire] ELSE s
      /\ UNCHANGED <<model, srv, go, hist>>
  BY DEF Finish
<1>2. proc' \in ProcType /\ ctl' \in CtlType /\ ctl.pc = "finish" /\ ctl'.pc = "trace"
  BY <1>1, GoesFacts DEF LegacyInv
<1>3. /\ s' \in SessionType /\ s'.lookups = s.lookups /\ s'.found = s.found /\ s'.conn = s.conn
      /\ s'.lost = s.lost /\ s'.stop = s.stop
  BY <1>1 DEF LegacyInv, TypeOK, SessionType, ServerType
<1>4. /\ n' \in NodeType /\ n'.cur = n.cur /\ n'.done = TRUE /\ n'.sessions = n.sessions
      /\ n'.lookups = n.lookups /\ n'.wire = n.wire /\ n'.samples = n.samples /\ n'.finds = n.finds
      /\ n'.drops = n.drops /\ n'.refills = n.refills /\ n'.trace = n.trace
  BY <1>1 DEF LegacyInv, TypeOK, NodeType
<1>5. TypeOK'
  BY <1>1, <1>2, <1>3, <1>4 DEF LegacyInv, TypeOK
<1>6. Lifecycle' /\ GoroutinesInside'
  BY <1>1, <1>2, <1>4 DEF LegacyInv, Lifecycle, GoroutinesInside, Leaving
<1>7. LedgerInv'
  BY <1>1, <1>2, <1>3, <1>4 DEF LegacyInv, LedgerInv
<1>8. SamplesInv' /\ TraceInv' /\ CutInv'
  BY <1>1, <1>2, <1>3, <1>4 DEF LegacyInv, SamplesInv, TraceInv, CutInv
<1> QED
  BY <1>5, <1>6, <1>7, <1>8 DEF LegacyInv

LEMMA WriteTraceStep ==
  ASSUME LegacyInv, WriteTrace
  PROVE  LegacyInv'
<1> DEFINE t == IF n.cur THEN FoldSession ELSE n
           conn == IF t.conn THEN <<t.finds>> ELSE <<>>
           file == [sessions |-> t.sessions, lookups |-> t.lookups, samples |-> n.samples,
                    wire |-> t.wire, drops |-> n.drops, refills |-> n.refills,
                    capable |-> t.capable, conn |-> conn]
           parts == IF n.cur THEN Append(hist.files, File) ELSE hist.files
<1>1. /\ Goes("trace", "down") /\ n' = [n EXCEPT !.trace = <<file>>]
      /\ hist' = [hist EXCEPT !.merged = <<LoadTrace(parts)>>]
      /\ UNCHANGED <<model, s, srv, go>>
  BY DEF WriteTrace
<1>2. proc' \in ProcType /\ ctl' \in CtlType /\ ctl.pc = "trace" /\ ctl'.pc = "down"
  BY <1>1, GoesFacts DEF LegacyInv
<1>3. t \in NodeType /\ t.sessions = n.sessions + (IF n.cur THEN 1 ELSE 0)
  BY FoldFacts DEF LegacyInv, TypeOK, NodeType
<1>4. n \in NodeType /\ n.samples \in Seq(Nat) /\ n.drops \in Nat /\ n.refills \in Nat
  BY DEF LegacyInv, TypeOK, NodeType
<1> HIDE DEF t
<1>5. /\ t.sessions \in Nat /\ t.lookups \in Seq(Walk) /\ t.wire \in Nat /\ t.capable \in Int
      /\ t.finds \in Nat
  BY <1>3 DEF NodeType
<1>6. conn \in Seq(Nat)
  BY <1>5, EmptyIsSeq
<1> HIDE DEF conn
<1>7. file \in FileType /\ file.sessions = t.sessions
  BY <1>4, <1>5, <1>6 DEF FileType
<1> HIDE DEF file
<1>8. /\ n' \in NodeType /\ n'.cur = n.cur /\ n'.done = n.done /\ n'.sessions = n.sessions
      /\ n'.lookups = n.lookups /\ n'.wire = n.wire /\ n'.samples = n.samples /\ n'.finds = n.finds
      /\ n'.drops = n.drops /\ n'.refills = n.refills /\ n'.trace = <<file>>
  <2>1. <<file>> \in Seq(FileType)
    BY <1>7
  <2> QED
    BY <1>1, <1>4, <2>1 DEF NodeType
<1>9. /\ hist' \in HistType /\ hist'.sent = hist.sent /\ hist'.finds = hist.finds
      /\ hist'.begun = hist.begun
  <2>1. hist \in HistType /\ hist.files \in Seq(FileType)
    BY DEF LegacyInv, TypeOK, HistType
  <2>2. parts \in Seq(FileType)
    BY <2>1, FileTyped DEF LegacyInv
  <2> HIDE DEF parts
  <2> DEFINE M == {<<>>} \cup {<<LoadTrace(f)>> : f \in Seq(FileType)}
             m == <<LoadTrace(parts)>>
  <2>3. m \in M
    BY <2>2
  <2>4. hist' = [hist EXCEPT !.merged = m]
    BY <1>1
  <2> HIDE DEF m
  <2>5. hist \in [sent : Nat, finds : Nat, begun : Nat, spent : Nat, files : Seq(FileType),
                  own : OwnType, merged : M]
    BY <2>1 DEF HistType
  <2> HIDE DEF M
  <2>6. /\ hist' \in [sent : Nat, finds : Nat, begun : Nat, spent : Nat, files : Seq(FileType),
                      own : OwnType, merged : M]
        /\ hist'.sent = hist.sent /\ hist'.finds = hist.finds /\ hist'.begun = hist.begun
    BY <2>3, <2>4, <2>5
  <2> QED
    BY <2>6 DEF HistType, M
<1>10. n.done /\ t.sessions = hist.begun
  BY <1>2, <1>3 DEF LegacyInv, Lifecycle
<1>11. TypeOK'
  BY <1>1, <1>2, <1>8, <1>9 DEF LegacyInv, TypeOK
<1>12. Lifecycle' /\ GoroutinesInside'
  BY <1>1, <1>2, <1>8, <1>9 DEF LegacyInv, Lifecycle, GoroutinesInside, Leaving
<1>13. LedgerInv'
  BY <1>1, <1>2, <1>8, <1>9 DEF LegacyInv, LedgerInv
<1>14. SamplesInv' /\ CutInv'
  BY <1>1, <1>8, <1>9 DEF LegacyInv, SamplesInv, CutInv
<1>15. TraceInv'
  <2>1. n'.trace[1] = file
    BY <1>8
  <2> QED
    BY <1>2, <1>7, <1>8, <1>9, <1>10, <2>1 DEF TraceInv
<1> QED
  BY <1>11, <1>12, <1>13, <1>14, <1>15 DEF LegacyInv

-----------------------------------------------------------------------------
(* The goroutines of the session *)

\* Steps of the search goroutine: it runs inside a session, before down waits for it.
LEMMA SearchGoroutine ==
  ASSUME LegacyInv, go.search # "ended"
  PROVE  n.cur /\ ctl.pc \notin {"counters", "fold"}
BY DEF LegacyInv, GoroutinesInside

\* Steps that leave the operations, the node and the server alone and change of the
\* session only what the search recorded and ready.
LEMMA SearchFrame ==
  ASSUME LegacyInv, go.search # "ended", UNCHANGED <<model, proc, ctl, n, srv>>,
         go' \in GoType, go'.peers = go.peers, go'.capable = go.capable,
         go'.sampler = go.sampler, go'.smp = go.smp,
         s' \in SessionType, s'.found = s.found, s'.conn = s.conn, s'.lost = s.lost,
         s'.wire = s.wire, s'.stop = s.stop,
         hist' \in HistType, hist'.sent = hist.sent, hist'.finds = hist.finds,
         hist'.begun = hist.begun,
         CutInv'
  PROVE  LegacyInv'
<1>1. n.cur /\ ctl.pc \notin {"counters", "fold"}
  BY SearchGoroutine
<1>2. TypeOK'
  BY DEF LegacyInv, TypeOK
<1>3. Lifecycle' /\ GoroutinesInside'
  BY <1>1 DEF LegacyInv, Lifecycle, GoroutinesInside
<1>4. LedgerInv'
  BY DEF LegacyInv, LedgerInv
<1>5. SamplesInv' /\ TraceInv'
  BY DEF LegacyInv, SamplesInv, TraceInv
<1> QED
  BY <1>2, <1>3, <1>4, <1>5 DEF LegacyInv

LEMMA SearchStepInv ==
  ASSUME LegacyInv, SearchStep
  PROVE  LegacyInv'
<1>1. /\ s \in SessionType /\ go \in GoType /\ hist \in HistType /\ s.lookups \in Seq(Walk)
      /\ go.cut \in BOOLEAN /\ go.found \in Nat /\ go.left \in Nat /\ s.stop \in BOOLEAN
  BY DEF LegacyInv, TypeOK, SessionType, GoType
<1>2. CASE SearchCancelled \/ SearchBegins \/ LookupDue \/ CheckCut
  <2>1. /\ go.search # "ended" /\ UNCHANGED <<model, proc, ctl, n, srv, hist>>
    BY <1>2 DEF SearchCancelled, MayCancel, SearchBegins, LookupDue, CheckCut
  <2>2. /\ s' \in SessionType /\ s'.found = s.found /\ s'.conn = s.conn /\ s'.lost = s.lost
        /\ s'.wire = s.wire /\ s'.stop = s.stop /\ s'.lookups = s.lookups
    BY <1>1, <1>2 DEF SearchCancelled, SearchBegins, LookupDue, CheckCut, SessionType
  <2>3. CASE SearchCancelled
    <3>1. /\ go' \in GoType /\ go'.peers = go.peers /\ go'.capable = go.capable
          /\ go'.sampler = go.sampler /\ go'.smp = go.smp /\ go'.search = "ended"
      BY <1>1, <2>3 DEF SearchCancelled, GoType
    <3>2. CutInv'
      BY <2>1, <2>2, <3>1 DEF LegacyInv, CutInv
    <3> QED
      BY <1>1, <2>1, <2>2, <3>1, <3>2, SearchFrame
  <2>4. CASE SearchBegins
    <3>1. model \in {"conn", "scheduled", "continuous"}
      BY LegacySessionAssumption DEF LegacyInv, TypeOK
    <3>2. /\ go' \in GoType /\ go'.peers = go.peers /\ go'.capable = go.capable
          /\ go'.sampler = go.sampler /\ go'.smp = go.smp
          /\ go'.search \in {"ended", "sleep", "walk"}
      BY <1>1, <2>4, <3>1 DEF SearchBegins, GoType
    <3>3. CutInv'
      BY <2>1, <2>2, <3>2 DEF LegacyInv, CutInv
    <3> QED
      BY <1>1, <2>1, <2>2, <3>2, <3>3, SearchFrame
  <2>5. CASE LookupDue
    <3>1. /\ go' \in GoType /\ go'.peers = go.peers /\ go'.capable = go.capable
          /\ go'.sampler = go.sampler /\ go'.smp = go.smp
          /\ go'.search \in {"ended", "walk"}
      <4>1. CASE go' = [go EXCEPT !.search = "ended"]
        BY <1>1, <4>1 DEF GoType
      <4>2. CASE go' # [go EXCEPT !.search = "ended"]
        <5>1. /\ go.left > 0
              /\ go' = [go EXCEPT !.search = "walk", !.left = go.left - 1, !.found = 0, !.cut = FALSE]
          BY <1>1, <2>5, <4>2 DEF LookupDue, GoType
        <5>2. go.left - 1 \in Nat
          BY <1>1, <5>1
        <5> QED
          BY <1>1, <5>1, <5>2 DEF GoType
      <4> QED
        BY <4>1, <4>2
    <3>2. CutInv'
      BY <2>1, <2>2, <3>1 DEF LegacyInv, CutInv
    <3> QED
      BY <1>1, <2>1, <2>2, <3>1, <3>2, SearchFrame
  <2>6. CASE CheckCut
    <3>1. /\ go' \in GoType /\ go'.peers = go.peers /\ go'.capable = go.capable
          /\ go'.sampler = go.sampler /\ go'.smp = go.smp /\ go'.cut = go.cut
          /\ go.search = "walked" /\ go'.search \in {"ended", "record"}
          /\ go'.search = "record" => ~ s.stop
      BY <1>1, <2>6 DEF CheckCut, GoType
    <3>2. CutInv'
      BY <2>1, <2>2, <3>1 DEF LegacyInv, CutInv
    <3> QED
      BY <1>1, <2>1, <2>2, <3>1, <3>2, SearchFrame
  <2> QED
    BY <1>2, <2>3, <2>4, <2>5, <2>6
<1>3. CASE RandomWalkReturns
  <2>1. PICK c \in {FALSE, s.stop} : go' = [go EXCEPT !.search = "walked", !.cut = c]
    BY <1>3 DEF RandomWalkReturns
  <2>2. c \in BOOLEAN /\ (c => s.stop)
    BY <1>1, <2>1
  <2>3. /\ go' \in GoType /\ go'.peers = go.peers /\ go'.capable = go.capable
        /\ go'.sampler = go.sampler /\ go'.smp = go.smp /\ go'.search = "walked" /\ go'.cut = c
    BY <1>1, <2>1, <2>2 DEF GoType
  <2>4. go.search # "ended" /\ UNCHANGED <<model, proc, ctl, n, s, srv, hist>>
    BY <1>3 DEF RandomWalkReturns
  <2>5. CutInv'
    BY <2>2, <2>3, <2>4 DEF LegacyInv, CutInv
  <2> QED
    BY <1>1, <2>3, <2>4, <2>5, SearchFrame
<1>4. CASE WalkIteratorReturns
  <2> DEFINE v == [cut |-> s.stop, found |-> go.found]
  <2>1. v \in Walk
    BY <1>1 DEF Walk
  <2>2. s' = [s EXCEPT !.lookups = <<v>>] /\ go' = [go EXCEPT !.search = "ended"]
        /\ go.search # "ended" /\ model = "continuous" /\ UNCHANGED <<model, proc, ctl, n, srv, hist>>
    BY <1>4 DEF WalkIteratorReturns
  <2> HIDE DEF v
  <2>3. <<v>> \in Seq(Walk)
    BY <2>1
  <2>4. /\ s' \in SessionType /\ s'.found = s.found /\ s'.conn = s.conn /\ s'.lost = s.lost
        /\ s'.wire = s.wire /\ s'.stop = s.stop
    BY <1>1, <2>2, <2>3 DEF SessionType
  <2>5. /\ go' \in GoType /\ go'.peers = go.peers /\ go'.capable = go.capable
        /\ go'.sampler = go.sampler /\ go'.smp = go.smp
    BY <1>1, <2>2 DEF GoType
  <2>6. CutInv'
    BY <2>2 DEF CutInv
  <2> QED
    BY <1>1, <2>2, <2>4, <2>5, <2>6, SearchFrame
<1>5. CASE RecordLookup
  <2> DEFINE v == [cut |-> go.cut, found |-> go.found]
             l == Append(s.lookups, v)
  <2>1. v \in Walk /\ v.cut = go.cut
    BY <1>1 DEF Walk
  <2>2. s' = [s EXCEPT !.lookups = l] /\ go' = [go EXCEPT !.search = "sleep"]
        /\ go.search = "record" /\ UNCHANGED <<model, proc, ctl, n, srv, hist>>
    BY <1>1, <1>5 DEF RecordLookup, SessionType
  <2> HIDE DEF v
  <2>3. l \in Seq(Walk) /\ Len(l) = Len(s.lookups) + 1 /\ l[Len(s.lookups) + 1] = v
        /\ \A i \in 1..Len(s.lookups) : l[i] = s.lookups[i]
    BY <1>1, <2>1
  <2> HIDE DEF l
  <2>4. /\ s' \in SessionType /\ s'.found = s.found /\ s'.conn = s.conn /\ s'.lost = s.lost
        /\ s'.wire = s.wire /\ s'.stop = s.stop /\ s'.lookups = l
    BY <1>1, <2>2, <2>3 DEF SessionType
  <2>5. /\ go' \in GoType /\ go'.peers = go.peers /\ go'.capable = go.capable
        /\ go'.sampler = go.sampler /\ go'.smp = go.smp /\ go'.search = "sleep"
    BY <1>1, <2>2 DEF GoType
  <2>6. ASSUME model = "scheduled" PROVE \A i \in 1..Len(l) : ~ l[i].cut
    <3>1. ~ go.cut /\ \A i \in 1..Len(s.lookups) : ~ s.lookups[i].cut
      BY <2>2, <2>6 DEF LegacyInv, CutInv
    <3>2. \A i \in 1..Len(l) : i \in 1..Len(s.lookups) \/ i = Len(s.lookups) + 1
      BY <1>1, <2>3
    <3> QED
      BY <2>1, <2>3, <3>1, <3>2
  <2>7. CutInv'
    BY <2>2, <2>4, <2>5, <2>6 DEF LegacyInv, CutInv
  <2>8. go.search # "ended"
    BY <2>2
  <2> QED
    BY <1>1, <2>2, <2>4, <2>5, <2>7, <2>8, SearchFrame
<1> QED
  BY <1>2, <1>3, <1>4, <1>5 DEF SearchStep

\* Spending of the budget changes nothing else of the history.
LEMMA SpendFacts ==
  ASSUME TypeOK
  PROVE  /\ Spend(hist) \in HistType /\ Spend(hist).sent = hist.sent
         /\ Spend(hist).finds = hist.finds /\ Spend(hist).begun = hist.begun
<1>1. hist \in HistType
  BY DEF TypeOK
<1> DEFINE M == {<<>>} \cup {<<LoadTrace(f)>> : f \in Seq(FileType)}
<1>2. hist \in [sent : Nat, finds : Nat, begun : Nat, spent : Nat, files : Seq(FileType),
                own : OwnType, merged : M]
  BY <1>1 DEF HistType
<1> HIDE DEF M
<1>3. /\ Spend(hist) \in [sent : Nat, finds : Nat, begun : Nat, spent : Nat, files : Seq(FileType),
                          own : OwnType, merged : M]
      /\ Spend(hist).sent = hist.sent
      /\ Spend(hist).finds = hist.finds /\ Spend(hist).begun = hist.begun
  BY <1>2 DEF Spend
<1> QED
  BY <1>3 DEF HistType, M

LEMMA WalkFindsStep ==
  ASSUME LegacyInv, WalkFinds
  PROVE  LegacyInv'
<1> DEFINE f == go.found + 1
           v == [cut |-> FALSE, found |-> f]
<1>1. /\ s \in SessionType /\ go \in GoType /\ f \in Nat
  BY DEF LegacyInv, TypeOK, GoType
<1>2. v \in Walk
  BY <1>1 DEF Walk
<1>3. /\ go' = [go EXCEPT !.found = f] /\ go.search = "walk" /\ UNCHANGED <<model, proc, ctl, n, srv>>
      /\ hist' = Spend(hist)
  BY <1>1 DEF WalkFinds, GoType
<1> HIDE DEF f
<1>4. /\ go' \in GoType /\ go'.peers = go.peers /\ go'.capable = go.capable
      /\ go'.sampler = go.sampler /\ go'.smp = go.smp /\ go'.search = "walk" /\ go'.found = f
  BY <1>1, <1>3 DEF GoType
<1>5. s' = IF model = "scheduled" THEN s ELSE [s EXCEPT !.lookups = <<v>>]
  <2>1. [cut |-> FALSE, found |-> go'.found] = v
    BY <1>4
  <2> HIDE DEF v
  <2>2. s' = IF model = "scheduled" THEN s
             ELSE [s EXCEPT !.lookups = <<[cut |-> FALSE, found |-> go'.found]>>]
    BY DEF WalkFinds
  <2> QED
    BY <2>1, <2>2
<1> HIDE DEF v
<1>6. <<v>> \in Seq(Walk)
  BY <1>2
<1>7. /\ s' \in SessionType /\ s'.found = s.found /\ s'.conn = s.conn /\ s'.lost = s.lost
      /\ s'.wire = s.wire /\ s'.stop = s.stop /\ (model = "scheduled" => s' = s)
  BY <1>1, <1>5, <1>6 DEF SessionType
<1>8. CutInv'
  BY <1>3, <1>4, <1>7 DEF LegacyInv, CutInv
<1>9. /\ hist' \in HistType /\ hist'.sent = hist.sent /\ hist'.finds = hist.finds
      /\ hist'.begun = hist.begun
  BY <1>3, SpendFacts DEF LegacyInv
<1>10. go.search # "ended"
  BY <1>3
<1> QED
  BY <1>3, <1>4, <1>7, <1>8, <1>9, <1>10, SearchFrame

\* Steps of the watchers that leave the operations, the server's counters and the
\* lookups alone.
LEMMA WatcherFrame ==
  ASSUME LegacyInv, n.cur, ctl.pc \notin {"counters", "fold"}, UNCHANGED <<model, proc, ctl>>,
         n' \in NodeType, n'.cur = n.cur, n'.done = n.done, n'.sessions = n.sessions,
         n'.trace = n.trace, n'.wire = n.wire, n'.finds = n.finds, n'.lookups = n.lookups,
         s' \in SessionType, s'.found = s.found, s'.conn = s.conn, s'.stop = s.stop,
         s'.lookups = s.lookups,
         srv' \in ServerType, srv'.wire = srv.wire, srv'.dialer = srv.dialer,
         srv'.state = srv.state,
         go' \in GoType, go'.search = go.search, go'.cut = go.cut,
         hist' \in HistType, hist'.sent = hist.sent, hist'.finds = hist.finds,
         hist'.begun = hist.begun,
         n'.refills + s'.lost <= n'.drops,
         SamplesInv'
  PROVE  LegacyInv'
<1>1. TypeOK'
  BY DEF LegacyInv, TypeOK
<1>2. Lifecycle' /\ GoroutinesInside'
  BY DEF LegacyInv, Lifecycle, GoroutinesInside
<1>3. LedgerInv'
  BY DEF LegacyInv, LedgerInv
<1>4. TraceInv' /\ CutInv'
  BY DEF LegacyInv, TraceInv, CutInv
<1> QED
  BY <1>1, <1>2, <1>3, <1>4 DEF LegacyInv

LEMMA WatcherEndsStep ==
  ASSUME LegacyInv, NEW g \in Watchers, WatcherEnds(g)
  PROVE  LegacyInv'
<1>1. /\ go \in GoType /\ n \in NodeType /\ s \in SessionType /\ srv \in ServerType /\ hist \in HistType
  BY DEF LegacyInv, TypeOK
<1>2. /\ go[g] # "ended" /\ go' = [go EXCEPT ![g] = "ended"]
      /\ UNCHANGED <<model, proc, ctl, n, s, srv, hist>>
  BY DEF WatcherEnds, MayEnd
<1>3. g = "peers" \/ g = "capable" \/ g = "sampler"
  BY DEF Watchers
<1>4. /\ go' \in GoType /\ go'.search = go.search /\ go'.cut = go.cut /\ go'.smp = go.smp
      /\ go'.sampler \in {go.sampler, "ended"}
  BY <1>1, <1>2, <1>3 DEF GoType
<1>5. n.cur /\ ctl.pc \notin {"counters", "fold"}
  <2>1. go.peers # "ended" \/ go.capable # "ended" \/ go.sampler # "ended"
    BY <1>2, <1>3
  <2> QED
    BY <2>1 DEF LegacyInv, GoroutinesInside
<1>6. SamplesInv'
  BY <1>2, <1>4 DEF LegacyInv, SamplesInv
<1>7. n'.refills + s'.lost <= n'.drops
  BY <1>2 DEF LegacyInv, LedgerInv
<1> QED
  BY <1>1, <1>2, <1>4, <1>5, <1>6, <1>7, WatcherFrame

LEMMA SamplerReadsStep ==
  ASSUME LegacyInv, SamplerReads
  PROVE  LegacyInv'
<1>1. /\ go \in GoType /\ n \in NodeType /\ s \in SessionType /\ srv \in ServerType /\ srv.wire \in Nat
      /\ n.wire \in Nat
  BY DEF LegacyInv, TypeOK, ServerType, NodeType
<1>2. /\ go.sampler = "tick" /\ go' = [go EXCEPT !.sampler = "add", !.smp = srv.wire]
      /\ hist' = Spend(hist) /\ UNCHANGED <<model, proc, ctl, n, s, srv>>
  BY DEF SamplerReads
<1>3. /\ hist' \in HistType /\ hist'.sent = hist.sent /\ hist'.finds = hist.finds
      /\ hist'.begun = hist.begun
  BY <1>2, SpendFacts DEF LegacyInv
<1>4. /\ go' \in GoType /\ go'.search = go.search /\ go'.cut = go.cut /\ go'.smp = srv.wire
  BY <1>1, <1>2 DEF GoType
<1>5. n.cur /\ ctl.pc \notin {"counters", "fold"}
  BY <1>2 DEF LegacyInv, GoroutinesInside
<1>6. SamplesInv'
  <2>1. n.wire + srv.wire = hist.sent /\ \A i \in 1..Len(n.samples) : n.samples[i] <= hist.sent
    BY DEF LegacyInv, LedgerInv, SamplesInv
  <2> QED
    BY <1>1, <1>2, <1>3, <1>4, <2>1 DEF LegacyInv, SamplesInv
<1>7. n'.refills + s'.lost <= n'.drops
  BY <1>2 DEF LegacyInv, LedgerInv
<1> QED
  BY <1>1, <1>2, <1>3, <1>4, <1>5, <1>6, <1>7, WatcherFrame

\* What a session would have recorded in a process of its own.
LEMMA OwnFacts ==
  ASSUME TypeOK, NEW o \in OwnType, hist' = [hist EXCEPT !.own = o]
  PROVE  /\ hist' \in HistType /\ hist'.sent = hist.sent /\ hist'.finds = hist.finds
         /\ hist'.begun = hist.begun
<1>1. hist \in HistType
  BY DEF TypeOK
<1> DEFINE M == {<<>>} \cup {<<LoadTrace(f)>> : f \in Seq(FileType)}
<1>2. hist \in [sent : Nat, finds : Nat, begun : Nat, spent : Nat, files : Seq(FileType),
                own : OwnType, merged : M]
  BY <1>1 DEF HistType
<1> HIDE DEF M
<1>3. /\ hist' \in [sent : Nat, finds : Nat, begun : Nat, spent : Nat, files : Seq(FileType),
                    own : OwnType, merged : M]
      /\ hist'.sent = hist.sent /\ hist'.finds = hist.finds /\ hist'.begun = hist.begun
  BY <1>2
<1> QED
  BY <1>3 DEF HistType, M

LEMMA AddSampleStep ==
  ASSUME LegacyInv, AddSample
  PROVE  LegacyInv'
<1> DEFINE v == n.wire + go.smp
           k == Len(n.samples)
           q == Append(n.samples, v)
           o == [hist.own EXCEPT !.samples = Append(@, go.smp)]
<1>1. /\ go \in GoType /\ n \in NodeType /\ s \in SessionType /\ srv \in ServerType /\ hist \in HistType
      /\ srv.wire \in Nat /\ n.wire \in Nat /\ go.smp \in Nat /\ n.samples \in Seq(Nat)
      /\ hist.own \in OwnType
  BY DEF LegacyInv, TypeOK, ServerType, NodeType, GoType, HistType
<1>2. /\ go.sampler = "add" /\ go' = [go EXCEPT !.sampler = "tick"]
      /\ n' = [n EXCEPT !.samples = q]
      /\ UNCHANGED <<model, proc, ctl, s, srv>>
  BY <1>1 DEF AddSample, NodeType
<1>3. hist' = [hist EXCEPT !.own = o]
  BY <1>1 DEF AddSample, HistType
<1>4. o \in OwnType
  <2> DEFINE z == Append(hist.own.samples, go.smp)
  <2>1. hist.own.samples \in Seq(Nat)
    BY <1>1 DEF OwnType
  <2>2. z \in Seq(Nat)
    BY <1>1, <2>1
  <2>3. o = [hist.own EXCEPT !.samples = z]
    BY <1>1 DEF OwnType
  <2> HIDE DEF z, o
  <2> QED
    BY <1>1, <2>2, <2>3 DEF OwnType
<1> HIDE DEF o
<1>5. /\ hist' \in HistType /\ hist'.sent = hist.sent /\ hist'.finds = hist.finds
      /\ hist'.begun = hist.begun
  BY <1>3, <1>4, OwnFacts DEF LegacyInv
<1>6. /\ go' \in GoType /\ go'.search = go.search /\ go'.cut = go.cut /\ go'.sampler = "tick"
  BY <1>1, <1>2 DEF GoType
<1>7. n.cur /\ ctl.pc \notin {"counters", "fold"}
  BY <1>2 DEF LegacyInv, GoroutinesInside
<1>8. v \in Nat /\ v <= hist.sent /\ \A i \in 1..k : n.samples[i] <= v
  <2>1. /\ n.wire + srv.wire = hist.sent /\ go.smp <= srv.wire
        /\ \A i \in 1..Len(n.samples) : n.samples[i] <= n.wire + go.smp
    BY <1>2 DEF LegacyInv, LedgerInv, SamplesInv
  <2> QED
    BY <1>1, <2>1
<1> HIDE DEF v
<1>9. /\ q \in Seq(Nat) /\ k \in Nat /\ Len(q) = k + 1 /\ q[k + 1] = v
      /\ \A i \in 1..k : q[i] = n.samples[i]
  BY <1>1, <1>8
<1> HIDE DEF q
<1>10. /\ n' \in NodeType /\ n'.cur = n.cur /\ n'.done = n.done /\ n'.sessions = n.sessions
       /\ n'.trace = n.trace /\ n'.wire = n.wire /\ n'.finds = n.finds /\ n'.lookups = n.lookups
       /\ n'.samples = q /\ n'.drops = n.drops /\ n'.refills = n.refills
  BY <1>1, <1>2, <1>9 DEF NodeType
<1>11. ASSUME NEW i \in 1..Len(q)
       PROVE  q[i] <= hist.sent /\ (i < Len(q) => q[i] <= q[i + 1])
  <2>0. \A j \in 1..k : /\ n.samples[j] <= hist.sent
                        /\ j < k => n.samples[j] <= n.samples[j + 1]
    BY DEF LegacyInv, SamplesInv
  <2>1. CASE i = k + 1
    BY <1>8, <1>9, <2>1
  <2>2. CASE i = k
    <3>1. i \in 1..k
      BY <1>9, <2>2
    <3> QED
      BY <1>8, <1>9, <2>0, <2>2, <3>1
  <2>3. CASE i # k + 1 /\ i # k
    <3>1. i \in 1..k /\ i + 1 \in 1..k /\ i < k
      BY <1>9, <2>3
    <3>2. q[i] = n.samples[i] /\ q[i + 1] = n.samples[i + 1]
      BY <1>9, <3>1
    <3>3. n.samples[i] <= hist.sent /\ n.samples[i] <= n.samples[i + 1]
      BY <2>0, <3>1
    <3> QED
      BY <3>2, <3>3
  <2> QED
    BY <2>1, <2>2, <2>3
<1>12. SamplesInv'
  BY <1>5, <1>6, <1>10, <1>11 DEF SamplesInv
<1>13. n'.refills + s'.lost <= n'.drops
  BY <1>2, <1>10 DEF LegacyInv, LedgerInv
<1> QED
  BY <1>1, <1>2, <1>5, <1>6, <1>7, <1>10, <1>12, <1>13, WatcherFrame

LEMMA SeesCapableStep ==
  ASSUME LegacyInv, SeesCapable
  PROVE  LegacyInv'
<1>1. /\ go \in GoType /\ n \in NodeType /\ s \in SessionType /\ srv \in ServerType
  BY DEF LegacyInv, TypeOK
<1>2. PICK age \in Ages : s' = [s EXCEPT !.capable = age]
  BY DEF SeesCapable
<1>3. age \in Int
  BY LegacySessionAssumption
<1>4. /\ go.capable = "tick" /\ go' = [go EXCEPT !.capable = "ended"]
      /\ hist' = Spend(hist) /\ UNCHANGED <<model, proc, ctl, n, srv>>
  BY DEF SeesCapable
<1>5. /\ s' \in SessionType /\ s'.found = s.found /\ s'.conn = s.conn /\ s'.stop = s.stop
      /\ s'.lookups = s.lookups /\ s'.lost = s.lost
  BY <1>1, <1>2, <1>3 DEF SessionType
<1>6. /\ hist' \in HistType /\ hist'.sent = hist.sent /\ hist'.finds = hist.finds
      /\ hist'.begun = hist.begun
  BY <1>4, SpendFacts DEF LegacyInv
<1>7. /\ go' \in GoType /\ go'.search = go.search /\ go'.cut = go.cut /\ go'.smp = go.smp
      /\ go'.sampler = go.sampler
  BY <1>1, <1>4 DEF GoType
<1>8. n.cur /\ ctl.pc \notin {"counters", "fold"}
  BY <1>4 DEF LegacyInv, GoroutinesInside
<1>9. SamplesInv'
  BY <1>4, <1>6, <1>7 DEF LegacyInv, SamplesInv
<1>10. n'.refills + s'.lost <= n'.drops
  BY <1>4, <1>5 DEF LegacyInv, LedgerInv
<1> QED
  BY <1>1, <1>4, <1>5, <1>6, <1>7, <1>8, <1>9, <1>10, WatcherFrame

LEMMA HandleEventStep ==
  ASSUME LegacyInv, HandleEvent
  PROVE  LegacyInv'
<1>1. /\ go \in GoType /\ n \in NodeType /\ s \in SessionType /\ srv \in ServerType /\ hist \in HistType
      /\ n.drops \in Nat /\ n.refills \in Nat /\ s.lost \in Nat /\ hist.own \in OwnType
      /\ srv.events \in Seq({"add", "drop"})
  BY DEF LegacyInv, TypeOK, ServerType, NodeType, SessionType, HistType
<1>2. /\ go.peers = "recv" /\ srv.events # <<>> /\ srv' = [srv EXCEPT !.events = Tail(@)]
      /\ UNCHANGED <<model, proc, ctl, go>>
  BY DEF HandleEvent
<1>3. /\ srv' \in ServerType /\ srv'.wire = srv.wire /\ srv'.dialer = srv.dialer
      /\ srv'.state = srv.state
  <2> DEFINE z == Tail(srv.events)
  <2>1. z \in Seq({"add", "drop"})
    BY <1>1, <1>2
  <2>2. srv' = [srv EXCEPT !.events = z]
    BY <1>1, <1>2 DEF ServerType
  <2> HIDE DEF z
  <2> QED
    BY <1>1, <2>1, <2>2 DEF ServerType
<1>4. n.cur /\ ctl.pc \notin {"counters", "fold"}
  BY <1>2 DEF LegacyInv, GoroutinesInside
<1>5. n.refills + s.lost <= n.drops
  BY DEF LegacyInv, LedgerInv
<1>6. PICK d \in Nat, r \in Nat, l \in Nat, o \in OwnType :
        /\ n' = [n EXCEPT !.drops = d, !.refills = r] /\ s' = [s EXCEPT !.lost = l]
        /\ hist' = [hist EXCEPT !.own = o] /\ r + l <= d
  <2>1. CASE Head(srv.events) = "drop"
    <3> DEFINE o == [hist.own EXCEPT !.drops = @ + 1]
    <3>1. o \in OwnType
      <4> DEFINE e == hist.own.drops + 1
      <4>1. hist.own \in OwnType /\ e \in Nat
        BY <1>1 DEF OwnType
      <4>2. o = [hist.own EXCEPT !.drops = e]
        OBVIOUS
      <4> HIDE DEF e, o
      <4> QED
        BY <4>1, <4>2 DEF OwnType
    <3>2. hist' = [hist EXCEPT !.own = o]
      BY <1>1, <2>1 DEF HandleEvent, HistType
    <3>3. /\ n' = [n EXCEPT !.drops = n.drops + 1] /\ s' = [s EXCEPT !.lost = s.lost + 1]
      BY <1>1, <2>1 DEF HandleEvent, NodeType, SessionType
    <3>4. n' = [n EXCEPT !.drops = n.drops + 1, !.refills = n.refills]
      BY <1>1, <3>3 DEF NodeType
    <3>5. n.drops + 1 \in Nat /\ s.lost + 1 \in Nat /\ n.refills + (s.lost + 1) <= n.drops + 1
      BY <1>1, <1>5
    <3> HIDE DEF o
    <3> QED
      BY <1>1, <3>1, <3>2, <3>3, <3>4, <3>5
  <2>2. CASE Head(srv.events) # "drop"
    <3> DEFINE refill == IF s.lost > 0 THEN 1 ELSE 0
               o == [hist.own EXCEPT !.refills = @ + refill]
    <3>0. refill \in Nat /\ s.lost - refill \in Nat
      BY <1>1
    <3>2. hist' = [hist EXCEPT !.own = o]
      BY <1>1, <2>2 DEF HandleEvent, HistType
    <3>3. n' = [n EXCEPT !.refills = n.refills + refill]
      BY <1>1, <2>2 DEF HandleEvent, NodeType
    <3>6. s' = [s EXCEPT !.lost = s.lost - refill]
      BY <1>1, <2>2 DEF HandleEvent, SessionType
    <3> HIDE DEF refill
    <3>1. o \in OwnType
      <4>1. hist.own.refills + refill \in Nat
        BY <1>1, <3>0 DEF OwnType
      <4>2. o = [hist.own EXCEPT !.refills = hist.own.refills + refill]
        BY <1>1 DEF OwnType
      <4> HIDE DEF o
      <4> QED
        BY <1>1, <4>1, <4>2 DEF OwnType
    <3> HIDE DEF o
    <3>4. n' = [n EXCEPT !.drops = n.drops, !.refills = n.refills + refill]
      BY <1>1, <3>3 DEF NodeType
    <3>5. n.refills + refill \in Nat /\ (n.refills + refill) + (s.lost - refill) <= n.drops
      BY <1>1, <1>5, <3>0
    <3> QED
      BY <1>1, <3>0, <3>1, <3>2, <3>4, <3>5, <3>6
  <2> QED
    BY <2>1, <2>2
<1>7. /\ n' \in NodeType /\ n'.cur = n.cur /\ n'.done = n.done /\ n'.sessions = n.sessions
      /\ n'.trace = n.trace /\ n'.wire = n.wire /\ n'.finds = n.finds /\ n'.lookups = n.lookups
      /\ n'.samples = n.samples /\ n'.drops = d /\ n'.refills = r
  BY <1>1, <1>6 DEF NodeType
<1>8. /\ s' \in SessionType /\ s'.found = s.found /\ s'.conn = s.conn /\ s'.stop = s.stop
      /\ s'.lookups = s.lookups /\ s'.lost = l
  BY <1>1, <1>6 DEF SessionType
<1>9. /\ hist' \in HistType /\ hist'.sent = hist.sent /\ hist'.finds = hist.finds
      /\ hist'.begun = hist.begun
  BY <1>6, OwnFacts DEF LegacyInv
<1>10. SamplesInv'
  BY <1>2, <1>3, <1>7, <1>9 DEF LegacyInv, SamplesInv
<1>11. n'.refills + s'.lost <= n'.drops
  BY <1>6, <1>7, <1>8
<1> QED
  BY <1>1, <1>2, <1>3, <1>4, <1>7, <1>8, <1>9, <1>10, <1>11, WatcherFrame

-----------------------------------------------------------------------------
(* The server and its dial scheduler *)

\* A server that runs, or a peer of it that waits to post an event.
LEMMA ServerRuns ==
  ASSUME LegacyInv, srv.state = "up" \/ srv.sender # "none" \/ srv.dialer # "ended"
  PROVE  n.cur \/ ctl.pc = "publish"
BY DEF LegacyInv, Lifecycle, NoServer

\* Steps that change of the server its events only.
LEMMA EventFrame ==
  ASSUME LegacyInv, n.cur \/ ctl.pc = "publish", UNCHANGED <<model, proc, ctl, n, s, go>>,
         srv' \in ServerType, srv'.wire = srv.wire, srv'.dialer = srv.dialer,
         srv'.state = srv.state,
         hist' \in HistType, hist'.sent = hist.sent, hist'.finds = hist.finds,
         hist'.begun = hist.begun
  PROVE  LegacyInv'
<1>1. TypeOK'
  BY DEF LegacyInv, TypeOK
<1>2. Lifecycle' /\ GoroutinesInside'
  BY DEF LegacyInv, Lifecycle, GoroutinesInside
<1>3. LedgerInv'
  BY DEF LegacyInv, LedgerInv
<1>4. SamplesInv' /\ TraceInv' /\ CutInv'
  BY DEF LegacyInv, SamplesInv, TraceInv, CutInv
<1> QED
  BY <1>1, <1>2, <1>3, <1>4 DEF LegacyInv

LEMMA PeerStep ==
  ASSUME LegacyInv, (\E kind \in {"add", "drop"} : PeerEvent(kind)) \/ Deliver
  PROVE  LegacyInv'
<1>1. srv \in ServerType /\ hist \in HistType
  BY DEF LegacyInv, TypeOK
<1>2. CASE \E kind \in {"add", "drop"} : PeerEvent(kind)
  <2>1. PICK kind \in {"add", "drop"} : PeerEvent(kind)
    BY <1>2
  <2>2. /\ srv.state = "up" /\ srv' = [srv EXCEPT !.sender = kind] /\ hist' = Spend(hist)
        /\ UNCHANGED <<model, proc, ctl, n, s, go>>
    BY <2>1 DEF PeerEvent
  <2>3. /\ srv' \in ServerType /\ srv'.wire = srv.wire /\ srv'.dialer = srv.dialer
        /\ srv'.state = srv.state
    BY <1>1, <2>2 DEF ServerType
  <2>4. /\ hist' \in HistType /\ hist'.sent = hist.sent /\ hist'.finds = hist.finds
        /\ hist'.begun = hist.begun
    BY <2>2, SpendFacts DEF LegacyInv
  <2> QED
    BY <2>2, <2>3, <2>4, ServerRuns, EventFrame
<1>3. CASE Deliver
  <2> DEFINE e == IF s.sub THEN Append(srv.events, srv.sender) ELSE srv.events
  <2>1. /\ srv.sender # "none" /\ UNCHANGED <<model, proc, ctl, n, s, go, hist>>
        /\ srv' = [srv EXCEPT !.events = e, !.sender = "none"]
    BY <1>1, <1>3 DEF Deliver, MayDeliver, ServerType
  <2>2. srv.events \in Seq({"add", "drop"}) /\ srv.sender \in {"add", "drop"}
    BY <1>1, <2>1 DEF ServerType
  <2>3. e \in Seq({"add", "drop"})
    BY <2>2
  <2> HIDE DEF e
  <2>4. /\ srv' \in ServerType /\ srv'.wire = srv.wire /\ srv'.dialer = srv.dialer
        /\ srv'.state = srv.state
    BY <1>1, <2>1, <2>3 DEF ServerType
  <2> QED
    BY <1>1, <2>1, <2>4, ServerRuns, EventFrame
<1> QED
  BY <1>2, <1>3

LEMMA TrafficStep ==
  ASSUME LegacyInv, Traffic
  PROVE  LegacyInv'
<1>1. /\ srv \in ServerType /\ srv.wire \in Nat /\ n.wire \in Nat /\ hist.sent \in Nat
      /\ n.samples \in Seq(Nat) /\ go.smp \in Nat
  BY DEF LegacyInv, TypeOK, ServerType, NodeType, HistType, GoType
<1>2. /\ srv.state = "up" /\ srv' = [srv EXCEPT !.wire = srv.wire + 1]
      /\ hist' = [Spend(hist) EXCEPT !.sent = hist.sent + 1]
      /\ UNCHANGED <<model, proc, ctl, n, s, go>>
  <2>1. Spend(hist) \in HistType /\ Spend(hist).sent = hist.sent
    BY SpendFacts DEF LegacyInv
  <2> QED
    BY <1>1, <2>1 DEF Traffic, ServerType, HistType
<1>3. /\ srv' \in ServerType /\ srv'.wire = srv.wire + 1 /\ srv'.dialer = srv.dialer
      /\ srv'.state = srv.state
  <2> DEFINE w == srv.wire + 1
  <2>1. w \in Nat /\ srv' = [srv EXCEPT !.wire = w]
    BY <1>1, <1>2
  <2> HIDE DEF w
  <2>2. srv' \in ServerType /\ srv'.wire = w /\ srv'.dialer = srv.dialer /\ srv'.state = srv.state
    BY <1>1, <2>1 DEF ServerType
  <2> QED
    BY <2>2 DEF w
<1>4. /\ hist' \in HistType /\ hist'.sent = hist.sent + 1 /\ hist'.finds = hist.finds
      /\ hist'.begun = hist.begun
  <2>1. /\ Spend(hist) \in HistType /\ Spend(hist).finds = hist.finds /\ Spend(hist).begun = hist.begun
    BY SpendFacts DEF LegacyInv
  <2> DEFINE M == {<<>>} \cup {<<LoadTrace(f)>> : f \in Seq(FileType)}
             h == Spend(hist)
             v == hist.sent + 1
  <2>2. h \in [sent : Nat, finds : Nat, begun : Nat, spent : Nat, files : Seq(FileType),
               own : OwnType, merged : M]
    BY <2>1 DEF HistType
  <2>3. /\ hist' = [h EXCEPT !.sent = v] /\ h.finds = hist.finds /\ h.begun = hist.begun
        /\ v \in Nat
    BY <1>1, <1>2, <2>1
  <2> HIDE DEF M, h, v
  <2>4. /\ hist' \in [sent : Nat, finds : Nat, begun : Nat, spent : Nat, files : Seq(FileType),
                      own : OwnType, merged : M]
        /\ hist'.sent = v /\ hist'.finds = hist.finds /\ hist'.begun = hist.begun
    BY <2>2, <2>3
  <2> QED
    BY <2>4 DEF HistType, M, v
<1>5. n.cur \/ ctl.pc = "publish"
  BY <1>2, ServerRuns
<1>6. TypeOK'
  BY <1>2, <1>3, <1>4 DEF LegacyInv, TypeOK
<1>7. Lifecycle' /\ GoroutinesInside'
  BY <1>2, <1>3, <1>4, <1>5 DEF LegacyInv, Lifecycle, GoroutinesInside
<1>8. LedgerInv'
  <2>1. ctl.pc # "fold"
    BY <1>2 DEF LegacyInv, Lifecycle
  <2>2. n.wire + (srv.wire + 1) = hist.sent + 1
    BY <1>1 DEF LegacyInv, LedgerInv
  <2> QED
    BY <1>2, <1>3, <1>4, <2>1, <2>2 DEF LegacyInv, LedgerInv
<1>9. SamplesInv'
  <2>1. \A i \in 1..Len(n.samples) : n.samples[i] \in Nat
    BY <1>1
  <2>2. \A i \in 1..Len(n.samples) : n.samples[i] <= hist.sent + 1
    BY <1>1, <2>1 DEF LegacyInv, SamplesInv
  <2>3. go.sampler = "add" => go.smp <= srv.wire + 1
    BY <1>1 DEF LegacyInv, SamplesInv
  <2> QED
    BY <1>2, <1>3, <1>4, <2>2, <2>3 DEF LegacyInv, SamplesInv
<1>10. TraceInv' /\ CutInv'
  BY <1>2, <1>4 DEF LegacyInv, TraceInv, CutInv
<1> QED
  BY <1>6, <1>7, <1>8, <1>9, <1>10 DEF LegacyInv

\* Steps of Next: a session is up, as neither ready nor closed is set before.
LEMMA DialFrame ==
  ASSUME LegacyInv, n.cur, UNCHANGED <<model, proc, ctl, n, go>>,
         ctl.pc \notin {"wait", "counters", "fold"},
         srv' \in ServerType, srv'.wire = srv.wire, srv'.state = srv.state,
         s' \in SessionType, s'.lost = s.lost, s'.lookups = s.lookups, s'.stop = s.stop,
         srv'.dialer = "next" \/ s'.found > 0 => s'.conn,
         n.finds + s'.found = hist'.finds,
         hist' \in HistType, hist'.sent = hist.sent, hist'.begun = hist.begun
  PROVE  LegacyInv'
<1>1. TypeOK'
  BY DEF LegacyInv, TypeOK
<1>2. Lifecycle' /\ GoroutinesInside'
  BY DEF LegacyInv, Lifecycle, GoroutinesInside
<1>3. LedgerInv'
  BY DEF LegacyInv, LedgerInv
<1>4. SamplesInv' /\ TraceInv' /\ CutInv'
  BY DEF LegacyInv, SamplesInv, TraceInv, CutInv
<1> QED
  BY <1>1, <1>2, <1>3, <1>4 DEF LegacyInv

LEMMA DialStep ==
  ASSUME LegacyInv, NextWaits \/ NextOpens \/ NextFinds \/ NextEnds
  PROVE  LegacyInv'
<1>1. /\ srv \in ServerType /\ s \in SessionType /\ hist \in HistType /\ s.found \in Nat
      /\ n.finds \in Nat /\ s.conn \in BOOLEAN
  BY DEF LegacyInv, TypeOK, SessionType, NodeType
<1>2. /\ UNCHANGED <<model, proc, ctl, n, go>> /\ srv.dialer # "ended"
      /\ srv.dialer = "wait" => s.ready \/ s.closed
  BY DEF NextWaits, NextOpens, NextFinds, NextEnds
<1>3. n.cur /\ ctl.pc \notin {"wait", "counters", "fold"}
  <2>1. n.cur \/ ctl.pc = "publish"
    BY <1>2, ServerRuns
  <2>2. ASSUME ctl.pc = "publish" PROVE FALSE
    <3>1. s = FreshSession /\ srv.dialer \in {"wait", "ended"}
      BY <2>2 DEF LegacyInv, Lifecycle
    <3> QED
      BY <1>2, <3>1 DEF FreshSession
  <2>3. ctl.pc \notin {"wait", "counters", "fold"}
    BY <1>2 DEF LegacyInv, Lifecycle
  <2> QED
    BY <2>1, <2>2, <2>3
<1>4. /\ n.finds + s.found = hist.finds /\ (srv.dialer = "next" => s.conn) /\ (s.found > 0 => s.conn)
  BY DEF LegacyInv, LedgerInv
<1>5. CASE NextWaits \/ NextEnds
  <2>1. UNCHANGED <<s, hist>>
    BY <1>5 DEF NextWaits, NextEnds
  <2>2. /\ srv' \in ServerType /\ srv'.wire = srv.wire /\ srv'.state = srv.state
        /\ srv'.dialer \in {"enter", "ended"}
    BY <1>1, <1>5 DEF NextWaits, NextEnds, ServerType
  <2>3. srv'.dialer = "next" \/ s'.found > 0 => s'.conn
    BY <1>4, <2>1, <2>2
  <2> QED
    BY <1>1, <1>2, <1>3, <1>4, <2>1, <2>2, <2>3, DialFrame
<1>6. CASE NextOpens
  <2>1. UNCHANGED hist
    BY <1>6 DEF NextOpens
  <2>2. CASE s.closed
    <3>1. UNCHANGED s /\ srv' = [srv EXCEPT !.dialer = "ended"]
      BY <1>6, <2>2 DEF NextOpens
    <3>2. /\ srv' \in ServerType /\ srv'.wire = srv.wire /\ srv'.state = srv.state
          /\ srv'.dialer = "ended"
      BY <1>1, <3>1 DEF ServerType
    <3>3. srv'.dialer = "next" \/ s'.found > 0 => s'.conn
      BY <1>4, <3>1, <3>2
    <3> QED
      BY <1>1, <1>2, <1>3, <1>4, <2>1, <3>1, <3>2, <3>3, DialFrame
  <2>3. CASE ~ s.closed
    <3>1. s' = [s EXCEPT !.conn = TRUE] /\ srv' = [srv EXCEPT !.dialer = "next", !.it = "open"]
      BY <1>6, <2>3 DEF NextOpens
    <3>2. srv' \in ServerType /\ srv'.wire = srv.wire /\ srv'.state = srv.state
      BY <1>1, <3>1 DEF ServerType
    <3>3. /\ s' \in SessionType /\ s'.lost = s.lost /\ s'.lookups = s.lookups /\ s'.stop = s.stop
          /\ s'.found = s.found /\ s'.conn = TRUE
      BY <1>1, <3>1 DEF SessionType
    <3>4. srv'.dialer = "next" \/ s'.found > 0 => s'.conn
      BY <3>3
    <3> QED
      BY <1>1, <1>2, <1>3, <1>4, <2>1, <3>2, <3>3, <3>4, DialFrame
  <2> QED
    BY <2>2, <2>3
<1>7. CASE NextFinds
  <2>1. /\ srv.dialer = "next" /\ UNCHANGED srv /\ s' = [s EXCEPT !.found = s.found + 1]
    BY <1>1, <1>7 DEF NextFinds, SessionType
  <2>2. /\ s' \in SessionType /\ s'.lost = s.lost /\ s'.lookups = s.lookups /\ s'.stop = s.stop
        /\ s'.found = s.found + 1 /\ s'.conn = s.conn
    BY <1>1, <2>1 DEF SessionType
  <2>3. /\ hist' \in HistType /\ hist'.sent = hist.sent /\ hist'.finds = hist.finds + 1
        /\ hist'.begun = hist.begun
    <3> DEFINE M == {<<>>} \cup {<<LoadTrace(f)>> : f \in Seq(FileType)}
               h == Spend(hist)
    <3>1. h \in HistType /\ h.finds = hist.finds /\ h.begun = hist.begun /\ h.sent = hist.sent
      BY SpendFacts DEF LegacyInv
    <3>2. h \in [sent : Nat, finds : Nat, begun : Nat, spent : Nat, files : Seq(FileType),
                 own : OwnType, merged : M]
      BY <3>1 DEF HistType
    <3>3. hist' = [h EXCEPT !.finds = @ + 1]
      BY <1>7 DEF NextFinds
    <3> HIDE DEF M, h
    <3>4. /\ hist' \in [sent : Nat, finds : Nat, begun : Nat, spent : Nat, files : Seq(FileType),
                        own : OwnType, merged : M]
          /\ hist'.sent = hist.sent /\ hist'.finds = hist.finds + 1 /\ hist'.begun = hist.begun
      BY <3>1, <3>2, <3>3
    <3> QED
      BY <3>4 DEF HistType, M
  <2>4. n.finds + s'.found = hist'.finds
    <3>1. hist.finds \in Nat /\ n.finds + (s.found + 1) = hist.finds + 1
      BY <1>1, <1>4 DEF HistType
    <3> QED
      BY <2>2, <2>3, <3>1
  <2>5. srv'.dialer = "next" \/ s'.found > 0 => s'.conn
    BY <1>4, <2>1, <2>2
  <2> QED
    BY <1>1, <1>2, <1>3, <2>1, <2>2, <2>3, <2>4, <2>5, DialFrame
<1> QED
  BY <1>5, <1>6, <1>7

-----------------------------------------------------------------------------
(* The theorems *)

LEMMA LegacyNext == LegacyInv /\ [Next]_vars => LegacyInv'
<1> SUFFICES ASSUME LegacyInv, [Next]_vars PROVE LegacyInv'
  OBVIOUS
<1>1. CASE UNCHANGED vars
  <2>1. UNCHANGED <<model, proc, ctl, n, s, srv, go, hist>>
    BY <1>1 DEF vars
  <2> QED
    BY <2>1, QuietStep DEF LegacyInv, TypeOK
<1>2. CASE OperationStep
  BY <1>2, RefusedStep, StartServerStep, PublishStep, DownStep, FoldStep, FinishStep,
     WriteTraceStep DEF OperationStep
<1>3. CASE Next /\ ~ OperationStep
  BY <1>3, MainStep, SearchStepInv, WalkFindsStep, WatcherEndsStep, SamplerReadsStep,
     AddSampleStep, SeesCapableStep, HandleEventStep, TrafficStep, PeerStep, DialStep DEF Next
<1> QED
  BY <1>1, <1>2, <1>3

LEMMA LegacyInvariant == Spec => []LegacyInv
BY LegacyInit, LegacyNext, PTL DEF Spec

\* main, the operations, the session and its goroutines, the server and the traces
\* keep their types, for any number of requests and happenings.
THEOREM LegacyTypes == Spec => []TypeOK
<1>1. LegacyInv => TypeOK
  BY DEF LegacyInv
<1> QED
  BY <1>1, LegacyInvariant, PTL

\* fold, sampler, watchPeers and writeTrace of the legacy node: over any number of
\* sessions the counters, samples, finds and refills add up, and the trace written
\* at the end has every session there ever is.
THEOREM LegacyCountsAddUp == Spec => [](CountsKept /\ TraceHasAllSessions)
<1>1. LegacyInv => CountsKept /\ TraceHasAllSessions
  <2> SUFFICES ASSUME LegacyInv PROVE CountsKept /\ TraceHasAllSessions
    OBVIOUS
  <2>1. TraceHasAllSessions
    BY DEF LegacyInv, TraceInv, TraceHasAllSessions
  <2>2. n.samples \in Seq(Nat) /\ n.refills \in Nat /\ n.drops \in Nat /\ s.lost \in Nat
    BY DEF LegacyInv, TypeOK, NodeType, SessionType
  <2>3. \A i \in DOMAIN n.samples :
          n.samples[i] <= IF i < Len(n.samples) THEN n.samples[i + 1] ELSE hist.sent
    <3>1. DOMAIN n.samples = 1..Len(n.samples)
      BY <2>2
    <3>2. SamplesInv
      BY DEF LegacyInv
    <3> QED
      BY <3>1, <3>2 DEF SamplesInv
  <2>4. n.refills <= n.drops
    BY <2>2 DEF LegacyInv, LedgerInv
  <2> QED
    BY <2>1, <2>3, <2>4 DEF CountsKept, LegacyInv, LedgerInv
<1> QED
  BY <1>1, LegacyInvariant, PTL

\* search of the legacy node: a scheduled walk that a departure cut short is never
\* among the recorded lookups, wherever in the walk stop is closed.
THEOREM CutWalksDropped == Spec => []CutLookupsUnrecorded
<1>1. LegacyInv => CutLookupsUnrecorded
  <2> SUFFICES ASSUME LegacyInv, model = "scheduled"
               PROVE  \A i \in DOMAIN (n.lookups \o s.lookups) : ~ (n.lookups \o s.lookups)[i].cut
    BY DEF CutLookupsUnrecorded
  <2>1. n.lookups \in Seq(Walk) /\ s.lookups \in Seq(Walk)
    BY DEF LegacyInv, TypeOK, NodeType, SessionType
  <2>2. /\ \A i \in 1..Len(n.lookups) : ~ n.lookups[i].cut
        /\ \A i \in 1..Len(s.lookups) : ~ s.lookups[i].cut
    BY DEF LegacyInv, CutInv
  <2>3. DOMAIN (n.lookups \o s.lookups) = 1..Len(n.lookups \o s.lookups)
    BY <2>1
  <2> QED
    BY <2>1, <2>2, <2>3, NoneCut
<1> QED
  BY <1>1, LegacyInvariant, PTL

-----------------------------------------------------------------------------
(* Operations go on *)

\* What down has done by the time it waits: stop is closed, the iterator is closed and
\* the events have no subscriber.  A search that is open is closed with its session's
\* iterator, and only the models that walk have walks.
GoingInv ==
  /\ ctl.pc = "idle" => ctl = Free
  /\ ctl.pc \in Leaving => s.stop
  /\ ctl.pc \in Leaving \ {"iter"} => s.closed
  /\ ctl.pc \in Leaving \ {"iter", "unsubscribe"} => ~ s.sub
  /\ srv.dialer = "next" => srv.it = IF s.closed THEN "closed" ELSE "open"
  /\ go.search \in {"sleep", "walked", "record"} => model = "scheduled"
  /\ go.search = "walk" => model \in {"scheduled", "continuous"}

\* Steps of the goroutines and of the server, that leave the dialer, the search and
\* what down did alone.
LEMMA GoingFrame ==
  ASSUME GoingInv, UNCHANGED <<model, ctl>>, s'.stop = s.stop, s'.closed = s.closed, s'.sub = s.sub,
         srv'.dialer = srv.dialer, srv'.it = srv.it, go'.search = go.search
  PROVE  GoingInv'
BY DEF GoingInv

LEMMA GoingOperation ==
  ASSUME LegacyInv, GoingInv, OperationStep
  PROVE  GoingInv'
<1>1. /\ s \in SessionType /\ srv \in ServerType /\ ctl \in CtlType
      /\ srv.dialer \in {"wait", "enter", "next", "ended"}
  BY DEF LegacyInv, TypeOK, ServerType
<1>2. CASE UpRefused \/ StartFails \/ DownRefused \/ FinishAgain
  <2>1. ctl' = Free /\ UNCHANGED <<model, s, srv, go>>
    BY <1>2 DEF UpRefused, StartFails, DownRefused, FinishAgain, Return
  <2> QED
    BY <2>1 DEF GoingInv, Free, Leaving
<1>3. CASE StartServer
  <2>1. ctl'.pc = "publish" /\ srv'.dialer # "next" /\ UNCHANGED <<model, s, go>>
    BY <1>1, <1>3 DEF StartServer, Goes, CtlType, NoServer
  <2> QED
    BY <2>1 DEF GoingInv, Leaving
<1>4. CASE Publish
  <2>1. /\ ctl' = Free /\ UNCHANGED <<model, srv>> /\ go'.search = "wait"
        /\ s'.stop = s.stop /\ s'.closed = s.closed
    BY <1>1, <1>4 DEF Publish, Return, AllEnded, SessionType
  <2> QED
    BY <2>1 DEF GoingInv, Free, Leaving
<1>5. CASE Cancel
  <2>1. /\ ctl'.pc = "iter" /\ UNCHANGED <<model, srv, go>> /\ s'.stop = TRUE
        /\ s'.closed = s.closed
    BY <1>1, <1>5 DEF Cancel, Goes, CtlType, SessionType
  <2> QED
    BY <2>1 DEF GoingInv, Leaving
<1>6. CASE CloseIter
  <2>1. /\ ctl.pc = "iter" /\ ctl'.pc = "unsubscribe" /\ UNCHANGED <<model, go>>
        /\ s'.stop = s.stop /\ s'.closed = TRUE /\ srv'.dialer = srv.dialer
        /\ srv.it \in {"open", "closed"} => srv'.it = "closed"
    BY <1>1, <1>6 DEF CloseIter, Goes, CtlType, SessionType, ServerType
  <2> QED
    BY <2>1 DEF GoingInv, Leaving
<1>7. CASE Unsubscribe
  <2>1. /\ ctl.pc = "unsubscribe" /\ ctl'.pc = "stop" /\ UNCHANGED <<model, srv, go>>
        /\ s'.stop = s.stop /\ s'.closed = s.closed /\ s'.sub = FALSE
    BY <1>1, <1>7 DEF Unsubscribe, Goes, CtlType, SessionType
  <2> QED
    BY <2>1 DEF GoingInv, Leaving
<1>8. CASE StopServer \/ WaitGoroutines \/ SnapshotCounters
  <2>1. /\ ctl.pc \in {"stop", "wait", "counters"} /\ ctl'.pc \in {"wait", "counters", "fold"}
        /\ UNCHANGED <<model, go>> /\ srv'.dialer = srv.dialer /\ srv'.it = srv.it
        /\ s'.stop = s.stop /\ s'.closed = s.closed /\ s'.sub = s.sub
    BY <1>1, <1>8 DEF StopServer, WaitGoroutines, SnapshotCounters, Goes, CtlType, SessionType,
       ServerType
  <2> QED
    BY <2>1 DEF GoingInv, Leaving
<1>9. CASE Fold
  <2>1. ctl' = Free /\ srv'.dialer = "ended" /\ UNCHANGED <<model, go>>
    BY <1>9 DEF Fold, Return, NoServer
  <2> QED
    BY <2>1 DEF GoingInv, Free, Leaving
<1>10. CASE Finish \/ WriteTrace
  <2>1. /\ ctl'.pc \in {"trace", "down"} /\ UNCHANGED <<model, srv, go>>
        /\ s'.closed = s.closed
    BY <1>1, <1>10 DEF Finish, WriteTrace, Goes, CtlType, SessionType
  <2> QED
    BY <2>1 DEF GoingInv, Leaving
<1> QED
  BY <1>2, <1>3, <1>4, <1>5, <1>6, <1>7, <1>8, <1>9, <1>10 DEF OperationStep

LEMMA GoingSearch ==
  ASSUME LegacyInv, GoingInv, SearchStep \/ WalkFinds
  PROVE  GoingInv'
<1>1. /\ s \in SessionType /\ go \in GoType /\ model \in {"conn", "scheduled", "continuous"}
  BY LegacySessionAssumption DEF LegacyInv, TypeOK
<1>2. /\ UNCHANGED <<model, ctl, srv>>
      /\ s'.stop = s.stop /\ s'.closed = s.closed /\ s'.sub = s.sub
  BY <1>1 DEF SearchStep, SearchCancelled, SearchBegins, LookupDue, RandomWalkReturns,
     WalkIteratorReturns, CheckCut, RecordLookup, WalkFinds, SessionType
<1>3. /\ go'.search \in {"sleep", "walked", "record"} => model = "scheduled"
      /\ go'.search = "walk" => model \in {"scheduled", "continuous"}
  <2>1. CASE SearchCancelled \/ WalkIteratorReturns
    BY <1>1, <2>1 DEF SearchCancelled, WalkIteratorReturns, GoType
  <2>2. CASE SearchBegins
    BY <1>1, <2>2 DEF SearchBegins, GoType
  <2>3. CASE LookupDue
    BY <1>1, <2>3 DEF LookupDue, GoType, GoingInv
  <2>4. CASE RandomWalkReturns
    BY <1>1, <2>4 DEF RandomWalkReturns, GoType
  <2>5. CASE CheckCut \/ RecordLookup
    BY <1>1, <2>5 DEF CheckCut, RecordLookup, GoType, GoingInv
  <2>6. CASE WalkFinds
    <3>1. go'.search = go.search
      BY <1>1, <2>6 DEF WalkFinds, GoType
    <3> QED
      BY <1>2, <3>1 DEF GoingInv
  <2> QED
    BY <2>1, <2>2, <2>3, <2>4, <2>5, <2>6 DEF SearchStep
<1> QED
  BY <1>2, <1>3 DEF GoingInv

LEMMA GoingOthers ==
  ASSUME LegacyInv, GoingInv,
         \/ \E g \in Watchers : WatcherEnds(g)
         \/ SamplerReads \/ AddSample \/ SeesCapable \/ HandleEvent
         \/ Traffic \/ (\E kind \in {"add", "drop"} : PeerEvent(kind)) \/ Deliver
  PROVE  GoingInv'
<1>1. s \in SessionType /\ srv \in ServerType /\ go \in GoType
  BY DEF LegacyInv, TypeOK
<1>2. UNCHANGED <<model, ctl>>
  BY DEF WatcherEnds, SamplerReads, AddSample, SeesCapable, HandleEvent, Traffic, PeerEvent, Deliver
<1>3. s'.stop = s.stop /\ s'.closed = s.closed /\ s'.sub = s.sub
  BY <1>1 DEF SessionType, WatcherEnds, SamplerReads, AddSample, SeesCapable, HandleEvent, Traffic,
     PeerEvent, Deliver
<1>4. srv'.dialer = srv.dialer /\ srv'.it = srv.it
  BY <1>1 DEF ServerType, WatcherEnds, SamplerReads, AddSample, SeesCapable, HandleEvent, Traffic,
     PeerEvent, Deliver
<1>5. go'.search = go.search
  BY <1>1 DEF GoType, Watchers, WatcherEnds, SamplerReads, AddSample, SeesCapable, HandleEvent,
     Traffic, PeerEvent, Deliver
<1> QED
  BY <1>2, <1>3, <1>4, <1>5, GoingFrame

LEMMA GoingDial ==
  ASSUME LegacyInv, GoingInv, NextWaits \/ NextOpens \/ NextFinds \/ NextEnds
  PROVE  GoingInv'
<1>1. s \in SessionType /\ srv \in ServerType
  BY DEF LegacyInv, TypeOK
<1>2. /\ UNCHANGED <<model, ctl, go>>
      /\ s'.stop = s.stop /\ s'.closed = s.closed /\ s'.sub = s.sub
  BY <1>1 DEF NextWaits, NextOpens, NextFinds, NextEnds, SessionType
<1>3. srv'.dialer = "next" => srv'.it = IF s.closed THEN "closed" ELSE "open"
  <2>1. CASE NextWaits \/ NextEnds
    BY <1>1, <2>1 DEF NextWaits, NextEnds, ServerType
  <2>2. CASE NextOpens
    BY <1>1, <2>2 DEF NextOpens, ServerType
  <2>3. CASE NextFinds
    BY <1>1, <2>3 DEF NextFinds, GoingInv
  <2> QED
    BY <2>1, <2>2, <2>3
<1> QED
  BY <1>2, <1>3 DEF GoingInv

LEMMA GoingInvariant == Spec => []GoingInv
<1>1. Init => GoingInv
  BY DEF Init, GoingInv, Free, Leaving, NoServer, AllEnded
<1>2. ASSUME LegacyInv, GoingInv, [Next]_vars PROVE GoingInv'
  <2>1. CASE UNCHANGED vars
    BY <1>2, <2>1 DEF vars, GoingInv
  <2>2. CASE MainStarts \/ (\E op \in {"up", "down"} : Request(op)) \/ StopAt \/ Signal \/ Exit
    <3>1. UNCHANGED <<model, s, srv, go>>
      BY <2>2 DEF MainStarts, Request, StopAt, Signal, Exit
    <3>2. ctl' = ctl \/ ctl'.pc \in {"check", "down", "finish"}
      BY <2>2 DEF MainStarts, Request, StopAt, Signal, Exit, Acquire
    <3> QED
      BY <1>2, <3>1, <3>2 DEF GoingInv, Leaving
  <2> QED
    BY <1>2, <2>1, <2>2, GoingOperation, GoingSearch, GoingOthers, GoingDial DEF Next
<1> QED
  BY <1>1, <1>2, LegacyInvariant, PTL DEF Spec

\* down cannot be caught between the dialer, the walk and the feed: whatever they are
\* doing when it closes stop and the iterator, the server it stops and the goroutines it
\* waits for can end, in every model, with any room in the event channel.
THEOREM OperationsGoOn == Spec => []OperationNeverStuck
<1>1. ASSUME LegacyInv, GoingInv, Alive, ctl # Free
      PROVE  \/ ctl.pc \in {"check", "publish", "down", "iter", "unsubscribe", "counters", "fold",
                            "finish", "trace"}
             \/ ctl.pc = "stop" /\ (ServerQuiet \/ MayDial \/ MayDeliver)
             \/ ctl.pc = "wait" /\ (GoroutinesEnded \/ MaySearch \/ MayWatch)
  <2>1. ctl \in CtlType /\ srv \in ServerType /\ go \in GoType
    BY <1>1 DEF LegacyInv, TypeOK
  <2>2. ctl.pc # "idle"
    BY <1>1 DEF GoingInv
  <2>3. ASSUME ctl.pc = "stop" PROVE ServerQuiet \/ MayDial \/ MayDeliver
    <3>1. s.closed /\ ~ s.sub
      BY <1>1, <2>3 DEF GoingInv, Leaving
    <3>2. CASE srv.dialer = "ended"
      BY <3>1, <3>2 DEF ServerQuiet, MayDeliver
    <3>3. CASE srv.dialer # "ended"
      <4>1. srv.dialer \in {"wait", "enter", "next"}
        BY <2>1, <3>3 DEF ServerType
      <4>2. srv.dialer = "next" => srv.it = "closed"
        BY <1>1, <3>1 DEF GoingInv
      <4> QED
        BY <3>1, <4>1, <4>2 DEF MayDial
    <3> QED
      BY <3>2, <3>3
  <2>4. ASSUME ctl.pc = "wait" PROVE GoroutinesEnded \/ MaySearch \/ MayWatch
    <3>1. s.stop
      BY <1>1, <2>4 DEF GoingInv, Leaving
    <3>2. CASE go.search # "ended"
      <4>1. go.search \in {"wait", "sleep", "walk", "walked", "record"}
        BY <2>1, <3>2 DEF GoType
      <4>2. go.search = "walk" => model \in {"scheduled", "continuous"}
        BY <1>1 DEF GoingInv
      <4> QED
        BY <3>1, <4>1, <4>2 DEF MaySearch, MayCancel
    <3>3. CASE go.peers # "ended" \/ go.capable # "ended" \/ go.sampler # "ended"
      <4>1. \/ go.peers = "recv" \/ go.capable = "tick" \/ go.sampler \in {"tick", "add"}
        BY <2>1, <3>3 DEF GoType
      <4>2. go.sampler = "add" \/ \E g \in Watchers : go[g] \in {"tick", "recv"}
        BY <4>1 DEF Watchers
      <4> QED
        BY <3>1, <4>2 DEF MayWatch, MayEnd
    <3>4. CASE /\ go.search = "ended" /\ go.peers = "ended" /\ go.capable = "ended"
               /\ go.sampler = "ended"
      BY <3>4 DEF GoroutinesEnded
    <3> QED
      BY <3>2, <3>3, <3>4
  <2>5. ctl.pc \in {"idle", "check", "publish", "down", "finish", "trace"} \cup Leaving
    BY <2>1 DEF CtlType
  <2> QED
    BY <2>2, <2>3, <2>4, <2>5 DEF Leaving
<1>2. LegacyInv /\ GoingInv => OperationNeverStuck
  BY <1>1 DEF OperationNeverStuck
<1> QED
  BY <1>2, LegacyInvariant, GoingInvariant, PTL

-----------------------------------------------------------------------------
(* One trace for all sessions *)

\* What a process of its own leaves: one session, with an age if it saw one, and the
\* finds of its dialer if that searched.
OneSession(f) ==
  /\ f.sessions = 1 /\ f.capable >= -1
  /\ f.conn # <<>> => Len(f.conn) = 1

\* Samples of a session, carried on from the counters of those before it.
CarriedOn(samples, before) == [i \in DOMAIN samples |-> samples[i] + before]

\* A node r holds what the merge m of the files so far has, and what the session that
\* is up adds as it goes.
AsMerged(r, own, m) ==
  /\ r.sessions = m.sessions /\ r.lookups = m.lookups /\ r.wire = m.wire
  /\ r.samples = m.samples \o CarriedOn(own.samples, r.wire)
  /\ r.drops = m.drops + own.drops /\ r.refills = m.refills + own.refills
  /\ r.capable = m.capable
  /\ m.conn = (IF r.conn THEN <<r.finds>> ELSE <<>>) /\ (~ r.conn => r.finds = 0)

\* The files of a node's sessions.
Files(fs) == fs \in Seq(FileType) /\ \A k \in DOMAIN fs : OneSession(fs[k])

\* Until the trace is written the node holds the merge of the files its sessions would
\* have left; from then on the two traces stay as they are.
MergeInv ==
  /\ s.capable >= -1
  /\ ~ n.cur => hist.own = OwnNothing
  /\ n.trace # <<>> => n.trace = hist.merged
  /\ n.trace = <<>> => /\ n.done => ctl.pc = "trace"
                       /\ Files(hist.files)
                       /\ AsMerged(n, hist.own, MergeTraces(hist.files))

\* What joins a sequence of sequences: a function that flattens up to each place.
Flattening(ss, f) == f = [i \in 1..Len(ss) |-> IF i = 1 THEN ss[i] ELSE f[i - 1] \o ss[i]]

LEMMA FlatteningExists ==
  ASSUME NEW T, NEW ss \in Seq(Seq(T))
  PROVE  \E f : Flattening(ss, f)
<1> DEFINE Bad == {k \in Nat : \E q \in Seq(Seq(T)) : Len(q) = k /\ ~ \E f : Flattening(q, f)}
<1> SUFFICES ASSUME Bad # {} PROVE FALSE
  <2>1. Len(ss) \in Nat
    OBVIOUS
  <2> QED
    BY <2>1
<1>1. PICK m \in Bad : \A k \in Bad : m <= k
  <2>1. Bad \in SUBSET Nat
    OBVIOUS
  <2> HIDE DEF Bad
  <2> QED
    BY <2>1, LeastNumber
<1>2. m \in Nat
  OBVIOUS
<1>3. PICK q \in Seq(Seq(T)) : Len(q) = m /\ ~ \E f : Flattening(q, f)
  BY <1>1
<1>4. CASE m = 0
  <2>1. Flattening(q, [i \in 1..Len(q) |-> q[i]])
    BY <1>3, <1>4 DEF Flattening
  <2> QED
    BY <1>3, <2>1
<1>5. CASE m # 0
  <2>1. m - 1 \in Nat /\ m - 1 \notin Bad
    BY <1>1, <1>2, <1>5
  <2> DEFINE p == SubSeq(q, 1, m - 1)
  <2>2. p \in Seq(Seq(T)) /\ Len(p) = m - 1 /\ \A i \in 1..m - 1 : p[i] = q[i]
    BY <1>2, <1>3, <1>5
  <2> HIDE DEF p
  <2>3. PICK g : Flattening(p, g)
    BY <2>1, <2>2
  <2> DEFINE f == [i \in 1..m |-> IF i < m THEN g[i] ELSE IF m = 1 THEN q[m] ELSE g[m - 1] \o q[m]]
  <2>4. ASSUME NEW i \in 1..m
        PROVE  f[i] = IF i = 1 THEN q[i] ELSE f[i - 1] \o q[i]
    <3>1. CASE i = m
      BY <1>2, <1>5, <3>1
    <3>2. CASE i # m
      <4>1. i \in 1..m - 1 /\ i < m
        BY <1>2, <3>2
      <4>2. g[i] = IF i = 1 THEN p[i] ELSE g[i - 1] \o p[i]
        BY <2>2, <2>3, <4>1 DEF Flattening
      <4>3. f[i] = g[i] /\ (i # 1 => f[i - 1] = g[i - 1])
        BY <1>2, <4>1
      <4> HIDE DEF f
      <4> QED
        BY <2>2, <4>1, <4>2, <4>3
    <3> QED
      BY <3>1, <3>2
  <2>5. f = [i \in 1..m |-> f[i]]
    OBVIOUS
  <2> HIDE DEF f
  <2>6. Flattening(q, f)
    BY <1>3, <2>4, <2>5 DEF Flattening
  <2> QED
    BY <1>3, <2>6
<1> QED
  BY <1>4, <1>5

\* A longer sequence is flattened like a shorter one, as far as that goes.
LEMMA FlatteningAgrees ==
  ASSUME NEW T, NEW p \in Seq(Seq(T)), NEW q \in Seq(Seq(T)), Len(p) <= Len(q),
         \A i \in 1..Len(p) : p[i] = q[i],
         NEW f, NEW g, Flattening(p, f), Flattening(q, g)
  PROVE  \A i \in 1..Len(p) : f[i] = g[i] /\ f[i] \in Seq(T)
<1> DEFINE Bad == {i \in 1..Len(p) : ~ (f[i] = g[i] /\ f[i] \in Seq(T))}
<1> SUFFICES ASSUME Bad # {} PROVE FALSE
  OBVIOUS
<1>0. Len(p) \in Nat /\ Len(q) \in Nat
  OBVIOUS
<1>1. Bad \in SUBSET Nat
  BY <1>0
<1>2. PICK m \in Bad : \A k \in Bad : m <= k
  <2> HIDE DEF Bad
  <2> QED
    BY <1>1, LeastNumber
<1>3. m \in 1..Len(p) /\ m \in 1..Len(q) /\ m \in Nat
  BY <1>0
<1>4. /\ f[m] = IF m = 1 THEN p[m] ELSE f[m - 1] \o p[m]
      /\ g[m] = IF m = 1 THEN q[m] ELSE g[m - 1] \o q[m]
  BY <1>3 DEF Flattening
<1>5. p[m] = q[m] /\ p[m] \in Seq(T)
  BY <1>3
<1>6. CASE m = 1
  BY <1>4, <1>5, <1>6
<1>7. CASE m # 1
  <2>1. m - 1 \in 1..Len(p) /\ m - 1 \notin Bad
    BY <1>0, <1>2, <1>3, <1>7
  <2>2. f[m - 1] = g[m - 1] /\ f[m - 1] \in Seq(T)
    BY <2>1
  <2>3. f[m] = f[m - 1] \o p[m] /\ g[m] = g[m - 1] \o q[m]
    BY <1>4, <1>7
  <2>4. f[m - 1] \o p[m] \in Seq(T)
    BY <1>5, <2>2
  <2>5. f[m] = g[m] /\ f[m] \in Seq(T)
    BY <1>5, <2>2, <2>3, <2>4
  <2> QED
    BY <2>5
<1> QED
  BY <1>6, <1>7

LEMMA FlattenComputed ==
  ASSUME NEW T, NEW ss \in Seq(Seq(T)), ss # <<>>
  PROVE  \E f : Flattening(ss, f) /\ FlattenSeq(ss) = f[Len(ss)]
<1>1. Len(ss) # 0
  OBVIOUS
<1> DEFINE c == CHOOSE f : Flattening(ss, f)
<1>2. Flattening(ss, c)
  BY FlatteningExists
<1>3. FlattenSeq(ss) = c[Len(ss)]
  BY <1>1 DEF FlattenSeq, Flattening
<1> QED
  BY <1>2, <1>3

\* Flattening takes one sequence after the other.
LEMMA FlattenAppend ==
  ASSUME NEW T, NEW ss \in Seq(Seq(T)), NEW x \in Seq(T)
  PROVE  /\ FlattenSeq(ss) \in Seq(T)
         /\ FlattenSeq(Append(ss, x)) = FlattenSeq(ss) \o x
<1> DEFINE l == Len(ss)
           tt == Append(ss, x)
<1>1. /\ l \in Nat /\ tt \in Seq(Seq(T)) /\ Len(tt) = l + 1 /\ tt # <<>> /\ tt[l + 1] = x
      /\ \A i \in 1..l : tt[i] = ss[i]
  <2> DEFINE Q == Seq(T)
  <2> HIDE DEF Q
  <2>1. ss \in Seq(Q) /\ x \in Q
    BY DEF Q
  <2>2. /\ l \in Nat /\ tt \in Seq(Q) /\ Len(tt) = l + 1 /\ tt[l + 1] = x
        /\ \A i \in 1..l : tt[i] = ss[i]
    BY <2>1
  <2>3. tt # <<>>
    BY <2>2
  <2> QED
    BY <2>2, <2>3 DEF Q
<1> HIDE DEF tt
<1>2. PICK g : Flattening(tt, g) /\ FlattenSeq(tt) = g[l + 1]
  BY <1>1, FlattenComputed
<1>3. l + 1 \in 1..Len(tt)
  BY <1>1
<1>4. g[l + 1] = IF l = 0 THEN x ELSE g[l] \o x
  <2>1. PICK k \in 1..Len(tt) : k = l + 1
    BY <1>3
  <2>2. g[k] = IF k = 1 THEN tt[k] ELSE g[k - 1] \o tt[k]
    BY <1>2 DEF Flattening
  <2>3. k - 1 = l /\ (k = 1 <=> l = 0) /\ tt[k] = x
    BY <1>1, <2>1
  <2> QED
    BY <2>1, <2>2, <2>3
<1>5. CASE ss = <<>>
  <2>1. FlattenSeq(ss) = <<>>
    BY <1>5 DEF FlattenSeq
  <2>2. FlattenSeq(tt) = x
    BY <1>1, <1>2, <1>4, <1>5
  <2> QED
    BY <2>1, <2>2 DEF tt
<1>6. CASE ss # <<>>
  <2>1. PICK f : Flattening(ss, f) /\ FlattenSeq(ss) = f[l]
    BY <1>6, FlattenComputed
  <2>2. l \in 1..l /\ l # 0
    BY <1>1, <1>6
  <2>3. f[l] = g[l] /\ f[l] \in Seq(T)
    <3>1. l <= Len(tt) /\ \A i \in 1..l : ss[i] = tt[i]
      BY <1>1
    <3>2. \A i \in 1..l : f[i] = g[i] /\ f[i] \in Seq(T)
      BY <1>1, <1>2, <2>1, <3>1, FlatteningAgrees
    <3> QED
      BY <2>2, <3>2
  <2>4. FlattenSeq(tt) = g[l] \o x
    BY <1>1, <1>2, <1>4, <2>2
  <2> QED
    BY <2>1, <2>3, <2>4 DEF tt
<1> QED
  BY <1>5, <1>6

\* Where p goes on after q with v.
Longer(q, p, v) ==
  /\ p = [k \in 1..Len(q) + 1 |-> p[k]] /\ (\A k \in 1..Len(q) : p[k] = q[k])
  /\ p[Len(q) + 1] = v

LEMMA JoinsAt ==
  ASSUME NEW T, NEW q \in Seq(T), NEW v \in T, NEW p, Longer(q, p, v)
  PROVE  p = Append(q, v)
<1>0. /\ p = [k \in 1..Len(q) + 1 |-> p[k]] /\ (\A k \in 1..Len(q) : p[k] = q[k])
      /\ p[Len(q) + 1] = v
  BY DEF Longer
<1>1. Len(q) \in Nat /\ DOMAIN Append(q, v) = 1..Len(q) + 1 /\ Append(q, v) \in Seq(T)
  OBVIOUS
<1>2. ASSUME NEW k \in 1..Len(q) + 1 PROVE Append(q, v)[k] = p[k]
  <2>1. k \in 1..Len(q) \/ k = Len(q) + 1
    BY <1>1
  <2> QED
    BY <1>0, <2>1
<1>3. Append(q, v) = [k \in 1..Len(q) + 1 |-> Append(q, v)[k]]
  <2>1. PICK a \in Seq(T) : a = Append(q, v)
    BY <1>1
  <2>2. DOMAIN a = 1..Len(q) + 1
    BY <1>1, <2>1
  <2>3. a = [k \in DOMAIN a |-> a[k]]
    <3>1. a \in [1..Len(a) -> T]
      OBVIOUS
    <3> QED
      BY <3>1
  <2> QED
    BY <2>1, <2>2, <2>3
<1> QED
  BY <1>0, <1>2, <1>3

\* A sum takes one number after the other.
LEMMA SumAppend ==
  ASSUME NEW q \in Seq(Nat), NEW v \in Nat
  PROVE  SumFunction(q) \in Nat /\ SumFunction(Append(q, v)) = SumFunction(q) + v
<1> DEFINE l == Len(q)
           p == Append(q, v)
<1>1. /\ l \in Nat /\ DOMAIN q = 1..l /\ DOMAIN p = 1..l + 1 /\ p[l + 1] = v
      /\ \A k \in 1..l : p[k] = q[k] /\ q[k] \in Nat
  OBVIOUS
<1>2. l \in Int /\ l + 1 \in Int /\ 1 \in Int
  BY <1>1
<1>3. IsFiniteSet(1..l) /\ IsFiniteSet(1..l + 1)
  BY <1>2, FS_Interval
<1>4. (1..l + 1) \ {l + 1} = 1..l /\ l + 1 \in 1..l + 1
  BY <1>1
<1>5. \A k \in 1..l + 1 : p[k] \in Int
  <2>1. \A k \in 1..l + 1 : k \in 1..l \/ k = l + 1
    BY <1>1
  <2> QED
    BY <1>1, <2>1
<1> HIDE DEF l, p
<1>6. SumFunctionOnSet(p, 1..l + 1) = p[l + 1] + SumFunctionOnSet(p, (1..l + 1) \ {l + 1})
  <2> DEFINE S == 1..l + 1
             a == l + 1
  <2>1. IsFiniteSet(S) /\ a \in S /\ \A k \in S : p[k] \in Int
    BY <1>3, <1>4, <1>5
  <2> HIDE DEF S, a
  <2>2. SumFunctionOnSet(p, S) = p[a] + SumFunctionOnSet(p, S \ {a})
    BY <2>1, SumTake
  <2> QED
    BY <2>2 DEF S, a
<1>7. SumFunctionOnSet(p, 1..l) = SumFunctionOnSet(q, 1..l)
  BY <1>1, <1>3, SumEqual
<1>8. SumFunctionOnSet(q, 1..l) \in Nat
  BY <1>1, <1>3, SumNat
<1>9. SumFunction(q) = SumFunctionOnSet(q, 1..l) /\ SumFunction(p) = SumFunctionOnSet(p, 1..l + 1)
  BY <1>1 DEF SumFunction
<1>10. SumFunction(p) = v + SumFunction(q)
  BY <1>1, <1>4, <1>6, <1>7, <1>9
<1>11. SumFunction(q) \in Nat /\ SumFunction(p) = SumFunction(q) + v
  BY <1>8, <1>9, <1>10
<1> QED
  BY <1>11 DEF p

LEMMA FileFacts ==
  ASSUME NEW f \in FileType
  PROVE  /\ f.sessions \in Nat /\ f.lookups \in Seq(Walk) /\ f.samples \in Seq(Nat) /\ f.wire \in Nat
         /\ f.drops \in Nat /\ f.refills \in Nat /\ f.capable \in Int /\ f.conn \in Seq(Nat)
BY DEF FileType

\* One more file.
OneMore(fs, f, ff) ==
  /\ Len(fs) \in Nat /\ DOMAIN fs = 1..Len(fs) /\ DOMAIN ff = 1..Len(fs) + 1
  /\ ff[Len(fs) + 1] = f /\ \A k \in 1..Len(fs) : ff[k] = fs[k] /\ fs[k] \in FileType

LEMMA OneMoreFile ==
  ASSUME NEW fs, Files(fs), NEW f \in FileType, OneSession(f)
  PROVE  Files(Append(fs, f)) /\ OneMore(fs, f, Append(fs, f))
<1> DEFINE T == FileType
<1> HIDE DEF T
<1>1. fs \in Seq(T) /\ f \in T
  BY DEF Files, T
<1>2. /\ Len(fs) \in Nat /\ DOMAIN fs = 1..Len(fs) /\ DOMAIN Append(fs, f) = 1..Len(fs) + 1
      /\ Append(fs, f)[Len(fs) + 1] = f /\ Append(fs, f) \in Seq(T)
      /\ \A k \in 1..Len(fs) : Append(fs, f)[k] = fs[k] /\ fs[k] \in T
  BY <1>1
<1>3. ASSUME NEW k \in 1..Len(fs) + 1 PROVE OneSession(Append(fs, f)[k])
  <2>1. k \in 1..Len(fs) \/ k = Len(fs) + 1
    BY <1>2
  <2> QED
    BY <1>2, <2>1 DEF Files
<1> QED
  BY <1>2, <1>3 DEF Files, OneMore, T

\* The numbers of the files, and of one file more.
Joins(l, q, p, v) ==
  /\ q = [k \in 1..l |-> q[k]] /\ (\A k \in 1..l : q[k] \in Nat)
  /\ p = [k \in 1..l + 1 |-> p[k]] /\ (\A k \in 1..l : p[k] = q[k])
  /\ p[l + 1] = v /\ v \in Nat

LEMMA SumJoins ==
  ASSUME NEW l \in Nat, NEW q, NEW p, NEW v, Joins(l, q, p, v)
  PROVE  SumFunction(q) \in Nat /\ SumFunction(p) = SumFunction(q) + v
<1>1. q \in Seq(Nat) /\ Len(q) = l
  <2>1. q \in [1..l -> Nat]
    BY DEF Joins
  <2> QED
    BY <2>1
<1>2. Longer(q, p, v) /\ v \in Nat
  BY <1>1 DEF Joins, Longer
<1>3. p = Append(q, v)
  BY <1>1, <1>2, JoinsAt
<1> QED
  BY <1>1, <1>2, <1>3, SumAppend

\* The sums over the files.
LEMMA SumsOneMore ==
  ASSUME NEW fs, NEW f \in FileType, NEW ff, OneMore(fs, f, ff)
  PROVE  /\ SumFunction([k \in DOMAIN fs |-> fs[k].sessions]) \in Nat
         /\ SumFunction([k \in DOMAIN fs |-> fs[k].wire]) \in Nat
         /\ SumFunction([k \in DOMAIN fs |-> fs[k].drops]) \in Nat
         /\ SumFunction([k \in DOMAIN fs |-> fs[k].refills]) \in Nat
         /\ SumFunction([k \in DOMAIN ff |-> ff[k].sessions])
              = SumFunction([k \in DOMAIN fs |-> fs[k].sessions]) + f.sessions
         /\ SumFunction([k \in DOMAIN ff |-> ff[k].wire])
              = SumFunction([k \in DOMAIN fs |-> fs[k].wire]) + f.wire
         /\ SumFunction([k \in DOMAIN ff |-> ff[k].drops])
              = SumFunction([k \in DOMAIN fs |-> fs[k].drops]) + f.drops
         /\ SumFunction([k \in DOMAIN ff |-> ff[k].refills])
              = SumFunction([k \in DOMAIN fs |-> fs[k].refills]) + f.refills
<1>1. /\ Len(fs) \in Nat /\ DOMAIN fs = 1..Len(fs) /\ DOMAIN ff = 1..Len(fs) + 1
      /\ ff[Len(fs) + 1] = f /\ \A k \in 1..Len(fs) : ff[k] = fs[k] /\ fs[k] \in FileType
  BY DEF OneMore
<1>2. \A k \in 1..Len(fs) : /\ fs[k].sessions \in Nat /\ fs[k].wire \in Nat
                            /\ fs[k].drops \in Nat /\ fs[k].refills \in Nat
  BY <1>1, FileFacts
<1>3. f.sessions \in Nat /\ f.wire \in Nat /\ f.drops \in Nat /\ f.refills \in Nat
  BY FileFacts
<1>4. Len(fs) + 1 \in 1..Len(fs) + 1 /\ 1..Len(fs) \subseteq 1..Len(fs) + 1
  BY <1>1
<1>5. /\ SumFunction([k \in DOMAIN fs |-> fs[k].sessions]) \in Nat
      /\ SumFunction([k \in DOMAIN ff |-> ff[k].sessions])
           = SumFunction([k \in DOMAIN fs |-> fs[k].sessions]) + f.sessions
  <2> DEFINE q == [k \in DOMAIN fs |-> fs[k].sessions]
             p == [k \in DOMAIN ff |-> ff[k].sessions]
  <2>1. Joins(Len(fs), q, p, f.sessions)
    BY <1>1, <1>2, <1>3, <1>4 DEF Joins
  <2> HIDE DEF q, p
  <2>2. SumFunction(q) \in Nat /\ SumFunction(p) = SumFunction(q) + f.sessions
    BY <1>1, <2>1, SumJoins
  <2> QED
    BY <2>2 DEF q, p
<1>6. /\ SumFunction([k \in DOMAIN fs |-> fs[k].wire]) \in Nat
      /\ SumFunction([k \in DOMAIN ff |-> ff[k].wire])
           = SumFunction([k \in DOMAIN fs |-> fs[k].wire]) + f.wire
  <2> DEFINE q == [k \in DOMAIN fs |-> fs[k].wire]
             p == [k \in DOMAIN ff |-> ff[k].wire]
  <2>1. Joins(Len(fs), q, p, f.wire)
    BY <1>1, <1>2, <1>3, <1>4 DEF Joins
  <2> HIDE DEF q, p
  <2>2. SumFunction(q) \in Nat /\ SumFunction(p) = SumFunction(q) + f.wire
    BY <1>1, <2>1, SumJoins
  <2> QED
    BY <2>2 DEF q, p
<1>7. /\ SumFunction([k \in DOMAIN fs |-> fs[k].drops]) \in Nat
      /\ SumFunction([k \in DOMAIN ff |-> ff[k].drops])
           = SumFunction([k \in DOMAIN fs |-> fs[k].drops]) + f.drops
  <2> DEFINE q == [k \in DOMAIN fs |-> fs[k].drops]
             p == [k \in DOMAIN ff |-> ff[k].drops]
  <2>1. Joins(Len(fs), q, p, f.drops)
    BY <1>1, <1>2, <1>3, <1>4 DEF Joins
  <2> HIDE DEF q, p
  <2>2. SumFunction(q) \in Nat /\ SumFunction(p) = SumFunction(q) + f.drops
    BY <1>1, <2>1, SumJoins
  <2> QED
    BY <2>2 DEF q, p
<1>8. /\ SumFunction([k \in DOMAIN fs |-> fs[k].refills]) \in Nat
       /\ SumFunction([k \in DOMAIN ff |-> ff[k].refills])
            = SumFunction([k \in DOMAIN fs |-> fs[k].refills]) + f.refills
  <2> DEFINE q == [k \in DOMAIN fs |-> fs[k].refills]
             p == [k \in DOMAIN ff |-> ff[k].refills]
  <2>1. Joins(Len(fs), q, p, f.refills)
    BY <1>1, <1>2, <1>3, <1>4 DEF Joins
  <2> HIDE DEF q, p
  <2>2. SumFunction(q) \in Nat /\ SumFunction(p) = SumFunction(q) + f.refills
    BY <1>1, <2>1, SumJoins
  <2> QED
    BY <2>2 DEF q, p
<1> QED
  BY <1>5, <1>6, <1>7, <1>8

\* The lookups and the samples of the files, one after the other.
LEMMA LookupsOneMore ==
  ASSUME NEW fs, NEW f \in FileType, NEW ff, OneMore(fs, f, ff)
  PROVE  /\ FlattenSeq([k \in DOMAIN fs |-> fs[k].lookups]) \in Seq(Walk)
         /\ FlattenSeq([k \in DOMAIN ff |-> ff[k].lookups])
              = FlattenSeq([k \in DOMAIN fs |-> fs[k].lookups]) \o f.lookups
<1> DEFINE q == [k \in DOMAIN fs |-> fs[k].lookups]
           p == [k \in DOMAIN ff |-> ff[k].lookups]
           T == Seq(Walk)
<1>1. /\ Len(fs) \in Nat /\ DOMAIN fs = 1..Len(fs) /\ DOMAIN ff = 1..Len(fs) + 1
      /\ ff[Len(fs) + 1] = f /\ \A k \in 1..Len(fs) : ff[k] = fs[k] /\ fs[k] \in FileType
  BY DEF OneMore
<1>2. f.lookups \in T /\ \A k \in 1..Len(fs) : fs[k].lookups \in T
  BY <1>1, FileFacts
<1>3. q \in Seq(T) /\ Len(q) = Len(fs)
  <2> HIDE DEF T
  <2>1. q \in [1..Len(fs) -> T]
    BY <1>1, <1>2
  <2> HIDE DEF q
  <2> QED
    BY <1>1, <2>1
<1>4. Longer(q, p, f.lookups)
  <2>1. Len(fs) + 1 \in 1..Len(fs) + 1 /\ 1..Len(fs) \subseteq 1..Len(fs) + 1
    BY <1>1
  <2>2. /\ p = [k \in 1..Len(fs) + 1 |-> p[k]] /\ (\A k \in 1..Len(fs) : p[k] = q[k])
        /\ p[Len(fs) + 1] = f.lookups
    BY <1>1, <2>1
  <2> HIDE DEF p, q
  <2> QED
    BY <1>3, <2>2 DEF Longer
<1> HIDE DEF p, q
<1>5. p = Append(q, f.lookups)
  <2> HIDE DEF T
  <2> QED
    BY <1>2, <1>3, <1>4, JoinsAt
<1>6. FlattenSeq(q) \in Seq(Walk) /\ FlattenSeq(p) = FlattenSeq(q) \o f.lookups
  BY <1>2, <1>3, <1>5, FlattenAppend
<1> QED
  BY <1>6 DEF p, q

LEMMA CarriedOnTyped ==
  ASSUME NEW a \in Seq(Nat), NEW b \in Nat
  PROVE  CarriedOn(a, b) \in Seq(Nat) /\ Len(CarriedOn(a, b)) = Len(a)
<1>1. Len(a) \in Nat /\ DOMAIN a = 1..Len(a) /\ \A i \in 1..Len(a) : a[i] \in Nat
  OBVIOUS
<1>2. CarriedOn(a, b) \in [1..Len(a) -> Nat]
  BY <1>1 DEF CarriedOn
<1> QED
  BY <1>1, <1>2

LEMMA SamplesOneMore ==
  ASSUME NEW fs, NEW f \in FileType, NEW ff, OneMore(fs, f, ff)
  PROVE  /\ FlattenSeq([k \in DOMAIN fs |-> Carried(fs, k)]) \in Seq(Nat)
         /\ FlattenSeq([k \in DOMAIN ff |-> Carried(ff, k)])
              = FlattenSeq([k \in DOMAIN fs |-> Carried(fs, k)])
                \o CarriedOn(f.samples, SumFunction([k \in DOMAIN fs |-> fs[k].wire]))
<1> DEFINE q == [k \in DOMAIN fs |-> Carried(fs, k)]
           p == [k \in DOMAIN ff |-> Carried(ff, k)]
           w(k) == [j \in 1..k - 1 |-> fs[j].wire]
           x == CarriedOn(f.samples, SumFunction([k \in DOMAIN fs |-> fs[k].wire]))
           T == Seq(Nat)
<1>1. /\ Len(fs) \in Nat /\ DOMAIN fs = 1..Len(fs) /\ DOMAIN ff = 1..Len(fs) + 1
      /\ ff[Len(fs) + 1] = f /\ \A k \in 1..Len(fs) : ff[k] = fs[k] /\ fs[k] \in FileType
  BY DEF OneMore
<1>2. f.samples \in T /\ \A k \in 1..Len(fs) : fs[k].samples \in T /\ fs[k].wire \in Nat
  BY <1>1, FileFacts
<1>3. ASSUME NEW k \in 1..Len(fs) + 1
      PROVE  /\ [j \in 1..k - 1 |-> ff[j].wire] = w(k)
             /\ SumFunction(w(k)) \in Nat
  <2>1. \A j \in 1..k - 1 : j \in 1..Len(fs)
    BY <1>1
  <2>2. [j \in 1..k - 1 |-> ff[j].wire] = w(k)
    BY <1>1, <2>1
  <2>3. k - 1 \in Int /\ 1 \in Int
    BY <1>1
  <2>4. IsFiniteSet(1..k - 1)
    BY <2>3, FS_Interval
  <2>5. DOMAIN w(k) = 1..k - 1 /\ \A j \in 1..k - 1 : w(k)[j] \in Nat
    BY <1>2, <2>1
  <2>6. SumFunction(w(k)) \in Nat
    <3> HIDE DEF w
    <3> QED
      BY <2>4, <2>5, SumNat DEF SumFunction
  <2> QED
    BY <2>2, <2>6
<1>4. ASSUME NEW k \in 1..Len(fs)
      PROVE  Carried(fs, k) \in T /\ Carried(ff, k) = Carried(fs, k)
  <2>1. k \in 1..Len(fs) + 1
    BY <1>1
  <2>2. Carried(fs, k) = CarriedOn(fs[k].samples, SumFunction(w(k)))
    BY DEF Carried, CarriedOn
  <2>3. Carried(ff, k) = CarriedOn(ff[k].samples, SumFunction(w(k)))
    BY <1>3, <2>1 DEF Carried, CarriedOn
  <2>4. SumFunction(w(k)) \in Nat /\ fs[k].samples \in Seq(Nat) /\ ff[k] = fs[k]
    BY <1>1, <1>2, <1>3, <2>1
  <2> HIDE DEF w
  <2> QED
    BY <2>2, <2>3, <2>4, CarriedOnTyped
<1>5. Carried(ff, Len(fs) + 1) = x /\ x \in T
  <2>1. Len(fs) + 1 \in 1..Len(fs) + 1 /\ 1..(Len(fs) + 1) - 1 = DOMAIN fs
    BY <1>1
  <2>2. Carried(ff, Len(fs) + 1) = CarriedOn(ff[Len(fs) + 1].samples, SumFunction(w(Len(fs) + 1)))
    BY <1>3, <2>1 DEF Carried, CarriedOn
  <2>3. SumFunction(w(Len(fs) + 1)) \in Nat
    BY <1>3, <2>1
  <2>4. w(Len(fs) + 1) = [k \in DOMAIN fs |-> fs[k].wire]
    BY <2>1
  <2>5. Carried(ff, Len(fs) + 1) = x
    BY <1>1, <2>2, <2>4
  <2>6. x \in T
    <3>1. SumFunction([k \in DOMAIN fs |-> fs[k].wire]) \in Nat
      BY <2>3, <2>4
    <3> QED
      BY <1>2, <3>1, CarriedOnTyped
  <2> QED
    BY <2>5, <2>6
<1> HIDE DEF w, x
<1>6. q \in Seq(T) /\ Len(q) = Len(fs)
  <2> HIDE DEF T
  <2>1. q \in [1..Len(fs) -> T]
    BY <1>1, <1>4
  <2> HIDE DEF q
  <2> QED
    BY <1>1, <2>1
<1>7. Longer(q, p, x)
  <2>1. Len(fs) + 1 \in 1..Len(fs) + 1 /\ 1..Len(fs) \subseteq 1..Len(fs) + 1
    BY <1>1
  <2>2. /\ p = [k \in 1..Len(fs) + 1 |-> p[k]] /\ (\A k \in 1..Len(fs) : p[k] = q[k])
        /\ p[Len(fs) + 1] = x
    BY <1>1, <1>4, <1>5, <2>1
  <2> HIDE DEF p, q
  <2> QED
    BY <1>6, <2>2 DEF Longer
<1> HIDE DEF p, q
<1>8. p = Append(q, x)
  <2> HIDE DEF T
  <2> QED
    BY <1>5, <1>6, <1>7, JoinsAt
<1>9. FlattenSeq(q) \in Seq(Nat) /\ FlattenSeq(p) = FlattenSeq(q) \o x
  BY <1>5, <1>6, <1>8, FlattenAppend
<1> QED
  BY <1>9 DEF p, q, x

\* The earliest age and the finds.
LEMMA AgeOneMore ==
  ASSUME NEW fs, NEW f, NEW ff, Files(fs), f \in FileType, OneSession(f), OneMore(fs, f, ff)
  PROVE  /\ Earliest(fs) \in Int /\ Earliest(fs) >= -1
         /\ Earliest(ff) = MinCapable(Earliest(fs), f.capable)
<1> DEFINE A == {fs[k].capable : k \in DOMAIN fs} \ {-1}
           B == {ff[k].capable : k \in DOMAIN ff} \ {-1}
           c == f.capable
<1>1. /\ Len(fs) \in Nat /\ DOMAIN fs = 1..Len(fs) /\ DOMAIN ff = 1..Len(fs) + 1
      /\ ff[Len(fs) + 1] = f /\ \A k \in 1..Len(fs) : ff[k] = fs[k] /\ fs[k] \in FileType
  BY DEF OneMore
<1>2. c \in Int /\ c >= -1 /\ \A k \in 1..Len(fs) : fs[k].capable \in Int /\ fs[k].capable >= -1
  BY <1>1, FileFacts DEF Files, OneSession
<1>3. A \in SUBSET Nat /\ B = A \cup ({c} \ {-1})
  <2>1. A \in SUBSET Nat
    BY <1>1, <1>2
  <2>2. \A k \in 1..Len(fs) + 1 : k \in 1..Len(fs) \/ k = Len(fs) + 1
    BY <1>1
  <2>3. Len(fs) + 1 \in 1..Len(fs) + 1 /\ 1..Len(fs) \subseteq 1..Len(fs) + 1
    BY <1>1
  <2>4. {ff[k].capable : k \in DOMAIN ff} = {fs[k].capable : k \in DOMAIN fs} \cup {c}
    BY <1>1, <2>2, <2>3
  <2> QED
    BY <2>1, <2>4
<1>4. /\ Earliest(fs) = IF A = {} THEN -1 ELSE Min(A)
      /\ Earliest(ff) = IF B = {} THEN -1 ELSE Min(B)
  BY DEF Earliest
<1> HIDE DEF A, B, c
<1>5. ASSUME NEW S \in SUBSET Nat, S # {} PROVE Min(S) \in S /\ \A r \in S : Min(S) <= r
  <2>1. \E m \in S : \A r \in S : m <= r
    BY <1>5, LeastNumber
  <2> QED
    BY <2>1 DEF Min
<1>6. CASE c = -1
  <2>1. B = A /\ (A # {} => Min(A) \in Nat)
    BY <1>3, <1>5, <1>6
  <2> QED
    BY <1>2, <1>4, <1>6, <2>1 DEF MinCapable, c
<1>7. CASE c # -1
  <2>1. c \in Nat /\ B = A \cup {c} /\ B \in SUBSET Nat /\ B # {}
    BY <1>2, <1>3, <1>7
  <2>2. PICK b \in B : b = Min(B) /\ \A r \in B : b <= r
    BY <1>5, <2>1
  <2>3. CASE A = {}
    <3>1. b = c
      BY <2>1, <2>2, <2>3
    <3> QED
      BY <1>4, <2>1, <2>2, <2>3, <3>1 DEF MinCapable, c
  <2>4. CASE A # {}
    <3>1. PICK a \in A : a = Min(A) /\ \A r \in A : a <= r
      BY <1>3, <1>5, <2>4
    <3>2. a \in Nat /\ b \in Nat /\ (b = c \/ b \in A) /\ b <= a /\ b <= c
      BY <1>3, <2>1, <2>2, <3>1
    <3>3. b = IF c < a THEN c ELSE a
      BY <2>1, <3>1, <3>2
    <3> QED
      BY <1>4, <2>1, <2>2, <2>4, <3>1, <3>2, <3>3 DEF MinCapable, c
  <2> QED
    BY <2>3, <2>4
<1> QED
  BY <1>6, <1>7

\* The finds of two files.
JoinConn(a, b) == IF b = <<>> THEN a ELSE IF a = <<>> THEN b ELSE <<a[1] + b[1]>>

LEMMA ConnOneMore ==
  ASSUME NEW fs, NEW f, NEW ff, Files(fs), f \in FileType, OneSession(f), OneMore(fs, f, ff)
  PROVE  /\ JoinedConn(fs) \in Seq(Nat) /\ (JoinedConn(fs) # <<>> => Len(JoinedConn(fs)) = 1)
         /\ JoinedConn(ff) = JoinConn(JoinedConn(fs), f.conn)
<1> DEFINE A == {k \in DOMAIN fs : fs[k].conn # <<>>}
           B == {k \in DOMAIN ff : ff[k].conn # <<>>}
           g == [k \in A |-> fs[k].conn[1]]
           h == [k \in B |-> ff[k].conn[1]]
           l == Len(fs)
<1>1. /\ l \in Nat /\ DOMAIN fs = 1..l /\ DOMAIN ff = 1..l + 1
      /\ ff[l + 1] = f /\ \A k \in 1..l : ff[k] = fs[k] /\ fs[k] \in FileType
  BY DEF OneMore
<1>2. ASSUME NEW e \in FileType, e.conn # <<>> PROVE e.conn[1] \in Nat
  <2>1. e.conn \in Seq(Nat)
    BY FileFacts
  <2> QED
    BY <1>2, <2>1
<1>3. l + 1 \in 1..l + 1 /\ l + 1 \notin 1..l /\ 1..l \subseteq 1..l + 1
      /\ \A k \in 1..l + 1 : k \in 1..l \/ k = l + 1
  BY <1>1
<1>4. /\ A \in SUBSET (1..l) /\ l + 1 \notin A
      /\ B = A \cup (IF f.conn = <<>> THEN {} ELSE {l + 1})
  BY <1>1, <1>3
<1>5. IsFiniteSet(A) /\ IsFiniteSet(B)
  <2>1. l \in Int /\ 1 \in Int
    BY <1>1
  <2>2. IsFiniteSet(1..l)
    BY <2>1, FS_Interval
  <2>3. IsFiniteSet(A)
    BY <1>4, <2>2, FS_Subset
  <2> HIDE DEF A, B
  <2>4. B = A \/ B = A \cup {l + 1}
    BY <1>4
  <2> QED
    BY <2>3, <2>4, FS_AddElement
<1>6. /\ \A k \in A : g[k] \in Nat /\ h[k] = g[k]
      /\ f.conn # <<>> => h[l + 1] = f.conn[1] /\ f.conn[1] \in Nat
      /\ DOMAIN g = A /\ DOMAIN h = B
  BY <1>1, <1>2, <1>4
<1>7. /\ JoinedConn(fs) = IF A = {} THEN <<>> ELSE <<SumFunctionOnSet(g, A)>>
      /\ JoinedConn(ff) = IF B = {} THEN <<>> ELSE <<SumFunctionOnSet(h, B)>>
  <2>1. SumFunction(g) = SumFunctionOnSet(g, A) /\ SumFunction(h) = SumFunctionOnSet(h, B)
    BY DEF SumFunction
  <2> HIDE DEF g, h
  <2> QED
    BY <2>1 DEF JoinedConn, g, h
<1> HIDE DEF A, B, g, h
<1>8. SumFunctionOnSet(g, A) \in Nat /\ SumFunctionOnSet(h, A) = SumFunctionOnSet(g, A)
  BY <1>5, <1>6, SumNat, SumEqual
<1>9. JoinedConn(fs) \in Seq(Nat) /\ (JoinedConn(fs) # <<>> => Len(JoinedConn(fs)) = 1)
  BY <1>7, <1>8, EmptyIsSeq
<1>10. CASE f.conn = <<>>
  BY <1>4, <1>7, <1>8, <1>9, <1>10 DEF JoinConn
<1>11. CASE f.conn # <<>>
  <2>1. B = A \cup {l + 1} /\ B \ {l + 1} = A /\ B # {} /\ l + 1 \in B
    BY <1>4, <1>11
  <2>2. SumFunctionOnSet(h, B) = f.conn[1] + SumFunctionOnSet(g, A)
    <3>1. \A k \in B : h[k] \in Int
      BY <1>6, <1>11, <2>1
    <3> DEFINE a == l + 1
    <3>2. a \in B /\ B \ {a} = A
      BY <2>1
    <3>3. h[a] = f.conn[1]
      BY <1>6, <1>11
    <3> HIDE DEF a
    <3> QED
      BY <1>5, <1>8, <3>1, <3>2, <3>3, SumTake
  <2>3. CASE A = {}
    <3>1. SumFunctionOnSet(g, A) = 0
      BY <2>3, SumEmpty
    <3>2. f.conn[1] \in Nat
      BY <1>6, <1>11
    <3>3. JoinedConn(ff) = <<f.conn[1]>> /\ JoinedConn(fs) = <<>>
      <4>1. SumFunctionOnSet(h, B) = f.conn[1]
        BY <2>2, <3>1, <3>2
      <4>2. JoinedConn(ff) = <<SumFunctionOnSet(h, B)>>
        BY <1>7, <2>1
      <4> QED
        BY <1>7, <2>3, <4>1, <4>2
    <3>4. f.conn \in Seq(Nat) /\ Len(f.conn) = 1
      BY <1>11, FileFacts DEF OneSession
    <3>5. f.conn = <<f.conn[1]>>
      BY <3>4
    <3> QED
      BY <1>9, <1>11, <3>3, <3>5 DEF JoinConn
  <2>4. CASE A # {}
    <3>1. PICK u : u = SumFunctionOnSet(h, B)
      OBVIOUS
    <3>2. JoinedConn(ff) = <<u>> /\ JoinedConn(fs) = <<SumFunctionOnSet(g, A)>>
      BY <1>7, <2>1, <2>4, <3>1
    <3>3. JoinedConn(fs)[1] = SumFunctionOnSet(g, A) /\ JoinedConn(fs) # <<>>
      BY <3>2
    <3>4. JoinedConn(fs)[1] + f.conn[1] = u
      BY <1>6, <1>8, <1>11, <2>2, <3>1, <3>3
    <3> QED
      BY <1>9, <1>11, <3>2, <3>3, <3>4 DEF JoinConn
  <2> QED
    BY <2>3, <2>4
<1> QED
  BY <1>9, <1>10, <1>11

\* mergeTraces takes the files one after the other.
MergedWith(m, f) ==
  [sessions |-> m.sessions + f.sessions, lookups |-> m.lookups \o f.lookups,
   samples |-> m.samples \o CarriedOn(f.samples, m.wire), wire |-> m.wire + f.wire,
   drops |-> m.drops + f.drops, refills |-> m.refills + f.refills,
   capable |-> MinCapable(m.capable, f.capable), conn |-> JoinConn(m.conn, f.conn)]

LEMMA MergeOneMore ==
  ASSUME NEW fs, Files(fs), NEW f \in FileType, OneSession(f)
  PROVE  /\ MergeTraces(fs) \in FileType /\ MergeTraces(fs).capable >= -1
         /\ MergeTraces(Append(fs, f)) = MergedWith(MergeTraces(fs), f)
<1> DEFINE ff == Append(fs, f)
           a == MergeTraces(fs)
           b == MergeTraces(ff)
<1>1. OneMore(fs, f, ff)
  BY OneMoreFile
<1> HIDE DEF ff
<1>2. /\ a.sessions \in Nat /\ a.wire \in Nat /\ a.drops \in Nat /\ a.refills \in Nat
      /\ b.sessions = a.sessions + f.sessions /\ b.wire = a.wire + f.wire
      /\ b.drops = a.drops + f.drops /\ b.refills = a.refills + f.refills
  BY <1>1, SumsOneMore DEF MergeTraces
<1>3. a.lookups \in Seq(Walk) /\ b.lookups = a.lookups \o f.lookups
  BY <1>1, LookupsOneMore DEF MergeTraces
<1>4. a.samples \in Seq(Nat) /\ b.samples = a.samples \o CarriedOn(f.samples, a.wire)
  BY <1>1, SamplesOneMore DEF MergeTraces
<1>5. /\ a.capable \in Int /\ a.capable >= -1 /\ b.capable = MinCapable(a.capable, f.capable)
  BY <1>1, AgeOneMore DEF MergeTraces
<1>6. a.conn \in Seq(Nat) /\ b.conn = JoinConn(a.conn, f.conn)
  BY <1>1, ConnOneMore DEF MergeTraces
<1>7. /\ a = [sessions |-> a.sessions, lookups |-> a.lookups, samples |-> a.samples, wire |-> a.wire,
              drops |-> a.drops, refills |-> a.refills, capable |-> a.capable, conn |-> a.conn]
      /\ b = [sessions |-> b.sessions, lookups |-> b.lookups, samples |-> b.samples, wire |-> b.wire,
              drops |-> b.drops, refills |-> b.refills, capable |-> b.capable, conn |-> b.conn]
  BY DEF MergeTraces
<1> HIDE DEF a, b
<1>8. a \in FileType
  BY <1>2, <1>3, <1>4, <1>5, <1>6, <1>7 DEF FileType
<1>9. b = MergedWith(a, f)
  BY <1>2, <1>3, <1>4, <1>5, <1>6, <1>7, Zenon DEF MergedWith
<1> QED
  BY <1>5, <1>8, <1>9 DEF a, b, ff

LEMMA MergeOfNone ==
  MergeTraces(<<>>) = [sessions |-> 0, lookups |-> <<>>, samples |-> <<>>, wire |-> 0, drops |-> 0,
                       refills |-> 0, capable |-> -1, conn |-> <<>>]
<1> DEFINE e == <<>>
<1>1. DOMAIN e = {}
  OBVIOUS
<1>2. ASSUME NEW g, DOMAIN g = {} PROVE SumFunction(g) = 0
  BY <1>2, SumEmpty DEF SumFunction
<1>3. /\ SumFunction([k \in DOMAIN e |-> e[k].sessions]) = 0
      /\ SumFunction([k \in DOMAIN e |-> e[k].wire]) = 0
      /\ SumFunction([k \in DOMAIN e |-> e[k].drops]) = 0
      /\ SumFunction([k \in DOMAIN e |-> e[k].refills]) = 0
  BY <1>1, <1>2
<1>4. [k \in DOMAIN e |-> e[k].lookups] = <<>> /\ [k \in DOMAIN e |-> Carried(e, k)] = <<>>
  BY <1>1
<1>5. FlattenSeq(<<>>) = <<>>
  BY DEF FlattenSeq
<1>6. Earliest(e) = -1
  BY <1>1 DEF Earliest
<1>7. JoinedConn(e) = <<>>
  BY <1>1 DEF JoinedConn
<1> HIDE DEF e
<1>8. MergeTraces(e) = [sessions |-> 0, lookups |-> <<>>, samples |-> <<>>, wire |-> 0, drops |-> 0,
                        refills |-> 0, capable |-> -1, conn |-> <<>>]
  BY <1>3, <1>4, <1>5, <1>6, <1>7 DEF MergeTraces
<1> QED
  BY <1>8 DEF e

\* The one file of a node with one session is its merge.
LEMMA LoadIsMerge ==
  ASSUME NEW fs, Files(fs)
  PROVE  LoadTrace(fs) = MergeTraces(fs)
<1> DEFINE T == FileType
           f == fs[1]
<1>1. CASE Len(fs) # 1
  BY <1>1 DEF LoadTrace
<1>2. CASE Len(fs) = 1
  <2>1. f \in FileType /\ fs = Append(<<>>, f) /\ OneSession(f)
    <3> HIDE DEF T
    <3>1. fs \in Seq(T)
      BY DEF Files, T
    <3>2. fs = Append(<<>>, fs[1]) /\ fs[1] \in T /\ 1 \in DOMAIN fs
      BY <1>2, <3>1
    <3> QED
      BY <3>2 DEF Files, T
  <2>2. Files(<<>>)
    BY EmptyIsSeq DEF Files
  <2> HIDE DEF f
  <2>3. MergeTraces(fs) = MergedWith(MergeTraces(<<>>), f)
    BY <2>1, <2>2, MergeOneMore
  <2>4. /\ f.sessions \in Nat /\ f.lookups \in Seq(Walk) /\ f.samples \in Seq(Nat) /\ f.wire \in Nat
        /\ f.drops \in Nat /\ f.refills \in Nat /\ f.capable \in Int /\ f.conn \in Seq(Nat)
    BY <2>1, FileFacts
  <2>5. /\ 0 + f.sessions = f.sessions /\ 0 + f.wire = f.wire /\ 0 + f.drops = f.drops
        /\ 0 + f.refills = f.refills
    BY <2>4
  <2>6. <<>> \o f.lookups = f.lookups
    BY <2>4
  <2>7. <<>> \o CarriedOn(f.samples, 0) = f.samples
    <3>1. CarriedOn(f.samples, 0) = f.samples
      <4>1. \A i \in DOMAIN f.samples : f.samples[i] + 0 = f.samples[i]
        BY <2>4
      <4>2. f.samples = [i \in DOMAIN f.samples |-> f.samples[i]]
        BY <2>4
      <4> QED
        BY <4>1, <4>2 DEF CarriedOn
    <3>2. <<>> \o f.samples = f.samples
      BY <2>4
    <3> QED
      BY <3>1, <3>2
  <2>8. MinCapable(-1, f.capable) = f.capable
    BY DEF MinCapable
  <2>9. JoinConn(<<>>, f.conn) = f.conn
    BY DEF JoinConn
  <2>10. f = [sessions |-> f.sessions, lookups |-> f.lookups, samples |-> f.samples, wire |-> f.wire,
              drops |-> f.drops, refills |-> f.refills, capable |-> f.capable, conn |-> f.conn]
    BY <2>1 DEF FileType
  <2>11. MergedWith(MergeTraces(<<>>), f) = f
    <3>1. PICK m : m = MergeTraces(<<>>)
      OBVIOUS
    <3>2. /\ m.sessions = 0 /\ m.lookups = <<>> /\ m.samples = <<>> /\ m.wire = 0 /\ m.drops = 0
          /\ m.refills = 0 /\ m.capable = -1 /\ m.conn = <<>>
      BY <3>1, MergeOfNone
    <3>3. MergedWith(m, f) = f
      BY <2>5, <2>6, <2>7, <2>8, <2>9, <2>10, <3>2, Zenon DEF MergedWith
    <3> QED
      BY <3>1, <3>3
  <2>12. LoadTrace(fs) = f
    BY <1>2 DEF LoadTrace, f
  <2> QED
    BY <2>3, <2>11, <2>12
<1> QED
  BY <1>1, <1>2

LEMMA MergeTyped ==
  ASSUME NEW fs, Files(fs)
  PROVE  MergeTraces(fs) \in FileType /\ MergeTraces(fs).capable >= -1
<1> DEFINE f == [sessions |-> 1, lookups |-> <<>>, samples |-> <<>>, wire |-> 0, drops |-> 0,
                 refills |-> 0, capable |-> -1, conn |-> <<>>]
<1>1. f \in FileType /\ OneSession(f)
  BY EmptyIsSeq DEF FileType, OneSession
<1> HIDE DEF f
<1> QED
  BY <1>1, MergeOneMore

-----------------------------------------------------------------------------
(* Steps that keep the node as the merge has it *)

LEMMA HistRecord ==
  ASSUME TypeOK
  PROVE  /\ DOMAIN hist = {"sent", "finds", "begun", "spent", "files", "own", "merged"}
         /\ hist.files \in Seq(FileType) /\ hist.own \in OwnType
         /\ hist.own.samples \in Seq(Nat) /\ hist.own.drops \in Nat /\ hist.own.refills \in Nat
<1>1. hist \in HistType
  BY DEF TypeOK
<1>2. DOMAIN hist = {"sent", "finds", "begun", "spent", "files", "own", "merged"}
  BY <1>1 DEF HistType
<1>3. hist.files \in Seq(FileType) /\ hist.own \in OwnType
  BY <1>1 DEF HistType
<1> QED
  BY <1>2, <1>3 DEF OwnType

LEMMA NodeFields ==
  ASSUME TypeOK
  PROVE  /\ n.sessions \in Nat /\ n.lookups \in Seq(Walk) /\ n.wire \in Nat /\ n.samples \in Seq(Nat)
         /\ n.capable \in Int /\ n.conn \in BOOLEAN /\ n.finds \in Nat /\ n.drops \in Nat
         /\ n.refills \in Nat /\ n.cur \in BOOLEAN /\ n.done \in BOOLEAN
         /\ DOMAIN n = {"done", "cur", "sessions", "lookups", "wire", "samples", "capable", "conn",
                        "finds", "drops", "refills", "trace"}
BY DEF TypeOK, NodeType

\* Steps that leave the node and the files alone.
LEMMA MergeFrame ==
  ASSUME MergeInv, UNCHANGED n, hist'.files = hist.files, hist'.own = hist.own,
         hist'.merged = hist.merged, s'.capable >= -1, ctl' = ctl \/ ctl.pc # "trace"
  PROVE  MergeInv'
BY DEF MergeInv

LEMMA NumbersJoined ==
  \A a, b \in Seq(Nat) : a \o b \in Seq(Nat) /\ Len(a \o b) = Len(a) + Len(b)
OBVIOUS

\* The carried samples take one more.
LEMMA SampleCarried ==
  ASSUME NEW m \in Seq(Nat), NEW a \in Seq(Nat), NEW w \in Nat, NEW x \in Nat
  PROVE  Append(m \o CarriedOn(a, w), w + x) = m \o CarriedOn(Append(a, x), w)
<1> DEFINE b == CarriedOn(a, w)
           c == CarriedOn(Append(a, x), w)
           q == m \o b
           p == m \o c
<1>1. /\ b \in Seq(Nat) /\ Len(b) = Len(a) /\ c \in Seq(Nat) /\ Len(c) = Len(a) + 1
      /\ Len(a) \in Nat
  <2>1. Append(a, x) \in Seq(Nat) /\ Len(Append(a, x)) = Len(a) + 1 /\ Len(a) \in Nat
    OBVIOUS
  <2>2. b \in Seq(Nat) /\ Len(b) = Len(a)
    BY CarriedOnTyped
  <2>3. c \in Seq(Nat) /\ Len(c) = Len(Append(a, x))
    BY <2>1, CarriedOnTyped
  <2> QED
    BY <2>1, <2>2, <2>3
<1>2. c[Len(a) + 1] = w + x /\ \A i \in 1..Len(a) : c[i] = b[i]
  <2>1. /\ DOMAIN Append(a, x) = 1..Len(a) + 1 /\ Append(a, x)[Len(a) + 1] = x
        /\ DOMAIN a = 1..Len(a) /\ Len(a) + 1 \in 1..Len(a) + 1
        /\ \A i \in 1..Len(a) : Append(a, x)[i] = a[i] /\ i \in 1..Len(a) + 1
    OBVIOUS
  <2> QED
    BY <2>1 DEF CarriedOn
<1> HIDE DEF b, c
<1>3. /\ q \in Seq(Nat) /\ p \in Seq(Nat) /\ Len(q) = Len(m) + Len(a) /\ Len(p) = Len(q) + 1
      /\ Len(m) \in Nat /\ w + x \in Nat
  <2>1. q \in Seq(Nat) /\ Len(q) = Len(m) + Len(b)
    BY <1>1, NumbersJoined
  <2>2. p \in Seq(Nat) /\ Len(p) = Len(m) + Len(c)
    BY <1>1, NumbersJoined
  <2>3. Len(m) \in Nat /\ w + x \in Nat
    OBVIOUS
  <2> HIDE DEF p, q
  <2> QED
    BY <1>1, <2>1, <2>2, <2>3
<1>4. ASSUME NEW i \in 1..Len(q) PROVE p[i] = q[i]
  <2>1. CASE i \in 1..Len(m)
    BY <1>1, <2>1
  <2>2. CASE i \notin 1..Len(m)
    <3>1. i - Len(m) \in 1..Len(a) /\ i \in 1..Len(m) + Len(a) /\ i \in 1..Len(m) + Len(a) + 1
      BY <1>1, <1>3, <2>2
    <3>2. q[i] = b[i - Len(m)] /\ p[i] = c[i - Len(m)]
      BY <1>1, <2>2, <3>1
    <3> QED
      BY <1>2, <3>1, <3>2
  <2> QED
    BY <2>1, <2>2
<1>5. p[Len(q) + 1] = w + x
  <2>1. Len(q) + 1 = Len(m) + (Len(a) + 1)
    BY <1>1, <1>3
  <2>2. p[Len(m) + (Len(a) + 1)] = c[Len(a) + 1]
    BY <1>1, <1>3
  <2> QED
    BY <1>2, <2>1, <2>2
<1>6. p = [i \in 1..Len(q) + 1 |-> p[i]]
  <2>1. p \in Seq(Nat)
    BY <1>3
  <2> HIDE DEF p
  <2>2. p \in [1..Len(p) -> Nat]
    BY <2>1
  <2>3. Len(p) = Len(q) + 1
    BY <1>3
  <2> QED
    BY <2>2, <2>3
<1> HIDE DEF p, q
<1>7. p = Append(q, w + x)
  BY <1>3, <1>4, <1>5, <1>6, JoinsAt DEF Longer
<1> QED
  BY <1>7 DEF p, q, b, c

LEMMA MergeAddSample ==
  ASSUME LegacyInv, MergeInv, AddSample
  PROVE  MergeInv'
<1>1. TypeOK /\ go.smp \in Nat
  BY DEF LegacyInv, TypeOK, GoType
<1>2. /\ n' = [n EXCEPT !.samples = Append(n.samples, n.wire + go.smp)] /\ UNCHANGED <<ctl, s>>
      /\ hist' = [hist EXCEPT !.own.samples = Append(hist.own.samples, go.smp)]
      /\ n.cur
  BY <1>1, HistRecord, NodeFields DEF AddSample, LegacyInv, GoroutinesInside
<1>3. /\ hist'.files = hist.files /\ hist'.merged = hist.merged
      /\ hist'.own.samples = Append(hist.own.samples, go.smp)
      /\ hist'.own.drops = hist.own.drops /\ hist'.own.refills = hist.own.refills
  BY <1>1, <1>2, HistRecord DEF OwnType
<1>4. /\ n'.samples = Append(n.samples, n.wire + go.smp) /\ n'.cur = n.cur /\ n'.trace = n.trace
      /\ n'.done = n.done /\ n'.sessions = n.sessions /\ n'.lookups = n.lookups /\ n'.wire = n.wire
      /\ n'.capable = n.capable /\ n'.conn = n.conn /\ n'.finds = n.finds /\ n'.drops = n.drops
      /\ n'.refills = n.refills
  BY <1>1, <1>2, NodeFields
<1>5. ASSUME Files(hist.files), AsMerged(n, hist.own, MergeTraces(hist.files))
      PROVE  AsMerged(n', hist'.own, MergeTraces(hist.files))
  <2>1. PICK m : m = MergeTraces(hist.files)
    OBVIOUS
  <2>2. AsMerged(n, hist.own, m)
    BY <1>5, <2>1
  <2>3. n.samples = m.samples \o CarriedOn(hist.own.samples, n.wire) /\ m.samples \in Seq(Nat)
    <3>1. m \in FileType
      BY <1>5, <2>1, MergeTyped
    <3> QED
      BY <2>2, <3>1, FileFacts DEF AsMerged
  <2>4. Append(n.samples, n.wire + go.smp)
          = m.samples \o CarriedOn(Append(hist.own.samples, go.smp), n.wire)
    <3>1. PICK ms \in Seq(Nat) : ms = m.samples
      BY <2>3
    <3>2. PICK os \in Seq(Nat) : os = hist.own.samples
      BY <1>1, HistRecord
    <3>3. PICK w \in Nat : w = n.wire
      BY <1>1, NodeFields
    <3>4. PICK x \in Nat : x = go.smp
      BY <1>1
    <3>5. Append(ms \o CarriedOn(os, w), w + x) = ms \o CarriedOn(Append(os, x), w)
      BY SampleCarried
    <3> QED
      BY <2>3, <3>1, <3>2, <3>3, <3>4, <3>5
  <2>5. AsMerged(n', hist'.own, m)
    BY <1>3, <1>4, <2>2, <2>4 DEF AsMerged
  <2> QED
    BY <2>1, <2>5
<1> QED
  BY <1>2, <1>3, <1>4, <1>5 DEF MergeInv

LEMMA MergeHandleEvent ==
  ASSUME LegacyInv, MergeInv, HandleEvent
  PROVE  MergeInv'
<1>1. TypeOK /\ n.cur /\ UNCHANGED ctl
  BY DEF LegacyInv, HandleEvent, GoroutinesInside
<1>2. s'.capable = s.capable
  BY <1>1 DEF TypeOK, SessionType, HandleEvent
<1>3. PICK d \in Nat, r \in Nat :
        /\ n' = [n EXCEPT !.drops = n.drops + d, !.refills = n.refills + r]
        /\ hist'.files = hist.files /\ hist'.merged = hist.merged
        /\ hist'.own.samples = hist.own.samples
        /\ hist'.own.drops = hist.own.drops + d /\ hist'.own.refills = hist.own.refills + r
  <2>1. CASE Head(srv.events) = "drop"
    <3>1. /\ n' = [n EXCEPT !.drops = @ + 1] /\ hist' = [hist EXCEPT !.own.drops = @ + 1]
      BY <2>1 DEF HandleEvent
    <3>2. n' = [n EXCEPT !.drops = n.drops + 1, !.refills = n.refills + 0]
      <4>1. n.refills + 0 = n.refills
        BY <1>1, NodeFields
      <4>2. n = [n EXCEPT !.refills = n.refills]
        BY <1>1 DEF TypeOK, NodeType
      <4> QED
        BY <1>1, <3>1, <4>1, <4>2, NodeFields
    <3>3. /\ hist'.files = hist.files /\ hist'.merged = hist.merged
          /\ hist'.own.samples = hist.own.samples
          /\ hist'.own.drops = hist.own.drops + 1 /\ hist'.own.refills = hist.own.refills + 0
      BY <1>1, <3>1, HistRecord DEF OwnType
    <3> QED
      BY <3>2, <3>3
  <2>2. CASE Head(srv.events) # "drop"
    <3>1. PICK r \in Nat : r = IF s.lost > 0 THEN 1 ELSE 0
      OBVIOUS
    <3>2. /\ n' = [n EXCEPT !.refills = @ + r] /\ hist' = [hist EXCEPT !.own.refills = @ + r]
      BY <2>2, <3>1 DEF HandleEvent
    <3>3. n' = [n EXCEPT !.drops = n.drops + 0, !.refills = n.refills + r]
      <4>1. n.drops + 0 = n.drops
        BY <1>1, NodeFields
      <4>2. n = [n EXCEPT !.drops = n.drops]
        BY <1>1 DEF TypeOK, NodeType
      <4> QED
        BY <1>1, <3>2, <4>1, <4>2, NodeFields
    <3>4. /\ hist'.files = hist.files /\ hist'.merged = hist.merged
          /\ hist'.own.samples = hist.own.samples
          /\ hist'.own.drops = hist.own.drops + 0 /\ hist'.own.refills = hist.own.refills + r
      BY <1>1, <3>2, HistRecord DEF OwnType
    <3> QED
      BY <3>3, <3>4
  <2> QED
    BY <2>1, <2>2
<1>4. /\ n'.samples = n.samples /\ n'.cur = n.cur /\ n'.trace = n.trace
      /\ n'.done = n.done /\ n'.sessions = n.sessions /\ n'.lookups = n.lookups /\ n'.wire = n.wire
      /\ n'.capable = n.capable /\ n'.conn = n.conn /\ n'.finds = n.finds
      /\ n'.drops = n.drops + d /\ n'.refills = n.refills + r
  BY <1>1, <1>3, NodeFields
<1>5. ASSUME Files(hist.files), AsMerged(n, hist.own, MergeTraces(hist.files))
      PROVE  AsMerged(n', hist'.own, MergeTraces(hist.files))
  <2>1. PICK m : m = MergeTraces(hist.files)
    OBVIOUS
  <2>2. AsMerged(n, hist.own, m) /\ m \in FileType
    BY <1>5, <2>1, MergeTyped
  <2>3. n'.drops = m.drops + hist'.own.drops /\ n'.refills = m.refills + hist'.own.refills
    <3>1. PICK md \in Nat, mr \in Nat : md = m.drops /\ mr = m.refills
      BY <2>2, FileFacts
    <3>2. PICK od \in Nat, or \in Nat : od = hist.own.drops /\ or = hist.own.refills
      BY <1>1, HistRecord
    <3>3. n.drops = md + od /\ n.refills = mr + or
      BY <2>2, <3>1, <3>2 DEF AsMerged
    <3>4. (md + od) + d = md + (od + d) /\ (mr + or) + r = mr + (or + r)
      OBVIOUS
    <3>5. n'.drops = (md + od) + d /\ n'.refills = (mr + or) + r
      BY <1>4, <3>3
    <3>6. hist'.own.drops = od + d /\ hist'.own.refills = or + r
      BY <1>3, <3>2
    <3> QED
      BY <3>1, <3>4, <3>5, <3>6, Zenon
  <2>4. AsMerged(n', hist'.own, m)
    BY <1>3, <1>4, <2>2, <2>3 DEF AsMerged
  <2> QED
    BY <2>1, <2>4
<1> QED
  BY <1>1, <1>2, <1>3, <1>4, <1>5 DEF MergeInv

-----------------------------------------------------------------------------
(* A session is folded in *)

LEMMA NothingCarried == \A w : CarriedOn(<<>>, w) = <<>>
BY DEF CarriedOn

\* The finds of the sessions so far and of the one that ends.
LEMMA ConnFolded ==
  ASSUME NEW a \in BOOLEAN, NEW b \in BOOLEAN, NEW x \in Nat, NEW y \in Nat, ~ a => x = 0
  PROVE  LET z == x + (IF b THEN y ELSE 0) IN
         /\ JoinConn(IF a THEN <<x>> ELSE <<>>, IF b THEN <<y>> ELSE <<>>)
              = (IF a \/ b THEN <<z>> ELSE <<>>)
         /\ ~ (a \/ b) => z = 0
<1>1. CASE a /\ b
  BY <1>1 DEF JoinConn
<1>2. CASE a /\ ~ b
  BY <1>2 DEF JoinConn
<1>3. CASE ~ a /\ b
  BY <1>3 DEF JoinConn
<1>4. CASE ~ a /\ ~ b
  BY <1>4 DEF JoinConn
<1> QED
  BY <1>1, <1>2, <1>3, <1>4

\* What fold makes of the node is the merge of one file more.
LEMMA FoldAsMerged ==
  ASSUME TypeOK, s.capable >= -1, Files(hist.files),
         AsMerged(n, hist.own, MergeTraces(hist.files))
  PROVE  /\ Files(Append(hist.files, File))
         /\ AsMerged(FoldSession, OwnNothing, MergeTraces(Append(hist.files, File)))
<1>1. File \in FileType /\ OneSession(File)
  <2>1. File.sessions = 1 /\ File.capable = s.capable
    BY DEF File
  <2>2. File.conn # <<>> => Len(File.conn) = 1
    BY DEF File
  <2> QED
    BY <2>1, <2>2, FileTyped DEF OneSession
<1>2. PICK m : m = MergeTraces(hist.files)
  OBVIOUS
<1>3. /\ Files(Append(hist.files, File)) /\ m \in FileType
      /\ MergeTraces(Append(hist.files, File)) = MergedWith(m, File)
  BY <1>1, <1>2, MergeOneMore, OneMoreFile
<1>4. PICK f : f = FoldSession
  OBVIOUS
<1>5. /\ f.sessions = n.sessions + 1 /\ f.lookups = n.lookups \o s.lookups
      /\ f.wire = n.wire + s.wire /\ f.finds = n.finds + (IF s.conn THEN s.found ELSE 0)
      /\ f.capable = MinCapable(n.capable, s.capable) /\ f.conn = (n.conn \/ s.conn)
      /\ f.samples = n.samples /\ f.drops = n.drops /\ f.refills = n.refills
  BY <1>4, FoldFacts
<1>6. PICK g : g = File
  OBVIOUS
<1>7. /\ g.sessions = 1 /\ g.lookups = s.lookups /\ g.wire = s.wire /\ g.capable = s.capable
      /\ g.samples = hist.own.samples /\ g.drops = hist.own.drops /\ g.refills = hist.own.refills
      /\ g.conn = (IF s.conn THEN <<s.found>> ELSE <<>>)
  BY <1>6 DEF File
<1>8. PICK mm : mm = MergedWith(m, g)
  OBVIOUS
<1>9. /\ mm.sessions = m.sessions + g.sessions /\ mm.lookups = m.lookups \o g.lookups
      /\ mm.samples = m.samples \o CarriedOn(g.samples, m.wire) /\ mm.wire = m.wire + g.wire
      /\ mm.drops = m.drops + g.drops /\ mm.refills = m.refills + g.refills
      /\ mm.capable = MinCapable(m.capable, g.capable) /\ mm.conn = JoinConn(m.conn, g.conn)
  BY <1>8 DEF MergedWith
<1>10. /\ n.sessions = m.sessions /\ n.lookups = m.lookups /\ n.wire = m.wire
       /\ n.samples = m.samples \o CarriedOn(hist.own.samples, n.wire)
       /\ n.drops = m.drops + hist.own.drops /\ n.refills = m.refills + hist.own.refills
       /\ n.capable = m.capable
       /\ m.conn = (IF n.conn THEN <<n.finds>> ELSE <<>>) /\ (~ n.conn => n.finds = 0)
  BY <1>2 DEF AsMerged
<1>11. /\ n.conn \in BOOLEAN /\ s.conn \in BOOLEAN /\ n.finds \in Nat /\ s.found \in Nat
       /\ n.drops \in Nat /\ n.refills \in Nat /\ n.samples \in Seq(Nat)
  BY NodeFields DEF TypeOK, SessionType
<1>12. mm.conn = (IF f.conn THEN <<f.finds>> ELSE <<>>) /\ (~ f.conn => f.finds = 0)
  <2>1. PICK a \in BOOLEAN, b \in BOOLEAN : a = n.conn /\ b = s.conn
    BY <1>11
  <2>2. PICK x \in Nat, y \in Nat : x = n.finds /\ y = s.found
    BY <1>11
  <2>3. PICK z : z = x + (IF b THEN y ELSE 0)
    OBVIOUS
  <2>4. ~ a => x = 0
    BY <1>10, <2>1, <2>2
  <2>5. /\ JoinConn(IF a THEN <<x>> ELSE <<>>, IF b THEN <<y>> ELSE <<>>)
             = (IF a \/ b THEN <<z>> ELSE <<>>)
        /\ ~ (a \/ b) => z = 0
    BY <2>3, <2>4, ConnFolded, Zenon
  <2>6. f.conn = (a \/ b) /\ f.finds = z
    BY <1>5, <2>1, <2>2, <2>3
  <2>7. mm.conn = JoinConn(IF a THEN <<x>> ELSE <<>>, IF b THEN <<y>> ELSE <<>>)
    BY <1>7, <1>9, <1>10, <2>1, <2>2
  <2> QED
    BY <2>5, <2>6, <2>7, Zenon
<1>13. f.samples = mm.samples \o CarriedOn(<<>>, f.wire)
  <2>1. n.samples \o <<>> = n.samples
    BY <1>11
  <2> QED
    BY <1>5, <1>7, <1>9, <1>10, <2>1, NothingCarried
<1>14. f.drops = mm.drops + 0 /\ f.refills = mm.refills + 0
  <2>1. n.drops + 0 = n.drops /\ n.refills + 0 = n.refills
    BY <1>11
  <2> QED
    BY <1>5, <1>7, <1>9, <1>10, <2>1
<1>15. /\ OwnNothing.samples = <<>> /\ OwnNothing.drops = 0 /\ OwnNothing.refills = 0
  BY DEF OwnNothing
<1>16. AsMerged(f, OwnNothing, mm)
  BY <1>5, <1>7, <1>9, <1>10, <1>12, <1>13, <1>14, <1>15, Zenon DEF AsMerged
<1> QED
  BY <1>3, <1>4, <1>6, <1>8, <1>16

\* The trace of a node that holds a merge, and nothing besides, is that merge.
TraceOf(r) ==
  [sessions |-> r.sessions, lookups |-> r.lookups, samples |-> r.samples, wire |-> r.wire,
   drops |-> r.drops, refills |-> r.refills, capable |-> r.capable,
   conn |-> IF r.conn THEN <<r.finds>> ELSE <<>>]

LEMMA TraceOfMerged ==
  ASSUME NEW r, NEW m \in FileType, AsMerged(r, OwnNothing, m)
  PROVE  TraceOf(r) = m
<1>1. /\ OwnNothing.samples = <<>> /\ OwnNothing.drops = 0 /\ OwnNothing.refills = 0
  BY DEF OwnNothing
<1>2. m.samples \in Seq(Nat) /\ m.drops \in Nat /\ m.refills \in Nat
  BY FileFacts
<1>3. m.samples \o <<>> = m.samples /\ m.drops + 0 = m.drops /\ m.refills + 0 = m.refills
  BY <1>2
<1>4. /\ r.sessions = m.sessions /\ r.lookups = m.lookups /\ r.wire = m.wire
      /\ r.samples = m.samples /\ r.drops = m.drops /\ r.refills = m.refills
      /\ r.capable = m.capable /\ m.conn = (IF r.conn THEN <<r.finds>> ELSE <<>>)
  BY <1>1, <1>3, NothingCarried DEF AsMerged
<1>5. m = [sessions |-> m.sessions, lookups |-> m.lookups, samples |-> m.samples, wire |-> m.wire,
           drops |-> m.drops, refills |-> m.refills, capable |-> m.capable, conn |-> m.conn]
  BY DEF FileType
<1> QED
  BY <1>4, <1>5, Zenon DEF TraceOf

LEMMA MergeFold ==
  ASSUME LegacyInv, MergeInv, Fold
  PROVE  MergeInv'
<1>1. /\ ctl.pc = "fold" /\ n' = FoldSession /\ s' = FreshSession
      /\ hist' = [hist EXCEPT !.files = IF n.done THEN @ ELSE Append(@, File), !.own = OwnNothing]
  BY DEF Fold
<1>2. TypeOK
  BY DEF LegacyInv
<1>3. /\ hist'.files = (IF n.done THEN hist.files ELSE Append(hist.files, File))
      /\ hist'.own = OwnNothing /\ hist'.merged = hist.merged
  BY <1>1, <1>2, HistRecord
<1>4. s'.capable >= -1
  BY <1>1 DEF FreshSession
<1>5. n'.trace = n.trace /\ n'.done = n.done
  BY <1>1, <1>2, FoldFacts
<1>6. ASSUME n.trace = <<>>
      PROVE  ~ n.done /\ Files(hist'.files) /\ AsMerged(n', hist'.own, MergeTraces(hist'.files))
  <2>1. ~ n.done
    BY <1>1, <1>6 DEF MergeInv
  <2>2. Files(hist.files) /\ AsMerged(n, hist.own, MergeTraces(hist.files)) /\ s.capable >= -1
    BY <1>6 DEF MergeInv
  <2>3. /\ Files(Append(hist.files, File))
        /\ AsMerged(FoldSession, OwnNothing, MergeTraces(Append(hist.files, File)))
    BY <1>2, <2>2, FoldAsMerged
  <2> QED
    BY <1>1, <1>3, <2>1, <2>3
<1> QED
  BY <1>3, <1>4, <1>5, <1>6 DEF MergeInv

LEMMA MergeWriteTrace ==
  ASSUME LegacyInv, MergeInv, WriteTrace
  PROVE  MergeInv'
<1> DEFINE t == IF n.cur THEN FoldSession ELSE n
           r == [sessions |-> t.sessions, lookups |-> t.lookups, samples |-> n.samples,
                 wire |-> t.wire, drops |-> n.drops, refills |-> n.refills, capable |-> t.capable,
                 conn |-> IF t.conn THEN <<t.finds>> ELSE <<>>]
           fs == IF n.cur THEN Append(hist.files, File) ELSE hist.files
<1>1. /\ ctl.pc = "trace" /\ n' = [n EXCEPT !.trace = <<r>>] /\ UNCHANGED s
      /\ hist' = [hist EXCEPT !.merged = <<LoadTrace(fs)>>]
  BY DEF WriteTrace, Goes
<1>2. TypeOK
  BY DEF LegacyInv
<1>3. n.trace = <<>>
  BY <1>1 DEF LegacyInv, TraceInv
<1>4. s.capable >= -1 /\ Files(hist.files) /\ AsMerged(n, hist.own, MergeTraces(hist.files))
  BY <1>3 DEF MergeInv
<1>5. r = TraceOf(t)
  <2>1. t.samples = n.samples /\ t.drops = n.drops /\ t.refills = n.refills
    BY <1>2, FoldFacts
  <2> QED
    BY <2>1, Zenon DEF TraceOf
<1>6. Files(fs) /\ AsMerged(t, OwnNothing, MergeTraces(fs))
  <2>1. CASE n.cur
    BY <1>2, <1>4, <2>1, FoldAsMerged
  <2>2. CASE ~ n.cur
    <3>1. hist.own = OwnNothing
      BY <2>2 DEF MergeInv
    <3> QED
      BY <1>4, <2>2, <3>1
  <2> QED
    BY <2>1, <2>2
<1> HIDE DEF t, r, fs
<1>7. r = LoadTrace(fs)
  <2>1. PICK m : m = MergeTraces(fs)
    OBVIOUS
  <2>2. m \in FileType /\ AsMerged(t, OwnNothing, m)
    BY <1>6, <2>1, MergeTyped
  <2>3. TraceOf(t) = m
    BY <2>2, TraceOfMerged
  <2> QED
    BY <1>5, <1>6, <2>1, <2>3, LoadIsMerge
<1>8. n'.trace = <<r>> /\ n'.cur = n.cur
  BY <1>1, <1>2, NodeFields
<1>9. hist'.merged = <<LoadTrace(fs)>> /\ hist'.own = hist.own
  BY <1>1, <1>2, HistRecord
<1>10. s'.capable >= -1
  BY <1>1, <1>4
<1> QED
  BY <1>7, <1>8, <1>9, <1>10 DEF MergeInv

LEMMA MergePublishFinish ==
  ASSUME LegacyInv, MergeInv, Publish \/ Finish
  PROVE  MergeInv'
<1>1. TypeOK
  BY DEF LegacyInv
<1>2. s.capable >= -1
  BY DEF MergeInv
<1>3. s'.capable >= -1 /\ hist' = hist
  <2>1. s \in SessionType
    BY <1>1 DEF TypeOK
  <2>2. s'.capable = s.capable
    BY <2>1 DEF SessionType, Publish, Finish
  <2> QED
    BY <1>2, <2>2 DEF Publish, Finish
<1>4. CASE Publish
  <2>1. n' = [n EXCEPT !.cur = TRUE] /\ ctl.pc = "publish"
    BY <1>4 DEF Publish
  <2>2. /\ n'.trace = n.trace /\ n'.done = n.done /\ n'.cur = TRUE
        /\ n'.sessions = n.sessions /\ n'.lookups = n.lookups /\ n'.wire = n.wire
        /\ n'.samples = n.samples /\ n'.drops = n.drops /\ n'.refills = n.refills
        /\ n'.capable = n.capable /\ n'.conn = n.conn /\ n'.finds = n.finds
    BY <1>1, <2>1, NodeFields
  <2>3. ASSUME NEW m, AsMerged(n, hist.own, m) PROVE AsMerged(n', hist.own, m)
    BY <2>2, <2>3 DEF AsMerged
  <2> QED
    BY <1>3, <2>1, <2>2, <2>3 DEF MergeInv
<1>5. CASE Finish
  <2>1. n' = [n EXCEPT !.done = TRUE] /\ ctl' = [ctl EXCEPT !.pc = "trace"]
    BY <1>5 DEF Finish, Goes
  <2>2. /\ n'.trace = n.trace /\ n'.cur = n.cur
        /\ n'.sessions = n.sessions /\ n'.lookups = n.lookups /\ n'.wire = n.wire
        /\ n'.samples = n.samples /\ n'.drops = n.drops /\ n'.refills = n.refills
        /\ n'.capable = n.capable /\ n'.conn = n.conn /\ n'.finds = n.finds
    BY <1>1, <2>1, NodeFields
  <2>3. ctl'.pc = "trace"
    BY <1>1, <2>1 DEF TypeOK, CtlType
  <2>4. ASSUME NEW m, AsMerged(n, hist.own, m) PROVE AsMerged(n', hist.own, m)
    BY <2>2, <2>4 DEF AsMerged
  <2> QED
    BY <1>3, <2>2, <2>3, <2>4 DEF MergeInv
<1> QED
  BY <1>4, <1>5

LEMMA MergeOperation ==
  ASSUME LegacyInv, MergeInv, OperationStep
  PROVE  MergeInv'
<1>1. TypeOK /\ s \in SessionType /\ s.capable >= -1
  BY DEF LegacyInv, TypeOK, MergeInv
<1>2. CASE \/ UpRefused \/ StartServer \/ StartFails \/ DownRefused \/ FinishAgain
  <2>1. /\ UNCHANGED <<n, s>> /\ ctl.pc \in {"check", "down", "finish"}
        /\ hist' = hist \/ hist' = [hist EXCEPT !.begun = @ + 1]
    BY <1>2 DEF UpRefused, StartServer, StartFails, DownRefused, FinishAgain, Goes
  <2>2. hist'.files = hist.files /\ hist'.own = hist.own /\ hist'.merged = hist.merged
    BY <1>1, <2>1, HistRecord
  <2> QED
    BY <1>1, <2>1, <2>2, MergeFrame
<1>3. CASE \/ Cancel \/ CloseIter \/ Unsubscribe \/ StopServer \/ WaitGoroutines
           \/ SnapshotCounters
  <2>1. UNCHANGED <<n, hist>> /\ ctl.pc # "trace"
    BY <1>3 DEF Cancel, CloseIter, Unsubscribe, StopServer, WaitGoroutines, SnapshotCounters, Goes
  <2>2. s'.capable = s.capable
    BY <1>1, <1>3
    DEF Cancel, CloseIter, Unsubscribe, StopServer, WaitGoroutines, SnapshotCounters, SessionType
  <2> QED
    BY <1>1, <2>1, <2>2, MergeFrame
<1> QED
  BY <1>2, <1>3, MergePublishFinish, MergeFold, MergeWriteTrace DEF OperationStep

LEMMA MergeCaller ==
  ASSUME MergeInv,
         MainStarts \/ (\E op \in {"up", "down"} : Request(op)) \/ StopAt \/ Signal \/ Exit
  PROVE  MergeInv'
<1>1. UNCHANGED <<n, s, hist>> /\ (ctl' = ctl \/ ctl = Free)
  BY DEF MainStarts, Request, StopAt, Signal, Exit, Acquire
<1>2. s.capable >= -1
  BY DEF MergeInv
<1>3. ctl = Free => ctl.pc # "trace"
  BY DEF Free
<1> QED
  BY <1>1, <1>2, <1>3, MergeFrame

\* What happens to a session beside its operations: only a capable record sets its age.
LEMMA MergeSession ==
  ASSUME LegacyInv, MergeInv,
         \/ SearchStep \/ WalkFinds \/ (\E g \in Watchers : WatcherEnds(g)) \/ SamplerReads
         \/ SeesCapable \/ Traffic \/ (\E kind \in {"add", "drop"} : PeerEvent(kind)) \/ Deliver
         \/ NextWaits \/ NextOpens \/ NextFinds \/ NextEnds
  PROVE  MergeInv'
<1>1. TypeOK /\ s \in SessionType /\ s.capable >= -1
  BY DEF LegacyInv, TypeOK, MergeInv
<1>2. UNCHANGED <<n, ctl>>
  BY DEF SearchStep, SearchCancelled, SearchBegins, LookupDue, RandomWalkReturns,
         WalkIteratorReturns, CheckCut, RecordLookup, WalkFinds, WatcherEnds, SamplerReads,
         SeesCapable, Traffic, PeerEvent, Deliver, NextWaits, NextOpens, NextFinds, NextEnds
<1>3. hist'.files = hist.files /\ hist'.own = hist.own /\ hist'.merged = hist.merged
  <2>1. \/ hist' = hist \/ hist' = Spend(hist)
        \/ hist' = [Spend(hist) EXCEPT !.sent = @ + 1]
        \/ hist' = [Spend(hist) EXCEPT !.finds = @ + 1]
    BY DEF SearchStep, SearchCancelled, SearchBegins, LookupDue, RandomWalkReturns,
           WalkIteratorReturns, CheckCut, RecordLookup, WalkFinds, WatcherEnds, SamplerReads,
           SeesCapable, Traffic, PeerEvent, Deliver, NextWaits, NextOpens, NextFinds, NextEnds
  <2> QED
    BY <1>1, <2>1, HistRecord DEF Spend
<1>4. s'.capable >= -1
  <2>1. CASE SeesCapable
    <3>1. PICK age \in Ages : s' = [s EXCEPT !.capable = age]
      BY <2>1 DEF SeesCapable
    <3>2. age \in Nat
      BY LegacySessionAssumption
    <3> QED
      BY <1>1, <3>1, <3>2 DEF SessionType
  <2>2. CASE \/ SearchStep \/ WalkFinds
    <3>1. s' = s \/ s' = [s EXCEPT !.ready = TRUE] \/ \E l : s' = [s EXCEPT !.lookups = l]
      BY <2>2
      DEF SearchStep, SearchCancelled, SearchBegins, LookupDue, RandomWalkReturns,
          WalkIteratorReturns, CheckCut, RecordLookup, WalkFinds
    <3> QED
      BY <1>1, <3>1 DEF SessionType
  <2>3. CASE \/ (\E g \in Watchers : WatcherEnds(g)) \/ SamplerReads
             \/ Traffic \/ (\E kind \in {"add", "drop"} : PeerEvent(kind)) \/ Deliver
             \/ NextWaits \/ NextOpens \/ NextFinds \/ NextEnds
    <3>1. s' = s \/ s' = [s EXCEPT !.conn = TRUE] \/ s' = [s EXCEPT !.found = @ + 1]
      BY <2>3
      DEF WatcherEnds, SamplerReads, Traffic, PeerEvent, Deliver, NextWaits, NextOpens, NextFinds,
          NextEnds
    <3> QED
      BY <1>1, <3>1 DEF SessionType
  <2> QED
    BY <2>1, <2>2, <2>3
<1> QED
  BY <1>2, <1>3, <1>4, MergeFrame

LEMMA MergeInit == Init => MergeInv
<1> SUFFICES ASSUME Init PROVE MergeInv
  OBVIOUS
<1>1. /\ s.capable = -1 /\ hist.own = OwnNothing /\ n.trace = <<>> /\ ~ n.done /\ hist.files = <<>>
  BY DEF Init, FreshSession
<1>2. Files(<<>>)
  BY EmptyIsSeq DEF Files
<1>3. PICK m : m = MergeTraces(<<>>)
  OBVIOUS
<1>4. /\ m.sessions = 0 /\ m.lookups = <<>> /\ m.samples = <<>> /\ m.wire = 0 /\ m.drops = 0
      /\ m.refills = 0 /\ m.capable = -1 /\ m.conn = <<>>
  BY <1>3, MergeOfNone
<1>5. /\ n.sessions = 0 /\ n.lookups = <<>> /\ n.wire = 0 /\ n.samples = <<>> /\ n.capable = -1
      /\ ~ n.conn /\ n.finds = 0 /\ n.drops = 0 /\ n.refills = 0
  BY DEF Init
<1>6. OwnNothing.samples = <<>> /\ OwnNothing.drops = 0 /\ OwnNothing.refills = 0
  BY DEF OwnNothing
<1>7. <<>> \o <<>> = <<>>
  BY EmptyIsSeq
<1>8. AsMerged(n, OwnNothing, m)
  BY <1>4, <1>5, <1>6, <1>7, NothingCarried DEF AsMerged
<1> QED
  BY <1>1, <1>2, <1>3, <1>8 DEF MergeInv

LEMMA MergeNext == LegacyInv /\ MergeInv /\ [Next]_vars => MergeInv'
<1> SUFFICES ASSUME LegacyInv, MergeInv, [Next]_vars PROVE MergeInv'
  OBVIOUS
<1>1. CASE Next
  BY <1>1, MergeOperation, MergeCaller, MergeSession, MergeAddSample, MergeHandleEvent DEF Next
<1>2. CASE UNCHANGED vars
  <2>1. UNCHANGED <<n, s, hist, ctl>>
    BY <1>2 DEF vars
  <2>2. s.capable >= -1
    BY DEF MergeInv
  <2> QED
    BY <2>1, <2>2, MergeFrame
<1> QED
  BY <1>1, <1>2

\* A node that stays through its sessions and writes one trace records what a process
\* per session and LoadTrace over their files would have: the counters, dialer finds and
\* samples, the sessions and all the rest of "The per-field rules are host.LoadTrace's"
\* (session.go:501), for any number of sessions and whatever they record.
THEOREM OneTraceAsMerged == Spec => []LegacyLedger
<1>1. Spec => []MergeInv
  BY LegacyInvariant, MergeInit, MergeNext, PTL DEF Spec
<1>2. MergeInv => TraceAsMerged
  BY DEF MergeInv, TraceAsMerged
<1>3. TraceAsMerged /\ CountsKept /\ TraceHasAllSessions => LegacyLedger
  BY DEF LegacyLedger
<1> QED
  BY <1>1, <1>2, <1>3, LegacyCountsAddUp, PTL
=============================================================================

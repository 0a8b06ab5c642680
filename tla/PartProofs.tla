----------------------------- MODULE PartProofs -----------------------------
(***************************************************************************)
(* The parts that run by themselves, each with variables of its own: the   *)
(* pools of calls, for any number of jobs, hosts, workers per host and     *)
(* places of the semaphore; the schedule of a node's absences with its     *)
(* drive, for any window, crawl interval and lengths of absences; the      *)
(* placement of nodes on hosts, for any nodes, groups and slots; the       *)
(* verdict on drops, for any number of samples; and the overhead series of *)
(* one host, for any number of restarts, packets, samples and callers.     *)
(***************************************************************************)
EXTENDS ChurnPlan, FetchPool, Placement, HostDrops, SimHost, SumFacts

-----------------------------------------------------------------------------
(* each and eachByHost *)

PoolTypeOK ==
  /\ pool \in {"each", "byHost"} /\ result \in {"running", "ok", "error"}
  /\ queued \in SUBSET JobIds /\ held \in SUBSET JobIds /\ flying \in SUBSET JobIds
  /\ failing \in SUBSET JobIds /\ errs \in SUBSET JobIds
  /\ ran \in [JobIds -> {0, 1}] /\ first \in JobIds \cup {-1}

\* An index is in one place, and its call was made once it has left the queue.
IndexInv ==
  /\ queued \cap (held \cup flying \cup failing) = {} /\ held \cap (flying \cup failing) = {}
  /\ flying \cap failing = {}
  /\ \A i \in JobIds : ran[i] = 0 <=> i \in queued \cup held
  /\ pool = "each" => held = {}

\* first is set by the first error that is noted.
ErrorInv ==
  /\ failing \subseteq errs /\ errs \cap (queued \cup held \cup flying) = {}
  /\ first = -1 <=> errs = failing
  /\ result # "running" => /\ queued \cup held \cup flying \cup failing = {}
                           /\ result = "error" <=> first # -1

\* The places of the semaphore and the workers of a host.
LimitInv ==
  /\ InUse <= Sem
  /\ pool = "byHost" => \A h : Busy(h) <= Workers(h)

PoolInv == PoolTypeOK /\ IndexInv /\ ErrorInv /\ LimitInv

LEMMA JobFacts ==
  /\ IsFiniteSet(JobIds) /\ -1 \notin JobIds /\ JobIds \subseteq Nat
  /\ Sem \in Nat \ {0} /\ PerHost \in Nat \ {0}
<1>1. Jobs \in Nat /\ Sem \in Nat \ {0} /\ PerHost \in Nat \ {0}
  BY FetchPoolAssumption
<1>2. IsFiniteSet(0..Jobs - 1)
  BY <1>1, FS_Interval
<1> QED
  BY <1>1, <1>2 DEF JobIds

LEMMA LeastOf ==
  ASSUME NEW S, S \subseteq Nat, S # {}
  PROVE  Min(S) \in S /\ \A k \in S : Min(S) <= k
<1>1. \E m \in S : \A k \in S : m <= k
  BY LeastNumber
<1> QED
  BY <1>1 DEF Min

\* The cardinality of a set of indices.
LEMMA CountJobs ==
  ASSUME NEW S \in SUBSET JobIds
  PROVE  /\ IsFiniteSet(S) /\ Cardinality(S) \in Nat
         /\ \A T \in SUBSET S : Cardinality(T) <= Cardinality(S)
         /\ \A i \in JobIds \ S : Cardinality(S \cup {i}) = Cardinality(S) + 1
         /\ \A i \in S : Cardinality(S \ {i}) = Cardinality(S) - 1
<1>1. IsFiniteSet(S)
  BY JobFacts, FS_Subset
<1>2. \A T \in SUBSET S : Cardinality(T) <= Cardinality(S)
  BY <1>1, FS_Subset
<1>3. \A i \in JobIds \ S : Cardinality(S \cup {i}) = Cardinality(S) + 1
  BY <1>1, FS_AddElement
<1>4. \A i \in S : Cardinality(S \ {i}) = Cardinality(S) - 1
  BY <1>1, FS_RemoveElement
<1> QED
  BY <1>1, <1>2, <1>3, <1>4, FS_CardinalityType

LEMMA HostWorkers ==
  ASSUME NEW h
  PROVE  Workers(h) \in Nat /\ Workers(h) <= PerHost
<1> DEFINE c == Cardinality(OfHost(JobIds, h))
<1>1. OfHost(JobIds, h) \in SUBSET JobIds
  BY DEF OfHost
<1>2. c \in Nat /\ PerHost \in Nat
  BY <1>1, CountJobs, JobFacts
<1> HIDE DEF c
<1>3. {PerHost, c} \subseteq Nat
  BY <1>2
<1>4. Min({PerHost, c}) \in {PerHost, c} /\ Min({PerHost, c}) <= PerHost
  BY <1>3, LeastOf
<1> QED
  BY <1>2, <1>4 DEF Workers, c

\* A host with an index has a worker.
LEMMA SomeWorker ==
  ASSUME NEW j \in JobIds
  PROVE  Workers(HostOfJob[j]) > 0
<1> DEFINE S == OfHost(JobIds, HostOfJob[j])
           c == Cardinality(S)
<1>1. S \in SUBSET JobIds /\ j \in S
  BY DEF OfHost
<1>2. c \in Nat /\ c # 0 /\ PerHost \in Nat \ {0}
  BY <1>1, CountJobs, JobFacts, FS_EmptySet
<1> HIDE DEF c
<1>3. {PerHost, c} \subseteq Nat
  BY <1>2
<1>4. Min({PerHost, c}) \in {PerHost, c}
  BY <1>3, LeastOf
<1> QED
  BY <1>2, <1>4 DEF Workers, c

LEMMA BusyFacts ==
  ASSUME NEW h, PoolTypeOK
  PROVE  Busy(h) \in Nat
BY CountJobs DEF PoolTypeOK, Busy, OfHost

\* A step after which the workers at some index are among those before it.
LEMMA BusyShrinks ==
  ASSUME PoolTypeOK, LimitInv, pool' = pool,
         held' \cup flying' \cup failing' \subseteq held \cup flying \cup failing
  PROVE  pool' = "byHost" => \A h : Busy(h)' <= Workers(h)
<1> SUFFICES ASSUME pool = "byHost", NEW h PROVE Busy(h)' <= Workers(h)
  OBVIOUS
<1> DEFINE S == OfHost(held \cup flying \cup failing, h)
           T == OfHost(held' \cup flying' \cup failing', h)
<1>1. S \in SUBSET JobIds /\ T \in SUBSET S
  BY DEF OfHost, PoolTypeOK
<1>2. Cardinality(T) <= Cardinality(S) /\ Cardinality(S) \in Nat /\ Cardinality(T) \in Nat
  BY <1>1, CountJobs
<1>3. Cardinality(S) <= Workers(h)
  BY DEF LimitInv, Busy
<1>4. Busy(h)' = Cardinality(T)
  BY DEF Busy, OfHost
<1> HIDE DEF S, T
<1> QED
  BY <1>2, <1>3, <1>4, HostWorkers

LEMMA TakeJobStep ==
  ASSUME PoolInv, NEW i \in JobIds, TakeJob(i)
  PROVE  PoolInv'
<1>1. /\ pool = "byHost" /\ i \in queued /\ Busy(HostOfJob[i]) < Workers(HostOfJob[i])
      /\ queued' = queued \ {i} /\ held' = held \cup {i}
      /\ UNCHANGED <<pool, flying, failing, ran, errs, first, result>>
  BY DEF TakeJob, MayTake
<1>2. PoolTypeOK' /\ IndexInv' /\ ErrorInv'
  BY <1>1 DEF PoolInv, PoolTypeOK, IndexInv, ErrorInv
<1>3. InUse' = InUse
  BY <1>1 DEF InUse
<1>4. ASSUME NEW h PROVE Busy(h)' <= Workers(h)
  <2> DEFINE S == OfHost(held \cup flying \cup failing, h)
  <2>1. S \in SUBSET JobIds /\ i \notin S
    BY <1>1 DEF OfHost, PoolInv, PoolTypeOK, IndexInv
  <2>2. Busy(h)' = Cardinality(IF HostOfJob[i] = h THEN S \cup {i} ELSE S)
    <3>1. OfHost(held' \cup flying' \cup failing', h) = IF HostOfJob[i] = h THEN S \cup {i} ELSE S
      BY <1>1 DEF OfHost
    <3> QED
      BY <3>1 DEF Busy, OfHost
  <2>3. Busy(h) = Cardinality(S) /\ Busy(h) <= Workers(h) /\ Workers(h) \in Nat
    BY <1>1, HostWorkers DEF Busy, PoolInv, LimitInv
  <2>4. Cardinality(S) \in Nat /\ Cardinality(S \cup {i}) = Cardinality(S) + 1
    BY <2>1, CountJobs
  <2> HIDE DEF S
  <2>5. CASE HostOfJob[i] = h
    BY <1>1, <2>2, <2>3, <2>4, <2>5
  <2>6. CASE HostOfJob[i] # h
    BY <2>2, <2>3, <2>4, <2>6
  <2> QED
    BY <2>5, <2>6
<1>5. LimitInv'
  BY <1>1, <1>3, <1>4 DEF PoolInv, LimitInv, Workers, OfHost
<1> QED
  BY <1>2, <1>5 DEF PoolInv

LEMMA InUseFacts ==
  ASSUME PoolTypeOK
  PROVE  Cardinality(flying) \in Nat /\ Cardinality(failing) \in Nat /\ InUse \in Nat
<1>1. Cardinality(flying) \in Nat /\ Cardinality(failing) \in Nat
  BY CountJobs DEF PoolTypeOK
<1> QED
  BY <1>1 DEF InUse

LEMMA StartJobStep ==
  ASSUME PoolInv, NEW i \in JobIds, StartJob(i)
  PROVE  PoolInv'
<1>1. /\ InUse < Sem /\ flying' = flying \cup {i} /\ ran' = [ran EXCEPT ![i] = @ + 1]
      /\ UNCHANGED <<pool, failing, errs, first, result>>
  BY DEF StartJob, MayStart
<1>2. \/ pool = "byHost" /\ i \in held /\ held' = held \ {i} /\ queued' = queued
      \/ pool = "each" /\ i \in queued /\ queued' = queued \ {i} /\ held' = held
  <2>1. /\ IF pool = "byHost" THEN i \in held ELSE i \in queued
        /\ queued' = queued \ {i} /\ held' = held \ {i}
    BY DEF StartJob, MayStart
  <2>2. queued \cap held = {} /\ pool \in {"each", "byHost"}
    BY DEF PoolInv, PoolTypeOK, IndexInv
  <2> QED
    BY <2>1, <2>2
<1>3. ran[i] = 0 /\ i \notin flying \cup failing
  BY <1>2 DEF PoolInv, IndexInv
<1>4. ran' \in [JobIds -> {0, 1}] /\ \A j \in JobIds : ran'[j] = IF j = i THEN 1 ELSE ran[j]
  BY <1>1, <1>3 DEF PoolInv, PoolTypeOK
<1>5. PoolTypeOK'
  BY <1>1, <1>2, <1>4 DEF PoolInv, PoolTypeOK
<1>6. IndexInv'
  BY <1>1, <1>2, <1>3, <1>4 DEF PoolInv, IndexInv
<1>7. ErrorInv'
  BY <1>1, <1>2 DEF PoolInv, ErrorInv
<1>8. InUse' <= Sem
  <2>1. Cardinality(flying \cup {i}) = Cardinality(flying) + 1
    BY <1>3, CountJobs DEF PoolInv, PoolTypeOK
  <2>2. InUse' = Cardinality(flying \cup {i}) + (IF pool = "each" THEN Cardinality(failing) ELSE 0)
    BY <1>1 DEF InUse
  <2>3. InUse = Cardinality(flying) + (IF pool = "each" THEN Cardinality(failing) ELSE 0)
    BY DEF InUse
  <2>4. Cardinality(flying) \in Nat /\ Cardinality(failing) \in Nat /\ Sem \in Nat
    BY InUseFacts, JobFacts DEF PoolInv
  <2>5. InUse' = InUse + 1
    BY <2>1, <2>2, <2>3, <2>4
  <2> QED
    BY <1>1, <2>3, <2>4, <2>5
<1>9. pool' = "byHost" => \A h : Busy(h)' <= Workers(h)
  <2>1. CASE pool = "byHost"
    BY <1>1, <1>2, <2>1, BusyShrinks DEF PoolInv
  <2> QED
    BY <1>1, <2>1 DEF PoolInv, PoolTypeOK
<1> QED
  BY <1>5, <1>6, <1>7, <1>8, <1>9 DEF PoolInv, LimitInv, Workers, OfHost

LEMMA EndJobStep ==
  ASSUME PoolInv, NEW i \in JobIds, NEW ok \in BOOLEAN, EndJob(i, ok)
  PROVE  PoolInv'
<1>1. /\ i \in flying /\ flying' = flying \ {i}
      /\ failing' = IF ok THEN failing ELSE failing \cup {i}
      /\ errs' = IF ok THEN errs ELSE errs \cup {i}
      /\ UNCHANGED <<pool, queued, held, ran, first, result>>
  BY DEF EndJob
<1>2. i \notin queued \cup held \cup failing \cup errs
  BY <1>1 DEF PoolInv, IndexInv, ErrorInv
<1>3. PoolTypeOK'
  BY <1>1 DEF PoolInv, PoolTypeOK
<1>4. IndexInv'
  BY <1>1, <1>2 DEF PoolInv, IndexInv
<1>5. ErrorInv'
  <2>1. CASE ok
    BY <1>1, <2>1 DEF PoolInv, ErrorInv
  <2>2. CASE ~ ok
    <3>1. errs' = failing' <=> errs = failing
      BY <1>1, <1>2, <2>2
    <3> QED
      BY <1>1, <1>2, <2>2, <3>1 DEF PoolInv, ErrorInv
  <2> QED
    BY <2>1, <2>2
<1>6. InUse' <= Sem
  <2> DEFINE a == Cardinality(flying)
             b == Cardinality(failing)
  <2>1. Cardinality(flying \ {i}) = a - 1 /\ Cardinality(failing \cup {i}) = b + 1
    BY <1>1, <1>2, CountJobs DEF PoolInv, PoolTypeOK
  <2>2. InUse' = Cardinality(flying \ {i})
                 + (IF pool = "each" THEN (IF ok THEN b ELSE Cardinality(failing \cup {i})) ELSE 0)
    BY <1>1 DEF InUse
  <2>3. a + (IF pool = "each" THEN b ELSE 0) <= Sem
    BY DEF PoolInv, LimitInv, InUse
  <2>4. a \in Nat /\ b \in Nat /\ Sem \in Nat
    BY InUseFacts, JobFacts DEF PoolInv
  <2> HIDE DEF a, b
  <2> QED
    BY <2>1, <2>2, <2>3, <2>4
<1>7. pool' = "byHost" => \A h : Busy(h)' <= Workers(h)
  BY <1>1, BusyShrinks DEF PoolInv
<1> QED
  BY <1>3, <1>4, <1>5, <1>6, <1>7 DEF PoolInv, LimitInv, Workers, OfHost

LEMMA NoteErrorStep ==
  ASSUME PoolInv, NEW i \in JobIds, NoteError(i)
  PROVE  PoolInv'
<1>1. /\ i \in failing /\ failing' = failing \ {i} /\ first' = IF first = -1 THEN i ELSE first
      /\ UNCHANGED <<pool, queued, held, flying, ran, errs, result>>
  BY DEF NoteError
<1>2. PoolTypeOK' /\ IndexInv'
  BY <1>1 DEF PoolInv, PoolTypeOK, IndexInv
<1>3. ErrorInv'
  <2>1. first' # -1 /\ errs # failing' /\ result = "running"
    BY <1>1, JobFacts DEF PoolInv, ErrorInv
  <2> QED
    BY <1>1, <2>1 DEF PoolInv, ErrorInv
<1>4. InUse' <= Sem
  <2> DEFINE a == Cardinality(flying)
             b == Cardinality(failing)
  <2>1. Cardinality(failing \ {i}) = b - 1
    BY <1>1, CountJobs DEF PoolInv, PoolTypeOK
  <2>2. InUse' = a + (IF pool = "each" THEN Cardinality(failing \ {i}) ELSE 0)
    BY <1>1 DEF InUse
  <2>3. a + (IF pool = "each" THEN b ELSE 0) <= Sem
    BY DEF PoolInv, LimitInv, InUse
  <2>4. a \in Nat /\ b \in Nat /\ Sem \in Nat
    BY InUseFacts, JobFacts DEF PoolInv
  <2> HIDE DEF a, b
  <2> QED
    BY <2>1, <2>2, <2>3, <2>4
<1>5. pool' = "byHost" => \A h : Busy(h)' <= Workers(h)
  BY <1>1, BusyShrinks DEF PoolInv
<1> QED
  BY <1>2, <1>3, <1>4, <1>5 DEF PoolInv, LimitInv, Workers, OfHost

LEMMA PoolReturnsStep ==
  ASSUME PoolInv, PoolReturns \/ UNCHANGED poolVars
  PROVE  PoolInv'
<1>1. /\ UNCHANGED <<pool, queued, held, flying, failing, ran, errs, first>>
      /\ \/ result' = result
         \/ /\ queued \cup held \cup flying \cup failing = {}
            /\ result' = IF first = -1 THEN "ok" ELSE "error"
  BY DEF PoolReturns, AllReturned, poolVars
<1>2. PoolTypeOK' /\ IndexInv'
  BY <1>1 DEF PoolInv, PoolTypeOK, IndexInv
<1>3. ErrorInv'
  BY <1>1 DEF PoolInv, ErrorInv
<1>4. LimitInv'
  BY <1>1 DEF PoolInv, LimitInv, InUse, Busy, Workers, OfHost
<1> QED
  BY <1>2, <1>3, <1>4 DEF PoolInv

LEMMA PoolInitInv == PoolInit => PoolInv
<1> SUFFICES ASSUME PoolInit PROVE PoolInv
  OBVIOUS
<1>1. PoolTypeOK /\ IndexInv /\ ErrorInv
  BY DEF PoolInit, PoolTypeOK, IndexInv, ErrorInv
<1>2. InUse = 0
  BY FS_EmptySet DEF PoolInit, InUse
<1>3. \A h : Busy(h) = 0
  <2>1. \A h : OfHost(held \cup flying \cup failing, h) = {}
    BY DEF PoolInit, OfHost
  <2> QED
    BY <2>1, FS_EmptySet DEF Busy
<1> QED
  BY <1>1, <1>2, <1>3, JobFacts, HostWorkers DEF PoolInv, LimitInv

LEMMA PoolInvariant == PoolSpec => []PoolInv
<1>1. PoolInv /\ [PoolNext]_poolVars => PoolInv'
  BY TakeJobStep, StartJobStep, EndJobStep, NoteErrorStep, PoolReturnsStep DEF PoolNext
<1> QED
  BY <1>1, PoolInitInv, PTL DEF PoolSpec

\* Some goroutine can go on: one in f or behind it, else one that waits for the
\* semaphore, all of whose places are free then, else a worker of a host that still
\* has a queue, as none is busy.
LEMMA PoolGoesOn == PoolInv => NeverStuck
<1> SUFFICES ASSUME PoolInv, result = "running", ~ AllReturned, flying \cup failing = {}
             PROVE  \E i \in JobIds : MayTake(i) \/ MayStart(i)
  BY DEF PoolInv, PoolTypeOK, NeverStuck
<1>1. /\ queued \in SUBSET JobIds /\ held \in SUBSET JobIds /\ queued \cup held # {}
      /\ flying = {} /\ failing = {} /\ pool \in {"each", "byHost"}
      /\ pool = "each" => held = {}
  BY DEF PoolInv, PoolTypeOK, IndexInv, AllReturned
<1>2. InUse = 0 /\ InUse < Sem
  BY <1>1, FS_EmptySet, JobFacts DEF InUse
<1>3. CASE held # {}
  BY <1>1, <1>2, <1>3 DEF MayStart
<1>4. CASE held = {} /\ pool = "each"
  <2>1. queued # {} /\ queued \subseteq Nat
    BY <1>1, <1>4, JobFacts
  <2>2. Min(queued) \in queued
    BY <2>1, LeastOf
  <2> QED
    BY <1>1, <1>2, <1>4, <2>2 DEF MayStart
<1>5. CASE held = {} /\ pool = "byHost"
  <2>1. PICK j \in queued : TRUE
    BY <1>1, <1>5
  <2> DEFINE h == HostOfJob[j]
             S == OfHost(queued, h)
  <2>2. j \in S /\ S \subseteq JobIds /\ S \subseteq queued /\ S \subseteq Nat
    BY <1>1, <2>1, JobFacts DEF OfHost
  <2>3. PICK i \in S : i = Min(S)
    BY <2>2, LeastOf
  <2>4. HostOfJob[i] = h /\ i \in queued
    BY <2>3 DEF OfHost
  <2>5. Busy(h) = 0
    <3>1. OfHost(held \cup flying \cup failing, h) = {}
      BY <1>1, <1>5 DEF OfHost
    <3> QED
      BY <3>1, FS_EmptySet DEF Busy
  <2>6. Workers(h) > 0
    BY <1>1, <2>1, SomeWorker
  <2> QED
    BY <1>1, <1>5, <2>3, <2>4, <2>5, <2>6 DEF MayTake
<1> QED
  BY <1>1, <1>3, <1>4, <1>5

\* each and eachByHost, for any number of jobs, hosts, workers per host and places:
\* no more calls in flight than the semaphore and the cap per host allow, every
\* index called once by the time the pool returns, an error returned exactly when a
\* call failed, and some goroutine that can go on until the pool returns.
THEOREM PoolRunsEveryJob == PoolSpec => []EveryJobOnce
<1>1. PoolInv => WithinLimits
  <2> SUFFICES ASSUME PoolInv PROVE WithinLimits
    OBVIOUS
  <2>1. Cardinality(flying) <= Sem
    BY InUseFacts, JobFacts DEF PoolInv, LimitInv, InUse
  <2>2. ASSUME pool = "byHost", NEW h PROVE Cardinality(OfHost(flying, h)) <= PerHost
    <3> DEFINE S == OfHost(held \cup flying \cup failing, h)
               T == OfHost(flying, h)
    <3>1. S \in SUBSET JobIds /\ T \in SUBSET S
      BY DEF OfHost, PoolInv, PoolTypeOK
    <3>2. Cardinality(T) <= Cardinality(S) /\ Cardinality(S) \in Nat /\ Cardinality(T) \in Nat
      BY <3>1, CountJobs
    <3>3. Cardinality(S) <= Workers(h)
      BY <2>2 DEF PoolInv, LimitInv, Busy
    <3> HIDE DEF S
    <3>4. Workers(h) \in Nat /\ Workers(h) <= PerHost /\ PerHost \in Nat
      BY HostWorkers, JobFacts
    <3> QED
      BY <3>2, <3>3, <3>4
  <2> QED
    BY <2>1, <2>2 DEF WithinLimits
<1>2. PoolInv => AllDone
  <2> SUFFICES ASSUME PoolInv, result # "running"
               PROVE  (\A i \in JobIds : ran[i] = 1) /\ (result = "error") = (errs # {})
    BY DEF AllDone
  <2>1. queued \cup held \cup flying \cup failing = {} /\ (result = "error" <=> first # -1)
    BY DEF PoolInv, ErrorInv
  <2>2. \A i \in JobIds : ran[i] = 1
    BY <2>1 DEF PoolInv, PoolTypeOK, IndexInv
  <2>3. result = "error" <=> errs # {}
    BY <2>1 DEF PoolInv, ErrorInv
  <2> QED
    BY <2>2, <2>3
<1>3. PoolInv => EveryJobOnce
  BY <1>1, <1>2, PoolGoesOn DEF EveryJobOnce
<1> QED
  BY <1>3, PoolInvariant, PTL

-----------------------------------------------------------------------------
(* ScheduleTopic *)

Absence == [down : Nat, up : Nat]
CallRecord == [op : {"kill", "start"}, time : Nat, ok : BOOLEAN]

ChurnTypeOK ==
  /\ ev \in Seq(Absence) /\ x \in Nat /\ up \in BOOLEAN /\ calls \in Seq(CallRecord)
  /\ plan \in {"draw", "leave", "walk", "drive", "driven", "done"}
  /\ at \in [event : Nat \ {0}, half : {"kill", "start"}]

\* Absences begin in the window, do not overlap, and only the first may begin at 0.
Ordered ==
  \A k \in 1..Len(ev) :
    /\ ev[k].down <= ev[k].up /\ ev[k].down < Window
    /\ k > 1 => ev[k - 1].up <= ev[k].down /\ ev[k].down > 0

\* Where the plan is: past the last absence.
PlanInv ==
  /\ Ordered
  /\ plan \in {"draw", "leave"} => ev = <<>>
  /\ plan = "walk" => ev # <<>> /\ x > 0 /\ ev[Len(ev)].up <= x

\* Kills made: of the events behind drive that are no arrival's.
Killed == {k \in 1..Len(ev) : ev[k].down > 0 /\ (k < at.event \/ (k = at.event /\ at.half = "start"))}

\* The first event is an arrival: the node is launched down.
ArrivesLate == ev # <<>> /\ ev[1].down = 0

\* How far drive has come, and what the node is then.
DriveInv ==
  IF plan \in {"driven", "done"}
  THEN /\ at.event \in 1..Len(ev) + 1 /\ (at.half = "start" => at.event <= Len(ev))
       /\ \A k \in 1..at.event - 1 : ev[k].up < Window
       /\ (at.half = "kill" /\ (at.event = 1 => ~ ArrivesLate)) => up = TRUE
       /\ (at.half = "start" \/ (at.event = 1 /\ ArrivesLate)) => up = FALSE
       /\ plan = "done" => at.event > Len(ev) \/ (at.half = "start" /\ ev[at.event].up >= Window)
  ELSE calls = <<>> /\ at.event = 1 /\ at.half = "kill"

\* The calls made so far.
CallInv ==
  /\ \A k \in 1..Len(calls) :
       /\ calls[k].ok /\ calls[k].time < Window
       /\ k > 1 => calls[k - 1].time <= calls[k].time
       /\ at.half = "start" => calls[k].time <= ev[at.event].down
       /\ at.half = "kill" => at.event > 1 /\ calls[k].time <= ev[at.event - 1].up
  /\ Cardinality(Made("kill")) = Cardinality(Killed)
  /\ Cardinality(Made("start")) = Cardinality(1..at.event - 1)

ChurnInv == ChurnTypeOK /\ PlanInv /\ DriveInv /\ CallInv

LEMMA AbsenceTimes ==
  ASSUME ev \in Seq(Absence)
  PROVE  \A k \in 1..Len(ev) : ev[k].down \in Nat /\ ev[k].up \in Nat
<1>1. \A k \in 1..Len(ev) : ev[k] \in Absence
  OBVIOUS
<1> QED
  BY <1>1 DEF Absence

LEMMA GapFacts == \A g \in Gap : g \in Nat /\ g > 0
<1>1. Unit \in Nat \ {0} /\ GapCrawls \subseteq Nat \ {0}
  BY ChurnPlanAssumption
<1>2. \A g \in Nat \ {0} : g * Unit \in Nat /\ g * Unit > 0
  BY <1>1
<1> QED
  BY <1>1, <1>2 DEF Gap

LEMMA PlanConstants == Window \in Nat /\ Window > 0 /\ Unit \in Nat /\ Unit > 0
BY ChurnPlanAssumption

LEMMA ChurnInitInv == ChurnInit => ChurnInv
<1> SUFFICES ASSUME ChurnInit PROVE ChurnInv
  OBVIOUS
<1>1. ChurnTypeOK /\ PlanInv /\ DriveInv
  BY DEF ChurnInit, ChurnTypeOK, PlanInv, Ordered, DriveInv
<1>2. Made("kill") = {} /\ Made("start") = {} /\ Killed = {} /\ 1..at.event - 1 = {}
  BY DEF ChurnInit, Made, Killed
<1>3. /\ Cardinality(Made("kill")) = Cardinality(Killed)
      /\ Cardinality(Made("start")) = Cardinality(1..at.event - 1)
  BY <1>2, Zenon
<1>4. \A k \in 1..Len(calls) : FALSE
  BY DEF ChurnInit
<1>5. CallInv
  BY <1>3, <1>4, Zenon DEF CallInv
<1> QED
  BY <1>1, <1>5 DEF ChurnInv

\* While the plan is drawn there are no calls.
LEMMA NoCallsYet ==
  ASSUME ChurnInv, plan \notin {"driven", "done"}, UNCHANGED <<calls, at, up>>, ev' \in Seq(Absence)
  PROVE  CallInv'
<1>1. calls = <<>> /\ at.event = 1 /\ at.half = "kill"
  BY DEF ChurnInv, DriveInv
<1>2. Made("kill")' = {} /\ Made("start")' = {} /\ (1..at.event - 1)' = {}
  BY <1>1 DEF Made
<1>3. Killed' = {}
  <2>1. \A k \in 1..Len(ev') : ~ (k < 1)
    OBVIOUS
  <2> QED
    BY <1>1, <2>1 DEF Killed
<1>4. (\A k \in 1..Len(calls) : FALSE)'
  BY <1>1
<1>5. /\ Cardinality(Made("kill"))' = Cardinality(Killed)'
      /\ Cardinality(Made("start"))' = Cardinality(1..at.event - 1)'
  BY <1>2, <1>3, Zenon
<1> QED
  BY <1>4, <1>5, Zenon DEF CallInv

LEMMA DrawStep ==
  ASSUME ChurnInv, DrawArrival \/ DrawAlwaysOn \/ DrawDeparture
  PROVE  ChurnInv'
<1>1. plan = "draw" /\ ev = <<>> /\ UNCHANGED <<calls, at, up>> /\ plan' \notin {"driven", "done"}
  BY DEF DrawArrival, DrawAlwaysOn, DrawDeparture, ChurnInv, PlanInv
<1>2. CASE DrawArrival
  <2>1. PICK arrive \in Times : ev' = <<[down |-> 0, up |-> arrive]>> /\ x' = arrive + Unit /\ plan' = "walk"
    BY <1>2 DEF DrawArrival
  <2>2. arrive \in Nat /\ Window \in Nat /\ Window > 0 /\ Unit \in Nat /\ Unit > 0
    BY PlanConstants DEF Times
  <2>3. [down |-> 0, up |-> arrive] \in Absence
    BY <2>2 DEF Absence
  <2>4. ev' \in Seq(Absence) /\ Len(ev') = 1 /\ ev'[1].down = 0 /\ ev'[1].up = arrive
    BY <2>1, <2>3
  <2>5. x' \in Nat /\ x' > 0 /\ arrive <= x'
    BY <2>1, <2>2
  <2>6. ChurnTypeOK'
    BY <1>1, <2>1, <2>4, <2>5 DEF ChurnInv, ChurnTypeOK
  <2>7. PlanInv'
    BY <2>1, <2>2, <2>4, <2>5 DEF PlanInv, Ordered
  <2>8. DriveInv'
    BY <1>1 DEF ChurnInv, DriveInv
  <2> QED
    BY <1>1, <2>4, <2>6, <2>7, <2>8, NoCallsYet DEF ChurnInv
<1>3. CASE DrawAlwaysOn \/ DrawDeparture
  <2>1. ev' = ev /\ x' \in Nat /\ plan' \in {"leave", "drive"}
    BY <1>3, PlanConstants DEF DrawAlwaysOn, DrawDeparture, Times, ChurnInv, ChurnTypeOK
  <2>2. ChurnTypeOK' /\ PlanInv' /\ DriveInv'
    BY <1>1, <2>1 DEF ChurnInv, ChurnTypeOK, PlanInv, Ordered, DriveInv
  <2> QED
    BY <1>1, <2>1, <2>2, NoCallsYet DEF ChurnInv, ChurnTypeOK
<1> QED
  BY <1>2, <1>3

LEMMA LeaveStep ==
  ASSUME ChurnInv, LeaveForever \/ LeaveGap
  PROVE  ChurnInv'
<1>1. /\ plan \in {"walk", "leave"} /\ x < Window /\ UNCHANGED <<calls, at, up>>
      /\ plan' \in {"walk", "drive"} /\ x \in Nat /\ ev \in Seq(Absence)
  BY DEF LeaveForever, LeaveGap, Leaving, ChurnInv, ChurnTypeOK
<1>2. PICK r \in Nat : /\ ev' = Append(ev, [down |-> x, up |-> r]) /\ x <= r
                       /\ x' \in Nat /\ (plan' = "walk" => x' = r /\ r > 0)
  <2>1. CASE LeaveForever
    BY <1>1, <2>1, PlanConstants DEF LeaveForever
  <2>2. CASE LeaveGap
    <3>1. PICK g \in Gap : ev' = Append(ev, [down |-> x, up |-> x + g]) /\ x' = x + g
      BY <2>2 DEF LeaveGap
    <3>2. g \in Nat /\ g > 0
      BY GapFacts
    <3>3. x + g \in Nat /\ x <= x + g /\ x + g > 0
      BY <1>1, <3>2
    <3> QED
      BY <3>1, <3>3
  <2> QED
    BY <2>1, <2>2
<1> DEFINE a == [down |-> x, up |-> r]
           n == Len(ev)
<1>3. a \in Absence /\ a.down = x /\ a.up = r
  BY <1>1 DEF Absence
<1>4. ev' = Append(ev, a)
  BY <1>2
<1> HIDE DEF a
<1>5. /\ ev' \in Seq(Absence) /\ n \in Nat /\ Len(ev') = n + 1 /\ ev'[n + 1] = a
      /\ \A k \in 1..n : ev'[k] = ev[k]
  BY <1>1, <1>3, <1>4
<1>6. n > 0 => x > 0 /\ ev[n].up <= x
  BY <1>1 DEF ChurnInv, PlanInv
<1>7. Ordered'
  <2> SUFFICES ASSUME NEW k \in 1..n + 1
               PROVE  /\ ev'[k].down <= ev'[k].up /\ ev'[k].down < Window
                      /\ k > 1 => ev'[k - 1].up <= ev'[k].down /\ ev'[k].down > 0
    BY <1>5 DEF Ordered
  <2>1. CASE k \in 1..n
    <3>1. k > 1 => k - 1 \in 1..n
      BY <1>5, <2>1
    <3>2. ev'[k] = ev[k] /\ (k > 1 => ev'[k - 1] = ev[k - 1])
      BY <1>5, <2>1, <3>1
    <3> QED
      BY <2>1, <3>2 DEF ChurnInv, PlanInv, Ordered
  <2>2. CASE k = n + 1
    <3>1. ev'[k].down = x /\ ev'[k].up = r
      BY <1>3, <1>5, <2>2
    <3>2. ASSUME k > 1 PROVE ev'[k - 1].up <= x /\ x > 0
      <4>1. n > 0 /\ k - 1 = n /\ n \in 1..n
        BY <1>5, <2>2, <3>2
      <4>2. ev'[k - 1] = ev[n]
        BY <1>5, <4>1
      <4> QED
        BY <1>6, <4>1, <4>2
    <3> QED
      BY <1>1, <1>2, <3>1, <3>2
  <2> QED
    BY <1>5, <2>1, <2>2
<1>8. ChurnTypeOK'
  BY <1>1, <1>2, <1>5 DEF ChurnInv, ChurnTypeOK
<1>9. PlanInv'
  <2>1. plan' = "walk" => ev' # <<>> /\ x' > 0 /\ ev'[Len(ev')].up <= x'
    <3>1. ev'[Len(ev')].up = r /\ ev' # <<>>
      BY <1>3, <1>5
    <3> QED
      BY <1>2, <3>1
  <2> QED
    BY <1>1, <1>7, <2>1 DEF PlanInv
<1>10. DriveInv'
  BY <1>1 DEF ChurnInv, DriveInv
<1> QED
  BY <1>1, <1>5, <1>8, <1>9, <1>10, NoCallsYet DEF ChurnInv

LEMMA StayStep ==
  ASSUME ChurnInv, Stay \/ EndOfWindow
  PROVE  ChurnInv'
<1>1. /\ plan = "walk" /\ plan' \in {"walk", "drive"} /\ UNCHANGED <<ev, calls, at, up>>
      /\ x \in Nat /\ ev \in Seq(Absence) /\ (x' = x \/ x' = x + Unit)
  BY DEF Stay, EndOfWindow, ChurnInv, ChurnTypeOK
<1>2. PICK y \in Nat : x' = y /\ x <= y
  BY <1>1, PlanConstants
<1>3. ev # <<>> /\ x > 0 /\ ev[Len(ev)].up <= x /\ ev[Len(ev)].up \in Nat
  <2>1. ev # <<>> /\ x > 0 /\ ev[Len(ev)].up <= x
    BY <1>1 DEF ChurnInv, PlanInv
  <2>2. Len(ev) \in 1..Len(ev)
    BY <1>1, <2>1
  <2>3. ev[Len(ev)] \in Absence
    BY <1>1, <2>2
  <2> QED
    BY <2>1, <2>3 DEF Absence
<1>4. ChurnTypeOK'
  BY <1>1, <1>2 DEF ChurnInv, ChurnTypeOK
<1>5. PlanInv'
  BY <1>1, <1>2, <1>3 DEF ChurnInv, PlanInv, Ordered
<1>6. DriveInv'
  BY <1>1 DEF ChurnInv, DriveInv
<1> QED
  BY <1>1, <1>4, <1>5, <1>6, NoCallsYet DEF ChurnInv

-----------------------------------------------------------------------------
(* drive *)

\* One more call.
LEMMA CallFacts ==
  ASSUME calls \in Seq(CallRecord), NEW c \in CallRecord, calls' = Append(calls, c)
  PROVE  /\ calls' \in Seq(CallRecord) /\ Len(calls) \in Nat /\ Len(calls') = Len(calls) + 1
         /\ calls'[Len(calls) + 1] = c /\ \A k \in 1..Len(calls) : calls'[k] = calls[k]
         /\ \A op \in {"kill", "start"} :
              /\ Cardinality(Made(op)) \in Nat
              /\ Cardinality(Made(op)') = IF op = c.op THEN Cardinality(Made(op)) + 1 ELSE Cardinality(Made(op))
<1> DEFINE n == Len(calls)
<1>1. /\ calls' \in Seq(CallRecord) /\ n \in Nat /\ Len(calls') = n + 1
      /\ calls'[n + 1] = c /\ \A k \in 1..n : calls'[k] = calls[k]
  OBVIOUS
<1>2. ASSUME NEW op \in {"kill", "start"}
      PROVE  /\ Cardinality(Made(op)) \in Nat
             /\ Cardinality(Made(op)') = IF op = c.op THEN Cardinality(Made(op)) + 1 ELSE Cardinality(Made(op))
  <2>1. Made(op) = {k \in 1..n : calls[k].op = op} /\ Made(op)' = {k \in 1..n + 1 : calls'[k].op = op}
    BY <1>1 DEF Made
  <2>2. 1..n + 1 = 1..n \cup {n + 1} /\ n + 1 \notin 1..n
    BY <1>1
  <2>3. Made(op)' = IF op = c.op THEN Made(op) \cup {n + 1} ELSE Made(op)
    BY <1>1, <2>1, <2>2
  <2>4. IsFiniteSet(1..n) /\ Made(op) \in SUBSET (1..n) /\ n + 1 \notin Made(op)
    BY <1>1, <2>1, <2>2, FS_Interval
  <2>5. IsFiniteSet(Made(op))
    BY <2>4, FS_Subset
  <2>6. Cardinality(Made(op)) \in Nat /\ Cardinality(Made(op) \cup {n + 1}) = Cardinality(Made(op)) + 1
    BY <2>4, <2>5, FS_CardinalityType, FS_AddElement
  <2> QED
    BY <2>3, <2>6
<1> QED
  BY <1>1, <1>2

LEMMA KilledFinite ==
  ASSUME ev \in Seq(Absence)
  PROVE  IsFiniteSet(Killed) /\ Cardinality(Killed) \in Nat
<1>1. IsFiniteSet(1..Len(ev)) /\ Killed \in SUBSET (1..Len(ev))
  BY FS_Interval DEF Killed
<1>2. IsFiniteSet(Killed)
  BY <1>1, FS_Subset
<1> QED
  BY <1>2, FS_CardinalityType

LEMMA LaunchStep ==
  ASSUME ChurnInv, Launch
  PROVE  ChurnInv'
<1>1. /\ plan = "drive" /\ plan' = "driven" /\ UNCHANGED <<ev, x, at, calls>>
      /\ up' = ~ (ev # <<>> /\ ev[1].down = 0)
  BY DEF Launch
<1>2. at.event = 1 /\ at.half = "kill" /\ ev \in Seq(Absence)
  BY <1>1 DEF ChurnInv, DriveInv, ChurnTypeOK
<1>3. ChurnTypeOK' /\ PlanInv'
  BY <1>1 DEF ChurnInv, ChurnTypeOK, PlanInv, Ordered
<1>4. DriveInv'
  <2>1. Len(ev) \in Nat /\ 1 \in 1..Len(ev) + 1 /\ \A k \in 1..1 - 1 : FALSE
    BY <1>2
  <2> QED
    BY <1>1, <1>2, <2>1 DEF DriveInv, ArrivesLate
<1>5. CallInv'
  BY <1>1 DEF ChurnInv, CallInv, Made, Killed
<1> QED
  BY <1>3, <1>4, <1>5 DEF ChurnInv

LEMMA DriveReturnsStep ==
  ASSUME ChurnInv, DriveReturns
  PROVE  ChurnInv'
<1>1. plan = "driven" /\ plan' = "done" /\ UNCHANGED <<ev, x, at, up, calls>>
  BY DEF DriveReturns
<1>2. ChurnTypeOK' /\ PlanInv'
  BY <1>1 DEF ChurnInv, ChurnTypeOK, PlanInv, Ordered
<1>3. at.event > Len(ev) \/ (at.half = "start" /\ ev[at.event].up >= Window)
  <2>1. CASE Driving /\ at.half = "kill" /\ Event.down >= Window
    <3>1. at.event \in 1..Len(ev)
      BY <2>1 DEF Driving, ChurnInv, ChurnTypeOK
    <3>2. ev[at.event].down \in Nat
      BY <3>1, AbsenceTimes DEF ChurnInv, ChurnTypeOK
    <3>3. ev[at.event].down < Window
      BY <3>1 DEF ChurnInv, PlanInv, Ordered
    <3>4. ev[at.event].down >= Window
      BY <2>1 DEF Event
    <3> QED
      BY <3>2, <3>3, <3>4, PlanConstants
  <2> QED
    BY <2>1 DEF DriveReturns, Driving, Event
<1>4. DriveInv'
  BY <1>1, <1>3 DEF ChurnInv, DriveInv, ArrivesLate
<1>5. CallInv'
  BY <1>1 DEF ChurnInv, CallInv, Made, Killed
<1> QED
  BY <1>2, <1>4, <1>5 DEF ChurnInv

LEMMA KillStep ==
  ASSUME ChurnInv, Kill
  PROVE  ChurnInv'
<1> DEFINE e == at.event
           n == Len(calls)
<1>1. /\ plan = "driven" /\ e <= Len(ev) /\ at.half = "kill" /\ UNCHANGED <<ev, x, plan>>
      /\ at' = [at EXCEPT !.half = "start"]
      /\ IF ev[e].down > 0 THEN Call("kill", ev[e].down) /\ up' = FALSE ELSE UNCHANGED <<calls, up>>
  BY DEF Kill, Driving, Event
<1>2. /\ ev \in Seq(Absence) /\ Len(ev) \in Nat /\ e \in 1..Len(ev) /\ e \in Nat /\ calls \in Seq(CallRecord)
      /\ n \in Nat /\ up \in BOOLEAN
  BY <1>1 DEF ChurnInv, ChurnTypeOK
<1>3. /\ at'.event = e /\ at'.half = "start" /\ at' \in [event : Nat \ {0}, half : {"kill", "start"}]
  BY <1>1 DEF ChurnInv, ChurnTypeOK
<1>4. \A k \in 1..Len(ev) : ev[k].down \in Nat /\ ev[k].up \in Nat
  BY <1>2, AbsenceTimes
<1>5. /\ ev[e].down < Window /\ ev[e].down \in Nat /\ Window \in Nat
      /\ e > 1 => ev[e - 1].up <= ev[e].down /\ ev[e].down > 0 /\ ev[e - 1].up \in Nat
  <2>1. e > 1 => e - 1 \in 1..Len(ev)
    BY <1>2
  <2> QED
    BY <1>2, <1>4, <2>1, PlanConstants DEF ChurnInv, PlanInv, Ordered
<1>6. \A k \in 1..n : /\ calls[k].ok /\ calls[k].time < Window /\ e > 1 /\ calls[k].time <= ev[e - 1].up
                      /\ k > 1 => calls[k - 1].time <= calls[k].time
  BY <1>1 DEF ChurnInv, CallInv
<1>7. /\ (e = 1 => ~ ArrivesLate) => up = TRUE
      /\ e = 1 /\ ArrivesLate => up = FALSE
      /\ \A k \in 1..e - 1 : ev[k].up < Window
  BY <1>1 DEF ChurnInv, DriveInv
<1>8. Killed = {k \in 1..Len(ev) : ev[k].down > 0 /\ k < e}
  BY <1>1 DEF Killed
<1>9. Killed' = {k \in 1..Len(ev) : ev[k].down > 0 /\ (k < e \/ k = e)}
  BY <1>1, <1>3 DEF Killed
<1>10. /\ Cardinality(Made("kill")) = Cardinality(Killed)
       /\ Cardinality(Made("start")) = Cardinality(1..e - 1)
  BY DEF ChurnInv, CallInv
<1>11. CASE ev[e].down > 0
  <2>1. up = TRUE
    <3>1. e = 1 => ~ ArrivesLate
      BY <1>5, <1>11 DEF ArrivesLate
    <3> QED
      BY <1>7, <3>1
  <2> DEFINE c == [op |-> "kill", time |-> ev[e].down, ok |-> up = ("kill" = "kill")]
  <2>2. c \in CallRecord /\ c.op = "kill" /\ c.time = ev[e].down /\ c.ok
    BY <1>5, <2>1 DEF CallRecord
  <2>3. calls' = Append(calls, c) /\ up' = FALSE
    BY <1>1, <1>11 DEF Call
  <2> HIDE DEF c
  <2>4. /\ calls' \in Seq(CallRecord) /\ Len(calls') = n + 1
        /\ calls'[n + 1] = c /\ \A k \in 1..n : calls'[k] = calls[k]
        /\ Cardinality(Made("kill")) \in Nat /\ Cardinality(Made("kill")') = Cardinality(Made("kill")) + 1
        /\ Cardinality(Made("start")') = Cardinality(Made("start"))
    BY <1>2, <2>2, <2>3, CallFacts
  <2>5. Killed' = Killed \cup {e} /\ e \notin Killed
    BY <1>2, <1>8, <1>9, <1>11
  <2>6. Cardinality(Killed') = Cardinality(Killed) + 1
    BY <1>2, <2>5, KilledFinite, FS_AddElement
  <2>7. ASSUME NEW k \in 1..n + 1
        PROVE  /\ calls'[k].ok /\ calls'[k].time < Window /\ calls'[k].time <= ev[e].down
               /\ k > 1 => calls'[k - 1].time <= calls'[k].time
    <3>1. ASSUME NEW j \in 1..n
          PROVE  calls'[j] = calls[j] /\ calls[j].time \in Nat /\ calls[j].time <= ev[e].down
      <4>1. calls[j] \in CallRecord
        BY <1>2
      <4>2. calls[j].time \in Nat
        BY <4>1 DEF CallRecord
      <4> QED
        BY <1>5, <1>6, <2>4, <4>2, SMTT(30)
    <3>2. CASE k \in 1..n
      <4>1. k > 1 => k - 1 \in 1..n
        BY <1>2, <3>2
      <4> QED
        BY <1>6, <3>1, <3>2, <4>1
    <3>3. CASE k = n + 1
      <4>1. k > 1 => k - 1 = n /\ n \in 1..n
        BY <1>2, <3>3
      <4>2. calls'[k] = c
        BY <2>4, <3>3
      <4> QED
        BY <1>5, <2>2, <3>1, <4>1, <4>2
    <3> QED
      BY <1>2, <3>2, <3>3
  <2>8. CallInv'
    <3>1. Cardinality(Made("kill"))' = Cardinality(Killed)' /\ Cardinality(Made("start"))' = Cardinality(1..at.event - 1)'
      BY <1>3, <1>10, <2>4, <2>6
    <3> QED
      BY <1>1, <1>3, <2>4, <2>7, <3>1 DEF CallInv
  <2>9. DriveInv'
    <3>1. e \in 1..Len(ev) + 1 /\ e <= Len(ev)
      BY <1>2
    <3> QED
      BY <1>1, <1>3, <1>7, <2>3, <3>1 DEF DriveInv
  <2>10. ChurnTypeOK' /\ PlanInv'
    BY <1>1, <1>3, <2>3, <2>4 DEF ChurnInv, ChurnTypeOK, PlanInv, Ordered
  <2> QED
    BY <2>8, <2>9, <2>10 DEF ChurnInv
<1>12. CASE ~ (ev[e].down > 0)
  <2>1. ev[e].down = 0 /\ e = 1 /\ calls' = calls /\ up' = up
    BY <1>1, <1>2, <1>5, <1>12
  <2>2. ev # <<>> /\ up = FALSE
    <3>1. ev # <<>>
      BY <1>2
    <3> QED
      BY <1>7, <2>1, <3>1 DEF ArrivesLate
  <2>3. Killed' = Killed
    BY <1>2, <1>8, <1>9, <2>1
  <2>4. \A k \in 1..n : FALSE
    BY <1>6, <2>1
  <2>5. CallInv'
    <3>1. Made("kill")' = Made("kill") /\ Made("start")' = Made("start")
      BY <2>1 DEF Made
    <3>2. Cardinality(Made("kill"))' = Cardinality(Killed)' /\ Cardinality(Made("start"))' = Cardinality(1..at.event - 1)'
      BY <1>3, <1>10, <2>3, <3>1
    <3>3. \A k \in 1..Len(calls') : FALSE
      BY <2>1, <2>4
    <3> QED
      BY <3>2, <3>3 DEF CallInv
  <2>6. DriveInv'
    <3>1. e \in 1..Len(ev) + 1 /\ e <= Len(ev)
      BY <1>2
    <3> QED
      BY <1>1, <1>3, <1>7, <2>1, <2>2, <3>1 DEF DriveInv
  <2>7. ChurnTypeOK' /\ PlanInv'
    BY <1>1, <1>3, <2>1 DEF ChurnInv, ChurnTypeOK, PlanInv, Ordered
  <2> QED
    BY <2>5, <2>6, <2>7 DEF ChurnInv
<1> QED
  BY <1>11, <1>12

LEMMA StartStep ==
  ASSUME ChurnInv, Start
  PROVE  ChurnInv'
<1> DEFINE e == at.event
           n == Len(calls)
<1>1. /\ plan = "driven" /\ e <= Len(ev) /\ at.half = "start" /\ UNCHANGED <<ev, x, plan>>
      /\ at' = [event |-> e + 1, half |-> "kill"] /\ ev[e].up < Window
      /\ Call("start", ev[e].up) /\ up' = TRUE
  BY DEF Start, Driving, Event
<1>2. /\ ev \in Seq(Absence) /\ Len(ev) \in Nat /\ e \in 1..Len(ev) /\ e \in Nat /\ calls \in Seq(CallRecord)
      /\ n \in Nat
  BY <1>1 DEF ChurnInv, ChurnTypeOK
<1>3. /\ at'.event = e + 1 /\ at'.half = "kill" /\ at' \in [event : Nat \ {0}, half : {"kill", "start"}]
  BY <1>1, <1>2
<1>4. \A k \in 1..Len(ev) : ev[k].down \in Nat /\ ev[k].up \in Nat
  BY <1>2, AbsenceTimes
<1>5. ev[e].down <= ev[e].up /\ ev[e].down \in Nat /\ ev[e].up \in Nat /\ Window \in Nat
  BY <1>2, <1>4, PlanConstants DEF ChurnInv, PlanInv, Ordered
<1>6. \A k \in 1..n : /\ calls[k].ok /\ calls[k].time < Window /\ calls[k].time <= ev[e].down
                      /\ k > 1 => calls[k - 1].time <= calls[k].time
  BY <1>1 DEF ChurnInv, CallInv
<1>7. up = FALSE /\ \A k \in 1..e - 1 : ev[k].up < Window
  BY <1>1 DEF ChurnInv, DriveInv
<1>8. Killed' = Killed
  <2>1. Killed = {k \in 1..Len(ev) : ev[k].down > 0 /\ (k < e \/ k = e)}
    BY <1>1 DEF Killed
  <2>2. Killed' = {k \in 1..Len(ev) : ev[k].down > 0 /\ k < e + 1}
    BY <1>1, <1>3 DEF Killed
  <2> QED
    BY <1>2, <2>1, <2>2
<1>9. /\ Cardinality(Made("kill")) = Cardinality(Killed)
      /\ Cardinality(Made("start")) = Cardinality(1..e - 1)
  BY DEF ChurnInv, CallInv
<1> DEFINE c == [op |-> "start", time |-> ev[e].up, ok |-> up = ("start" = "kill")]
<1>10. c \in CallRecord /\ c.op = "start" /\ c.time = ev[e].up /\ c.ok
  BY <1>5, <1>7 DEF CallRecord
<1>11. calls' = Append(calls, c)
  BY <1>1 DEF Call
<1> HIDE DEF c
<1>12. /\ calls' \in Seq(CallRecord) /\ Len(calls') = n + 1
       /\ calls'[n + 1] = c /\ \A k \in 1..n : calls'[k] = calls[k]
       /\ Cardinality(Made("start")) \in Nat /\ Cardinality(Made("start")') = Cardinality(Made("start")) + 1
       /\ Cardinality(Made("kill")') = Cardinality(Made("kill"))
  BY <1>2, <1>10, <1>11, CallFacts
<1>13. Cardinality(1..e) = Cardinality(1..e - 1) + 1
  <2>1. e \in Int /\ e - 1 \in Int /\ 1 \in Int /\ ~ (1 > e) /\ e - 1 + 1 = e
    BY <1>2
  <2>2. Cardinality(1..e) = e - 1 + 1
    BY <2>1, FS_Interval
  <2>3. Cardinality(1..e - 1) = e - 1
    <3>1. CASE 1 > e - 1
      <4>1. 1..e - 1 = {} /\ e - 1 = 0
        BY <1>2, <3>1
      <4> QED
        BY <4>1, FS_EmptySet
    <3>2. CASE ~ (1 > e - 1)
      <4>1. Cardinality(1..e - 1) = (e - 1) - 1 + 1
        BY <2>1, <3>2, FS_Interval
      <4> QED
        BY <2>1, <4>1
    <3> QED
      BY <3>1, <3>2
  <2> QED
    BY <2>1, <2>2, <2>3
<1>14. ASSUME NEW k \in 1..n + 1
       PROVE  /\ calls'[k].ok /\ calls'[k].time < Window /\ calls'[k].time <= ev[e].up
              /\ k > 1 => calls'[k - 1].time <= calls'[k].time
  <2>1. ASSUME NEW j \in 1..n
        PROVE  calls'[j] = calls[j] /\ calls[j].time \in Nat /\ calls[j].time <= ev[e].up
    <3>1. calls[j] \in CallRecord
      BY <1>2
    <3>2. calls[j].time \in Nat
      BY <3>1 DEF CallRecord
    <3> QED
      BY <1>5, <1>6, <1>12, <3>2
  <2>2. CASE k \in 1..n
    <3>1. k > 1 => k - 1 \in 1..n
      BY <1>2, <2>2
    <3> QED
      BY <1>6, <2>1, <2>2, <3>1
  <2>3. CASE k = n + 1
    <3>1. k > 1 => k - 1 = n /\ n \in 1..n
      BY <1>2, <2>3
    <3>2. calls'[k] = c
      BY <1>12, <2>3
    <3> QED
      BY <1>1, <1>5, <1>10, <2>1, <3>1, <3>2
  <2> QED
    BY <1>2, <2>2, <2>3
<1>15. CallInv'
  <2>1. (e + 1) - 1 = e /\ e + 1 > 1
    BY <1>2
  <2>2. Cardinality(Made("kill"))' = Cardinality(Killed)' /\ Cardinality(Made("start"))' = Cardinality(1..at.event - 1)'
    BY <1>3, <1>8, <1>9, <1>12, <1>13, <2>1
  <2> QED
    BY <1>1, <1>3, <1>12, <1>14, <2>1, <2>2 DEF CallInv
<1>16. DriveInv'
  <2>1. e + 1 \in 1..Len(ev) + 1 /\ e + 1 # 1 /\ (\A k \in 1..(e + 1) - 1 : k = e \/ k \in 1..e - 1)
    BY <1>2
  <2>2. \A k \in 1..(e + 1) - 1 : ev[k].up < Window
    BY <1>1, <1>7, <2>1
  <2> QED
    BY <1>1, <1>3, <2>1, <2>2 DEF DriveInv
<1>17. ChurnTypeOK' /\ PlanInv'
  BY <1>1, <1>3, <1>12 DEF ChurnInv, ChurnTypeOK, PlanInv, Ordered
<1> QED
  BY <1>15, <1>16, <1>17 DEF ChurnInv

LEMMA ChurnInvariant == ChurnSpec => []ChurnInv
<1>1. ChurnInv /\ UNCHANGED churnVars => ChurnInv'
  BY DEF churnVars, ChurnInv, ChurnTypeOK, PlanInv, Ordered, DriveInv, ArrivesLate, CallInv, Made, Killed
<1>2. ChurnInv /\ [ChurnNext]_churnVars => ChurnInv'
  BY <1>1, DrawStep, LeaveStep, StayStep, LaunchStep, KillStep, StartStep, DriveReturnsStep DEF ChurnNext
<1> QED
  BY <1>2, ChurnInitInv, PTL DEF ChurnSpec

\* ScheduleTopic, drive and planned: for every window, crawl interval and length of
\* absence, and whatever is drawn, drive makes exactly the calls that planned
\* counts, in the order of their times and before StopAt, and the node refuses none.
THEOREM CallsAsPlanned == ChurnSpec => []DrivenAsPlanned
<1>1. ChurnInv => DrivenAsPlanned
  <2> SUFFICES ASSUME ChurnInv PROVE DrivenAsPlanned
    OBVIOUS
  <2>1. /\ ev \in Seq(Absence) /\ calls \in Seq(CallRecord) /\ Len(ev) \in Nat
        /\ at.event \in Nat /\ Window \in Nat
    BY PlanConstants DEF ChurnInv, ChurnTypeOK
  <2>2. \A k \in 1..Len(ev) : ev[k].down \in Nat /\ ev[k].up \in Nat
    BY <2>1, AbsenceTimes
  <2>3. \A k \in DOMAIN calls : /\ calls[k].ok /\ calls[k].time < Window
                                /\ k > 1 => calls[k - 1].time <= calls[k].time
    BY <2>1 DEF ChurnInv, CallInv
  <2>4. ASSUME plan = "done" PROVE PlannedDeparts = Killed /\ PlannedRejoins = 1..at.event - 1
    <3> DEFINE e == at.event
               m == Len(ev)
    <3>1. /\ e \in 1..m + 1 /\ (at.half = "start" => e <= m) /\ (\A k \in 1..e - 1 : ev[k].up < Window)
          /\ e > m \/ (at.half = "start" /\ ev[e].up >= Window)
      BY <2>4 DEF ChurnInv, DriveInv
    <3>2. \A k \in 1..m : ev[k].down < Window
      BY DEF ChurnInv, PlanInv, Ordered
    <3>3. ASSUME NEW k \in 1..m PROVE k \in Reached <=> k <= e
      <4>1. ASSUME k <= e PROVE k \in Reached
        <5>1. \A j \in 1..k - 1 : j \in 1..e - 1 /\ j \in 1..m
          BY <2>1, <4>1
        <5>2. \A j \in 1..k - 1 : ev[j].down < Window /\ ev[j].up < Window
          BY <3>1, <3>2, <5>1
        <5> QED
          BY <2>1, <5>2 DEF Reached
      <4>2. ASSUME ~ (k <= e) PROVE k \notin Reached
        <5>1. e \in 1..k - 1 /\ e \in 1..m /\ ~ (e > m)
          BY <2>1, <3>1, <4>2
        <5>2. ev[e].up >= Window /\ ev[e].up \in Nat
          BY <2>2, <3>1, <5>1
        <5>3. ~ (ev[e].up < Window)
          BY <2>1, <5>2
        <5> QED
          BY <5>1, <5>3 DEF Reached
      <4> QED
        BY <4>1, <4>2
    <3>4. DOMAIN ev = 1..m /\ Reached \subseteq 1..m
      BY <2>1 DEF Reached
    <3>5. \A k \in 1..m : k \in PlannedDeparts <=> k \in Killed
      <4>1. \A k \in 1..m : k <= e <=> (k < e \/ (k = e /\ at.half = "start"))
        BY <2>1, <3>1
      <4> QED
        BY <3>2, <3>3, <4>1 DEF PlannedDeparts, Killed
    <3>6. \A k \in 1..m : k \in PlannedRejoins <=> k \in 1..e - 1
      <4>1. \A k \in 1..m : k \in PlannedRejoins <=> k <= e /\ ev[k].up < Window
        BY <3>2, <3>3 DEF PlannedRejoins
      <4>2. ASSUME NEW k \in 1..m, k = e PROVE ~ (ev[k].up < Window)
        <5>1. ev[k].up >= Window
          BY <2>1, <3>1, <4>2
        <5> QED
          BY <2>1, <2>2, <5>1
      <4>3. \A k \in 1..m : k \in 1..e - 1 <=> k <= e /\ k # e
        BY <2>1
      <4> QED
        BY <3>1, <4>1, <4>2, <4>3
    <3>7. PlannedDeparts \subseteq 1..m /\ Killed \subseteq 1..m /\ PlannedRejoins \subseteq 1..m
      BY <3>4 DEF PlannedDeparts, PlannedRejoins, Killed
    <3>8. 1..e - 1 \subseteq 1..m
      BY <2>1, <3>1
    <3> QED
      BY <3>5, <3>6, <3>7, <3>8
  <2>5. plan = "done" => /\ Cardinality(Made("kill")) = Cardinality(PlannedDeparts)
                         /\ Cardinality(Made("start")) = Cardinality(PlannedRejoins)
    BY <2>4 DEF ChurnInv, CallInv
  <2> QED
    BY <2>3, <2>5 DEF DrivenAsPlanned
<1> QED
  BY <1>1, ChurnInvariant, PTL

-----------------------------------------------------------------------------
(* The overhead series *)

SeriesSample == [endpoints : Nat, wire : Nat]

Merging == {"merge", "lastMerge"}

HostTypeOK ==
  /\ instances \in Instances /\ open \in BOOLEAN /\ disc \in Instances \cup {0}
  /\ count \in [Instances -> Nat] /\ packets \in Nat /\ absorbed \in Nat
  /\ churn \in {"up", "absorb", "close", "down", "publish"}

SeriesTypeOK ==
  /\ sampler \in {"idle", "endpoints", "lastEndpoints", "stats", "lastStats", "ended"} \cup Merging
  /\ endpoints \in Nat /\ copy \in Nat /\ live \in Instances \cup {0}
  /\ overhead \in Seq(SeriesSample)
  /\ ticks \in Nat /\ finished \in BOOLEAN

DumpTypeOK ==
  /\ stopping \in BOOLEAN
  /\ dumper \in [Dumpers -> {"running", "waiting", "done"}] /\ dumped \in Nat

\* Every variable has its type.
SimTypeOK == HostTypeOK /\ SeriesTypeOK /\ DumpTypeOK

\* A published instance is the newest and not yet absorbed; an instance that is not
\* absorbed has counted packets that are not in host.wire; one to come has none.
AbsorbedOnce ==
  /\ disc # 0 => churn = "up" /\ disc = instances
  /\ absorbed + (IF churn \in {"publish", "up", "absorb"} THEN count[instances] ELSE 0) <= packets
  /\ \A i \in Instances : i > instances => count[i] = 0

\* What stats has copied and will add was counted once when it was copied, and only
\* grows with the packets since.
SeriesInv ==
  /\ StatsNeverOvercount
  /\ sampler \in Merging => MergeStats(copy, live) <= packets

\* The series is only written when the sampler has taken its last sample, and by one
\* caller: while it waits nobody is past the dump.
DumpInv ==
  /\ DumpIsComplete
  /\ sampler = "ended" => Len(overhead) > 0
  /\ finished => sampler = "ended"
  /\ \A d \in Dumpers : dumper[d] = "done" => finished
  /\ \A d, e \in Dumpers : dumper[d] = "waiting" /\ e # d => dumper[e] = "running"

SimInv == SimTypeOK /\ AbsorbedOnce /\ SeriesInv /\ DumpInv

-----------------------------------------------------------------------------
LEMMA Bounds == MaxInstances \in Nat /\ 1 \in Instances /\ Instances \subseteq Nat \ {0}
BY SimHostAssumption DEF Instances

LEMMA MergedIsNat ==
  ASSUME HostTypeOK, NEW k \in Nat, NEW i \in Instances \cup {0}
  PROVE  MergeStats(k, i) \in Nat
BY DEF HostTypeOK, MergeStats

LEMMA SimInitInv == SimInit => SimInv
<1> SUFFICES ASSUME SimInit PROVE SimInv
  OBVIOUS
<1>1. HostTypeOK
  BY Bounds DEF SimInit, HostTypeOK
<1>2. SeriesTypeOK
  <2>1. <<>> \in Seq(SeriesSample)
    OBVIOUS
  <2> QED
    BY <2>1 DEF SimInit, SeriesTypeOK
<1>3. DumpTypeOK
  BY DEF SimInit, DumpTypeOK
<1>4. AbsorbedOnce
  BY Bounds DEF SimInit, AbsorbedOnce
<1>5. SeriesInv /\ DumpInv
  BY DEF SimInit, SeriesInv, StatsNeverOvercount, DumpInv, DumpIsComplete, Merging
<1> QED
  BY <1>1, <1>2, <1>3, <1>4, <1>5 DEF SimInv, SimTypeOK

-----------------------------------------------------------------------------
(* The host *)

\* What the host does leaves the series and its dumps alone.
LEMMA DumpsStay ==
  ASSUME SimInv, UNCHANGED <<sampleVars, dumpVars>>
  PROVE  SeriesTypeOK' /\ DumpTypeOK' /\ DumpInv'
BY DEF SimInv, SimTypeOK, SeriesTypeOK, DumpTypeOK, DumpInv, DumpIsComplete, sampleVars, dumpVars

LEMMA PacketStep ==
  ASSUME SimInv, Packet
  PROVE  SimInv'
<1>1. /\ instances \in Instances /\ count \in [Instances -> Nat] /\ packets \in Nat /\ absorbed \in Nat
      /\ copy \in Nat /\ live \in Instances \cup {0} /\ overhead \in Seq(SeriesSample)
  BY DEF SimInv, SimTypeOK, HostTypeOK, SeriesTypeOK
<1>2. /\ UNCHANGED <<instances, open, disc, absorbed, churn>> /\ UNCHANGED <<sampleVars, dumpVars>>
      /\ UNCHANGED <<sampler, copy, live, overhead>>
      /\ count' = [count EXCEPT ![instances] = count[instances] + 1]
  BY DEF Packet, sampleVars
<1>3. PICK p \in Nat : packets' = p /\ p = packets + 1
  BY <1>1 DEF Packet
<1>4. /\ count' \in [Instances -> Nat] /\ count'[instances] = count[instances] + 1
      /\ \A i \in Instances : i # instances => count'[i] = count[i]
  BY <1>1, <1>2
<1>5. HostTypeOK'
  BY <1>2, <1>3, <1>4 DEF SimInv, SimTypeOK, HostTypeOK
<1>6. AbsorbedOnce'
  <2>1. absorbed + (IF churn \in {"publish", "up", "absorb"} THEN count[instances] + 1 ELSE 0) <= p
    BY <1>1, <1>3 DEF SimInv, AbsorbedOnce
  <2>2. \A i \in Instances : i > instances => i # instances
    BY <1>1, Bounds
  <2> QED
    BY <1>2, <1>3, <1>4, <2>1, <2>2 DEF SimInv, AbsorbedOnce
<1>7. SeriesInv'
  <2>1. ASSUME NEW i \in 1..Len(overhead) PROVE overhead[i].wire <= p
    <3>1. overhead[i] \in SeriesSample
      BY <1>1, <2>1
    <3>2. overhead[i].wire \in Nat /\ overhead[i].wire <= packets
      BY <2>1, <3>1 DEF SimInv, SeriesInv, StatsNeverOvercount, SeriesSample
    <3> QED
      BY <1>1, <1>3, <3>2
  <2>2. ASSUME sampler \in Merging PROVE copy + (IF live = 0 THEN 0 ELSE count'[live]) <= p
    <3>1. copy + (IF live = 0 THEN 0 ELSE count[live]) <= packets
      BY <2>2 DEF SimInv, SeriesInv, MergeStats
    <3>2. live # 0 => count[live] \in Nat /\ (count'[live] = count[live] \/ count'[live] = count[live] + 1)
      BY <1>1, <1>4
    <3> QED
      BY <1>1, <1>3, <3>1, <3>2
  <2> QED
    BY <1>2, <1>3, <2>1, <2>2 DEF SeriesInv, StatsNeverOvercount, MergeStats
<1> QED
  BY <1>2, <1>5, <1>6, <1>7, DumpsStay DEF SimInv, SimTypeOK

LEMMA ChurnStepInv ==
  ASSUME SimInv, ChurnStep
  PROVE  SimInv'
<1>1. /\ instances \in Instances /\ instances \in Nat /\ instances <= MaxInstances /\ MaxInstances \in Nat
      /\ instances # 0 /\ count \in [Instances -> Nat]
      /\ packets \in Nat /\ absorbed \in Nat
  BY Bounds DEF SimInv, SimTypeOK, HostTypeOK, Instances
<1>2. UNCHANGED <<count, packets>> /\ UNCHANGED <<sampleVars, dumpVars>>
  BY DEF ChurnStep, StopUnpublishes, StopAbsorbs, StopCloses, StartListens, StartPublishes
<1>3. HostTypeOK' /\ AbsorbedOnce'
  <2>1. CASE StopUnpublishes \/ StopCloses \/ StartPublishes
    <3>1. HostTypeOK'
      BY <1>1, <1>2, <2>1 DEF StopUnpublishes, StopCloses, StartPublishes, SimInv, SimTypeOK, HostTypeOK
    <3>2. AbsorbedOnce'
      BY <1>1, <2>1 DEF StopUnpublishes, StopCloses, StartPublishes, SimInv, AbsorbedOnce
    <3> QED
      BY <3>1, <3>2
  <2>2. CASE StopAbsorbs
    <3>1. PICK a \in Nat : absorbed' = a /\ a = absorbed + count[instances]
      BY <1>1, <2>2 DEF StopAbsorbs, MergeStats
    <3>2. churn = "absorb" /\ churn' = "close" /\ UNCHANGED <<instances, open, disc>>
      BY <2>2 DEF StopAbsorbs
    <3>3. absorbed + count[instances] <= packets
      BY <3>2 DEF SimInv, AbsorbedOnce
    <3>4. a + 0 <= packets
      BY <1>1, <3>1, <3>3
    <3> QED
      BY <1>2, <3>1, <3>2, <3>4 DEF SimInv, SimTypeOK, HostTypeOK, AbsorbedOnce
  <2>3. CASE StartListens
    <3>1. PICK k \in Instances : instances' = k /\ k = instances + 1
      BY <1>1, <2>3 DEF StartListens, Instances
    <3>2. churn = "down" /\ open' = TRUE /\ churn' = "publish" /\ UNCHANGED <<disc, absorbed>>
      BY <2>3 DEF StartListens
    <3>3. k > instances /\ \A i \in Instances : i > k => i > instances
      BY <1>1, <3>1, Bounds
    <3>4. count[k] = 0
      BY <3>3 DEF SimInv, AbsorbedOnce
    <3>5. absorbed + 0 <= packets /\ disc = 0
      BY <3>2 DEF SimInv, AbsorbedOnce
    <3>6. HostTypeOK'
      BY <1>2, <3>1, <3>2 DEF SimInv, SimTypeOK, HostTypeOK
    <3>7. AbsorbedOnce'
      BY <1>2, <3>1, <3>2, <3>3, <3>4, <3>5 DEF SimInv, AbsorbedOnce
    <3> QED
      BY <3>6, <3>7
  <2> QED
    BY <2>1, <2>2, <2>3 DEF ChurnStep
<1>4. SeriesInv'
  BY <1>2 DEF SimInv, SeriesInv, StatsNeverOvercount, MergeStats, sampleVars
<1> QED
  BY <1>2, <1>3, <1>4, DumpsStay DEF SimInv, SimTypeOK

-----------------------------------------------------------------------------
(* The sampler and the dumps *)

LEMMA HostStays ==
  ASSUME SimInv, UNCHANGED hostVars
  PROVE  HostTypeOK' /\ AbsorbedOnce'
BY DEF SimInv, SimTypeOK, HostTypeOK, AbsorbedOnce, hostVars

\* Before its last sample the sampler is not finished and nothing is written.
LEMMA NothingWritten ==
  ASSUME SimInv, sampler # "ended"
  PROVE  ~ finished /\ \A d \in Dumpers : dumper[d] # "done"
BY DEF SimInv, DumpInv

LEMMA SamplerStepInv ==
  ASSUME SimInv, SampleTick \/ FinalTick \/ ReadEndpoints \/ CopyStats
  PROVE  SimInv'
<1>1. /\ sampler # "ended" /\ sampler' # "ended" /\ UNCHANGED <<overhead, finished>>
      /\ UNCHANGED <<hostVars, dumpVars>> /\ UNCHANGED packets
  BY DEF SampleTick, FinalTick, ReadEndpoints, CopyStats, hostVars
<1>2. SeriesTypeOK'
  <2>1. Endpoints \in Nat
    <3>1. IsFiniteSet(Instances)
      <4>1. IsFiniteSet(1..MaxInstances)
        BY SimHostAssumption, FS_Interval
      <4> QED
        BY <4>1 DEF Instances
    <3>2. \A i \in Instances : count[i] \in Nat
      BY DEF SimInv, SimTypeOK, HostTypeOK
    <3> QED
      BY <3>1, <3>2, SumNat DEF Endpoints
  <2> QED
    BY <2>1 DEF SimInv, SimTypeOK, HostTypeOK, SeriesTypeOK, SampleTick, FinalTick, ReadEndpoints, CopyStats,
       Merging
<1>3. DumpTypeOK' /\ DumpInv'
  BY <1>1, NothingWritten DEF SimInv, SimTypeOK, DumpTypeOK, DumpInv, DumpIsComplete, dumpVars
<1>4. SeriesInv'
  <2>1. CASE SampleTick \/ FinalTick \/ ReadEndpoints
    <3>1. sampler' \notin Merging
      BY <2>1 DEF SampleTick, FinalTick, ReadEndpoints, Merging
    <3> QED
      BY <1>1, <3>1 DEF SimInv, SeriesInv, StatsNeverOvercount
  <2>2. CASE CopyStats
    <3>1. copy' = absorbed /\ live' = disc /\ UNCHANGED count
      BY <2>2 DEF CopyStats, hostVars
    <3>2. absorbed + (IF disc = 0 THEN 0 ELSE count[disc]) <= packets
      <4>1. CASE disc = 0
        <5>1. /\ absorbed \in Nat /\ packets \in Nat /\ count[instances] \in Nat
          BY DEF SimInv, SimTypeOK, HostTypeOK
        <5>2. absorbed + (IF churn \in {"publish", "up", "absorb"} THEN count[instances] ELSE 0) <= packets
          BY DEF SimInv, AbsorbedOnce
        <5> QED
          BY <4>1, <5>1, <5>2
      <4>2. CASE disc # 0
        <5>1. churn = "up" /\ disc = instances
          BY <4>2 DEF SimInv, AbsorbedOnce
        <5> QED
          BY <4>2, <5>1 DEF SimInv, AbsorbedOnce
      <4> QED
        BY <4>1, <4>2
    <3> QED
      BY <1>1, <3>1, <3>2 DEF SimInv, SeriesInv, StatsNeverOvercount, MergeStats
  <2> QED
    BY <2>1, <2>2
<1> QED
  BY <1>1, <1>2, <1>3, <1>4, HostStays DEF SimInv, SimTypeOK

LEMMA AppendSampleStep ==
  ASSUME SimInv, AppendSample
  PROVE  SimInv'
<1> DEFINE w == MergeStats(copy, live)
           v == [endpoints |-> endpoints, wire |-> w]
           k == Len(overhead)
<1>1. /\ sampler \in Merging /\ sampler' \in {"idle", "ended"} /\ overhead' = Append(overhead, v)
      /\ UNCHANGED <<endpoints, copy, live, ticks, finished>> /\ UNCHANGED <<hostVars, dumpVars>>
      /\ UNCHANGED packets
  BY DEF AppendSample, Merging, hostVars
<1>2. overhead \in Seq(SeriesSample) /\ k \in Nat /\ endpoints \in Nat
  BY DEF SimInv, SimTypeOK, SeriesTypeOK
<1>3. w \in Nat /\ w <= packets
  BY <1>1, MergedIsNat DEF SimInv, SimTypeOK, SeriesTypeOK, SeriesInv
<1> HIDE DEF w
<1>4. v \in SeriesSample /\ v.wire = w
  BY <1>2, <1>3 DEF SeriesSample
<1> HIDE DEF v
<1>5. /\ overhead' \in Seq(SeriesSample) /\ Len(overhead') = k + 1
      /\ overhead'[k + 1] = v /\ \A i \in 1..k : overhead'[i] = overhead[i]
  BY <1>1, <1>2, <1>4
<1>6. SeriesTypeOK'
  BY <1>1, <1>5 DEF SimInv, SimTypeOK, SeriesTypeOK, Merging
<1>7. SeriesInv'
  <2>1. \A i \in 1..k + 1 : i = k + 1 \/ i \in 1..k
    BY <1>2
  <2>2. \A i \in 1..k + 1 : overhead'[i].wire <= packets
    BY <1>3, <1>4, <1>5, <2>1 DEF SimInv, SeriesInv, StatsNeverOvercount
  <2>3. sampler' \notin Merging
    BY <1>1 DEF Merging
  <2> QED
    BY <1>1, <1>5, <2>2, <2>3 DEF SeriesInv, StatsNeverOvercount
<1>8. DumpTypeOK' /\ DumpInv'
  <2>1. ~ finished /\ \A d \in Dumpers : dumper[d] # "done"
    BY <1>1, NothingWritten DEF Merging
  <2>2. k + 1 > 0
    BY <1>2
  <2> QED
    BY <1>1, <1>5, <2>1, <2>2 DEF SimInv, SimTypeOK, DumpTypeOK, DumpInv, DumpIsComplete, dumpVars
<1> QED
  BY <1>1, <1>6, <1>7, <1>8, HostStays DEF SimInv, SimTypeOK

LEMMA SamplerEndsStep ==
  ASSUME SimInv, SamplerEnds
  PROVE  SimInv'
<1>1. /\ sampler = "ended" /\ finished' = TRUE
      /\ UNCHANGED <<sampler, endpoints, copy, live, overhead, ticks>> /\ UNCHANGED <<hostVars, dumpVars>>
      /\ UNCHANGED <<packets, count>>
  BY DEF SamplerEnds, hostVars
<1>2. SeriesTypeOK' /\ SeriesInv'
  BY <1>1 DEF SimInv, SimTypeOK, SeriesTypeOK, SeriesInv, StatsNeverOvercount, MergeStats
<1>3. DumpTypeOK' /\ DumpInv'
  BY <1>1 DEF SimInv, SimTypeOK, DumpTypeOK, DumpInv, DumpIsComplete, dumpVars
<1> QED
  BY <1>1, <1>2, <1>3, HostStays DEF SimInv, SimTypeOK

LEMMA DumpStep ==
  ASSUME SimInv, NEW d \in Dumpers, DumpStops(d) \/ DumpWrites(d) \/ DumpWasMade(d)
  PROVE  SimInv'
<1>1. /\ UNCHANGED <<hostVars, sampleVars>>
      /\ UNCHANGED <<sampler, endpoints, copy, live, overhead, ticks, finished, packets, count>>
  BY DEF DumpStops, DumpWrites, DumpWasMade, sampleVars, hostVars
<1>2. SeriesTypeOK' /\ SeriesInv'
  BY <1>1 DEF SimInv, SimTypeOK, SeriesTypeOK, SeriesInv, StatsNeverOvercount, MergeStats
<1>3. Len(overhead) \in Nat
  BY DEF SimInv, SimTypeOK, SeriesTypeOK
<1>4. DumpTypeOK'
  BY <1>3 DEF SimInv, SimTypeOK, DumpTypeOK, DumpStops, DumpWrites, DumpWasMade
<1>5. DumpInv'
  <2>1. dumper \in [Dumpers -> {"running", "waiting", "done"}]
    BY DEF SimInv, SimTypeOK, DumpTypeOK
  <2>2. CASE DumpStops(d)
    <3>1. /\ \A e \in Dumpers : dumper[e] = "running"
          /\ dumper'[d] = "waiting" /\ \A e \in Dumpers : e # d => dumper'[e] = "running"
      BY <2>1, <2>2 DEF DumpStops
    <3> QED
      BY <1>1, <3>1 DEF SimInv, DumpInv, DumpIsComplete
  <2>3. CASE DumpWrites(d)
    <3>1. finished /\ Len(overhead) > 0 /\ dumped' = Len(overhead)
      BY <2>3 DEF DumpWrites, SimInv, DumpInv
    <3>2. /\ dumper'[d] = "done"
          /\ \A e \in Dumpers : e # d => dumper'[e] = dumper[e]
      BY <2>1, <2>3 DEF DumpWrites
    <3>3. \A e \in Dumpers : e # d => dumper'[e] = "running"
      BY <2>3, <3>2 DEF DumpWrites, SimInv, DumpInv
    <3>4. \A e \in Dumpers : dumper'[e] # "waiting"
      BY <3>2, <3>3
    <3> QED
      BY <1>1, <3>1, <3>4 DEF SimInv, DumpInv, DumpIsComplete
  <2>4. CASE DumpWasMade(d)
    <3>1. PICK e \in Dumpers : dumper[e] = "done"
      BY <2>4 DEF DumpWasMade
    <3>2. dumped' = dumped /\ dumped = Len(overhead) /\ dumped > 0 /\ finished
      BY <2>4, <3>1 DEF DumpWasMade, SimInv, DumpInv, DumpIsComplete
    <3>3. \A f \in Dumpers : dumper[f] # "waiting"
      BY <3>1 DEF SimInv, DumpInv
    <3>4. dumper'[d] = "done" /\ \A f \in Dumpers : f # d => dumper'[f] = dumper[f]
      BY <2>1, <2>4 DEF DumpWasMade
    <3>5. \A f \in Dumpers : dumper'[f] # "waiting"
      BY <3>3, <3>4
    <3> QED
      BY <1>1, <3>2, <3>5 DEF SimInv, DumpInv, DumpIsComplete
  <2> QED
    BY <2>2, <2>3, <2>4
<1> QED
  BY <1>1, <1>2, <1>4, <1>5, HostStays DEF SimInv, SimTypeOK

-----------------------------------------------------------------------------
(* The theorems *)

LEMMA SimInvariant == SimSpec => []SimInv
<1>1. SimInv /\ UNCHANGED simVars => SimInv'
  <2> SUFFICES ASSUME SimInv, UNCHANGED simVars PROVE SimInv'
    OBVIOUS
  <2>1. UNCHANGED <<hostVars, sampleVars, dumpVars>>
    BY DEF simVars
  <2>2. SeriesInv'
    BY <2>1 DEF SimInv, SeriesInv, StatsNeverOvercount, MergeStats, hostVars, sampleVars
  <2> QED
    BY <2>1, <2>2, HostStays, DumpsStay DEF SimInv, SimTypeOK
<1>2. SimInv /\ [SimNext]_simVars => SimInv'
  BY <1>1, PacketStep, ChurnStepInv, SamplerStepInv, AppendSampleStep, SamplerEndsStep, DumpStep
     DEF SimNext, SamplerStep
<1> QED
  BY <1>2, SimInitInv, PTL DEF SimSpec

\* The host, its instances, the sampler, the series and the dumps keep their types,
\* for any number of instances, packets and samples.
THEOREM SeriesTypes == SimSpec => []SimTypeOK
<1>1. SimInv => SimTypeOK
  BY DEF SimInv
<1> QED
  BY <1>1, SimInvariant, PTL

\* host.stats reads the live instance after it has released host.mu: no sample
\* counts a packet twice, over any number of restarts, however the two interleave.
THEOREM NothingCountedTwice == SimSpec => []StatsNeverOvercount
<1>1. SimInv => StatsNeverOvercount
  BY DEF SimInv, SeriesInv
<1> QED
  BY <1>1, SimInvariant, PTL

\* dumpSeries: whichever of any number of callers is past it, the series on disk has
\* every sample, the last one included.
THEOREM DumpsAreComplete == SimSpec => []DumpIsComplete
<1>1. SimInv => DumpIsComplete
  BY DEF SimInv, DumpInv
<1> QED
  BY <1>1, SimInvariant, PTL

-----------------------------------------------------------------------------
(* Placement *)

Address == [prefix : AllCrawled, octet : 1..Octets]

\* Nodes draw in the order of their indices, each an octet its /24 has not given out.
DrawInv ==
  /\ topicOf \in [PlaceNodes -> Nat] /\ tries \in Nat
  /\ addr \in [Drawn -> Address] /\ \E n \in 0..NumNodes : Drawn = 0..n - 1
  /\ \A i, j \in Drawn : addr[i] = addr[j] => i = j
  /\ \A i \in Drawn : addr[i].octet <= Used(addr[i].prefix)

\* Every node placed has a slot of its own.
SlotInv ==
  /\ slotOf \in [Placed -> SlotsOf(Hosts)]
  /\ \A i, j \in Placed : slotOf[i] = slotOf[j] => i = j

\* Whole /24s are placed, each on one host, whose slots are taken from the front.
GroupInv ==
  /\ DrawInv /\ Drawn = PlaceNodes /\ SlotInv
  /\ \A i \in Placed : slotOf[i].local < Cardinality(Seated(slotOf[i].host))
  /\ \A i \in Placed, j \in PlaceNodes :
       addr[i].prefix = addr[j].prefix => j \in Placed /\ slotOf[i].host = slotOf[j].host

\* Pinned nodes are placed first, in their region.
PinInv ==
  /\ topicOf = <<>> /\ addr = <<>> /\ DOMAIN pinned \subseteq PlaceNodes /\ SlotInv
  /\ \A i \in Placed \cap DOMAIN pinned : inventory[slotOf[i].host].region = pinned[i]

PlaceInv ==
  /\ inventory \in Inventories
  /\ stage \in {"draw", "group", "pin", "fill", "placed", "failed"}
  /\ stage = "draw" => DrawInv /\ slotOf = <<>>
  /\ stage = "group" => GroupInv
  /\ stage = "pin" => PinInv /\ Placed \subseteq DOMAIN pinned
  /\ stage = "fill" => PinInv /\ DOMAIN pinned \subseteq Placed
  /\ stage = "placed" => (GroupInv \/ PinInv) /\ Placed = PlaceNodes
  /\ stage = "failed" /\ ByRegion => ~ Feasible

LEMMA NodeFacts ==
  /\ NumNodes \in Nat \ {0} /\ Octets \in Nat \ {0} /\ PlaceNodes \subseteq Nat /\ 0 \in PlaceNodes
  /\ IsFiniteSet(PlaceNodes) /\ Cardinality(PlaceNodes) = NumNodes
<1>1. NumNodes \in Nat \ {0} /\ Octets \in Nat \ {0}
  BY PlacementAssumption
<1>2. IsFiniteSet(0..NumNodes - 1) /\ Cardinality(0..NumNodes - 1) = NumNodes
  BY <1>1, FS_Interval
<1> QED
  BY <1>1, <1>2 DEF PlaceNodes

LEMMA CountNodes ==
  ASSUME NEW S \in SUBSET PlaceNodes
  PROVE  /\ IsFiniteSet(S) /\ Cardinality(S) \in Nat /\ Cardinality(S) <= NumNodes
         /\ \A T \in SUBSET S : Cardinality(T) <= Cardinality(S)
         /\ \A T \in SUBSET S : T # S => Cardinality(T) < Cardinality(S)
<1>1. IsFiniteSet(S) /\ Cardinality(S) <= NumNodes
  BY NodeFacts, FS_Subset
<1>2. ASSUME NEW T \in SUBSET S
      PROVE  /\ Cardinality(T) <= Cardinality(S) /\ Cardinality(T) \in Nat
             /\ Cardinality(S) = Cardinality(T) => S = T
  BY <1>1, FS_Subset, FS_CardinalityType
<1>3. Cardinality(S) \in Nat
  BY <1>1, FS_CardinalityType
<1> QED
  BY <1>1, <1>2, <1>3

LEMMA InventoryFacts ==
  ASSUME inventory \in Inventories
  PROVE  /\ Hosts \subseteq Nat /\ IsFiniteSet(Hosts) /\ 1 \in Hosts
         /\ \A h \in Hosts : inventory[h].slots \in Nat
<1> DEFINE R == [slots : Nat, region : STRING]
<1>1. inventory \in Seq(R) /\ inventory # <<>>
  BY PlacementAssumption
<1>2. Hosts = 1..Len(inventory) /\ Len(inventory) \in Nat /\ Len(inventory) # 0
  BY <1>1 DEF Hosts
<1>3. IsFiniteSet(Hosts)
  <2>1. IsFiniteSet(1..Len(inventory))
    BY <1>2, FS_Interval
  <2> QED
    BY <1>2, <2>1
<1>4. ASSUME NEW h \in Hosts PROVE inventory[h].slots \in Nat
  <2>1. inventory[h] \in R
    <3> HIDE DEF R
    <3> QED
      BY <1>1, <1>2
  <2> QED
    BY <2>1
<1> QED
  BY <1>2, <1>3, <1>4

LEMMA SlotFacts ==
  ASSUME NEW S \in SUBSET Hosts
  PROVE  /\ \A h \in S : \A k \in 0..inventory[h].slots - 1 : [host |-> h, local |-> k] \in SlotsOf(S)
         /\ \A s \in SlotsOf(S) : s.host \in S /\ s.local \in 0..inventory[s.host].slots - 1
         /\ \A s \in SlotsOf(S) : s = [host |-> s.host, local |-> s.local]
BY DEF SlotsOf

-----------------------------------------------------------------------------
(* Draw *)

\* Octets given out so far.
LEMMA UsedFacts ==
  ASSUME NEW q
  PROVE  Used(q) \in Nat
BY CountNodes DEF Used, Drawn

LEMMA NextToDraw ==
  ASSUME DrawInv
  PROVE  Current \in 0..NumNodes /\ Drawn = 0..Current - 1
<1>1. PICK n \in 0..NumNodes : Drawn = 0..n - 1
  BY DEF DrawInv
<1>2. n \in Nat
  BY <1>1, NodeFacts
<1>3. Cardinality(0..n - 1) = n
  BY <1>2, FS_Interval
<1> QED
  BY <1>1, <1>3 DEF Current

LEMMA DrawAddressStep ==
  ASSUME PlaceInv, NEW pre \in AllCrawled, DrawAddress(pre)
  PROVE  PlaceInv'
<1>1. /\ stage = "draw" /\ Current < NumNodes /\ UNCHANGED <<inventory, pinned, topicOf, stage, slotOf>>
      /\ \/ Used(pre) >= Octets /\ tries' = tries + 1 /\ UNCHANGED addr
         \/ /\ ~ (Used(pre) >= Octets) /\ tries' = 0
            /\ addr' = With(addr, Current, [prefix |-> pre, octet |-> Used(pre) + 1])
  BY DEF DrawAddress
<1>2. DrawInv /\ slotOf = <<>>
  BY <1>1 DEF PlaceInv
<1> SUFFICES DrawInv'
  BY <1>1, <1>2 DEF PlaceInv
<1>3. tries \in Nat /\ tries + 1 \in Nat
  BY <1>2 DEF DrawInv
<1>4. CASE UNCHANGED addr
  <2>1. UNCHANGED <<topicOf, pinned, addr>> /\ tries' \in Nat
    BY <1>1, <1>3, <1>4
  <2> QED
    BY <1>2, <2>1 DEF DrawInv, Drawn, Used
<1>5. CASE /\ ~ (Used(pre) >= Octets)
           /\ addr' = With(addr, Current, [prefix |-> pre, octet |-> Used(pre) + 1])
  <2>1. PICK n \in Nat : n = Current
    BY <1>2, NextToDraw, NodeFacts
  <2>2. n \in 0..NumNodes - 1 /\ n \in PlaceNodes /\ Drawn = 0..n - 1 /\ n \notin Drawn
    BY <1>1, <1>2, <2>1, NextToDraw, NodeFacts DEF PlaceNodes
  <2>3. PICK u \in Nat : u = Used(pre)
    BY UsedFacts
  <2>4. PICK o \in 1..Octets : o = u + 1
    BY <1>5, <2>3, NodeFacts
  <2> DEFINE a == [prefix |-> pre, octet |-> o]
  <2>5. a \in Address /\ a.prefix = pre /\ a.octet = u + 1
    BY <2>4 DEF Address
  <2>6. addr' = With(addr, n, a)
    BY <1>5, <2>1, <2>3, <2>4
  <2> HIDE DEF a
  <2>7. addr \in [Drawn -> Address]
    BY <1>2 DEF DrawInv
  <2>8. Drawn' = Drawn \cup {n} /\ DOMAIN addr' = Drawn \cup {n}
    BY <2>2, <2>6, <2>7 DEF With, Drawn
  <2>9. addr'[n] = a /\ \A i \in Drawn : addr'[i] = addr[i]
    BY <2>2, <2>6, <2>7 DEF With
  <2>10. addr' \in [Drawn' -> Address]
    BY <2>5, <2>6, <2>7, <2>8 DEF With
  <2>11. \E m \in 0..NumNodes : Drawn' = 0..m - 1
    <3>1. Drawn \cup {n} = 0..(n + 1) - 1 /\ n + 1 \in 0..NumNodes
      BY <2>1, <2>2, NodeFacts
    <3> QED
      BY <2>8, <3>1
  <2>12. \A i \in Drawn : addr[i] # a
    <3>1. ASSUME NEW i \in Drawn, addr[i] = a PROVE FALSE
      <4>1. addr[i].octet <= Used(addr[i].prefix)
        BY <1>2 DEF DrawInv
      <4> QED
        BY <2>3, <2>5, <3>1, <4>1
    <3> QED
      BY <3>1
  <2>13. \A i, j \in Drawn' : addr'[i] = addr'[j] => i = j
    BY <1>2, <2>8, <2>9, <2>12 DEF DrawInv
  <2> DEFINE Now(q) == Cardinality({j \in Drawn' : addr'[j].prefix = q})
  <2>14. ASSUME NEW q PROVE Now(q) \in Nat /\ Now(q) >= Used(q) /\ (q = pre => Now(q) = u + 1)
    <3> DEFINE U == {i \in Drawn : addr[i].prefix = q}
    <3>1. U \in SUBSET PlaceNodes /\ n \notin U
      BY <2>2 DEF Drawn
    <3>2. {i \in Drawn' : addr'[i].prefix = q} = IF q = pre THEN U \cup {n} ELSE U
      BY <2>5, <2>8, <2>9
    <3>3. Cardinality(U \cup {n}) = Cardinality(U) + 1 /\ Cardinality(U) \in Nat
      BY <3>1, CountNodes, FS_AddElement
    <3>4. Used(q) = Cardinality(U) /\ Now(q) = Cardinality(IF q = pre THEN U \cup {n} ELSE U)
      BY <3>2 DEF Used
    <3> HIDE DEF U, Now
    <3>5. CASE q = pre
      BY <2>3, <3>3, <3>4, <3>5
    <3>6. CASE q # pre
      BY <3>3, <3>4, <3>6
    <3> QED
      BY <3>5, <3>6
  <2>15. ASSUME NEW i \in Drawn' PROVE addr'[i].octet <= Now(addr'[i].prefix)
    <3> HIDE DEF Now
    <3>1. CASE i \in Drawn
      <4>1. PICK q, k : q = addr[i].prefix /\ k = addr[i].octet
        OBVIOUS
      <4>2. k <= Used(q) /\ k \in Nat
        <5>1. addr[i] \in Address
          BY <2>7, <3>1
        <5> QED
          BY <1>2, <3>1, <4>1, <5>1, NodeFacts DEF DrawInv, Address
      <4>3. Now(q) >= Used(q) /\ Now(q) \in Nat /\ Used(q) \in Nat
        BY <2>14, UsedFacts
      <4>4. addr'[i].prefix = q /\ addr'[i].octet = k
        BY <2>9, <3>1, <4>1
      <4> QED
        BY <4>2, <4>3, <4>4
    <3>2. CASE i = n
      <4>1. addr'[i].prefix = pre /\ addr'[i].octet = u + 1 /\ Now(pre) = u + 1
        BY <2>5, <2>9, <2>14, <3>2
      <4> QED
        BY <2>3, <4>1
    <3> QED
      BY <2>8, <3>1, <3>2
  <2>16. topicOf' \in [PlaceNodes -> Nat] /\ tries' \in Nat
    BY <1>1, <1>2, <1>3 DEF DrawInv
  <2> QED
    BY <2>10, <2>11, <2>13, <2>15, <2>16 DEF DrawInv, Used
<1> QED
  BY <1>1, <1>4, <1>5

\* What is drawn, the slots taken, the groups and the pins depend on these only.
LEMMA PlacingStays ==
  ASSUME UNCHANGED <<inventory, pinned, topicOf, addr, tries, slotOf>>
  PROVE  /\ Drawn' = Drawn /\ Placed' = Placed
         /\ DrawInv => DrawInv'
         /\ SlotInv => SlotInv'
         /\ GroupInv => GroupInv'
         /\ PinInv => PinInv'
<1>1. UNCHANGED <<inventory, pinned, topicOf, addr, tries, slotOf>>
  OBVIOUS
<1>2. Drawn' = Drawn /\ Placed' = Placed
  BY <1>1 DEF Drawn, Placed
<1>3. DrawInv => DrawInv'
  BY <1>1, <1>2 DEF DrawInv, Used
<1>4. SlotInv => SlotInv'
  BY <1>1, <1>2 DEF SlotInv, SlotsOf, Hosts
<1>5. GroupInv => GroupInv'
  BY <1>1, <1>2, <1>3, <1>4 DEF GroupInv, Seated
<1>6. PinInv => PinInv'
  BY <1>1, <1>2, <1>4 DEF PinInv
<1> QED
  BY <1>2, <1>3, <1>4, <1>5, <1>6

LEMMA PoolDrawnStep ==
  ASSUME PlaceInv, PoolDrawn
  PROVE  PlaceInv'
<1>1. /\ Current = NumNodes /\ stage = "draw" /\ stage' = "group"
      /\ UNCHANGED <<inventory, pinned, topicOf, addr, tries, slotOf>>
  BY DEF PoolDrawn
<1>2. DrawInv /\ slotOf = <<>>
  BY <1>1 DEF PlaceInv
<1>3. Drawn = PlaceNodes
  BY <1>1, <1>2, NextToDraw DEF PlaceNodes
<1>4. Placed = {}
  BY <1>2 DEF Placed
<1>5. SlotInv
  BY <1>2, <1>4 DEF SlotInv
<1>6. GroupInv
  BY <1>2, <1>3, <1>4, <1>5 DEF GroupInv
<1>7. GroupInv'
  BY <1>1, <1>6, PlacingStays
<1> QED
  BY <1>1, <1>7 DEF PlaceInv

LEMMA DrawFailsStep ==
  ASSUME PlaceInv, DrawGivesUp \/ GroupFitsNowhere
  PROVE  PlaceInv'
<1>1. /\ stage \in {"draw", "group"} /\ stage' = "failed"
      /\ UNCHANGED <<inventory, topicOf>>
  BY DEF DrawGivesUp, GroupFitsNowhere
<1>2. topicOf \in [PlaceNodes -> Nat]
  BY <1>1 DEF PlaceInv, GroupInv, DrawInv
<1>3. topicOf # <<>>
  BY <1>2, NodeFacts
<1> QED
  BY <1>1, <1>3 DEF PlaceInv, ByRegion

-----------------------------------------------------------------------------
(* placeByPrefix *)

\* A /24 that has a node not placed has none placed.
LEMMA GroupIsWhole ==
  ASSUME GroupInv, NEW p \in Ungrouped
  PROVE  Group(p) # {} /\ Group(p) \subseteq PlaceNodes \ Placed
<1>1. PICK i \in PlaceNodes \ Placed : p = addr[i].prefix
  BY DEF Ungrouped
<1>2. \A j \in Placed : addr[j].prefix # p
  BY <1>1 DEF GroupInv
<1> QED
  BY <1>1, <1>2 DEF Group

\* There is a largest /24 ...
LEMMA LargestExists ==
  ASSUME GroupInv, Ungrouped # {}
  PROVE  Largest \in Ungrouped
<1> DEFINE S == PlaceNodes \ Placed
           f == [i \in S |-> Cardinality(Group(addr[i].prefix))]
<1>1. IsFiniteSet(S) /\ S # {}
  BY CountNodes DEF Ungrouped
<1>2. \A i \in S : f[i] \in Int
  BY CountNodes DEF Group
<1>3. PICK a \in S : \A i \in S : f[i] <= f[a]
  <2> HIDE DEF S, f
  <2> QED
    BY <1>1, <1>2, GreatestValue
<1>4. PICK c \in Nat : c = f[a]
  BY <1>3, CountNodes DEF Group
<1> DEFINE T == {p \in Ungrouped : Cardinality(Group(p)) = c}
<1>5. addr[a].prefix \in T
  BY <1>3, <1>4 DEF Ungrouped
<1>6. Ungrouped \subseteq Nat
  <2>1. addr \in [PlaceNodes -> Address] /\ AllCrawled \subseteq Nat
    BY PlacementAssumption DEF GroupInv, DrawInv
  <2>2. \A i \in PlaceNodes : addr[i].prefix \in Nat
    BY <2>1 DEF Address
  <2> QED
    BY <2>2 DEF Ungrouped
<1>7. PICK p \in T : \A q \in T : p <= q
  <2>1. T \in SUBSET Nat
    BY <1>6
  <2> HIDE DEF T
  <2> QED
    BY <1>5, <2>1, LeastNumber
<1>8. ASSUME NEW q \in Ungrouped PROVE Before(p, q)
  <2>1. PICK i \in S : q = addr[i].prefix
    BY DEF Ungrouped
  <2>2. Cardinality(Group(q)) <= c
    BY <1>3, <1>4, <2>1
  <2>3. Cardinality(Group(p)) = c /\ Cardinality(Group(q)) \in Nat
    BY CountNodes DEF Group
  <2>4. Cardinality(Group(q)) = c => p <= q
    BY <1>7
  <2> QED
    BY <2>2, <2>3, <2>4 DEF Before
<1>9. \E r \in Ungrouped : \A q \in Ungrouped : Before(r, q)
  BY <1>8
<1> QED
  BY <1>9 DEF Largest

\* ... and among the hosts it fits on one with the most room.
LEMMA RoomiestFits ==
  ASSUME inventory \in Inventories, NEW g \in SUBSET PlaceNodes, Fitting(g) # {}
  PROVE  Roomiest(g) \in Fitting(g)
<1> DEFINE f == [h \in Fitting(g) |-> Room(h)]
           S == {h \in Fitting(g) : \A k \in Fitting(g) : Room(h) >= Room(k)}
<1>1. Fitting(g) \subseteq Nat /\ IsFiniteSet(Fitting(g)) /\ Fitting(g) \subseteq Hosts
  BY InventoryFacts, FS_Subset DEF Fitting
<1>2. ASSUME NEW h \in Fitting(g) PROVE Room(h) \in Int
  <2>1. Seated(h) \in SUBSET PlaceNodes
    BY DEF Seated, Placed
  <2>2. Cardinality(Seated(h)) \in Nat
    BY <2>1, CountNodes
  <2>3. inventory[h].slots \in Nat
    BY <1>1, InventoryFacts
  <2> QED
    BY <2>2, <2>3 DEF Room
<1>3. PICK a \in Fitting(g) : \A h \in Fitting(g) : f[h] <= f[a]
  <2>1. \A h \in Fitting(g) : f[h] \in Int
    BY <1>2
  <2> HIDE DEF f
  <2> QED
    BY <1>1, <2>1, GreatestValue
<1>4. a \in S
  BY <1>2, <1>3
<1>5. S \subseteq Nat /\ S # {} /\ S \subseteq Fitting(g)
  BY <1>1, <1>4
<1>6. Min(S) \in S
  <2> HIDE DEF S
  <2> QED
    BY <1>5, LeastOf
<1> QED
  BY <1>5, <1>6 DEF Roomiest

\* The slots a group takes: behind those of the host that are taken, one for each.
TakesFront(g, h, c, s) ==
  /\ s \in [Placed \cup g -> SlotsOf(Hosts)]
  /\ \A i \in Placed : s[i] = slotOf[i]
  /\ \A i \in g : s[i].host = h /\ s[i].local \in c..c + Cardinality(g) - 1
  /\ \A i, j \in g : s[i] = s[j] => i = j

LEMMA SeatFacts ==
  ASSUME inventory \in Inventories, SlotInv, NEW g, g \subseteq PlaceNodes \ Placed,
         NEW h, h \in Fitting(g)
  PROVE  TakesFront(g, h, Cardinality(Seated(h)), Seat(g, h))
<1> DEFINE n == Cardinality(g)
           Ahead(i) == {j \in g : j < i}
           r(i) == Cardinality(Ahead(i))
<1>0. PICK c \in Nat : c = Cardinality(Seated(h))
  BY CountNodes DEF Seated, Placed
<1>1. PICK s : s = Seat(g, h)
  OBVIOUS
<1>2. h \in Hosts /\ inventory[h].slots \in Nat
  BY InventoryFacts DEF Fitting
<1>3. n \in Nat /\ c + n <= inventory[h].slots
  <2>1. n \in Nat
    BY CountNodes
  <2>2. inventory[h].slots - c >= n
    BY <1>0 DEF Fitting, Room
  <2> QED
    BY <1>0, <1>2, <2>1, <2>2
<1>4. ASSUME NEW i \in g PROVE r(i) \in Nat /\ r(i) < n
  <2>1. Ahead(i) \in SUBSET g /\ Ahead(i) # g
    BY NodeFacts
  <2>2. Ahead(i) \in SUBSET PlaceNodes
    BY <2>1
  <2> HIDE DEF Ahead
  <2> QED
    BY <2>1, <2>2, CountNodes
<1>5. ASSUME NEW i \in g, NEW j \in g, i < j PROVE r(i) < r(j)
  <2>1. i \in Nat /\ j \in Nat
    BY NodeFacts
  <2>2. Ahead(i) \in SUBSET Ahead(j) /\ Ahead(i) # Ahead(j) /\ Ahead(j) \in SUBSET PlaceNodes
    <3>1. \A k \in g : k \in Nat /\ k \in PlaceNodes
      BY NodeFacts
    <3>2. \A k \in g : k < i => k < j
      BY <1>5, <2>1, <3>1
    <3>3. i \in Ahead(j) /\ i \notin Ahead(i)
      BY <1>5, <2>1
    <3> QED
      BY <3>1, <3>2, <3>3
  <2> HIDE DEF Ahead
  <2> QED
    BY <2>2, CountNodes
<1>6. ASSUME NEW i \in g PROVE s[i] = [host |-> h, local |-> c + r(i)]
  <2>1. s[i] = [host |-> h, local |-> Cardinality(Seated(h)) + Cardinality({j \in g : j < i})]
    BY <1>1 DEF Seat
  <2> QED
    BY <1>0, <2>1
<1>7. \A i \in Placed : s[i] = slotOf[i]
  BY <1>1 DEF Seat
<1> HIDE DEF n, r, Ahead
<1>8. ASSUME NEW i \in g
      PROVE  s[i].host = h /\ s[i].local \in c..c + n - 1 /\ s[i] \in SlotsOf(Hosts)
  <2>1. PICK k \in 0..inventory[h].slots - 1 : k = c + r(i) /\ k \in c..c + n - 1
    BY <1>2, <1>3, <1>4
  <2>2. [host |-> h, local |-> k] \in SlotsOf(Hosts)
    BY <1>2, SlotFacts
  <2> QED
    BY <1>6, <2>1, <2>2
<1>9. s \in [Placed \cup g -> SlotsOf(Hosts)]
  <2>1. s = [i \in Placed \cup g |-> s[i]]
    BY <1>1 DEF Seat
  <2>2. \A i \in Placed : slotOf[i] \in SlotsOf(Hosts)
    BY DEF SlotInv
  <2> QED
    BY <1>7, <1>8, <2>1, <2>2
<1>10. ASSUME NEW i \in g, NEW j \in g, s[i] = s[j] PROVE i = j
  <2>1. i \in Nat /\ j \in Nat
    BY NodeFacts
  <2>2. r(i) = r(j)
    <3>1. PICK a \in Nat, b \in Nat : a = c + r(i) /\ b = c + r(j)
      BY <1>4
    <3>2. s[i] = [host |-> h, local |-> a] /\ s[j] = [host |-> h, local |-> b]
      BY <1>6, <3>1
    <3>3. s[i].local = a /\ s[j].local = b
      BY <3>2
    <3>4. a = b
      BY <1>10, <3>3
    <3> QED
      BY <1>4, <3>1, <3>4
  <2>3. ~ (i < j) /\ ~ (j < i)
    BY <1>4, <1>5, <2>2
  <2> QED
    BY <2>1, <2>3
<1>11. TakesFront(g, h, c, s)
  BY <1>7, <1>8, <1>9, <1>10 DEF n, TakesFront
<1> QED
  BY <1>0, <1>1, <1>11

LEMMA PlaceGroupStep ==
  ASSUME PlaceInv, PlaceGroup
  PROVE  PlaceInv'
<1> DEFINE p == Largest
           g == Group(p)
           h == Roomiest(g)
           c == Cardinality(Seated(h))
<1>1. /\ stage = "group" /\ Ungrouped # {} /\ Fitting(g) # {} /\ slotOf' = Seat(g, h)
      /\ UNCHANGED <<inventory, pinned, topicOf, addr, tries, stage>>
  BY DEF PlaceGroup
<1>2. GroupInv /\ SlotInv /\ inventory \in Inventories
  BY <1>1 DEF PlaceInv, GroupInv
<1>3. p \in Ungrouped /\ g \in SUBSET (PlaceNodes \ Placed) /\ g \in SUBSET PlaceNodes
  <2>1. p \in Ungrouped
    BY <1>1, <1>2, LargestExists
  <2> HIDE DEF p
  <2> QED
    BY <1>2, <2>1, GroupIsWhole
<1>4. g = {i \in PlaceNodes : addr[i].prefix = p}
  BY DEF Group
<1>5. h \in Fitting(g) /\ h \in Hosts
  <2> HIDE DEF g
  <2> QED
    BY <1>1, <1>2, <1>3, RoomiestFits DEF Fitting
<1>6. c \in Nat /\ Cardinality(g) \in Nat
  BY <1>3, CountNodes DEF Seated, Placed
<1> HIDE DEF p, g, h, c
<1>7. PICK s : s = slotOf' /\ s = Seat(g, h)
  BY <1>1
<1>8. /\ s \in [Placed \cup g -> SlotsOf(Hosts)]
      /\ \A i \in Placed : s[i] = slotOf[i]
      /\ \A i \in g : s[i].host = h /\ s[i].local \in c..c + Cardinality(g) - 1
      /\ \A i, j \in g : s[i] = s[j] => i = j
  <2>1. g \subseteq PlaceNodes \ Placed /\ c = Cardinality(Seated(h))
    BY <1>3 DEF c
  <2>2. TakesFront(g, h, Cardinality(Seated(h)), Seat(g, h))
    BY <1>2, <1>5, <2>1, SeatFacts
  <2>3. TakesFront(g, h, c, s)
    BY <1>7, <2>1, <2>2
  <2> QED
    BY <2>3 DEF TakesFront
<1>9. Placed' = Placed \cup g
  BY <1>3, <1>7, <1>8 DEF Placed
<1>10. ASSUME NEW i \in Placed
       PROVE  slotOf[i].host \in Hosts /\ slotOf[i].local \in Nat
              /\ slotOf[i].local < Cardinality(Seated(slotOf[i].host))
  <2>1. slotOf[i] \in SlotsOf(Hosts)
    BY <1>2 DEF SlotInv
  <2> QED
    BY <1>2, <2>1, SlotFacts, InventoryFacts DEF GroupInv
<1>11. SlotInv'
  <2>1. slotOf' \in [Placed' -> SlotsOf(Hosts)']
    BY <1>1, <1>7, <1>8, <1>9 DEF SlotsOf, Hosts
  <2>2. ASSUME NEW i \in Placed, NEW j \in g PROVE s[i] # s[j]
    <3>1. CASE slotOf[i].host # h
      BY <1>8, <3>1
    <3>2. CASE slotOf[i].host = h
      <4>1. slotOf[i].local < c /\ slotOf[i].local \in Nat
        BY <1>10, <3>2 DEF c
      <4>2. s[j].local \in c..c + Cardinality(g) - 1
        BY <1>8
      <4> QED
        BY <1>6, <1>8, <4>1, <4>2
    <3> QED
      BY <3>1, <3>2
  <2>3. \A i, j \in Placed : s[i] = s[j] => i = j
    BY <1>2, <1>8 DEF SlotInv
  <2> QED
    BY <1>7, <1>8, <1>9, <2>1, <2>2, <2>3 DEF SlotInv
<1>12. ASSUME NEW i \in Placed'
       PROVE  s[i].local < Cardinality({k \in Placed' : s[k].host = s[i].host})
  <2> DEFINE Now(q) == {k \in Placed' : s[k].host = q}
  <2>1. ASSUME NEW q
        PROVE  /\ Now(q) = IF q = h THEN Seated(q) \cup g ELSE Seated(q)
               /\ Now(q) \in SUBSET PlaceNodes /\ Seated(q) \in SUBSET Now(q)
    BY <1>3, <1>8, <1>9 DEF Seated, Placed
  <2>2. CASE i \in g
    <3>1. Now(h) = Seated(h) \cup g /\ Seated(h) \cap g = {}
      BY <1>3, <2>1 DEF Seated
    <3>2. Cardinality(Now(h)) = c + Cardinality(g)
      <4>1. IsFiniteSet(Seated(h)) /\ IsFiniteSet(g) /\ Cardinality(Seated(h) \cap g) = 0
        BY <1>3, <3>1, CountNodes, FS_EmptySet DEF Seated, Placed
      <4>2. Cardinality(Seated(h) \cup g) = Cardinality(Seated(h)) + Cardinality(g) - 0
        BY <4>1, FS_Union
      <4>3. Cardinality(Seated(h)) = c
        BY DEF c
      <4>4. Cardinality(Now(h)) = c + Cardinality(g) - 0
        BY <3>1, <4>2, <4>3, Zenon
      <4> HIDE DEF Now
      <4> QED
        BY <1>6, <4>4
    <3>3. s[i].host = h /\ s[i].local \in c..c + Cardinality(g) - 1
      BY <1>8, <2>2
    <3> QED
      BY <1>6, <3>2, <3>3
  <2>3. CASE i \in Placed
    <3>1. PICK q, l : q = slotOf[i].host /\ l = slotOf[i].local
      OBVIOUS
    <3>2. l \in Nat /\ l < Cardinality(Seated(q))
      BY <1>10, <2>3, <3>1
    <3>3. Cardinality(Seated(q)) <= Cardinality(Now(q)) /\ Cardinality(Seated(q)) \in Nat
          /\ Cardinality(Now(q)) \in Nat
      <4> HIDE DEF Now
      <4>1. Seated(q) \in SUBSET PlaceNodes
        BY DEF Seated, Placed
      <4> QED
        BY <2>1, <4>1, CountNodes
    <3>4. s[i].host = q /\ s[i].local = l
      BY <1>8, <2>3, <3>1
    <3> QED
      BY <3>2, <3>3, <3>4
  <2> QED
    BY <1>9, <2>2, <2>3
<1>13. ASSUME NEW i \in Placed', NEW j \in PlaceNodes, addr[i].prefix = addr[j].prefix
       PROVE  j \in Placed' /\ s[i].host = s[j].host
  <2>1. CASE i \in g
    BY <1>4, <1>8, <1>9, <1>13, <2>1
  <2>2. CASE i \in Placed
    BY <1>2, <1>8, <1>9, <1>13, <2>2 DEF GroupInv
  <2> QED
    BY <1>9, <2>1, <2>2
<1>14. DrawInv' /\ Drawn' = PlaceNodes
  <2>1. UNCHANGED <<pinned, topicOf, addr, tries>> /\ Drawn' = Drawn
    BY <1>1 DEF Drawn
  <2>2. DrawInv /\ Drawn = PlaceNodes
    BY <1>2 DEF GroupInv
  <2>3. (\A i \in Drawn : addr[i].octet <= Used(addr[i].prefix))'
    <3>1. \A pre : {i \in Drawn' : addr'[i].prefix = pre} = {i \in Drawn : addr[i].prefix = pre}
      BY <2>1, Zenon
    <3>2. \A pre : Used(pre)' = Used(pre)
      BY <3>1, Zenon DEF Used
    <3> QED
      BY <2>1, <2>2, <3>2 DEF DrawInv
  <2>4. (\A i, j \in Drawn : addr[i] = addr[j] => i = j)'
    BY <2>1, <2>2, Zenon DEF DrawInv
  <2>5. (/\ topicOf \in [PlaceNodes -> Nat] /\ tries \in Nat
         /\ addr \in [Drawn -> Address] /\ \E n \in 0..NumNodes : Drawn = 0..n - 1)'
    BY <2>1, <2>2, Zenon DEF DrawInv
  <2>6. DrawInv'
    BY <2>3, <2>4, <2>5, Zenon DEF DrawInv
  <2> QED
    BY <2>1, <2>2, <2>6
<1>15. GroupInv'
  BY <1>1, <1>7, <1>11, <1>12, <1>13, <1>14 DEF GroupInv, Seated
<1> QED
  BY <1>1, <1>15 DEF PlaceInv

-----------------------------------------------------------------------------
(* place *)

\* The first free slot of a region is a free slot of it.
LEMMA TakeIsFree ==
  ASSUME inventory \in Inventories, NEW r, Free(r) # {}
  PROVE  Take(r) \in Free(r)
<1> DEFINE H == {a.host : a \in Free(r)}
<1>1. ASSUME NEW a \in Free(r) PROVE a.host \in Nat /\ a.local \in Nat
  <2>1. InRegion(r) \in SUBSET Hosts
    BY DEF InRegion
  <2>2. a.host \in InRegion(r) /\ a.local \in 0..inventory[a.host].slots - 1
    BY <2>1, SlotFacts DEF Free
  <2> QED
    BY <2>1, <2>2, InventoryFacts
<1>2. PICK m \in H : \A h \in H : m <= h
  <2>1. H \in SUBSET Nat /\ H # {}
    BY <1>1
  <2> HIDE DEF H
  <2> QED
    BY <2>1, LeastNumber
<1> DEFINE L == {a.local : a \in {b \in Free(r) : b.host = m}}
<1>3. PICK l \in L : \A k \in L : l <= k
  <2>1. L \in SUBSET Nat /\ L # {}
    BY <1>1, <1>2
  <2> HIDE DEF L
  <2> QED
    BY <2>1, LeastNumber
<1>4. PICK a \in Free(r) : a.host = m /\ a.local = l
  BY <1>3
<1>5. ASSUME NEW b \in Free(r) PROVE a.host < b.host \/ (a.host = b.host /\ a.local <= b.local)
  <2>1. m <= b.host /\ (b.host = m => l <= b.local)
    BY <1>2, <1>3
  <2> QED
    BY <1>1, <1>4, <2>1
<1>6. \E c \in Free(r) : \A b \in Free(r) : c.host < b.host \/ (c.host = b.host /\ c.local <= b.local)
  BY <1>5
<1> QED
  BY <1>6 DEF Take

\* A node that takes a slot nobody has.
LEMMA SlotTaken ==
  ASSUME inventory \in Inventories, SlotInv, NEW r, Free(r) # {}, NEW i \in PlaceNodes \ Placed,
         UNCHANGED inventory, slotOf' = With(slotOf, i, Take(r))
  PROVE  /\ SlotInv' /\ Placed' = Placed \cup {i}
         /\ inventory[slotOf'[i].host].region = r
         /\ \A j \in Placed : slotOf'[j] = slotOf[j]
<1>1. PICK s : s = Take(r)
  OBVIOUS
<1>2. s \in Free(r)
  BY <1>1, TakeIsFree
<1>3. s \in SlotsOf(InRegion(r)) /\ \A j \in Placed : slotOf[j] # s
  BY <1>2 DEF Free
<1>4. s \in SlotsOf(Hosts) /\ s.host \in InRegion(r)
  BY <1>3, SlotFacts DEF SlotsOf, InRegion
<1>5. slotOf \in [Placed -> SlotsOf(Hosts)] /\ slotOf' = With(slotOf, i, s)
  BY <1>1 DEF SlotInv
<1>6. Placed' = Placed \cup {i} /\ DOMAIN slotOf' = Placed \cup {i}
  BY <1>5 DEF Placed, With
<1>7. slotOf'[i] = s /\ \A j \in Placed : slotOf'[j] = slotOf[j]
  BY <1>5 DEF With
<1>8. slotOf' \in [Placed \cup {i} -> SlotsOf(Hosts)]
  BY <1>4, <1>5 DEF With
<1>9. \A j, k \in Placed \cup {i} : slotOf'[j] = slotOf'[k] => j = k
  BY <1>3, <1>7 DEF SlotInv
<1>10. SlotsOf(Hosts)' = SlotsOf(Hosts)
  BY DEF SlotsOf, Hosts
<1>11. SlotInv'
  BY <1>6, <1>8, <1>9, <1>10 DEF SlotInv
<1> QED
  BY <1>4, <1>6, <1>7, <1>11 DEF InRegion

\* Slots that are all taken by the nodes of T are no more than those.
LEMMA TooFewSlots ==
  ASSUME NEW T \in SUBSET PlaceNodes, NEW S, S \subseteq {slotOf[j] : j \in T}
  PROVE  Cardinality(S) <= Cardinality(T) /\ Cardinality(S) \in Nat
<1> DEFINE f == [j \in T |-> slotOf[j]]
           W == {slotOf[j] : j \in T}
<1>1. IsFiniteSet(T) /\ Cardinality(T) \in Nat
  BY CountNodes
<1>2. f \in Surjection(T, W)
  BY DEF Surjection
<1>3. IsFiniteSet(W) /\ Cardinality(W) <= Cardinality(T)
  <2> HIDE DEF f, W
  <2> QED
    BY <1>1, <1>2, FS_Surjection
<1>4. IsFiniteSet(S) /\ Cardinality(S) <= Cardinality(W) /\ Cardinality(S) \in Nat
       /\ Cardinality(W) \in Nat
  <2>1. S \in SUBSET W
    OBVIOUS
  <2> HIDE DEF W
  <2> QED
    BY <1>3, <2>1, FS_Subset, FS_CardinalityType
<1> HIDE DEF W
<1> QED
  BY <1>1, <1>3, <1>4

LEMMA FeasibleStays ==
  ASSUME UNCHANGED inventory, UNCHANGED pinned
  PROVE  Feasible' <=> Feasible
BY DEF Feasible, PinnedTo, SlotsOf, InRegion, Hosts

LEMMA PlacePinnedStep ==
  ASSUME PlaceInv, NEW i \in PlaceNodes, PlacePinned(i)
  PROVE  PlaceInv'
<1> DEFINE r == pinned[i]
<1>1. /\ stage = "pin" /\ i \in DOMAIN pinned \ Placed
      /\ UNCHANGED <<inventory, pinned, topicOf, addr, tries>>
      /\ IF Free(r) = {} THEN stage' = "failed" /\ UNCHANGED slotOf
         ELSE slotOf' = With(slotOf, i, Take(r)) /\ UNCHANGED stage
  BY DEF PlacePinned
<1>2. PinInv /\ SlotInv /\ Placed \subseteq DOMAIN pinned /\ inventory \in Inventories
  BY <1>1 DEF PlaceInv, PinInv
<1>3. CASE Free(r) = {}
  <2> DEFINE T == {j \in Placed : pinned[j] = r}
             S == SlotsOf(InRegion(r))
  <2>1. S \subseteq {slotOf[j] : j \in Placed}
    BY <1>3 DEF Free
  <2>2. ASSUME NEW s \in S PROVE \E j \in T : s = slotOf[j]
    <3>1. PICK j \in Placed : s = slotOf[j]
      BY <2>1
    <3>2. s.host \in InRegion(r)
      BY SlotFacts DEF InRegion
    <3>3. pinned[j] = r
      BY <1>2, <3>1, <3>2 DEF PinInv, InRegion
    <3> QED
      BY <3>1, <3>3
  <2>3. S \subseteq {slotOf[j] : j \in T} /\ T \in SUBSET PlaceNodes
    BY <2>2 DEF Placed
  <2>4. T \in SUBSET PinnedTo(r) /\ T # PinnedTo(r) /\ PinnedTo(r) \in SUBSET PlaceNodes
    BY <1>1, <1>2 DEF PinnedTo, PinInv
  <2>5. Cardinality(S) <= Cardinality(T) /\ Cardinality(S) \in Nat
    <3> HIDE DEF S, T
    <3> QED
      BY <2>3, TooFewSlots
  <2>6. Cardinality(T) < Cardinality(PinnedTo(r)) /\ Cardinality(T) \in Nat
        /\ Cardinality(PinnedTo(r)) \in Nat
    <3> HIDE DEF T
    <3> QED
      BY <2>3, <2>4, CountNodes
  <2>7. ~ (Cardinality(PinnedTo(r)) <= Cardinality(S))
    <3> HIDE DEF S, T
    <3> QED
      BY <2>5, <2>6
  <2>8. r \in {pinned[j] : j \in DOMAIN pinned}
    BY <1>1
  <2>9. ~ Feasible
    BY <2>7, <2>8 DEF Feasible
  <2>10. ~ Feasible' /\ stage' = "failed"
    BY <1>1, <1>3, <2>9, FeasibleStays
  <2> QED
    BY <1>1, <1>2, <2>10 DEF PlaceInv
<1>4. CASE Free(r) # {}
  <2>1. slotOf' = With(slotOf, i, Take(r)) /\ UNCHANGED <<inventory, stage, pinned, topicOf, addr>>
    BY <1>1, <1>4
  <2>2. /\ SlotInv' /\ Placed' = Placed \cup {i} /\ inventory[slotOf'[i].host].region = r
        /\ \A j \in Placed : slotOf'[j] = slotOf[j]
    <3> HIDE DEF r
    <3> QED
      BY <1>1, <1>2, <1>4, <2>1, SlotTaken
  <2>3. PinInv' /\ Placed' \subseteq DOMAIN pinned'
    BY <1>1, <1>2, <2>1, <2>2 DEF PinInv
  <2> QED
    BY <1>1, <1>2, <2>1, <2>3 DEF PlaceInv
<1> QED
  BY <1>3, <1>4

LEMMA AllPinnedStep ==
  ASSUME PlaceInv, AllPinned
  PROVE  PlaceInv'
<1>1. /\ stage = "pin" /\ DOMAIN pinned \subseteq Placed /\ stage' = "fill"
      /\ UNCHANGED <<inventory, pinned, topicOf, addr, tries, slotOf>>
  BY DEF AllPinned
<1>2. PinInv' /\ Placed' = Placed
  BY <1>1, PlacingStays DEF PlaceInv
<1> QED
  BY <1>1, <1>2 DEF PlaceInv

\* A region with a free slot comes before the others.
LEMMA NextRegionHasRoom ==
  ASSUME inventory \in Inventories
  PROVE  /\ \A r \in NextRegion : Free(r) # {}
         /\ NextRegion = {} => \A h \in Hosts : Free(inventory[h].region) = {}
<1> DEFINE Open == {r \in {inventory[h].region : h \in Hosts} : Free(r) # {}}
           T == {FillOrder(r) : r \in Open}
<1>1. CASE Open = {}
  <2>1. NextRegion = {}
    BY <1>1 DEF NextRegion
  <2>2. \A h \in Hosts : Free(inventory[h].region) = {}
    BY <1>1
  <2> QED
    BY <2>1, <2>2
<1>2. CASE Open # {}
  <2>1. ASSUME NEW r \in Open PROVE FillOrder(r) \in Nat
    <3>1. InRegion(r) # {} /\ InRegion(r) \subseteq Nat
      BY InventoryFacts DEF InRegion
    <3>2. Min(InRegion(r)) \in Nat
      BY <3>1, LeastOf
    <3> QED
      BY <3>2 DEF FillOrder
  <2>2. PICK m \in T : \A k \in T : m <= k
    <3>1. T \in SUBSET Nat /\ T # {}
      BY <1>2, <2>1
    <3> HIDE DEF T
    <3> QED
      BY <3>1, LeastNumber
  <2>3. \E r \in Open : \A q \in Open : FillOrder(r) <= FillOrder(q)
    BY <2>2
  <2> DEFINE r == CHOOSE r \in Open : \A q \in Open : FillOrder(r) <= FillOrder(q)
  <2>4. r \in Open
    BY <2>3
  <2>5. NextRegion = {r}
    BY <1>2 DEF NextRegion
  <2> HIDE DEF r
  <2> QED
    BY <2>4, <2>5
<1> QED
  BY <1>1, <1>2

LEMMA PlaceFreeStep ==
  ASSUME PlaceInv, PlaceFree
  PROVE  PlaceInv'
<1>1. /\ stage = "fill" /\ Placed # PlaceNodes
      /\ UNCHANGED <<inventory, pinned, topicOf, addr, tries>>
      /\ IF NextRegion = {} THEN stage' = "failed" /\ UNCHANGED slotOf
         ELSE /\ \E r \in NextRegion : slotOf' = With(slotOf, Min(PlaceNodes \ Placed), Take(r))
              /\ UNCHANGED stage
  BY DEF PlaceFree
<1>2. PinInv /\ SlotInv /\ DOMAIN pinned \subseteq Placed /\ inventory \in Inventories
  BY <1>1 DEF PlaceInv, PinInv
<1>3. CASE NextRegion = {}
  <2> DEFINE S == SlotsOf(Hosts)
  <2>1. ASSUME NEW s \in S PROVE \E j \in Placed : s = slotOf[j]
    <3>1. s.host \in Hosts /\ s.local \in 0..inventory[s.host].slots - 1 /\ s = [host |-> s.host, local |-> s.local]
      BY SlotFacts
    <3>2. s.host \in InRegion(inventory[s.host].region) /\ InRegion(inventory[s.host].region) \in SUBSET Hosts
      BY <3>1 DEF InRegion
    <3>3. s \in SlotsOf(InRegion(inventory[s.host].region))
      BY <3>1, <3>2, SlotFacts
    <3>4. Free(inventory[s.host].region) = {}
      BY <1>2, <1>3, <3>1, NextRegionHasRoom
    <3> QED
      BY <3>3, <3>4 DEF Free
  <2>2. S \subseteq {slotOf[j] : j \in Placed} /\ Placed \in SUBSET PlaceNodes
    BY <2>1 DEF Placed
  <2>3. Cardinality(S) <= Cardinality(Placed) /\ Cardinality(S) \in Nat
    <3> HIDE DEF S
    <3> QED
      BY <2>2, TooFewSlots
  <2>4. Cardinality(Placed) < NumNodes /\ Cardinality(Placed) \in Nat /\ NumNodes \in Nat
    BY <1>1, <2>2, CountNodes, NodeFacts
  <2>5. ~ (NumNodes <= Cardinality(S))
    <3> HIDE DEF S
    <3> QED
      BY <2>3, <2>4
  <2>6. ~ Feasible
    BY <2>5 DEF Feasible
  <2>7. ~ Feasible' /\ stage' = "failed"
    BY <1>1, <1>3, <2>6, FeasibleStays
  <2> QED
    BY <1>1, <1>2, <2>7 DEF PlaceInv
<1>4. CASE NextRegion # {}
  <2> DEFINE i == Min(PlaceNodes \ Placed)
  <2>1. PICK r \in NextRegion : slotOf' = With(slotOf, i, Take(r))
    BY <1>1, <1>4
  <2>2. i \in PlaceNodes \ Placed
    <3>1. PlaceNodes \ Placed # {} /\ PlaceNodes \ Placed \subseteq Nat
      BY <1>1, NodeFacts DEF Placed
    <3> QED
      BY <3>1, LeastOf
  <2> HIDE DEF i
  <2>3. Free(r) # {}
    BY <1>2, NextRegionHasRoom
  <2>4. /\ SlotInv' /\ Placed' = Placed \cup {i}
        /\ \A j \in Placed : slotOf'[j] = slotOf[j]
    BY <1>1, <1>2, <2>1, <2>2, <2>3, SlotTaken
  <2>5. PinInv' /\ DOMAIN pinned' \subseteq Placed'
    BY <1>1, <1>2, <2>2, <2>4 DEF PinInv
  <2> QED
    BY <1>1, <1>2, <1>4, <2>5 DEF PlaceInv
<1> QED
  BY <1>3, <1>4

LEMMA PlacementDoneStep ==
  ASSUME PlaceInv, PlacementDone
  PROVE  PlaceInv'
<1>1. /\ stage \in {"group", "fill"} /\ Placed = PlaceNodes /\ stage' = "placed"
      /\ UNCHANGED <<inventory, pinned, topicOf, addr, tries, slotOf>>
  BY DEF PlacementDone
<1>2. (GroupInv \/ PinInv)' /\ Placed' = Placed
  BY <1>1, PlacingStays DEF PlaceInv
<1> QED
  BY <1>1, <1>2 DEF PlaceInv, PlaceNodes

LEMMA PlaceInitInv == PlaceInit => PlaceInv
<1> SUFFICES ASSUME PlaceInit PROVE PlaceInv
  OBVIOUS
<1>1. inventory \in Inventories /\ stage \in {"draw", "pin"} /\ addr = <<>> /\ tries = 0 /\ slotOf = <<>>
  BY DEF PlaceInit
<1>2. Placed = {} /\ Drawn = {}
  BY <1>1 DEF Placed, Drawn
<1>3. SlotInv
  BY <1>1, <1>2 DEF SlotInv
<1>4. CASE stage = "draw"
  <2>1. \E common \in Common : topicOf \in DrawTopics(common)
    BY <1>4 DEF PlaceInit
  <2>2. topicOf \in [PlaceNodes -> Nat]
    <3>1. PICK common \in Common : topicOf \in DrawTopics(common)
      BY <2>1
    <3>2. RunTopics \in Nat
      BY PlacementAssumption
    <3>3. {t + (IF common THEN 1 ELSE 0) : t \in 0..RunTopics - 1} \subseteq Nat
      BY <3>2
    <3> QED
      BY <3>1, <3>3 DEF DrawTopics
  <2>3. {} = 0..0 - 1 /\ 0 \in 0..NumNodes
    BY NodeFacts
  <2>4. DrawInv
    BY <1>1, <1>2, <2>1, <2>2, <2>3 DEF DrawInv
  <2> QED
    BY <1>1, <1>4, <2>4 DEF PlaceInv
<1>5. CASE stage = "pin"
  <2>1. topicOf = <<>> /\ \E pins \in PinSets : pinned = PinBootnode(pins, inventory)
    BY <1>5 DEF PlaceInit
  <2>2. DOMAIN pinned \subseteq PlaceNodes
    <3>1. PICK pins : pinned = PinBootnode(pins, inventory)
      BY <2>1
    <3> DEFINE valid == [i \in DOMAIN pins \cap PlaceNodes |-> pins[i]]
               more == [i \in DOMAIN valid \cup {0} |-> IF i = 0 THEN Home ELSE valid[i]]
    <3>2. pinned = valid \/ pinned = more
      BY <3>1, Zenon DEF PinBootnode
    <3>3. DOMAIN valid = DOMAIN pins \cap PlaceNodes
      OBVIOUS
    <3>4. DOMAIN more = DOMAIN valid \cup {0}
      OBVIOUS
    <3> HIDE DEF valid, more
    <3> QED
      BY <3>2, <3>3, <3>4, NodeFacts
  <2> QED
    BY <1>1, <1>2, <1>3, <1>5, <2>1, <2>2 DEF PlaceInv, PinInv
<1> QED
  BY <1>1, <1>4, <1>5

LEMMA PlaceInvariant == PlaceSpec => []PlaceInv
<1>1. PlaceInv /\ UNCHANGED placeVars => PlaceInv'
  <2> SUFFICES ASSUME PlaceInv, UNCHANGED placeVars PROVE PlaceInv'
    OBVIOUS
  <2>1. UNCHANGED <<inventory, pinned, topicOf, addr, tries, slotOf>> /\ stage' = stage
    BY DEF placeVars
  <2> QED
    BY <2>1, PlacingStays, FeasibleStays DEF PlaceInv, PlaceNodes, ByRegion
<1>2. PlaceInv /\ [PlaceNext]_placeVars => PlaceInv'
  BY <1>1, DrawAddressStep, PoolDrawnStep, DrawFailsStep, PlaceGroupStep, PlacePinnedStep, AllPinnedStep,
     PlaceFreeStep, PlacementDoneStep DEF PlaceNext
<1> QED
  BY <1>2, PlaceInitInv, PTL DEF PlaceSpec

\* Where a cloud run puts its nodes, for any inventory, pins, crawl and number of
\* nodes: every node has a slot of its own; by region the pinned nodes are in theirs, and
\* the placement fails only when there is none; with crawl addresses every node has an
\* address of its own and every /24 is on one host with the routes that lead there.
THEOREM NodesArePlaced == PlaceSpec => []PlacementSound
<1>1. ASSUME GroupInv, Placed = PlaceNodes, NEW i \in DOMAIN addr, NEW h \in Hosts
      PROVE  {r.via : r \in {q \in Routes(h) : q.prefix = addr[i].prefix}} =
                IF h = slotOf[i].host THEN {} ELSE {slotOf[i].host}
  <2> DEFINE p == addr[i].prefix
  <2>1. i \in PlaceNodes /\ i \in Group(p)
    BY <1>1 DEF GroupInv, DrawInv, Group
  <2>2. Min(Group(p)) \in Group(p)
    <3>1. Group(p) \subseteq Nat /\ Group(p) # {}
      BY <2>1, NodeFacts DEF Group
    <3> HIDE DEF p
    <3> QED
      BY <3>1, LeastOf
  <2>3. Owner(p) = slotOf[i].host
    <3>1. Min(Group(p)) \in PlaceNodes /\ addr[Min(Group(p))].prefix = addr[i].prefix
      BY <2>2 DEF Group
    <3> QED
      BY <1>1, <2>1, <3>1 DEF GroupInv, Owner
  <2>4. p \in {addr[j].prefix : j \in PlaceNodes}
    BY <2>1
  <2> HIDE DEF p
  <2>5. CASE Owner(p) = h
    <3>1. {q \in Routes(h) : q.prefix = p} = {}
      BY <2>5 DEF Routes
    <3> QED
      BY <2>3, <2>5, <3>1 DEF p
  <2>6. CASE Owner(p) # h
    <3> DEFINE v == [prefix |-> p, via |-> Owner(p)]
    <3>1. v \in Routes(h) /\ v.prefix = p /\ v.via = Owner(p)
      BY <2>4, <2>6 DEF Routes
    <3>2. \A q \in Routes(h) : q.prefix = p => q.via = Owner(p)
      BY DEF Routes
    <3> HIDE DEF v
    <3>3. {r.via : r \in {q \in Routes(h) : q.prefix = p}} = {Owner(p)}
      BY <3>1, <3>2
    <3> QED
      BY <2>3, <2>6, <3>3 DEF p
  <2> QED
    BY <2>5, <2>6
<1>2. ASSUME PlaceInv, stage = "placed", GroupInv PROVE PlacementSound
  <2>1. Placed = PlaceNodes /\ SlotInv /\ DrawInv /\ DOMAIN addr = PlaceNodes
    BY <1>2 DEF PlaceInv, GroupInv, DrawInv
  <2>2. \A i, j \in PlaceNodes : slotOf[i] = slotOf[j] => i = j
    BY <2>1 DEF SlotInv
  <2>3. \A i \in PlaceNodes : slotOf[i].local \in 0..inventory[slotOf[i].host].slots - 1
    BY <2>1, SlotFacts DEF SlotInv
  <2>4. ~ ByRegion
    BY <2>1, NodeFacts DEF DrawInv, ByRegion
  <2>5. ASSUME NEW i \in DOMAIN addr PROVE addr[i].octet \in 1..Octets
    <3>1. addr[i] \in Address
      BY <1>2, <2>1 DEF GroupInv, DrawInv
    <3> QED
      BY <3>1 DEF Address
  <2>6. \A i, j \in DOMAIN addr : addr[i] = addr[j] => i = j
    BY <1>2, <2>1 DEF GroupInv, DrawInv
  <2> QED
    BY <1>1, <1>2, <2>1, <2>2, <2>3, <2>4, <2>5, <2>6 DEF PlacementSound
<1>3. ASSUME PlaceInv, stage = "placed", PinInv PROVE PlacementSound
  <2>1. Placed = PlaceNodes /\ SlotInv /\ DOMAIN addr = {} /\ DOMAIN pinned \subseteq PlaceNodes
    BY <1>3 DEF PlaceInv, PinInv
  <2>2. \A i, j \in PlaceNodes : slotOf[i] = slotOf[j] => i = j
    BY <2>1 DEF SlotInv
  <2>3. \A i \in PlaceNodes : slotOf[i].local \in 0..inventory[slotOf[i].host].slots - 1
    BY <2>1, SlotFacts DEF SlotInv
  <2>4. \A i \in DOMAIN pinned : inventory[slotOf[i].host].region = pinned[i]
    BY <1>3, <2>1 DEF PinInv
  <2> QED
    BY <1>3, <2>1, <2>2, <2>3, <2>4 DEF PlacementSound
<1>4. PlaceInv => PlacementSound
  <2>1. ASSUME PlaceInv, stage # "placed" PROVE PlacementSound
    BY <2>1 DEF PlaceInv, PlacementSound
  <2> QED
    BY <1>2, <1>3, <2>1 DEF PlaceInv
<1> QED
  BY <1>4, PlaceInvariant, PTL

-----------------------------------------------------------------------------
(* The verdict on drops *)

DropSample == [at : Nat, read : Nat, sum : Nat, expected : Nat, failed : BOOLEAN]

DropTypeOK ==
  /\ source \in {"netns", "ARP", "ENA", "UDP"} /\ fitted \in SUBSET DropHosts
  /\ source = "UDP" => fitted = DropHosts
  /\ misread \in BOOLEAN
  /\ counter \in [DropHosts -> [UnitsOf(source) -> Nat]] /\ clock \in Nat
  /\ samples \in [DropHosts -> Seq(DropSample)] /\ restarted \in BOOLEAN
  /\ lost \in [DropHosts -> Nat] /\ lostInRun \in [DropHosts -> Nat]

\* What there is to read, and the counter's value on a host.
Width == Cardinality(UnitsOf(source))
Counted(h) == SumFunctionOnSet(counter[h], UnitsOf(source))

\* What a sample of host h can be; read whole, it is a point of comparison.
SampleOf(h, s) ==
  /\ s.read <= Width /\ (h \notin fitted => s.read = 0) /\ (source = "UDP" => s.read = Width)
  /\ s.expected = IF source = "netns" /\ h \in fitted THEN Width ELSE 0
  /\ s.failed <=> (source = "ENA" /\ h \in fitted /\ s.read = 0)
Whole(hs) == {k \in DOMAIN hs : hs[k].read = Width}

\* The first sample is taken before anything counts; one taken whole after the stop
\* has all that was lost until then, unless the counter started again or was misread.
SeriesOf(h) ==
  \A k \in DOMAIN samples[h] :
    /\ SampleOf(h, samples[h][k]) /\ samples[h][k].at <= clock
    /\ \A j \in DOMAIN samples[h] : j < k => samples[h][j].at < samples[h][k].at
    /\ k \in Whole(samples[h]) /\ k = 1 /\ ~ misread => samples[h][k].sum = 0
    /\ k \in Whole(samples[h]) /\ samples[h][k].at >= StopAt /\ ~ restarted /\ ~ misread
       => lostInRun[h] <= samples[h][k].sum

\* The rise since the last point.
Since(h) ==
  IF Points(samples[h]) = {} THEN 0
  ELSE Rise(samples[h][Max(Points(samples[h]))].sum, Counted(h))

\* What the samples rose by, and the counter since, was lost, unless one was misread.
LossOf(h) ==
  /\ ~ misread => Increase(samples[h]) + Since(h) <= lost[h]
  /\ lostInRun[h] <= lost[h] /\ (h \notin fitted => lost[h] = 0)
  /\ ~ restarted => Counted(h) = lost[h]
  /\ samples[h] = <<>> => Counted(h) = 0

DropInv == DropTypeOK /\ \A h \in DropHosts : SeriesOf(h) /\ LossOf(h)

LEMMA UnitFacts ==
  /\ \A s : UnitsOf(s) # {} /\ IsFiniteSet(UnitsOf(s)) /\ (s # "netns" => Cardinality(UnitsOf(s)) = 1)
  /\ UnitsOf("netns") = Units /\ Width \in Nat \ {0}
<1>1. IsFiniteSet(Units) /\ Units # {}
  BY HostDropsAssumption
<1>2. ASSUME NEW s
      PROVE  UnitsOf(s) # {} /\ IsFiniteSet(UnitsOf(s)) /\ (s # "netns" => Cardinality(UnitsOf(s)) = 1)
  BY <1>1, FS_Singleton DEF UnitsOf
<1>3. Width \in Nat \ {0}
  BY <1>2, FS_CardinalityType, FS_EmptySet DEF Width
<1>4. UnitsOf("netns") = Units
  BY DEF UnitsOf
<1> QED
  BY <1>2, <1>3, <1>4

\* A series of a host's samples.
IsSeries(h, hs) == hs \in Seq(DropSample) /\ \A k \in DOMAIN hs : SampleOf(h, hs[k])

LEMMA SampleFacts ==
  ASSUME NEW h, NEW hs, IsSeries(h, hs), NEW k \in DOMAIN hs
  PROVE  /\ hs[k] \in DropSample /\ hs[k].sum \in Nat /\ hs[k].at \in Nat /\ hs[k].read \in Nat
         /\ k \in Nat \ {0} /\ k <= Len(hs) /\ Len(hs) \in Nat /\ DOMAIN hs = 1..Len(hs)
         /\ IsFiniteSet(DOMAIN hs)
<1>1. hs \in Seq(DropSample) /\ DOMAIN hs = 1..Len(hs) /\ Len(hs) \in Nat
  BY DEF IsSeries
<1>2. hs[k] \in DropSample
  BY <1>1
<1>3. IsFiniteSet(1..Len(hs))
  BY <1>1, FS_Interval
<1> QED
  BY <1>1, <1>2, <1>3 DEF DropSample

\* The points of comparison are the samples that read the whole source.
LEMMA PointsAreWhole ==
  ASSUME NEW h, NEW hs, IsSeries(h, hs), source \in {"netns", "ARP", "ENA", "UDP"}
  PROVE  Points(hs) = Whole(hs)
<1>1. Width \in Nat \ {0} /\ (source # "netns" => Width = 1)
  BY UnitFacts DEF Width
<1>2. ASSUME NEW k \in DOMAIN hs PROVE Measured(hs, k) <=> hs[k].read = Width
  <2>1. /\ hs[k].read \in Nat /\ hs[k].read <= Width /\ (h \notin fitted => hs[k].read = 0)
        /\ hs[k].expected = IF source = "netns" /\ h \in fitted THEN Width ELSE 0
    BY SampleFacts DEF IsSeries, SampleOf
  <2>2. CASE source = "netns" /\ h \in fitted
    BY <1>1, <2>1, <2>2 DEF Measured
  <2>3. CASE h \notin fitted
    BY <1>1, <2>1, <2>3 DEF Measured
  <2>4. CASE source # "netns"
    <3>1. CASE hs[k].read = 0
      BY <1>1, <2>1, <2>4, <3>1 DEF Measured
    <3>2. CASE hs[k].read = 1
      <4> DEFINE S == {hs[j].read : j \in DOMAIN hs}
      <4>1. 1 \in S /\ \A r \in S : r \in Nat /\ r <= 1
        BY <1>1, <2>4, <3>2, SampleFacts DEF IsSeries, SampleOf
      <4>2. Max(S) \in S /\ Max(S) >= 1
        <5>1. \E m \in S : \A r \in S : r <= m
          BY <4>1
        <5> QED
          BY <4>1, <5>1 DEF Max
      <4>3. Max(S) = 1
        BY <4>1, <4>2
      <4>4. Top(hs) = 1
        BY <4>3 DEF Top
      <4> QED
        BY <1>1, <2>1, <2>4, <3>2, <4>4 DEF Measured
    <3> QED
      BY <1>1, <2>1, <2>4, <3>1, <3>2
  <2> QED
    BY <2>2, <2>3, <2>4
<1> QED
  BY <1>2 DEF Points, Whole

LEMMA PointFacts ==
  ASSUME NEW h, NEW hs, IsSeries(h, hs)
  PROVE  /\ Points(hs) \subseteq DOMAIN hs /\ Points(hs) \subseteq Nat /\ IsFiniteSet(Points(hs))
         /\ \A S \in SUBSET Points(hs) : S # {} => Max(S) \in S /\ \A k \in S : k <= Max(S)
         /\ \A k \in Points(hs) : RiseTo(hs, k) \in Nat
         /\ Increase(hs) \in Nat
<1>1. Points(hs) \subseteq DOMAIN hs
  BY DEF Points
<1>2. Points(hs) \subseteq Nat
  BY <1>1, SampleFacts
<1>3. IsFiniteSet(Points(hs))
  <2>1. CASE DOMAIN hs = {}
    <3>1. Points(hs) = {}
      BY <1>1, <2>1
    <3> QED
      BY <3>1, FS_EmptySet
  <2>2. CASE DOMAIN hs # {}
    BY <1>1, <2>2, SampleFacts, FS_Subset
  <2> QED
    BY <2>1, <2>2
<1>4. ASSUME NEW S \in SUBSET Points(hs), S # {} PROVE Max(S) \in S /\ \A k \in S : k <= Max(S)
  <2>1. S \in SUBSET Int /\ IsFiniteSet(S)
    BY <1>2, <1>3, FS_Subset
  <2>2. \E m \in S : \A k \in S : k <= m
    BY <1>4, <2>1, GreatestNumber
  <2> QED
    BY <2>2 DEF Max
<1>5. ASSUME NEW k \in Points(hs) PROVE RiseTo(hs, k) \in Nat
  <2>1. CASE Earlier(hs, k) = {}
    BY <2>1 DEF RiseTo
  <2>2. CASE Earlier(hs, k) # {}
    <3>1. PICK m \in Points(hs) : m = Max(Earlier(hs, k))
      BY <1>4, <2>2 DEF Earlier
    <3>2. hs[m].sum \in Nat /\ hs[k].sum \in Nat
      BY <1>1, SampleFacts
    <3> QED
      BY <2>2, <3>1, <3>2 DEF RiseTo, Rise
  <2> QED
    BY <2>1, <2>2
<1>6. Increase(hs) \in Nat
  <2> DEFINE f == [k \in Points(hs) |-> RiseTo(hs, k)]
  <2>1. \A k \in Points(hs) : f[k] \in Nat
    BY <1>5
  <2>2. SumFunctionOnSet(f, Points(hs)) \in Nat
    <3> HIDE DEF f
    <3> QED
      BY <1>3, <2>1, SumNat
  <2> QED
    BY <2>2 DEF Increase
<1> QED
  BY <1>1, <1>2, <1>3, <1>4, <1>5, <1>6

\* What begins a series has its points, and rises to each as much.
Begins(gs, hs) == DOMAIN gs \subseteq DOMAIN hs /\ \A k \in DOMAIN gs : gs[k] = hs[k]

LEMMA BeginningRises ==
  ASSUME NEW h, NEW gs, NEW hs, IsSeries(h, gs), IsSeries(h, hs), Begins(gs, hs),
         source \in {"netns", "ARP", "ENA", "UDP"}
  PROVE  /\ Points(gs) = Points(hs) \cap DOMAIN gs
         /\ \A k \in Points(gs) : RiseTo(gs, k) = RiseTo(hs, k)
         /\ SumFunctionOnSet([k \in Points(hs) |-> RiseTo(hs, k)], Points(gs)) = Increase(gs)
<1>1. Points(gs) = Points(hs) \cap DOMAIN gs
  BY PointsAreWhole DEF Whole, Begins
<1>2. ASSUME NEW k \in Points(gs) PROVE RiseTo(gs, k) = RiseTo(hs, k)
  <2>1. Earlier(gs, k) = Earlier(hs, k)
    <3>1. \A j \in DOMAIN hs : j < k => j \in DOMAIN gs
      <4>1. k \in DOMAIN gs
        BY <1>1
      <4>2. k <= Len(gs) /\ DOMAIN gs = 1..Len(gs) /\ Len(gs) \in Nat /\ k \in Nat
        BY <4>1, SampleFacts
      <4>3. \A j \in DOMAIN hs : j \in Nat \ {0}
        BY SampleFacts
      <4> QED
        BY <4>2, <4>3
    <3> QED
      BY <1>1, <3>1, PointFacts DEF Earlier
  <2>2. CASE Earlier(gs, k) = {}
    BY <2>1, <2>2 DEF RiseTo
  <2>3. CASE Earlier(gs, k) # {}
    <3>1. PICK m \in Points(gs) : m = Max(Earlier(gs, k))
      BY <2>3, PointFacts DEF Earlier
    <3>2. gs[m] = hs[m] /\ gs[k] = hs[k]
      BY <1>1, <3>1 DEF Begins
    <3> QED
      BY <2>1, <2>3, <3>1, <3>2 DEF RiseTo
  <2> QED
    BY <2>2, <2>3
<1> DEFINE f == [k \in Points(hs) |-> RiseTo(hs, k)]
           g == [k \in Points(gs) |-> RiseTo(gs, k)]
<1>3. \A k \in Points(gs) : f[k] = g[k]
  BY <1>1, <1>2
<1>4. SumFunctionOnSet(f, Points(gs)) = SumFunctionOnSet(g, Points(gs))
  <2>1. IsFiniteSet(Points(gs))
    BY PointFacts
  <2> HIDE DEF f, g
  <2> QED
    BY <1>3, <2>1, SumEqual
<1> QED
  BY <1>1, <1>2, <1>4 DEF Increase

LEMMA BeginningIncreases ==
  ASSUME NEW h, NEW gs, NEW hs, IsSeries(h, gs), IsSeries(h, hs), Begins(gs, hs),
         source \in {"netns", "ARP", "ENA", "UDP"}
  PROVE  Increase(gs) <= Increase(hs)
<1> DEFINE f == [k \in Points(hs) |-> RiseTo(hs, k)]
<1>1. \A k \in Points(hs) : f[k] \in Nat
  BY PointFacts
<1>2. Points(gs) \in SUBSET Points(hs) /\ SumFunctionOnSet(f, Points(gs)) = Increase(gs)
  BY BeginningRises, SMTT(30)
<1>3. SumFunctionOnSet(f, Points(gs)) <= SumFunctionOnSet(f, Points(hs))
  <2>1. IsFiniteSet(Points(hs))
    BY PointFacts
  <2> HIDE DEF f
  <2> QED
    BY <1>1, <1>2, <2>1, SumSubset
<1> QED
  BY <1>2, <1>3 DEF Increase

\* A sample that joins a series, and what it rises by since the last point.
Joined(h, hs, s, gs) ==
  /\ IsSeries(h, gs) /\ Begins(hs, gs) /\ Len(gs) = Len(hs) + 1 /\ gs[Len(hs) + 1] = s
  /\ s.read # Width => Points(gs) = Points(hs) /\ Increase(gs) = Increase(hs)
  /\ s.read = Width =>
       /\ Points(gs) = Points(hs) \cup {Len(hs) + 1} /\ Max(Points(gs)) = Len(hs) + 1
       /\ Increase(gs) = Increase(hs) + (IF Points(hs) = {} THEN 0
                                         ELSE Rise(hs[Max(Points(hs))].sum, s.sum))

LEMMA SampleJoins ==
  ASSUME NEW h, NEW hs, IsSeries(h, hs), NEW s, s \in DropSample, SampleOf(h, s),
         source \in {"netns", "ARP", "ENA", "UDP"}
  PROVE  Joined(h, hs, s, Append(hs, s))
<1>0. PICK gs : gs = Append(hs, s)
  OBVIOUS
<1>1. hs \in Seq(DropSample) /\ Len(hs) \in Nat /\ DOMAIN hs = 1..Len(hs)
  BY DEF IsSeries
<1>2. PICK n \in Nat \ {0} : n = Len(hs) + 1 /\ n \notin DOMAIN hs
  BY <1>1
<1>3. /\ gs \in Seq(DropSample) /\ Len(gs) = n /\ gs[n] = s /\ DOMAIN gs = DOMAIN hs \cup {n}
      /\ \A k \in DOMAIN hs : gs[k] = hs[k]
  BY <1>0, <1>1, <1>2
<1>4. IsSeries(h, gs) /\ Begins(hs, gs)
  BY <1>3 DEF IsSeries, Begins
<1>5. Points(hs) = Points(gs) \cap DOMAIN hs
  BY <1>4, BeginningRises
<1>6. n \in Points(gs) <=> s.read = Width
  <2>1. Points(gs) = Whole(gs)
    BY <1>4, PointsAreWhole
  <2> QED
    BY <1>3, <2>1 DEF Whole
<1>7. Points(gs) = IF s.read = Width THEN Points(hs) \cup {n} ELSE Points(hs)
  <2>1. Points(gs) \subseteq DOMAIN hs \cup {n} /\ Points(hs) \subseteq DOMAIN hs
    BY <1>3, <1>4, PointFacts
  <2> QED
    BY <1>5, <1>6, <2>1
<1> DEFINE f == [k \in Points(gs) |-> RiseTo(gs, k)]
<1>8. SumFunctionOnSet(f, Points(hs)) = Increase(hs) /\ SumFunctionOnSet(f, Points(gs)) = Increase(gs)
  BY <1>4, BeginningRises DEF Increase
<1>9. ASSUME s.read = Width
      PROVE  /\ Points(gs) = Points(hs) \cup {n} /\ Max(Points(gs)) = n
             /\ Increase(gs) = Increase(hs) + (IF Points(hs) = {} THEN 0
                                               ELSE Rise(hs[Max(Points(hs))].sum, s.sum))
  <2>1. Points(gs) = Points(hs) \cup {n} /\ Points(gs) \ {n} = Points(hs)
    BY <1>2, <1>7, <1>9, <1>4, PointFacts
  <2>2. \A k \in Points(hs) : k \in Nat /\ k < n
    <3>1. Points(hs) \subseteq DOMAIN hs
      BY <1>4, PointFacts
    <3> QED
      BY <1>1, <1>2, <3>1
  <2>3. Earlier(gs, n) = Points(hs)
    BY <1>2, <2>1, <2>2 DEF Earlier
  <2>4. Max(Points(gs)) = n
    <3>1. Max(Points(gs)) \in Points(gs) /\ n <= Max(Points(gs))
      BY <1>4, <2>1, PointFacts
    <3> QED
      BY <1>2, <2>1, <2>2, <3>1
  <2>5. RiseTo(gs, n) = IF Points(hs) = {} THEN 0 ELSE Rise(hs[Max(Points(hs))].sum, s.sum)
    <3>1. CASE Points(hs) = {}
      BY <2>3, <3>1 DEF RiseTo
    <3>2. CASE Points(hs) # {}
      <4>1. Max(Points(hs)) \in DOMAIN hs
        BY <3>2, PointFacts
      <4> QED
        BY <1>3, <2>3, <3>2, <4>1 DEF RiseTo
    <3> QED
      BY <3>1, <3>2
  <2>6. \A k \in Points(gs) : f[k] \in Int
    BY <1>4, PointFacts
  <2>7. f[n] = RiseTo(gs, n)
    BY <2>1
  <2>8. SumFunctionOnSet(f, Points(gs)) = f[n] + SumFunctionOnSet(f, Points(gs) \ {n})
    <3>1. PICK P : P = Points(gs)
      OBVIOUS
    <3>2. IsFiniteSet(P) /\ n \in P /\ \A k \in P : f[k] \in Int
      BY <1>4, <2>1, <2>6, <3>1, PointFacts
    <3> HIDE DEF f
    <3>3. SumFunctionOnSet(f, P) = f[n] + SumFunctionOnSet(f, P \ {n})
      BY <3>2, SumTake, ZenonT(60)
    <3> QED
      BY <3>1, <3>3
  <2>9. RiseTo(gs, n) \in Nat /\ Increase(hs) \in Nat
    BY <1>4, <2>1, PointFacts
  <2>10. Increase(gs) = RiseTo(gs, n) + Increase(hs)
    BY <1>8, <2>1, <2>7, <2>8, Zenon
  <2>11. Increase(gs) = Increase(hs) + RiseTo(gs, n)
    BY <2>9, <2>10
  <2> QED
    BY <2>1, <2>4, <2>5, <2>11, Zenon
<1>10. s.read # Width => Points(gs) = Points(hs) /\ Increase(gs) = Increase(hs)
  BY <1>7, <1>8, Zenon
<1>11. Joined(h, hs, s, gs)
  BY <1>2, <1>3, <1>4, <1>9, <1>10 DEF Joined
<1> QED
  BY <1>0, <1>11

-----------------------------------------------------------------------------
(* What a step does to the counter and the samples *)

LEMMA HostSeries ==
  ASSUME DropInv, NEW h \in DropHosts
  PROVE  /\ IsSeries(h, samples[h]) /\ SeriesOf(h) /\ LossOf(h) /\ Counted(h) \in Nat
         /\ lost[h] \in Nat /\ lostInRun[h] \in Nat /\ source \in {"netns", "ARP", "ENA", "UDP"}
         /\ Increase(samples[h]) \in Nat /\ Since(h) \in Nat
<1>1. /\ lost[h] \in Nat /\ lostInRun[h] \in Nat /\ samples[h] \in Seq(DropSample)
      /\ counter[h] \in [UnitsOf(source) -> Nat] /\ source \in {"netns", "ARP", "ENA", "UDP"}
  BY DEF DropInv, DropTypeOK
<1>2. SeriesOf(h) /\ LossOf(h)
  BY DEF DropInv
<1>3. IsSeries(h, samples[h])
  BY <1>1, <1>2 DEF IsSeries, SeriesOf
<1>4. Counted(h) \in Nat
  BY <1>1, UnitFacts, SumNat DEF Counted
<1>5. Increase(samples[h]) \in Nat
  BY <1>3, PointFacts
<1>6. Since(h) \in Nat
  <2>1. CASE Points(samples[h]) = {}
    BY <2>1 DEF Since
  <2>2. CASE Points(samples[h]) # {}
    <3>1. PICK m \in DOMAIN samples[h] : m = Max(Points(samples[h]))
      BY <1>3, <2>2, PointFacts
    <3>2. samples[h][m].sum \in Nat
      BY <1>3, SampleFacts
    <3> QED
      BY <1>4, <2>2, <3>1, <3>2 DEF Since, Rise
  <2> QED
    BY <2>1, <2>2
<1> QED
  BY <1>1, <1>2, <1>3, <1>4, <1>5, <1>6

\* A host whose samples, counter and losses stay keeps what holds of it; time only
\* goes on, and the verdict on restarts may fall.
LEMMA HostStaysAsItIs ==
  ASSUME DropInv, NEW h \in DropHosts, UNCHANGED <<source, fitted>>, clock' \in Nat, clock' >= clock,
         counter'[h] = counter[h], samples'[h] = samples[h], lost'[h] = lost[h],
         lostInRun'[h] = lostInRun[h], restarted => restarted',
         misread => misread'
  PROVE  SeriesOf(h)' /\ LossOf(h)'
<1>1. SeriesOf(h) /\ LossOf(h)
  BY HostSeries
<1>2. Counted(h)' = Counted(h)
  BY DEF Counted
<1>3. LossOf(h)'
  BY <1>1, <1>2 DEF LossOf, Since
<1>4. Width' = Width
  BY DEF Width
<1>5. ASSUME NEW s PROVE SampleOf(h, s)' <=> SampleOf(h, s)
  BY <1>4 DEF SampleOf
<1>6. \A k \in DOMAIN samples[h] : samples[h][k].at <= clock'
  <2>1. PICK c \in Nat : c = clock'
    OBVIOUS
  <2>2. ASSUME NEW k \in DOMAIN samples[h] PROVE samples[h][k].at <= c
    <3>1. samples[h][k].at \in Nat /\ clock \in Nat /\ samples[h][k].at <= clock
      BY <1>1, HostSeries, SampleFacts DEF SeriesOf, DropInv, DropTypeOK
    <3> QED
      BY <2>1, <3>1
  <2> QED
    BY <2>1, <2>2
<1>7. SeriesOf(h)'
  BY <1>1, <1>4, <1>6 DEF SeriesOf, SampleOf, Whole
<1> QED
  BY <1>3, <1>7

LEMMA DropStep ==
  ASSUME DropInv, NEW h \in DropHosts, NEW u \in UnitsOf(source), Drop(h, u)
  PROVE  DropInv'
<1>1. /\ h \in fitted /\ Started(h) /\ UNCHANGED <<source, fitted, clock, samples, restarted, misread>>
      /\ counter' = [counter EXCEPT ![h][u] = @ + 1] /\ lost' = [lost EXCEPT ![h] = @ + 1]
      /\ lostInRun' = IF clock < StopAt THEN [lostInRun EXCEPT ![h] = @ + 1] ELSE lostInRun
  BY DEF Drop
<1>2. /\ counter \in [DropHosts -> [UnitsOf(source) -> Nat]] /\ clock \in Nat /\ StopAt \in Nat
      /\ lost \in [DropHosts -> Nat] /\ lostInRun \in [DropHosts -> Nat] /\ restarted \in BOOLEAN
  BY HostDropsAssumption DEF DropInv, DropTypeOK
<1>3. PICK c : c = [counter[h] EXCEPT ![u] = counter[h][u] + 1]
  OBVIOUS
<1>4. counter[h] \in [UnitsOf(source) -> Nat]
  BY <1>2
<1>5. c \in [UnitsOf(source) -> Nat] /\ c[u] = counter[h][u] + 1
      /\ \A v \in UnitsOf(source) : v # u => c[v] = counter[h][v]
  BY <1>3, <1>4
<1>6. counter' = [counter EXCEPT ![h] = c]
  BY <1>1, <1>2, <1>3
<1>7. counter' \in [DropHosts -> [UnitsOf(source) -> Nat]] /\ counter'[h] = c
      /\ \A k \in DropHosts : k # h => counter'[k] = counter[k]
  BY <1>2, <1>5, <1>6
<1>8. PICK l \in Nat : l = lost[h] + 1
  BY <1>2
<1>9. lost' \in [DropHosts -> Nat] /\ lost'[h] = l /\ \A k \in DropHosts : k # h => lost'[k] = lost[k]
  BY <1>1, <1>2, <1>8
<1>10. PICK r \in Nat : r = IF clock < StopAt THEN lostInRun[h] + 1 ELSE lostInRun[h]
  BY <1>2
<1>11. /\ lostInRun' \in [DropHosts -> Nat] /\ lostInRun'[h] = r
       /\ \A k \in DropHosts : k # h => lostInRun'[k] = lostInRun[k]
  BY <1>1, <1>2, <1>10
<1>12. DropTypeOK'
  BY <1>1, <1>7, <1>9, <1>11 DEF DropInv, DropTypeOK
<1>13. PICK n \in Nat : n = Counted(h)
  BY HostSeries
<1>14. Counted(h)' = n + 1
  <2>1. SumFunctionOnSet(c, UnitsOf(source)) = SumFunctionOnSet(counter[h], UnitsOf(source)) - counter[h][u] + c[u]
    <3>1. /\ IsFiniteSet(UnitsOf(source)) /\ \A v \in UnitsOf(source) \ {u} : c[v] = counter[h][v]
          /\ \A v \in UnitsOf(source) : counter[h][v] \in Int /\ c[v] \in Int
      BY <1>4, <1>5, UnitFacts
    <3> QED
      BY <3>1, SumUpdate
  <2>2. counter[h][u] \in Nat
    BY <1>4
  <2>3. SumFunctionOnSet(c, UnitsOf(source)) = n + 1
    BY <1>5, <1>13, <2>1, <2>2 DEF Counted
  <2> QED
    BY <1>1, <1>7, <2>3 DEF Counted
<1>15. LossOf(h)'
  <2>1. /\ IsSeries(h, samples[h]) /\ LossOf(h) /\ Increase(samples[h]) \in Nat /\ Since(h) \in Nat
        /\ lost[h] \in Nat /\ lostInRun[h] \in Nat
    BY HostSeries
  <2>2. PICK w \in Nat : w = IF Points(samples[h]) = {} THEN 0
                             ELSE Rise(samples[h][Max(Points(samples[h]))].sum, n + 1)
    <3>1. CASE Points(samples[h]) = {}
      BY <3>1
    <3>2. CASE Points(samples[h]) # {}
      <4>1. PICK m \in DOMAIN samples[h] : m = Max(Points(samples[h]))
        BY <2>1, <3>2, PointFacts
      <4>2. samples[h][m].sum \in Nat
        BY <2>1, SampleFacts
      <4>3. Rise(samples[h][m].sum, n + 1) \in Nat
        BY <4>2 DEF Rise
      <4> QED
        BY <3>2, <4>1, <4>3
    <3> QED
      BY <3>1, <3>2
  <2>3. w <= Since(h) + 1
    <3>1. CASE Points(samples[h]) = {}
      BY <2>1, <2>2, <3>1
    <3>2. CASE Points(samples[h]) # {}
      <4>1. PICK m \in DOMAIN samples[h] : m = Max(Points(samples[h]))
        BY <2>1, <3>2, PointFacts
      <4>2. PICK a \in Nat : a = samples[h][m].sum
        BY <2>1, SampleFacts
      <4>3. Since(h) = Rise(a, n) /\ w = Rise(a, n + 1)
        BY <1>13, <2>2, <3>2, <4>1, <4>2 DEF Since
      <4> QED
        BY <4>2, <4>3 DEF Rise
    <3> QED
      BY <3>1, <3>2
  <2>4. Since(h)' = w
    BY <1>1, <1>14, <2>2 DEF Since
  <2>5. ~ misread => Increase(samples[h]) + w <= l
    BY <1>8, <2>1, <2>3 DEF LossOf
  <2>6. r <= l
    BY <1>8, <1>10, <2>1 DEF LossOf
  <2>7. ~ restarted => n + 1 = l
    BY <1>8, <1>13, <2>1 DEF LossOf
  <2>8. samples[h] # <<>>
    BY <1>1 DEF Started
  <2> QED
    BY <1>1, <1>9, <1>11, <1>14, <2>4, <2>5, <2>6, <2>7, <2>8 DEF LossOf
<1>16. SeriesOf(h)'
  <2>1. SeriesOf(h) /\ IsSeries(h, samples[h])
    BY HostSeries
  <2>2. ASSUME NEW k \in DOMAIN samples[h], k \in Whole(samples[h]), samples[h][k].at >= StopAt, ~ restarted,
               ~ misread
        PROVE  r <= samples[h][k].sum
    <3>1. samples[h][k].at \in Nat /\ samples[h][k].at <= clock /\ lostInRun[h] <= samples[h][k].sum
      BY <2>1, <2>2, SampleFacts DEF SeriesOf
    <3>2. r = lostInRun[h]
      BY <1>2, <1>10, <2>2, <3>1
    <3> QED
      BY <3>1, <3>2
  <2>3. Width' = Width
    BY <1>1 DEF Width
  <2> QED
    BY <1>1, <1>11, <2>1, <2>2, <2>3 DEF SeriesOf, SampleOf, Whole
<1>17. ASSUME NEW k \in DropHosts, k # h PROVE SeriesOf(k)' /\ LossOf(k)'
  <2>1. clock' \in Nat /\ clock' >= clock
    BY <1>1, <1>2
  <2> QED
    BY <1>1, <1>7, <1>9, <1>11, <1>17, <2>1, HostStaysAsItIs
<1> QED
  BY <1>12, <1>15, <1>16, <1>17 DEF DropInv

LEMMA RestartStep ==
  ASSUME DropInv, NEW h \in DropHosts, Restart(h)
  PROVE  DropInv'
<1> DEFINE c == [u \in UnitsOf(source) |-> 0]
<1>1. /\ UNCHANGED <<source, fitted, clock, samples, lost, lostInRun, misread>> /\ restarted' = TRUE
      /\ counter' = [counter EXCEPT ![h] = c]
  BY DEF Restart
<1>2. counter \in [DropHosts -> [UnitsOf(source) -> Nat]] /\ clock \in Nat
  BY DEF DropInv, DropTypeOK
<1>3. c \in [UnitsOf(source) -> Nat] /\ \A u \in UnitsOf(source) : c[u] = 0
  OBVIOUS
<1> HIDE DEF c
<1>4. counter' \in [DropHosts -> [UnitsOf(source) -> Nat]] /\ counter'[h] = c
      /\ \A k \in DropHosts : k # h => counter'[k] = counter[k]
  BY <1>1, <1>2, <1>3
<1>5. DropTypeOK'
  BY <1>1, <1>4 DEF DropInv, DropTypeOK
<1>6. SumFunctionOnSet(c, UnitsOf(source)) = 0
  BY <1>3, UnitFacts, SumZero
<1>7. Counted(h)' = 0
  BY <1>1, <1>4, <1>6 DEF Counted
<1>8. /\ IsSeries(h, samples[h]) /\ LossOf(h) /\ SeriesOf(h) /\ Increase(samples[h]) \in Nat
      /\ Since(h) \in Nat /\ lost[h] \in Nat
  BY HostSeries
<1>9. Since(h)' = 0
  <2>1. CASE Points(samples[h]) = {}
    BY <1>1, <2>1 DEF Since
  <2>2. CASE Points(samples[h]) # {}
    <3>1. PICK m \in DOMAIN samples[h] : m = Max(Points(samples[h]))
      BY <1>8, <2>2, PointFacts
    <3>2. PICK a \in Nat : a = samples[h][m].sum
      BY <1>8, SampleFacts
    <3>3. Since(h)' = Rise(a, 0)
      BY <1>1, <1>7, <2>2, <3>1, <3>2 DEF Since
    <3> QED
      BY <3>2, <3>3 DEF Rise
  <2> QED
    BY <2>1, <2>2
<1>10. ~ misread => Increase(samples[h]) + 0 <= lost[h]
  BY <1>8 DEF LossOf
<1>11. LossOf(h)'
  BY <1>1, <1>7, <1>8, <1>9, <1>10 DEF LossOf
<1>12. SeriesOf(h)'
  <2>1. Width' = Width
    BY <1>1 DEF Width
  <2> QED
    BY <1>1, <1>8, <2>1 DEF SeriesOf, SampleOf, Whole
<1>13. ASSUME NEW k \in DropHosts, k # h PROVE SeriesOf(k)' /\ LossOf(k)'
  <2>1. clock' \in Nat /\ clock' >= clock
    BY <1>1, <1>2
  <2> QED
    BY <1>1, <1>4, <1>13, <2>1, HostStaysAsItIs
<1> QED
  BY <1>5, <1>11, <1>12, <1>13 DEF DropInv

LEMMA TickStep ==
  ASSUME DropInv, Tick
  PROVE  DropInv'
<1>1. UNCHANGED <<source, fitted, counter, samples, restarted, lost, lostInRun, misread>> /\ clock' = clock + 1
  BY DEF Tick
<1>2. PICK c \in Nat : clock' = c /\ c = clock + 1 /\ clock \in Nat
  BY <1>1 DEF DropInv, DropTypeOK
<1>3. clock' \in Nat /\ clock' >= clock
  BY <1>2
<1>4. DropTypeOK'
  BY <1>1, <1>3 DEF DropInv, DropTypeOK
<1>5. \A k \in DropHosts : SeriesOf(k)' /\ LossOf(k)'
  BY <1>1, <1>3, HostStaysAsItIs
<1> QED
  BY <1>4, <1>5 DEF DropInv

\* What was read: all units exactly when it counts as many, and then the counter, unless
\* it was misread.
LEMMA ReadFacts ==
  ASSUME DropInv, NEW h \in DropHosts, NEW got \in [UnitsOf(source) -> Outcomes]
  PROVE  /\ ReadCount(got) \in Nat /\ ReadCount(got) <= Width
         /\ source # "UDP" => (ReadCount(got) = 0 <=> NetnsCounters(got) = {})
         /\ source = "UDP" => ReadCount(got) = Width
         /\ AddUp(h, got) \in Nat
         /\ ReadCount(got) = Width /\ ~ Misreads(got) => AddUp(h, got) = Counted(h)
<1> DEFINE N == NetnsCounters(got)
           U == UnitsOf(source)
           f == [u \in DOMAIN got |-> IF got[u] = "whole" THEN counter[h][u] ELSE 0]
<1>1. N \in SUBSET U /\ \A u \in N : got[u] = "whole"
  BY DEF NetnsCounters, ReadNetns
<1>2. IsFiniteSet(U) /\ DOMAIN got = U /\ counter[h] \in [U -> Nat]
  BY UnitFacts DEF DropInv, DropTypeOK
<1>3. \A u \in U : f[u] \in Nat /\ (got[u] = "whole" => f[u] = counter[h][u])
  BY <1>2
<1>4. AddUp(h, got) = SumFunctionOnSet(f, N) /\ Counted(h) = SumFunctionOnSet(counter[h], U)
      /\ Width = Cardinality(U)
  BY DEF AddUp, Counted, Width
<1> HIDE DEF N, U, f
<1>5. /\ IsFiniteSet(N) /\ Cardinality(N) <= Width /\ (Cardinality(N) = Width => N = U)
      /\ Cardinality(N) \in Nat /\ (Cardinality(N) = 0 <=> N = {})
  BY <1>1, <1>2, <1>4, FS_Subset, FS_CardinalityType, FS_EmptySet
<1>6. AddUp(h, got) \in Nat
  BY <1>1, <1>3, <1>4, <1>5, SumNat
<1>7. N = U => AddUp(h, got) = Counted(h)
  <2>1. ASSUME N = U PROVE SumFunctionOnSet(f, U) = SumFunctionOnSet(counter[h], U)
    BY <1>1, <1>2, <1>3, <2>1, SumEqual
  <2> QED
    BY <1>4, <2>1
<1>8. CASE source # "UDP"
  <2>1. ReadCount(got) = Cardinality(N)
    BY <1>8 DEF ReadCount, N
  <2> QED
    BY <1>5, <1>6, <1>7, <1>8, <2>1 DEF N
<1>9. CASE source = "UDP"
  <2>1. ReadCount(got) = 1 /\ Cardinality(U) = 1
    BY <1>9, UnitFacts DEF ReadCount, U
  <2>2. Width = 1 /\ 1 \in Nat
    BY <1>4, <2>1
  <2>3. ASSUME N # {} PROVE N = U
    <3>1. Cardinality(N) = 1
      BY <1>5, <2>2, <2>3
    <3> QED
      BY <1>5, <2>2, <3>1
  <2>4. ~ Misreads(got) => AddUp(h, got) = Counted(h)
    BY <1>7, <1>9, <2>3 DEF Misreads, N
  <2> QED
    BY <1>6, <1>9, <2>1, <2>2, <2>4
<1> QED
  BY <1>8, <1>9

LEMMA SampleStep ==
  ASSUME DropInv, NEW h \in DropHosts, NEW got \in [UnitsOf(source) -> Outcomes], Sample(h, got)
  PROVE  DropInv'
<1> DEFINE hs == samples[h]
           n == Len(hs) + 1
           s == [at |-> clock, read |-> ReadCount(got), sum |-> AddUp(h, got),
                 expected |-> IF source = "netns" /\ h \in fitted THEN Cardinality(Units) ELSE 0,
                 failed |-> SampleENAFails(h, got)]
<1>1. /\ Started(h) => Last(samples[h]).at < clock
      /\ h \in fitted \/ \A u \in DOMAIN got : got[u] = "none"
      /\ samples' = [samples EXCEPT ![h] = Append(hs, s)]
      /\ misread' = (misread \/ Misreads(got))
      /\ UNCHANGED <<source, fitted, counter, clock, restarted, lost, lostInRun>>
  BY DEF Sample
<1>2. /\ samples \in [DropHosts -> Seq(DropSample)] /\ clock \in Nat /\ StopAt \in Nat
      /\ restarted \in BOOLEAN /\ (source = "UDP" => h \in fitted)
  BY HostDropsAssumption DEF DropInv, DropTypeOK
<1>3. /\ IsSeries(h, hs) /\ SeriesOf(h) /\ LossOf(h) /\ Increase(hs) \in Nat /\ Since(h) \in Nat
      /\ Counted(h) \in Nat /\ lost[h] \in Nat /\ source \in {"netns", "ARP", "ENA", "UDP"}
      /\ lostInRun[h] \in Nat
  BY HostSeries
<1>4. PICK r \in Nat : /\ r = ReadCount(got) /\ r <= Width
                       /\ source # "UDP" => (r = 0 <=> NetnsCounters(got) = {})
                       /\ source = "UDP" => r = Width
                       /\ r = Width /\ ~ misread' => AddUp(h, got) = Counted(h)
  BY <1>1, ReadFacts
<1>5. PICK a \in Nat : a = AddUp(h, got)
  BY ReadFacts
<1>6. PICK e \in Nat : e = (IF source = "netns" /\ h \in fitted THEN Cardinality(Units) ELSE 0)
                       /\ e = IF source = "netns" /\ h \in fitted THEN Width ELSE 0
  <2>1. source = "netns" => Width = Cardinality(Units)
    BY UnitFacts DEF Width
  <2>2. Width \in Nat
    BY UnitFacts
  <2> QED
    BY <2>1, <2>2
<1>7. PICK b \in BOOLEAN : /\ b = SampleENAFails(h, got)
                           /\ b <=> (source = "ENA" /\ h \in fitted /\ r = 0)
  BY <1>4 DEF SampleENAFails
<1>8. s = [at |-> clock, read |-> r, sum |-> a, expected |-> e, failed |-> b]
  BY <1>4, <1>5, <1>6, <1>7
<1>9. s \in DropSample /\ s.at = clock /\ s.read = r /\ s.sum = a
  BY <1>2, <1>8 DEF DropSample
<1>10. h \notin fitted => r = 0
  <2>1. h \notin fitted => NetnsCounters(got) = {}
    BY <1>1 DEF NetnsCounters, ReadNetns
  <2> QED
    BY <1>2, <1>4, <2>1
<1>11. SampleOf(h, s)
  BY <1>4, <1>6, <1>7, <1>8, <1>10 DEF SampleOf
<1> HIDE DEF s
<1>12. PICK gs : gs = Append(hs, s)
  OBVIOUS
<1>13. /\ IsSeries(h, gs) /\ Begins(hs, gs) /\ Len(gs) = n /\ gs[n] = s
       /\ s.read # Width => Points(gs) = Points(hs) /\ Increase(gs) = Increase(hs)
       /\ s.read = Width =>
            /\ Points(gs) = Points(hs) \cup {n} /\ Max(Points(gs)) = n
            /\ Increase(gs) = Increase(hs) + (IF Points(hs) = {} THEN 0
                                              ELSE Rise(hs[Max(Points(hs))].sum, s.sum))
  <2>1. Joined(h, hs, s, gs)
    <3> HIDE DEF hs
    <3> QED
      BY <1>3, <1>9, <1>11, <1>12, SampleJoins
  <2> QED
    BY <2>1 DEF Joined
<1>14. samples' \in [DropHosts -> Seq(DropSample)] /\ samples'[h] = gs
       /\ \A k \in DropHosts : k # h => samples'[k] = samples[k]
  BY <1>1, <1>2, <1>12, <1>13 DEF IsSeries
<1>15. DropTypeOK'
  BY <1>1, <1>14 DEF DropInv, DropTypeOK, Misreads
<1>16. Counted(h)' = Counted(h) /\ Width' = Width
  BY <1>1 DEF Counted, Width
<1>17. /\ hs \in Seq(DropSample) /\ n \in Nat \ {0} /\ DOMAIN hs = 1..Len(hs) /\ Len(hs) \in Nat
       /\ DOMAIN gs = DOMAIN hs \cup {n} /\ n \notin DOMAIN hs /\ \A k \in DOMAIN hs : gs[k] = hs[k]
  BY <1>3, <1>12, <1>13 DEF IsSeries, Begins
<1>18. LossOf(h)'
  <2>1. ASSUME ~ misread'
        PROVE  Increase(gs) + (IF Points(gs) = {} THEN 0 ELSE Rise(gs[Max(Points(gs))].sum, Counted(h))) <= lost[h]
    <3>0. ~ misread
      BY <1>1, <2>1
    <3>1. CASE r # Width
      <4>1. Points(gs) = Points(hs) /\ Increase(gs) = Increase(hs)
        BY <1>9, <1>13, <3>1
      <4>2. Points(hs) # {} => gs[Max(Points(hs))] = hs[Max(Points(hs))]
        BY <1>3, <1>17, PointFacts
      <4>3. Increase(hs) + (IF Points(hs) = {} THEN 0 ELSE Rise(hs[Max(Points(hs))].sum, Counted(h))) <= lost[h]
        BY <1>3, <3>0 DEF LossOf, Since
      <4> QED
        BY <4>1, <4>2, <4>3
    <3>2. CASE r = Width
      <4>1. Points(gs) # {} /\ Max(Points(gs)) = n /\ s.sum = Counted(h)
        BY <1>4, <1>5, <1>9, <1>13, <2>1, <3>2
      <4>2. Increase(gs) = Increase(hs) + Since(h)
        BY <1>9, <1>13, <3>2, <4>1 DEF Since
      <4>3. Rise(s.sum, Counted(h)) = 0
        BY <1>3, <4>1 DEF Rise
      <4>4. Increase(hs) + Since(h) <= lost[h]
        BY <1>3, <3>0 DEF LossOf
      <4>5. Increase(gs) + 0 <= lost[h]
        BY <1>3, <4>2, <4>4
      <4> QED
        BY <1>13, <4>1, <4>3, <4>5
    <3> QED
      BY <3>1, <3>2
  <2>2. gs # <<>>
    BY <1>13, <1>17
  <2> QED
    BY <1>1, <1>3, <1>14, <1>16, <2>1, <2>2 DEF LossOf, Since
<1>19. SeriesOf(h)'
  <2>1. ASSUME NEW k \in DOMAIN hs PROVE hs[k].at < clock /\ hs[k].at \in Nat
    <3>1. Len(hs) \in DOMAIN hs /\ hs # <<>> /\ k <= Len(hs)
      BY <1>17
    <3>2. Last(hs) = hs[Len(hs)] /\ Last(hs).at < clock
      BY <1>1, <3>1 DEF Last, Started
    <3>3. k < Len(hs) => hs[k].at < hs[Len(hs)].at
      BY <1>3, <3>1 DEF SeriesOf
    <3>4. hs[k].at \in Nat /\ hs[Len(hs)].at \in Nat
      BY <1>3, <3>1, SampleFacts
    <3> QED
      BY <1>2, <1>17, <3>1, <3>2, <3>3, <3>4
  <2>2. ASSUME NEW k \in DOMAIN gs
        PROVE  /\ SampleOf(h, gs[k]) /\ gs[k].at <= clock
               /\ \A j \in DOMAIN gs : j < k => gs[j].at < gs[k].at
    <3>1. SampleOf(h, gs[k])
      BY <1>13 DEF IsSeries
    <3>2. CASE k = n
      <4>1. gs[k].at = clock
        BY <1>9, <1>13, <3>2
      <4>2. \A j \in DOMAIN gs : j < k => j \in DOMAIN hs
        BY <1>17, <3>2
      <4> QED
        BY <1>2, <1>17, <2>1, <3>1, <4>1, <4>2
    <3>3. CASE k \in DOMAIN hs
      <4>1. \A j \in DOMAIN gs : j < k => j \in DOMAIN hs
        BY <1>17, <3>3
      <4>2. gs[k].at <= clock
        BY <1>2, <1>17, <2>1, <3>3
      <4>3. \A j \in DOMAIN hs : j < k => hs[j].at < hs[k].at
        BY <1>3, <3>3 DEF SeriesOf
      <4> QED
        BY <1>17, <3>1, <3>3, <4>1, <4>2, <4>3
    <3> QED
      BY <1>17, <3>2, <3>3
  <2>3. ASSUME NEW k \in DOMAIN gs, k \in Whole(gs), ~ misread'
        PROVE  /\ k = 1 => gs[k].sum = 0
               /\ gs[k].at >= StopAt /\ ~ restarted => lostInRun[h] <= gs[k].sum
    <3>1. CASE k \in DOMAIN hs
      <4>1. k \in Whole(hs) /\ gs[k] = hs[k] /\ ~ misread
        BY <1>1, <1>17, <2>3, <3>1 DEF Whole
      <4> QED
        BY <1>3, <3>1, <4>1 DEF SeriesOf
    <3>2. CASE k = n
      <4>1. r = Width /\ gs[k].sum = Counted(h)
        BY <1>4, <1>5, <1>9, <1>13, <2>3, <3>2 DEF Whole
      <4>2. k = 1 => hs = <<>>
        BY <1>17, <3>2
      <4>3. k = 1 => Counted(h) = 0
        BY <1>3, <4>2 DEF LossOf
      <4>4. ~ restarted => lostInRun[h] <= Counted(h)
        BY <1>3 DEF LossOf
      <4> QED
        BY <4>1, <4>3, <4>4
    <3> QED
      BY <1>17, <3>1, <3>2
  <2> QED
    BY <1>1, <1>14, <1>16, <2>2, <2>3 DEF SeriesOf, SampleOf, Whole
<1>20. ASSUME NEW k \in DropHosts, k # h PROVE SeriesOf(k)' /\ LossOf(k)'
  <2>1. clock' \in Nat /\ clock' >= clock
    BY <1>1, <1>2
  <2> QED
    BY <1>1, <1>14, <1>20, <2>1, HostStaysAsItIs
<1> QED
  BY <1>15, <1>18, <1>19, <1>20 DEF DropInv

LEMMA DropInitInv == DropInit => DropInv
<1> SUFFICES ASSUME DropInit PROVE DropInv
  OBVIOUS
<1>1. /\ source \in {"netns", "ARP", "ENA", "UDP"} /\ fitted \in SUBSET DropHosts /\ clock = 0
      /\ counter = [h \in DropHosts |-> [u \in UnitsOf(source) |-> 0]]
      /\ (source = "UDP" => fitted = DropHosts) /\ misread = FALSE
      /\ samples = [h \in DropHosts |-> <<>>] /\ restarted = FALSE
      /\ lost = [h \in DropHosts |-> 0] /\ lostInRun = [h \in DropHosts |-> 0]
  BY DEF DropInit
<1>2. <<>> \in Seq(DropSample) /\ DOMAIN <<>> = {}
  OBVIOUS
<1>3. DropTypeOK
  BY <1>1, <1>2 DEF DropTypeOK
<1>4. ASSUME NEW h \in DropHosts PROVE SeriesOf(h) /\ LossOf(h)
  <2>1. samples[h] = <<>> /\ lost[h] = 0 /\ lostInRun[h] = 0 /\ counter[h] = [u \in UnitsOf(source) |-> 0]
    BY <1>1
  <2>2. Counted(h) = 0
    <3>1. \A u \in UnitsOf(source) : counter[h][u] = 0
      BY <2>1
    <3> QED
      BY <3>1, UnitFacts, SumZero DEF Counted
  <2>3. Points(samples[h]) = {}
    BY <1>2, <2>1 DEF Points
  <2>4. Increase(samples[h]) = 0
    BY <2>3, SumEmpty DEF Increase
  <2>5. SeriesOf(h)
    BY <1>2, <2>1 DEF SeriesOf
  <2>6. LossOf(h)
    BY <2>1, <2>2, <2>3, <2>4 DEF LossOf, Since
  <2> QED
    BY <2>5, <2>6
<1> QED
  BY <1>3, <1>4 DEF DropInv

LEMMA DropInvariant == DropSpec => []DropInv
<1>1. DropInv /\ UNCHANGED dropVars => DropInv'
  <2> SUFFICES ASSUME DropInv, UNCHANGED dropVars PROVE DropInv'
    OBVIOUS
  <2>1. UNCHANGED <<source, fitted, counter, clock, samples, restarted, lost, lostInRun, misread>>
    BY DEF dropVars
  <2>2. DropTypeOK' /\ clock' \in Nat /\ clock' >= clock
    BY <2>1 DEF DropInv, DropTypeOK
  <2>3. \A h \in DropHosts : SeriesOf(h)' /\ LossOf(h)'
    BY <2>1, <2>2, HostStaysAsItIs
  <2> QED
    BY <2>2, <2>3 DEF DropInv
<1>2. DropInv /\ [DropNext]_dropVars => DropInv'
  BY <1>1, DropStep, RestartStep, SampleStep, TickStep DEF DropNext
<1> QED
  BY <1>2, DropInitInv, PTL DEF DropSpec

-----------------------------------------------------------------------------
(* The cut at the stop *)

\* upToStop keeps the samples up to the stop, and one more when they do not reach it.
LEMMA CutFacts ==
  ASSUME DropInv, NEW h \in DropHosts, NEW hs, hs = samples[h], NEW gs, gs = UpToStop[h]
  PROVE  /\ IsSeries(h, gs) /\ Begins(gs, hs)
         /\ gs # <<>> /\ Last(hs).at >= StopAt =>
              Len(gs) \in DOMAIN hs /\ hs[Len(gs)].at >= StopAt
         /\ gs = <<>> /\ hs # <<>> => hs[1].at >= StopAt
<1>1. /\ IsSeries(h, hs) /\ hs \in Seq(DropSample) /\ DOMAIN hs = 1..Len(hs) /\ Len(hs) \in Nat
      /\ StopAt \in Nat /\ gs = CutAtStop(hs)
      /\ \A k \in DOMAIN hs : \A j \in DOMAIN hs : j < k => hs[j].at < hs[k].at
  BY HostSeries, HostDropsAssumption DEF IsSeries, SeriesOf, UpToStop
<1>2. \A k \in DOMAIN hs : hs[k].at \in Nat
  BY <1>1, SampleFacts
<1> DEFINE T == {j \in DOMAIN hs : hs[j].at <= StopAt}
<1>3. PICK g \in 0..Len(hs) : T = 1..g
  <2>1. CASE T = {}
    <3>1. T = 1..0 /\ 0 \in 0..Len(hs)
      BY <1>1, <2>1
    <3> QED
      BY <3>1
  <2>2. CASE T # {}
    <3>1. PICK g \in T : \A k \in T : k <= g
      <4>1. T \in SUBSET Int /\ T \in SUBSET (1..Len(hs))
        BY <1>1
      <4>2. IsFiniteSet(1..Len(hs))
        BY <1>1, FS_Interval
      <4>3. IsFiniteSet(T)
        BY <4>1, <4>2, FS_Subset
      <4> HIDE DEF T
      <4> QED
        BY <2>2, <4>1, <4>3, GreatestNumber
    <3>2. ASSUME NEW j \in 1..g PROVE j \in T
      <4>1. j \in DOMAIN hs /\ (j = g \/ j < g)
        BY <1>1, <3>1
      <4>2. hs[g].at <= StopAt /\ g \in DOMAIN hs
        BY <3>1
      <4>3. hs[j].at <= hs[g].at
        BY <1>1, <1>2, <4>1, <4>2
      <4> QED
        BY <1>1, <1>2, <4>1, <4>2, <4>3
    <3>3. T = 1..g /\ g \in 0..Len(hs)
      BY <1>1, <3>1, <3>2
    <3> QED
      BY <3>3
  <2> QED
    BY <2>1, <2>2
<1>4. Cardinality(T) = g
  <2>1. g \in Nat /\ g \in Int /\ 1 \in Int
    BY <1>1
  <2>2. Cardinality(1..g) = IF 1 > g THEN 0 ELSE g - 1 + 1
    BY <2>1, FS_Interval, Zenon
  <2>3. Cardinality(1..g) = g
    BY <2>1, <2>2
  <2> QED
    BY <1>3, <2>3
<1>5. PICK m \in 0..Len(hs) : /\ m = IF g \in 1..Len(hs) - 1 /\ hs[g].at < StopAt THEN g + 1 ELSE g
                              /\ gs = SubSeq(hs, 1, m)
  <2>1. gs = SubSeq(hs, 1, IF g \in 1..Len(hs) - 1 /\ hs[g].at < StopAt THEN g + 1 ELSE g)
    BY <1>1, <1>4 DEF CutAtStop
  <2>2. CASE g \in 1..Len(hs) - 1 /\ hs[g].at < StopAt
    BY <1>1, <2>1, <2>2
  <2>3. CASE ~ (g \in 1..Len(hs) - 1 /\ hs[g].at < StopAt)
    BY <1>1, <2>1, <2>3
  <2> QED
    BY <2>2, <2>3
<1>6. /\ gs \in Seq(DropSample) /\ Len(gs) = m /\ DOMAIN gs = 1..m /\ m \in Nat /\ DOMAIN gs \subseteq DOMAIN hs
      /\ \A k \in 1..m : gs[k] = hs[k]
  BY <1>1, <1>5
<1>7. IsSeries(h, gs) /\ Begins(gs, hs)
  BY <1>1, <1>6 DEF IsSeries, Begins
<1>8. ASSUME gs # <<>>, Last(hs).at >= StopAt PROVE m \in DOMAIN hs /\ hs[m].at >= StopAt
  <2>1. m \in DOMAIN hs /\ m # 0
    BY <1>1, <1>6, <1>8
  <2>2. Len(hs) \in DOMAIN hs /\ hs[Len(hs)].at >= StopAt
    BY <1>1, <1>8, <2>1 DEF Last
  <2>3. CASE g \in 1..Len(hs) - 1 /\ hs[g].at < StopAt
    <3>1. m = g + 1 /\ m \notin T
      BY <1>1, <1>3, <1>5, <2>3
    <3>2. ~ (hs[m].at <= StopAt)
      BY <2>1, <3>1
    <3> QED
      BY <1>1, <1>2, <2>1, <3>2
  <2>4. CASE ~ (g \in 1..Len(hs) - 1 /\ hs[g].at < StopAt)
    <3>1. m = g
      BY <1>5, <2>4
    <3>2. CASE g = Len(hs)
      BY <2>1, <2>2, <3>1, <3>2
    <3>3. CASE g # Len(hs)
      <4>1. g \in 1..Len(hs) - 1 /\ ~ (hs[g].at < StopAt)
        BY <1>1, <2>1, <2>4, <3>1, <3>3
      <4> QED
        BY <1>1, <1>2, <2>1, <3>1, <4>1
    <3> QED
      BY <3>2, <3>3
  <2> QED
    BY <2>3, <2>4
<1>9. ASSUME gs = <<>>, hs # <<>> PROVE hs[1].at >= StopAt
  <2>1. m = 0 /\ 1 \in DOMAIN hs
    BY <1>1, <1>6, <1>9
  <2>2. g = 0
    BY <1>3, <1>5, <2>1
  <2>3. 1 \notin T
    BY <1>3, <2>2
  <2>4. ~ (hs[1].at <= StopAt)
    BY <2>1, <2>3
  <2> QED
    BY <1>1, <1>2, <2>1, <2>4
<1> QED
  BY <1>6, <1>7, <1>8, <1>9

-----------------------------------------------------------------------------
(* Drops reported are drops that happened *)

\* A series that begins each host's samples, as the whole series and the cut one do.
BeginsSamples(series) ==
  \A h \in DropHosts : IsSeries(h, series[h]) /\ Begins(series[h], samples[h])

LEMMA WholeAndCut ==
  ASSUME DropInv
  PROVE  BeginsSamples(samples) /\ BeginsSamples(UpToStop)
<1>1. ASSUME NEW h \in DropHosts PROVE IsSeries(h, samples[h]) /\ Begins(samples[h], samples[h])
  BY HostSeries DEF Begins
<1>2. ASSUME NEW h \in DropHosts PROVE IsSeries(h, UpToStop[h]) /\ Begins(UpToStop[h], samples[h])
  BY CutFacts
<1> QED
  BY <1>1, <1>2 DEF BeginsSamples

\* What such a series rises by was lost.
LEMMA TotalIsLost ==
  ASSUME DropInv, ~ misread, NEW series, BeginsSamples(series)
  PROVE  Total(series) \in Nat /\ Total(series) <= SumFunctionOnSet(lost, DropHosts)
<1> DEFINE f == [h \in DropHosts |-> Increase(series[h])]
<1>1. ASSUME NEW h \in DropHosts PROVE f[h] \in Nat /\ lost[h] \in Nat /\ f[h] <= lost[h]
  <2>1. f[h] = Increase(series[h])
    OBVIOUS
  <2>2. /\ IsSeries(h, series[h]) /\ Begins(series[h], samples[h]) /\ IsSeries(h, samples[h])
        /\ source \in {"netns", "ARP", "ENA", "UDP"} /\ lost[h] \in Nat
        /\ Increase(samples[h]) \in Nat /\ Since(h) \in Nat
    BY HostSeries DEF BeginsSamples
  <2>3. Increase(series[h]) \in Nat
    BY <2>2, PointFacts
  <2>4. Increase(series[h]) <= Increase(samples[h])
    BY <2>2, BeginningIncreases
  <2>5. Increase(samples[h]) + Since(h) <= lost[h]
    BY HostSeries DEF LossOf
  <2> QED
    BY <2>1, <2>2, <2>3, <2>4, <2>5
<1>2. IsFiniteSet(DropHosts) /\ Having(series) \in SUBSET DropHosts
  BY HostDropsAssumption DEF Having, Live
<1>3. IsFiniteSet(Having(series))
  BY <1>2, FS_Subset
<1>4. Total(series) = SumFunctionOnSet(f, Having(series))
  BY DEF Total
<1> HIDE DEF f
<1>5. SumFunctionOnSet(f, Having(series)) \in Nat
  BY <1>1, <1>2, <1>3, SumNat
<1>6. SumFunctionOnSet(f, Having(series)) <= SumFunctionOnSet(f, DropHosts)
  BY <1>1, <1>2, SumSubset
<1>7. SumFunctionOnSet(f, DropHosts) <= SumFunctionOnSet(lost, DropHosts)
  <2>1. \A h \in DropHosts : f[h] \in Int /\ lost[h] \in Int /\ f[h] <= lost[h]
    BY <1>1
  <2> QED
    BY <1>2, <2>1, SumMonotone
<1>8. SumFunctionOnSet(f, DropHosts) \in Nat /\ SumFunctionOnSet(lost, DropHosts) \in Nat
  BY <1>1, <1>2, SumNat
<1> QED
  BY <1>4, <1>5, <1>6, <1>7, <1>8

LEMMA ReportedWasLost ==
  ASSUME DropInv, ~ misread
  PROVE  InWindow + AfterStop <= SumFunctionOnSet(lost, DropHosts)
<1>1. /\ InWindow \in Nat /\ InWindow <= SumFunctionOnSet(lost, DropHosts)
      /\ Total(samples) \in Nat /\ Total(samples) <= SumFunctionOnSet(lost, DropHosts)
  BY WholeAndCut, TotalIsLost DEF InWindow
<1>2. SumFunctionOnSet(lost, DropHosts) \in Nat
  BY HostDropsAssumption, SumNat DEF DropInv, DropTypeOK
<1>3. AfterStop \in {0, Total(samples) - InWindow}
  <2> DEFINE P == {0, Total(samples) - InWindow}
  <2>1. \E m \in P : \A r \in P : r <= m
    BY <1>1
  <2>2. Max(P) \in P
    BY <2>1 DEF Max
  <2> QED
    BY <2>2 DEF AfterStop
<1> QED
  BY <1>1, <1>2, <1>3

-----------------------------------------------------------------------------
(* A run reported clean lost nothing *)

\* Where nothing rose, every point has what the first has.
LEMMA NothingRose ==
  ASSUME NEW h, NEW gs, IsSeries(h, gs), Increase(gs) = 0, 1 \in Points(gs), gs[1].sum = 0
  PROVE  \A k \in Points(gs) : gs[k].sum = 0
<1> DEFINE f == [k \in Points(gs) |-> RiseTo(gs, k)]
           Bad == {k \in Points(gs) : gs[k].sum # 0}
<1>1. ASSUME NEW k \in Points(gs) PROVE RiseTo(gs, k) = 0
  <2>1. (\A j \in Points(gs) : f[j] \in Nat) /\ IsFiniteSet(Points(gs)) /\ f[k] = RiseTo(gs, k)
    BY PointFacts
  <2>2. SumFunctionOnSet(f, Points(gs)) = 0
    BY DEF Increase
  <2>3. f[k] = 0
    <3> HIDE DEF f
    <3> QED
      BY <2>1, <2>2, SumOfNothing
  <2> QED
    BY <2>1, <2>3
<1>2. ASSUME Bad # {} PROVE FALSE
  <2>1. Bad \in SUBSET Nat
    BY PointFacts
  <2>2. PICK k \in Bad : \A j \in Bad : k <= j
    <3> HIDE DEF Bad
    <3> QED
      BY <1>2, <2>1, LeastNumber
  <2>3. k \in Points(gs) /\ k # 1 /\ k \in DOMAIN gs /\ 1 \in DOMAIN gs
    BY <2>2, PointFacts
  <2>4. 1 \in Earlier(gs, k)
    BY <2>3, SampleFacts DEF Earlier
  <2>5. PICK j \in Earlier(gs, k) : j = Max(Earlier(gs, k))
    BY <2>4, PointFacts DEF Earlier
  <2>6. j \in Points(gs) /\ j < k /\ j \in Nat /\ k \in Nat
    BY <2>3, <2>5, PointFacts DEF Earlier
  <2>7. j \notin Bad
    BY <2>2, <2>6
  <2>8. gs[j].sum = 0
    BY <2>6, <2>7
  <2>9. gs[k].sum \in Nat /\ gs[k].sum # 0
    BY <2>2, <2>3, SampleFacts
  <2>10. RiseTo(gs, k) = Rise(gs[j].sum, gs[k].sum)
    BY <2>4, <2>5 DEF RiseTo
  <2>11. RiseTo(gs, k) = gs[k].sum
    BY <2>8, <2>9, <2>10 DEF Rise
  <2> QED
    BY <1>1, <2>3, <2>9, <2>11
<1> QED
  BY <1>2

\* A host of a clean run is live up to the stop, or its first sample came later; one
\* without the source lost nothing, and one with it was measured whole from before the
\* first drop until after the stop.
LEMMA CleanHost ==
  ASSUME DropInv, SaysNoDrops, ReachesStop, ~ restarted, ~ misread, NEW h \in DropHosts
  PROVE  lostInRun[h] = 0
<1> DEFINE gs == UpToStop[h]
           hs == samples[h]
<1>1. /\ IsSeries(h, gs) /\ IsSeries(h, hs) /\ Begins(gs, hs) /\ SeriesOf(h) /\ LossOf(h)
      /\ source \in {"netns", "ARP", "ENA", "UDP"} /\ lost[h] \in Nat /\ lostInRun[h] \in Nat
  BY HostSeries, WholeAndCut DEF BeginsSamples
<1>2. source # "UDP" => /\ h \in Live(UpToStop)
                        /\ h \in Having(UpToStop) => Covered(gs)
                        /\ h \notin Having(UpToStop) => source = "ENA"
  BY DEF SaysNoDrops, GapHosts
<1>3. CASE gs = <<>>
  <2>1. source = "UDP"
    BY <1>2, <1>3 DEF Live
  <2>2. hs # <<>> /\ 1 \in DOMAIN hs
    <3>1. hs # <<>>
      BY DEF ReachesStop, Started
    <3>2. hs \in Seq(DropSample)
      BY <1>1 DEF IsSeries
    <3> HIDE DEF hs
    <3> QED
      BY <3>1, <3>2
  <2>3. hs[1].at >= StopAt
    BY <1>3, <2>2, CutFacts
  <2>4. 1 \in Whole(hs)
    BY <1>1, <2>1, <2>2 DEF IsSeries, SampleOf, Whole
  <2>5. lostInRun[h] <= hs[1].sum /\ hs[1].sum = 0
    BY <1>1, <2>2, <2>3, <2>4 DEF SeriesOf
  <2> QED
    BY <1>1, <2>5
<1>4. ASSUME gs # <<>>
      PROVE  /\ gs \in Seq(DropSample) /\ Len(gs) \in Nat \ {0} /\ DOMAIN gs = 1..Len(gs)
             /\ Len(gs) \in DOMAIN gs /\ 1 \in DOMAIN gs
  <2>1. gs \in Seq(DropSample)
    BY <1>1 DEF IsSeries
  <2> HIDE DEF gs
  <2> QED
    BY <1>4, <2>1
<1>5. CASE gs # <<>> /\ h \notin Having(UpToStop)
  <2>1. source # "UDP"
    <3>1. ASSUME source = "UDP" PROVE FALSE
      <4>1. gs[1].read = Width /\ Width \in Nat \ {0}
        BY <1>1, <1>4, <1>5, <3>1, UnitFacts DEF IsSeries, SampleOf
      <4>2. HasSource(gs)
        BY <1>4, <1>5, <4>1 DEF HasSource
      <4> QED
        BY <1>5, <4>2 DEF Having, Live
    <3> QED
      BY <3>1
  <2>2. source = "ENA" /\ ~ HasSource(gs)
    BY <1>2, <1>5, <2>1 DEF Having
  <2>3. ~ (gs[Len(gs)].read > 0) /\ ~ gs[Len(gs)].failed
    BY <1>4, <1>5, <2>2 DEF HasSource, Last
  <2>4. gs[Len(gs)].read \in Nat /\ SampleOf(h, gs[Len(gs)])
    BY <1>1, <1>4, <1>5, SampleFacts DEF IsSeries
  <2>5. h \notin fitted
    BY <2>2, <2>3, <2>4 DEF SampleOf
  <2> QED
    BY <1>1, <2>5 DEF LossOf
<1>6. CASE gs # <<>> /\ h \in Having(UpToStop)
  <2>1. 1 \in Points(gs) /\ Len(gs) \in Points(gs)
    <3>1. CASE source = "UDP"
      <4>1. Points(gs) = Whole(gs)
        BY <1>1, PointsAreWhole
      <4> QED
        BY <1>1, <1>4, <1>6, <3>1, <4>1 DEF Whole, IsSeries, SampleOf
    <3>2. CASE source # "UDP"
      BY <1>2, <1>6, <3>2 DEF Covered
    <3> QED
      BY <3>1, <3>2
  <2>2. Increase(gs) = 0
    <3> DEFINE f == [i \in DropHosts |-> Increase(UpToStop[i])]
    <3>1. \A i \in Having(UpToStop) : f[i] \in Nat
      BY WholeAndCut, PointFacts DEF BeginsSamples, Having, Live
    <3>2. IsFiniteSet(Having(UpToStop))
      BY HostDropsAssumption, FS_Subset DEF Having, Live
    <3>3. SumFunctionOnSet(f, Having(UpToStop)) = 0
      BY DEF SaysNoDrops, InWindow, Total
    <3>4. f[h] = 0
      <4> HIDE DEF f
      <4> QED
        BY <1>6, <3>1, <3>2, <3>3, SumOfNothing
    <3> QED
      BY <3>4
  <2>3. 1 \in Whole(hs) /\ Len(gs) \in Whole(hs) /\ gs[1] = hs[1] /\ gs[Len(gs)] = hs[Len(gs)]
    <3>1. Points(gs) = Whole(gs)
      BY <1>1, PointsAreWhole
    <3> QED
      BY <1>1, <2>1, <3>1 DEF Whole, Begins
  <2>4. gs[1].sum = 0
    BY <1>1, <2>3 DEF SeriesOf, Whole
  <2>5. gs[Len(gs)].sum = 0
    BY <1>1, <2>1, <2>2, <2>4, NothingRose
  <2>6. hs[Len(gs)].at >= StopAt
    <3>1. Last(hs).at >= StopAt
      BY DEF ReachesStop
    <3> QED
      BY <1>6, <3>1, CutFacts
  <2>7. lostInRun[h] <= hs[Len(gs)].sum
    BY <1>1, <2>3, <2>6 DEF SeriesOf, Whole
  <2> QED
    BY <1>1, <2>3, <2>5, <2>7
<1> QED
  BY <1>3, <1>5, <1>6

\* The verdict is sound for any hosts, namespaces, times and losses as long as no sample
\* kept a zero for a host counter it did not read: what hostDrops and windowDropLine
\* report up to the stop and after it never exceeds what was lost, and a run dropLine
\* calls clean lost nothing between its first samples and the stop, unless a restart hid
\* it or the samples end too early.
THEOREM VerdictIsSound == DropSpec => []DropVerdictSound
<1>1. ASSUME DropInv, SaysNoDrops, ReachesStop, ~ restarted, ~ misread
      PROVE  SumFunctionOnSet(lostInRun, DropHosts) = 0
  BY <1>1, CleanHost, HostDropsAssumption, SumZero
<1>2. DropInv => DropVerdictSound
  BY <1>1, ReportedWasLost DEF DropVerdictSound, DropsHappened
<1> QED
  BY <1>2, DropInvariant, PTL
=============================================================================

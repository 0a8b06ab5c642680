----------------------------- MODULE FetchPool -----------------------------
(***************************************************************************)
(* The coordinator's bounded concurrency (pkg/coordinator/cloud.go): each, *)
(* one goroutine per index behind a semaphore, and eachByHost, a few       *)
(* workers per host that share the host's queue and the semaphore.         *)
(*                                                                         *)
(* A call of f is two steps, its start and its end; whether it fails is a  *)
(* choice.  Map order (the hosts') and the scheduler are choices too.      *)
(***************************************************************************)
EXTENDS Integers, Sequences, FiniteSets, FiniteSetsExt

CONSTANTS
  Jobs,       \* n
  HostOfJob,  \* hostOf, for 0 .. n - 1
  PerHost,    \* perHostFetches (4 in the code)
  Sem         \* capacity of the semaphore (64 in the code)

ASSUME FetchPoolAssumption ==
  /\ {Jobs, PerHost, Sem} \subseteq Nat \ {0}
  /\ DOMAIN HostOfJob = 0..Jobs - 1

VARIABLES
  pool,     \* "each" or "byHost"
  queued,   \* indices nobody has taken yet
  held,     \* indices taken by a worker that waits for the semaphore
  flying,   \* indices in f, one place of the semaphore each
  failing,  \* failed calls whose error is not yet noted
  ran,      \* how often f was called for each index
  errs,     \* indices whose call failed
  first,    \* the error to return: an index, or -1
  result    \* "running", or what the pool returned

poolVars == <<pool, queued, held, flying, failing, ran, errs, first, result>>

JobIds == 0..Jobs - 1

PoolInit ==
  /\ pool \in {"each", "byHost"}
  /\ queued = JobIds
  /\ held = {} /\ flying = {} /\ failing = {} /\ errs = {}
  /\ ran = [i \in JobIds |-> 0]
  /\ first = -1 /\ result = "running"

OfHost(S, h) == {i \in S : HostOfJob[i] = h}

\* Workers of a host that are at some index: after f a worker of eachByHost
\* notes its error before it takes another one.
Busy(h) == Cardinality(OfHost(held \cup flying \cup failing, h))
Workers(h) == Min({PerHost, Cardinality(OfHost(JobIds, h))})

\* A worker takes the next index of its host's queue.
MayTake(i) ==
  /\ pool = "byHost" /\ i \in queued
  /\ i = Min(OfHost(queued, HostOfJob[i])) /\ Busy(HostOfJob[i]) < Workers(HostOfJob[i])

TakeJob(i) ==
  /\ MayTake(i)
  /\ queued' = queued \ {i} /\ held' = held \cup {i}
  /\ UNCHANGED <<pool, flying, failing, ran, errs, first, result>>

\* Places of the semaphore in use: each's goroutine gives its place back last,
\* eachByHost's worker before it looks at the error.
InUse == Cardinality(flying) + (IF pool = "each" THEN Cardinality(failing) ELSE 0)

\* f starts: for each in the loop's order, once the loop has a place.
MayStart(i) ==
  /\ InUse < Sem
  /\ IF pool = "byHost" THEN i \in held ELSE i \in queued /\ i = Min(queued)

StartJob(i) ==
  /\ MayStart(i)
  /\ held' = held \ {i} /\ queued' = queued \ {i}
  /\ flying' = flying \cup {i}
  /\ ran' = [ran EXCEPT ![i] = @ + 1]
  /\ UNCHANGED <<pool, failing, errs, first, result>>

EndJob(i, ok) ==
  /\ i \in flying /\ flying' = flying \ {i}
  /\ failing' = IF ok THEN failing ELSE failing \cup {i}
  /\ errs' = IF ok THEN errs ELSE errs \cup {i}
  /\ UNCHANGED <<pool, queued, held, ran, first, result>>

\* Under the mutex: the first error stays.
NoteError(i) ==
  /\ i \in failing /\ failing' = failing \ {i}
  /\ first' = IF first = -1 THEN i ELSE first
  /\ UNCHANGED <<pool, queued, held, flying, ran, errs, result>>

\* Faulty variant: errors being noted are not waited for.
PoolReturnsEarly ==
  /\ result = "running" /\ queued \cup held \cup flying = {}
  /\ result' = IF first = -1 THEN "ok" ELSE "error"
  /\ UNCHANGED <<pool, queued, held, flying, failing, ran, errs, first>>

\* wg.Wait: every goroutine has returned.
AllReturned == queued \cup held \cup flying \cup failing = {}

PoolReturns ==
  /\ result = "running" /\ AllReturned
  /\ result' = IF first = -1 THEN "ok" ELSE "error"
  /\ UNCHANGED <<pool, queued, held, flying, failing, ran, errs, first>>

PoolNext ==
  \/ \E i \in JobIds :
       \/ TakeJob(i) \/ StartJob(i) \/ NoteError(i)
       \/ \E ok \in BOOLEAN : EndJob(i, ok)
  \/ PoolReturns

PoolSpec == PoolInit /\ [][PoolNext]_poolVars

-----------------------------------------------------------------------------
\* No more calls in flight than the semaphore and, by host, the cap allow.
WithinLimits ==
  /\ Cardinality(flying) <= Sem
  /\ pool = "byHost" => \A h \in {HostOfJob[i] : i \in JobIds} : Cardinality(OfHost(flying, h)) <= PerHost

\* What has been done by the time the pool returns.
AllDone ==
  result # "running" =>
    /\ \A i \in JobIds : ran[i] = 1
    /\ (result = "error") = (errs # {})

\* Until it returns, some goroutine of the pool can go on.
NeverStuck ==
  result = "running" =>
    AllReturned \/ \E i \in JobIds : MayTake(i) \/ MayStart(i) \/ i \in flying \cup failing

\* When the pool returns, f was called exactly once for every index, and an error
\* is returned exactly when a call failed.  Meanwhile no more calls are in flight
\* than the semaphore and, by host, the cap allow, and the pool is never stuck.
EveryJobOnce == WithinLimits /\ AllDone /\ NeverStuck
=============================================================================

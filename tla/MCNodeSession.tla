--------------------------- MODULE MCNodeSession ---------------------------
(***************************************************************************)
(* Instances of NodeSession for TLC.                                       *)
(***************************************************************************)
EXTENDS NodeSession

\* Counters and samples over two sessions, without lookups.
LedgerJob ==
  [model |-> "scheduled", arrival |-> FALSE, lookups |-> 0, requests |-> 2,
   traffic |-> 2, samples |-> 2, snaps |-> 0, events |-> 0]

\* The dialer, its search and the lookups of an arrival, under each model; with a
\* schedule of lookups, which has the most steps, without ad snapshots.
SearchJob(m) ==
  [model |-> m, arrival |-> TRUE, lookups |-> 2, requests |-> 3,
   traffic |-> 0, samples |-> 0, snaps |-> IF m = "scheduled" THEN 0 ELSE 1,
   events |-> 0]

LedgerAndSearch == {LedgerJob} \cup {SearchJob(m) : m \in Model}

\* Peers that come and go while the process is stopped.
StopJobs ==
  {[model |-> "conn", arrival |-> TRUE, lookups |-> 0, requests |-> 1,
    traffic |-> 0, samples |-> 0, snaps |-> 0, events |-> 2]}
=============================================================================

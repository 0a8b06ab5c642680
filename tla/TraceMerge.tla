----------------------------- MODULE TraceMerge -----------------------------
(***************************************************************************)
(* LoadTrace and mergeTraces of pkg/host/trace.go: the trace of a node     *)
(* whose process was started anew for every session, made of one file per  *)
(* session.  Nodes that stay and write one trace are meant to follow the   *)
(* same rules per field, which makes this the reference for theirs.        *)
(*                                                                         *)
(* A file is a record of how many sessions it stands for, its lookups and  *)
(* samples (sequences), counters (wire, drops), refills and the dialer's   *)
(* finds as numbers, conn being <<>> when the dialer never searched, and   *)
(* the age at which a capable record was seen, -1 for never.               *)
(***************************************************************************)
EXTENDS Integers, Sequences, FiniteSetsExt, SequencesExt

\* counters.plus: a file's samples, carried on from the counters of the files
\* before it.
Carried(ss, k) ==
  LET before == SumFunction([j \in 1..k - 1 |-> ss[j].wire]) IN
  [i \in DOMAIN ss[k].samples |-> ss[k].samples[i] + before]

\* The earliest of the ages that are there.
Earliest(ss) ==
  LET ages == {ss[k].capable : k \in DOMAIN ss} \ {-1} IN
  IF ages = {} THEN -1 ELSE Min(ages)

\* The finds of every file whose dialer searched.
JoinedConn(ss) ==
  LET with == {k \in DOMAIN ss : ss[k].conn # <<>>} IN
  IF with = {} THEN <<>> ELSE <<SumFunction([k \in with |-> ss[k].conn[1]])>>

MergeTraces(ss) ==
  [sessions |-> SumFunction([k \in DOMAIN ss |-> ss[k].sessions]),
   lookups |-> FlattenSeq([k \in DOMAIN ss |-> ss[k].lookups]),
   samples |-> FlattenSeq([k \in DOMAIN ss |-> Carried(ss, k)]),
   wire |-> SumFunction([k \in DOMAIN ss |-> ss[k].wire]),
   drops |-> SumFunction([k \in DOMAIN ss |-> ss[k].drops]),
   refills |-> SumFunction([k \in DOMAIN ss |-> ss[k].refills]),
   capable |-> Earliest(ss),
   conn |-> JoinedConn(ss)]

\* The files in the order of their sessions: one is returned as it is.
LoadTrace(parts) == IF Len(parts) = 1 THEN parts[1] ELSE MergeTraces(parts)
=============================================================================

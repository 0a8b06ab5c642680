---------------------------- MODULE MCPopChurn ----------------------------
(* Instances of PopChurn for TLC. *)
EXTENDS PopChurn

\* The last of the initial nodes is a legacy one.
LastLegacy == {Initial - 1}

\* Kill-only; one joiner and several results; two joiners of one round.
SmallRuns ==
  { [steady |-> FALSE, nodes |-> 3, yields |-> 3], [steady |-> TRUE, nodes |-> 4, yields |-> 3],
    [steady |-> TRUE, nodes |-> 5, yields |-> 1] }
=============================================================================

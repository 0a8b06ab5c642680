---------------------------- MODULE Population ----------------------------
(***************************************************************************)
(* What churnState of cmd/simnet/workload_churn.go promises, without its   *)
(* slices and maps: nodes leave for good, one at a time and never the      *)
(* bootnode, and a joiner is a node nobody has seen before.  PopChurn      *)
(* implements this specification.                                          *)
(***************************************************************************)
EXTENDS Naturals

CONSTANTS
  Bootnode,  \* the node that never leaves
  Founders   \* the nodes taking part at the start

VARIABLES
  present,  \* the nodes taking part
  left      \* the nodes that have left

population == <<present, left>>

PopulationInit == present = Founders /\ left = {}

Leave ==
  \E n \in present \ {Bootnode} :
    /\ present' = present \ {n}
    /\ left' = left \cup {n}

Join ==
  \E n \in present' \ (present \cup left) :
    /\ n \in Nat
    /\ present' = present \cup {n}
    /\ left' = left

PopulationSpec == PopulationInit /\ [][Leave \/ Join]_population
=============================================================================

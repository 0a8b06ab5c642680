----------------------------- MODULE MCCampaign -----------------------------
(***************************************************************************)
(* The parts that run by themselves, one per behaviour: a node's churn     *)
(* plan and its drive, the placement of the nodes, the verdict on drops,   *)
(* the pools of calls, and the overhead series of a host in one process.   *)
(* The parts share no state; part says which one runs.                     *)
(***************************************************************************)
EXTENDS ChurnPlan, Placement, HostDrops, FetchPool, SimHost, TLC

VARIABLE part

\* The hosts of the verdict on drops are alike.
HostSymmetry == Permutations(DropHosts)

vars == <<part, churnVars, placeVars, dropVars, poolVars, simVars>>

\* Three crawled topics, one without /24s, in a run with two: the last one folds
\* the second and the third.
ThreeTopics == <<{1, 2}, {2}, {}>>

Host(slots, region) == [slots |-> slots, region |-> region]

\* With and without regions, with room to spare, just enough and too little.
SmallInventories ==
  { <<Host(2, ""), Host(2, "")>>, <<Host(3, ""), Host(2, "")>>, <<Host(2, ""), Host(1, "")>>,
    <<Host(1, "us"), Host(2, "eu"), Host(1, "us")>>, <<Host(2, "eu"), Host(3, "us")>>,
    <<Host(0, "eu"), Host(3, "us")>> }

NoPins == <<>>
Pins == {NoPins, 1 :> "us", (1 :> "us") @@ (2 :> "us"), (0 :> "us") @@ (3 :> "eu") @@ (9 :> "eu")}

Queues == (0 :> 1) @@ (1 :> 1) @@ (2 :> 1) @@ (3 :> 2) @@ (4 :> 2)

\* The callers of dumpSeries.
Teardowns == {"teardown", "watchdog"}

Parts == {"churn", "place", "drops", "pool", "series"}

\* The parts that do not run in a behaviour are at one of their initial states.
Idle ==
  /\ part # "place" => inventory = CHOOSE inv \in Inventories : TRUE
  /\ part # "place" => stage = "pin" /\ pinned = PinBootnode(NoPins, inventory)
  /\ part # "drops" => source = "UDP"
  /\ part # "pool" => pool = "each"

Init ==
  /\ part \in Parts
  /\ ChurnInit /\ PlaceInit /\ DropInit /\ PoolInit /\ SimInit
  /\ Idle

Next ==
  \/ /\ part = "churn" /\ ChurnNext
     /\ UNCHANGED <<part, placeVars, dropVars, poolVars, simVars>>
  \/ /\ part = "place" /\ PlaceNext
     /\ UNCHANGED <<part, churnVars, dropVars, poolVars, simVars>>
  \/ /\ part = "drops" /\ DropNext
     /\ UNCHANGED <<part, churnVars, placeVars, poolVars, simVars>>
  \/ /\ part = "pool" /\ PoolNext
     /\ UNCHANGED <<part, churnVars, placeVars, dropVars, simVars>>
  \/ /\ part = "series" /\ SimNext
     /\ UNCHANGED <<part, churnVars, placeVars, dropVars, poolVars>>

Spec == Init /\ [][Next]_vars
=============================================================================

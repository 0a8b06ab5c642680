----------------------------- MODULE MCRunDrive -----------------------------
(* Instances of RunDrive: the host has one node, 1, which churns.          *)
EXTENDS RunDrive

OneNode == {1}

AllTasks == {<<"main", 0>>} \cup ({"node"} \X Nodes) \cup ({"late"} \X (1..LateSlots))

\* Node 1 departs and returns once.
OneDeparture == [n \in Nodes |-> IF n = 1 THEN <<"kill", "start">> ELSE <<>>]

\* Node 1 is an arrival: launched down, brought up once.
OneArrival == [n \in Nodes |-> IF n = 1 THEN <<"start">> ELSE <<>>]
=============================================================================

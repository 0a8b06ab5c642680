----------------------------- MODULE ChurnPlan -----------------------------
(***************************************************************************)
(* The churn of one node, from plan to calls: ScheduleTopic                *)
(* (pkg/churn/model.go) draws its absences over the window, drive          *)
(* (pkg/coordinator/drive.go) turns them into kill and start calls, and    *)
(* planned (collect.go) counts the calls that should have been made.       *)
(*                                                                         *)
(* Every random draw is a choice.  Times are offsets from the search start *)
(* on an integer grid; StopAt is the window's end.  What the calls find is *)
(* the node process's answer: a kill of a node that is down, or a start of *)
(* one that is up, is a conflict.                                          *)
(*                                                                         *)
(* A call's time is the planned one: drive compares that one with StopAt,  *)
(* so a call that is late delays the next ones and changes neither their   *)
(* number nor their order.  Every call reaches the node here; those that   *)
(* fail are RunDrive's.                                                    *)
(***************************************************************************)
EXTENDS Integers, Sequences, FiniteSets

CONSTANTS
  Window,    \* length of the search phase
  Unit,      \* one crawl interval, in the run's time
  GapCrawls  \* the fitted lengths of an absence, in crawl intervals

ASSUME ChurnPlanAssumption ==
  /\ {Window, Unit} \subseteq Nat \ {0}
  /\ GapCrawls \subseteq Nat \ {0}

VARIABLES
  ev,     \* the schedule: a sequence of absences [down, up]
  x,      \* where in the window the plan is
  plan,   \* "draw", "leave", "walk" or "drive"
  at,     \* index of the event drive is at, and which half of it
  up,     \* the node process is up
  calls   \* drive's calls: [op, time, ok]

churnVars == <<ev, x, plan, at, up, calls>>

Times == 0..Window - 1

ChurnInit ==
  /\ ev = <<>> /\ x = 0 /\ plan = "draw" /\ at = [event |-> 1, half |-> "kill"]
  /\ up = TRUE /\ calls = <<>>

-----------------------------------------------------------------------------
(* ScheduleTopic *)

\* The node arrives in the window: away from the start until then.
DrawArrival ==
  /\ plan = "draw"
  /\ \E arrive \in Times :
       /\ ev' = <<[down |-> 0, up |-> arrive]>>
       /\ x' = arrive + Unit
  /\ plan' = "walk"
  /\ UNCHANGED <<at, up, calls>>

\* The node never leaves.
DrawAlwaysOn ==
  /\ plan = "draw"
  /\ plan' = "drive"
  /\ UNCHANGED <<ev, x, at, up, calls>>

\* The node goes away: its first departure is anywhere in the window.
DrawDeparture ==
  /\ plan = "draw"
  /\ x' \in Times
  /\ plan' = "leave"
  /\ UNCHANGED <<ev, at, up, calls>>

\* Another crawl interval up.
Stay ==
  /\ plan = "walk" /\ x < Window
  /\ x' = x + Unit
  /\ UNCHANGED <<ev, plan, at, up, calls>>

\* Lengths Topic.Gap can draw; one interval when nothing was fitted.
Gap == {g * Unit : g \in IF GapCrawls = {} THEN {1} ELSE GapCrawls}

Leaving == (plan = "walk" \/ plan = "leave") /\ x < Window

LeaveForever ==
  /\ Leaving
  /\ ev' = Append(ev, [down |-> x, up |-> Window])
  /\ plan' = "drive"
  /\ UNCHANGED <<x, at, up, calls>>

\* Faulty variant: the plan goes on one interval after the departure.
LeaveGapOverlaps ==
  /\ Leaving
  /\ \E g \in Gap :
       /\ ev' = Append(ev, [down |-> x, up |-> x + g])
       /\ x' = x + Unit
  /\ plan' = "walk"
  /\ UNCHANGED <<at, up, calls>>

LeaveGap ==
  /\ Leaving
  /\ \E g \in Gap :
       /\ ev' = Append(ev, [down |-> x, up |-> x + g])
       /\ x' = x + g
  /\ plan' = "walk"
  /\ UNCHANGED <<at, up, calls>>

EndOfWindow ==
  /\ plan = "walk" /\ x >= Window
  /\ plan' = "drive"
  /\ UNCHANGED <<ev, x, at, up, calls>>

-----------------------------------------------------------------------------
(* drive: the node is launched, then its events are applied. *)

\* "An arrival (DownAt 0) starts down": node and coordinator both read it off the
\* first event.
Launch ==
  /\ plan = "drive"
  /\ up' = ~ (ev # <<>> /\ ev[1].down = 0)
  /\ plan' = "driven"
  /\ UNCHANGED <<ev, x, at, calls>>

Event == ev[at.event]
Driving == plan = "driven" /\ at.event <= Len(ev)

Call(op, time) == calls' = Append(calls, [op |-> op, time |-> time, ok |-> up = (op = "kill")])

\* A departure before StopAt that is not an arrival's.
Kill ==
  /\ Driving /\ at.half = "kill" /\ Event.down < Window
  /\ IF Event.down > 0 THEN Call("kill", Event.down) /\ up' = FALSE
                       ELSE UNCHANGED <<calls, up>>
  /\ at' = [at EXCEPT !.half = "start"]
  /\ UNCHANGED <<ev, x, plan>>

\* The return, unless it would come at StopAt or later.
Start ==
  /\ Driving /\ at.half = "start" /\ Event.up < Window
  /\ Call("start", Event.up) /\ up' = TRUE
  /\ at' = [event |-> at.event + 1, half |-> "kill"]
  /\ UNCHANGED <<ev, x, plan>>

\* The goroutine returns at the first event at or past StopAt, or after the last.
DriveReturns ==
  /\ plan = "driven"
  /\ \/ at.event > Len(ev)
     \/ Driving /\ at.half = "kill" /\ Event.down >= Window
     \/ Driving /\ at.half = "start" /\ Event.up >= Window
  /\ plan' = "done"
  /\ UNCHANGED <<ev, x, at, up, calls>>

ChurnNext ==
  \/ DrawArrival \/ DrawAlwaysOn \/ DrawDeparture \/ Stay \/ LeaveForever \/ LeaveGap
  \/ EndOfWindow \/ Launch \/ Kill \/ Start \/ DriveReturns

ChurnSpec == ChurnInit /\ [][ChurnNext]_churnVars

-----------------------------------------------------------------------------
\* planned: the calls drive can apply, up to the first event that breaks off.
Reached == {k \in DOMAIN ev : \A j \in 1..k - 1 : ev[j].down < Window /\ ev[j].up < Window}
PlannedDeparts == {k \in Reached : ev[k].down < Window /\ ev[k].down > 0}
PlannedRejoins == {k \in Reached : ev[k].down < Window /\ ev[k].up < Window}

Made(op) == {k \in DOMAIN calls : calls[k].op = op}

\* Drive makes exactly the calls planned counts, in the order of their times and
\* before StopAt, and the node never refuses one: a schedule's absences do not
\* overlap, and an arrival is never killed before its first start.
DrivenAsPlanned ==
  /\ \A k \in DOMAIN calls :
       /\ calls[k].ok /\ calls[k].time < Window
       /\ k > 1 => calls[k - 1].time <= calls[k].time
  /\ plan = "done" =>
       /\ Cardinality(Made("kill")) = Cardinality(PlannedDeparts)
       /\ Cardinality(Made("start")) = Cardinality(PlannedRejoins)
=============================================================================

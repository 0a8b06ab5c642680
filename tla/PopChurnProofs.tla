--------------------------- MODULE PopChurnProofs ---------------------------
(***************************************************************************)
(* Population churn for any number of nodes, topics, rounds and joiners:   *)
(* churnState implements Population, no checkpoint finds more registrants  *)
(* than were assigned, wait returns the results of every searcher launched *)
(* by then, and the reported population and finds add up.                  *)
(***************************************************************************)
EXTENDS PopChurn, SumFacts

-----------------------------------------------------------------------------
(* Types *)

Admitting == {"member", "assign", "join", "register", "launch"}

Tally == [returned : Nat, dead : Nat]
JoinSpec == [idx : Nodes, topic : Topics, boot : SUBSET Nodes]

StateTypes ==
  /\ alive \in Seq(Nodes) /\ killed \in SUBSET Nodes /\ nextIdx \in Initial..MaxNodes
  /\ all \in Seq(Nodes)
  /\ topicOf \in [Nodes -> Topics \cup {None}] /\ registered \in SUBSET Nodes
  /\ counts \in [Topics -> [Nodes -> Nat]] /\ assigned \in [Topics -> Nat]

SearchTypes ==
  /\ totals \in [Topics -> Tally] /\ local \in [Nodes -> Tally]
  /\ wg \in Nat /\ searcher \in [Nodes -> {"none", "launched", "merged", "done"}]
  /\ seen \in [Nodes -> SUBSET Nodes] /\ results \in SUBSET Nodes

ChurnTypes ==
  /\ churn \in {"select", "leave", "mark", "end", "exited"} \cup Admitting
  /\ leaver \in Nodes \cup {None} /\ (churn = "mark" => leaver \in Nodes)
  /\ offline \in SUBSET Nodes
  /\ wantLeaves \in Nat /\ wantJoins \in Nat
  /\ specs \in Seq(JoinSpec) /\ spawned \in SUBSET Nat
  /\ exhausted \in BOOLEAN /\ roundJoins \in Nat /\ joins \in Nat

MainTypes ==
  /\ main \in {"wait", "stopping", "ended"} /\ done \in SUBSET Nodes
  /\ clock \in Nat /\ tick \in BOOLEAN /\ setup \in Setups

TypeOK == StateTypes /\ SearchTypes /\ ChurnTypes /\ MainTypes

-----------------------------------------------------------------------------
(* The round *)

\* The first joiner of the round, and how far the admission is: joiners are
\* numbered as they are planned and admitted in this order.
Base == nextIdx - Len(specs)
Upto(passed) == Base + roundJoins + (IF churn \in passed THEN 1 ELSE 0)

RoundInv ==
  /\ Base >= Initial
  /\ churn \in {"leave", "mark"} => roundJoins = 0 /\ nextIdx + wantJoins - Len(specs) <= MaxNodes
  /\ churn = "mark" => wantLeaves > 0
  /\ churn \in Admitting => roundJoins < Len(specs)
  /\ churn \in {"select", "end", "exited"} => roundJoins = Len(specs)
  /\ \A i \in DOMAIN specs : specs[i].idx = Base + i - 1
  /\ joins = (IF churn \in {"select", "exited"} THEN nextIdx ELSE Base) - Initial

\* The nodes below k that ever took part.
Part(k) == Founders \cup Initial..k - 1

InTopic == {"assign", "join", "register", "launch"}
Counted == {"join", "register", "launch"}
Present == {"register", "launch"}

\* Every node that took part is alive once, or killed.
PopulationInv ==
  /\ ToSet(alive) \cup killed = Part(Upto(Present)) /\ ToSet(alive) \cap killed = {}
  /\ \A i, j \in DOMAIN alive : alive[i] = alive[j] => i = j
  /\ Len(alive) + Cardinality(killed) = Cardinality(Founders) + Upto(Present) - Initial
  /\ Len(all) = Upto(Present)

\* A joiner is in its topic before it counts as assigned, and counts as assigned
\* before it registers.
MemberInv ==
  /\ \A n \in Nodes : topicOf[n] # None <=> n \in Part(Upto(InTopic))
  /\ churn = "assign" => topicOf[Joiner.idx] = Joiner.topic
  /\ \A t \in Topics : assigned[t] = Cardinality({n \in Part(Upto(Counted)) : topicOf[n] = t})
  /\ registered = Part(Upto({"launch"}))

\* What is counted was seen.
FindInv ==
  /\ \A n \in Nodes : searcher[n] = "none" => seen[n] = {}
  /\ \A n \in Nodes : \A id \in seen[n] : id \in registered /\ topicOf[id] = topicOf[n]
  /\ \A t \in Topics, id \in Nodes :
       counts[t][id] = Cardinality({r \in Nodes : topicOf[r] = t /\ id \in seen[r]})

Running == {n \in Nodes : searcher[n] \in {"launched", "merged"}}

SearchInv ==
  /\ \A n \in Nodes : searcher[n] # "none" <=> n \in Part(Upto({}))
  /\ wg = Cardinality(Running)
  /\ results = {n \in Nodes : searcher[n] = "done"}
  /\ done \subseteq results

\* What wait returned is kept, and the summary is of a population that no longer
\* changes.
ReportInv ==
  /\ main # "wait" => /\ report.partial \in BOOLEAN /\ report.results \in SUBSET Nodes
                      /\ ~ report.partial => done # {} /\ done \subseteq report.results
  /\ main = "ended" => churn = "exited" /\ report.nodes = Counts /\ report.joins = joins

PopInv == TypeOK /\ RoundInv /\ PopulationInv /\ MemberInv /\ FindInv /\ SearchInv /\ ReportInv

-----------------------------------------------------------------------------
(* Constants and steps *)

LEMMA Constants ==
  /\ Initial \in Nat \ {0} /\ MaxNodes \in Nat \ {0} /\ Initial <= MaxNodes /\ PerRound \in Nat
  /\ NumTopics \in Nat \ {0} /\ HardLimit \in Nat
  /\ Founders \in SUBSET Nodes /\ IsFiniteSet(Nodes) /\ IsFiniteSet(Founders)
  /\ Cardinality(Founders) \in Nat /\ None \notin Nodes /\ None \notin Topics
  /\ \A n \in Founders : n < Initial
<1>1. /\ Initial \in Nat \ {0} /\ MaxNodes \in Nat \ {0} /\ Initial <= MaxNodes /\ PerRound \in Nat
      /\ NumTopics \in Nat \ {0} /\ HardLimit \in Nat
  BY PopChurnAssumption
<1>2. IsFiniteSet(Nodes)
  BY <1>1, FS_Interval DEF Nodes
<1>3. Founders \in SUBSET Nodes /\ None \notin Nodes /\ None \notin Topics
      /\ \A n \in Founders : n < Initial
  BY <1>1 DEF Founders, Nodes, None, Topics
<1> QED
  BY <1>1, <1>2, <1>3, FS_Subset, FS_CardinalityType

\* The redraw: a number of places on, round the end, never back at the start.
LEMMA Onward ==
  ASSUME NEW n \in Nat \ {0}, NEW i \in 1..n, NEW r \in 0..n - 2
  PROVE  /\ ((i + r) % n) + 1 \in 1..n
         /\ ((i + r) % n) + 1 # i
<1>1. CASE i + r < n
  <2>1. (i + r) % n = i + r
    BY <1>1
  <2> QED
    BY <1>1, <2>1
<1>2. CASE i + r >= n
  <2>1. (i + r) % n = i + r - n
    BY <1>2
  <2> QED
    BY <1>2, <2>1
<1> QED
  BY <1>1, <1>2

\* Nobody is listed twice, so a redraw is never the bootnode.
LEMMA CandidateFacts ==
  ASSUME alive \in Seq(Nodes), NEW i \in Candidates
  PROVE  /\ i \in DOMAIN alive
         /\ (\A j, k \in DOMAIN alive : alive[j] = alive[k] => j = k) => alive[i] # Bootnode
<1>1. PICK j \in DOMAIN alive : i \in IF alive[j] = Bootnode THEN Redrawn(j) ELSE {j}
  BY DEF Candidates
<1>2. CASE alive[j] # Bootnode
  BY <1>1, <1>2
<1>3. CASE alive[j] = Bootnode
  <2>1. Len(alive) \in Nat \ {0} /\ DOMAIN alive = 1..Len(alive) /\ j \in 1..Len(alive)
    BY <1>1
  <2>2. PICK r \in 0..Len(alive) - 2 : i = ((j + r) % Len(alive)) + 1
    BY <1>1, <1>3 DEF Redrawn
  <2>3. i \in DOMAIN alive /\ i # j
    BY <2>1, <2>2, Onward
  <2> QED
    BY <1>3, <2>3
<1> QED
  BY <1>2, <1>3

\* Who changes what.
LEMMA Writers ==
  ASSUME [Next]_vars
  PROVE  /\ AddMember \/ UNCHANGED topicOf
         /\ RegisterTopic \/ UNCHANGED registered
         /\ AddAssigned \/ UNCHANGED assigned
         /\ (\E n, id \in Nodes : Yield(n, id)) \/ UNCHANGED <<counts, seen, local>>
         /\ LeaveRandom \/ JoinAlive \/ UNCHANGED <<all, alive, killed>>
         /\ \/ Launch \/ (\E n \in Nodes : EndSearch(n) \/ AppendResult(n))
            \/ UNCHANGED <<wg, searcher, results, totals, done>>
         /\ WaitReturns \/ Report \/ UNCHANGED <<main, report>>
         /\ ChurnStep \/ UNCHANGED <<churn, round, joins, nextIdx, offline>>
         /\ setup' = setup
<1> USE DEF state, stats, dead, searches, round, time
<1>1. CASE UNCHANGED vars
  BY <1>1 DEF vars
<1>2. CASE Tick \/ WaitReturns \/ Report
  BY <1>2 DEF Tick, WaitReturns, Report
<1>3. ASSUME NEW n \in Nodes, EndSearch(n) \/ AppendResult(n)
      PROVE  UNCHANGED <<topicOf, registered, assigned, counts, seen, local, all, alive, killed,
                         main, report, churn, round, joins, nextIdx, offline, setup>>
  BY <1>3 DEF EndSearch, AppendResult
<1>4. ASSUME NEW n \in Nodes, NEW id \in Nodes, Yield(n, id)
      PROVE  UNCHANGED <<topicOf, registered, assigned, all, alive, killed, wg, searcher, results,
                         totals, done, main, report, churn, round, joins, nextIdx, offline, setup>>
  BY <1>4 DEF Yield
<1>5. CASE ChurnStep
  <2>1. CASE ChurnStops \/ BeginRound \/ MarkOffline \/ NobodyLeaves \/ PlanJoin \/ BeginAdmission
             \/ EndRound \/ (\E c \in 1..PerRound : SpawnNode(c))
    BY <2>1, <1>5 DEF ChurnStops, BeginRound, MarkOffline, NobodyLeaves, PlanJoin, BeginAdmission,
       EndRound, SpawnNode
  <2>2. CASE LeaveRandom
    BY <2>2, <1>5 DEF LeaveRandom
  <2>3. CASE AddMember \/ AddAssigned \/ JoinAlive \/ RegisterTopic \/ Launch
    BY <2>3, <1>5 DEF AddMember, AddAssigned, JoinAlive, RegisterTopic, Launch
  <2> QED
    BY <1>5, <2>1, <2>2, <2>3 DEF ChurnStep
<1> QED
  BY <1>1, <1>2, <1>3, <1>4, <1>5 DEF Next

-----------------------------------------------------------------------------
(* The round *)

\* The joiner being admitted is the next one planned.
LEMMA RoundFacts ==
  ASSUME ChurnTypes, StateTypes, RoundInv
  PROVE  /\ specs \in Seq(JoinSpec) /\ Len(specs) \in Nat /\ roundJoins \in Nat
         /\ nextIdx \in Nat /\ nextIdx <= MaxNodes /\ Base \in Nat /\ Base = nextIdx - Len(specs)
         /\ DOMAIN specs = 1..Len(specs)
         /\ churn \in Admitting =>
              /\ roundJoins + 1 \in DOMAIN specs /\ Joiner \in JoinSpec
              /\ Joiner.idx = Base + roundJoins /\ Joiner.idx \in Nodes /\ Joiner.topic \in Topics
<1>1. /\ specs \in Seq(JoinSpec) /\ Len(specs) \in Nat /\ roundJoins \in Nat
      /\ nextIdx \in Nat /\ nextIdx <= MaxNodes /\ DOMAIN specs = 1..Len(specs)
  BY Constants DEF ChurnTypes, StateTypes
<1>2. Base \in Nat /\ Base = nextIdx - Len(specs)
  <2>1. Base >= Initial
    BY DEF RoundInv
  <2>2. Base = nextIdx - Len(specs)
    BY DEF Base
  <2> QED
    BY <1>1, <2>1, <2>2, Constants
<1>3. ASSUME churn \in Admitting
      PROVE  /\ roundJoins + 1 \in DOMAIN specs /\ Joiner \in JoinSpec
             /\ Joiner.idx = Base + roundJoins /\ Joiner.idx \in Nodes /\ Joiner.topic \in Topics
  <2>1. roundJoins < Len(specs)
    BY <1>3 DEF RoundInv
  <2>2. roundJoins + 1 \in DOMAIN specs
    BY <1>1, <2>1
  <2>3. specs[roundJoins + 1] \in JoinSpec
    BY <1>1, <2>2
  <2>4. specs[roundJoins + 1].idx = Base + (roundJoins + 1) - 1
    BY <2>2 DEF RoundInv
  <2> QED
    BY <1>1, <1>2, <2>2, <2>3, <2>4 DEF Joiner, JoinSpec
<1> QED
  BY <1>1, <1>2, <1>3

\* The frontiers of the admission move one at a time, each by the step that
\* admits a joiner there.
Frontiers ==
  /\ Upto(InTopic)' = Upto(InTopic) \/ (AddMember /\ Upto(InTopic)' = Upto(InTopic) + 1)
  /\ Upto(Counted)' = Upto(Counted) \/ (AddAssigned /\ Upto(Counted)' = Upto(Counted) + 1)
  /\ Upto(Present)' = Upto(Present) \/ (JoinAlive /\ Upto(Present)' = Upto(Present) + 1)
  /\ Upto({"launch"})' = Upto({"launch"}) \/ (RegisterTopic /\ Upto({"launch"})' = Upto({"launch"}) + 1)
  /\ Upto({})' = Upto({}) \/ (Launch /\ Upto({})' = Upto({}) + 1)

LEMMA RoundStep ==
  ASSUME TypeOK, RoundInv, [Next]_vars
  PROVE  RoundInv' /\ Frontiers
<1> USE DEF state, stats, dead, searches, round, time
<1>0. /\ specs \in Seq(JoinSpec) /\ Len(specs) \in Nat /\ roundJoins \in Nat
      /\ nextIdx \in Nat /\ nextIdx <= MaxNodes /\ Base \in Nat /\ Base = nextIdx - Len(specs)
      /\ DOMAIN specs = 1..Len(specs)
  BY RoundFacts DEF TypeOK
<1>c. Initial \in Nat /\ MaxNodes \in Nat /\ PerRound \in Nat /\ joins \in Nat /\ wantJoins \in Nat
      /\ wantLeaves \in Nat
  BY Constants DEF TypeOK, ChurnTypes
<1>1. CASE UNCHANGED <<churn, round, joins, nextIdx>>
  BY <1>1 DEF RoundInv, Frontiers, Base, Upto, Admitting
<1>2. CASE ChurnStops
  BY <1>0, <1>c, <1>2 DEF ChurnStops, RoundInv, Frontiers, Base, Upto, Admitting, InTopic, Counted, Present
<1>3. CASE BeginRound
  <2>1. /\ churn = "select" /\ churn' = "leave" /\ roundJoins' = 0 /\ specs' = <<>>
        /\ UNCHANGED <<nextIdx, joins>> /\ nextIdx + wantJoins' <= setup.nodes
    BY <1>3 DEF BeginRound
  <2>2. setup.nodes <= MaxNodes
    BY PopChurnAssumption, <1>c DEF TypeOK, MainTypes
  <2>3. Len(specs') = 0 /\ DOMAIN specs' = {}
    BY <2>1
  <2>4. roundJoins = Len(specs) /\ joins = nextIdx - Initial /\ Base >= Initial
    BY <2>1 DEF RoundInv
  <2>5. wantJoins' \in Nat /\ setup.nodes \in Nat
    BY <1>3, PopChurnAssumption, <1>c DEF BeginRound, TypeOK, MainTypes
  <2>6. Base' = Base + roundJoins /\ Base' = nextIdx
    BY <1>0, <2>1, <2>3, <2>4 DEF Base
  <2>7. RoundInv'
    <3>1. Base' >= Initial /\ joins' = Base' - Initial
      BY <1>0, <1>c, <2>1, <2>4, <2>6
    <3>2. nextIdx' + wantJoins' - Len(specs') <= MaxNodes
      <4>1. PICK j \in Nat : wantJoins' = j /\ nextIdx + j <= setup.nodes
        BY <2>1, <2>5
      <4>2. nextIdx + j - 0 <= MaxNodes
        BY <1>0, <1>c, <2>2, <2>5, <4>1
      <4> QED
        BY <2>1, <2>3, <4>1, <4>2
    <3> QED
      BY <2>1, <2>3, <3>1, <3>2 DEF RoundInv, Admitting
  <2> QED
    BY <1>0, <2>1, <2>6, <2>7 DEF Frontiers, Upto, InTopic, Counted, Present
<1>4. CASE LeaveRandom \/ MarkOffline \/ NobodyLeaves \/ \E c \in 1..PerRound : SpawnNode(c)
  <2>1. /\ churn \in {"leave", "mark"} /\ churn' \in {"leave", "mark"}
        /\ UNCHANGED <<roundJoins, specs, nextIdx, joins, wantJoins>>
        /\ churn' = "mark" => wantLeaves' > 0
    BY <1>4 DEF LeaveRandom, MarkOffline, NobodyLeaves, SpawnNode
  <2>2. Base' = Base
    BY <2>1 DEF Base
  <2> QED
    BY <2>1, <2>2 DEF RoundInv, Frontiers, Upto, Admitting, InTopic, Counted, Present
<1>5. CASE PlanJoin
  <2>1. PICK s \in JoinSpec : specs' = Append(specs, s) /\ s.idx = nextIdx
    <3>1. nextIdx \in Nodes
      <4>1. nextIdx + wantJoins - Len(specs) <= MaxNodes /\ Len(specs) < wantJoins
        BY <1>5 DEF PlanJoin, RoundInv
      <4> QED
        BY <1>0, <1>c, <4>1 DEF Nodes
    <3>2. AliveSample \in SUBSET Nodes
      BY DEF AliveSample, TypeOK, StateTypes
    <3> QED
      BY <1>5, <3>1, <3>2 DEF PlanJoin, JoinSpec
  <2>2. /\ churn = "leave" /\ churn' = "leave" /\ nextIdx' = nextIdx + 1
        /\ UNCHANGED <<roundJoins, joins, wantJoins, wantLeaves>>
    BY <1>5 DEF PlanJoin
  <2>3. /\ Len(specs') = Len(specs) + 1 /\ DOMAIN specs' = 1..Len(specs) + 1
        /\ \A i \in 1..Len(specs) : specs'[i] = specs[i]
        /\ specs'[Len(specs) + 1] = s
    BY <1>0, <2>1
  <2>4. Base' = Base
    BY <1>0, <2>2, <2>3 DEF Base
  <2>5. \A i \in DOMAIN specs' : specs'[i].idx = Base + i - 1
    <3>1. \A i \in 1..Len(specs) : specs[i].idx = Base + i - 1
      BY <1>0 DEF RoundInv
    <3>2. nextIdx = Base + (Len(specs) + 1) - 1
      BY <1>0
    <3>3. \A i \in 1..Len(specs) + 1 : i \in 1..Len(specs) \/ i = Len(specs) + 1
      BY <1>0
    <3> QED
      BY <2>1, <2>3, <3>1, <3>2, <3>3
  <2>6. RoundInv'
    BY <1>0, <1>c, <2>2, <2>3, <2>4, <2>5 DEF RoundInv, Admitting
  <2> QED
    BY <2>2, <2>4, <2>6 DEF Frontiers, Upto
<1>6. CASE BeginAdmission
  <2>1. /\ churn = "leave" /\ churn' = (IF specs = <<>> THEN "end" ELSE "member")
        /\ UNCHANGED <<roundJoins, specs, nextIdx, joins>>
    BY <1>6 DEF BeginAdmission
  <2>2. Base' = Base
    BY <2>1 DEF Base
  <2>3. specs # <<>> => Len(specs) > 0
    BY <1>0
  <2> QED
    BY <1>0, <2>1, <2>2, <2>3 DEF RoundInv, Frontiers, Upto, Admitting, InTopic, Counted, Present
<1>7. CASE AddMember \/ AddAssigned \/ JoinAlive \/ RegisterTopic
  <2>1. /\ UNCHANGED <<roundJoins, specs, nextIdx, joins>>
    BY <1>7 DEF AddMember, AddAssigned, JoinAlive, RegisterTopic
  <2>2. Base' = Base
    BY <2>1 DEF Base
  <2>3. CASE AddMember
    BY <1>0, <2>1, <2>2, <2>3 DEF AddMember, RoundInv, Frontiers, Upto, Admitting, InTopic, Counted, Present
  <2>4. CASE AddAssigned
    BY <1>0, <2>1, <2>2, <2>4 DEF AddAssigned, RoundInv, Frontiers, Upto, Admitting, InTopic, Counted, Present
  <2>5. CASE JoinAlive
    BY <1>0, <2>1, <2>2, <2>5 DEF JoinAlive, RoundInv, Frontiers, Upto, Admitting, InTopic, Counted, Present
  <2>6. CASE RegisterTopic
    BY <1>0, <2>1, <2>2, <2>6 DEF RegisterTopic, RoundInv, Frontiers, Upto, Admitting, InTopic, Counted, Present
  <2> QED
    BY <1>7, <2>3, <2>4, <2>5, <2>6
<1>8. CASE Launch
  <2>1. /\ churn = "launch" /\ roundJoins' = roundJoins + 1
        /\ churn' = (IF roundJoins' = Len(specs) THEN "end" ELSE "member")
        /\ UNCHANGED <<specs, nextIdx, joins>>
    BY <1>8 DEF Launch
  <2>2. Base' = Base
    BY <2>1 DEF Base
  <2> QED
    BY <1>0, <1>8, <2>1, <2>2 DEF RoundInv, Frontiers, Upto, Admitting, InTopic, Counted, Present
<1>9. CASE EndRound
  <2>1. /\ churn = "end" /\ churn' \in {"select", "exited"} /\ joins' = joins + roundJoins
        /\ UNCHANGED <<roundJoins, specs, nextIdx>>
    BY <1>9 DEF EndRound
  <2>2. Base' = Base
    BY <2>1 DEF Base
  <2> QED
    BY <1>0, <1>c, <2>1, <2>2 DEF RoundInv, Frontiers, Upto, Admitting, InTopic, Counted, Present
<1> QED
  BY <1>1, <1>2, <1>3, <1>4, <1>5, <1>6, <1>7, <1>8, <1>9, Writers DEF ChurnStep

-----------------------------------------------------------------------------
(* The population *)

\* The last node takes the place of the one that leaves: nobody else leaves, and
\* nobody is listed twice.
LEMMA SwapFacts ==
  ASSUME alive \in Seq(Nodes), NEW i \in DOMAIN alive, SwapRemove(i),
         \A j, k \in DOMAIN alive : alive[j] = alive[k] => j = k
  PROVE  /\ alive' \in Seq(Nodes) /\ Len(alive') = Len(alive) - 1
         /\ ToSet(alive') = ToSet(alive) \ {alive[i]}
         /\ \A j, k \in DOMAIN alive' : alive'[j] = alive'[k] => j = k
<1> DEFINE last == Len(alive)
           moved == [alive EXCEPT ![i] = alive[last]]
<1>1. last \in Nat /\ last >= 1 /\ i \in 1..last /\ DOMAIN alive = 1..last
  OBVIOUS
<1>2. /\ moved \in Seq(Nodes) /\ Len(moved) = last
      /\ \A j \in 1..last : moved[j] = IF j = i THEN alive[last] ELSE alive[j]
  BY <1>1
<1>3. alive' = SubSeq(moved, 1, last - 1)
  BY DEF SwapRemove
<1>4. /\ alive' \in Seq(Nodes) /\ Len(alive') = last - 1
      /\ \A j \in 1..last - 1 : alive'[j] = moved[j]
  <2> HIDE DEF moved, last
  <2> QED
    BY <1>1, <1>2, <1>3
<1>5. DOMAIN alive' = 1..last - 1
  BY <1>4
<1>6. \A j \in 1..last - 1 : alive'[j] = IF j = i THEN alive[last] ELSE alive[j]
  BY <1>1, <1>2, <1>4
<1> HIDE DEF moved, last
<1>7. \A j, k \in DOMAIN alive' : alive'[j] = alive'[k] => j = k
  BY <1>1, <1>5, <1>6
<1>8. ASSUME NEW x PROVE x \in ToSet(alive') <=> x \in ToSet(alive) \ {alive[i]}
  <2>1. ASSUME x \in ToSet(alive') PROVE x \in ToSet(alive) \ {alive[i]}
    <3>1. PICK j \in 1..last - 1 : x = alive'[j]
      BY <1>5, <2>1 DEF ToSet
    <3>2. PICK k \in 1..last : x = alive[k] /\ k # i
      <4>1. CASE j = i
        BY <1>1, <1>6, <3>1, <4>1
      <4>2. CASE j # i
        BY <1>1, <1>6, <3>1, <4>2
      <4> QED
        BY <4>1, <4>2
    <3> QED
      BY <1>1, <3>2 DEF ToSet
  <2>2. ASSUME x \in ToSet(alive) \ {alive[i]} PROVE x \in ToSet(alive')
    <3>1. PICK k \in 1..last : x = alive[k] /\ k # i
      BY <1>1, <2>2 DEF ToSet
    <3>2. PICK j \in 1..last - 1 : x = alive'[j]
      <4>1. CASE k = last
        BY <1>1, <1>6, <3>1, <4>1
      <4>2. CASE k # last
        BY <1>1, <1>6, <3>1, <4>2
      <4> QED
        BY <4>1, <4>2
    <3> QED
      BY <1>5, <3>2 DEF ToSet
  <2> QED
    BY <2>1, <2>2
<1> QED
  BY <1>4, <1>7, <1>8 DEF last

\* A joiner is listed last.
LEMMA JoinFacts ==
  ASSUME alive \in Seq(Nodes), NEW x \in Nodes, x \notin ToSet(alive), alive' = Append(alive, x),
         \A j, k \in DOMAIN alive : alive[j] = alive[k] => j = k
  PROVE  /\ alive' \in Seq(Nodes) /\ Len(alive') = Len(alive) + 1
         /\ ToSet(alive') = ToSet(alive) \cup {x}
         /\ \A j, k \in DOMAIN alive' : alive'[j] = alive'[k] => j = k
<1>1. /\ alive' \in Seq(Nodes) /\ Len(alive') = Len(alive) + 1 /\ Len(alive) \in Nat
      /\ DOMAIN alive = 1..Len(alive) /\ DOMAIN alive' = 1..Len(alive) + 1
      /\ \A j \in 1..Len(alive) : alive'[j] = alive[j]
      /\ alive'[Len(alive) + 1] = x
  OBVIOUS
<1>2. \A j \in 1..Len(alive) : alive[j] # x
  BY <1>1 DEF ToSet
<1>3. \A j \in DOMAIN alive' : j \in DOMAIN alive \/ j = Len(alive) + 1
  BY <1>1
<1>4. ToSet(alive') = ToSet(alive) \cup {x}
  BY <1>1, <1>3 DEF ToSet
<1>5. \A j, k \in DOMAIN alive' : alive'[j] = alive'[k] => j = k
  BY <1>1, <1>2, <1>3
<1> QED
  BY <1>1, <1>4, <1>5

\* How many ever took part.
LEMMA PartFacts ==
  ASSUME NEW k \in Nat, Initial <= k, k <= MaxNodes
  PROVE  /\ Part(k) \in SUBSET Nodes /\ IsFiniteSet(Part(k))
         /\ k \notin Part(k) /\ Part(k + 1) = Part(k) \cup {k}
         /\ \A j \in Nat : j <= k => Part(j) \subseteq Part(k)
<1>1. Part(k) \in SUBSET Nodes /\ k \notin Part(k) /\ Part(k + 1) = Part(k) \cup {k}
      /\ \A j \in Nat : j <= k => Part(j) \subseteq Part(k)
  BY Constants DEF Part, Nodes
<1> QED
  BY <1>1, Constants, FS_Subset

\* The frontiers, in the order a joiner passes them.
LEMMA UptoFacts ==
  ASSUME TypeOK, RoundInv
  PROVE  /\ Upto({}) = Base + roundJoins /\ Upto({}) >= Initial
         /\ Upto({}) \in Nat /\ Upto({"launch"}) \in Nat /\ Upto(Present) \in Nat
         /\ Upto(Counted) \in Nat /\ Upto(InTopic) \in Nat
         /\ Upto({}) <= Upto({"launch"}) /\ Upto({"launch"}) <= Upto(Present)
         /\ Upto(Present) <= Upto(Counted) /\ Upto(Counted) <= Upto(InTopic)
         /\ Upto(InTopic) <= MaxNodes
<1>1. /\ Len(specs) \in Nat /\ roundJoins \in Nat /\ nextIdx \in Nat /\ nextIdx <= MaxNodes
      /\ Base \in Nat /\ Base = nextIdx - Len(specs)
  BY RoundFacts DEF TypeOK
<1>2. Base >= Initial /\ roundJoins <= Len(specs) /\ (churn \in InTopic => roundJoins < Len(specs))
  BY <1>1 DEF RoundInv, TypeOK, ChurnTypes, InTopic, Admitting
<1> QED
  BY <1>1, <1>2, Constants DEF Upto, InTopic, Counted, Present

LEMMA PopulationStep ==
  ASSUME PopInv, [Next]_vars
  PROVE  PopulationInv' /\ alive' \in Seq(Nodes) /\ killed' \in SUBSET Nodes /\ all' \in Seq(Nodes)
<1>0. /\ TypeOK /\ RoundInv /\ PopulationInv /\ StateTypes
      /\ alive \in Seq(Nodes) /\ killed \in SUBSET Nodes /\ all \in Seq(Nodes)
  BY DEF PopInv, TypeOK, StateTypes
<1>1. /\ Upto(Present) \in Nat /\ Upto(Present) >= Initial /\ Upto(Present) <= MaxNodes
  BY <1>0, UptoFacts, Constants
<1>2. /\ Part(Upto(Present) + 1) = Part(Upto(Present)) \cup {Upto(Present)}
      /\ Upto(Present) \notin Part(Upto(Present)) /\ Part(Upto(Present)) \in SUBSET Nodes
  BY <1>1, PartFacts
<1>3. Upto(Present)' = Upto(Present) \/ (JoinAlive /\ Upto(Present)' = Upto(Present) + 1)
  BY <1>0, RoundStep DEF Frontiers
<1>4. /\ IsFiniteSet(killed) /\ Cardinality(killed) \in Nat /\ Len(alive) \in Nat
      /\ Cardinality(Founders) \in Nat /\ Initial \in Nat
  BY <1>0, Constants, FS_Subset, FS_CardinalityType
<1>5. CASE UNCHANGED <<all, alive, killed>> /\ Upto(Present)' = Upto(Present)
  BY <1>0, <1>5 DEF PopulationInv
<1>6. CASE LeaveRandom
  <2>0. Upto(Present)' = Upto(Present) /\ UNCHANGED all
    BY <1>3, <1>6 DEF LeaveRandom, JoinAlive
  <2>1. PICK i \in DOMAIN alive : SwapRemove(i) /\ killed' = killed \cup {alive[i]}
    BY <1>0, <1>6, CandidateFacts DEF LeaveRandom, PopulationInv
  <2>2. /\ alive' \in Seq(Nodes) /\ Len(alive') = Len(alive) - 1
        /\ ToSet(alive') = ToSet(alive) \ {alive[i]}
        /\ \A j, k \in DOMAIN alive' : alive'[j] = alive'[k] => j = k
    BY <1>0, <2>1, SwapFacts DEF PopulationInv
  <2>3. alive[i] \in ToSet(alive) /\ alive[i] \in Nodes
    BY <1>0, <2>1 DEF ToSet
  <2>4. alive[i] \notin killed
    BY <1>0, <2>3 DEF PopulationInv
  <2>5. Cardinality(killed') = Cardinality(killed) + 1
    BY <1>4, <2>1, <2>4, FS_AddElement
  <2>6. Len(alive') + Cardinality(killed') = Cardinality(Founders) + Upto(Present) - Initial
    BY <1>0, <1>1, <1>4, <2>2, <2>5 DEF PopulationInv
  <2>7. /\ ToSet(alive') \cup killed' = ToSet(alive) \cup killed
        /\ ToSet(alive') \cap killed' = {} /\ killed' \in SUBSET Nodes
    BY <1>0, <2>1, <2>2, <2>3, <2>4 DEF PopulationInv
  <2> QED
    BY <1>0, <2>0, <2>2, <2>6, <2>7 DEF PopulationInv
<1>7. CASE JoinAlive
  <2>1. churn = "join" /\ churn' = "register" /\ UNCHANGED <<killed, specs, nextIdx, roundJoins>>
        /\ all' = Append(all, Joiner.idx) /\ alive' = Append(alive, Joiner.idx)
    BY <1>7 DEF JoinAlive, round
  <2>2. Joiner.idx \in Nodes /\ Joiner.idx = Base + roundJoins
    BY <1>0, <2>1, RoundFacts DEF TypeOK, Admitting
  <2>3. Upto(Present) = Joiner.idx /\ Upto(Present)' = Upto(Present) + 1
    <3>1. Base \in Nat /\ roundJoins \in Nat /\ Base' = Base
      BY <1>0, <2>1, RoundFacts DEF TypeOK, Base
    <3> QED
      BY <2>1, <2>2, <3>1 DEF Upto, Present
  <2>4. Joiner.idx \notin ToSet(alive) /\ Joiner.idx \notin killed
    BY <1>0, <1>2, <2>3 DEF PopulationInv
  <2>5. /\ alive' \in Seq(Nodes) /\ Len(alive') = Len(alive) + 1
        /\ ToSet(alive') = ToSet(alive) \cup {Joiner.idx}
        /\ \A j, k \in DOMAIN alive' : alive'[j] = alive'[k] => j = k
    BY <1>0, <2>1, <2>2, <2>4, JoinFacts DEF PopulationInv
  <2>6. all' \in Seq(Nodes) /\ Len(all') = Len(all) + 1
    BY <1>0, <2>1, <2>2
  <2>7. Len(alive') + Cardinality(killed') = Cardinality(Founders) + Upto(Present)' - Initial
    <3>1. Len(alive) + Cardinality(killed) = Cardinality(Founders) + Upto(Present) - Initial
      BY <1>0 DEF PopulationInv
    <3>2. (Len(alive) + 1) + Cardinality(killed)
            = Cardinality(Founders) + (Upto(Present) + 1) - Initial
      BY <1>1, <1>4, <3>1
    <3>3. killed' = killed
      BY <2>1
    <3> QED
      BY <2>3, <2>5, <3>2, <3>3
  <2>8. /\ ToSet(alive') \cup killed' = Part(Upto(Present)')
        /\ ToSet(alive') \cap killed' = {}
    BY <1>0, <1>2, <2>1, <2>3, <2>4, <2>5 DEF PopulationInv
  <2>9. Len(all') = Upto(Present)'
    BY <1>0, <2>3, <2>6 DEF PopulationInv
  <2> QED
    BY <1>0, <2>1, <2>5, <2>6, <2>7, <2>8, <2>9 DEF PopulationInv, Part
<1> QED
  BY <1>3, <1>5, <1>6, <1>7, Writers

-----------------------------------------------------------------------------
(* Members and finds *)

\* A searcher's node is in a topic.
LEMMA LaunchedHasTopic ==
  ASSUME PopInv, NEW n \in Nodes, searcher[n] # "none"
  PROVE  topicOf[n] \in Topics
<1>1. n \in Part(Upto({}))
  BY UptoFacts DEF PopInv, SearchInv
<1>2. n \in Part(Upto(InTopic))
  BY <1>1, UptoFacts, PartFacts, Constants DEF PopInv
<1> QED
  BY <1>2 DEF PopInv, MemberInv, TypeOK, StateTypes

LEMMA MemberStep ==
  ASSUME PopInv, [Next]_vars
  PROVE  /\ MemberInv' /\ topicOf' \in [Nodes -> Topics \cup {None}]
         /\ registered' \in SUBSET Nodes /\ assigned' \in [Topics -> Nat]
<1>0. /\ TypeOK /\ RoundInv /\ MemberInv
      /\ topicOf \in [Nodes -> Topics \cup {None}] /\ registered \in SUBSET Nodes
      /\ assigned \in [Topics -> Nat]
  BY DEF PopInv, TypeOK, StateTypes
<1>1. /\ Upto({"launch"}) \in Nat /\ Upto(Counted) \in Nat /\ Upto(InTopic) \in Nat
      /\ Initial <= Upto({"launch"}) /\ Upto({"launch"}) <= Upto(Counted)
      /\ Upto(Counted) <= Upto(InTopic) /\ Upto(InTopic) <= MaxNodes
      /\ Upto({"launch"}) <= MaxNodes /\ Upto(Counted) <= MaxNodes
      /\ Initial <= Upto(Counted) /\ Initial <= Upto(InTopic)
  BY <1>0, UptoFacts, Constants
<1>2. /\ Upto(InTopic)' = Upto(InTopic) \/ (AddMember /\ Upto(InTopic)' = Upto(InTopic) + 1)
      /\ Upto(Counted)' = Upto(Counted) \/ (AddAssigned /\ Upto(Counted)' = Upto(Counted) + 1)
      /\ \/ Upto({"launch"})' = Upto({"launch"})
         \/ RegisterTopic /\ Upto({"launch"})' = Upto({"launch"}) + 1
  BY <1>0, RoundStep DEF Frontiers
<1>3. CASE AddMember
  <2>1. /\ churn = "member" /\ churn' = "assign" /\ UNCHANGED <<registered, assigned, specs, roundJoins, nextIdx>>
        /\ topicOf' = [topicOf EXCEPT ![Joiner.idx] = Joiner.topic]
    BY <1>3 DEF AddMember, state, stats, round
  <2>2. Joiner.idx \in Nodes /\ Joiner.idx = Base + roundJoins /\ Joiner.topic \in Topics
        /\ Base \in Nat /\ roundJoins \in Nat
    BY <1>0, <2>1, RoundFacts DEF TypeOK, Admitting
  <2>3. /\ Upto(InTopic) = Joiner.idx /\ Upto(Counted) = Joiner.idx
        /\ Upto(InTopic)' = Upto(InTopic) + 1
        /\ Upto(Counted)' = Upto(Counted) /\ Upto({"launch"})' = Upto({"launch"})
        /\ Joiner' = Joiner
    <3>1. Base' = Base
      BY <2>1 DEF Base
    <3> QED
      BY <2>1, <2>2, <3>1 DEF Upto, InTopic, Counted, Joiner
  <2>4. topicOf' \in [Nodes -> Topics \cup {None}]
    BY <1>0, <2>1, <2>2
  <2>5. Part(Joiner.idx + 1) = Part(Joiner.idx) \cup {Joiner.idx} /\ Joiner.idx \notin Part(Joiner.idx)
    BY <1>1, <2>3, PartFacts
  <2>6. \A n \in Nodes : topicOf'[n] # None <=> n \in Part(Upto(InTopic)')
    BY <1>0, <2>1, <2>2, <2>3, <2>5, Constants DEF MemberInv
  <2>7. ASSUME NEW t \in Topics
        PROVE  {n \in Part(Upto(Counted)') : topicOf'[n] = t} = {n \in Part(Upto(Counted)) : topicOf[n] = t}
    <3>1. Part(Upto(Counted)) \in SUBSET Nodes
      BY <1>1, PartFacts
    <3>2. Part(Upto(Counted)') = Part(Upto(Counted)) /\ Joiner.idx \notin Part(Upto(Counted))
      BY <2>3, <2>5
    <3> QED
      BY <1>0, <2>1, <3>1, <3>2
  <2>8. \A t \in Topics : assigned'[t] = Cardinality({n \in Part(Upto(Counted)') : topicOf'[n] = t})
    BY <1>0, <2>1, <2>7 DEF MemberInv
  <2>9. topicOf'[Joiner'.idx] = Joiner'.topic
    BY <1>0, <2>1, <2>2, <2>3
  <2>10. registered' = Part(Upto({"launch"})')
    BY <1>0, <2>1, <2>3 DEF MemberInv
  <2> QED
    BY <1>0, <2>1, <2>4, <2>6, <2>8, <2>9, <2>10 DEF MemberInv, Part
<1>4. CASE AddAssigned
  <2>1. /\ churn = "assign" /\ churn' = "join" /\ UNCHANGED <<registered, topicOf, specs, roundJoins, nextIdx>>
        /\ assigned' = [assigned EXCEPT ![Joiner.topic] = @ + 1]
    BY <1>4 DEF AddAssigned, state, round
  <2>2. Joiner.idx \in Nodes /\ Joiner.idx = Base + roundJoins /\ Joiner.topic \in Topics
        /\ Base \in Nat /\ roundJoins \in Nat
    BY <1>0, <2>1, RoundFacts DEF TypeOK, Admitting
  <2>3. /\ Upto(Counted) = Joiner.idx /\ Upto(Counted)' = Upto(Counted) + 1
        /\ Upto(InTopic)' = Upto(InTopic) /\ Upto({"launch"})' = Upto({"launch"})
    <3>1. Base' = Base
      BY <2>1 DEF Base
    <3> QED
      BY <2>1, <2>2, <3>1 DEF Upto, InTopic, Counted
  <2>4. assigned' \in [Topics -> Nat]
    BY <1>0, <2>1, <2>2
  <2>5. Part(Joiner.idx + 1) = Part(Joiner.idx) \cup {Joiner.idx} /\ Joiner.idx \notin Part(Joiner.idx)
        /\ IsFiniteSet(Part(Joiner.idx))
    BY <1>1, <2>3, PartFacts
  <2>6. topicOf[Joiner.idx] = Joiner.topic
    BY <1>0, <2>1 DEF MemberInv
  <2>7. ASSUME NEW t \in Topics
        PROVE  assigned'[t] = Cardinality({n \in Part(Upto(Counted)') : topicOf'[n] = t})
    <3> DEFINE S == {n \in Part(Joiner.idx) : topicOf[n] = t}
               T == {n \in Part(Joiner.idx + 1) : topicOf[n] = t}
    <3>1. assigned[t] = Cardinality(S) /\ IsFiniteSet(S) /\ Joiner.idx \notin S
      BY <1>0, <2>3, <2>5, FS_Subset DEF MemberInv
    <3>2. CASE t = Joiner.topic
      <4>1. T = S \cup {Joiner.idx}
        BY <2>5, <2>6, <3>2
      <4>2. Cardinality(S \cup {Joiner.idx}) = Cardinality(S) + 1
        BY <3>1, FS_AddElement
      <4>3. assigned'[t] = assigned[t] + 1
        BY <1>0, <2>1, <3>2
      <4> QED
        BY <2>1, <2>3, <3>1, <4>1, <4>2, <4>3
    <3>3. CASE t # Joiner.topic
      <4>1. T = S
        BY <2>5, <2>6, <3>3
      <4>2. assigned'[t] = assigned[t]
        BY <1>0, <2>1, <3>3
      <4> QED
        BY <2>1, <2>3, <3>1, <4>1, <4>2
    <3> QED
      BY <3>2, <3>3
  <2> QED
    BY <1>0, <2>1, <2>3, <2>4, <2>7 DEF MemberInv, Part
<1>5. CASE RegisterTopic
  <2>1. /\ churn = "register" /\ churn' = "launch" /\ UNCHANGED <<assigned, topicOf, specs, roundJoins, nextIdx>>
        /\ registered' = registered \cup {Joiner.idx}
    BY <1>5 DEF RegisterTopic, state, stats, round
  <2>2. Joiner.idx \in Nodes /\ Joiner.idx = Base + roundJoins
        /\ Base \in Nat /\ roundJoins \in Nat
    BY <1>0, <2>1, RoundFacts DEF TypeOK, Admitting
  <2>3. /\ Upto({"launch"}) = Joiner.idx /\ Upto({"launch"})' = Upto({"launch"}) + 1
        /\ Upto(InTopic)' = Upto(InTopic) /\ Upto(Counted)' = Upto(Counted)
    <3>1. Base' = Base
      BY <2>1 DEF Base
    <3> QED
      BY <2>1, <2>2, <3>1 DEF Upto, InTopic, Counted
  <2>4. Part(Joiner.idx + 1) = Part(Joiner.idx) \cup {Joiner.idx}
    BY <1>1, <2>3, PartFacts
  <2>5. registered' = Part(Upto({"launch"})')
    BY <1>0, <2>1, <2>3, <2>4 DEF MemberInv
  <2> QED
    BY <1>0, <2>1, <2>2, <2>3, <2>5 DEF MemberInv, Part
<1>6. CASE ~ (AddMember \/ AddAssigned \/ RegisterTopic)
  <2>1. UNCHANGED <<topicOf, registered, assigned>>
    BY <1>6, Writers
  <2>2. /\ Upto(InTopic)' = Upto(InTopic) /\ Upto(Counted)' = Upto(Counted)
        /\ Upto({"launch"})' = Upto({"launch"})
    BY <1>2, <1>6
  <2>3. churn' = "assign" => churn = "assign" /\ UNCHANGED <<specs, roundJoins>>
    <3>1. CASE UNCHANGED <<churn, round, joins, nextIdx>>
      BY <3>1 DEF round
    <3>2. CASE ChurnStep
      BY <1>6, <3>2 DEF ChurnStep, ChurnStops, BeginRound, LeaveRandom, MarkOffline, NobodyLeaves,
         PlanJoin, SpawnNode, BeginAdmission, JoinAlive, Launch, EndRound
    <3> QED
      BY <3>1, <3>2, Writers
  <2> QED
    BY <1>0, <2>1, <2>2, <2>3 DEF MemberInv, Part, Joiner
<1> QED
  BY <1>3, <1>4, <1>5, <1>6

\* A node is launched for good.
LEMMA LaunchedStays ==
  ASSUME PopInv, [Next]_vars, NEW n \in Nodes, searcher'[n] = "none"
  PROVE  searcher[n] = "none"
<1>1. searcher \in [Nodes -> {"none", "launched", "merged", "done"}]
  BY DEF PopInv, TypeOK, SearchTypes
<1>2. CASE Launch
  <2>1. churn = "launch" /\ searcher' = [searcher EXCEPT ![Joiner.idx] = "launched"]
    BY <1>2 DEF Launch
  <2>2. Joiner.idx \in Nodes
    BY <2>1, RoundFacts DEF PopInv, TypeOK, Admitting
  <2> QED
    BY <1>1, <2>1, <2>2
<1>3. ASSUME NEW m \in Nodes, EndSearch(m) \/ AppendResult(m) PROVE searcher[n] = "none"
  BY <1>1, <1>3 DEF EndSearch, AppendResult
<1> QED
  BY <1>2, <1>3, Writers

\* The joiner being admitted has no searcher, and nobody has found it.
LEMMA JoinerIsNew ==
  ASSUME PopInv, churn = "member"
  PROVE  /\ Joiner.idx \in Nodes /\ Joiner.topic \in Topics /\ seen[Joiner.idx] = {}
         /\ Joiner.idx \notin registered
<1>0. /\ Joiner.idx \in Nodes /\ Joiner.topic \in Topics
      /\ Joiner.idx = Base + roundJoins /\ Base \in Nat /\ roundJoins \in Nat
  BY RoundFacts DEF PopInv, TypeOK, Admitting
<1>1. Upto({}) = Joiner.idx /\ Upto({"launch"}) = Joiner.idx
  BY <1>0 DEF Upto
<1>2. Joiner.idx \notin Part(Joiner.idx)
  BY <1>1, UptoFacts, Constants, PartFacts DEF PopInv
<1>3. searcher[Joiner.idx] = "none"
  BY <1>0, <1>1, <1>2 DEF PopInv, SearchInv
<1> QED
  BY <1>0, <1>1, <1>2, <1>3 DEF PopInv, FindInv, MemberInv

LEMMA YieldFacts ==
  ASSUME PopInv, NEW n \in Nodes, NEW id \in Nodes, Yield(n, id)
  PROVE  /\ UNCHANGED <<topicOf, registered, searcher>> /\ searcher[n] = "launched"
         /\ id \in registered /\ topicOf[id] = topicOf[n] /\ topicOf[n] \in Topics
         /\ seen' = [seen EXCEPT ![n] = @ \cup {id}]
         /\ counts' \in [Topics -> [Nodes -> Nat]]
         /\ \A t \in Topics, i \in Nodes :
              counts'[t][i] = IF id \notin seen[n] /\ t = topicOf[n] /\ i = id
                              THEN counts[t][i] + 1 ELSE counts[t][i]
         /\ local' \in [Nodes -> Tally]
<1>1. searcher[n] = "launched"
  BY DEF Yield
<1>2. topicOf[n] \in Topics
  BY <1>1, LaunchedHasTopic
<1>3. /\ UNCHANGED <<topicOf, registered, searcher>>
      /\ id \in registered /\ topicOf[id] = topicOf[n]
      /\ seen' = [seen EXCEPT ![n] = @ \cup {id}]
  BY DEF Yield
<1>4. /\ counts' = IF id \in seen[n] THEN counts ELSE [counts EXCEPT ![topicOf[n]][id] = @ + 1]
      /\ local' = [local EXCEPT ![n] = Record(@, id)]
  BY DEF Yield
<1>5. /\ counts \in [Topics -> [Nodes -> Nat]] /\ counts[topicOf[n]] \in [Nodes -> Nat]
      /\ local \in [Nodes -> Tally]
  BY <1>2 DEF PopInv, TypeOK, StateTypes, SearchTypes
<1>6. /\ counts' \in [Topics -> [Nodes -> Nat]]
      /\ \A t \in Topics, i \in Nodes :
           counts'[t][i] = IF id \notin seen[n] /\ t = topicOf[n] /\ i = id
                           THEN counts[t][i] + 1 ELSE counts[t][i]
  <2>1. CASE id \in seen[n]
    BY <1>4, <1>5, <2>1
  <2>2. CASE id \notin seen[n]
    <3>1. counts' = [counts EXCEPT ![topicOf[n]][id] = @ + 1]
      BY <1>4, <2>2
    <3> QED
      BY <1>2, <1>5, <2>2, <3>1
  <2> QED
    BY <2>1, <2>2
<1>7. local' \in [Nodes -> Tally]
  <2>1. Record(local[n], id) \in Tally
    BY <1>5 DEF Record, Tally
  <2> QED
    BY <1>4, <1>5, <2>1
<1> QED
  BY <1>1, <1>2, <1>3, <1>6, <1>7

LEMMA FindStep ==
  ASSUME PopInv, [Next]_vars
  PROVE  FindInv' /\ seen' \in [Nodes -> SUBSET Nodes] /\ counts' \in [Topics -> [Nodes -> Nat]]
<1>0. /\ FindInv /\ seen \in [Nodes -> SUBSET Nodes] /\ counts \in [Topics -> [Nodes -> Nat]]
      /\ topicOf \in [Nodes -> Topics \cup {None}] /\ registered \in SUBSET Nodes
  BY DEF PopInv, TypeOK, StateTypes, SearchTypes
<1>1. CASE AddMember
  <2>0. UNCHANGED <<registered, seen, counts, searcher>> /\ churn = "member"
        /\ topicOf' = [topicOf EXCEPT ![Joiner.idx] = Joiner.topic]
    BY <1>1 DEF AddMember, stats, searches
  <2>1. /\ Joiner.idx \in Nodes /\ Joiner.topic \in Topics /\ seen[Joiner.idx] = {}
        /\ Joiner.idx \notin registered
    BY <2>0, JoinerIsNew
  <2>2. \A m \in Nodes : topicOf'[m] = IF m = Joiner.idx THEN Joiner.topic ELSE topicOf[m]
    BY <1>0, <2>0, <2>1
  <2>3. ASSUME NEW m \in Nodes, NEW id \in seen'[m]
        PROVE  id \in registered' /\ topicOf'[id] = topicOf'[m]
    <3>1. id \in seen[m] /\ id \in Nodes
      BY <1>0, <2>0
    <3>2. id \in registered /\ topicOf[id] = topicOf[m]
      BY <1>0, <3>1 DEF FindInv
    <3>3. id # Joiner.idx /\ m # Joiner.idx
      BY <2>1, <3>1, <3>2
    <3> QED
      BY <2>0, <2>2, <3>1, <3>2, <3>3
  <2>4. ASSUME NEW t \in Topics, NEW id \in Nodes
        PROVE  {r \in Nodes : topicOf'[r] = t /\ id \in seen'[r]}
                 = {r \in Nodes : topicOf[r] = t /\ id \in seen[r]}
    BY <2>0, <2>1, <2>2
  <2>5. \A t \in Topics, id \in Nodes :
          counts'[t][id] = Cardinality({r \in Nodes : topicOf'[r] = t /\ id \in seen'[r]})
    BY <1>0, <2>0, <2>4 DEF FindInv
  <2>6. \A m \in Nodes : searcher'[m] = "none" => seen'[m] = {}
    BY <1>0, <2>0 DEF FindInv
  <2> QED
    BY <1>0, <2>0, <2>3, <2>5, <2>6 DEF FindInv
<1>2. ASSUME NEW n \in Nodes, NEW id \in Nodes, Yield(n, id)
      PROVE  FindInv' /\ seen' \in [Nodes -> SUBSET Nodes] /\ counts' \in [Topics -> [Nodes -> Nat]]
  <2>0. /\ UNCHANGED <<topicOf, registered, searcher>> /\ searcher[n] = "launched"
        /\ id \in registered /\ topicOf[id] = topicOf[n] /\ topicOf[n] \in Topics
        /\ seen' = [seen EXCEPT ![n] = @ \cup {id}]
        /\ counts' \in [Topics -> [Nodes -> Nat]]
        /\ \A t \in Topics, i \in Nodes :
             counts'[t][i] = IF id \notin seen[n] /\ t = topicOf[n] /\ i = id
                             THEN counts[t][i] + 1 ELSE counts[t][i]
    BY <1>2, YieldFacts
  <2>1. /\ seen' \in [Nodes -> SUBSET Nodes]
        /\ \A m \in Nodes : seen'[m] = IF m = n THEN seen[n] \cup {id} ELSE seen[m]
    BY <1>0, <2>0
  <2>2. \A m \in Nodes : \A i \in seen'[m] : i \in registered' /\ topicOf'[i] = topicOf'[m]
    BY <1>0, <2>0, <2>1 DEF FindInv
  <2>3. \A m \in Nodes : searcher'[m] = "none" => seen'[m] = {}
    BY <1>0, <2>0, <2>1 DEF FindInv
  <2>4. CASE id \in seen[n]
    <3>1. seen' = seen
      BY <1>0, <2>0, <2>1, <2>4
    <3>2. \A t \in Topics, i \in Nodes : counts'[t][i] = counts[t][i]
      BY <2>0, <2>4
    <3>3. \A t \in Topics, i \in Nodes :
            counts'[t][i] = Cardinality({r \in Nodes : topicOf'[r] = t /\ i \in seen'[r]})
      BY <1>0, <2>0, <3>1, <3>2 DEF FindInv
    <3> QED
      BY <2>0, <2>1, <2>2, <2>3, <3>3 DEF FindInv
  <2>5. CASE id \notin seen[n]
    <3>1. counts' \in [Topics -> [Nodes -> Nat]]
      BY <2>0
    <3>2. ASSUME NEW t \in Topics, NEW i \in Nodes
          PROVE  counts'[t][i] = Cardinality({r \in Nodes : topicOf'[r] = t /\ i \in seen'[r]})
      <4> DEFINE S == {r \in Nodes : topicOf[r] = t /\ i \in seen[r]}
                 T == {r \in Nodes : topicOf'[r] = t /\ i \in seen'[r]}
      <4>1. counts[t][i] = Cardinality(S) /\ IsFiniteSet(S)
        BY <1>0, Constants, FS_Subset DEF FindInv
      <4>2. CASE t = topicOf[n] /\ i = id
        <5>1. T = S \cup {n} /\ n \notin S
          BY <2>0, <2>1, <2>5, <4>2
        <5>2. Cardinality(S \cup {n}) = Cardinality(S) + 1
          BY <4>1, <5>1, FS_AddElement
        <5>3. counts'[t][i] = counts[t][i] + 1
          BY <1>0, <2>0, <2>5, <4>2
        <5> QED
          BY <4>1, <5>1, <5>2, <5>3
      <4>3. CASE ~ (t = topicOf[n] /\ i = id)
        <5>1. T = S
          BY <2>0, <2>1, <4>3
        <5>2. counts'[t][i] = counts[t][i]
          BY <1>0, <2>0, <2>5, <4>3
        <5> QED
          BY <4>1, <5>1, <5>2
      <4> QED
        BY <4>2, <4>3
    <3> QED
      BY <2>1, <2>2, <2>3, <3>1, <3>2 DEF FindInv
  <2> QED
    BY <2>4, <2>5
<1>3. CASE UNCHANGED <<topicOf, counts, seen, local>>
  <2>1. registered \subseteq registered'
    BY Writers DEF RegisterTopic
  <2>2. \A n \in Nodes : searcher'[n] = "none" => seen'[n] = {}
    BY <1>0, <1>3, LaunchedStays DEF FindInv
  <2> QED
    BY <1>0, <1>3, <2>1, <2>2 DEF FindInv
<1> QED
  BY <1>1, <1>2, <1>3, Writers

-----------------------------------------------------------------------------
(* Searchers *)

LEMMA SearchStep ==
  ASSUME PopInv, [Next]_vars
  PROVE  /\ SearchInv' /\ wg' \in Nat /\ results' \in SUBSET Nodes /\ done' \in SUBSET Nodes
         /\ searcher' \in [Nodes -> {"none", "launched", "merged", "done"}]
         /\ totals' \in [Topics -> Tally]
         /\ done' = done \/ done = {}
<1>0. /\ SearchInv /\ RoundInv /\ TypeOK
      /\ wg \in Nat /\ results \in SUBSET Nodes /\ done \in SUBSET Nodes
      /\ searcher \in [Nodes -> {"none", "launched", "merged", "done"}]
      /\ totals \in [Topics -> Tally] /\ local \in [Nodes -> Tally]
      /\ Upto({}) = Base + roundJoins
  BY UptoFacts DEF PopInv, TypeOK, MainTypes, SearchTypes
<1>1. IsFiniteSet(Running) /\ Cardinality(Running) \in Nat /\ Running \subseteq Nodes
  BY Constants, FS_Subset, FS_CardinalityType DEF Running
<1>2. Upto({})' = Upto({}) \/ (Launch /\ Upto({})' = Upto({}) + 1)
  BY <1>0, RoundStep DEF Frontiers
<1>4. CASE UNCHANGED <<wg, searcher, results, totals, done>> /\ ~ Launch
  <2>1. Upto({})' = Upto({})
    BY <1>2, <1>4
  <2>2. Running' = Running
    BY <1>4 DEF Running
  <2> QED
    BY <1>0, <1>4, <2>1, <2>2 DEF SearchInv, Part
<1>5. CASE Launch
  <2>1. /\ churn = "launch" /\ wg' = wg + 1 /\ UNCHANGED <<results, done, totals>>
        /\ searcher' = [searcher EXCEPT ![Joiner.idx] = "launched"]
        /\ roundJoins' = roundJoins + 1 /\ UNCHANGED <<specs, nextIdx>>
    BY <1>5 DEF Launch, state, dead
  <2>2. /\ Joiner.idx \in Nodes /\ Joiner.idx = Base + roundJoins
        /\ Base \in Nat /\ roundJoins \in Nat
    BY <1>0, <2>1, RoundFacts DEF TypeOK, Admitting
  <2>3. Upto({})' = Joiner.idx + 1
    <3>1. Base' = Base
      BY <2>1 DEF Base
    <3> QED
      BY <2>1, <2>2, <3>1 DEF Upto
  <2>4. Part(Joiner.idx + 1) = Part(Joiner.idx) \cup {Joiner.idx} /\ Joiner.idx \notin Part(Joiner.idx)
    BY <1>0, <2>2, UptoFacts, Constants, PartFacts
  <2>5. searcher[Joiner.idx] = "none"
    BY <1>0, <2>2, <2>4 DEF SearchInv
  <2>6. /\ searcher' \in [Nodes -> {"none", "launched", "merged", "done"}]
        /\ \A n \in Nodes : searcher'[n] = IF n = Joiner.idx THEN "launched" ELSE searcher[n]
    BY <1>0, <2>1, <2>2
  <2>7. Running' = Running \cup {Joiner.idx} /\ Joiner.idx \notin Running
    BY <2>2, <2>5, <2>6 DEF Running
  <2>8. Cardinality(Running \cup {Joiner.idx}) = Cardinality(Running) + 1
    BY <1>1, <2>7, FS_AddElement
  <2>9. wg' = Cardinality(Running') /\ wg' \in Nat
    BY <1>0, <2>1, <2>7, <2>8 DEF SearchInv
  <2>10. results' = {n \in Nodes : searcher'[n] = "done"}
    BY <1>0, <2>1, <2>5, <2>6 DEF SearchInv
  <2>11. \A n \in Nodes : searcher'[n] # "none" <=> n \in Part(Upto({})')
    BY <1>0, <2>2, <2>3, <2>4, <2>6 DEF SearchInv
  <2> QED
    BY <1>0, <2>1, <2>6, <2>9, <2>10, <2>11 DEF SearchInv, Part
<1>6. ASSUME NEW n \in Nodes, EndSearch(n)
      PROVE  /\ SearchInv' /\ UNCHANGED <<wg, results, done>> /\ totals' \in [Topics -> Tally]
             /\ searcher' \in [Nodes -> {"none", "launched", "merged", "done"}]
  <2>1. /\ searcher[n] = "launched" /\ searcher' = [searcher EXCEPT ![n] = "merged"]
        /\ UNCHANGED <<wg, results, done, round, nextIdx>>
        /\ totals' = [totals EXCEPT ![topicOf[n]] = Merge(@, local[n])]
    BY <1>6 DEF EndSearch, state
  <2>2. Upto({})' = Upto({})
    BY <2>1 DEF Upto, Base, round
  <2>3. /\ searcher' \in [Nodes -> {"none", "launched", "merged", "done"}]
        /\ \A m \in Nodes : searcher'[m] = IF m = n THEN "merged" ELSE searcher[m]
    BY <1>0, <2>1
  <2>4. Running' = Running
    BY <2>1, <2>3 DEF Running
  <2>5. topicOf[n] \in Topics
    BY <2>1, LaunchedHasTopic
  <2>6. totals' \in [Topics -> Tally]
    <3>1. Merge(totals[topicOf[n]], local[n]) \in Tally
      BY <1>0, <2>5 DEF Merge, Tally
    <3> QED
      BY <1>0, <2>1, <2>5, <3>1
  <2>7. results' = {m \in Nodes : searcher'[m] = "done"}
    BY <1>0, <2>1, <2>3 DEF SearchInv
  <2>8. \A m \in Nodes : searcher'[m] # "none" <=> m \in Part(Upto({}))
    BY <1>0, <2>1, <2>3 DEF SearchInv
  <2> QED
    BY <1>0, <2>1, <2>2, <2>3, <2>4, <2>6, <2>7, <2>8 DEF SearchInv, Part
<1>7. ASSUME NEW n \in Nodes, AppendResult(n)
      PROVE  /\ SearchInv' /\ wg' \in Nat /\ results' \in SUBSET Nodes /\ done' \in SUBSET Nodes
             /\ UNCHANGED totals /\ (done' = done \/ done = {})
             /\ searcher' \in [Nodes -> {"none", "launched", "merged", "done"}]
  <2>1. /\ searcher[n] = "merged" /\ searcher' = [searcher EXCEPT ![n] = "done"]
        /\ results' = results \cup {n} /\ wg' = wg - 1
        /\ done' = (IF done = {} /\ wg = 1 THEN Launched ELSE done)
        /\ UNCHANGED <<round, nextIdx, totals>>
    BY <1>7 DEF AppendResult, state, dead
  <2>2. Upto({})' = Upto({})
    BY <2>1 DEF Upto, Base, round
  <2>3. /\ searcher' \in [Nodes -> {"none", "launched", "merged", "done"}]
        /\ \A m \in Nodes : searcher'[m] = IF m = n THEN "done" ELSE searcher[m]
    BY <1>0, <2>1
  <2>4. Running' = Running \ {n} /\ n \in Running
    BY <2>1, <2>3 DEF Running
  <2>5. Cardinality(Running \ {n}) = Cardinality(Running) - 1 /\ IsFiniteSet(Running \ {n})
    BY <1>1, <2>4, FS_RemoveElement
  <2>6. Cardinality(Running \ {n}) \in Nat
    BY <2>5, FS_CardinalityType
  <2>7. wg' = Cardinality(Running') /\ wg' \in Nat
    BY <1>0, <1>1, <2>1, <2>4, <2>5, <2>6 DEF SearchInv
  <2>8. results' = {m \in Nodes : searcher'[m] = "done"}
    BY <1>0, <2>1, <2>3 DEF SearchInv
  <2>9. \A m \in Nodes : searcher'[m] # "none" <=> m \in Part(Upto({}))
    BY <1>0, <2>1, <2>3 DEF SearchInv
  <2>10. done' \subseteq results'
    <3>1. CASE done = {} /\ wg = 1
      <4>1. Running \ {n} = {}
        BY <1>0, <1>1, <2>5, <3>1, FS_EmptySet DEF SearchInv
      <4>2. \A m \in Nodes : m # n => searcher[m] \in {"none", "done"}
        BY <1>0, <4>1 DEF Running
      <4> QED
        BY <2>1, <2>3, <2>8, <3>1, <4>2 DEF Launched
    <3>2. CASE ~ (done = {} /\ wg = 1)
      BY <1>0, <2>1, <3>2 DEF SearchInv
    <3> QED
      BY <3>1, <3>2
  <2>11. results' \in SUBSET Nodes /\ done' \in SUBSET Nodes /\ (done' = done \/ done = {})
    BY <1>0, <2>1, <2>10
  <2> QED
    BY <2>1, <2>2, <2>3, <2>7, <2>8, <2>9, <2>10, <2>11 DEF SearchInv, Part
<1> QED
  BY <1>0, <1>4, <1>5, <1>6, <1>7, Writers

-----------------------------------------------------------------------------
(* Types *)

LEMMA ChurnTypesStep ==
  ASSUME PopInv, [Next]_vars
  PROVE  ChurnTypes' /\ nextIdx' \in Initial..MaxNodes
<1> USE DEF state, stats, dead, searches, round, time
<1>0. /\ TypeOK /\ RoundInv /\ ChurnTypes /\ StateTypes /\ nextIdx \in Initial..MaxNodes
      /\ setup \in Setups
  BY DEF PopInv, TypeOK, StateTypes, MainTypes
<1>1. CASE UNCHANGED <<churn, round, joins, nextIdx, offline>>
  BY <1>0, <1>1 DEF ChurnTypes
<1>2. CASE ChurnStops \/ BeginAdmission \/ EndRound
  <2>1. /\ churn' \in {"select", "end", "exited", "member"} /\ joins' \in Nat
        /\ UNCHANGED <<round, nextIdx, offline>>
    BY <1>0, <1>2 DEF ChurnStops, BeginAdmission, EndRound, ChurnTypes
  <2> QED
    BY <1>0, <2>1 DEF ChurnTypes, Admitting
<1>3. CASE BeginRound
  <2>1. PICK j \in 0..PerRound : wantJoins' = j /\ wantLeaves' = PerRound - j
    BY <1>3, Constants DEF BeginRound
  <2>2. wantJoins' \in Nat /\ wantLeaves' \in Nat
    BY <2>1, Constants
  <2>3. specs' \in Seq(JoinSpec) /\ spawned' \in SUBSET Nat
    <3>1. <<>> \in Seq(JoinSpec)
      OBVIOUS
    <3> QED
      BY <1>3, <3>1 DEF BeginRound
  <2>4. /\ churn' = "leave" /\ exhausted' = FALSE /\ roundJoins' = 0
        /\ UNCHANGED <<leaver, offline, joins, nextIdx>>
    BY <1>3 DEF BeginRound
  <2> QED
    BY <1>0, <2>2, <2>3, <2>4 DEF ChurnTypes
<1>4. CASE LeaveRandom
  <2>1. /\ churn' = "mark" /\ leaver' \in Nodes
        /\ UNCHANGED <<offline, wantLeaves, wantJoins, specs, spawned, exhausted, roundJoins, joins, nextIdx>>
    BY <1>0, <1>4, CandidateFacts DEF LeaveRandom, StateTypes
  <2> QED
    BY <1>0, <2>1 DEF ChurnTypes
<1>5. CASE MarkOffline
  <2>1. /\ churn = "mark" /\ churn' = "leave" /\ leaver' = None /\ offline' = offline \cup {leaver}
        /\ wantLeaves' = wantLeaves - 1
        /\ UNCHANGED <<wantJoins, specs, spawned, exhausted, roundJoins, joins, nextIdx>>
    BY <1>5 DEF MarkOffline
  <2>2. wantLeaves \in Nat /\ wantLeaves > 0
    BY <1>0, <2>1 DEF ChurnTypes, RoundInv
  <2>3. wantLeaves' \in Nat
    BY <2>1, <2>2
  <2> QED
    BY <1>0, <2>1, <2>3 DEF ChurnTypes
<1>6. CASE NobodyLeaves
  <2>1. /\ wantLeaves' \in Nat /\ exhausted' \in BOOLEAN
        /\ UNCHANGED <<churn, leaver, offline, wantJoins, specs, spawned, roundJoins, joins, nextIdx>>
    BY <1>0, <1>6 DEF NobodyLeaves, ChurnTypes
  <2> QED
    BY <1>0, <2>1 DEF ChurnTypes
<1>7. CASE PlanJoin
  <2>1. nextIdx \in Nodes /\ nextIdx + 1 \in Initial..MaxNodes
    <3>1. /\ nextIdx + wantJoins - Len(specs) <= MaxNodes /\ Len(specs) < wantJoins
          /\ Len(specs) \in Nat /\ wantJoins \in Nat
      BY <1>0, <1>7 DEF PlanJoin, RoundInv, ChurnTypes
    <3> QED
      BY <1>0, <3>1, Constants DEF Nodes
  <2>2. AliveSample \in SUBSET Nodes
    BY <1>0 DEF AliveSample, StateTypes
  <2>3. PICK t \in Topics : specs' = Append(specs, [idx |-> nextIdx, topic |-> t, boot |-> AliveSample])
    BY <1>7 DEF PlanJoin
  <2>4. specs' \in Seq(JoinSpec)
    <3>1. [idx |-> nextIdx, topic |-> t, boot |-> AliveSample] \in JoinSpec
      BY <2>1, <2>2 DEF JoinSpec
    <3> QED
      BY <1>0, <2>3, <3>1 DEF ChurnTypes
  <2>5. /\ nextIdx' = nextIdx + 1
        /\ UNCHANGED <<churn, leaver, offline, wantLeaves, wantJoins, spawned, exhausted, roundJoins, joins>>
    BY <1>7 DEF PlanJoin
  <2> QED
    BY <1>0, <2>1, <2>4, <2>5 DEF ChurnTypes
<1>8. ASSUME NEW c \in 1..PerRound, SpawnNode(c)
      PROVE  ChurnTypes' /\ nextIdx' \in Initial..MaxNodes
  BY <1>0, <1>8, Constants DEF SpawnNode, ChurnTypes
<1>9. CASE AddMember \/ AddAssigned \/ JoinAlive \/ RegisterTopic
  BY <1>0, <1>9 DEF AddMember, AddAssigned, JoinAlive, RegisterTopic, ChurnTypes, Admitting
<1>10. CASE Launch
  BY <1>0, <1>10 DEF Launch, ChurnTypes, Admitting
<1> QED
  BY <1>1, <1>2, <1>3, <1>4, <1>5, <1>6, <1>7, <1>8, <1>9, <1>10, Writers DEF ChurnStep

LEMMA TypeStep ==
  ASSUME PopInv, [Next]_vars
  PROVE  TypeOK'
<1>1. ChurnTypes' /\ nextIdx' \in Initial..MaxNodes
  BY ChurnTypesStep
<1>2. StateTypes'
  BY <1>1, PopulationStep, MemberStep, FindStep DEF StateTypes
<1>3. local' \in [Nodes -> Tally]
  <2>1. ASSUME NEW n \in Nodes, NEW id \in Nodes, Yield(n, id) PROVE local' \in [Nodes -> Tally]
    BY <2>1, YieldFacts
  <2> QED
    BY <2>1, Writers DEF PopInv, TypeOK, SearchTypes
<1>4. SearchTypes' /\ done' \in SUBSET Nodes
  BY <1>3, FindStep, SearchStep DEF SearchTypes
<1>5. main' \in {"wait", "stopping", "ended"}
  BY Writers DEF PopInv, TypeOK, MainTypes, WaitReturns, Report
<1>6. clock' \in Nat /\ tick' \in BOOLEAN
  <2>0. clock \in Nat /\ tick \in BOOLEAN
    BY DEF PopInv, TypeOK, MainTypes
  <2>1. CASE Tick
    BY <2>0, <2>1 DEF Tick
  <2>2. CASE WaitReturns \/ Report \/ UNCHANGED vars
    BY <2>0, <2>2 DEF WaitReturns, Report, vars, time
  <2>3. ASSUME NEW n \in Nodes, EndSearch(n) \/ AppendResult(n) \/ \E id \in Nodes : Yield(n, id)
        PROVE  UNCHANGED <<clock, tick>>
    BY <2>3 DEF EndSearch, AppendResult, Yield, time
  <2>4. CASE ChurnStep
    BY <2>0, <2>4 DEF ChurnStep, ChurnStops, BeginRound, LeaveRandom, MarkOffline, NobodyLeaves,
       PlanJoin, SpawnNode, BeginAdmission, AddMember, AddAssigned, JoinAlive, RegisterTopic, Launch,
       EndRound, time
  <2> QED
    BY <2>0, <2>1, <2>2, <2>3, <2>4 DEF Next
<1>7. setup' \in Setups
  BY Writers DEF PopInv, TypeOK, MainTypes
<1> QED
  BY <1>1, <1>2, <1>4, <1>5, <1>6, <1>7 DEF TypeOK, MainTypes

-----------------------------------------------------------------------------
(* The report *)

\* Once the churn goroutine has exited the population is what it is.
LEMMA ExitedStays ==
  ASSUME [Next]_vars, churn = "exited"
  PROVE  churn' = "exited" /\ UNCHANGED <<all, alive, killed, joins>>
<1>1. ~ ChurnStep
  BY DEF ChurnStep, ChurnStops, BeginRound, LeaveRandom, MarkOffline, NobodyLeaves,
     PlanJoin, SpawnNode, BeginAdmission, AddMember, AddAssigned, JoinAlive, RegisterTopic, Launch,
     EndRound
<1> QED
  BY <1>1, Writers DEF ChurnStep

LEMMA ReportStep ==
  ASSUME PopInv, [Next]_vars
  PROVE  ReportInv'
<1>0. ReportInv /\ done \subseteq results /\ results \in SUBSET Nodes
  BY DEF PopInv, TypeOK, SearchTypes, SearchInv
<1>1. done' = done \/ done = {}
  BY SearchStep
<1>2. CASE WaitReturns
  <2>1. /\ main = "wait" /\ main' = "stopping" /\ UNCHANGED <<done, results>>
    BY <1>2 DEF WaitReturns, searches
  <2>2. \/ done # {} /\ report' = [partial |-> FALSE, results |-> results]
        \/ report' = [partial |-> TRUE, results |-> results]
    BY <1>2 DEF WaitReturns
  <2>3. CASE done # {} /\ report' = [partial |-> FALSE, results |-> results]
    BY <1>0, <2>1, <2>3 DEF ReportInv
  <2>4. CASE report' = [partial |-> TRUE, results |-> results]
    BY <1>0, <2>1, <2>4 DEF ReportInv
  <2> QED
    BY <2>2, <2>3, <2>4
<1>3. CASE Report
  <2>1. /\ main = "stopping" /\ main' = "ended" /\ churn = "exited" /\ report' = Summary
        /\ UNCHANGED <<churn, done, all, alive, killed, joins>>
    BY <1>3 DEF Report, state
  <2>2. /\ report'.partial = report.partial /\ report'.results = report.results
        /\ report'.nodes = Counts /\ report'.joins = joins
    BY <2>1 DEF Summary
  <2>3. Counts' = Counts
    BY <2>1 DEF Counts
  <2> QED
    BY <1>0, <2>1, <2>2, <2>3 DEF ReportInv
<1>4. CASE UNCHANGED <<main, report>>
  <2>1. main = "ended" => churn' = "exited" /\ UNCHANGED <<all, alive, killed, joins>>
    BY <1>0, ExitedStays DEF ReportInv
  <2>2. main = "ended" => Counts' = Counts
    BY <2>1 DEF Counts
  <2>3. main # "wait" /\ ~ report.partial => done' = done
    BY <1>0, <1>1 DEF ReportInv
  <2> QED
    BY <1>0, <1>4, <2>1, <2>2, <2>3 DEF ReportInv
<1> QED
  BY <1>2, <1>3, <1>4, Writers

-----------------------------------------------------------------------------
(* The first state *)

\* The founders listed in order are each listed once.
LEMMA FoundersListed ==
  ASSUME NewChurnState
  PROVE  /\ alive \in Seq(Nodes) /\ Len(alive) = Cardinality(Founders) /\ ToSet(alive) = Founders
         /\ \A i, j \in DOMAIN alive : alive[i] = alive[j] => i = j
<1>1. /\ alive \in [1..Cardinality(Founders) -> Founders] /\ ToSet(alive) = Founders
      /\ \A i, j \in DOMAIN alive : i < j => alive[i] < alive[j]
  BY DEF NewChurnState
<1>2. Cardinality(Founders) \in Nat /\ Founders \in SUBSET Nodes
  BY Constants
<1>3. alive \in Seq(Nodes) /\ Len(alive) = Cardinality(Founders)
  <2>1. alive \in [1..Cardinality(Founders) -> Nodes]
    BY <1>1, <1>2
  <2> QED
    BY <1>2, <2>1
<1>4. ASSUME NEW i \in DOMAIN alive, NEW j \in DOMAIN alive, alive[i] = alive[j]
      PROVE  i = j
  <2>1. i \in Int /\ j \in Int /\ alive[i] \in Int /\ alive[j] \in Int
    <3>1. i \in 1..Cardinality(Founders) /\ j \in 1..Cardinality(Founders)
      BY <1>1, <1>4
    <3>2. alive[i] \in Nodes /\ alive[j] \in Nodes
      BY <1>1, <1>2, <3>1
    <3>3. Nodes \subseteq Int
      BY Constants DEF Nodes
    <3>4. i \in Int /\ j \in Int
      BY <3>1
    <3>5. alive[i] \in Int /\ alive[j] \in Int
      BY ONLY <3>2, <3>3
    <3> QED
      BY <3>4, <3>5
  <2>2. ~ (i < j) /\ ~ (j < i)
    <3>1. i < j => alive[i] < alive[j]
      BY <1>1
    <3>2. j < i => alive[j] < alive[i]
      BY <1>1
    <3> QED
      BY <1>4, <2>1, <3>1, <3>2
  <2> QED
    BY <2>1, <2>2
<1> QED
  BY <1>1, <1>3, <1>4

LEMMA PopInit == Init => PopInv
<1> SUFFICES ASSUME Init PROVE PopInv
  OBVIOUS
<1> USE DEF Init
<1>1. /\ alive \in Seq(Nodes) /\ Len(alive) = Cardinality(Founders) /\ ToSet(alive) = Founders
      /\ \A i, j \in DOMAIN alive : alive[i] = alive[j] => i = j
  BY FoundersListed
<1>2. all = [i \in 1..Initial |-> i - 1] /\ killed = {} /\ nextIdx = Initial
  BY DEF NewChurnState
<1>3. all \in Seq(Nodes) /\ Len(all) = Initial
  <2>1. all \in [1..Initial -> Nodes]
    BY <1>2, Constants DEF Nodes
  <2> QED
    BY <2>1, Constants
<1>4. Cardinality({}) = 0 /\ <<>> \in Seq(JoinSpec) /\ Len(specs) = 0
  BY FS_EmptySet
<1>5. Base = Initial /\ \A p : churn \notin p => Upto(p) = Initial
  BY <1>2, <1>4, Constants DEF Base, Upto
<1>6. /\ Upto(InTopic) = Initial /\ Upto(Counted) = Initial /\ Upto(Present) = Initial
      /\ Upto({"launch"}) = Initial /\ Upto({}) = Initial
  BY <1>5 DEF InTopic, Counted, Present
<1>7. Part(Initial) = Founders
  BY Constants DEF Part
<1>8. topicOf \in [Nodes -> Topics \cup {None}] /\ \A n \in Nodes : topicOf[n] # None <=> n \in Founders
  OBVIOUS
<1>9. ASSUME NEW t \in Topics
      PROVE  /\ assigned[t] = Cardinality({n \in Founders : topicOf[n] = t})
             /\ Cardinality({n \in Nodes : topicOf[n] = t}) \in Nat
  <2>1. {n \in Nodes : topicOf[n] = t} = {n \in Founders : topicOf[n] = t}
    BY <1>8, Constants
  <2>2. IsFiniteSet({n \in Nodes : topicOf[n] = t})
    BY Constants, FS_Subset
  <2> QED
    BY <2>1, <2>2, FS_CardinalityType DEF NewLiveStats, Members
<1>10. StateTypes
  <2>1. /\ assigned \in [Topics -> Nat] /\ counts \in [Topics -> [Nodes -> Nat]]
    BY <1>9 DEF NewLiveStats, Members
  <2> QED
    BY <1>1, <1>2, <1>3, <1>8, <2>1, Constants DEF StateTypes
<1>11. SearchTypes
  BY Constants DEF SearchTypes, Tally, NoneDead
<1>12. ChurnTypes
  BY <1>4 DEF ChurnTypes, Admitting
<1>13. MainTypes
  BY DEF MainTypes
<1>14. RoundInv
  BY <1>2, <1>4, <1>5, Constants DEF RoundInv, Admitting
<1>15. PopulationInv
  BY <1>1, <1>2, <1>3, <1>4, <1>6, <1>7, Constants DEF PopulationInv
<1>16. MemberInv
  BY <1>6, <1>7, <1>8, <1>9 DEF MemberInv
<1>17. FindInv
  <2>1. ASSUME NEW t \in Topics, NEW id \in Nodes
        PROVE  counts[t][id] = Cardinality({r \in Nodes : topicOf[r] = t /\ id \in seen[r]})
    <3>1. {r \in Nodes : topicOf[r] = t /\ id \in seen[r]} = {}
      OBVIOUS
    <3> QED
      BY <1>4, <3>1 DEF NewLiveStats
  <2> QED
    BY <2>1 DEF FindInv
<1>18. SearchInv
  <2>1. Running = Founders
    BY Constants DEF Running
  <2> QED
    BY <1>6, <1>7, <2>1, Constants DEF SearchInv
<1>19. ReportInv
  BY DEF ReportInv
<1> QED
  BY <1>10, <1>11, <1>12, <1>13, <1>14, <1>15, <1>16, <1>17, <1>18, <1>19 DEF PopInv, TypeOK

-----------------------------------------------------------------------------
(* Results *)

\* The invariant the other results rest on: the frontier up to which joiners have
\* been admitted to each structure, and what each structure holds up to it.
THEOREM PopInvariant == Spec => []PopInv
<1>1. PopInv /\ [Next]_vars => PopInv'
  <2> SUFFICES ASSUME PopInv, [Next]_vars PROVE PopInv'
    OBVIOUS
  <2>1. RoundInv'
    BY RoundStep DEF PopInv
  <2> QED
    BY <2>1, TypeStep, PopulationStep, MemberStep, FindStep, SearchStep, ReportStep DEF PopInv
<1> QED
  BY PopInit, <1>1, PTL DEF Spec

\* Every variable of the search phase keeps its type: the registrant a count is
\* kept for, the node a searcher runs for and the joiner being admitted exist.
THEOREM PopulationTypes == Spec => []TypeOK
<1>1. PopInv => TypeOK
  BY DEF PopInv
<1> QED
  BY PopInvariant, <1>1, PTL

\* churnState implements Population: leaveRandom's swap removal takes exactly the
\* node it drew and never the bootnode, and join adds a node that never took part.
THEOREM ChurnImplementsPopulation == Spec => PopulationSpec
<1>1. Init => Bounded!PopulationInit
  <2> SUFFICES ASSUME Init PROVE ToSet(alive) = Founders /\ killed = {}
    BY DEF Bounded!PopulationInit
  <2> QED
    BY FoundersListed DEF Init, NewChurnState
<1>2. ASSUME PopInv, [Next]_vars
      PROVE  Bounded!Leave \/ Bounded!Join \/ UNCHANGED <<ToSet(alive), killed>>
  <2>0. /\ alive \in Seq(Nodes)
        /\ \A i, j \in DOMAIN alive : alive[i] = alive[j] => i = j
    BY <1>2 DEF PopInv, TypeOK, StateTypes, PopulationInv
  <2>1. CASE LeaveRandom
    <3>1. PICK i \in Candidates : SwapRemove(i) /\ killed' = killed \cup {alive[i]}
      BY <2>1 DEF LeaveRandom
    <3>2. i \in DOMAIN alive /\ alive[i] # Bootnode /\ alive[i] \in ToSet(alive)
      BY <2>0, <3>1, CandidateFacts DEF ToSet
    <3>3. ToSet(alive') = ToSet(alive) \ {alive[i]}
      BY <2>0, <3>1, <3>2, SwapFacts
    <3> QED
      BY <3>1, <3>2, <3>3 DEF Bounded!Leave
  <2>2. CASE JoinAlive
    <3>1. churn = "join" /\ alive' = Append(alive, Joiner.idx) /\ killed' = killed
      BY <2>2 DEF JoinAlive
    <3>2. /\ Joiner.idx \in Nodes /\ Joiner.idx = Base + roundJoins
          /\ Base \in Nat /\ roundJoins \in Nat
      BY <1>2, <3>1, RoundFacts DEF PopInv, TypeOK, Admitting
    <3>3. Upto(Present) = Joiner.idx /\ Joiner.idx \in Nat
      BY <3>1, <3>2 DEF Upto, Present
    <3>4. Joiner.idx \notin ToSet(alive) \cup killed
      <4>1. Initial <= Upto(Present) /\ Upto(Present) <= MaxNodes
        BY <1>2, UptoFacts, Constants DEF PopInv
      <4>2. Joiner.idx \notin Part(Joiner.idx)
        BY <3>3, <4>1, PartFacts
      <4> QED
        BY <1>2, <3>3, <4>2 DEF PopInv, PopulationInv
    <3>5. ToSet(alive') = ToSet(alive) \cup {Joiner.idx}
      BY <2>0, <3>1, <3>2, <3>4, JoinFacts
    <3> QED
      BY <3>1, <3>3, <3>4, <3>5 DEF Bounded!Join
  <2> QED
    BY <1>2, <2>1, <2>2, Writers
<1>3. PopInv /\ [Next]_vars => [Bounded!Leave \/ Bounded!Join]_(Bounded!population)
  BY <1>2 DEF Bounded!population
<1> QED
  BY PopInvariant, <1>1, <1>3, PTL DEF Spec, PopulationSpec, Bounded!PopulationSpec

\* A checkpoint never counts more registrants found than were assigned: a joiner is
\* in its topic and assigned before registerTopic, and discovery returns only what
\* has registered.
THEOREM CheckpointsNeverNegative == Spec => []FoundWithinAssigned
<1>1. PopInv => FoundWithinAssigned
  <2> SUFFICES ASSUME PopInv, NEW t \in Topics PROVE NeverFound(t) >= 0
    BY DEF FoundWithinAssigned
  <2> DEFINE F == {n \in Nodes : counts[t][n] > 0}
             A == {n \in Part(Upto(Counted)) : topicOf[n] = t}
  <2>1. /\ Part(Upto(Counted)) \in SUBSET Nodes /\ IsFiniteSet(Part(Upto(Counted)))
        /\ Part(Upto({"launch"})) \subseteq Part(Upto(Counted))
    <3>1. /\ Upto(Counted) \in Nat /\ Upto({"launch"}) \in Nat /\ Initial <= Upto(Counted)
          /\ Upto(Counted) <= MaxNodes /\ Upto({"launch"}) <= Upto(Counted)
      BY UptoFacts, Constants DEF PopInv
    <3> QED
      BY <3>1, PartFacts
  <2>2. ASSUME NEW n \in F PROVE n \in A
    <3>1. counts[t][n] = Cardinality({r \in Nodes : topicOf[r] = t /\ n \in seen[r]})
      BY DEF PopInv, FindInv
    <3>2. {r \in Nodes : topicOf[r] = t /\ n \in seen[r]} # {}
      <4>1. counts[t][n] > 0
        BY <2>2
      <4>2. Cardinality({}) = 0
        BY FS_EmptySet
      <4> QED
        BY <3>1, <4>1, <4>2
    <3>3. PICK r \in Nodes : topicOf[r] = t /\ n \in seen[r]
      BY <3>2
    <3>4. n \in registered /\ topicOf[n] = t
      BY <3>3 DEF PopInv, FindInv
    <3> QED
      BY <2>1, <3>4 DEF PopInv, MemberInv
  <2>3. IsFiniteSet(A)
    BY <2>1, FS_Subset
  <2>4. IsFiniteSet(F) /\ Cardinality(F) <= Cardinality(A)
    BY <2>2, <2>3, FS_Subset
  <2>5. assigned[t] = Cardinality(A)
    BY DEF PopInv, MemberInv
  <2>6. Cardinality(A) \in Nat /\ Cardinality(F) \in Nat
    BY <2>3, <2>4, FS_CardinalityType
  <2> HIDE DEF A, F
  <2>7. Cardinality(A) - Cardinality(F) >= 0
    BY <2>4, <2>6
  <2>8. NeverFound(t) = Cardinality(A) - Cardinality(F)
    BY <2>5 DEF NeverFound, F
  <2> QED
    BY <2>7, <2>8
<1> QED
  BY PopInvariant, <1>1, PTL

\* Unless the hard limit cut it short, searchManager.wait returned the result of
\* every searcher launched by the time the last of them ended.
THEOREM WaitReturnsAll == Spec => []ResultsComplete
<1>1. PopInv => ResultsComplete
  BY DEF PopInv, ReportInv, ResultsComplete
<1> QED
  BY PopInvariant, <1>1, PTL

-----------------------------------------------------------------------------
(* The totals of dead results *)

\* What the searchers of topic t have merged into its totals.
Merged(t) == [n \in Nodes |-> IF searcher[n] \in {"merged", "done"} /\ topicOf[n] = t
                              THEN local[n].returned ELSE 0]

TopicTotals == \A t \in Topics : totals[t].returned = SumFunctionOnSet(Merged(t), Nodes)

\* What is reported was merged, and stays what it was.
ReportTotals ==
  /\ main # "wait" => report.results \subseteq results
  /\ main = "ended" => TotalsReported

TotalInv == TopicTotals /\ ReportTotals

LEMMA MergedFacts ==
  ASSUME PopInv, NEW t
  PROVE  /\ \A n \in Nodes : Merged(t)[n] \in Nat /\ Returned[n] \in Nat
         /\ IsFiniteSet(Nodes) /\ SumFunctionOnSet(Merged(t), Nodes) \in Nat
<1>1. \A n \in Nodes : local[n].returned \in Nat
  BY DEF PopInv, TypeOK, SearchTypes, Tally
<1>2. \A n \in Nodes : Merged(t)[n] \in Nat /\ Returned[n] \in Nat
  BY <1>1 DEF Merged, Returned
<1> QED
  BY <1>2, Constants, SumNat

\* Nothing is merged, and nobody who has merged changes.
LEMMA NothingMerged ==
  ASSUME PopInv, TopicTotals, totals' = totals,
         \A n \in Nodes :
           /\ searcher'[n] \in {"merged", "done"} <=> searcher[n] \in {"merged", "done"}
           /\ searcher[n] \in {"merged", "done"} => topicOf'[n] = topicOf[n] /\ local'[n] = local[n]
  PROVE  TopicTotals'
<1>1. \A t \in Topics : Merged(t)' = Merged(t)
  BY DEF Merged
<1> QED
  BY <1>1 DEF TopicTotals

LEMMA MergeStep ==
  ASSUME PopInv, TopicTotals, NEW n \in Nodes, EndSearch(n)
  PROVE  TopicTotals'
<1> SUFFICES ASSUME NEW t \in Topics
             PROVE  totals'[t].returned = SumFunctionOnSet(Merged(t), Nodes)'
  BY DEF TopicTotals
<1>1. /\ searcher[n] = "launched" /\ searcher' = [searcher EXCEPT ![n] = "merged"]
      /\ totals' = [totals EXCEPT ![topicOf[n]] = Merge(totals[topicOf[n]], local[n])]
      /\ topicOf' = topicOf /\ local' = local
  BY DEF EndSearch
<1>2. /\ searcher \in [Nodes -> {"none", "launched", "merged", "done"}]
      /\ totals \in [Topics -> Tally] /\ local[n] \in Tally /\ topicOf[n] \in Topics
      /\ local[n].returned \in Nat /\ totals[t].returned \in Nat
  BY <1>1, LaunchedHasTopic DEF PopInv, TypeOK, SearchTypes, Tally
<1>3. /\ totals[t].returned = SumFunctionOnSet(Merged(t), Nodes)
      /\ \A m \in Nodes : Merged(t)[m] \in Nat /\ IsFiniteSet(Nodes)
      /\ SumFunctionOnSet(Merged(t), Nodes) \in Nat
  BY MergedFacts DEF TopicTotals
<1>4. PICK u : u = Merged(t)'
  OBVIOUS
<1>5. /\ \A m \in Nodes : m # n => u[m] = Merged(t)[m]
      /\ Merged(t)[n] = 0
      /\ u[n] = (IF topicOf[n] = t THEN local[n].returned ELSE 0)
  BY <1>1, <1>2, <1>4 DEF Merged
<1>6. \A m \in Nodes : u[m] \in Nat
  BY <1>2, <1>3, <1>5
<1>7. SumFunctionOnSet(u, Nodes) = SumFunctionOnSet(Merged(t), Nodes) - Merged(t)[n] + u[n]
  BY <1>3, <1>5, <1>6, SumUpdate
<1>8. totals'[t].returned = (IF topicOf[n] = t THEN totals[t].returned + local[n].returned
                             ELSE totals[t].returned)
  <2>1. CASE topicOf[n] = t
    <3>1. totals'[t] = Merge(totals[t], local[n])
      BY <1>1, <1>2, <2>1
    <3> QED
      BY <2>1, <3>1 DEF Merge
  <2>2. CASE topicOf[n] # t
    BY <1>1, <1>2, <2>2
  <2> QED
    BY <2>1, <2>2
<1>9. SumFunctionOnSet(u, Nodes)
        = IF topicOf[n] = t THEN totals[t].returned + local[n].returned ELSE totals[t].returned
  BY <1>2, <1>3, <1>5, <1>7
<1> QED
  BY <1>4, <1>8, <1>9

\* The joiner being admitted has no searcher yet.
LEMMA JoinerUnlaunched ==
  ASSUME PopInv, churn \in Admitting
  PROVE  Joiner.idx \in Nodes /\ searcher[Joiner.idx] = "none"
<1>1. /\ Joiner.idx \in Nodes /\ Joiner.idx = Base + roundJoins
      /\ Base \in Nat /\ roundJoins \in Nat
  BY RoundFacts DEF PopInv, TypeOK, Admitting
<1>2. Upto({}) = Joiner.idx
  BY <1>1 DEF Upto
<1>3. Joiner.idx \notin Part(Joiner.idx)
  BY <1>2, UptoFacts, Constants, PartFacts DEF PopInv
<1> QED
  BY <1>1, <1>2, <1>3 DEF PopInv, SearchInv

LEMMA TopicTotalsStep ==
  ASSUME PopInv, TopicTotals, [Next]_vars
  PROVE  TopicTotals'
<1>1. /\ searcher \in [Nodes -> {"none", "launched", "merged", "done"}]
      /\ topicOf \in [Nodes -> Topics \cup {None}] /\ local \in [Nodes -> Tally]
  BY DEF PopInv, TypeOK, StateTypes, SearchTypes
<1>2. CASE \E n \in Nodes : EndSearch(n)
  BY <1>2, MergeStep
<1>3. CASE Launch
  <2>1. /\ churn = "launch" /\ searcher' = [searcher EXCEPT ![Joiner.idx] = "launched"]
        /\ UNCHANGED <<topicOf, totals, local>>
    BY <1>3 DEF Launch, dead
  <2>2. Joiner.idx \in Nodes /\ searcher[Joiner.idx] = "none"
    BY <2>1, JoinerUnlaunched DEF Admitting
  <2>3. \A n \in Nodes :
          searcher'[n] \in {"merged", "done"} <=> searcher[n] \in {"merged", "done"}
    BY <1>1, <2>1, <2>2
  <2> QED
    BY <2>1, <2>3, NothingMerged
<1>4. CASE \E n \in Nodes : AppendResult(n)
  <2>1. PICK n \in Nodes : AppendResult(n)
    BY <1>4
  <2>2. /\ searcher[n] = "merged" /\ searcher' = [searcher EXCEPT ![n] = "done"]
        /\ UNCHANGED <<topicOf, totals, local>>
    BY <2>1 DEF AppendResult, dead
  <2>3. \A m \in Nodes :
          searcher'[m] \in {"merged", "done"} <=> searcher[m] \in {"merged", "done"}
    BY <1>1, <2>2
  <2> QED
    BY <2>2, <2>3, NothingMerged
<1>5. CASE UNCHANGED <<searcher, totals>>
  <2>1. ASSUME NEW n \in Nodes, searcher[n] \in {"merged", "done"}
        PROVE  topicOf'[n] = topicOf[n] /\ local'[n] = local[n]
    <3>1. topicOf'[n] = topicOf[n]
      <4>1. CASE AddMember
        <5>1. Joiner.idx \in Nodes /\ searcher[Joiner.idx] = "none"
          BY <4>1, JoinerUnlaunched DEF AddMember, Admitting
        <5>2. topicOf' = [topicOf EXCEPT ![Joiner.idx] = Joiner.topic]
          BY <4>1 DEF AddMember
        <5> QED
          BY <1>1, <2>1, <5>1, <5>2
      <4> QED
        BY <4>1, Writers
    <3>2. local'[n] = local[n]
      <4>1. CASE \E m, id \in Nodes : Yield(m, id)
        <5>1. PICK m \in Nodes, id \in Nodes : Yield(m, id)
          BY <4>1
        <5>2. searcher[m] = "launched" /\ local' = [local EXCEPT ![m] = Record(local[m], id)]
          BY <5>1 DEF Yield
        <5> QED
          BY <1>1, <2>1, <5>2
      <4> QED
        BY <4>1, Writers
    <3> QED
      BY <3>1, <3>2
  <2> QED
    BY <1>5, <2>1, NothingMerged
<1> QED
  BY <1>2, <1>3, <1>4, <1>5, Writers

\* A searcher whose result is kept is done for good, with its topic and its count.
LEMMA DoneStays ==
  ASSUME PopInv, [Next]_vars, NEW n \in results
  PROVE  /\ n \in results' /\ topicOf'[n] = topicOf[n] /\ Returned'[n] = Returned[n]
<1>1. /\ n \in Nodes /\ searcher[n] = "done" /\ local \in [Nodes -> Tally]
      /\ topicOf \in [Nodes -> Topics \cup {None}]
  BY DEF PopInv, TypeOK, SearchTypes, SearchInv, StateTypes
<1>2. n \in results'
  <2>1. CASE Launch \/ UNCHANGED <<wg, searcher, results, totals, done>>
    BY <2>1 DEF Launch
  <2>2. CASE \E m \in Nodes : EndSearch(m) \/ AppendResult(m)
    BY <2>2 DEF EndSearch, AppendResult
  <2> QED
    BY <2>1, <2>2, Writers
<1>3. topicOf'[n] = topicOf[n]
  <2>1. CASE AddMember
    <3>4. Joiner.idx \in Nodes /\ searcher[Joiner.idx] = "none"
      BY <2>1, JoinerUnlaunched DEF AddMember, Admitting
    <3>5. topicOf' = [topicOf EXCEPT ![Joiner.idx] = Joiner.topic]
      BY <2>1 DEF AddMember
    <3> QED
      BY <1>1, <3>4, <3>5
  <2> QED
    BY <2>1, Writers
<1>4. local'[n] = local[n]
  <2>1. CASE \E m, id \in Nodes : Yield(m, id)
    <3>1. PICK m \in Nodes, id \in Nodes : Yield(m, id)
      BY <2>1
    <3>2. searcher[m] = "launched" /\ local' = [local EXCEPT ![m] = Record(local[m], id)]
      BY <3>1 DEF Yield
    <3> QED
      BY <1>1, <3>2
  <2> QED
    BY <2>1, Writers
<1>5. Returned'[n] = Returned[n]
  BY <1>1, <1>4 DEF Returned
<1> QED
  BY <1>2, <1>3, <1>5

LEMMA ReportTotalsStep ==
  ASSUME PopInv, PopInv', TotalInv, [Next]_vars
  PROVE  ReportTotals'
<1>0. /\ main # "wait" => report.results \subseteq results
      /\ main = "ended" => TotalsReported
      /\ results \subseteq results' /\ results \in SUBSET Nodes
  <2>1. results \subseteq results'
    BY DoneStays
  <2> QED
    BY <2>1 DEF TotalInv, ReportTotals, PopInv, TypeOK, SearchTypes
<1>1. CASE WaitReturns
  <2>1. report'.results = results /\ results' = results /\ main' = "stopping"
    BY <1>1 DEF WaitReturns, searches
  <2> QED
    BY <2>1 DEF ReportTotals
<1>2. CASE Report
  <2>1. /\ main = "stopping" /\ main' = "ended" /\ report' = Summary
        /\ UNCHANGED <<searcher, local, results, topicOf, totals>>
    BY <1>2 DEF Report, searches, dead
  <2>2. /\ report'.results = report.results
        /\ \A t \in Topics : report'.returned[t] = totals[t].returned
    BY <2>1 DEF Summary
  <2>3. ASSUME NEW t \in Topics
        PROVE  SumFunctionOnSet(Returned, Reported(t)) <= totals[t].returned
    <3>1. Reported(t) \in SUBSET Nodes /\ IsFiniteSet(Reported(t))
      <4>1. Reported(t) \in SUBSET Nodes
        BY <1>0, <2>1 DEF Reported
      <4> QED
        BY <4>1, Constants, FS_Subset
    <3>2. \A r \in Reported(t) : Returned[r] = Merged(t)[r]
      BY <1>0, <2>1 DEF Reported, Returned, Merged, PopInv, SearchInv
    <3>3. SumFunctionOnSet(Returned, Reported(t)) = SumFunctionOnSet(Merged(t), Reported(t))
      BY <3>1, <3>2, SumEqual
    <3>4. SumFunctionOnSet(Merged(t), Reported(t)) <= SumFunctionOnSet(Merged(t), Nodes)
      BY <3>1, MergedFacts, SumSubset
    <3> QED
      BY <3>3, <3>4 DEF TotalInv, TopicTotals
  <2>4. Returned' = Returned /\ \A t \in Topics : Reported(t)' = Reported(t)
    BY <2>1, <2>2 DEF Returned, Reported
  <2>5. TotalsReported'
    BY <2>2, <2>3, <2>4 DEF TotalsReported
  <2> QED
    BY <1>0, <2>1, <2>2, <2>5 DEF ReportTotals
<1>3. CASE UNCHANGED <<main, report>>
  <2>1. main # "wait" => report'.results \subseteq results'
    BY <1>0, <1>3
  <2>2. ASSUME main = "ended", NEW t \in Topics
        PROVE  SumFunctionOnSet(Returned, Reported(t))' <= report.returned[t]
    <3>1. \A r \in report.results : topicOf'[r] = topicOf[r] /\ Returned'[r] = Returned[r]
      BY <1>0, <2>2, DoneStays
    <3>2. Reported(t)' = Reported(t)
      BY <1>3, <3>1 DEF Reported
    <3>3. Reported(t) \in SUBSET Nodes /\ IsFiniteSet(Reported(t))
      <4>1. Reported(t) \in SUBSET Nodes
        BY <1>0, <2>2 DEF Reported
      <4> QED
        BY <4>1, Constants, FS_Subset
    <3>4. PICK u : u = Returned'
      OBVIOUS
    <3>5. \A r \in Reported(t) : u[r] = Returned[r]
      BY <3>1, <3>4 DEF Reported
    <3>6. SumFunctionOnSet(u, Reported(t)) = SumFunctionOnSet(Returned, Reported(t))
      BY <3>3, <3>5, SumEqual
    <3>7. SumFunctionOnSet(Returned, Reported(t)) <= report.returned[t]
      BY <1>0, <2>2 DEF TotalsReported
    <3> QED
      BY <3>2, <3>4, <3>6, <3>7
  <2>3. main = "ended" => TotalsReported'
    BY <1>3, <2>2 DEF TotalsReported
  <2> QED
    BY <1>3, <2>1, <2>3 DEF ReportTotals
<1> QED
  BY <1>1, <1>2, <1>3, Writers

LEMMA TotalInvariant == Spec => []TotalInv
<1>1. Init => TotalInv
  <2> SUFFICES ASSUME Init PROVE TotalInv
    OBVIOUS
  <2>1. \A t \in Topics : SumFunctionOnSet(Merged(t), Nodes) = 0
    <3>1. \A t \in Topics : \A n \in Nodes : Merged(t)[n] = 0
      BY DEF Init, Merged
    <3> QED
      BY <3>1, Constants, SumZero
  <2> QED
    BY <2>1 DEF Init, TotalInv, TopicTotals, ReportTotals, NoneDead
<1>2. PopInv /\ PopInv' /\ TotalInv /\ [Next]_vars => TotalInv'
  BY TopicTotalsStep, ReportTotalsStep DEF TotalInv
<1> QED
  BY <1>1, <1>2, PopInvariant, PTL DEF Spec

\* The summary of the run: the reported population adds up with the joins reported,
\* and of a searcher whose result is reported neither a find is missing from the
\* live counts nor a result returned to it from the totals of its topic, though
\* other searchers may still be running.
THEOREM SummaryAddsUp == Spec => []ReportAddsUp
<1>1. PopInv /\ TotalInv => ReportAddsUp
  <2> SUFFICES ASSUME PopInv, TotalInv, main = "ended"
               PROVE  PopulationReported /\ FindsReported /\ TotalsReported
    BY DEF ReportAddsUp
  <2>1. /\ churn = "exited" /\ report.nodes = Counts /\ report.joins = joins
        /\ report.results \in SUBSET Nodes
    BY DEF PopInv, ReportInv
  <2>2. PopulationReported
    <3>1. /\ Len(alive) + Cardinality(killed) = Cardinality(Founders) + Upto(Present) - Initial
          /\ Len(all) = Upto(Present)
      BY DEF PopInv, PopulationInv
    <3>2. joins = nextIdx - Initial /\ roundJoins = Len(specs)
      BY <2>1 DEF PopInv, RoundInv
    <3>3. /\ Base = nextIdx - Len(specs) /\ Base \in Nat /\ Len(specs) \in Nat /\ nextIdx \in Nat
          /\ roundJoins \in Nat
      BY RoundFacts DEF PopInv, TypeOK
    <3>4. Upto(Present) = nextIdx
      BY <2>1, <3>2, <3>3 DEF Upto, Present
    <3>5. /\ Len(alive) + Cardinality(killed) = Cardinality(Founders) + joins
          /\ Len(all) = Initial + joins
      BY <3>1, <3>2, <3>3, <3>4, Constants
    <3>6. /\ report.nodes.alive = Len(alive) /\ report.nodes.killed = Cardinality(killed)
          /\ report.nodes.total = Len(all)
      BY <2>1 DEF Counts
    <3> QED
      BY <2>1, <3>5, <3>6 DEF PopulationReported
  <2>3. FindsReported
    <3> SUFFICES ASSUME NEW t \in Topics, NEW n \in Nodes
                 PROVE  Cardinality({r \in Reported(t) : n \in seen[r]}) <= counts[t][n]
      BY DEF FindsReported
    <3>1. counts[t][n] = Cardinality({r \in Nodes : topicOf[r] = t /\ n \in seen[r]})
      BY DEF PopInv, FindInv
    <3>2. {r \in Reported(t) : n \in seen[r]} \subseteq {r \in Nodes : topicOf[r] = t /\ n \in seen[r]}
      BY <2>1 DEF Reported
    <3>3. IsFiniteSet({r \in Nodes : topicOf[r] = t /\ n \in seen[r]})
      BY Constants, FS_Subset
    <3> QED
      BY <3>1, <3>2, <3>3, FS_Subset
  <2>4. TotalsReported
    BY DEF TotalInv, ReportTotals
  <2> QED
    BY <2>2, <2>3, <2>4
<1> QED
  BY PopInvariant, TotalInvariant, <1>1, PTL
=============================================================================

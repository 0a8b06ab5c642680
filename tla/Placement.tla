----------------------------- MODULE Placement -----------------------------
(***************************************************************************)
(* Where a cloud run puts its nodes: the addresses drawn from the crawl    *)
(* model (pkg/addr, DrawPrefix of pkg/churn), and place, placeByPrefix and *)
(* prefixRoutes of pkg/coordinator/cloud.go, one step per address, group   *)
(* or node.                                                                *)
(*                                                                         *)
(* Random draws and the order of Go's maps are choices.  A /24 is a number *)
(* and a node's address is its /24 and its last octet.  Topics are numbers *)
(* from 0, as in the code.                                                 *)
(***************************************************************************)
EXTENDS Integers, Sequences, FiniteSets, FiniteSetsExt

CONSTANTS
  NumNodes,     \* nodes are 0 .. NumNodes - 1
  Crawled,      \* the /24s of each topic of the crawl model, largest topic first
  AllCrawled,   \* the /24s of the whole crawl
  RunTopics,    \* topics of the run
  Common,       \* values of population.common_topic
  Octets,       \* host addresses of a /24 (254 in the code)
  Tries,        \* draws per node (64 in the code)
  Inventories,  \* the hosts a run may have: sequences of [slots, region]
  PinSets,      \* node_regions: functions from some nodes to regions
  Home          \* cloud.home_region

ASSUME PlacementAssumption ==
  /\ {NumNodes, Octets, Tries, RunTopics} \subseteq Nat \ {0}
  /\ AllCrawled # {} /\ AllCrawled \subseteq Nat /\ Crawled \in Seq(SUBSET AllCrawled)
  /\ Common \subseteq BOOLEAN
  /\ Inventories \subseteq Seq([slots : Nat, region : STRING]) \ {<<>>}
  /\ \A p \in PinSets : DOMAIN p \subseteq Nat

VARIABLES
  inventory,  \* the hosts
  pinned,     \* the regions node_regions and home_region ask for
  topicOf,    \* the topic of each node
  addr,       \* addr.Pool: the address of each node drawn so far
  tries,      \* draws for the current node
  stage,      \* "draw", "group", "pin", "fill", "placed" or "failed"
  slotOf      \* hostOf and local: the slot of each node placed so far

placeVars == <<inventory, pinned, topicOf, addr, tries, stage, slotOf>>

PlaceNodes == 0..NumNodes - 1
Hosts == DOMAIN inventory

\* "Pinned nodes (scenario.network.node_regions) go to a host in their region; the
\* bootnode (node 0) to the home region unless pinned": unless the inventory has no
\* regions.
PinBootnode(pins, inv) ==
  LET valid == [i \in DOMAIN pins \cap PlaceNodes |-> pins[i]] IN
  IF 0 \in DOMAIN valid \/ inv[1].region = "" THEN valid
  ELSE [i \in DOMAIN valid \cup {0} |-> IF i = 0 THEN Home ELSE valid[i]]

\* DrawTopics: the topic a node's address follows is its last one.  With a common
\* topic the node's own is drawn from the same shares and moved up by one.
DrawTopics(common) ==
  [PlaceNodes -> {t + (IF common THEN 1 ELSE 0) : t \in 0..RunTopics - 1}]

\* The /24s DrawPrefix draws from: the last topic of the run stands for all chains
\* from there on, and a topic without /24s draws from the whole crawl.
DrawPrefix(t) ==
  LET own == IF RunTopics < Len(Crawled) /\ t = RunTopics - 1
             THEN UNION {Crawled[j] : j \in RunTopics..Len(Crawled)}
             ELSE IF t < Len(Crawled) THEN Crawled[t + 1] ELSE {}
  IN IF own = {} THEN AllCrawled ELSE own

\* With crawl addresses ("draw") or without them ("pin").  Either may have pins: no
\* validation forbids them with crawl addresses, where no step reads them.
PlaceInit ==
  /\ inventory \in Inventories
  /\ \E pins \in PinSets : pinned = PinBootnode(pins, inventory)
  /\ \/ stage = "draw" /\ \E common \in Common : topicOf \in DrawTopics(common)
     \/ stage = "pin" /\ topicOf = <<>>
  /\ addr = <<>> /\ tries = 0 /\ slotOf = <<>>

\* f with f[a] = b added to it.
With(f, a, b) == [y \in DOMAIN f \cup {a} |-> IF y = a THEN b ELSE f[y]]

-----------------------------------------------------------------------------
(* addr.Draw *)

Drawn == {i \in PlaceNodes : i \in DOMAIN addr}
Current == Cardinality(Drawn)
Used(pre) == Cardinality({i \in Drawn : addr[i].prefix = pre})

\* The next free octet of a /24 of the node's topic; a full /24 is drawn again.
DrawAddress(pre) ==
  /\ stage = "draw" /\ Current < NumNodes /\ tries < Tries
  /\ pre \in DrawPrefix(topicOf[Current])
  /\ IF Used(pre) >= Octets
     THEN tries' = tries + 1 /\ UNCHANGED addr
     ELSE tries' = 0 /\ addr' = With(addr, Current, [prefix |-> pre, octet |-> Used(pre) + 1])
  /\ UNCHANGED <<inventory, pinned, topicOf, stage, slotOf>>

DrawGivesUp ==
  /\ stage = "draw" /\ tries = Tries
  /\ stage' = "failed"
  /\ UNCHANGED <<inventory, pinned, topicOf, addr, tries, slotOf>>

PoolDrawn ==
  /\ stage = "draw" /\ Current = NumNodes
  /\ stage' = "group"
  /\ UNCHANGED <<inventory, pinned, topicOf, addr, tries, slotOf>>

-----------------------------------------------------------------------------
(* placeByPrefix: whole /24s, the largest first, each to the host with the   *)
(* most room.                                                                *)

Placed == {i \in PlaceNodes : i \in DOMAIN slotOf}
Seated(h) == {i \in Placed : slotOf[i].host = h}
Room(h) == inventory[h].slots - Cardinality(Seated(h))
Group(pre) == {i \in PlaceNodes : addr[i].prefix = pre}
Ungrouped == {addr[i].prefix : i \in PlaceNodes \ Placed}

Before(p, q) ==
  \/ Cardinality(Group(p)) > Cardinality(Group(q))
  \/ Cardinality(Group(p)) = Cardinality(Group(q)) /\ p <= q

\* The /24 whose turn it is, and the hosts it fits on.
Largest == CHOOSE p \in Ungrouped : \A q \in Ungrouped : Before(p, q)
Fitting(g) == {h \in Hosts : Room(h) >= Cardinality(g)}
Roomiest(g) ==
  Min({h \in Fitting(g) : \A k \in Fitting(g) : Room(h) >= Room(k)})

\* The nodes of g take the next places of host h in the order of their indices.
Seat(g, h) ==
  [i \in Placed \cup g |->
     IF i \in g
     THEN [host |-> h, local |-> Cardinality(Seated(h)) + Cardinality({j \in g : j < i})]
     ELSE slotOf[i]]

\* Faulty variant: a /24 that fits nowhere is split.
PlaceGroupSplits ==
  /\ stage = "group" /\ Ungrouped # {}
  /\ LET g == Group(Largest) \ Placed
         i == Min(g)
     IN IF Fitting(g) # {} THEN slotOf' = Seat(g, Roomiest(g))
        ELSE Fitting({i}) # {} /\ slotOf' = Seat({i}, Roomiest({i}))
  /\ UNCHANGED <<inventory, pinned, topicOf, addr, tries, stage>>

PlaceGroup ==
  /\ stage = "group" /\ Ungrouped # {} /\ Fitting(Group(Largest)) # {}
  /\ slotOf' = Seat(Group(Largest), Roomiest(Group(Largest)))
  /\ UNCHANGED <<inventory, pinned, topicOf, addr, tries, stage>>

GroupFitsNowhere ==
  /\ stage = "group" /\ Ungrouped # {} /\ Fitting(Group(Largest)) = {}
  /\ stage' = "failed"
  /\ UNCHANGED <<inventory, pinned, topicOf, addr, tries, slotOf>>

-----------------------------------------------------------------------------
(* place: pinned nodes first, the others into what is left. *)

\* The slots of a set of hosts, and the hosts of a region.
SlotsOf(S) == UNION {[host : {h}, local : 0..inventory[h].slots - 1] : h \in S}
InRegion(region) == {h \in Hosts : inventory[h].region = region}

\* The slots of a region in inventory order, those taken removed from the front.
Free(region) == SlotsOf(InRegion(region)) \ {slotOf[i] : i \in Placed}

Take(region) ==
  CHOOSE a \in Free(region) : \A b \in Free(region) :
    a.host < b.host \/ (a.host = b.host /\ a.local <= b.local)

PlacePinned(i) ==
  /\ stage = "pin" /\ i \in DOMAIN pinned \ Placed
  /\ IF Free(pinned[i]) = {}
     THEN stage' = "failed" /\ UNCHANGED slotOf
     ELSE slotOf' = With(slotOf, i, Take(pinned[i])) /\ UNCHANGED stage
  /\ UNCHANGED <<inventory, pinned, topicOf, addr, tries>>

AllPinned ==
  /\ stage = "pin" /\ DOMAIN pinned \subseteq Placed
  /\ stage' = "fill"
  /\ UNCHANGED <<inventory, pinned, topicOf, addr, tries, slotOf>>

\* The order of the regions: home, then as the inventory first names them.
FillOrder(region) ==
  IF region = Home THEN 0 ELSE Min(InRegion(region))

\* Faulty variant: the search for a region stops at the first one.
FirstRegion ==
  LET regions == {inventory[h].region : h \in Hosts}
      first == CHOOSE r \in regions : \A q \in regions : FillOrder(r) <= FillOrder(q)
  IN IF Free(first) = {} THEN {} ELSE {first}

NextRegion ==
  LET open == {r \in {inventory[h].region : h \in Hosts} : Free(r) # {}} IN
  IF open = {} THEN {}
  ELSE {CHOOSE r \in open : \A q \in open : FillOrder(r) <= FillOrder(q)}

\* The next node in index order goes to the first region with a free slot.
PlaceFree ==
  /\ stage = "fill" /\ Placed # PlaceNodes
  /\ IF NextRegion = {}
     THEN stage' = "failed" /\ UNCHANGED slotOf
     ELSE /\ \E r \in NextRegion : slotOf' = With(slotOf, Min(PlaceNodes \ Placed), Take(r))
          /\ UNCHANGED stage
  /\ UNCHANGED <<inventory, pinned, topicOf, addr, tries>>

PlacementDone ==
  /\ stage \in {"group", "fill"} /\ Placed = PlaceNodes
  /\ stage' = "placed"
  /\ UNCHANGED <<inventory, pinned, topicOf, addr, tries, slotOf>>

PlaceNext ==
  \/ (\E pre \in AllCrawled : DrawAddress(pre))
  \/ DrawGivesUp \/ PoolDrawn \/ PlaceGroup \/ GroupFitsNowhere
  \/ (\E i \in PlaceNodes : PlacePinned(i)) \/ AllPinned \/ PlaceFree \/ PlacementDone

PlaceSpec == PlaceInit /\ [][PlaceNext]_placeVars

-----------------------------------------------------------------------------
\* prefixRoutes: every host's routes to the /24s that live elsewhere.  A /24 is
\* taken to live where its first node is.
Owner(pre) == slotOf[Min(Group(pre))].host
Routes(h) == {[prefix |-> pre, via |-> Owner(pre)] :
                pre \in {p \in {addr[i].prefix : i \in PlaceNodes} : Owner(p) # h}}

\* What a placement by region needs: slots in a region for the nodes pinned to it,
\* and slots for all.
PinnedTo(region) == {i \in DOMAIN pinned : pinned[i] = region}
Feasible ==
  /\ \A r \in {pinned[i] : i \in DOMAIN pinned} :
       Cardinality(PinnedTo(r)) <= Cardinality(SlotsOf(InRegion(r)))
  /\ NumNodes <= Cardinality(SlotsOf(Hosts))

\* Without crawl addresses place goes by region.
ByRegion == topicOf = <<>>

\* Every node has a slot of its own within its host.  A placement by region puts the
\* pinned nodes in their regions and fails only when no placement does, whatever the
\* order in which Go walks the map of pins.  With crawl addresses, where the pins are
\* not read, every node has an address of its own, and every other host has exactly
\* one route to it, via the host it is on.
PlacementSound ==
  /\ stage = "failed" /\ ByRegion => ~ Feasible
  /\ stage = "placed" =>
    /\ \A i, j \in PlaceNodes : slotOf[i] = slotOf[j] => i = j
    /\ \A i \in PlaceNodes : slotOf[i].local \in 0..inventory[slotOf[i].host].slots - 1
    /\ ByRegion => \A i \in DOMAIN pinned : inventory[slotOf[i].host].region = pinned[i]
    /\ \A i \in DOMAIN addr :
         /\ addr[i].octet \in 1..Octets
         /\ \A j \in DOMAIN addr : addr[i] = addr[j] => i = j
         /\ \A h \in Hosts :
              {r.via : r \in {q \in Routes(h) : q.prefix = addr[i].prefix}} =
                IF h = slotOf[i].host THEN {} ELSE {slotOf[i].host}
=============================================================================

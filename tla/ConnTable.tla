----------------------------- MODULE ConnTable -----------------------------
(***************************************************************************)
(* The connection table of the in-process backend (cmd/simnet/             *)
(* conn_model.go): peer slots per node, split into dialed (outbound) and   *)
(* accepted (inbound) ones, shared by every searcher and churn driver.     *)
(*                                                                         *)
(* An action is one critical section of connTable.mu, or one operation on  *)
(* a wake channel, which the code performs after unlocking.  Operations    *)
(* made of several sections (dropConn, depart, rejoin, dropRandom) are put *)
(* together by the processes of SearchChurn.  Timestamps are abstracted:   *)
(* lostAt keeps how many lost slots are unfilled, not when each was lost,  *)
(* and the counters only the final report reads (rejectedFull, dupDropped, *)
(* refillTotalMs) are left out.                                            *)
(***************************************************************************)
EXTENDS Integers, FiniteSets

CONSTANTS
  Nodes,       \* the indices of the table
  MaxPeers,    \* -conn-max-peers: total slots of a node
  DialRatio    \* -conn-dial-ratio: one slot in DialRatio is outbound

\* newConnTable's rounding: at least one slot is outbound.
MaxOut ==
  LET ratio == IF DialRatio < 1 THEN 1 ELSE DialRatio
  IN  IF MaxPeers \div ratio < 1 THEN 1 ELSE MaxPeers \div ratio

MaxIn == MaxPeers - MaxOut

ASSUME ConnTableAssumption ==
  /\ IsFiniteSet(Nodes)
  /\ MaxPeers \in Nat \ {0}
  /\ DialRatio \in Int

VARIABLES
  out,         \* outbound slots in use, per node
  in,          \* inbound slots in use, per node
  peers,       \* symmetric: nodes connected either way
  outPeers,    \* directed: nodes this one dialed
  wake,        \* tokens in the node's wake channel, whose capacity is 1
  offline,     \* the node is away
  lostAt,      \* still-unfilled outbound slots that were lost
  departs,     \* departures
  disconnects, \* connections dropped
  losses,      \* slots a node was expected to refill
  refills      \* ... and did refill

slotVars  == <<out, in, peers, outPeers>>
countVars == <<departs, disconnects, losses, refills>>
tableVars == <<out, in, peers, outPeers, wake, offline, lostAt,
               departs, disconnects, losses, refills>>

TableInit ==
  /\ out = [n \in Nodes |-> 0]
  /\ in = [n \in Nodes |-> 0]
  /\ peers = [n \in Nodes |-> {}]
  /\ outPeers = [n \in Nodes |-> {}]
  /\ wake = [n \in Nodes |-> 0]
  /\ offline = [n \in Nodes |-> FALSE]
  /\ lostAt = [n \in Nodes |-> 0]
  /\ departs = 0 /\ disconnects = 0 /\ losses = 0 /\ refills = 0

-----------------------------------------------------------------------------
\* shouldPark: nothing to do, away or outbound slots full.
ShouldPark(n) == offline[n] \/ out[n] >= MaxOut

OutboundFull(n) == out[n] >= MaxOut

\* The outcomes of dial, in the order the code tests them.  An unknown ID is
\* not modelled: every node discovery yields is one of the run.
DialIgnored(from, to) ==
  \/ to = from
  \/ offline[from]
  \/ to \in peers[from]
  \/ out[from] >= MaxOut

DialRefused(from, to) ==
  /\ ~ DialIgnored(from, to)
  /\ offline[to] \/ in[to] >= MaxIn

DialFails(from, to) == DialIgnored(from, to) \/ DialRefused(from, to)

\* Faulty variant: the slots tested by shouldPark are not tested again.
ConnectUntested(from, to) ==
  /\ ~ (to = from \/ offline[from] \/ to \in peers[from])
  /\ ~ (offline[to] \/ in[to] >= MaxIn)
  /\ out' = [out EXCEPT ![from] = @ + 1]
  /\ in' = [in EXCEPT ![to] = @ + 1]
  /\ peers' = [peers EXCEPT ![from] = @ \cup {to}, ![to] = @ \cup {from}]
  /\ outPeers' = [outPeers EXCEPT ![from] = @ \cup {to}]
  /\ UNCHANGED <<wake, offline, lostAt, countVars>>

\* Faulty variant: only the connections the node dialed itself count as duplicates.
ConnectBothWays(from, to) ==
  /\ ~ (to = from \/ offline[from] \/ to \in outPeers[from] \/ out[from] >= MaxOut)
  /\ ~ (offline[to] \/ in[to] >= MaxIn)
  /\ out' = [out EXCEPT ![from] = @ + 1]
  /\ in' = [in EXCEPT ![to] = @ + 1]
  /\ peers' = [peers EXCEPT ![from] = @ \cup {to}, ![to] = @ \cup {from}]
  /\ outPeers' = [outPeers EXCEPT ![from] = @ \cup {to}]
  /\ UNCHANGED <<wake, offline, lostAt, countVars>>

\* The successful end of dial: a slot on either side, both peer sets, and the
\* oldest lost slot of the dialer counts as refilled.
Connect(from, to) ==
  /\ ~ DialFails(from, to)
  /\ out' = [out EXCEPT ![from] = @ + 1]
  /\ in' = [in EXCEPT ![to] = @ + 1]
  /\ peers' = [peers EXCEPT ![from] = @ \cup {to}, ![to] = @ \cup {from}]
  /\ outPeers' = [outPeers EXCEPT ![from] = @ \cup {to}]
  /\ \/ /\ lostAt[from] > 0
        /\ refills' = refills + 1
        /\ lostAt' = [lostAt EXCEPT ![from] = @ - 1]
     \/ /\ lostAt[from] = 0
        /\ UNCHANGED <<refills, lostAt>>
  /\ UNCHANGED <<wake, offline, departs, disconnects, losses>>

\* Faulty variant: the acceptor's inbound slot is not given back.
DropKeepsInbound(from, to, wakeDialer) ==
  /\ to \in outPeers[from]
  /\ outPeers' = [outPeers EXCEPT ![from] = @ \ {to}]
  /\ peers' = [peers EXCEPT ![from] = @ \ {to}, ![to] = @ \ {from}]
  /\ out' = [out EXCEPT ![from] = @ - 1]
  /\ disconnects' = disconnects + 1
  /\ losses' = losses + (IF wakeDialer THEN 1 ELSE 0)
  /\ lostAt' = [lostAt EXCEPT ![from] = @ + (IF wakeDialer THEN 1 ELSE 0)]
  /\ UNCHANGED <<in, wake, offline, departs, refills>>

\* The critical section of dropConn when the connection still exists.
Drop(from, to, wakeDialer) ==
  /\ to \in outPeers[from]
  /\ outPeers' = [outPeers EXCEPT ![from] = @ \ {to}]
  /\ peers' = [peers EXCEPT ![from] = @ \ {to}, ![to] = @ \ {from}]
  /\ out' = [out EXCEPT ![from] = @ - 1]
  /\ in' = [in EXCEPT ![to] = @ - 1]
  /\ disconnects' = disconnects + 1
  /\ \/ /\ wakeDialer
        /\ losses' = losses + 1
        /\ lostAt' = [lostAt EXCEPT ![from] = @ + 1]
     \/ /\ ~ wakeDialer
        /\ UNCHANGED <<losses, lostAt>>
  /\ UNCHANGED <<wake, offline, departs, refills>>

\* depart's critical section; the caller snapshots Dialed and Dialers with it.
Dialed(n)  == peers[n] \cap outPeers[n]
Dialers(n) == peers[n] \ outPeers[n]

MarkOffline(n) ==
  /\ offline' = [offline EXCEPT ![n] = TRUE]
  /\ departs' = departs + 1
  /\ lostAt' = [lostAt EXCEPT ![n] = 0]
  /\ UNCHANGED <<slotVars, wake, disconnects, losses, refills>>

\* rejoin's critical section.
MarkOnline(n) ==
  /\ offline' = [offline EXCEPT ![n] = FALSE]
  /\ UNCHANGED <<slotVars, wake, lostAt, countVars>>

\* The non-blocking send on the wake channel: a pending token is enough.
Signal(n) ==
  /\ wake' = [wake EXCEPT ![n] = 1]
  /\ UNCHANGED <<slotVars, offline, lostAt, countVars>>

\* A searcher receives from the wake channel.
Receive(n) ==
  /\ wake[n] = 1
  /\ wake' = [wake EXCEPT ![n] = 0]
  /\ UNCHANGED <<slotVars, offline, lostAt, countVars>>

\* The table under callers of which nothing is assumed: any critical section
\* at any time.  It is what the table promises whoever uses it.
TableNext ==
  \/ \E from, to \in Nodes : Connect(from, to)
  \/ \E from, to \in Nodes, w \in BOOLEAN : Drop(from, to, w)
  \/ \E n \in Nodes :
       MarkOffline(n) \/ MarkOnline(n) \/ Signal(n) \/ Receive(n)

TableSpec == TableInit /\ [][TableNext]_tableVars

-----------------------------------------------------------------------------
\* The types of connTable's fields; a wake channel holds at most one token.
TableTypeOK ==
  /\ out \in [Nodes -> Nat]
  /\ in \in [Nodes -> Nat]
  /\ peers \in [Nodes -> SUBSET Nodes]
  /\ outPeers \in [Nodes -> SUBSET Nodes]
  /\ wake \in [Nodes -> 0..1]
  /\ offline \in [Nodes -> BOOLEAN]
  /\ lostAt \in [Nodes -> Nat]
  /\ departs \in Nat /\ disconnects \in Nat
  /\ losses \in Nat /\ refills \in Nat

\* The nodes that hold a connection they dialed to n.
InPeers(n) == {m \in Nodes : n \in outPeers[m]}

\* The slot counters agree with the connections they count, whatever drops,
\* departures and dials overlap: dropConn decrements only what it removed and
\* dial increments only what it added.
SlotAccounting ==
  \A n \in Nodes : /\ out[n] = Cardinality(outPeers[n])
                   /\ in[n] = Cardinality(InPeers(n))

\* The three views of the topology agree: peers is the symmetric closure of
\* outPeers and no pair is connected in both directions, which is what lets
\* dropConn clear both peers entries when it removes one directed connection.
OneConnectionPerPair ==
  \A m, n \in Nodes :
    /\ n \in peers[m] <=> (n \in outPeers[m] \/ m \in outPeers[n])
    /\ ~ (n \in outPeers[m] /\ m \in outPeers[n])

\* No node ever holds more outbound or inbound peers than its slots, however many
\* searchers dial for it after testing them; and every entry of lostAt stands for a
\* slot that is really empty ("when each still-unfilled outbound slot was lost"), so
\* no refill is counted twice for one slot.
WithinCapacity ==
  \A n \in Nodes : out[n] + lostAt[n] <= MaxOut /\ in[n] <= MaxIn
=============================================================================

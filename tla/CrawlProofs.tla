---------------------------- MODULE CrawlProofs ----------------------------
(***************************************************************************)
(* The crawler for any network, any number of ping workers and any         *)
(* capacity of its channels: a node is queued exactly while it is in one   *)
(* place, and the log of a node follows its state in the registry.         *)
(***************************************************************************)
EXTENDS Crawl, SumFacts

-----------------------------------------------------------------------------
(* Types *)

Entry == [known : BOOLEAN, seq : Nat, up : BOOLEAN, everUp : BOOLEAN, attempts : Nat,
          misses : Nat, due : BOOLEAN, queued : BOOLEAN]

WorkerState == [pc : {"idle", "begin", "sent", "report", "refresh", "ended"}, n : Nodes \cup {0},
                fast : BOOLEAN, ev : {"none", "up", "down"}, refresh : BOOLEAN]

TypeOK ==
  /\ setup \in Setups /\ reg \in [Nodes -> Entry] /\ wk \in [Workers -> WorkerState]
  /\ live \in Seq(Nodes) /\ dead \in Seq(Nodes)
  /\ dueLive \in SUBSET Nodes /\ dueDead \in SUBSET Nodes
  /\ log \in [Nodes -> Seq({"up", "down"})]

-----------------------------------------------------------------------------
(* Who has a node *)

Elems(q) == {q[i] : i \in 1..Len(q)}
Distinct(q) == \A i, j \in 1..Len(q) : q[i] = q[j] => i = j

Pinged == {n \in Nodes : Pinging(n) # {}}

\* The places of a queued node, of which it has one.
PlaceInv ==
  /\ {n \in Nodes : reg[n].queued} = dueLive \cup dueDead \cup Elems(live) \cup Elems(dead) \cup Pinged
  /\ dueLive \cap (dueDead \cup Elems(live) \cup Elems(dead) \cup Pinged) = {}
  /\ dueDead \cap (Elems(live) \cup Elems(dead) \cup Pinged) = {}
  /\ Elems(live) \cap (Elems(dead) \cup Pinged) = {} /\ Elems(dead) \cap Pinged = {}
  /\ Distinct(live) /\ Distinct(dead)
  /\ lpc = "select" => dueLive = {} /\ dueDead = {}

Pings(x) == x.pc \in {"begin", "sent"}
Opens(x) == x.pc \in {"begin", "sent", "report"}

\* A node is pinged by one worker at a time.  One that was never due before the
\* event of its ping was written is with one worker at most, from the channel to
\* the end of its report.
HolderInv ==
  /\ \A n \in Nodes : reg[n].queued => reg[n].known /\ reg[n].due
  /\ \A n \in Nodes : reg[n].up => reg[n].known
  /\ \A w \in Workers : wk[w].pc \in {"idle", "ended"} <=> wk[w].n = 0
  /\ \A v, w \in Workers : wk[v].n = wk[w].n /\ Pings(wk[v]) /\ Pings(wk[w]) => v = w
  /\ \A v, w \in Workers :
       wk[v].n = wk[w].n /\ Opens(wk[v]) /\ Opens(wk[w]) /\ wk[v].n \notin rushed => v = w
  /\ \A w \in Workers : wk[w].n \in Nodes => reg[wk[w].n].known
  /\ \A w \in Workers : wk[w].pc = "report" /\ wk[w].n \notin rushed => ~ reg[wk[w].n].due

-----------------------------------------------------------------------------
(* The log *)

Odd(q) == Len(q) % 2 = 1
Alternates(q) == \A i \in 1..Len(q) : q[i] = IF i % 2 = 1 THEN "up" ELSE "down"

\* The event a worker has still to write is the step from the log to the registry.
LogInv ==
  \A n \in Nodes \ rushed :
    /\ Alternates(log[n])
    /\ Reporting(n) = {} => (reg[n].up <=> Odd(log[n]))
    /\ \A w \in Reporting(n) :
         /\ wk[w].ev = "none" => (reg[n].up <=> Odd(log[n]))
         /\ wk[w].ev = "up" => reg[n].up /\ ~ Odd(log[n])
         /\ wk[w].ev = "down" => ~ reg[n].up /\ Odd(log[n])

CrawlInv == TypeOK /\ PlaceInv /\ HolderInv /\ LogInv

-----------------------------------------------------------------------------
(* Sequences *)

LEMMA AppendFacts ==
  ASSUME NEW S, NEW q \in Seq(S), NEW x \in S
  PROVE  /\ Append(q, x) \in Seq(S) /\ Len(Append(q, x)) = Len(q) + 1
         /\ Elems(Append(q, x)) = Elems(q) \cup {x}
         /\ Distinct(q) /\ x \notin Elems(q) => Distinct(Append(q, x))
<1> DEFINE r == Append(q, x)
<1>1. /\ r \in Seq(S) /\ Len(r) = Len(q) + 1 /\ Len(q) \in Nat /\ r[Len(q) + 1] = x
      /\ \A i \in 1..Len(q) : r[i] = q[i]
  OBVIOUS
<1>2. 1..Len(r) = 1..Len(q) \cup {Len(q) + 1} /\ Len(q) + 1 \notin 1..Len(q)
  BY <1>1
<1> HIDE DEF r
<1>3. Elems(r) = Elems(q) \cup {x}
  BY <1>1, <1>2 DEF Elems
<1>4. ASSUME Distinct(q), x \notin Elems(q) PROVE Distinct(r)
  BY <1>1, <1>2, <1>4 DEF Elems, Distinct
<1> QED
  BY <1>1, <1>3, <1>4 DEF r

LEMMA TailFacts ==
  ASSUME NEW S, NEW q \in Seq(S), q # <<>>
  PROVE  /\ Tail(q) \in Seq(S) /\ Head(q) \in S /\ Head(q) \in Elems(q)
         /\ Distinct(q) => Distinct(Tail(q)) /\ Elems(Tail(q)) = Elems(q) \ {Head(q)}
<1> DEFINE r == Tail(q)
<1>1. /\ r \in Seq(S) /\ Len(r) = Len(q) - 1 /\ Len(q) \in Nat /\ Len(q) > 0 /\ Head(q) = q[1]
      /\ \A i \in 1..Len(r) : r[i] = q[i + 1]
  OBVIOUS
<1>2. \A i \in 1..Len(r) : i + 1 \in 1..Len(q) /\ i + 1 # 1
  BY <1>1
<1>3. 1 \in 1..Len(q) /\ \A j \in 1..Len(q) : j # 1 => j - 1 \in 1..Len(r) /\ (j - 1) + 1 = j
  BY <1>1
<1> HIDE DEF r
<1>4. Head(q) \in S /\ Head(q) \in Elems(q)
  BY <1>1, <1>3 DEF Elems
<1>5. ASSUME Distinct(q) PROVE Distinct(r)
  <2> SUFFICES ASSUME NEW i \in 1..Len(r), NEW j \in 1..Len(r), r[i] = r[j] PROVE i = j
    BY DEF Distinct
  <2>1. i + 1 = j + 1
    BY <1>1, <1>2, <1>5 DEF Distinct
  <2> QED
    BY <1>1, <2>1
<1>6. ASSUME Distinct(q) PROVE Elems(r) = Elems(q) \ {Head(q)}
  <2>1. ASSUME NEW i \in 1..Len(r) PROVE r[i] \in Elems(q) \ {Head(q)}
    <3>1. q[i + 1] # q[1]
      BY <1>2, <1>3, <1>6 DEF Distinct
    <3> QED
      BY <1>1, <1>2, <3>1 DEF Elems
  <2>2. ASSUME NEW j \in 1..Len(q), q[j] # Head(q) PROVE q[j] \in Elems(r)
    <3>1. j - 1 \in 1..Len(r) /\ (j - 1) + 1 = j
      BY <1>1, <1>3, <2>2
    <3>2. r[j - 1] = q[j]
      BY <1>1, <3>1
    <3> QED
      BY <3>1, <3>2 DEF Elems
  <2> QED
    BY <2>1, <2>2 DEF Elems
<1> QED
  BY <1>1, <1>4, <1>5, <1>6 DEF r

LEMMA Parity == \A k \in Nat : k % 2 \in {0, 1} /\ ((k + 1) % 2 = 1 <=> k % 2 # 1)
OBVIOUS

LEMMA AppendEvent ==
  ASSUME NEW q \in Seq({"up", "down"}), Alternates(q), NEW e \in {"up", "down"},
         e = "up" <=> ~ Odd(q)
  PROVE  /\ Append(q, e) \in Seq({"up", "down"}) /\ Alternates(Append(q, e))
         /\ Odd(Append(q, e)) <=> ~ Odd(q)
<1>1. /\ Append(q, e) \in Seq({"up", "down"}) /\ Len(Append(q, e)) = Len(q) + 1 /\ Len(q) \in Nat
      /\ Append(q, e)[Len(q) + 1] = e /\ \A i \in 1..Len(q) : Append(q, e)[i] = q[i]
  OBVIOUS
<1>2. (Len(q) + 1) % 2 = 1 <=> Len(q) % 2 # 1
  BY <1>1, Parity
<1>3. ASSUME NEW i \in 1..Len(q) + 1
      PROVE  Append(q, e)[i] = IF i % 2 = 1 THEN "up" ELSE "down"
  <2>1. CASE i \in 1..Len(q)
    BY <1>1, <2>1 DEF Alternates
  <2>2. CASE i = Len(q) + 1
    BY <1>1, <1>2, <2>2 DEF Odd
  <2> QED
    BY <1>1, <2>1, <2>2
<1> QED
  BY <1>1, <1>2, <1>3 DEF Odd, Alternates

-----------------------------------------------------------------------------
(* Steps that change only the registry *)

LEMMA NetworkFacts ==
  ASSUME setup \in Setups
  PROVE  /\ 0 \notin Nodes /\ IsFiniteSet(Nodes) /\ Bootnodes \subseteq Nodes
         /\ MaxSeq \in Nat /\ Misses \in Nat \ {0}
<1>1. /\ IsFiniteSet(Network) /\ 0 \notin Network /\ Bootnodes \subseteq Nodes /\ Nodes \subseteq Network
      /\ MaxSeq \in Nat /\ Misses \in Nat \ {0}
  BY CrawlAssumption DEF Nodes, MaxSeq, Misses
<1> QED
  BY <1>1, FS_Subset

\* A step that queues nobody, changes nobody's state and notes a node that becomes
\* due while the event of its ping is still to be written.
QuietReg ==
  /\ reg' \in [Nodes -> Entry]
  /\ \A n \in Nodes : /\ reg'[n].queued = reg[n].queued /\ reg'[n].up = reg[n].up
                      /\ reg[n].known => reg'[n].known
                      /\ reg'[n].due => reg[n].due \/ n \in rushed' \/ Reporting(n) = {}
                      /\ reg[n].due => reg'[n].due
  /\ rushed \subseteq rushed'

LEMMA ObservedIsQuiet ==
  ASSUME CrawlInv, NEW n \in Nodes, NEW seq \in 0..MaxSeq, reg' = Observed(n, seq), rushed' = rushed
  PROVE  QuietReg
<1>1. /\ reg \in [Nodes -> Entry] /\ seq \in Nat /\ setup \in Setups
      /\ \A m \in Nodes : (reg[m].queued => reg[m].known) /\ (reg[m].up => reg[m].known)
      /\ \A w \in Workers : wk[w].n \in Nodes => reg[wk[w].n].known
  <2>1. setup \in Setups /\ reg \in [Nodes -> Entry]
    BY DEF CrawlInv, TypeOK
  <2>2. seq \in Nat
    BY <2>1, NetworkFacts
  <2> QED
    BY <2>1, <2>2 DEF CrawlInv, HolderInv
<1>2. CASE ~ reg[n].known
  <2>1. reg' = [reg EXCEPT ![n] = [Unknown EXCEPT !.known = TRUE, !.seq = seq, !.due = TRUE]]
    BY <1>2 DEF Observed
  <2> DEFINE e == [Unknown EXCEPT !.known = TRUE, !.seq = seq, !.due = TRUE]
  <2>2. e \in Entry /\ e.queued = FALSE /\ e.up = FALSE /\ e.known = TRUE /\ e.due = TRUE
    BY <1>1 DEF Unknown, Entry
  <2> HIDE DEF e
  <2>3. reg[n].queued = FALSE /\ reg[n].up = FALSE
    BY <1>1, <1>2 DEF Entry
  <2>4. Reporting(n) = {}
    BY <1>1, <1>2 DEF Reporting
  <2>5. reg' = [reg EXCEPT ![n] = e]
    BY <2>1 DEF e
  <2> QED
    BY <1>1, <2>2, <2>3, <2>4, <2>5 DEF QuietReg
<1>3. CASE reg[n].known /\ seq > reg[n].seq
  <2>1. reg' = [reg EXCEPT ![n].seq = seq]
    BY <1>3 DEF Observed
  <2>2. /\ reg' \in [Nodes -> Entry]
        /\ \A m \in Nodes : /\ reg'[m].queued = reg[m].queued /\ reg'[m].up = reg[m].up
                            /\ reg'[m].known = reg[m].known /\ reg'[m].due = reg[m].due
    BY <1>1, <2>1 DEF Entry
  <2> QED
    BY <2>2 DEF QuietReg
<1>4. CASE reg[n].known /\ ~ (seq > reg[n].seq)
  <2>1. reg' = reg
    BY <1>4 DEF Observed
  <2> QED
    BY <1>1, <2>1 DEF QuietReg
<1> QED
  BY <1>2, <1>3, <1>4

LEMMA QuietStep ==
  ASSUME CrawlInv, setup' = setup, QuietReg, UNCHANGED <<wk, live, dead, dueLive, dueDead, log>>,
         lpc' = "select" => dueLive = {} /\ dueDead = {}
  PROVE  CrawlInv'
<1>0. Nodes' = Nodes /\ WorkerState' = WorkerState
  BY DEF Nodes, WorkerState
<1>1. TypeOK'
  BY <1>0 DEF CrawlInv, TypeOK, QuietReg
<1>2. Pinged' = Pinged
  BY <1>0 DEF Pinged, Pinging
<1>3. {n \in Nodes : reg'[n].queued} = {n \in Nodes : reg[n].queued}
  BY DEF QuietReg
<1>4. PlaceInv'
  BY <1>0, <1>2, <1>3 DEF CrawlInv, PlaceInv
<1>5. HolderInv'
  <2>1. \A n \in Nodes : reg'[n].queued => reg'[n].known /\ reg'[n].due
    BY DEF CrawlInv, HolderInv, QuietReg
  <2>2. \A n \in Nodes : reg'[n].up => reg'[n].known
    BY DEF CrawlInv, HolderInv, QuietReg
  <2>3. \A w \in Workers : wk[w].n \in Nodes => reg'[wk[w].n].known
    BY DEF CrawlInv, HolderInv, QuietReg
  <2>4. ASSUME NEW w \in Workers, wk[w].pc = "report", wk[w].n \notin rushed' PROVE ~ reg'[wk[w].n].due
    <3>1. wk[w].n \in Nodes
      BY <2>4 DEF CrawlInv, HolderInv, TypeOK, WorkerState
    <3>2. Reporting(wk[w].n) # {} /\ wk[w].n \notin rushed
      BY <2>4 DEF Reporting, QuietReg
    <3> QED
      BY <2>4, <3>1, <3>2 DEF CrawlInv, HolderInv, QuietReg
  <2>5. \A v, w \in Workers :
          wk[v].n = wk[w].n /\ Opens(wk[v]) /\ Opens(wk[w]) /\ wk[v].n \notin rushed' => v = w
    BY DEF CrawlInv, HolderInv, QuietReg
  <2> QED
    BY <1>0, <2>1, <2>2, <2>3, <2>4, <2>5 DEF CrawlInv, HolderInv, Pings, Opens
<1>6. LogInv'
  <2>1. \A n \in Nodes : reg'[n].up = reg[n].up /\ log'[n] = log[n] /\ Reporting(n)' = Reporting(n)
    BY DEF QuietReg, Reporting
  <2>2. Nodes' \ rushed' \subseteq Nodes \ rushed
    BY <1>0 DEF QuietReg
  <2> QED
    BY <1>0, <2>1, <2>2 DEF CrawlInv, LogInv
<1> QED
  BY <1>1, <1>4, <1>5, <1>6 DEF CrawlInv

\* Nothing that matters here changes.
LEMMA IdleStep ==
  ASSUME CrawlInv, UNCHANGED <<setup, reg, wk, live, dead, dueLive, dueDead, log, rushed>>,
         lpc' = "select" => dueLive = {} /\ dueDead = {}
  PROVE  CrawlInv'
<1>1. QuietReg
  BY DEF QuietReg, CrawlInv, TypeOK
<1> QED
  BY <1>1, QuietStep

LEMMA DueStep ==
  ASSUME CrawlInv, NEW n \in Nodes, Due(n)
  PROVE  CrawlInv'
<1>1. reg \in [Nodes -> Entry]
  BY DEF CrawlInv, TypeOK
<1>2. /\ reg' = [reg EXCEPT ![n].due = TRUE]
      /\ rushed' = IF Reporting(n) = {} THEN rushed ELSE rushed \cup {n}
      /\ UNCHANGED <<setup, wk, live, dead, dueLive, dueDead, log, lpc>>
  BY DEF Due, loopVars, mainVars
<1>3. QuietReg
  <2>1. /\ reg' \in [Nodes -> Entry]
        /\ \A m \in Nodes : /\ reg'[m].queued = reg[m].queued /\ reg'[m].up = reg[m].up
                            /\ reg'[m].known = reg[m].known
                            /\ reg'[m].due = IF m = n THEN TRUE ELSE reg[m].due
    BY <1>1, <1>2 DEF Entry
  <2> QED
    BY <1>2, <2>1 DEF QuietReg
<1> QED
  BY <1>2, <1>3, QuietStep DEF CrawlInv, PlaceInv

-----------------------------------------------------------------------------
(* The probe loop *)

LEMMA TickStep ==
  ASSUME CrawlInv, Tick
  PROVE  CrawlInv'
<1> DEFINE found == {n \in Nodes : reg[n].known /\ reg[n].due /\ ~ reg[n].queued}
<1>0. /\ reg \in [Nodes -> Entry] /\ dueLive = {} /\ dueDead = {}
  BY DEF Tick, CrawlInv, TypeOK, PlaceInv
<1>1. /\ reg' = [n \in Nodes |-> IF n \in found THEN [reg[n] EXCEPT !.queued = TRUE] ELSE reg[n]]
      /\ dueLive' = {n \in found : Fast(n)} /\ dueDead' = {n \in found : ~ Fast(n)}
      /\ lpc' = "offer" /\ UNCHANGED <<setup, wk, live, dead, log, rushed>>
  BY DEF Tick, loopElse, mainVars
<1>2. Nodes' = Nodes /\ WorkerState' = WorkerState
  BY <1>1 DEF Nodes, WorkerState
<1>3. /\ reg' \in [Nodes -> Entry]
      /\ \A n \in Nodes : /\ reg'[n].queued = (reg[n].queued \/ n \in found)
                          /\ reg'[n].up = reg[n].up /\ reg'[n].known = reg[n].known
                          /\ reg'[n].due = reg[n].due
  BY <1>0, <1>1 DEF Entry
<1>4. dueLive' \cup dueDead' = found /\ dueLive' \cap dueDead' = {}
  BY <1>1
<1>5. \A n \in found : n \in Nodes /\ ~ reg[n].queued /\ reg[n].known /\ reg[n].due
  OBVIOUS
<1> HIDE DEF found
<1>6. Pinged' = Pinged
  BY <1>1, <1>2 DEF Pinged, Pinging
<1>7. PlaceInv'
  <2>1. {n \in Nodes : reg'[n].queued} = {n \in Nodes : reg[n].queued} \cup found
    BY <1>3, <1>5
  <2>2. {n \in Nodes : reg[n].queued} \cap found = {}
    BY <1>5
  <2> QED
    BY <1>0, <1>1, <1>2, <1>4, <1>6, <2>1, <2>2 DEF CrawlInv, PlaceInv
<1>8. HolderInv'
  <2>1. \A n \in Nodes : reg'[n].queued => reg'[n].known /\ reg'[n].due
    BY <1>3, <1>5 DEF CrawlInv, HolderInv
  <2>2. \A w \in Workers : wk[w].pc = "report" => wk[w].n \in Nodes
    BY DEF CrawlInv, HolderInv, TypeOK, WorkerState
  <2> QED
    BY <1>1, <1>2, <1>3, <2>1, <2>2 DEF CrawlInv, HolderInv, Pings, Opens
<1>9. LogInv'
  <2>1. \A n \in Nodes : Reporting(n)' = Reporting(n)
    BY <1>1 DEF Reporting
  <2> QED
    BY <1>1, <1>2, <1>3, <2>1 DEF CrawlInv, LogInv
<1>10. TypeOK'
  BY <1>1, <1>2, <1>3, <1>4, <1>5 DEF CrawlInv, TypeOK
<1> QED
  BY <1>7, <1>8, <1>9, <1>10 DEF CrawlInv

LEMMA OfferLiveStep ==
  ASSUME CrawlInv, NEW n \in Nodes, OfferLive(n)
  PROVE  CrawlInv'
<1>1. /\ n \in dueLive /\ live' = Append(live, n) /\ dueLive' = dueLive \ {n} /\ lpc' = "offer"
      /\ UNCHANGED <<reg, dead, dueDead, setup, wk, log, rushed>>
  BY DEF OfferLive, loopElse, mainVars
<1>2. Nodes' = Nodes /\ WorkerState' = WorkerState
  BY <1>1 DEF Nodes, WorkerState
<1>3. n \notin Elems(live) /\ live \in Seq(Nodes) /\ Distinct(live)
  BY <1>1 DEF CrawlInv, PlaceInv, TypeOK
<1>4. live' \in Seq(Nodes) /\ Elems(live') = Elems(live) \cup {n} /\ Distinct(live')
  BY <1>1, <1>3, AppendFacts
<1>5. Pinged' = Pinged
  BY <1>1, <1>2 DEF Pinged, Pinging
<1>6. PlaceInv'
  BY <1>1, <1>2, <1>4, <1>5 DEF CrawlInv, PlaceInv
<1>7. HolderInv'
  BY <1>1, <1>2 DEF CrawlInv, HolderInv, Pings, Opens
<1>8. LogInv'
  BY <1>1, <1>2 DEF CrawlInv, LogInv, Reporting
<1>9. TypeOK'
  BY <1>1, <1>2, <1>4 DEF CrawlInv, TypeOK
<1> QED
  BY <1>6, <1>7, <1>8, <1>9 DEF CrawlInv

LEMMA OfferDeadStep ==
  ASSUME CrawlInv, NEW n \in Nodes, OfferDead(n)
  PROVE  CrawlInv'
<1>1. /\ n \in dueDead /\ dueDead' = dueDead \ {n} /\ lpc' = "offer"
      /\ UNCHANGED <<live, dueLive, setup, wk, log, rushed>>
  BY DEF OfferDead, loopElse, mainVars
<1>2. Nodes' = Nodes /\ WorkerState' = WorkerState
  BY <1>1 DEF Nodes, WorkerState
<1>3. n \notin Elems(dead) /\ dead \in Seq(Nodes) /\ Distinct(dead) /\ reg \in [Nodes -> Entry]
  BY <1>1 DEF CrawlInv, PlaceInv, TypeOK
<1>4. Pinged' = Pinged
  BY <1>1, <1>2 DEF Pinged, Pinging
<1>5. CASE dead' = Append(dead, n) /\ reg' = reg
  <2>1. dead' \in Seq(Nodes) /\ Elems(dead') = Elems(dead) \cup {n} /\ Distinct(dead')
    BY <1>3, <1>5, AppendFacts
  <2>2. PlaceInv'
    BY <1>1, <1>2, <1>4, <1>5, <2>1 DEF CrawlInv, PlaceInv
  <2>3. HolderInv'
    BY <1>1, <1>2, <1>5 DEF CrawlInv, HolderInv, Pings, Opens
  <2>4. LogInv'
    BY <1>1, <1>2, <1>5 DEF CrawlInv, LogInv, Reporting
  <2>5. TypeOK'
    BY <1>1, <1>2, <1>5, <2>1 DEF CrawlInv, TypeOK
  <2> QED
    BY <2>2, <2>3, <2>4, <2>5 DEF CrawlInv
<1>6. CASE reg' = [reg EXCEPT ![n].queued = FALSE] /\ dead' = dead
  <2>1. /\ reg' \in [Nodes -> Entry]
        /\ \A m \in Nodes : /\ reg'[m].queued = (m # n /\ reg[m].queued)
                            /\ reg'[m].up = reg[m].up /\ reg'[m].known = reg[m].known
                            /\ reg'[m].due = reg[m].due
    BY <1>3, <1>6 DEF Entry
  <2>2. {m \in Nodes : reg'[m].queued} = {m \in Nodes : reg[m].queued} \ {n}
    BY <2>1
  <2>3. PlaceInv'
    BY <1>1, <1>2, <1>4, <1>6, <2>2 DEF CrawlInv, PlaceInv
  <2>4. HolderInv'
    <3>1. \A w \in Workers : wk[w].pc = "report" => wk[w].n \in Nodes
      BY DEF CrawlInv, HolderInv, TypeOK, WorkerState
    <3> QED
      BY <1>1, <1>2, <2>1, <3>1 DEF CrawlInv, HolderInv, Pings, Opens
  <2>5. LogInv'
    BY <1>1, <1>2, <2>1 DEF CrawlInv, LogInv, Reporting
  <2>6. TypeOK'
    BY <1>1, <1>2, <1>6, <2>1 DEF CrawlInv, TypeOK
  <2> QED
    BY <2>3, <2>4, <2>5, <2>6 DEF CrawlInv
<1> QED
  BY <1>5, <1>6 DEF OfferDead

-----------------------------------------------------------------------------
(* A ping worker *)

\* The node that a worker in state x is pinging.
PingOf(x) == IF Pings(x) THEN {x.n} ELSE {}

\* Only worker w moves.
OnlyMoves(w) ==
  /\ wk' \in [Workers -> WorkerState] /\ rushed' = rushed
  /\ \A v \in Workers : v # w => wk'[v] = wk[v]
  /\ wk'[w].pc \in {"idle", "ended"} <=> wk'[w].n = 0

LEMMA HolderFacts ==
  ASSUME CrawlInv, NEW w \in Workers, wk[w].pc \notin {"idle", "ended"}
  PROVE  /\ wk[w].n \in Nodes /\ reg[wk[w].n].known
         /\ Pings(wk[w]) => \A v \in Workers : v # w /\ wk[v].n = wk[w].n => ~ Pings(wk[v])
         /\ Opens(wk[w]) /\ wk[w].n \notin rushed =>
              \A v \in Workers : v # w /\ wk[v].n = wk[w].n => ~ Opens(wk[v])
<1>1. wk[w].n \in Nodes
  BY DEF CrawlInv, HolderInv, TypeOK, WorkerState
<1> QED
  BY <1>1 DEF CrawlInv, HolderInv

LEMMA PingedMoves ==
  ASSUME CrawlInv, setup' = setup, NEW w \in Workers, OnlyMoves(w)
  PROVE  Pinged' = (Pinged \ PingOf(wk[w])) \cup PingOf(wk'[w])
<1>1. Nodes' = Nodes
  BY DEF Nodes
<1>2. wk'[w].pc \in {"begin", "sent"} => wk'[w].n \in Nodes
  BY DEF OnlyMoves, WorkerState
<1>3. Pings(wk[w]) => \A v \in Workers : v # w /\ wk[v].n = wk[w].n => ~ Pings(wk[v])
  BY HolderFacts DEF Pings
<1>4. ASSUME NEW n \in Nodes
      PROVE  n \in Pinged' <=> n \in (Pinged \ PingOf(wk[w])) \cup PingOf(wk'[w])
  <2>1. n \in Pinged <=> \E v \in Workers : wk[v].n = n /\ wk[v].pc \in {"begin", "sent"}
    BY DEF Pinged, Pinging
  <2>2. n \in Pinged' <=> \E v \in Workers : wk'[v].n = n /\ wk'[v].pc \in {"begin", "sent"}
    BY <1>1 DEF Pinged, Pinging
  <2>3. /\ n \in PingOf(wk[w]) <=> wk[w].pc \in {"begin", "sent"} /\ n = wk[w].n
        /\ n \in PingOf(wk'[w]) <=> wk'[w].pc \in {"begin", "sent"} /\ n = wk'[w].n
    BY DEF PingOf, Pings
  <2> QED
    BY <1>3, <2>1, <2>2, <2>3 DEF OnlyMoves, Pings
<1>5. Pinged \subseteq Nodes /\ Pinged' \subseteq Nodes /\ PingOf(wk'[w]) \subseteq Nodes
  BY <1>1, <1>2 DEF Pinged, PingOf, Pings
<1> QED
  BY <1>4, <1>5

LEMMA HolderMoves ==
  ASSUME CrawlInv, setup' = setup, NEW w \in Workers, OnlyMoves(w),
         \A n \in Nodes : /\ reg'[n].known = reg[n].known /\ (reg'[n].due => reg[n].due)
                          /\ reg'[n].queued => reg[n].queued /\ reg'[n].due
                          /\ reg'[n].up => reg'[n].known,
         wk'[w].n \in Nodes => reg[wk'[w].n].known,
         Pings(wk'[w]) => \A v \in Workers : v # w /\ wk[v].n = wk'[w].n => ~ Pings(wk[v]),
         Opens(wk'[w]) /\ wk'[w].n \notin rushed =>
           \A v \in Workers : v # w /\ wk[v].n = wk'[w].n => ~ Opens(wk[v]),
         wk'[w].pc = "report" /\ wk'[w].n \notin rushed => ~ reg'[wk'[w].n].due
  PROVE  HolderInv'
<1>1. Nodes' = Nodes
  BY DEF Nodes
<1>2. \A n \in Nodes : (reg'[n].queued => reg'[n].known /\ reg'[n].due) /\ (reg'[n].up => reg'[n].known)
  BY DEF CrawlInv, HolderInv
<1>3. \A v \in Workers : wk'[v].pc \in {"idle", "ended"} <=> wk'[v].n = 0
  BY DEF OnlyMoves, CrawlInv, HolderInv
<1>4. \A u, v \in Workers : wk'[u].n = wk'[v].n /\ Pings(wk'[u]) /\ Pings(wk'[v]) => u = v
  BY DEF OnlyMoves, CrawlInv, HolderInv
<1>7. \A u, v \in Workers :
        wk'[u].n = wk'[v].n /\ Opens(wk'[u]) /\ Opens(wk'[v]) /\ wk'[u].n \notin rushed' => u = v
  BY DEF OnlyMoves, CrawlInv, HolderInv
<1>5. \A v \in Workers : wk'[v].n \in Nodes => reg'[wk'[v].n].known
  BY DEF OnlyMoves, CrawlInv, HolderInv
<1>6. ASSUME NEW v \in Workers, wk'[v].pc = "report", wk'[v].n \notin rushed'
      PROVE  ~ reg'[wk'[v].n].due
  <2>1. CASE v = w
    BY <1>6, <2>1 DEF OnlyMoves
  <2>2. CASE v # w
    <3>1. wk'[v] = wk[v]
      BY <2>2 DEF OnlyMoves
    <3>2. wk[v].n \in Nodes
      BY <1>6, <3>1, HolderFacts
    <3> QED
      BY <1>6, <3>1, <3>2 DEF CrawlInv, HolderInv, OnlyMoves
  <2> QED
    BY <2>1, <2>2
<1> QED
  BY <1>1, <1>2, <1>3, <1>4, <1>5, <1>6, <1>7 DEF HolderInv, Pings, Opens

\* Nothing is to be reported before the step or after it.
LEMMA LogKept ==
  ASSUME CrawlInv, setup' = setup, NEW w \in Workers, OnlyMoves(w), log' = log,
         wk[w].pc # "report", wk'[w].pc # "report", \A n \in Nodes : reg'[n].up = reg[n].up
  PROVE  LogInv'
<1>1. Nodes' = Nodes
  BY DEF Nodes
<1>2. \A n \in Nodes : /\ Reporting(n)' = Reporting(n)
                       /\ \A v \in Reporting(n) : wk'[v].ev = wk[v].ev
  BY DEF Reporting, OnlyMoves
<1>3. rushed' = rushed
  BY DEF OnlyMoves
<1> QED
  BY <1>1, <1>2, <1>3 DEF CrawlInv, LogInv

LEMMA ObservedKnown ==
  ASSUME reg \in [Nodes -> Entry], NEW n \in Nodes, reg[n].known, NEW seq \in Nat, reg' = Observed(n, seq)
  PROVE  /\ reg' \in [Nodes -> Entry]
         /\ \A m \in Nodes : /\ reg'[m].queued = reg[m].queued /\ reg'[m].up = reg[m].up
                             /\ reg'[m].known = reg[m].known /\ reg'[m].due = reg[m].due
<1>1. reg' = [reg EXCEPT ![n].seq = seq] \/ reg' = reg
  BY DEF Observed
<1> QED
  BY <1>1 DEF Entry

LEMMA WorkerEndsStep ==
  ASSUME CrawlInv, NEW w \in Workers, WorkerEnds(w)
  PROVE  CrawlInv'
<1>1. /\ wk' = [wk EXCEPT ![w].pc = "ended"] /\ wk[w].pc = "idle" /\ wk[w].n = 0
      /\ UNCHANGED <<setup, reg, live, dead, dueLive, dueDead, lpc, log, rushed>>
  BY DEF WorkerEnds, CrawlInv, HolderInv, loopVars, pingElse, mainVars
<1>2. Nodes' = Nodes /\ WorkerState' = WorkerState /\ 0 \notin Nodes
  BY <1>1, NetworkFacts DEF Nodes, WorkerState, CrawlInv, TypeOK
<1>3. OnlyMoves(w) /\ wk'[w].pc = "ended" /\ wk'[w].n = 0
  BY <1>1, ZenonT(60) DEF OnlyMoves, CrawlInv, TypeOK, WorkerState
<1>4. Pinged' = Pinged
  BY <1>1, <1>3, PingedMoves DEF PingOf, Pings
<1>5. PlaceInv'
  BY <1>1, <1>2, <1>4 DEF CrawlInv, PlaceInv
<1>6. HolderInv'
  BY <1>1, <1>2, <1>3, HolderMoves DEF CrawlInv, HolderInv, Pings, Opens
<1>7. LogInv'
  BY <1>1, <1>3, LogKept
<1>8. TypeOK'
  BY <1>1, <1>2, <1>3 DEF CrawlInv, TypeOK, OnlyMoves
<1> QED
  BY <1>5, <1>6, <1>7, <1>8 DEF CrawlInv

LEMMA TakeStep ==
  ASSUME CrawlInv, NEW w \in Workers, Take(w)
  PROVE  CrawlInv'
<1>0. PICK n : /\ wk' = [wk EXCEPT ![w].pc = "begin", ![w].n = n]
               /\ \/ live # <<>> /\ n = Head(live) /\ live' = Tail(live) /\ dead' = dead
                  \/ dead # <<>> /\ n = Head(dead) /\ dead' = Tail(dead) /\ live' = live
  BY DEF Take
<1>1. wk[w].pc = "idle" /\ wk[w].n = 0 /\ UNCHANGED <<setup, reg, dueLive, dueDead, lpc, log, rushed>>
  BY DEF Take, CrawlInv, HolderInv, pingElse, mainVars
<1>2. Nodes' = Nodes /\ WorkerState' = WorkerState /\ 0 \notin Nodes
  BY <1>1, NetworkFacts DEF Nodes, WorkerState, CrawlInv, TypeOK
<1>3. /\ n \in Nodes /\ live' \in Seq(Nodes) /\ dead' \in Seq(Nodes) /\ Distinct(live') /\ Distinct(dead')
      /\ \/ n \in Elems(live) /\ Elems(live') = Elems(live) \ {n} /\ Elems(dead') = Elems(dead)
         \/ n \in Elems(dead) /\ Elems(dead') = Elems(dead) \ {n} /\ Elems(live') = Elems(live)
  <2>1. live \in Seq(Nodes) /\ dead \in Seq(Nodes) /\ Distinct(live) /\ Distinct(dead)
    BY DEF CrawlInv, TypeOK, PlaceInv
  <2>2. CASE live # <<>> /\ n = Head(live) /\ live' = Tail(live) /\ dead' = dead
    BY <2>1, <2>2, TailFacts
  <2>3. CASE dead # <<>> /\ n = Head(dead) /\ dead' = Tail(dead) /\ live' = live
    BY <2>1, <2>3, TailFacts
  <2> QED
    BY <1>0, <2>2, <2>3
<1>4. OnlyMoves(w) /\ wk'[w].pc = "begin" /\ wk'[w].n = n
  <2>1. wk[w] \in WorkerState /\ wk \in [Workers -> WorkerState]
    BY DEF CrawlInv, TypeOK
  <2> DEFINE x == [wk[w] EXCEPT !.pc = "begin", !.n = n]
  <2>2. x \in WorkerState /\ x.pc = "begin" /\ x.n = n
    BY <1>3, <2>1 DEF WorkerState
  <2>3. wk' = [wk EXCEPT ![w] = x]
    BY <1>0, <2>1
  <2> HIDE DEF x
  <2>4. wk' \in [Workers -> WorkerState] /\ wk'[w] = x /\ \A v \in Workers : v # w => wk'[v] = wk[v]
    BY <2>1, <2>2, <2>3
  <2> QED
    BY <1>1, <1>2, <1>3, <2>2, <2>4 DEF OnlyMoves
<1>5. Pinged' = Pinged \cup {n}
  BY <1>1, <1>4, PingedMoves DEF PingOf, Pings
<1>6. PlaceInv'
  BY <1>1, <1>2, <1>3, <1>5 DEF CrawlInv, PlaceInv
<1>7. reg[n].queued /\ n \notin Pinged
  BY <1>3 DEF CrawlInv, PlaceInv
<1>8. ASSUME NEW v \in Workers, wk[v].n = n
      PROVE  ~ Pings(wk[v]) /\ (n \notin rushed => ~ Opens(wk[v]))
  <2>1. ~ Pings(wk[v])
    BY <1>3, <1>7, <1>8 DEF Pinged, Pinging, Pings
  <2>2. n \notin rushed => wk[v].pc # "report"
    BY <1>3, <1>7, <1>8 DEF CrawlInv, HolderInv
  <2> QED
    BY <2>1, <2>2 DEF Pings, Opens
<1>9. HolderInv'
  BY <1>1, <1>2, <1>3, <1>4, <1>7, <1>8, HolderMoves DEF CrawlInv, HolderInv
<1>10. LogInv'
  BY <1>1, <1>4, LogKept
<1>11. TypeOK'
  BY <1>1, <1>2, <1>3, <1>4 DEF CrawlInv, TypeOK, OnlyMoves
<1> QED
  BY <1>6, <1>9, <1>10, <1>11 DEF CrawlInv

LEMMA BeginStep ==
  ASSUME CrawlInv, NEW w \in Workers, Begin(w)
  PROVE  CrawlInv'
<1>1. /\ wk' = [wk EXCEPT ![w].pc = "sent", ![w].fast = Fast(wk[w].n)] /\ wk[w].pc = "begin"
      /\ UNCHANGED <<setup, reg, live, dead, dueLive, dueDead, lpc, log, rushed>>
  BY DEF Begin, loopVars, pingElse, mainVars
<1>2. Nodes' = Nodes /\ WorkerState' = WorkerState /\ 0 \notin Nodes
  BY <1>1, NetworkFacts DEF Nodes, WorkerState, CrawlInv, TypeOK
<1>3. /\ wk[w].n \in Nodes /\ reg[wk[w].n].known
      /\ \A v \in Workers : v # w /\ wk[v].n = wk[w].n => ~ Pings(wk[v])
      /\ wk[w].n \notin rushed => \A v \in Workers : v # w /\ wk[v].n = wk[w].n => ~ Opens(wk[v])
  BY <1>1, HolderFacts DEF Pings, Opens
<1>4. Fast(wk[w].n) \in BOOLEAN
  BY <1>3 DEF Fast, CrawlInv, TypeOK, Entry
<1>5. OnlyMoves(w) /\ wk'[w].pc = "sent" /\ wk'[w].n = wk[w].n
  <2>1. wk[w] \in WorkerState /\ wk \in [Workers -> WorkerState]
    BY DEF CrawlInv, TypeOK
  <2> DEFINE x == [wk[w] EXCEPT !.pc = "sent", !.fast = Fast(wk[w].n)]
  <2>2. x \in WorkerState /\ x.pc = "sent" /\ x.n = wk[w].n
    BY <1>4, <2>1 DEF WorkerState
  <2>3. wk' = [wk EXCEPT ![w] = x]
    BY <1>1, <2>1
  <2> HIDE DEF x
  <2>4. wk' \in [Workers -> WorkerState] /\ wk'[w] = x /\ \A v \in Workers : v # w => wk'[v] = wk[v]
    BY <2>1, <2>2, <2>3
  <2> QED
    BY <1>1, <1>2, <1>3, <2>2, <2>4 DEF OnlyMoves
<1>6. wk[w].n \in Pinged
  BY <1>1, <1>3 DEF Pinged, Pinging
<1>7. Pinged' = Pinged
  <2>1. PingOf(wk[w]) = {wk[w].n} /\ PingOf(wk'[w]) = {wk[w].n}
    BY <1>1, <1>5 DEF PingOf, Pings
  <2>2. Pinged' = (Pinged \ PingOf(wk[w])) \cup PingOf(wk'[w])
    BY <1>1, <1>5, PingedMoves
  <2> QED
    BY <1>6, <2>1, <2>2
<1>8. PlaceInv'
  BY <1>1, <1>2, <1>7 DEF CrawlInv, PlaceInv
<1>9. HolderInv'
  BY <1>1, <1>2, <1>3, <1>5, HolderMoves DEF CrawlInv, HolderInv
<1>10. LogInv'
  BY <1>1, <1>5, LogKept
<1>11. TypeOK'
  BY <1>1, <1>2, <1>5 DEF CrawlInv, TypeOK, OnlyMoves
<1> QED
  BY <1>8, <1>9, <1>10, <1>11 DEF CrawlInv

LEMMA RefreshStep ==
  ASSUME CrawlInv, NEW w \in Workers, Refresh(w)
  PROVE  CrawlInv'
<1>1. /\ wk' = [wk EXCEPT ![w] = IdleWorker] /\ wk[w].pc = "refresh"
      /\ UNCHANGED <<setup, live, dead, dueLive, dueDead, lpc, log, rushed>>
      /\ reg' = reg \/ \E seq \in 0..MaxSeq : reg' = Observed(wk[w].n, seq)
  BY DEF Refresh, loopVars, pingElse, mainVars
<1>2. Nodes' = Nodes /\ WorkerState' = WorkerState /\ 0 \notin Nodes /\ MaxSeq \in Nat
  BY <1>1, NetworkFacts DEF Nodes, WorkerState, CrawlInv, TypeOK
<1>3. wk[w].n \in Nodes /\ reg[wk[w].n].known
  BY <1>1, HolderFacts
<1>4. /\ reg' \in [Nodes -> Entry]
      /\ \A m \in Nodes : /\ reg'[m].queued = reg[m].queued /\ reg'[m].up = reg[m].up
                          /\ reg'[m].known = reg[m].known /\ reg'[m].due = reg[m].due
  <2>1. reg \in [Nodes -> Entry]
    BY DEF CrawlInv, TypeOK
  <2>2. CASE reg' = reg
    BY <2>1, <2>2
  <2>3. ASSUME NEW seq \in 0..MaxSeq, reg' = Observed(wk[w].n, seq)
        PROVE  <1>4!1 /\ <1>4!2
    <3>1. seq \in Nat
      BY <1>2
    <3> QED
      BY <1>3, <2>1, <2>3, <3>1, ObservedKnown
  <2> QED
    BY <1>1, <2>2, <2>3
<1>5. OnlyMoves(w) /\ wk'[w].pc = "idle" /\ wk'[w].n = 0
  BY <1>1 DEF OnlyMoves, IdleWorker, CrawlInv, TypeOK, WorkerState
<1>6. Pinged' = Pinged
  BY <1>1, <1>5, PingedMoves DEF PingOf, Pings
<1>7. {m \in Nodes : reg'[m].queued} = {m \in Nodes : reg[m].queued}
  BY <1>4
<1>8. PlaceInv'
  BY <1>1, <1>2, <1>6, <1>7 DEF CrawlInv, PlaceInv
<1>9. HolderInv'
  BY <1>1, <1>2, <1>4, <1>5, HolderMoves DEF CrawlInv, HolderInv, Pings, Opens
<1>10. LogInv'
  BY <1>1, <1>4, <1>5, LogKept
<1>11. TypeOK'
  BY <1>1, <1>2, <1>4, <1>5 DEF CrawlInv, TypeOK, OnlyMoves
<1> QED
  BY <1>8, <1>9, <1>10, <1>11 DEF CrawlInv

\* A ping has come to its end: the node is no longer queued, and the event to
\* report is the change of its state.
LEMMA PingEnds ==
  ASSUME CrawlInv, NEW w \in Workers, wk[w].pc = "sent",
         UNCHANGED <<setup, live, dead, dueLive, dueDead, lpc, log>>,
         OnlyMoves(w), wk'[w].pc = "report", wk'[w].n = wk[w].n, reg' \in [Nodes -> Entry],
         \A m \in Nodes : m # wk[w].n => reg'[m] = reg[m],
         reg'[wk[w].n].known = reg[wk[w].n].known,
         ~ reg'[wk[w].n].queued, ~ reg'[wk[w].n].due,
         wk'[w].ev = "none" => reg'[wk[w].n].up = reg[wk[w].n].up,
         wk'[w].ev = "up" => reg'[wk[w].n].up /\ ~ reg[wk[w].n].up,
         wk'[w].ev = "down" => ~ reg'[wk[w].n].up /\ reg[wk[w].n].up
  PROVE  CrawlInv'
<1> DEFINE n == wk[w].n
<1>1. /\ n \in Nodes /\ reg[n].known
      /\ n \notin rushed => \A v \in Workers : v # w /\ wk[v].n = n => ~ Opens(wk[v])
  BY HolderFacts DEF Opens
<1>2. Nodes' = Nodes /\ WorkerState' = WorkerState
  BY DEF Nodes, WorkerState
<1>3. /\ wk'[w].n = n /\ reg'[n].known /\ ~ reg'[n].queued /\ ~ reg'[n].due
      /\ \A m \in Nodes : m # n => reg'[m] = reg[m]
  BY <1>1
<1>4. PingOf(wk[w]) = {n} /\ PingOf(wk'[w]) = {} /\ ~ Pings(wk'[w]) /\ Opens(wk'[w])
  BY DEF PingOf, Pings, Opens
<1> HIDE DEF n
<1>5. Pinged' = Pinged \ {n}
  BY <1>4, PingedMoves
<1>6. n \in Pinged
  BY <1>1 DEF Pinged, Pinging, n
<1>7. {m \in Nodes : reg'[m].queued} = {m \in Nodes : reg[m].queued} \ {n}
  BY <1>1, <1>3
<1>8. PlaceInv'
  BY <1>2, <1>5, <1>6, <1>7 DEF CrawlInv, PlaceInv
<1>9. HolderInv'
  <2>1. \A m \in Nodes : /\ reg'[m].known = reg[m].known /\ (reg'[m].due => reg[m].due)
                         /\ reg'[m].queued => reg[m].queued /\ reg'[m].due
                         /\ reg'[m].up => reg'[m].known
    BY <1>1, <1>3, ZenonT(60) DEF CrawlInv, HolderInv, TypeOK, Entry
  <2> QED
    BY <1>1, <1>3, <1>4, <2>1, HolderMoves
<1>10. LogInv'
  <2>1. n \notin rushed => Reporting(n) = {}
    BY <1>1 DEF Reporting, Opens, n
  <2>2. n \notin rushed => \A m \in Nodes : m = n => Reporting(m)' = {w}
    BY <1>1, <1>3 DEF Reporting, OnlyMoves, Opens
  <2>3. n \notin rushed => Alternates(log[n]) /\ (reg[n].up <=> Odd(log[n]))
    BY <1>1, <2>1 DEF CrawlInv, LogInv
  <2>4. \A m \in Nodes : m # n => /\ Reporting(m)' = Reporting(m)
                                  /\ \A v \in Reporting(m) : wk'[v].ev = wk[v].ev
    BY <1>1, <1>3 DEF Reporting, OnlyMoves, n
  <2>5. n \notin rushed =>
        /\ Alternates(log'[n])
        /\ wk'[w].ev = "none" => (reg'[n].up <=> Odd(log'[n]))
        /\ wk'[w].ev = "up" => reg'[n].up /\ ~ Odd(log'[n])
        /\ wk'[w].ev = "down" => ~ reg'[n].up /\ Odd(log'[n])
    BY <2>3 DEF n
  <2>6. ASSUME NEW m \in Nodes \ rushed, m # n
        PROVE  /\ Alternates(log'[m])
               /\ Reporting(m)' = {} => (reg'[m].up <=> Odd(log'[m]))
               /\ \A v \in Reporting(m)' :
                    /\ wk'[v].ev = "none" => (reg'[m].up <=> Odd(log'[m]))
                    /\ wk'[v].ev = "up" => reg'[m].up /\ ~ Odd(log'[m])
                    /\ wk'[v].ev = "down" => ~ reg'[m].up /\ Odd(log'[m])
    BY <1>3, <2>4, <2>6 DEF CrawlInv, LogInv
  <2>7. ASSUME NEW m \in Nodes \ rushed
        PROVE  /\ Alternates(log'[m])
               /\ Reporting(m)' = {} => (reg'[m].up <=> Odd(log'[m]))
               /\ \A v \in Reporting(m)' :
                    /\ wk'[v].ev = "none" => (reg'[m].up <=> Odd(log'[m]))
                    /\ wk'[v].ev = "up" => reg'[m].up /\ ~ Odd(log'[m])
                    /\ wk'[v].ev = "down" => ~ reg'[m].up /\ Odd(log'[m])
    <3>1. CASE m = n
      BY <2>2, <2>5, <3>1
    <3>2. CASE m # n
      BY <2>6, <3>2
    <3> QED
      BY <3>1, <3>2
  <2> QED
    BY <1>2, <2>7 DEF LogInv, Alternates, Odd, OnlyMoves
<1>11. TypeOK'
  BY <1>2 DEF CrawlInv, TypeOK, OnlyMoves
<1> QED
  BY <1>8, <1>9, <1>10, <1>11 DEF CrawlInv

\* What an answer, or its absence, does.
Answered(w) ==
  /\ wk[w].pc = "sent" /\ OnlyMoves(w) /\ wk'[w].pc = "report" /\ wk'[w].n = wk[w].n
  /\ UNCHANGED <<setup, live, dead, dueLive, dueDead, lpc, log, mpc, final>>
  /\ reg' \in [Nodes -> Entry] /\ \A m \in Nodes : m # wk[w].n => reg'[m] = reg[m]
  /\ reg'[wk[w].n].known = reg[wk[w].n].known
  /\ ~ reg'[wk[w].n].queued /\ ~ reg'[wk[w].n].due
  /\ wk'[w].ev = "none" => reg'[wk[w].n].up = reg[wk[w].n].up
  /\ wk'[w].ev = "up" => reg'[wk[w].n].up /\ ~ reg[wk[w].n].up
  /\ wk'[w].ev = "down" => ~ reg'[wk[w].n].up /\ reg[wk[w].n].up

LEMMA PongMoves ==
  ASSUME CrawlInv, NEW w \in Workers, Pong(w)
  PROVE  /\ Answered(w)
         /\ reg'[wk[w].n].everUp = TRUE /\ reg'[wk[w].n].attempts = reg[wk[w].n].attempts
<1> DEFINE n == wk[w].n
<1>1. PICK newer \in BOOLEAN :
        wk' = [wk EXCEPT ![w].pc = "report", ![w].refresh = newer,
                         ![w].ev = IF reg[n].up THEN "none" ELSE "up"]
  BY DEF Pong
<1>2. /\ wk[w].pc = "sent"
      /\ UNCHANGED <<setup, live, dead, dueLive, dueDead, lpc, log, rushed, mpc, final>>
      /\ reg' = [reg EXCEPT ![n].misses = 0, ![n].up = TRUE, ![n].everUp = TRUE,
                            ![n].due = FALSE, ![n].queued = FALSE]
  BY DEF Pong, loopVars, pingElse, mainVars
<1>3. n \in Nodes
  BY <1>2, HolderFacts
<1>4. reg \in [Nodes -> Entry] /\ wk \in [Workers -> WorkerState] /\ 0 \notin Nodes
  BY NetworkFacts DEF CrawlInv, TypeOK
<1>5. wk[w] \in WorkerState /\ reg[n] \in Entry
  BY <1>3, <1>4
<1> DEFINE x == [wk[w] EXCEPT !.pc = "report", !.refresh = newer,
                              !.ev = IF reg[n].up THEN "none" ELSE "up"]
<1> DEFINE y == [reg[n] EXCEPT !.misses = 0, !.up = TRUE, !.everUp = TRUE, !.due = FALSE, !.queued = FALSE]
<1>6. /\ x \in WorkerState /\ x.pc = "report" /\ x.n = n
      /\ x.ev = IF reg[n].up THEN "none" ELSE "up"
  BY <1>5 DEF WorkerState
<1>7. /\ y \in Entry /\ y.known = reg[n].known /\ y.up = TRUE /\ y.queued = FALSE /\ y.due = FALSE
      /\ y.everUp = TRUE /\ y.attempts = reg[n].attempts
  BY <1>5 DEF Entry
<1>8. wk' = [wk EXCEPT ![w] = x] /\ reg' = [reg EXCEPT ![n] = y]
  BY <1>1, <1>2, <1>3, <1>4
<1>9. reg[n].up \in BOOLEAN
  BY <1>5 DEF Entry
<1> HIDE DEF x, y, n
<1>10. /\ wk' \in [Workers -> WorkerState] /\ wk'[w] = x /\ \A v \in Workers : v # w => wk'[v] = wk[v]
       /\ reg' \in [Nodes -> Entry] /\ reg'[n] = y /\ \A m \in Nodes : m # n => reg'[m] = reg[m]
  BY <1>3, <1>4, <1>6, <1>7, <1>8
<1>11. OnlyMoves(w)
  BY <1>2, <1>3, <1>4, <1>6, <1>10 DEF OnlyMoves
<1>12. /\ wk'[w].ev = "none" => reg'[n].up = reg[n].up
       /\ wk'[w].ev = "up" => reg'[n].up /\ ~ reg[n].up
       /\ wk'[w].ev = "down" => ~ reg'[n].up /\ reg[n].up
  BY <1>6, <1>7, <1>9, <1>10
<1> QED
  BY <1>2, <1>6, <1>7, <1>10, <1>11, <1>12 DEF n, Answered

LEMMA MissMoves ==
  ASSUME CrawlInv, NEW w \in Workers, Miss(w)
  PROVE  /\ Answered(w)
         /\ reg'[wk[w].n].everUp = reg[wk[w].n].everUp
         /\ reg'[wk[w].n].attempts = IF reg[wk[w].n].everUp THEN reg[wk[w].n].attempts
                                     ELSE reg[wk[w].n].attempts + 1
<1> DEFINE n == wk[w].n
<1>1. PICK down \in {FALSE, GoesDown(n)} :
        /\ reg' = [reg EXCEPT ![n].misses = @ + 1,
                              ![n].attempts = IF reg[n].everUp THEN @ ELSE @ + 1,
                              ![n].up = @ /\ ~ down, ![n].due = FALSE, ![n].queued = FALSE]
        /\ wk' = [wk EXCEPT ![w].pc = "report", ![w].ev = IF down THEN "down" ELSE "none"]
  BY DEF Miss
<1>2. /\ wk[w].pc = "sent"
      /\ UNCHANGED <<setup, live, dead, dueLive, dueDead, lpc, log, rushed, mpc, final>>
  BY DEF Miss, loopVars, pingElse, mainVars
<1>3. n \in Nodes
  BY <1>2, HolderFacts
<1>4. reg \in [Nodes -> Entry] /\ wk \in [Workers -> WorkerState] /\ 0 \notin Nodes
  BY NetworkFacts DEF CrawlInv, TypeOK
<1>5. wk[w] \in WorkerState /\ reg[n] \in Entry
  BY <1>3, <1>4
<1>6. down \in BOOLEAN /\ (down => reg[n].up)
  BY <1>5 DEF GoesDown, Entry
<1> DEFINE x == [wk[w] EXCEPT !.pc = "report", !.ev = IF down THEN "down" ELSE "none"]
<1> DEFINE y == [reg[n] EXCEPT !.misses = @ + 1, !.attempts = IF reg[n].everUp THEN @ ELSE @ + 1,
                               !.up = @ /\ ~ down, !.due = FALSE, !.queued = FALSE]
<1>7. /\ x \in WorkerState /\ x.pc = "report" /\ x.n = n
      /\ x.ev = IF down THEN "down" ELSE "none"
  BY <1>5 DEF WorkerState
<1>8. /\ y \in Entry /\ y.known = reg[n].known /\ y.up = (reg[n].up /\ ~ down)
      /\ y.queued = FALSE /\ y.due = FALSE /\ y.everUp = reg[n].everUp
      /\ y.attempts = IF reg[n].everUp THEN reg[n].attempts ELSE reg[n].attempts + 1
  <2>1. /\ reg[n].misses + 1 \in Nat /\ (IF reg[n].everUp THEN reg[n].attempts ELSE reg[n].attempts + 1) \in Nat
        /\ (reg[n].up /\ ~ down) \in BOOLEAN
    BY <1>5, <1>6 DEF Entry
  <2> DEFINE i == reg[n].misses + 1
             j == IF reg[n].everUp THEN reg[n].attempts ELSE reg[n].attempts + 1
             b == reg[n].up /\ ~ down
  <2>2. y = [reg[n] EXCEPT !.misses = i, !.attempts = j, !.up = b, !.due = FALSE, !.queued = FALSE]
    BY <1>5 DEF Entry
  <2>3. i \in Nat /\ j \in Nat /\ b \in BOOLEAN
    BY <2>1
  <2> HIDE DEF i, j, b, y
  <2>4. /\ y \in Entry /\ y.known = reg[n].known /\ y.up = b /\ y.queued = FALSE /\ y.due = FALSE
        /\ y.everUp = reg[n].everUp /\ y.attempts = j
    BY <1>5, <2>2, <2>3 DEF Entry
  <2> QED
    BY <2>4 DEF b, j
<1>9. wk' = [wk EXCEPT ![w] = x] /\ reg' = [reg EXCEPT ![n] = y]
  BY <1>1, <1>3, <1>4
<1>10. reg[n].up \in BOOLEAN
  BY <1>5 DEF Entry
<1> HIDE DEF x, y, n
<1>11. /\ wk' \in [Workers -> WorkerState] /\ wk'[w] = x /\ \A v \in Workers : v # w => wk'[v] = wk[v]
       /\ reg' \in [Nodes -> Entry] /\ reg'[n] = y /\ \A m \in Nodes : m # n => reg'[m] = reg[m]
  BY <1>3, <1>4, <1>7, <1>8, <1>9
<1>12. OnlyMoves(w)
  BY <1>2, <1>3, <1>4, <1>7, <1>11 DEF OnlyMoves
<1>13. /\ wk'[w].ev = "none" => reg'[n].up = reg[n].up
       /\ wk'[w].ev = "up" => reg'[n].up /\ ~ reg[n].up
       /\ wk'[w].ev = "down" => ~ reg'[n].up /\ reg[n].up
  BY <1>6, <1>7, <1>8, <1>10, <1>11
<1> QED
  BY <1>2, <1>7, <1>8, <1>11, <1>12, <1>13 DEF n, Answered

LEMMA AnswerEnds ==
  ASSUME CrawlInv, NEW w \in Workers, Pong(w) \/ Miss(w)
  PROVE  CrawlInv'
<1>1. Answered(w)
  BY PongMoves, MissMoves
<1> QED
  BY <1>1, PingEnds DEF Answered

LEMMA ReportStep ==
  ASSUME CrawlInv, NEW w \in Workers, Report(w)
  PROVE  CrawlInv'
<1> DEFINE n == wk[w].n
<1> DEFINE e == wk[w].ev
<1>1. /\ wk[w].pc = "report" /\ UNCHANGED <<setup, reg, live, dead, dueLive, dueDead, lpc, rushed>>
      /\ log' = IF e = "none" THEN log ELSE [log EXCEPT ![n] = Append(@, e)]
      /\ wk' = [wk EXCEPT ![w] = IF wk[w].refresh THEN [@ EXCEPT !.pc = "refresh"] ELSE IdleWorker]
  BY DEF Report, loopVars, pingElse, mainVars
<1>2. /\ n \in Nodes /\ reg[n].known
      /\ n \notin rushed => \A v \in Workers : v # w /\ wk[v].n = n => ~ Opens(wk[v])
  BY <1>1, HolderFacts DEF Opens
<1>3. /\ reg \in [Nodes -> Entry] /\ wk \in [Workers -> WorkerState] /\ 0 \notin Nodes
      /\ log \in [Nodes -> Seq({"up", "down"})]
  BY NetworkFacts DEF CrawlInv, TypeOK
<1>4. wk[w] \in WorkerState
  BY <1>3
<1>5. Nodes' = Nodes /\ WorkerState' = WorkerState
  BY <1>1 DEF Nodes, WorkerState
<1> DEFINE x == IF wk[w].refresh THEN [wk[w] EXCEPT !.pc = "refresh"] ELSE IdleWorker
<1>6. /\ x \in WorkerState
      /\ (x.pc = "refresh" /\ x.n = n) \/ (x.pc = "idle" /\ x.n = 0)
  BY <1>4 DEF WorkerState, IdleWorker
<1>7. wk' = [wk EXCEPT ![w] = x]
  BY <1>1, <1>3
<1> HIDE DEF x
<1>8. wk' \in [Workers -> WorkerState] /\ wk'[w] = x /\ \A v \in Workers : v # w => wk'[v] = wk[v]
  BY <1>3, <1>6, <1>7
<1>9. OnlyMoves(w)
  BY <1>1, <1>2, <1>3, <1>6, <1>8 DEF OnlyMoves
<1>10. Pinged' = Pinged
  <2>1. PingOf(wk[w]) = {} /\ PingOf(wk'[w]) = {}
    BY <1>1, <1>6, <1>8 DEF PingOf, Pings
  <2> QED
    BY <1>1, <1>9, <2>1, PingedMoves
<1>11. PlaceInv'
  BY <1>1, <1>5, <1>10 DEF CrawlInv, PlaceInv
<1>12. HolderInv'
  <2>1. \A m \in Nodes : /\ reg'[m].known = reg[m].known /\ (reg'[m].due => reg[m].due)
                         /\ reg'[m].queued => reg[m].queued /\ reg'[m].due
                         /\ reg'[m].up => reg'[m].known
    BY <1>1 DEF CrawlInv, HolderInv
  <2>2. wk'[w].n \in Nodes => wk'[w].n = n
    BY <1>3, <1>6, <1>8
  <2>3. ~ Pings(wk'[w]) /\ ~ Opens(wk'[w]) /\ wk'[w].pc # "report"
    BY <1>6, <1>8 DEF Pings, Opens
  <2> QED
    BY <1>1, <1>2, <1>9, <2>1, <2>2, <2>3, HolderMoves
<1>13. e \in {"none", "up", "down"} /\ w \in Reporting(n)
  BY <1>1, <1>4 DEF WorkerState, Reporting
<1>14. n \notin rushed =>
       /\ Alternates(log[n]) /\ (e = "none" => (reg[n].up <=> Odd(log[n])))
       /\ (e = "up" => reg[n].up /\ ~ Odd(log[n])) /\ (e = "down" => ~ reg[n].up /\ Odd(log[n]))
  BY <1>2, <1>13 DEF CrawlInv, LogInv
<1>15. n \notin rushed => \A m \in Nodes : m = n => Reporting(m)' = {}
  BY <1>2, <1>6, <1>8 DEF Reporting, Opens
<1>16. \A m \in Nodes : m # n => /\ Reporting(m)' = Reporting(m)
                                 /\ \A v \in Reporting(m) : wk'[v].ev = wk[v].ev
  BY <1>2, <1>6, <1>8 DEF Reporting
<1> HIDE DEF e, n
<1>17. /\ log' \in [Nodes -> Seq({"up", "down"})] /\ \A m \in Nodes : m # n => log'[m] = log[m]
       /\ n \notin rushed => Alternates(log'[n]) /\ (reg[n].up <=> Odd(log'[n]))
  <2>1. CASE e = "none"
    BY <1>1, <1>3, <1>14, <2>1
  <2>2. CASE e # "none"
    <3>1. log' = [log EXCEPT ![n] = Append(log[n], e)]
      BY <1>1, <2>2
    <3>2. /\ Append(log[n], e) \in Seq({"up", "down"})
          /\ n \notin rushed => /\ Alternates(Append(log[n], e))
                                /\ Odd(Append(log[n], e)) <=> ~ Odd(log[n])
      <4>1. log[n] \in Seq({"up", "down"}) /\ e \in {"up", "down"}
        BY <1>2, <1>3, <1>13, <2>2
      <4>2. n \notin rushed => (e = "up" <=> ~ Odd(log[n]))
        BY <1>13, <1>14, <2>2
      <4> QED
        BY <1>14, <4>1, <4>2, AppendEvent
    <3>3. log'[n] = Append(log[n], e)
      BY <1>2, <1>3, <3>1
    <3>4. n \notin rushed => (reg[n].up <=> ~ Odd(log[n]))
      BY <1>13, <1>14, <2>2
    <3> QED
      BY <1>2, <1>3, <3>1, <3>2, <3>3, <3>4
  <2> QED
    BY <2>1, <2>2
<1>18. LogInv'
  <2>1. ASSUME NEW m \in Nodes \ rushed
        PROVE  /\ Alternates(log'[m])
               /\ Reporting(m)' = {} => (reg'[m].up <=> Odd(log'[m]))
               /\ \A v \in Reporting(m)' :
                    /\ wk'[v].ev = "none" => (reg'[m].up <=> Odd(log'[m]))
                    /\ wk'[v].ev = "up" => reg'[m].up /\ ~ Odd(log'[m])
                    /\ wk'[v].ev = "down" => ~ reg'[m].up /\ Odd(log'[m])
    <3>1. CASE m = n
      BY <1>1, <1>15, <1>17, <3>1
    <3>2. CASE m # n
      BY <1>1, <1>16, <1>17, <3>2 DEF CrawlInv, LogInv
    <3> QED
      BY <3>1, <3>2
  <2> QED
    BY <1>1, <1>5, <2>1 DEF LogInv, Alternates, Odd
<1>19. TypeOK'
  BY <1>1, <1>5, <1>8, <1>17 DEF CrawlInv, TypeOK
<1> QED
  BY <1>11, <1>12, <1>18, <1>19 DEF CrawlInv

-----------------------------------------------------------------------------
(* The invariant *)

LEMMA InitHolds == Init => CrawlInv
<1> SUFFICES ASSUME Init PROVE CrawlInv
  OBVIOUS
<1>1. setup \in Setups /\ 0 \notin Nodes
  BY NetworkFacts DEF Init
<1>2. /\ reg \in [Nodes -> Entry]
      /\ \A n \in Nodes : ~ reg[n].queued /\ ~ reg[n].up
  BY DEF Init, Unknown, Entry
<1>3. /\ wk \in [Workers -> WorkerState]
      /\ \A w \in Workers : wk[w].pc = "idle" /\ wk[w].n = 0
  BY DEF Init, IdleWorker, WorkerState
<1>4. /\ live = <<>> /\ dead = <<>> /\ dueLive = {} /\ dueDead = {}
      /\ log \in [Nodes -> Seq({"up", "down"})] /\ \A n \in Nodes : log[n] = <<>>
  BY DEF Init
<1>5. TypeOK
  BY <1>1, <1>2, <1>3, <1>4 DEF TypeOK
<1>6. PlaceInv
  <2>1. Elems(live) = {} /\ Elems(dead) = {} /\ Distinct(live) /\ Distinct(dead)
    BY <1>4 DEF Elems, Distinct
  <2>2. Pinged = {}
    BY <1>3 DEF Pinged, Pinging
  <2> QED
    BY <1>2, <1>4, <2>1, <2>2 DEF PlaceInv
<1>7. HolderInv
  BY <1>1, <1>2, <1>3 DEF HolderInv, Pings, Opens
<1>8. LogInv
  <2>1. \A n \in Nodes : Reporting(n) = {}
    BY <1>3 DEF Reporting
  <2>2. Alternates(<<>>) /\ ~ Odd(<<>>)
    BY DEF Alternates, Odd
  <2> QED
    BY <1>2, <1>4, <2>1, <2>2 DEF LogInv
<1> QED
  BY <1>5, <1>6, <1>7, <1>8 DEF CrawlInv

LEMMA LoopStep ==
  ASSUME CrawlInv, LoopProgress
  PROVE  CrawlInv'
<1>1. CASE Offered \/ LoopStops \/ LoopEnds
  <2>1. /\ UNCHANGED <<setup, reg, wk, live, dead, dueLive, dueDead, log, rushed>>
        /\ lpc' = "select" => dueLive = {} /\ dueDead = {}
    BY <1>1 DEF Offered, LoopStops, LoopEnds, loopElse, mainVars
  <2> QED
    BY <2>1, IdleStep
<1> QED
  BY <1>1, TickStep, OfferLiveStep, OfferDeadStep DEF LoopProgress

LEMMA OthersStep ==
  ASSUME CrawlInv,
         SamplerProgress \/ Snapshot \/ PeriodEnds \/ CrawlNode \/ CrawlEnds
  PROVE  CrawlInv'
<1>1. UNCHANGED <<setup, wk, live, dead, dueLive, dueDead, lpc, log, rushed>>
  BY DEF SamplerProgress, SamplerStops, SamplerEnds, AskTable, TableReply, HandOut, Snapshot,
         PeriodEnds, CrawlNode, CrawlEnds, otherElse, loopVars, mainVars
<1>2. reg' = reg \/ \E n \in Nodes, seq \in 0..MaxSeq : reg' = Observed(n, seq)
  BY DEF SamplerProgress, SamplerStops, SamplerEnds, AskTable, TableReply, HandOut, Snapshot,
         PeriodEnds, CrawlNode, CrawlEnds
<1>3. lpc' = "select" => dueLive = {} /\ dueDead = {}
  BY <1>1 DEF CrawlInv, PlaceInv
<1>4. CASE reg' = reg
  BY <1>1, <1>3, <1>4, IdleStep
<1>5. CASE \E n \in Nodes, seq \in 0..MaxSeq : reg' = Observed(n, seq)
  <2>1. QuietReg
    BY <1>1, <1>5, ObservedIsQuiet
  <2> QED
    BY <1>1, <1>3, <2>1, QuietStep
<1> QED
  BY <1>2, <1>4, <1>5

LEMMA MainStep ==
  ASSUME CrawlInv, CloseStop \/ CloseDisc \/ Wait \/ FinalSweep \/ UNCHANGED vars
  PROVE  CrawlInv'
<1>1. UNCHANGED <<setup, reg, wk, live, dead, dueLive, dueDead, lpc, log, rushed>>
  BY DEF CloseStop, CloseDisc, Wait, FinalSweep, mainElse, loopVars, mainVars, vars
<1>2. lpc' = "select" => dueLive = {} /\ dueDead = {}
  BY <1>1 DEF CrawlInv, PlaceInv
<1> QED
  BY <1>1, <1>2, IdleStep

LEMMA WorkersStep ==
  ASSUME CrawlInv, NEW w \in Workers, WorkerStep(w)
  PROVE  CrawlInv'
BY TakeStep, WorkerEndsStep, BeginStep, AnswerEnds, ReportStep, RefreshStep DEF WorkerStep

LEMMA StepHolds == CrawlInv /\ [Next]_vars => CrawlInv'
<1> SUFFICES ASSUME CrawlInv, [Next]_vars PROVE CrawlInv'
  OBVIOUS
<1>1. CASE LoopProgress
  BY <1>1, LoopStep
<1>2. CASE SamplerProgress \/ Snapshot \/ PeriodEnds \/ CrawlNode \/ CrawlEnds
  BY <1>2, OthersStep
<1>3. CASE CloseStop \/ CloseDisc \/ Wait \/ FinalSweep \/ UNCHANGED vars
  BY <1>3, MainStep
<1>4. CASE \E n \in Nodes : Due(n)
  BY <1>4, DueStep
<1>5. CASE \E w \in Workers : WorkerStep(w)
  BY <1>5, WorkersStep
<1> QED
  BY <1>1, <1>2, <1>3, <1>4, <1>5 DEF Next

\* CrawlInv is inductive: it holds of every state of every crawl.
THEOREM CrawlInvariant == Spec => []CrawlInv
BY InitHolds, StepHolds, PTL DEF Spec

-----------------------------------------------------------------------------
(* What follows *)

\* The registry, the workers, the channels and the log keep their types.
THEOREM CrawlTypes == Spec => []TypeOK
<1>1. CrawlInv => TypeOK
  BY DEF CrawlInv
<1> QED
  BY <1>1, CrawlInvariant, PTL

LEMMA CopiesOfDistinct ==
  ASSUME NEW S, NEW q \in Seq(S), Distinct(q), NEW n
  PROVE  Copies(q, n) = One(n \in Elems(q))
<1> DEFINE C == {i \in 1..Len(q) : q[i] = n}
<1>1. CASE n \in Elems(q)
  <2>1. PICK i \in 1..Len(q) : q[i] = n
    BY <1>1 DEF Elems
  <2>2. C = {i}
    BY <2>1 DEF Distinct
  <2> QED
    BY <1>1, <2>2, FS_Singleton DEF Copies, One
<1>2. CASE n \notin Elems(q)
  <2>1. C = {}
    BY <1>2 DEF Elems
  <2> QED
    BY <1>2, <2>1, FS_EmptySet DEF Copies, One
<1> QED
  BY <1>1, <1>2

LEMMA OnePinger ==
  ASSUME CrawlInv, NEW n \in Nodes
  PROVE  Cardinality(Pinging(n)) = One(n \in Pinged)
<1>1. CASE n \in Pinged
  <2>1. PICK w \in Workers : w \in Pinging(n)
    BY <1>1 DEF Pinged, Pinging
  <2>2. Pinging(n) = {w}
    BY <2>1 DEF Pinging, CrawlInv, HolderInv, Pings
  <2> QED
    BY <1>1, <2>2, FS_Singleton DEF One
<1>2. CASE n \notin Pinged
  <2>1. Pinging(n) = {}
    BY <1>2 DEF Pinged
  <2> QED
    BY <1>2, <2>1, FS_EmptySet DEF One
<1> QED
  BY <1>1, <1>2

\* probeLoop, worker and tick: a node is marked as queued exactly while it is
\* about to be offered, in one of the channels or being pinged, and then it is in
\* one of these places once; no two workers ever ping the same node at a time.
THEOREM QueuedInOnePlace == Spec => []QueuedOnce
<1>1. CrawlInv => QueuedOnce
  <2> SUFFICES ASSUME CrawlInv, NEW n \in Nodes
               PROVE  One(reg[n].queued) = One(n \in dueLive) + One(n \in dueDead) + Copies(live, n)
                                           + Copies(dead, n) + Cardinality(Pinging(n))
    BY DEF QueuedOnce
  <2> DEFINE a == n \in dueLive
             b == n \in dueDead
             c == n \in Elems(live)
             d == n \in Elems(dead)
             e == n \in Pinged
  <2>1. Copies(live, n) = One(c) /\ Copies(dead, n) = One(d) /\ Cardinality(Pinging(n)) = One(e)
    BY CopiesOfDistinct, OnePinger DEF CrawlInv, TypeOK, PlaceInv
  <2>2. /\ reg[n].queued <=> a \/ b \/ c \/ d \/ e
        /\ a => ~ b /\ ~ c /\ ~ d /\ ~ e
        /\ b => ~ c /\ ~ d /\ ~ e
        /\ c => ~ d /\ ~ e
        /\ d => ~ e
    BY DEF CrawlInv, PlaceInv
  <2>3. /\ One(reg[n].queued) = IF reg[n].queued THEN 1 ELSE 0
        /\ One(a) = (IF a THEN 1 ELSE 0) /\ One(b) = (IF b THEN 1 ELSE 0)
        /\ One(c) = (IF c THEN 1 ELSE 0) /\ One(d) = (IF d THEN 1 ELSE 0)
        /\ One(e) = (IF e THEN 1 ELSE 0)
    BY DEF One
  <2>4. One(reg[n].queued) = One(a) + One(b) + One(c) + One(d) + One(e)
    <3> HIDE DEF a, b, c, d, e
    <3> QED
      BY <2>2, <2>3
  <2> QED
    BY <2>1, <2>4
<1> QED
  BY <1>1, CrawlInvariant, PTL

-----------------------------------------------------------------------------
(* The last sweep *)

UpNodes == {n \in Nodes : reg[n].up}
EverUpNodes == {n \in Nodes : reg[n].everUp}

\* The last sweep is written when the workers have ended, and what it counts is
\* not changed by what may still happen.
SweepInv ==
  /\ lpc = "ended" => \A w \in Workers : wk[w].pc = "ended"
  /\ mpc \in {"waited", "swept"} => lpc = "ended"
  /\ \A n \in Nodes : /\ (reg[n].up => reg[n].everUp) /\ (reg[n].everUp => reg[n].known)
                      /\ ~ reg[n].known => reg[n].attempts = 0
  /\ mpc = "swept" => final.up = Cardinality(UpNodes) /\ final.everUp = Cardinality(EverUpNodes)

LEMMA ObservedAnswers ==
  ASSUME CrawlInv, SweepInv, NEW n \in Nodes, NEW seq \in 0..MaxSeq, reg' = Observed(n, seq)
  PROVE  \A m \in Nodes : /\ reg'[m].up = reg[m].up /\ reg'[m].everUp = reg[m].everUp
                          /\ reg[m].known => reg'[m].known
                          /\ reg'[m].attempts = reg[m].attempts
<1>1. reg \in [Nodes -> Entry]
  BY DEF CrawlInv, TypeOK
<1>2. CASE ~ reg[n].known
  <2>1. reg' = [reg EXCEPT ![n] = [Unknown EXCEPT !.known = TRUE, !.seq = seq, !.due = TRUE]]
    BY <1>2 DEF Observed
  <2>2. reg[n].up = FALSE /\ reg[n].everUp = FALSE
    <3>1. reg[n].up \in BOOLEAN /\ reg[n].everUp \in BOOLEAN
      BY <1>1 DEF Entry
    <3> QED
      BY <1>2, <3>1 DEF SweepInv
  <2>3. reg[n].attempts = 0
    BY <1>2 DEF SweepInv
  <2> DEFINE e == [Unknown EXCEPT !.known = TRUE, !.seq = seq, !.due = TRUE]
  <2>4. e.up = FALSE /\ e.everUp = FALSE /\ e.attempts = 0
    BY DEF Unknown
  <2>5. reg' = [reg EXCEPT ![n] = e]
    BY <2>1
  <2> HIDE DEF e
  <2>6. reg'[n] = e /\ \A m \in Nodes : m # n => reg'[m] = reg[m]
    BY <1>1, <2>5
  <2> QED
    BY <1>2, <2>2, <2>3, <2>4, <2>6
<1>3. CASE reg[n].known
  <2>1. reg' = [reg EXCEPT ![n].seq = seq] \/ reg' = reg
    BY <1>3 DEF Observed
  <2> QED
    BY <1>1, <2>1 DEF Entry
<1> QED
  BY <1>2, <1>3

\* The steps in which no answer comes in, nor its absence is noted.
Unanswered ==
  \/ LoopProgress \/ SamplerProgress \/ Snapshot \/ PeriodEnds \/ CrawlNode \/ CrawlEnds
  \/ CloseStop \/ CloseDisc \/ Wait \/ FinalSweep \/ UNCHANGED vars
  \/ \E n \in Nodes : Due(n)
  \/ \E w \in Workers : Take(w) \/ WorkerEnds(w) \/ Begin(w) \/ Report(w) \/ Refresh(w)

LEMMA AnswersKept ==
  ASSUME CrawlInv, SweepInv, Unanswered
  PROVE  \A n \in Nodes : /\ reg'[n].up = reg[n].up /\ reg'[n].everUp = reg[n].everUp
                          /\ reg[n].known => reg'[n].known
                          /\ reg'[n].attempts = reg[n].attempts
<1>1. reg \in [Nodes -> Entry]
  BY DEF CrawlInv, TypeOK
<1>2. CASE Tick
  BY <1>1, <1>2 DEF Tick, Entry
<1>3. CASE \E n \in Nodes : OfferDead(n)
  BY <1>1, <1>3 DEF OfferDead, Entry
<1>4. CASE \/ Offered \/ LoopStops \/ LoopEnds \/ (\E n \in Nodes : OfferLive(n))
           \/ CloseStop \/ CloseDisc \/ Wait \/ FinalSweep \/ UNCHANGED vars
  BY <1>4 DEF Offered, LoopStops, LoopEnds, OfferLive, CloseStop, CloseDisc, Wait, FinalSweep,
              mainElse, vars
<1>5. CASE \E n \in Nodes : Due(n)
  BY <1>1, <1>5 DEF Due, Entry
<1>6. CASE SamplerProgress \/ Snapshot \/ PeriodEnds \/ CrawlNode \/ CrawlEnds
  <2>1. reg' = reg \/ \E n \in Nodes, seq \in 0..MaxSeq : reg' = Observed(n, seq)
    BY <1>6 DEF SamplerProgress, SamplerStops, SamplerEnds, AskTable, TableReply, HandOut, Snapshot,
                PeriodEnds, CrawlNode, CrawlEnds
  <2> QED
    BY <2>1, ObservedAnswers
<1>7. CASE \E w \in Workers : Refresh(w)
  BY <1>7, HolderFacts, ObservedAnswers DEF Refresh
<1>8. CASE \E w \in Workers : Take(w) \/ WorkerEnds(w) \/ Begin(w) \/ Report(w)
  BY <1>8 DEF Take, WorkerEnds, Begin, Report
<1> QED
  BY <1>2, <1>3, <1>4, <1>5, <1>6, <1>7, <1>8 DEF Unanswered, LoopProgress

\* A worker is at work, so the loop has not ended and nothing is swept yet.
LEMMA AnswerStep ==
  ASSUME CrawlInv, SweepInv, NEW w \in Workers, Pong(w) \/ Miss(w)
  PROVE  SweepInv'
<1> DEFINE n == wk[w].n
<1>1. /\ wk[w].pc = "sent" /\ UNCHANGED <<setup, lpc, mpc, final>> /\ reg'[n].known = reg[n].known
      /\ \A m \in Nodes : m # n => reg'[m] = reg[m]
  BY PongMoves, MissMoves DEF Answered
<1>2. lpc # "ended" /\ mpc \notin {"waited", "swept"} /\ Nodes' = Nodes
  BY <1>1 DEF SweepInv, Nodes
<1>3. n \in Nodes /\ reg[n].known
  BY <1>1, HolderFacts
<1>4. (reg'[n].up => reg'[n].everUp) /\ reg'[n].known
  <2>1. CASE Pong(w)
    BY <1>1, <1>3, <2>1, PongMoves
  <2>2. CASE Miss(w)
    <3>1. reg'[n].up => reg[n].up
      <4>1. wk'[w].ev \in {"none", "down"}
        <5>1. wk[w] \in WorkerState /\ wk \in [Workers -> WorkerState]
          BY DEF CrawlInv, TypeOK
        <5>2. PICK e \in {"none", "down"} : wk' = [wk EXCEPT ![w].pc = "report", ![w].ev = e]
          BY <2>2 DEF Miss
        <5> QED
          BY <5>1, <5>2 DEF WorkerState
      <4> QED
        BY <2>2, <4>1, MissMoves DEF Answered
    <3> QED
      <4>1. reg'[n].everUp = reg[n].everUp
        BY <2>2, MissMoves
      <4>2. reg[n].up => reg[n].everUp
        BY <1>3 DEF SweepInv
      <4> QED
        BY <1>1, <1>3, <3>1, <4>1, <4>2, Zenon
  <2> QED
    BY <2>1, <2>2
<1> HIDE DEF n
<1>5. \A m \in Nodes : /\ (reg'[m].up => reg'[m].everUp) /\ (reg'[m].everUp => reg'[m].known)
                       /\ ~ reg'[m].known => reg'[m].attempts = 0
  <2> SUFFICES ASSUME NEW m \in Nodes
               PROVE  /\ (reg'[m].up => reg'[m].everUp) /\ (reg'[m].everUp => reg'[m].known)
                      /\ ~ reg'[m].known => reg'[m].attempts = 0
    OBVIOUS
  <2>1. CASE m = n
    BY <1>4, <2>1
  <2>2. CASE m # n
    <3>1. reg'[m] = reg[m]
      BY <1>1, <2>2
    <3> QED
      BY <3>1, Zenon DEF SweepInv
  <2> QED
    BY <2>1, <2>2
<1> QED
  BY <1>1, <1>2, <1>5 DEF SweepInv

LEMMA SweepStep ==
  ASSUME CrawlInv, SweepInv, Unanswered
  PROVE  SweepInv'
<1>1. \A n \in Nodes : /\ reg'[n].up = reg[n].up /\ reg'[n].everUp = reg[n].everUp
                       /\ reg[n].known => reg'[n].known
                       /\ reg'[n].attempts = reg[n].attempts
  BY AnswersKept
<1>2. setup' = setup
  BY DEF Unanswered, LoopProgress, Tick, Offered, LoopStops, LoopEnds, OfferLive, OfferDead, loopElse,
         SamplerProgress, SamplerStops, SamplerEnds, AskTable, TableReply, HandOut, Snapshot,
         PeriodEnds, CrawlNode, CrawlEnds, Due, otherElse, loopVars, mainVars, CloseStop,
         CloseDisc, Wait, FinalSweep, mainElse, vars, Take, WorkerEnds, Begin, Report, Refresh, pingElse
<1>3. Nodes' = Nodes /\ UpNodes' = UpNodes /\ EverUpNodes' = EverUpNodes
  BY <1>1, <1>2 DEF Nodes, UpNodes, EverUpNodes
<1>4. \A n \in Nodes : /\ (reg'[n].up => reg'[n].everUp) /\ (reg'[n].everUp => reg'[n].known)
                       /\ ~ reg'[n].known => reg'[n].attempts = 0
  BY <1>1, ZenonT(60) DEF SweepInv
<1>5. CASE \E w \in Workers : Take(w) \/ WorkerEnds(w) \/ Begin(w) \/ Report(w) \/ Refresh(w)
  <2>1. UNCHANGED <<lpc, mpc, final>> /\ \E w \in Workers : wk[w].pc # "ended"
    BY <1>5 DEF Take, WorkerEnds, Begin, Report, Refresh, loopVars, pingElse, mainVars
  <2> QED
    BY <1>3, <1>4, <2>1 DEF SweepInv
<1>6. CASE LoopProgress
  <2>1. UNCHANGED <<mpc, final, wk>> /\ lpc # "ended"
    BY <1>6 DEF LoopProgress, Tick, Offered, LoopStops, LoopEnds, OfferLive, OfferDead, loopElse, mainVars
  <2>2. lpc' = "ended" => \A w \in Workers : wk[w].pc = "ended"
    BY <1>6 DEF LoopProgress, Tick, Offered, LoopStops, LoopEnds, OfferLive, OfferDead
  <2> QED
    BY <1>3, <1>4, <2>1, <2>2 DEF SweepInv
<1>7. CASE \/ SamplerProgress \/ Snapshot \/ PeriodEnds \/ CrawlNode \/ CrawlEnds
           \/ \E n \in Nodes : Due(n)
  <2>1. UNCHANGED <<mpc, final, wk, lpc>>
    BY <1>7 DEF SamplerProgress, SamplerStops, SamplerEnds, AskTable, TableReply, HandOut, Snapshot,
                PeriodEnds, CrawlNode, CrawlEnds, Due, otherElse, loopVars, mainVars
  <2> QED
    BY <1>3, <1>4, <2>1 DEF SweepInv
<1>8. CASE CloseStop \/ CloseDisc \/ Wait \/ FinalSweep \/ UNCHANGED vars
  <2>1. UNCHANGED <<wk, lpc>>
    BY <1>8 DEF CloseStop, CloseDisc, Wait, FinalSweep, mainElse, loopVars, mainVars, vars
  <2>2. mpc' \in {"waited", "swept"} => lpc = "ended"
    BY <1>8 DEF CloseStop, CloseDisc, Wait, FinalSweep, SweepInv, vars, mainVars
  <2>3. mpc' = "swept" => final'.up = Cardinality(UpNodes) /\ final'.everUp = Cardinality(EverUpNodes)
    BY <1>8 DEF CloseStop, CloseDisc, Wait, FinalSweep, SweepInv, vars, mainVars, UpNodes, EverUpNodes
  <2> QED
    BY <1>3, <1>4, <2>1, <2>2, <2>3 DEF SweepInv
<1> QED
  BY <1>5, <1>6, <1>7, <1>8 DEF Unanswered

\* Every step is one of the two kinds.
LEMMA StepKinds ==
  ASSUME [Next]_vars
  PROVE  Unanswered \/ \E w \in Workers : Pong(w) \/ Miss(w)
BY DEF Next, WorkerStep, Unanswered

LEMMA SweepInvariant == Spec => []SweepInv
<1>1. Init => SweepInv
  BY DEF Init, SweepInv, Unknown
<1>2. CrawlInv /\ SweepInv /\ [Next]_vars => SweepInv'
  BY SweepStep, AnswerStep, StepKinds
<1> QED
  BY <1>1, <1>2, CrawlInvariant, PTL DEF Spec

-----------------------------------------------------------------------------
(* The sessions of the log *)

Ups(n)   == {w \in Reporting(n) : wk[w].ev = "up"}
Downs(n) == {w \in Reporting(n) : wk[w].ev = "down"}

\* Each change of a node's state is in its log or with the worker that writes it.
BalanceInv ==
  \A n \in Nodes : Copies(log[n], "up") + Cardinality(Ups(n))
                     = Copies(log[n], "down") + Cardinality(Downs(n)) + One(reg[n].up)

LEMMA CopiesOfAppend ==
  ASSUME NEW S, NEW q \in Seq(S), NEW e \in S, NEW x
  PROVE  /\ Copies(q, x) \in Nat
         /\ Copies(Append(q, e), x) = Copies(q, x) + One(e = x)
<1> DEFINE r == Append(q, e)
           C == {i \in 1..Len(q) : q[i] = x}
           D == {i \in 1..Len(r) : r[i] = x}
<1>1. /\ Len(r) = Len(q) + 1 /\ Len(q) \in Nat /\ r[Len(q) + 1] = e
      /\ \A i \in 1..Len(q) : r[i] = q[i]
  OBVIOUS
<1>2. 1..Len(r) = 1..Len(q) \cup {Len(q) + 1} /\ Len(q) + 1 \notin 1..Len(q)
  BY <1>1
<1>3. IsFiniteSet(1..Len(q))
  BY <1>1, FS_Interval
<1>4. IsFiniteSet(C)
  BY <1>3, FS_Subset
<1>5. Cardinality(C) \in Nat
  BY <1>4, FS_CardinalityType
<1> HIDE DEF r
<1>6. CASE e = x
  <2>1. D = C \cup {Len(q) + 1} /\ Len(q) + 1 \notin C
    BY <1>1, <1>2, <1>6
  <2>2. Cardinality(D) = Cardinality(C) + 1
    BY <1>4, <2>1, FS_AddElement
  <2> QED
    BY <1>5, <1>6, <2>2 DEF Copies, One, r
<1>7. CASE e # x
  <2>1. D = C
    BY <1>1, <1>2, <1>7
  <2>2. One(e = x) = 0
    BY <1>7 DEF One
  <2>3. Copies(r, x) = Cardinality(D) /\ Copies(q, x) = Cardinality(C)
    BY DEF Copies
  <2> HIDE DEF C, D
  <2> QED
    BY <1>5, <2>1, <2>2, <2>3 DEF r
<1> QED
  BY <1>6, <1>7

LEMMA ReportersFinite ==
  ASSUME NEW n
  PROVE  /\ IsFiniteSet(Ups(n)) /\ IsFiniteSet(Downs(n))
         /\ Cardinality(Ups(n)) \in Nat /\ Cardinality(Downs(n)) \in Nat
<1>1. IsFiniteSet(Workers) /\ Ups(n) \subseteq Workers /\ Downs(n) \subseteq Workers
  BY CrawlAssumption DEF Workers, Ups, Downs, Reporting
<1> QED
  BY <1>1, FS_Subset, FS_CardinalityType

LEMMA OneOf == \A b \in BOOLEAN : One(b) = IF b THEN 1 ELSE 0
BY DEF One

\* The state of w's node changes, and w has the event to write.
LEMMA BalanceAnswer ==
  ASSUME CrawlInv, BalanceInv, NEW w \in Workers, Pong(w) \/ Miss(w)
  PROVE  BalanceInv'
<1> DEFINE n == wk[w].n
<1>1. Answered(w) /\ n \in Nodes /\ wk[w].pc = "sent"
  <2>1. Answered(w)
    BY PongMoves, MissMoves
  <2> QED
    BY <2>1, HolderFacts DEF Answered
<1>2. Nodes' = Nodes /\ log' = log
  BY <1>1 DEF Nodes, Answered
<1>3. /\ \A v \in Workers : v # w => wk'[v] = wk[v]
      /\ wk'[w].pc = "report" /\ wk'[w].n = n /\ wk'[w].ev \in {"none", "up", "down"}
  BY <1>1 DEF Answered, OnlyMoves, WorkerState
<1>4. \A m \in Nodes : m # n => Ups(m)' = Ups(m) /\ Downs(m)' = Downs(m) /\ reg'[m] = reg[m]
  BY <1>1, <1>3 DEF Ups, Downs, Reporting, Answered
<1>5. w \notin Ups(n) /\ w \notin Downs(n)
  BY <1>1 DEF Ups, Downs, Reporting
<1>6. reg[n].up \in BOOLEAN /\ reg'[n].up \in BOOLEAN
  <2>1. reg[n] \in Entry /\ reg'[n] \in Entry
    BY <1>1 DEF CrawlInv, TypeOK, Answered
  <2> QED
    BY <2>1 DEF Entry
<1>7. /\ wk'[w].ev = "none" => reg'[n].up = reg[n].up
      /\ wk'[w].ev = "up" => reg'[n].up /\ ~ reg[n].up
      /\ wk'[w].ev = "down" => ~ reg'[n].up /\ reg[n].up
  BY <1>1 DEF Answered
<1> DEFINE U == {v \in Workers : wk'[v].n = n /\ wk'[v].pc = "report" /\ wk'[v].ev = "up"}
           D == {v \in Workers : wk'[v].n = n /\ wk'[v].pc = "report" /\ wk'[v].ev = "down"}
<1>8. /\ U = IF wk'[w].ev = "up" THEN Ups(n) \cup {w} ELSE Ups(n)
      /\ D = IF wk'[w].ev = "down" THEN Downs(n) \cup {w} ELSE Downs(n)
  BY <1>3, <1>5 DEF Ups, Downs, Reporting
<1>9. \A m \in Nodes : m = n => Ups(m)' = U /\ Downs(m)' = D
  BY DEF Ups, Downs, Reporting
<1> HIDE DEF U, D, n
<1>10. PICK a, b, u, d : /\ a = Copies(log[n], "up") /\ b = Copies(log[n], "down")
                         /\ u = Cardinality(Ups(n)) /\ d = Cardinality(Downs(n))
  OBVIOUS
<1>11. a \in Nat /\ b \in Nat /\ u \in Nat /\ d \in Nat /\ a + u = b + d + One(reg[n].up)
  <2>1. log[n] \in Seq({"up", "down"})
    BY <1>1 DEF CrawlInv, TypeOK
  <2>2. a \in Nat /\ b \in Nat
    BY <1>10, <2>1, CopiesOfAppend
  <2> QED
    BY <1>1, <1>10, <2>2, ReportersFinite DEF BalanceInv
<1>12. /\ Cardinality(U) = IF wk'[w].ev = "up" THEN u + 1 ELSE u
       /\ Cardinality(D) = IF wk'[w].ev = "down" THEN d + 1 ELSE d
  BY <1>5, <1>8, <1>10, ReportersFinite, FS_AddElement
<1>13. PICK up1 \in BOOLEAN : up1 = reg'[n].up
  BY <1>6
<1>14. a + Cardinality(U) = b + Cardinality(D) + One(up1)
  <2>1. CASE wk'[w].ev = "none"
    <3>1. up1 = reg[n].up
      BY <1>7, <1>13, <2>1
    <3> QED
      BY <1>11, <1>12, <2>1, <3>1
  <2>2. CASE wk'[w].ev = "up"
    <3>1. One(up1) = 1 /\ One(reg[n].up) = 0
      BY <1>6, <1>7, <1>13, <2>2 DEF One
    <3> QED
      BY <1>11, <1>12, <2>2, <3>1
  <2>3. CASE wk'[w].ev = "down"
    <3>1. One(up1) = 0 /\ One(reg[n].up) = 1
      BY <1>6, <1>7, <1>13, <2>3 DEF One
    <3> QED
      BY <1>11, <1>12, <2>3, <3>1
  <2> QED
    BY <1>3, <2>1, <2>2, <2>3
<1>15. ASSUME NEW m \in Nodes
       PROVE  Copies(log'[m], "up") + Cardinality(Ups(m)')
                = Copies(log'[m], "down") + Cardinality(Downs(m)') + One(reg'[m].up)
  <2>1. CASE m = n
    BY <1>2, <1>9, <1>10, <1>13, <1>14, <2>1
  <2>2. CASE m # n
    BY <1>2, <1>4, <2>2 DEF BalanceInv
  <2> QED
    BY <2>1, <2>2
<1> QED
  BY <1>2, <1>15 DEF BalanceInv, Copies, One

\* Where a worker goes that gets no answer.
LEMMA WorkerGoes ==
  ASSUME CrawlInv, NEW w \in Workers,
         Take(w) \/ WorkerEnds(w) \/ Begin(w) \/ Report(w) \/ Refresh(w)
  PROVE  /\ wk'[w].pc # "report" /\ (wk'[w].pc = "sent" => Begin(w))
         /\ \A v \in Workers : v # w => wk'[v] = wk[v]
<1>1. wk \in [Workers -> WorkerState] /\ wk[w] \in WorkerState
  BY DEF CrawlInv, TypeOK
<1>2. PICK x : wk' = [wk EXCEPT ![w] = x] /\ x.pc # "report" /\ (x.pc = "sent" => Begin(w))
  <2>1. ASSUME NEW k, NEW c \in {"begin", "ended", "sent", "refresh"}
        PROVE  /\ [wk EXCEPT ![w].pc = c, ![w].n = k]
                    = [wk EXCEPT ![w] = [wk[w] EXCEPT !.pc = c, !.n = k]]
               /\ [wk EXCEPT ![w].pc = c] = [wk EXCEPT ![w] = [wk[w] EXCEPT !.pc = c]]
               /\ [wk EXCEPT ![w].pc = c, ![w].fast = k]
                    = [wk EXCEPT ![w] = [wk[w] EXCEPT !.pc = c, !.fast = k]]
    BY <1>1
  <2>2. ASSUME NEW k, NEW c \in {"begin", "ended", "sent", "refresh"}
        PROVE  /\ [wk[w] EXCEPT !.pc = c, !.n = k].pc = c
               /\ [wk[w] EXCEPT !.pc = c].pc = c
               /\ [wk[w] EXCEPT !.pc = c, !.fast = k].pc = c
    BY <1>1 DEF WorkerState
  <2>3. CASE Take(w)
    <3>1. PICK k : wk' = [wk EXCEPT ![w].pc = "begin", ![w].n = k]
      BY <2>3, Zenon DEF Take
    <3> DEFINE x == [wk[w] EXCEPT !.pc = "begin", !.n = k]
    <3>2. wk' = [wk EXCEPT ![w] = x]
      BY <2>1, <3>1, Zenon
    <3>3. x.pc = "begin"
      BY <2>2
    <3> HIDE DEF x
    <3> QED
      BY <3>2, <3>3
  <2>4. CASE WorkerEnds(w)
    <3>1. wk' = [wk EXCEPT ![w].pc = "ended"]
      BY <2>4 DEF WorkerEnds
    <3> DEFINE x == [wk[w] EXCEPT !.pc = "ended"]
    <3>2. wk' = [wk EXCEPT ![w] = x] /\ x.pc = "ended"
      BY <2>1, <2>2, <3>1
    <3> HIDE DEF x
    <3> QED
      BY <3>2
  <2>5. CASE Begin(w)
    <3>1. PICK k : wk' = [wk EXCEPT ![w].pc = "sent", ![w].fast = k]
      BY <2>5, Zenon DEF Begin
    <3> DEFINE x == [wk[w] EXCEPT !.pc = "sent", !.fast = k]
    <3>2. wk' = [wk EXCEPT ![w] = x] /\ x.pc = "sent"
      BY <2>1, <2>2, <3>1
    <3> HIDE DEF x
    <3> QED
      BY <2>5, <3>2
  <2>6. CASE Report(w)
    <3> DEFINE x == IF wk[w].refresh THEN [wk[w] EXCEPT !.pc = "refresh"] ELSE IdleWorker
    <3>1. wk' = [wk EXCEPT ![w] = x]
      BY <1>1, <2>6 DEF Report
    <3>2. x.pc \in {"refresh", "idle"}
      BY <2>2 DEF IdleWorker
    <3> HIDE DEF x
    <3> QED
      BY <3>1, <3>2
  <2>7. CASE Refresh(w)
    <3>1. wk' = [wk EXCEPT ![w] = IdleWorker] /\ IdleWorker.pc = "idle"
      BY <2>7 DEF Refresh, IdleWorker
    <3> QED
      BY <3>1
  <2> QED
    BY <2>3, <2>4, <2>5, <2>6, <2>7
<1> QED
  BY <1>1, <1>2

\* The event is written: it moves from the worker to the log.
LEMMA BalanceReport ==
  ASSUME CrawlInv, BalanceInv, NEW w \in Workers, Report(w)
  PROVE  BalanceInv'
<1> DEFINE n == wk[w].n
           e == wk[w].ev
<1>1. /\ wk[w].pc = "report" /\ reg' = reg /\ Nodes' = Nodes
      /\ log' = IF e = "none" THEN log ELSE [log EXCEPT ![n] = Append(@, e)]
      /\ wk' = [wk EXCEPT ![w] = IF wk[w].refresh THEN [@ EXCEPT !.pc = "refresh"] ELSE IdleWorker]
  BY DEF Report, pingElse, mainVars, Nodes
<1>2. /\ n \in Nodes /\ e \in {"none", "up", "down"} /\ log \in [Nodes -> Seq({"up", "down"})]
      /\ wk \in [Workers -> WorkerState] /\ wk[w] \in WorkerState
  BY <1>1, HolderFacts DEF CrawlInv, TypeOK, WorkerState
<1>3. wk'[w].pc # "report" /\ \A v \in Workers : v # w => wk'[v] = wk[v]
  <2> DEFINE x == IF wk[w].refresh THEN [wk[w] EXCEPT !.pc = "refresh"] ELSE IdleWorker
  <2>1. x.pc # "report"
    BY <1>2 DEF WorkerState, IdleWorker
  <2>2. wk' = [wk EXCEPT ![w] = x]
    BY <1>1, <1>2
  <2> HIDE DEF x
  <2> QED
    BY <1>2, <2>1, <2>2
<1>4. \A m \in Nodes : m # n => Ups(m)' = Ups(m) /\ Downs(m)' = Downs(m) /\ log'[m] = log[m]
  BY <1>1, <1>2, <1>3 DEF Ups, Downs, Reporting
<1> DEFINE U == {v \in Workers : wk'[v].n = n /\ wk'[v].pc = "report" /\ wk'[v].ev = "up"}
           D == {v \in Workers : wk'[v].n = n /\ wk'[v].pc = "report" /\ wk'[v].ev = "down"}
<1>5. U = Ups(n) \ {w} /\ D = Downs(n) \ {w}
  BY <1>1, <1>3 DEF Ups, Downs, Reporting
<1>6. (w \in Ups(n) <=> e = "up") /\ (w \in Downs(n) <=> e = "down")
  BY <1>1 DEF Ups, Downs, Reporting
<1>7. \A m \in Nodes : m = n => Ups(m)' = U /\ Downs(m)' = D
  BY DEF Ups, Downs, Reporting
<1> HIDE DEF U, D, n, e
<1>8. PICK a, b, u, d : /\ a = Copies(log[n], "up") /\ b = Copies(log[n], "down")
                        /\ u = Cardinality(Ups(n)) /\ d = Cardinality(Downs(n))
  OBVIOUS
<1>9. /\ a \in Nat /\ b \in Nat /\ u \in Nat /\ d \in Nat /\ a + u = b + d + One(reg[n].up)
      /\ One(reg[n].up) \in Nat
  <2>1. log[n] \in Seq({"up", "down"})
    BY <1>2
  <2>2. a \in Nat /\ b \in Nat
    BY <1>8, <2>1, CopiesOfAppend
  <2>3. One(reg[n].up) \in Nat
    BY DEF One
  <2> QED
    BY <1>2, <1>8, <2>2, <2>3, ReportersFinite DEF BalanceInv
<1>10. /\ Cardinality(U) = IF e = "up" THEN u - 1 ELSE u
       /\ Cardinality(D) = IF e = "down" THEN d - 1 ELSE d
  <2>1. Cardinality(U) = IF e = "up" THEN u - 1 ELSE u
    BY <1>5, <1>6, <1>8, ReportersFinite, FS_RemoveElement
  <2>2. Cardinality(D) = IF e = "down" THEN d - 1 ELSE d
    BY <1>5, <1>6, <1>8, ReportersFinite, FS_RemoveElement
  <2> QED
    BY <2>1, <2>2
<1>11. PICK l : l = log'[n]
  OBVIOUS
<1>12. /\ Copies(l, "up") = IF e = "up" THEN a + 1 ELSE a
       /\ Copies(l, "down") = IF e = "down" THEN b + 1 ELSE b
  <2>1. CASE e = "none"
    BY <1>1, <1>8, <1>11, <2>1
  <2>2. CASE e # "none"
    <3>1. l = Append(log[n], e) /\ log[n] \in Seq({"up", "down"}) /\ e \in {"up", "down"}
      BY <1>1, <1>2, <1>11, <2>2
    <3>2. /\ Copies(l, "up") = a + One(e = "up")
          /\ Copies(l, "down") = b + One(e = "down")
      BY <1>8, <3>1, CopiesOfAppend
    <3>3. CASE e = "up"
      <4>1. One(e = "up") = 1 /\ One(e = "down") = 0
        BY <3>3 DEF One
      <4> QED
        BY <1>9, <3>2, <3>3, <4>1
    <3>4. CASE e = "down"
      <4>1. One(e = "up") = 0 /\ One(e = "down") = 1
        BY <3>4 DEF One
      <4> QED
        BY <1>9, <3>2, <3>4, <4>1
    <3> QED
      BY <3>1, <3>3, <3>4
  <2> QED
    BY <2>1, <2>2
<1>13. Copies(l, "up") + Cardinality(U) = Copies(l, "down") + Cardinality(D) + One(reg[n].up)
  BY <1>2, <1>9, <1>10, <1>12
<1>14. ASSUME NEW m \in Nodes
       PROVE  Copies(log'[m], "up") + Cardinality(Ups(m)')
                = Copies(log'[m], "down") + Cardinality(Downs(m)') + One(reg'[m].up)
  <2>1. CASE m = n
    BY <1>1, <1>7, <1>11, <1>13, <2>1
  <2>2. CASE m # n
    BY <1>1, <1>4, <2>2 DEF BalanceInv
  <2> QED
    BY <2>1, <2>2
<1> QED
  BY <1>1, <1>14 DEF BalanceInv, Copies, One

\* Neither a state nor a log changes, nor what is to be reported.
LEMMA BalanceKept ==
  ASSUME CrawlInv, SweepInv, BalanceInv, Unanswered, ~ \E w \in Workers : Report(w)
  PROVE  BalanceInv'
<1>1. \A n \in Nodes : reg'[n].up = reg[n].up
  BY AnswersKept
<1>2. Nodes' = Nodes /\ log' = log
  BY DEF Unanswered, LoopProgress, Tick, Offered, LoopStops, LoopEnds, OfferLive, OfferDead, loopElse,
         SamplerProgress, SamplerStops, SamplerEnds, AskTable, TableReply, HandOut, Snapshot,
         PeriodEnds, CrawlNode, CrawlEnds, Due, otherElse, loopVars, mainVars, CloseStop,
         CloseDisc, Wait, FinalSweep, mainElse, vars, Take, WorkerEnds, Begin, Refresh, pingElse, Nodes
<1>3. \A n : Ups(n)' = Ups(n) /\ Downs(n)' = Downs(n)
  <2>1. CASE UNCHANGED wk
    BY <2>1 DEF Ups, Downs, Reporting
  <2>2. CASE \E w \in Workers : Take(w) \/ WorkerEnds(w) \/ Begin(w) \/ Refresh(w)
    <3>1. PICK w \in Workers : Take(w) \/ WorkerEnds(w) \/ Begin(w) \/ Refresh(w)
      BY <2>2
    <3>2. /\ wk[w].pc # "report" /\ wk'[w].pc # "report"
          /\ \A v \in Workers : v # w => wk'[v] = wk[v]
      <4>1. wk[w].pc # "report"
        BY <3>1 DEF Take, WorkerEnds, Begin, Refresh
      <4> QED
        BY <3>1, <4>1, WorkerGoes
    <3> QED
      BY <3>2 DEF Ups, Downs, Reporting
  <2>3. UNCHANGED wk \/ \E w \in Workers : Take(w) \/ WorkerEnds(w) \/ Begin(w) \/ Refresh(w)
    BY DEF Unanswered, LoopProgress, Tick, Offered, LoopStops, LoopEnds, OfferLive, OfferDead, loopElse,
           SamplerProgress, SamplerStops, SamplerEnds, AskTable, TableReply, HandOut, Snapshot,
           PeriodEnds, CrawlNode, CrawlEnds, Due, otherElse, CloseStop, CloseDisc, Wait, FinalSweep,
           mainElse, vars
  <2> QED
    BY <2>1, <2>2, <2>3
<1> QED
  BY <1>1, <1>2, <1>3 DEF BalanceInv, One, Copies

LEMMA BalanceInvariant == Spec => []BalanceInv
<1>1. Init => BalanceInv
  <2> SUFFICES ASSUME Init, NEW n \in Nodes
               PROVE  Copies(log[n], "up") + Cardinality(Ups(n))
                        = Copies(log[n], "down") + Cardinality(Downs(n)) + One(reg[n].up)
    BY DEF BalanceInv
  <2>1. Ups(n) = {} /\ Downs(n) = {} /\ ~ reg[n].up /\ log[n] = <<>>
    BY DEF Init, IdleWorker, Unknown, Ups, Downs, Reporting
  <2>2. \A x : {i \in 1..Len(log[n]) : log[n][i] = x} = {}
    BY <2>1
  <2>3. Copies(log[n], "up") = 0 /\ Copies(log[n], "down") = 0
    BY <2>2, FS_EmptySet DEF Copies
  <2> QED
    BY <2>1, <2>3, FS_EmptySet DEF One
<1>2. CrawlInv /\ SweepInv /\ BalanceInv /\ [Next]_vars => BalanceInv'
  BY BalanceAnswer, BalanceReport, BalanceKept, StepKinds
<1> QED
  BY <1>1, <1>2, CrawlInvariant, SweepInvariant, PTL DEF Spec

\* ping, where a session event is written after the registry is unlocked: the
\* events of a node alternate unless the node was due again before the event of its
\* last ping was written, and for every node each start and end of a session is
\* written once: with no event to write the log has one start more than ends if
\* the node is up, and as many if not.
THEOREM LogIsTrue == Spec => []LogFollowsRegistry
<1>1. CrawlInv /\ BalanceInv => LogFollowsRegistry
  <2> SUFFICES ASSUME CrawlInv, BalanceInv, NEW n \in Nodes
               PROVE  /\ n \notin rushed =>
                           \A i \in 1..Len(log[n]) : log[n][i] = IF i % 2 = 1 THEN "up" ELSE "down"
                      /\ Reporting(n) = {} =>
                           Copies(log[n], "up") = Copies(log[n], "down") + One(reg[n].up)
    BY DEF LogFollowsRegistry
  <2>1. n \notin rushed => Alternates(log[n])
    BY DEF CrawlInv, LogInv
  <2>2. ASSUME Reporting(n) = {}
        PROVE  Copies(log[n], "up") = Copies(log[n], "down") + One(reg[n].up)
    <3>1. Cardinality(Ups(n)) = 0 /\ Cardinality(Downs(n)) = 0
      BY <2>2, FS_EmptySet DEF Ups, Downs
    <3>2. log[n] \in Seq({"up", "down"})
      BY DEF CrawlInv, TypeOK
    <3>3. Copies(log[n], "up") \in Nat /\ Copies(log[n], "down") \in Nat /\ One(reg[n].up) \in Nat
      BY <3>2, CopiesOfAppend DEF One
    <3> QED
      BY <3>1, <3>3 DEF BalanceInv
  <2> QED
    BY <2>1, <2>2 DEF Alternates
<1> QED
  BY <1>1, CrawlInvariant, BalanceInvariant, PTL

-----------------------------------------------------------------------------
(* The pings of the last sweep *)

\* Pings of n whose end is not known yet, and those whose end was noted as an
\* attempt: on the probe schedule, and of a never-responder.
Sending(n) == \E w \in Workers : wk[w].n = n /\ wk[w].pc = "sent"
OnProbe == [n \in Nodes |-> FirstTries(reg[n].attempts) + One(Sending(n) /\ Fast(n))]
OnDead  == [n \in Nodes |-> LaterTries(reg[n].attempts) + One(Sending(n) /\ ~ Fast(n))]

\* The nodes that answered after they had been given up.
Returned == {n \in Nodes : reg[n].everUp /\ reg[n].attempts >= NewTries}

SentInv == \A w \in Workers : wk[w].pc = "sent" => (wk[w].fast <=> Fast(wk[w].n))

CountInv ==
  /\ pings \in Nat /\ deadPings \in Nat /\ pongs \in Nat /\ deadPongs \in Nat /\ errs \in Nat
  /\ pings = pongs + errs + SumFunctionOnSet(OnProbe, Nodes)
  /\ deadPings = deadPongs + SumFunctionOnSet(OnDead, Nodes)
  /\ deadPongs = Cardinality(Returned)
  /\ SentInv

\* What was swept is what the counters still are.
FinalInv ==
  mpc = "swept" => /\ final.pings = pings /\ final.deadPings = deadPings /\ final.errs = errs
                   /\ final.pongs = pongs /\ final.deadPongs = deadPongs

PingInv == CountInv /\ FinalInv

LEMMA TriesFacts ==
  \A k \in Nat : /\ FirstTries(k) \in Nat /\ LaterTries(k) \in Nat
                 /\ k < NewTries => /\ FirstTries(k + 1) = FirstTries(k) + 1
                                    /\ LaterTries(k + 1) = LaterTries(k)
                 /\ ~ (k < NewTries) => /\ FirstTries(k + 1) = FirstTries(k)
                                        /\ LaterTries(k + 1) = LaterTries(k) + 1
BY CrawlAssumption DEF FirstTries, LaterTries

LEMMA OneFacts == \A b : One(b) \in {0, 1} /\ (b => One(b) = 1) /\ (~ b => One(b) = 0)
BY DEF One

LEMMA UnsettledFacts ==
  ASSUME CrawlInv
  PROVE  /\ \A n \in Nodes :
              /\ OnProbe[n] = FirstTries(reg[n].attempts) + One(Sending(n) /\ Fast(n)) /\ OnProbe[n] \in Nat
              /\ OnDead[n] = LaterTries(reg[n].attempts) + One(Sending(n) /\ ~ Fast(n)) /\ OnDead[n] \in Nat
         /\ IsFiniteSet(Nodes)
         /\ SumFunctionOnSet(OnProbe, Nodes) \in Nat /\ SumFunctionOnSet(OnDead, Nodes) \in Nat
<1>1. IsFiniteSet(Nodes)
  BY NetworkFacts DEF CrawlInv, TypeOK
<1>2. ASSUME NEW n \in Nodes
      PROVE  /\ OnProbe[n] = FirstTries(reg[n].attempts) + One(Sending(n) /\ Fast(n)) /\ OnProbe[n] \in Nat
             /\ OnDead[n] = LaterTries(reg[n].attempts) + One(Sending(n) /\ ~ Fast(n)) /\ OnDead[n] \in Nat
  <2>1. reg[n].attempts \in Nat
    BY DEF CrawlInv, TypeOK, Entry
  <2>2. FirstTries(reg[n].attempts) \in Nat /\ LaterTries(reg[n].attempts) \in Nat
    BY <2>1, TriesFacts
  <2>3. One(Sending(n) /\ Fast(n)) \in {0, 1} /\ One(Sending(n) /\ ~ Fast(n)) \in {0, 1}
    BY DEF One
  <2>4. /\ OnProbe[n] = FirstTries(reg[n].attempts) + One(Sending(n) /\ Fast(n))
        /\ OnDead[n] = LaterTries(reg[n].attempts) + One(Sending(n) /\ ~ Fast(n))
    BY DEF OnProbe, OnDead
  <2> QED
    BY <2>2, <2>3, <2>4
<1> QED
  BY <1>1, <1>2, SumNat

\* A step that neither sends a ping nor settles one.
LEMMA NoPingStep ==
  ASSUME CrawlInv, CountInv, UNCHANGED countVars, setup' = setup,
         \A n \in Nodes : /\ reg'[n].attempts = reg[n].attempts /\ reg'[n].everUp = reg[n].everUp
                          /\ Sending(n)' <=> Sending(n),
         \A w \in Workers : wk'[w].pc = "sent" => wk'[w] = wk[w]
  PROVE  CountInv'
<1>1. Nodes' = Nodes
  BY DEF Nodes
<1>2. \A n \in Nodes : Fast(n)' <=> Fast(n)
  BY DEF Fast
<1>3. \A n \in Nodes : /\ One(Sending(n) /\ Fast(n))' = One(Sending(n) /\ Fast(n))
                       /\ One(Sending(n) /\ ~ Fast(n))' = One(Sending(n) /\ ~ Fast(n))
  BY <1>2 DEF One
<1>4. OnProbe' = OnProbe /\ OnDead' = OnDead
  BY <1>1, <1>3 DEF OnProbe, OnDead
<1>5. Returned' = Returned
  BY <1>1 DEF Returned
<1>6. SentInv'
  <2> SUFFICES ASSUME NEW w \in Workers, wk'[w].pc = "sent" PROVE (wk[w].fast <=> Fast(wk[w].n))'
    BY DEF SentInv
  <2>1. wk'[w] = wk[w] /\ wk[w].n \in Nodes
    BY HolderFacts
  <2>2. wk[w].fast <=> Fast(wk[w].n)
    BY <2>1 DEF CountInv, SentInv
  <2> QED
    BY <2>1, <2>2 DEF Fast
<1> QED
  BY <1>1, <1>4, <1>5, <1>6 DEF CountInv, countVars

\* What a worker's step does to the ping of its node.
LEMMA PingMoves ==
  ASSUME CrawlInv, NEW w \in Workers, Begin(w) \/ Pong(w) \/ Miss(w), NEW n, n = wk[w].n
  PROVE  /\ n \in Nodes /\ Nodes' = Nodes /\ mpc' = mpc /\ final' = final
         /\ \A m \in Nodes : m # n => reg'[m] = reg[m] /\ (Sending(m)' <=> Sending(m))
         /\ \A v \in Workers : v # w => /\ wk'[v] = wk[v]
                                        /\ wk[v].pc = "sent" => wk[v].n # n
         /\ Begin(w) => ~ Sending(n) /\ Sending(n)' /\ wk'[w].n = n /\ wk'[w].fast = Fast(n)
         /\ Pong(w) \/ Miss(w) => Sending(n) /\ ~ Sending(n)' /\ wk'[w].pc = "report"
<1>1. wk[w].pc = "begin" \/ wk[w].pc = "sent"
  BY DEF Begin, Pong, Miss
<1>2. n \in Nodes /\ \A v \in Workers : v # w /\ wk[v].n = n => ~ Pings(wk[v])
  BY <1>1, HolderFacts DEF Pings
<1>3. wk \in [Workers -> WorkerState] /\ wk[w] \in WorkerState
  BY DEF CrawlInv, TypeOK
<1>4. CASE Begin(w)
  <2>1. wk[w].pc = "begin" /\ UNCHANGED <<setup, mpc, final, reg>>
    BY <1>4 DEF Begin, pingElse, mainVars
  <2> DEFINE x == [wk[w] EXCEPT !.pc = "sent", !.fast = Fast(wk[w].n)]
  <2>2. wk' = [wk EXCEPT ![w] = x]
    BY <1>3, <1>4 DEF Begin
  <2>3. x.pc = "sent" /\ x.n = n /\ x.fast = Fast(n)
    BY <1>3 DEF WorkerState
  <2> HIDE DEF x
  <2>4. /\ \A v \in Workers : v # w => wk'[v] = wk[v]
        /\ wk'[w].pc = "sent" /\ wk'[w].n = n /\ wk'[w].fast = Fast(n)
    BY <1>3, <2>2, <2>3
  <2>5. \A m \in Nodes : m # n => (Sending(m)' <=> Sending(m))
    BY <2>4 DEF Sending
  <2>6. ~ Sending(n) /\ Sending(n)'
    BY <1>2, <2>1, <2>4 DEF Sending, Pings
  <2>7. ~ (Pong(w) \/ Miss(w))
    BY <2>1 DEF Pong, Miss
  <2> QED
    BY <1>2, <2>1, <2>4, <2>5, <2>6, <2>7 DEF Nodes, Pings
<1>5. CASE Pong(w) \/ Miss(w)
  <2>1. Answered(w)
    BY <1>5, PongMoves, MissMoves
  <2>2. /\ \A v \in Workers : v # w => wk'[v] = wk[v]
        /\ wk[w].pc = "sent" /\ wk'[w].pc = "report" /\ UNCHANGED <<setup, mpc, final>>
        /\ \A m \in Nodes : m # n => reg'[m] = reg[m]
    BY <2>1 DEF Answered, OnlyMoves
  <2>5. \A m \in Nodes : m # n => (Sending(m)' <=> Sending(m))
    BY <2>2 DEF Sending
  <2>6. Sending(n) /\ ~ Sending(n)'
    BY <1>2, <2>2 DEF Sending, Pings
  <2>7. ~ Begin(w)
    BY <2>2 DEF Begin
  <2> QED
    BY <1>2, <2>2, <2>5, <2>6, <2>7 DEF Nodes, Pings
<1> QED
  BY <1>4, <1>5

\* One node's unsettled pings change.
LEMMA UnsettledMoves ==
  ASSUME CrawlInv, CrawlInv', Nodes' = Nodes, NEW n \in Nodes, NEW p, NEW d,
         \A m \in Nodes : m # n => reg'[m] = reg[m] /\ (Sending(m)' <=> Sending(m)),
         p = OnProbe'[n], d = OnDead'[n]
  PROVE  /\ SumFunctionOnSet(OnProbe, Nodes)' = SumFunctionOnSet(OnProbe, Nodes) - OnProbe[n] + p
         /\ SumFunctionOnSet(OnDead, Nodes)' = SumFunctionOnSet(OnDead, Nodes) - OnDead[n] + d
<1>1. PICK u, v : u = OnProbe' /\ v = OnDead'
  OBVIOUS
<1>2. \A m \in Nodes : u[m] \in Nat /\ v[m] \in Nat
  <2>1. ASSUME NEW m \in Nodes PROVE OnProbe'[m] \in Nat /\ OnDead'[m] \in Nat
    <3>1. PICK k \in Nat : reg'[m].attempts = k
      BY DEF CrawlInv, TypeOK, Entry
    <3>2. FirstTries(k) \in Nat /\ LaterTries(k) \in Nat
      BY TriesFacts
    <3>3. /\ OnProbe'[m] = FirstTries(k) + One(Sending(m) /\ Fast(m))'
          /\ OnDead'[m] = LaterTries(k) + One(Sending(m) /\ ~ Fast(m))'
      BY <3>1 DEF OnProbe, OnDead
    <3>4. One(Sending(m) /\ Fast(m))' \in {0, 1} /\ One(Sending(m) /\ ~ Fast(m))' \in {0, 1}
      BY DEF One
    <3> QED
      BY <3>2, <3>3, <3>4
  <2> QED
    BY <1>1, <2>1
<1>3. \A m \in Nodes \ {n} : u[m] = OnProbe[m] /\ v[m] = OnDead[m]
  <2>1. \A m \in Nodes \ {n} : Fast(m)' <=> Fast(m)
    BY DEF Fast
  <2>2. \A m \in Nodes \ {n} : /\ One(Sending(m) /\ Fast(m))' = One(Sending(m) /\ Fast(m))
                               /\ One(Sending(m) /\ ~ Fast(m))' = One(Sending(m) /\ ~ Fast(m))
    BY <2>1 DEF One
  <2>3. \A m \in Nodes \ {n} : OnProbe'[m] = OnProbe[m] /\ OnDead'[m] = OnDead[m]
    BY <2>2 DEF OnProbe, OnDead
  <2> QED
    BY <1>1, <2>3
<1>4. SumFunctionOnSet(u, Nodes) = SumFunctionOnSet(OnProbe, Nodes) - OnProbe[n] + u[n]
  BY <1>2, <1>3, UnsettledFacts, SumUpdate
<1>5. SumFunctionOnSet(v, Nodes) = SumFunctionOnSet(OnDead, Nodes) - OnDead[n] + v[n]
  BY <1>2, <1>3, UnsettledFacts, SumUpdate
<1> QED
  BY <1>1, <1>4, <1>5


\* A ping is sent, answered or given up.
LEMMA PingSettles ==
  ASSUME CrawlInv, CrawlInv', SweepInv, CountInv, NEW w \in Workers, Begin(w) \/ Pong(w) \/ Miss(w)
  PROVE  CountInv'
<1>0. PICK n : n = wk[w].n
  OBVIOUS
<1>1. /\ n \in Nodes /\ Nodes' = Nodes
      /\ \A m \in Nodes : m # n => reg'[m] = reg[m] /\ (Sending(m)' <=> Sending(m))
      /\ \A v \in Workers : v # w => /\ wk'[v] = wk[v]
                                     /\ wk[v].pc = "sent" => wk[v].n # n
      /\ Begin(w) => ~ Sending(n) /\ Sending(n)' /\ wk'[w].n = n /\ wk'[w].fast = Fast(n)
      /\ Pong(w) \/ Miss(w) => Sending(n) /\ ~ Sending(n)' /\ wk'[w].pc = "report"
  BY <1>0, PingMoves
<1> DEFINE S == SumFunctionOnSet(OnProbe, Nodes)
           D == SumFunctionOnSet(OnDead, Nodes)
           a == One(Fast(n))
           b == One(~ Fast(n))
<1>2. PICK k \in Nat : reg[n].attempts = k
  BY <1>1 DEF CrawlInv, TypeOK, Entry
<1>3. PICK k2 \in Nat : reg'[n].attempts = k2
  BY <1>1 DEF CrawlInv, TypeOK, Entry
<1>4. PICK x, y : x = OnProbe'[n] /\ y = OnDead'[n]
  OBVIOUS
<1>5. /\ S' = S - OnProbe[n] + x /\ D' = D - OnDead[n] + y
  BY <1>1, <1>4, UnsettledMoves
<1>6. /\ OnProbe[n] = FirstTries(k) + One(Sending(n) /\ Fast(n))
      /\ OnDead[n] = LaterTries(k) + One(Sending(n) /\ ~ Fast(n))
      /\ S \in Nat /\ D \in Nat
  BY <1>1, <1>2, UnsettledFacts
<1>7. /\ x = FirstTries(k2) + One(Sending(n) /\ Fast(n))'
      /\ y = LaterTries(k2) + One(Sending(n) /\ ~ Fast(n))'
  BY <1>1, <1>3, <1>4 DEF OnProbe, OnDead
<1>8. /\ pings \in Nat /\ deadPings \in Nat /\ pongs \in Nat /\ deadPongs \in Nat /\ errs \in Nat
      /\ pings = pongs + errs + S /\ deadPings = deadPongs + D
      /\ deadPongs = Cardinality(Returned)
  BY DEF CountInv
<1>9. /\ a \in {0, 1} /\ b \in {0, 1} /\ (Fast(n) => a = 1 /\ b = 0) /\ (~ Fast(n) => a = 0 /\ b = 1)
  BY DEF One
<1>10. /\ FirstTries(k) \in Nat /\ LaterTries(k) \in Nat /\ FirstTries(k2) \in Nat /\ LaterTries(k2) \in Nat
       /\ k < NewTries => FirstTries(k + 1) = FirstTries(k) + 1 /\ LaterTries(k + 1) = LaterTries(k)
       /\ ~ (k < NewTries) => FirstTries(k + 1) = FirstTries(k) /\ LaterTries(k + 1) = LaterTries(k) + 1
  BY TriesFacts
<1>11. Fast(n) <=> reg[n].everUp \/ k < NewTries
  BY <1>2 DEF Fast
<1>12. SentInv'
  <2> SUFFICES ASSUME NEW v \in Workers, wk'[v].pc = "sent" PROVE (wk[v].fast <=> Fast(wk[v].n))'
    BY DEF SentInv
  <2>1. CASE v # w
    <3>1. wk'[v] = wk[v] /\ wk[v].n # n /\ wk[v].n \in Nodes
      BY <1>1, <2>1, HolderFacts
    <3>2. reg'[wk[v].n] = reg[wk[v].n]
      BY <1>1, <3>1
    <3>3. wk[v].fast <=> Fast(wk[v].n)
      BY <3>1 DEF CountInv, SentInv
    <3> QED
      BY <3>1, <3>2, <3>3 DEF Fast
  <2>2. CASE v = w
    <3>1. Begin(w)
      BY <1>1, <2>2
    <3>2. reg' = reg /\ wk'[w].n = n /\ wk'[w].fast = Fast(n)
      BY <1>1, <3>1 DEF Begin
    <3> QED
      BY <2>2, <3>2 DEF Fast
  <2> QED
    BY <2>1, <2>2
<1> HIDE DEF S, D, a, b
<1>13. CASE Begin(w)
  <2>1. reg' = reg /\ pongs' = pongs /\ deadPongs' = deadPongs /\ errs' = errs /\ k2 = k
    BY <1>2, <1>3, <1>13 DEF Begin
  <2>2. pings' = pings + a /\ deadPings' = deadPings + b
    <3>1. IF Fast(n) THEN pings' = pings + 1 /\ deadPings' = deadPings
          ELSE deadPings' = deadPings + 1 /\ pings' = pings
      BY <1>0, <1>13 DEF Begin
    <3> QED
      BY <1>8, <1>9, <3>1
  <2>3. /\ One(Sending(n) /\ Fast(n)) = 0 /\ One(Sending(n) /\ ~ Fast(n)) = 0
        /\ One(Sending(n) /\ Fast(n))' = a /\ One(Sending(n) /\ ~ Fast(n))' = b
    BY <1>1, <1>13, <2>1 DEF One, Fast, a, b
  <2>4. S' = S + a /\ D' = D + b
    BY <1>5, <1>6, <1>7, <1>9, <1>10, <2>1, <2>3
  <2>5. Returned' = Returned
    BY <1>1, <2>1 DEF Returned
  <2>6. /\ pings' = pongs' + errs' + S' /\ deadPings' = deadPongs' + D'
        /\ pings' \in Nat /\ deadPings' \in Nat
    BY <1>6, <1>8, <1>9, <2>1, <2>2, <2>4
  <2> QED
    BY <1>1, <1>8, <1>12, <2>1, <2>5, <2>6 DEF CountInv, S, D
<1>14. CASE Pong(w)
  <2>1. pings' = pings /\ deadPings' = deadPings /\ errs' = errs
    BY <1>14 DEF Pong
  <2>2. wk[w].fast <=> Fast(n)
    BY <1>0, <1>14 DEF Pong, CountInv, SentInv
  <2>3. pongs' = pongs + a /\ deadPongs' = deadPongs + b
    <3>1. IF wk[w].fast THEN pongs' = pongs + 1 /\ deadPongs' = deadPongs
          ELSE deadPongs' = deadPongs + 1 /\ pongs' = pongs
      BY <1>14 DEF Pong
    <3> QED
      BY <1>8, <1>9, <2>2, <3>1
  <2>4. reg'[n].everUp = TRUE /\ k2 = k
    BY <1>0, <1>2, <1>3, <1>14, PongMoves
  <2>5. /\ One(Sending(n) /\ Fast(n)) = a /\ One(Sending(n) /\ ~ Fast(n)) = b
        /\ One(Sending(n) /\ Fast(n))' = 0 /\ One(Sending(n) /\ ~ Fast(n))' = 0
    BY <1>1, <1>14 DEF One, a, b
  <2>6. S' = S - a /\ D' = D - b
    BY <1>5, <1>6, <1>7, <1>9, <1>10, <2>4, <2>5
  <2>7. Cardinality(Returned') = Cardinality(Returned) + b
    <3>1. \A m \in Nodes : m # n => (m \in Returned' <=> m \in Returned)
      BY <1>1 DEF Returned
    <3>2. n \in Returned' <=> k >= NewTries
      BY <1>1, <1>3, <2>4 DEF Returned
    <3>3. n \in Returned <=> reg[n].everUp /\ k >= NewTries
      BY <1>1, <1>2 DEF Returned
    <3>4. Returned \subseteq Nodes /\ Returned' \subseteq Nodes /\ IsFiniteSet(Returned)
      BY <1>1, UnsettledFacts, FS_Subset DEF Returned
    <3>5. CASE Fast(n)
      <4>1. Returned' = Returned
        <5>1. n \in Returned' <=> n \in Returned
          BY <1>11, <3>2, <3>3, <3>5, CrawlAssumption
        <5> QED
          BY <3>1, <3>4, <5>1
      <4> QED
        BY <1>8, <1>9, <3>5, <4>1
    <3>6. CASE ~ Fast(n)
      <4>1. n \notin Returned /\ n \in Returned'
        BY <1>11, <3>2, <3>3, <3>6, CrawlAssumption
      <4>2. Returned' = Returned \cup {n}
        BY <1>1, <3>1, <3>4, <4>1
      <4>3. Cardinality(Returned') = Cardinality(Returned) + 1
        BY <3>4, <4>1, <4>2, FS_AddElement
      <4> QED
        BY <1>9, <3>6, <4>3
    <3> QED
      BY <3>5, <3>6
  <2>8. deadPongs' = Cardinality(Returned')
    BY <1>8, <2>3, <2>7
  <2> QED
    <3>1. /\ pings' = pongs' + errs' + S' /\ deadPings' = deadPongs' + D'
          /\ pongs' \in Nat /\ deadPongs' \in Nat
      BY <1>6, <1>8, <1>9, <2>1, <2>3, <2>6
    <3> QED
      BY <1>1, <1>8, <1>12, <2>1, <2>8, <3>1 DEF CountInv, S, D
<1>15. CASE Miss(w)
  <2>1. /\ UNCHANGED <<pings, pongs, deadPings, deadPongs>>
        /\ errs' = IF reg[n].everUp THEN errs + 1 ELSE errs
    BY <1>0, <1>15 DEF Miss
  <2>2. reg'[n].everUp = reg[n].everUp /\ k2 = IF reg[n].everUp THEN k ELSE k + 1
    BY <1>0, <1>2, <1>3, <1>15, MissMoves
  <2>3. /\ One(Sending(n) /\ Fast(n)) = a /\ One(Sending(n) /\ ~ Fast(n)) = b
        /\ One(Sending(n) /\ Fast(n))' = 0 /\ One(Sending(n) /\ ~ Fast(n))' = 0
    BY <1>1, <1>15 DEF One, a, b
  <2>4. /\ S' = IF reg[n].everUp THEN S - 1 ELSE S
        /\ D' = D
    <3>1. S' = S - (FirstTries(k) + a) + FirstTries(k2) /\ D' = D - (LaterTries(k) + b) + LaterTries(k2)
      BY <1>5, <1>6, <1>7, <1>10, <2>3
    <3>2. CASE reg[n].everUp
      <4>1. a = 1 /\ b = 0 /\ k2 = k
        BY <1>9, <1>11, <2>2, <3>2
      <4> QED
        BY <1>6, <1>10, <3>1, <3>2, <4>1
    <3>3. CASE ~ reg[n].everUp /\ k < NewTries
      <4>1. a = 1 /\ b = 0 /\ k2 = k + 1
        BY <1>9, <1>11, <2>2, <3>3
      <4> QED
        BY <1>6, <1>10, <3>1, <3>3, <4>1
    <3>4. CASE ~ reg[n].everUp /\ ~ (k < NewTries)
      <4>1. a = 0 /\ b = 1 /\ k2 = k + 1
        BY <1>9, <1>11, <2>2, <3>4
      <4> QED
        BY <1>6, <1>10, <3>1, <3>4, <4>1
    <3> QED
      BY <3>2, <3>3, <3>4
  <2>5. pings = pongs + errs' + S' /\ errs' \in Nat
    BY <1>6, <1>8, <2>1, <2>4
  <2>6. Returned' = Returned
    <3>1. n \in Returned' <=> n \in Returned
      BY <1>1, <1>2, <1>3, <2>2 DEF Returned
    <3>2. \A m \in Nodes : m # n => (m \in Returned' <=> m \in Returned)
      BY <1>1 DEF Returned
    <3>3. Returned \subseteq Nodes /\ Returned' \subseteq Nodes
      BY <1>1 DEF Returned
    <3> QED
      BY <3>1, <3>2, <3>3
  <2> QED
    BY <1>1, <1>8, <1>12, <2>1, <2>4, <2>5, <2>6 DEF CountInv, S, D
<1> QED
  BY <1>13, <1>14, <1>15

\* The other steps.
LEMMA CountKept ==
  ASSUME CrawlInv, SweepInv, CountInv, Unanswered, ~ \E w \in Workers : Begin(w)
  PROVE  CountInv' /\ UNCHANGED countVars
<1>1. UNCHANGED <<setup, countVars>>
  BY DEF Unanswered, LoopProgress, Tick, Offered, LoopStops, LoopEnds, OfferLive, OfferDead, loopElse,
         SamplerProgress, SamplerStops, SamplerEnds, AskTable, TableReply, HandOut, Snapshot,
         PeriodEnds, CrawlNode, CrawlEnds, Due, otherElse, loopVars, mainVars, CloseStop,
         CloseDisc, Wait, FinalSweep, mainElse, vars, Take, WorkerEnds, Report, Refresh, pingElse
<1>2. (\A n \in Nodes : Sending(n)' <=> Sending(n)) /\ \A w \in Workers : wk'[w].pc = "sent" => wk'[w] = wk[w]
  <2>1. CASE UNCHANGED wk
    BY <2>1 DEF Sending
  <2>2. CASE \E w \in Workers : Take(w) \/ WorkerEnds(w) \/ Report(w) \/ Refresh(w)
    <3>1. PICK w \in Workers : Take(w) \/ WorkerEnds(w) \/ Report(w) \/ Refresh(w)
      BY <2>2
    <3>2. /\ wk[w].pc # "sent" /\ wk'[w].pc # "sent"
          /\ \A v \in Workers : v # w => wk'[v] = wk[v]
      <4>1. wk[w].pc # "sent"
        BY <3>1 DEF Take, WorkerEnds, Report, Refresh
      <4> QED
        BY <3>1, <4>1, WorkerGoes
    <3> QED
      BY <3>2 DEF Sending
  <2>3. UNCHANGED wk \/ \E w \in Workers : Take(w) \/ WorkerEnds(w) \/ Report(w) \/ Refresh(w)
    BY DEF Unanswered, LoopProgress, Tick, Offered, LoopStops, LoopEnds, OfferLive, OfferDead, loopElse,
           SamplerProgress, SamplerStops, SamplerEnds, AskTable, TableReply, HandOut, Snapshot,
           PeriodEnds, CrawlNode, CrawlEnds, Due, otherElse, CloseStop, CloseDisc, Wait, FinalSweep,
           mainElse, vars
  <2> QED
    BY <2>1, <2>2, <2>3
<1> QED
  BY <1>1, <1>2, AnswersKept, NoPingStep

LEMMA FinalStep ==
  ASSUME SweepInv, FinalInv, [Next]_vars,
         UNCHANGED countVars \/ \E w \in Workers : Begin(w) \/ Pong(w) \/ Miss(w)
  PROVE  FinalInv'
<1>1. CASE \E w \in Workers : Begin(w) \/ Pong(w) \/ Miss(w)
  <2>1. PICK w \in Workers : Begin(w) \/ Pong(w) \/ Miss(w)
    BY <1>1
  <2>2. wk[w].pc # "ended" /\ mpc' = mpc
    BY <2>1 DEF Begin, Pong, Miss, pingElse, mainVars
  <2> QED
    BY <2>2 DEF SweepInv, FinalInv
<1>2. CASE UNCHANGED countVars
  <2>1. (mpc' = mpc /\ final' = final) \/ CloseStop \/ CloseDisc \/ Wait \/ FinalSweep
    <3>1. CASE LoopProgress
      BY <3>1
      DEF LoopProgress, Tick, Offered, LoopStops, LoopEnds, OfferLive, OfferDead, loopElse, mainVars
    <3>2. CASE SamplerProgress \/ Snapshot \/ PeriodEnds
      BY <3>2
      DEF SamplerProgress, SamplerStops, SamplerEnds, AskTable, TableReply, HandOut, Snapshot,
          PeriodEnds, otherElse, mainVars
    <3>3. CASE CrawlNode \/ CrawlEnds \/ \E n \in Nodes : Due(n)
      BY <3>3 DEF CrawlNode, CrawlEnds, Due, loopElse, otherElse, mainVars
    <3>4. CASE \E w \in Workers : WorkerStep(w)
      <4>1. PICK w \in Workers : WorkerStep(w)
        BY <3>4
      <4>2. UNCHANGED mainVars
        BY <4>1 DEF WorkerStep, Take, WorkerEnds, Begin, Pong, Miss, Report, Refresh, pingElse
      <4> QED
        BY <4>2 DEF mainVars
    <3>5. CASE UNCHANGED vars
      BY <3>5 DEF vars, mainVars
    <3> QED
      BY <3>1, <3>2, <3>3, <3>4, <3>5 DEF Next
  <2>2. mpc' = "swept" => (mpc' = mpc /\ final' = final) \/ FinalSweep
    BY <2>1 DEF CloseStop, CloseDisc, Wait
  <2> QED
    BY <1>2, <2>2 DEF FinalInv, FinalSweep, countVars
<1> QED
  BY <1>1, <1>2

LEMMA PingInvariant == Spec => []PingInv
<1>1. Init => PingInv
  <2> SUFFICES ASSUME Init PROVE PingInv
    OBVIOUS
  <2>1. CrawlInv
    BY InitHolds
  <2>2. \A n \in Nodes : reg[n].attempts = 0 /\ ~ reg[n].everUp /\ ~ Sending(n)
    BY DEF Init, Unknown, IdleWorker, Sending
  <2>3. FirstTries(0) = 0 /\ LaterTries(0) = 0
    BY CrawlAssumption DEF FirstTries, LaterTries
  <2>4. \A n \in Nodes : OnProbe[n] = 0 /\ OnDead[n] = 0
    BY <2>2, <2>3 DEF OnProbe, OnDead, One
  <2>5. SumFunctionOnSet(OnProbe, Nodes) = 0 /\ SumFunctionOnSet(OnDead, Nodes) = 0
    BY <2>1, <2>4, UnsettledFacts, SumZero
  <2>6. Cardinality(Returned) = 0
    BY <2>2, FS_EmptySet DEF Returned
  <2>7. \A w \in Workers : wk[w].pc # "sent"
    BY DEF Init, IdleWorker
  <2> QED
    BY <2>5, <2>6, <2>7 DEF Init, PingInv, CountInv, FinalInv, SentInv
<1>2. CrawlInv /\ CrawlInv' /\ SweepInv /\ PingInv /\ [Next]_vars => PingInv'
  <2> SUFFICES ASSUME CrawlInv, CrawlInv', SweepInv, PingInv, [Next]_vars
               PROVE  PingInv'
    OBVIOUS
  <2>1. CountInv /\ FinalInv
    BY DEF PingInv
  <2>2. CASE \E w \in Workers : Begin(w) \/ Pong(w) \/ Miss(w)
    BY <2>1, <2>2, PingSettles, FinalStep DEF PingInv
  <2>3. CASE ~ \E w \in Workers : Begin(w) \/ Pong(w) \/ Miss(w)
    <3>1. CountInv' /\ UNCHANGED countVars
      BY <2>1, <2>3, CountKept, StepKinds
    <3> QED
      BY <2>1, <3>1, FinalStep DEF PingInv
  <2> QED
    BY <2>2, <2>3
<1> QED
  BY <1>1, <1>2, CrawlInvariant, SweepInvariant, PTL DEF Spec

\* main's last sweep is written when every ping has come to its end, because the
\* workers are waited for and what is observed afterwards touches no counter and no
\* attempt.  Each ping on the probe schedule is a pong, an error, or one of the
\* first tries of a node; each ping of a never-responder is an attempt, or the first
\* answer of a node that had been given up, once per such node.  And the nodes it
\* counts as up have all answered at some time and are those whose last session in
\* the log is open.
THEOREM SweepAddsUp == Spec => []FinalSweepAddsUp
<1>1. CrawlInv /\ SweepInv /\ PingInv /\ BalanceInv => FinalSweepAddsUp
  <2> SUFFICES ASSUME CrawlInv, SweepInv, PingInv, BalanceInv, mpc = "swept"
               PROVE  PingsAddUp /\ NodesAddUp
    BY DEF FinalSweepAddsUp
  <2>1. /\ \A w \in Workers : wk[w].pc = "ended"
        /\ final.up = Cardinality(UpNodes) /\ final.everUp = Cardinality(EverUpNodes)
    BY DEF SweepInv
  <2>2. NodesAddUp
    <3>1. final.deadPongs = Cardinality(Returned)
      BY DEF PingInv, CountInv, FinalInv
    <3>2. ASSUME NEW n \in Nodes
          PROVE  reg[n].up <=> Copies(log[n], "up") > Copies(log[n], "down")
      <4>1. Ups(n) = {} /\ Downs(n) = {}
        BY <2>1 DEF Ups, Downs, Reporting
      <4>2. log[n] \in Seq({"up", "down"})
        BY DEF CrawlInv, TypeOK
      <4>3. Copies(log[n], "up") \in Nat /\ Copies(log[n], "down") \in Nat
        BY <4>2, CopiesOfAppend
      <4>4. Copies(log[n], "up") = Copies(log[n], "down") + One(reg[n].up)
        <5>1. Cardinality(Ups(n)) = 0 /\ Cardinality(Downs(n)) = 0 /\ One(reg[n].up) \in Nat
          BY <4>1, FS_EmptySet DEF One
        <5> QED
          BY <4>3, <5>1 DEF BalanceInv
      <4>5. CASE reg[n].up
        BY <4>3, <4>4, <4>5 DEF One
      <4>6. CASE ~ reg[n].up
        BY <4>3, <4>4, <4>6 DEF One
      <4> QED
        BY <4>5, <4>6
    <3>3. UpNodes = {n \in Nodes : Copies(log[n], "up") > Copies(log[n], "down")}
      BY <3>2 DEF UpNodes
    <3>4. UpNodes \subseteq EverUpNodes /\ EverUpNodes \subseteq Nodes
      BY DEF UpNodes, EverUpNodes, SweepInv
    <3>5. IsFiniteSet(EverUpNodes)
      BY <3>4, NetworkFacts, FS_Subset DEF CrawlInv, TypeOK
    <3>6. Cardinality(UpNodes) <= Cardinality(EverUpNodes)
      BY <3>4, <3>5, FS_Subset
    <3> QED
      BY <2>1, <3>1, <3>3, <3>6 DEF NodesAddUp, Returned
  <2>3. PingsAddUp
    <3> DEFINE a == [n \in Nodes |-> FirstTries(reg[n].attempts)]
               b == [n \in Nodes |-> LaterTries(reg[n].attempts)]
    <3>1. \A n \in Nodes : ~ Sending(n)
      BY <2>1 DEF Sending
    <3>2. \A n \in Nodes : OnProbe[n] = a[n] /\ OnDead[n] = b[n]
      <4>1. \A n \in Nodes : /\ One(Sending(n) /\ Fast(n)) = 0 /\ One(Sending(n) /\ ~ Fast(n)) = 0
                             /\ reg[n].attempts \in Nat
        BY <3>1 DEF One, CrawlInv, TypeOK, Entry
      <4>2. \A n \in Nodes : a[n] \in Nat /\ b[n] \in Nat
        BY <4>1, TriesFacts
      <4>3. \A n \in Nodes : OnProbe[n] = a[n] + One(Sending(n) /\ Fast(n))
        BY DEF OnProbe
      <4>4. \A n \in Nodes : OnDead[n] = b[n] + One(Sending(n) /\ ~ Fast(n))
        BY DEF OnDead
      <4> HIDE DEF a, b
      <4> QED
        BY <4>1, <4>2, <4>3, <4>4
    <3> HIDE DEF a, b
    <3>3. /\ SumFunctionOnSet(OnProbe, Nodes) = SumFunctionOnSet(a, Nodes)
          /\ SumFunctionOnSet(OnDead, Nodes) = SumFunctionOnSet(b, Nodes)
      BY <3>2, UnsettledFacts, SumEqual
    <3> QED
      BY <3>3 DEF PingsAddUp, PingInv, CountInv, FinalInv, a, b
  <2> QED
    BY <2>2, <2>3
<1> QED
  BY <1>1, CrawlInvariant, SweepInvariant, PingInvariant, BalanceInvariant, PTL
=============================================================================

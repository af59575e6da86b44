----------------------------- MODULE BFC_proofs -----------------------------
(***************************************************************************)
(* Proofs about BFC for any flows, interfaces and queues, any lengths of   *)
(* the buffers and wires: the state stays well formed, every pause has a   *)
(* packet that will end it, the counters of the upstream ports and the     *)
(* pauses of the egress port agree, and flows stay in order.               *)
(***************************************************************************)
EXTENDS BFC, PrefixSum_proofs, SequenceTheorems

-----------------------------------------------------------------------------
(***************************************************************************)
(* Counting in a family of sets.                                           *)
(***************************************************************************)
\* The queues that hold s.
Holders(g, s) == {q \in Queues : s \in g[q]}

LEMMA Parameters ==
  /\ FlowLength \in Nat \ {0}
  /\ IfaceOf \in [Flows -> Ifaces]
  /\ NumQueues \in Nat \ {0}
  /\ numb \in [Queues -> Queues]
  /\ DataCapacity \in Int /\ SharedBuffer \in Nat /\ Headroom \in Nat
BY BfcAssumption DEF NoLimit

LEMMA HoldersFinite ==
  ASSUME NEW g, NEW s
  PROVE  IsFiniteSet(Holders(g, s)) /\ Cardinality(Holders(g, s)) \in Nat
<1>1. IsFiniteSet(Queues)
  <2>1. 0 \in Int /\ NumQueues - 1 \in Int
    BY Parameters
  <2>2. QED
    BY <2>1, FS_Interval DEF Queues
<1>2. Holders(g, s) \in SUBSET Queues
  BY DEF Holders
<1>3. QED
  BY <1>1, <1>2, FS_Subset, FS_CardinalityType

\* A source that a queue takes in or lets go of is counted once.
LEMMA HolderJoins ==
  ASSUME NEW g, NEW q \in Queues, NEW s, s \notin g[q], DOMAIN g = Queues, NEW x
  PROVE  Cardinality(Holders([g EXCEPT ![q] = @ \cup {s}], x))
           = Cardinality(Holders(g, x)) + (IF s = x THEN 1 ELSE 0)
<1> DEFINE h == [g EXCEPT ![q] = @ \cup {s}]
<1>1. h[q] = g[q] \cup {s} /\ \A r \in Queues \ {q} : h[r] = g[r]
  OBVIOUS
<1> HIDE DEF h
<1>2. IsFiniteSet(Holders(g, x)) /\ Cardinality(Holders(g, x)) \in Nat
  BY HoldersFinite
<1>3. CASE s = x
  <2>1. Holders(h, x) = Holders(g, x) \cup {q} /\ q \notin Holders(g, x)
    BY <1>1, <1>3 DEF Holders
  <2>2. QED
    BY <1>2, <1>3, <2>1, FS_AddElement DEF h
<1>4. CASE s # x
  <2>1. Holders(h, x) = Holders(g, x)
    BY <1>1, <1>4 DEF Holders
  <2>2. QED
    BY <1>2, <1>4, <2>1 DEF h
<1>5. QED
  BY <1>3, <1>4

LEMMA HolderLeaves ==
  ASSUME NEW g, NEW q \in Queues, NEW s, s \in g[q], DOMAIN g = Queues, NEW x
  PROVE  Cardinality(Holders([g EXCEPT ![q] = @ \ {s}], x))
           = Cardinality(Holders(g, x)) - (IF s = x THEN 1 ELSE 0)
<1> DEFINE h == [g EXCEPT ![q] = @ \ {s}]
<1>1. h[q] = g[q] \ {s} /\ \A r \in Queues \ {q} : h[r] = g[r]
  OBVIOUS
<1> HIDE DEF h
<1>2. IsFiniteSet(Holders(g, x)) /\ Cardinality(Holders(g, x)) \in Nat
  BY HoldersFinite
<1>3. CASE s = x
  <2>1. Holders(h, x) = Holders(g, x) \ {q} /\ q \in Holders(g, x)
    BY <1>1, <1>3 DEF Holders
  <2>2. QED
    BY <1>2, <1>3, <2>1, FS_RemoveElement DEF h
<1>4. CASE s # x
  <2>1. Holders(h, x) = Holders(g, x)
    BY <1>1, <1>4 DEF Holders
  <2>2. QED
    BY <1>2, <1>4, <2>1 DEF h
<1>5. QED
  BY <1>3, <1>4

-----------------------------------------------------------------------------
(***************************************************************************)
(* The state of the switch.                                                *)
(***************************************************************************)
Sources == Ifaces \X UpQueues
Maps == UNION {[F -> Queues] : F \in SUBSET Flows}

Switches == [queue        : [Queues -> Seq(Packets)],
             isPausedFlow : [Queues -> SUBSET Flows],
             ispaused     : [Queues -> SUBSET Sources],
             flowid_queue : Maps,
             sharedBuffer : [Queues -> Nat],
             egBusy       : BOOLEAN,
             macBusy      : [Ifaces -> BOOLEAN],
             bfcWire      : [Ifaces -> Seq(Commands)],
             lost         : [Ifaces -> [UpQueues -> Int]],
             passed       : [Flows -> 0..FlowLength]]

LEMMA PartsOf ==
  ASSUME NEW n \in Switches
  PROVE  /\ n.queue \in [Queues -> Seq(Packets)]
         /\ n.isPausedFlow \in [Queues -> SUBSET Flows]
         /\ n.ispaused \in [Queues -> SUBSET Sources]
         /\ n.flowid_queue \in Maps
         /\ n.sharedBuffer \in [Queues -> Nat]
         /\ n.egBusy \in BOOLEAN
         /\ n.macBusy \in [Ifaces -> BOOLEAN]
         /\ n.bfcWire \in [Ifaces -> Seq(Commands)]
         /\ n.lost \in [Ifaces -> [UpQueues -> Int]]
         /\ n.passed \in [Flows -> 0..FlowLength]
BY DEF Switches

LEMMA MapsAre ==
  ASSUME NEW m
  PROVE  m \in Maps <=> /\ m = [f \in DOMAIN m |-> m[f]]
                        /\ DOMAIN m \subseteq Flows
                        /\ \A f \in DOMAIN m : m[f] \in Queues
BY DEF Maps

\* The parts that no command changes.
SameBuffers(m, n) ==
    /\ m.queue = n.queue
    /\ m.flowid_queue = n.flowid_queue
    /\ m.sharedBuffer = n.sharedBuffer
    /\ m.egBusy = n.egBusy
    /\ m.passed = n.passed

\* What is under way and lost, less what is paused: the value of the counter of
\* the upstream queue, with the sign changed.
WireBalance(w, u) ==
    Copies(w, [op |-> "PAUSE", queueID |-> u]) - Copies(w, [op |-> "RESUME", queueID |-> u])
Balance(n, i, u) ==
    WireBalance(n.bfcWire[i], u) + n.lost[i][u] - Cardinality(Holders(n.ispaused, <<i, u>>))

Sign(op) == IF op = "PAUSE" THEN 1 ELSE -1

LEMMA WireBalanceType ==
  ASSUME NEW w \in Seq(Commands), NEW u \in UpQueues
  PROVE  WireBalance(w, u) \in Int
BY PlacesFinite DEF WireBalance

LEMMA WireBalanceSent ==
  ASSUME NEW w \in Seq(Commands), NEW op \in {"PAUSE", "RESUME"}, NEW v \in UpQueues,
         NEW u \in UpQueues
  PROVE  WireBalance(Append(w, [op |-> op, queueID |-> v]), u)
           = WireBalance(w, u) + (IF u = v THEN Sign(op) ELSE 0)
<1> DEFINE e == [op |-> op, queueID |-> v]
           pause == [op |-> "PAUSE", queueID |-> u]
           resume == [op |-> "RESUME", queueID |-> u]
<1>1. e \in Commands
  BY DEF Commands
<1>2. /\ e = pause <=> op = "PAUSE" /\ u = v
      /\ e = resume <=> op = "RESUME" /\ u = v
  OBVIOUS
<1> HIDE DEF e, pause, resume
<1>3. /\ Copies(w, pause) \in Nat /\ Copies(w, resume) \in Nat
  BY PlacesFinite
<1>4. /\ Copies(Append(w, e), pause) = Copies(w, pause) + (IF e = pause THEN 1 ELSE 0)
      /\ Copies(Append(w, e), resume) = Copies(w, resume) + (IF e = resume THEN 1 ELSE 0)
  BY <1>1, CopiesAppended
<1>5. Copies(Append(w, e), pause) - Copies(Append(w, e), resume)
        = Copies(w, pause) - Copies(w, resume) + (IF u = v THEN Sign(op) ELSE 0)
  BY <1>2, <1>3, <1>4 DEF Sign
<1>6. QED
  BY <1>5, Zenon DEF WireBalance, e, pause, resume

LEMMA WireBalanceRead ==
  ASSUME NEW w \in Seq(Commands), w # <<>>, NEW u \in UpQueues
  PROVE  WireBalance(w, u) = WireBalance(Tail(w), u)
                               + (IF Head(w).queueID = u THEN Sign(Head(w).op) ELSE 0)
<1> DEFINE e == Head(w)
           t == Tail(w)
           pause == [op |-> "PAUSE", queueID |-> u]
           resume == [op |-> "RESUME", queueID |-> u]
<1>1. e \in Commands /\ t \in Seq(Commands)
  OBVIOUS
<1>2. /\ e = pause <=> e.op = "PAUSE" /\ e.queueID = u
      /\ e = resume <=> e.op = "RESUME" /\ e.queueID = u
      /\ e.op \in {"PAUSE", "RESUME"}
  <2> HIDE DEF e
  <2>1. QED
    BY <1>1 DEF Commands
<1>3. /\ Copies(w, pause) = Copies(t, pause) + (IF e = pause THEN 1 ELSE 0)
      /\ Copies(w, resume) = Copies(t, resume) + (IF e = resume THEN 1 ELSE 0)
  <2> HIDE DEF pause, resume
  <2>1. QED
    BY CopiesOfTail
<1> HIDE DEF e, t, pause, resume
<1>4. /\ Copies(t, pause) \in Nat /\ Copies(t, resume) \in Nat
  BY <1>1, PlacesFinite
<1>5. Copies(w, pause) - Copies(w, resume)
        = Copies(t, pause) - Copies(t, resume) + (IF e.queueID = u THEN Sign(e.op) ELSE 0)
  BY <1>2, <1>3, <1>4 DEF Sign
<1>6. QED
  BY <1>5, Zenon DEF WireBalance, e, t, pause, resume

\* A command is sent or counted as lost.
LEMMA CommandKeeps ==
  ASSUME NEW n \in Switches, NEW op \in {"PAUSE", "RESUME"}, NEW s \in Sources
  PROVE  /\ processbfccommand(n, op, s) \in Switches
         /\ SameBuffers(processbfccommand(n, op, s), n)
         /\ processbfccommand(n, op, s).isPausedFlow = n.isPausedFlow
         /\ processbfccommand(n, op, s).ispaused = n.ispaused
<1> DEFINE i == s[1]
           u == s[2]
           e == [op |-> op, queueID |-> u]
<1>1. i \in Ifaces /\ u \in UpQueues /\ e \in Commands
  BY DEF Sources, Commands
<1>2. CASE n.macBusy[i]
  <2> DEFINE m == [n EXCEPT !.lost[i][u] = @ + Sign(op)]
  <2>1. processbfccommand(n, op, s) = m
    BY <1>2 DEF processbfccommand, Sign
  <2>2. n.lost[i][u] \in Int /\ Sign(op) \in Int
    BY <1>1, PartsOf DEF Sign
  <2>3. [n.lost EXCEPT ![i][u] = @ + Sign(op)] \in [Ifaces -> [UpQueues -> Int]]
    BY <1>1, <2>2, PartsOf
  <2>4. m = [n EXCEPT !.lost = [n.lost EXCEPT ![i][u] = @ + Sign(op)]]
    BY DEF Switches
  <2>5. QED
    BY <2>1, <2>3, <2>4 DEF Switches, SameBuffers
<1>3. CASE ~n.macBusy[i]
  <2> DEFINE m == [n EXCEPT !.macBusy[i] = TRUE, !.bfcWire[i] = Append(@, e)]
             b == [n.macBusy EXCEPT ![i] = TRUE]
             w == [n.bfcWire EXCEPT ![i] = Append(@, e)]
  <2>1. processbfccommand(n, op, s) = m
    BY <1>3 DEF processbfccommand
  <2>2. b \in [Ifaces -> BOOLEAN] /\ w \in [Ifaces -> Seq(Commands)]
    <3>1. Append(n.bfcWire[i], e) \in Seq(Commands)
      <4> HIDE DEF e
      <4>1. QED
        BY <1>1, PartsOf
    <3>2. QED
      BY <1>1, <3>1, PartsOf
  <2>3. m = [n EXCEPT !.macBusy = b, !.bfcWire = w]
    BY DEF Switches
  <2> DEFINE o == [n EXCEPT !.macBusy = b, !.bfcWire = w]
  <2> HIDE DEF b, w
  <2>4. /\ o \in Switches
        /\ SameBuffers(o, n)
        /\ o.isPausedFlow = n.isPausedFlow
        /\ o.ispaused = n.ispaused
    BY <2>2 DEF Switches, SameBuffers
  <2>5. processbfccommand(n, op, s) = o
    BY <2>1, <2>3
  <2> HIDE DEF o
  <2>6. QED
    BY <2>4, <2>5, Zenon
<1>4. QED
  BY <1>2, <1>3

LEMMA CommandBalance ==
  ASSUME NEW n \in Switches, NEW op \in {"PAUSE", "RESUME"}, NEW s \in Sources,
         NEW j \in Ifaces, NEW v \in UpQueues
  PROVE  Balance(processbfccommand(n, op, s), j, v)
           = Balance(n, j, v) + (IF s = <<j, v>> THEN Sign(op) ELSE 0)
<1> DEFINE i == s[1]
           u == s[2]
           c == processbfccommand(n, op, s)
           e == [op |-> op, queueID |-> u]
<1>1. i \in Ifaces /\ u \in UpQueues /\ (s = <<j, v>> <=> i = j /\ u = v)
  BY DEF Sources
<1>2. c.ispaused = n.ispaused
  BY CommandKeeps
<1>3. /\ WireBalance(n.bfcWire[j], v) \in Int /\ n.lost[j][v] \in Int
      /\ Cardinality(Holders(n.ispaused, <<j, v>>)) \in Nat /\ Sign(op) \in Int
  BY PartsOf, WireBalanceType, HoldersFinite DEF Sign
<1>4. CASE n.macBusy[i]
  <2>1. c = [n EXCEPT !.lost[i][u] = @ + Sign(op)]
    BY <1>4 DEF processbfccommand, Sign
  <2>2. /\ c.bfcWire = n.bfcWire
        /\ c.lost = [n.lost EXCEPT ![i][u] = @ + Sign(op)]
    BY <2>1 DEF Switches
  <2>3. c.lost[j][v] = n.lost[j][v] + (IF s = <<j, v>> THEN Sign(op) ELSE 0)
    BY <1>1, <1>3, <2>2, PartsOf
  <2> HIDE DEF c
  <2>4. QED
    BY <1>2, <1>3, <2>2, <2>3 DEF Balance, c
<1>5. CASE ~n.macBusy[i]
  <2>1. c = [n EXCEPT !.macBusy[i] = TRUE, !.bfcWire[i] = Append(@, e)]
    BY <1>5 DEF processbfccommand
  <2>2. /\ c.lost = n.lost
        /\ c.bfcWire = [n.bfcWire EXCEPT ![i] = Append(@, e)]
    BY <2>1 DEF Switches
  <2>3. c.bfcWire[j] = IF i = j THEN Append(n.bfcWire[j], e) ELSE n.bfcWire[j]
    BY <1>1, <2>2, PartsOf
  <2>4. WireBalance(Append(n.bfcWire[j], e), v)
          = WireBalance(n.bfcWire[j], v) + (IF v = u THEN Sign(op) ELSE 0)
    BY <1>1, PartsOf, WireBalanceSent
  <2>5. WireBalance(c.bfcWire[j], v)
          = WireBalance(n.bfcWire[j], v) + (IF s = <<j, v>> THEN Sign(op) ELSE 0)
    BY <1>1, <1>3, <2>3, <2>4
  <2> HIDE DEF c
  <2>6. QED
    BY <1>2, <1>3, <2>2, <2>5 DEF Balance, c
<1>6. QED
  BY <1>4, <1>5

-----------------------------------------------------------------------------
(***************************************************************************)
(* The invariant of the switch.                                            *)
(***************************************************************************)
TaggedIn(s, f) == \E k \in 1..Len(s) : s[k].tagged /\ s[k].flow = f

\* A flow that a queue has marked has a tagged packet there, and a source that
\* it has paused has a flow that is marked.
WitnessedBy(queue, marked, paused) ==
    \A q \in Queues :
        /\ \A f \in marked[q] : TaggedIn(queue[q], f)
        /\ \A s \in paused[q] : \E f \in marked[q] : Source(f) = s

Witnessed(n) == WitnessedBy(n.queue, n.isPausedFlow, n.ispaused)

\* entered[f] packets of flow f have come.  Those that wait have numbers between
\* the last that left and the last that came; a flow that the classifier knows
\* has them in the queue it is mapped to, and one that it does not know has not
\* begun or is over.
OrderedBy(queue, map, passed, entered) ==
    /\ \A q \in Queues : \A k \in 1..Len(queue[q]) :
          LET p == queue[q][k] IN
          /\ passed[p.flow] < p.n /\ p.n <= entered[p.flow]
          /\ p.flow \in DOMAIN map => map[p.flow] = q
    /\ \A q \in Queues : \A k \in 1..Len(queue[q]) :
          \A r \in Queues : \A j \in 1..Len(queue[r]) :
              queue[r][j].flow = queue[q][k].flow
                  => r = q /\ (j > k => queue[r][j].n > queue[q][k].n)
    /\ \A f \in Flows : /\ passed[f] <= entered[f]
                        /\ f \in DOMAIN map \/ entered[f] \in {0, FlowLength}

Ordered(n, entered) == OrderedBy(n.queue, n.flowid_queue, n.passed, entered)

Good(n, entered) == n \in Switches /\ Witnessed(n) /\ Ordered(n, entered)

\* m counts the pauses as n does.
SameBalance(m, n) ==
    \A i \in Ifaces, u \in UpQueues : Balance(m, i, u) = Balance(n, i, u)

-----------------------------------------------------------------------------
(***************************************************************************)
(* Pulling a packet.                                                       *)
(***************************************************************************)
LEMMA SourceIn ==
  ASSUME named \in [Flows -> UpQueues], NEW f \in Flows
  PROVE  Source(f) \in Sources
BY Parameters DEF Source, Sources

\* The resume that the tag on a packet asks for.
ResumeDue(n, q, p) == p.tagged /\ p.flow \in n.isPausedFlow[q]

LEMMA ResumedKeeps ==
  ASSUME named \in [Flows -> UpQueues],
         NEW n \in Switches, NEW q \in Queues, NEW p \in Packets
  PROVE  LET r == Resumed(n, q, p)
         IN  /\ r \in Switches
             /\ SameBuffers(r, n)
             /\ r.isPausedFlow = IF ResumeDue(n, q, p)
                                 THEN [n.isPausedFlow EXCEPT ![q] = @ \ {p.flow}]
                                 ELSE n.isPausedFlow
             /\ r.ispaused = IF ResumeDue(n, q, p)
                             THEN [n.ispaused EXCEPT ![q] = @ \ {Source(p.flow)}]
                             ELSE n.ispaused
             /\ SameBalance(r, n)
<1> DEFINE s == Source(p.flow)
           g == [n.isPausedFlow EXCEPT ![q] = @ \ {p.flow}]
           h == [n.ispaused EXCEPT ![q] = @ \ {s}]
           m == [n EXCEPT !.isPausedFlow = g, !.ispaused = h]
           x == [n EXCEPT !.isPausedFlow[q] = @ \ {p.flow}, !.ispaused[q] = @ \ {s}]
           r == Resumed(n, q, p)
<1>1. p.flow \in Flows
  BY DEF Packets
<1>2. s \in Sources
  BY <1>1, SourceIn
<1>3. g \in [Queues -> SUBSET Flows] /\ h \in [Queues -> SUBSET Sources]
  <2> HIDE DEF s
  <2>1. QED
    BY PartsOf
<1>4. x = m
  BY DEF Switches
<1>5. r = IF ~ResumeDue(n, q, p) THEN n
          ELSE IF s \in n.ispaused[q] THEN processbfccommand(m, "RESUME", s)
          ELSE m
  <2>1. r = IF ~p.tagged \/ p.flow \notin n.isPausedFlow[q] THEN n
            ELSE IF s \in n.ispaused[q] THEN processbfccommand(x, "RESUME", s)
            ELSE x
    BY DEF Resumed
  <2>2. ResumeDue(n, q, p) <=> ~(~p.tagged \/ p.flow \notin n.isPausedFlow[q])
    BY DEF ResumeDue
  <2> HIDE DEF m, r, s, x
  <2>3. QED
    BY <1>4, <2>1, <2>2
<1>6. /\ m \in Switches /\ SameBuffers(m, n) /\ m.isPausedFlow = g /\ m.ispaused = h
      /\ m.bfcWire = n.bfcWire /\ m.lost = n.lost
  <2> HIDE DEF g, h
  <2>1. QED
    BY <1>3 DEF Switches, SameBuffers
<1>7. ASSUME NEW i \in Ifaces, NEW u \in UpQueues
      PROVE  Balance(m, i, u) = Balance(n, i, u)
                 + (IF s \in n.ispaused[q] /\ s = <<i, u>> THEN 1 ELSE 0)
  <2>1. /\ WireBalance(n.bfcWire[i], u) \in Int /\ n.lost[i][u] \in Int
        /\ Cardinality(Holders(n.ispaused, <<i, u>>)) \in Nat
    BY PartsOf, WireBalanceType, HoldersFinite
  <2>2. n.ispaused \in [Queues -> SUBSET Sources]
    BY PartsOf
  <2> HIDE DEF s
  <2>3. CASE s \in n.ispaused[q]
    <3>1. Cardinality(Holders(h, <<i, u>>))
            = Cardinality(Holders(n.ispaused, <<i, u>>)) - (IF s = <<i, u>> THEN 1 ELSE 0)
      BY <2>2, <2>3, HolderLeaves
    <3> HIDE DEF h, m
    <3>2. QED
      BY <1>6, <2>1, <2>3, <3>1 DEF Balance
  <2>4. CASE s \notin n.ispaused[q]
    <3>1. h = n.ispaused
      BY <2>2, <2>4
    <3> HIDE DEF h, m
    <3>2. QED
      BY <1>6, <2>1, <2>4, <3>1 DEF Balance
  <2>5. QED
    BY <2>3, <2>4
<1> HIDE DEF s, g, h, m
<1>8. CASE ~ResumeDue(n, q, p)
  <2>1. r = n
    BY <1>5, <1>8
  <2>2. SameBuffers(n, n) /\ SameBalance(n, n)
    BY DEF SameBuffers, SameBalance
  <2> HIDE DEF r
  <2>3. QED
    BY <1>8, <2>1, <2>2 DEF r
<1>9. CASE ResumeDue(n, q, p) /\ s \notin n.ispaused[q]
  <2>1. r = m
    BY <1>5, <1>9
  <2>2. SameBalance(m, n)
    <3>1. \A i \in Ifaces, u \in UpQueues : Balance(n, i, u) \in Int
      BY PartsOf, WireBalanceType, HoldersFinite DEF Balance
    <3>2. QED
      BY <1>7, <1>9, <3>1 DEF SameBalance
  <2> HIDE DEF r
  <2>3. QED
    BY <1>6, <1>9, <2>1, <2>2 DEF r, g, h, s
<1>10. CASE ResumeDue(n, q, p) /\ s \in n.ispaused[q]
  <2>1. r = processbfccommand(m, "RESUME", s)
    BY <1>5, <1>10
  <2> HIDE DEF r
  <2>2. r \in Switches /\ SameBuffers(r, m) /\ r.isPausedFlow = g /\ r.ispaused = h
    BY <1>2, <1>6, <2>1, CommandKeeps
  <2>3. SameBuffers(r, n)
    BY <1>6, <2>2 DEF SameBuffers
  <2>4. ASSUME NEW i \in Ifaces, NEW u \in UpQueues
        PROVE  Balance(r, i, u) = Balance(n, i, u)
    <3>1. Balance(r, i, u) = Balance(m, i, u) + (IF s = <<i, u>> THEN -1 ELSE 0)
      <4>1. Sign("RESUME") = -1
        BY DEF Sign
      <4>2. QED
        BY <1>2, <1>6, <2>1, <4>1, CommandBalance
    <3>2. Balance(m, i, u) = Balance(n, i, u) + (IF s = <<i, u>> THEN 1 ELSE 0)
      BY <1>7, <1>10
    <3>3. Balance(n, i, u) \in Int
      BY PartsOf, WireBalanceType, HoldersFinite DEF Balance
    <3>4. QED
      BY <3>1, <3>2, <3>3
  <2>5. SameBalance(r, n)
    BY <2>4 DEF SameBalance
  <2>6. QED
    BY <1>10, <2>2, <2>3, <2>5 DEF r, g, h, s
<1>11. QED
  BY <1>8, <1>9, <1>10

QueueStates == [Queues -> Seq(Packets)]

\* The packets of a queue after its first has left are those behind it.
Before(r, q, k) == IF r = q THEN k + 1 ELSE k

WithoutFirst(queue, q) == [queue EXCEPT ![q] = Tail(@)]

LEMMA TailPackets ==
  ASSUME NEW queue \in QueueStates, NEW q \in Queues, queue[q] # <<>>
  PROVE  /\ WithoutFirst(queue, q) \in QueueStates
         /\ \A r \in Queues : \A k \in 1..Len(WithoutFirst(queue, q)[r]) :
               /\ Before(r, q, k) \in 1..Len(queue[r])
               /\ WithoutFirst(queue, q)[r][k] = queue[r][Before(r, q, k)]
<1> DEFINE s == queue[q]
           t == WithoutFirst(queue, q)
<1>1. /\ s \in Seq(Packets) /\ s # <<>>
  BY DEF QueueStates
<1>2. /\ Tail(s) \in Seq(Packets)
      /\ \A k \in 1..Len(Tail(s)) : k + 1 \in 1..Len(s) /\ Tail(s)[k] = s[k + 1]
  <2> HIDE DEF s
  <2>1. Len(s) \in Nat /\ Len(Tail(s)) = Len(s) - 1
    BY <1>1
  <2>2. QED
    BY <1>1, <2>1, HeadTailProperties
<1>3. t[q] = Tail(s) /\ \A r \in Queues \ {q} : t[r] = queue[r]
  BY DEF QueueStates, WithoutFirst
<1>4. t \in QueueStates
  BY <1>2 DEF QueueStates, WithoutFirst
<1> HIDE DEF t
<1>5. ASSUME NEW r \in Queues, NEW k \in 1..Len(t[r])
      PROVE  Before(r, q, k) \in 1..Len(queue[r]) /\ t[r][k] = queue[r][Before(r, q, k)]
  <2>1. CASE r = q
    BY <1>2, <1>3, <1>5, <2>1 DEF Before
  <2>2. CASE r # q
    BY <1>3, <1>5, <2>2 DEF Before
  <2>3. QED
    BY <2>1, <2>2
<1>6. QED
  BY <1>4, <1>5 DEF t

LEMMA PullKeepsOrder ==
  ASSUME NEW queue \in QueueStates, NEW map, NEW passed \in [Flows -> 0..FlowLength],
         NEW entered \in [Flows -> 0..FlowLength],
         NEW q \in Queues, queue[q] # <<>>, OrderedBy(queue, map, passed, entered)
  PROVE  LET p == Head(queue[q])
         IN  OrderedBy(WithoutFirst(queue, q), map, [passed EXCEPT ![p.flow] = p.n], entered)
<1> DEFINE p == Head(queue[q])
           t == WithoutFirst(queue, q)
           left == [passed EXCEPT ![p.flow] = p.n]
<1>1. /\ queue[q] \in Seq(Packets) /\ 1 \in 1..Len(queue[q]) /\ p = queue[q][1]
      /\ p \in Packets
  <2>1. queue[q] \in Seq(Packets)
    BY DEF QueueStates
  <2>2. QED
    BY <2>1
<1>2. \A r \in Queues : \A k \in 1..Len(t[r]) :
         Before(r, q, k) \in 1..Len(queue[r]) /\ t[r][k] = queue[r][Before(r, q, k)]
  BY TailPackets
<1>3. \A r \in Queues : \A k \in 1..Len(queue[r]) : queue[r][k] \in Packets
  BY DEF QueueStates
<1>4. \A x \in Packets : x.flow \in Flows /\ x.n \in Nat
  BY Parameters DEF Packets
<1>5. p.flow \in Flows /\ p.n \in Nat
  BY <1>1, <1>4
<1>6. \A f \in Flows : left[f] = IF f = p.flow THEN p.n ELSE passed[f]
  BY <1>5
<1> HIDE DEF p, t, left
<1>7. ASSUME NEW r \in Queues, NEW k \in 1..Len(t[r])
      PROVE  /\ left[t[r][k].flow] < t[r][k].n /\ t[r][k].n <= entered[t[r][k].flow]
             /\ t[r][k].flow \in DOMAIN map => map[t[r][k].flow] = r
  <2> DEFINE o == Before(r, q, k)
  <2>1. o \in 1..Len(queue[r]) /\ t[r][k] = queue[r][o]
    BY <1>2
  <2>2. r = q => o > 1
    BY <1>7 DEF Before
  <2> HIDE DEF o
  <2> DEFINE x == queue[r][o]
  <2>3. x \in Packets /\ x.flow \in Flows /\ x.n \in Nat
    BY <1>3, <1>4, <2>1
  <2>4. /\ passed[x.flow] < x.n /\ x.n <= entered[x.flow]
        /\ x.flow \in DOMAIN map => map[x.flow] = r
    BY <2>1 DEF OrderedBy
  <2>5. x.flow = p.flow => p.n < x.n
    <3>1. x.flow = p.flow => r = q /\ (o > 1 => x.n > p.n)
      BY <1>1, <2>1 DEF OrderedBy
    <3>2. QED
      BY <1>5, <2>2, <2>3, <3>1
  <2> HIDE DEF x
  <2>6. left[x.flow] < x.n
    BY <1>6, <2>3, <2>4, <2>5
  <2>7. t[r][k] = x
    BY <2>1 DEF x
  <2>8. QED
    BY <2>4, <2>6, <2>7
<1>8. ASSUME NEW r \in Queues, NEW k \in 1..Len(t[r]),
             NEW z \in Queues, NEW j \in 1..Len(t[z]), t[z][j].flow = t[r][k].flow
      PROVE  z = r /\ (j > k => t[z][j].n > t[r][k].n)
  <2> DEFINE o == Before(r, q, k)
             l == Before(z, q, j)
  <2>1. /\ o \in 1..Len(queue[r]) /\ t[r][k] = queue[r][o]
        /\ l \in 1..Len(queue[z]) /\ t[z][j] = queue[z][l]
    BY <1>2
  <2>2. z = r /\ j > k => l > o
    BY <1>8 DEF Before
  <2> HIDE DEF o, l
  <2>3. queue[z][l].flow = queue[r][o].flow
    BY <1>8, <2>1
  <2>4. z = r /\ (l > o => queue[z][l].n > queue[r][o].n)
    BY <2>1, <2>3 DEF OrderedBy
  <2>5. QED
    BY <2>1, <2>2, <2>4
<1>9. ASSUME NEW f \in Flows
      PROVE  left[f] <= entered[f] /\ (f \in DOMAIN map \/ entered[f] \in {0, FlowLength})
  <2>1. passed[f] <= entered[f] /\ (f \in DOMAIN map \/ entered[f] \in {0, FlowLength})
    BY DEF OrderedBy
  <2>2. p.n <= entered[p.flow]
    BY <1>1 DEF OrderedBy
  <2>3. QED
    BY <1>5, <1>6, <2>1, <2>2
<1>10. QED
  <2>1. OrderedBy(t, map, left, entered)
    BY <1>7, <1>8, <1>9 DEF OrderedBy
  <2>2. QED
    BY <2>1 DEF t, left, p

\* The packet that leaves takes with it the marks that it was a witness of.
LEMMA PullKeepsWitness ==
  ASSUME NEW queue \in QueueStates,
         NEW marked \in [Queues -> SUBSET Flows], NEW paused \in [Queues -> SUBSET Sources],
         NEW q \in Queues, queue[q] # <<>>, WitnessedBy(queue, marked, paused)
  PROVE  LET p == Head(queue[q])
             due == p.tagged /\ p.flow \in marked[q]
         IN  WitnessedBy(WithoutFirst(queue, q),
                         IF due THEN [marked EXCEPT ![q] = @ \ {p.flow}] ELSE marked,
                         IF due THEN [paused EXCEPT ![q] = @ \ {Source(p.flow)}] ELSE paused)
<1> DEFINE p == Head(queue[q])
           due == p.tagged /\ p.flow \in marked[q]
           t == WithoutFirst(queue, q)
           g == IF due THEN [marked EXCEPT ![q] = @ \ {p.flow}] ELSE marked
           h == IF due THEN [paused EXCEPT ![q] = @ \ {Source(p.flow)}] ELSE paused
<1>1. /\ \A r \in Queues \ {q} : t[r] = queue[r] /\ g[r] = marked[r] /\ h[r] = paused[r]
      /\ t[q] = Tail(queue[q])
      /\ g[q] = IF due THEN marked[q] \ {p.flow} ELSE marked[q]
      /\ h[q] = IF due THEN paused[q] \ {Source(p.flow)} ELSE paused[q]
  BY DEF QueueStates, WithoutFirst
<1> DEFINE s == queue[q]
<1>2. /\ s \in Seq(Packets) /\ p = s[1] /\ Len(s) \in Nat /\ Len(Tail(s)) = Len(s) - 1
      /\ \A k \in 1..Len(Tail(s)) : Tail(s)[k] = s[k + 1]
  BY DEF QueueStates
<1> HIDE DEF t, g, h, p
<1>3. ASSUME NEW f \in g[q]
      PROVE  TaggedIn(t[q], f)
  <2>1. f \in marked[q]
    BY <1>1
  <2>2. PICK k \in 1..Len(s) : s[k].tagged /\ s[k].flow = f
    BY <2>1 DEF WitnessedBy, TaggedIn
  <2>3. k # 1
    <3>1. k = 1 => due /\ f = p.flow
      BY <1>2, <2>1, <2>2
    <3>2. QED
      BY <1>1, <3>1
  <2>4. k - 1 \in 1..Len(Tail(s)) /\ (k - 1) + 1 = k
    BY <1>2, <2>3
  <2>5. Tail(s)[k - 1] = s[k]
    BY <1>2, <2>4
  <2>6. QED
    BY <1>1, <2>2, <2>4, <2>5 DEF TaggedIn
<1>4. ASSUME NEW x \in h[q]
      PROVE  \E f \in g[q] : Source(f) = x
  <2>1. x \in paused[q] /\ (due => x # Source(p.flow))
    BY <1>1
  <2>2. PICK f \in marked[q] : Source(f) = x
    BY <2>1 DEF WitnessedBy
  <2>3. f \in g[q]
    BY <1>1, <2>1, <2>2
  <2>4. QED
    BY <2>2, <2>3
<1>5. ASSUME NEW r \in Queues
      PROVE  /\ \A f \in g[r] : TaggedIn(t[r], f)
             /\ \A x \in h[r] : \E f \in g[r] : Source(f) = x
  <2>1. CASE r = q
    BY <1>3, <1>4, <2>1
  <2>2. CASE r # q
    BY <1>1, <2>2 DEF WitnessedBy
  <2>3. QED
    BY <2>1, <2>2
<1>6. WitnessedBy(t, g, h)
  BY <1>5, Zenon DEF WitnessedBy
<1>7. QED
  BY <1>6 DEF t, g, h, p

LEMMA PulledKeeps ==
  ASSUME named \in [Flows -> UpQueues], NEW entered \in [Flows -> 0..FlowLength],
         NEW n, Good(n, entered), NEW q \in Queues, n.queue[q] # <<>>
  PROVE  Good(Pulled(n, q), entered) /\ SameBalance(Pulled(n, q), n)
<1> DEFINE p == Head(n.queue[q])
           m == Resumed(n, q, p)
           b == IF Size(n, q) > DataCapacity THEN 1 ELSE 0
           shared == [m.sharedBuffer EXCEPT ![numb[q]] = @ + b]
           queue == WithoutFirst(m.queue, q)
           passed == [m.passed EXCEPT ![p.flow] = p.n]
           x == [m EXCEPT !.sharedBuffer[numb[q]] = @ + b,
                          !.queue[q] = Tail(@),
                          !.passed[p.flow] = p.n]
           r == [m EXCEPT !.sharedBuffer = shared, !.queue = queue, !.passed = passed]
<1>1. n \in Switches /\ Witnessed(n) /\ Ordered(n, entered)
  BY DEF Good
<1>2. /\ n.queue \in QueueStates
      /\ n.isPausedFlow \in [Queues -> SUBSET Flows]
      /\ n.ispaused \in [Queues -> SUBSET Sources]
      /\ n.passed \in [Flows -> 0..FlowLength]
  BY <1>1, PartsOf DEF QueueStates
<1>3. p \in Packets /\ p.flow \in Flows /\ p.n \in 0..FlowLength
  <2>1. n.queue[q] \in Seq(Packets)
    BY <1>2 DEF QueueStates
  <2>2. p \in Packets
    BY <2>1
  <2> HIDE DEF p
  <2>3. QED
    BY <2>2, Parameters DEF Packets
<1>4. Pulled(n, q) = x
  BY DEF Pulled
<1> HIDE DEF p
<1>5. /\ m \in Switches /\ SameBuffers(m, n) /\ SameBalance(m, n)
      /\ m.isPausedFlow = IF ResumeDue(n, q, p)
                          THEN [n.isPausedFlow EXCEPT ![q] = @ \ {p.flow}]
                          ELSE n.isPausedFlow
      /\ m.ispaused = IF ResumeDue(n, q, p)
                      THEN [n.ispaused EXCEPT ![q] = @ \ {Source(p.flow)}]
                      ELSE n.ispaused
  BY <1>1, <1>3, ResumedKeeps
<1> HIDE DEF m
<1>6. /\ m.queue = n.queue /\ m.flowid_queue = n.flowid_queue
      /\ m.passed = n.passed
  BY <1>5 DEF SameBuffers
<1>7. b \in Nat
  OBVIOUS
<1> HIDE DEF b
<1>8. x = r
  <2>1. m.sharedBuffer[numb[q]] + b = m.sharedBuffer[numb[q]] + b
    OBVIOUS
  <2>2. QED
    BY <1>5 DEF Switches, WithoutFirst
<1> HIDE DEF x
<1>9. /\ shared \in [Queues -> Nat]
      /\ queue \in [Queues -> Seq(Packets)]
      /\ passed \in [Flows -> 0..FlowLength]
  <2>1. numb[q] \in Queues /\ m.sharedBuffer \in [Queues -> Nat]
    BY <1>5, Parameters, PartsOf
  <2>2. m.sharedBuffer[numb[q]] + b \in Nat
    BY <1>7, <2>1
  <2>3. shared \in [Queues -> Nat]
    BY <2>1, <2>2
  <2>4. queue \in [Queues -> Seq(Packets)]
    BY <1>2, <1>6, TailPackets DEF QueueStates
  <2>5. passed \in [Flows -> 0..FlowLength]
    BY <1>2, <1>3, <1>6
  <2>6. QED
    BY <2>3, <2>4, <2>5
<1> HIDE DEF shared, queue, passed
<1>10. /\ r \in Switches
       /\ r.queue = queue /\ r.passed = passed /\ r.flowid_queue = m.flowid_queue
       /\ r.isPausedFlow = m.isPausedFlow /\ r.ispaused = m.ispaused
       /\ r.bfcWire = m.bfcWire /\ r.lost = m.lost
  BY <1>5, <1>9 DEF Switches
<1> HIDE DEF r
<1>11. Witnessed(r)
  <2>1. WitnessedBy(n.queue, n.isPausedFlow, n.ispaused)
    BY <1>1 DEF Witnessed
  <2>2. WitnessedBy(WithoutFirst(n.queue, q), m.isPausedFlow, m.ispaused)
    <3>1. WitnessedBy(WithoutFirst(n.queue, q),
                      IF ResumeDue(n, q, p)
                      THEN [n.isPausedFlow EXCEPT ![q] = @ \ {p.flow}] ELSE n.isPausedFlow,
                      IF ResumeDue(n, q, p)
                      THEN [n.ispaused EXCEPT ![q] = @ \ {Source(p.flow)}] ELSE n.ispaused)
      BY <1>2, <2>1, PullKeepsWitness, Zenon DEF ResumeDue, p
    <3>2. QED
      BY <1>5, <3>1
  <2>3. QED
    BY <1>6, <1>10, <2>2 DEF Witnessed, queue
<1>12. Ordered(r, entered)
  <2>1. OrderedBy(n.queue, n.flowid_queue, n.passed, entered)
    BY <1>1 DEF Ordered
  <2>2. OrderedBy(WithoutFirst(n.queue, q), n.flowid_queue,
                  [n.passed EXCEPT ![p.flow] = p.n], entered)
    BY <1>2, <2>1, PullKeepsOrder DEF p
  <2>3. QED
    BY <1>6, <1>10, <2>2 DEF Ordered, queue, passed
<1>13. SameBalance(r, n)
  BY <1>5, <1>10 DEF SameBalance, Balance
<1>14. QED
  BY <1>4, <1>8, <1>10, <1>11, <1>12, <1>13 DEF Good

LEMMA EgBusyKeeps ==
  ASSUME NEW entered, NEW n, Good(n, entered), NEW e \in BOOLEAN
  PROVE  /\ Good([n EXCEPT !.egBusy = e], entered)
         /\ SameBalance([n EXCEPT !.egBusy = e], n)
<1> DEFINE r == [n EXCEPT !.egBusy = e]
<1>1. n \in Switches /\ Witnessed(n) /\ Ordered(n, entered)
  BY DEF Good
<1>2. /\ r \in Switches
      /\ r.queue = n.queue /\ r.passed = n.passed /\ r.flowid_queue = n.flowid_queue
      /\ r.isPausedFlow = n.isPausedFlow /\ r.ispaused = n.ispaused
      /\ r.bfcWire = n.bfcWire /\ r.lost = n.lost
  BY <1>1 DEF Switches
<1> HIDE DEF r
<1>3. Witnessed(r) /\ Ordered(r, entered) /\ SameBalance(r, n)
  BY <1>1, <1>2 DEF Witnessed, Ordered, SameBalance, Balance
<1>4. QED
  BY <1>2, <1>3 DEF Good, r

LEMMA BalanceIsTransitive ==
  ASSUME NEW x, NEW y, NEW z, SameBalance(x, y), SameBalance(y, z)
  PROVE  SameBalance(x, z)
BY DEF SameBalance

LEMMA DequeuedKeeps ==
  ASSUME named \in [Flows -> UpQueues], NEW entered \in [Flows -> 0..FlowLength],
         NEW n, Good(n, entered), NEW m \in Dequeued(n)
  PROVE  Good(m, entered) /\ SameBalance(m, n)
<1> DEFINE full == {q \in Queues : n.queue[q] # <<>>}
<1>1. CASE full = {}
  <2>1. m = [n EXCEPT !.egBusy = FALSE]
    BY <1>1 DEF Dequeued
  <2>2. QED
    BY <2>1, EgBusyKeeps
<1>2. CASE full # {}
  <2>1. PICK q \in full : m = [Pulled(n, q) EXCEPT !.egBusy = TRUE]
    BY <1>2 DEF Dequeued
  <2>2. Good(Pulled(n, q), entered) /\ SameBalance(Pulled(n, q), n)
    BY PulledKeeps
  <2>3. Good(m, entered) /\ SameBalance(m, Pulled(n, q))
    BY <2>1, <2>2, EgBusyKeeps
  <2>4. QED
    BY <2>2, <2>3, BalanceIsTransitive
<1>3. QED
  BY <1>1, <1>2

LEMMA CanPullKeeps ==
  ASSUME named \in [Flows -> UpQueues], NEW entered \in [Flows -> 0..FlowLength],
         NEW n, Good(n, entered), NEW m \in handleCanPullPacketChanged(n)
  PROVE  Good(m, entered) /\ SameBalance(m, n)
<1>1. CASE n.egBusy
  BY <1>1 DEF handleCanPullPacketChanged, SameBalance
<1>2. CASE ~n.egBusy
  BY <1>2, DequeuedKeeps DEF handleCanPullPacketChanged
<1>3. QED
  BY <1>1, <1>2

-----------------------------------------------------------------------------
(***************************************************************************)
(* Pushing a packet.                                                       *)
(***************************************************************************)
WithLast(queue, q, x) == [queue EXCEPT ![q] = Append(@, x)]

\* Packet k of flow f may be put into q: the packets of f are there, before it.
Ready(n, entered, q, f, k) ==
    /\ Good(n, entered)
    /\ entered[f] = k
    /\ n.passed[f] < k
    /\ f \in DOMAIN n.flowid_queue => n.flowid_queue[f] = q
    /\ \A r \in Queues : \A j \in 1..Len(n.queue[r]) :
          n.queue[r][j].flow = f => r = q /\ n.queue[r][j].n < k

LEMMA LastPackets ==
  ASSUME NEW queue \in QueueStates, NEW q \in Queues, NEW x \in Packets
  PROVE  /\ WithLast(queue, q, x) \in QueueStates
         /\ \A r \in Queues : \A k \in 1..Len(WithLast(queue, q, x)[r]) :
               \/ k \in 1..Len(queue[r]) /\ WithLast(queue, q, x)[r][k] = queue[r][k]
               \/ /\ r = q /\ k = Len(queue[r]) + 1
                  /\ WithLast(queue, q, x)[r][k] = x
         /\ \A r \in Queues : \A k \in 1..Len(queue[r]) :
               /\ k \in 1..Len(WithLast(queue, q, x)[r])
               /\ WithLast(queue, q, x)[r][k] = queue[r][k]
         /\ Len(queue[q]) + 1 \in 1..Len(WithLast(queue, q, x)[q])
         /\ WithLast(queue, q, x)[q][Len(queue[q]) + 1] = x
<1> DEFINE s == queue[q]
           v == Append(s, x)
           t == WithLast(queue, q, x)
<1>1. s \in Seq(Packets)
  BY DEF QueueStates
<1>2. /\ v \in Seq(Packets) /\ Len(s) \in Nat /\ Len(v) = Len(s) + 1
      /\ v[Len(s) + 1] = x
      /\ \A k \in 1..Len(s) : v[k] = s[k]
  <2> HIDE DEF s
  <2>1. QED
    BY <1>1
<1> HIDE DEF v
<1>3. t[q] = v /\ \A r \in Queues \ {q} : t[r] = queue[r]
  BY DEF QueueStates, WithLast, v
<1>4. t \in QueueStates
  BY <1>2 DEF QueueStates, WithLast, v
<1> HIDE DEF t
<1>5. /\ \A k \in 1..Len(v) : k \in 1..Len(s) \/ k = Len(s) + 1
      /\ \A k \in 1..Len(s) : k \in 1..Len(v)
      /\ Len(s) + 1 \in 1..Len(v)
  <2> HIDE DEF s
  <2>1. QED
    BY <1>2
<1>6. QED
  BY <1>2, <1>3, <1>4, <1>5 DEF t

LEMMA PushKeepsOrder ==
  ASSUME NEW queue \in QueueStates, NEW map, NEW passed \in [Flows -> 0..FlowLength],
         NEW entered \in [Flows -> 0..FlowLength], OrderedBy(queue, map, passed, entered),
         NEW q \in Queues, NEW x \in Packets,
         entered[x.flow] = x.n, passed[x.flow] < x.n,
         x.flow \in DOMAIN map => map[x.flow] = q,
         \A r \in Queues : \A j \in 1..Len(queue[r]) :
             queue[r][j].flow = x.flow => r = q /\ queue[r][j].n < x.n
  PROVE  OrderedBy(WithLast(queue, q, x), map, passed, entered)
<1> DEFINE t == WithLast(queue, q, x)
<1>1. /\ \A r \in Queues : \A k \in 1..Len(t[r]) :
            \/ k \in 1..Len(queue[r]) /\ t[r][k] = queue[r][k]
            \/ r = q /\ k = Len(queue[r]) + 1 /\ t[r][k] = x
  BY LastPackets
<1>2. \A r \in Queues : Len(queue[r]) \in Nat
  BY DEF QueueStates
<1>3. x.n \in Nat
  BY Parameters DEF Packets
<1> HIDE DEF t
<1>4. ASSUME NEW r \in Queues, NEW k \in 1..Len(t[r])
      PROVE  /\ passed[t[r][k].flow] < t[r][k].n /\ t[r][k].n <= entered[t[r][k].flow]
             /\ t[r][k].flow \in DOMAIN map => map[t[r][k].flow] = r
  <2>1. CASE k \in 1..Len(queue[r]) /\ t[r][k] = queue[r][k]
    BY <2>1 DEF OrderedBy
  <2>2. CASE r = q /\ t[r][k] = x
    BY <1>3, <2>2
  <2>3. QED
    BY <1>1, <2>1, <2>2
<1>5. ASSUME NEW r \in Queues, NEW k \in 1..Len(t[r]),
             NEW z \in Queues, NEW j \in 1..Len(t[z]), t[z][j].flow = t[r][k].flow
      PROVE  z = r /\ (j > k => t[z][j].n > t[r][k].n)
  <2>1. CASE k \in 1..Len(queue[r]) /\ t[r][k] = queue[r][k]
    <3>1. CASE j \in 1..Len(queue[z]) /\ t[z][j] = queue[z][j]
      BY <1>5, <2>1, <3>1 DEF OrderedBy
    <3>2. CASE z = q /\ t[z][j] = x
      <4>1. queue[r][k].flow = x.flow
        BY <1>5, <2>1, <3>2
      <4>2. r = q /\ queue[r][k].n < x.n
        BY <2>1, <4>1
      <4>3. queue[r][k] \in Packets
        BY <2>1 DEF QueueStates
      <4>4. queue[r][k].n \in Nat
        BY <4>3, Parameters DEF Packets
      <4>5. QED
        BY <1>3, <2>1, <3>2, <4>2, <4>4
    <3>3. QED
      BY <1>1, <3>1, <3>2
  <2>2. CASE r = q /\ k = Len(queue[r]) + 1 /\ t[r][k] = x
    <3>1. CASE j \in 1..Len(queue[z]) /\ t[z][j] = queue[z][j]
      <4>1. queue[z][j].flow = x.flow
        BY <1>5, <2>2, <3>1
      <4>2. z = q
        BY <3>1, <4>1
      <4>3. ~(j > k)
        BY <1>2, <2>2, <3>1, <4>2
      <4>4. QED
        BY <2>2, <4>2, <4>3
    <3>2. CASE z = q /\ j = Len(queue[z]) + 1
      BY <1>2, <2>2, <3>2
    <3>3. QED
      BY <1>1, <3>1, <3>2
  <2>3. QED
    BY <1>1, <2>1, <2>2
<1>6. QED
  BY <1>4, <1>5 DEF OrderedBy, t

\* A packet that is tagged is a witness of its flow; others stay where they are.
LEMMA PushKeepsWitness ==
  ASSUME NEW queue \in QueueStates,
         NEW marked \in [Queues -> SUBSET Flows], NEW paused \in [Queues -> SUBSET Sources],
         WitnessedBy(queue, marked, paused),
         NEW q \in Queues, NEW x \in Packets,
         NEW g \in [Queues -> SUBSET Flows], NEW h \in [Queues -> SUBSET Sources],
         \A r \in Queues \ {q} : g[r] = marked[r] /\ h[r] = paused[r],
         \A f \in g[q] : f \in marked[q] \/ (x.tagged /\ f = x.flow),
         \A f \in marked[q] : f \in g[q],
         \A s \in h[q] : s \in paused[q] \/ (s = Source(x.flow) /\ x.flow \in g[q])
  PROVE  WitnessedBy(WithLast(queue, q, x), g, h)
<1> DEFINE t == WithLast(queue, q, x)
<1>1. /\ \A r \in Queues : \A k \in 1..Len(queue[r]) :
            k \in 1..Len(t[r]) /\ t[r][k] = queue[r][k]
      /\ Len(queue[q]) + 1 \in 1..Len(t[q]) /\ t[q][Len(queue[q]) + 1] = x
  BY LastPackets
<1> HIDE DEF t
<1>2. ASSUME NEW r \in Queues, NEW f \in marked[r]
      PROVE  TaggedIn(t[r], f)
  <2>1. PICK k \in 1..Len(queue[r]) : queue[r][k].tagged /\ queue[r][k].flow = f
    BY DEF WitnessedBy, TaggedIn
  <2>2. QED
    BY <1>1, <2>1 DEF TaggedIn
<1>3. ASSUME NEW r \in Queues, NEW f \in g[r]
      PROVE  TaggedIn(t[r], f)
  <2>1. CASE f \in marked[r]
    BY <1>2, <2>1
  <2>2. CASE r = q /\ x.tagged /\ f = x.flow
    BY <1>1, <2>2 DEF TaggedIn
  <2>3. QED
    BY <1>3, <2>1, <2>2
<1>4. ASSUME NEW r \in Queues, NEW s \in h[r]
      PROVE  \E f \in g[r] : Source(f) = s
  <2>1. CASE s \in paused[r]
    <3>1. PICK f \in marked[r] : Source(f) = s
      BY <2>1 DEF WitnessedBy
    <3>2. f \in g[r]
      BY <3>1
    <3>3. QED
      BY <3>1, <3>2
  <2>2. CASE r = q /\ s = Source(x.flow) /\ x.flow \in g[q]
    BY <2>2
  <2>3. QED
    BY <1>4, <2>1, <2>2
<1>5. QED
  BY <1>3, <1>4, Zenon DEF WitnessedBy, t

Packet(f, k, t) == [flow |-> f, n |-> k, tagged |-> t]

LEMMA PushedKeeps ==
  ASSUME named \in [Flows -> UpQueues], NEW entered \in [Flows -> 0..FlowLength],
         NEW q \in Queues, NEW f \in Flows, NEW k \in 1..FlowLength,
         NEW n, Ready(n, entered, q, f, k)
  PROVE  Good(Pushed(n, q, f, k), entered) /\ SameBalance(Pushed(n, q, f, k), n)
<1> DEFINE new == f \notin n.isPausedFlow[q]
           s == Source(f)
           a == Packet(f, k, FALSE)
           b == Packet(f, k, new)
           g == [n.isPausedFlow EXCEPT ![q] = @ \cup {f}]
           h == [n.ispaused EXCEPT ![q] = @ \cup {s}]
           m == [n EXCEPT !.queue = WithLast(n.queue, q, a)]
           t == [n EXCEPT !.queue = WithLast(n.queue, q, b),
                          !.isPausedFlow = g, !.ispaused = h]
           y == [n EXCEPT !.queue[q] = Append(@, [flow |-> f, n |-> k, tagged |-> FALSE])]
           z == [n EXCEPT !.queue[q] = Append(@, [flow |-> f, n |-> k, tagged |-> new]),
                          !.isPausedFlow[q] = @ \cup {f},
                          !.ispaused[q] = @ \cup {s}]
           p == Pushed(n, q, f, k)
<1>1. n \in Switches /\ Witnessed(n) /\ Ordered(n, entered)
  BY DEF Ready, Good
<1>2. /\ n.queue \in QueueStates
      /\ n.isPausedFlow \in [Queues -> SUBSET Flows]
      /\ n.ispaused \in [Queues -> SUBSET Sources]
      /\ n.passed \in [Flows -> 0..FlowLength]
  BY <1>1, PartsOf DEF QueueStates
<1>3. s \in Sources
  BY SourceIn
<1>4. /\ a \in Packets /\ a.flow = f /\ a.n = k
      /\ b \in Packets /\ b.flow = f /\ b.n = k /\ (b.tagged <=> new)
  BY DEF Packets, Packet
<1>5. y = m /\ z = t
  <2>1. y = m
    BY <1>1 DEF Switches, WithLast, Packet
  <2>2. z = t
    BY <1>1 DEF Switches, WithLast, Packet
  <2>3. QED
    BY <2>1, <2>2
<1>6. p = IF ~IsFull(y, q) THEN y
          ELSE IF s \in n.ispaused[q] THEN z
          ELSE processbfccommand(z, "PAUSE", s)
  BY Zenon DEF Pushed
<1> HIDE DEF y, z, p, a, b, s, new
<1>7. /\ g \in [Queues -> SUBSET Flows] /\ h \in [Queues -> SUBSET Sources]
      /\ \A r \in Queues \ {q} : g[r] = n.isPausedFlow[r] /\ h[r] = n.ispaused[r]
      /\ g[q] = n.isPausedFlow[q] \cup {f} /\ h[q] = n.ispaused[q] \cup {s}
  BY <1>2, <1>3
<1> HIDE DEF g, h
<1>8. /\ WithLast(n.queue, q, a) \in [Queues -> Seq(Packets)]
      /\ WithLast(n.queue, q, b) \in [Queues -> Seq(Packets)]
  BY <1>2, <1>4, LastPackets DEF QueueStates
<1>9. /\ OrderedBy(WithLast(n.queue, q, a), n.flowid_queue, n.passed, entered)
      /\ OrderedBy(WithLast(n.queue, q, b), n.flowid_queue, n.passed, entered)
  <2>1. /\ OrderedBy(n.queue, n.flowid_queue, n.passed, entered)
        /\ entered[f] = k /\ n.passed[f] < k
        /\ f \in DOMAIN n.flowid_queue => n.flowid_queue[f] = q
        /\ \A r \in Queues : \A j \in 1..Len(n.queue[r]) :
              n.queue[r][j].flow = f => r = q /\ n.queue[r][j].n < k
    BY <1>1 DEF Ready, Ordered
  <2>2. ASSUME NEW x \in Packets, x.flow = f, x.n = k
        PROVE  OrderedBy(WithLast(n.queue, q, x), n.flowid_queue, n.passed, entered)
    <3>1. /\ entered[x.flow] = x.n /\ n.passed[x.flow] < x.n
          /\ x.flow \in DOMAIN n.flowid_queue => n.flowid_queue[x.flow] = q
          /\ \A r \in Queues : \A j \in 1..Len(n.queue[r]) :
                n.queue[r][j].flow = x.flow => r = q /\ n.queue[r][j].n < x.n
      BY <2>1, <2>2
    <3>2. QED
      BY <1>2, <2>1, <3>1, PushKeepsOrder
  <2>3. QED
    BY <1>4, <2>2
<1>10. /\ WitnessedBy(WithLast(n.queue, q, a), n.isPausedFlow, n.ispaused)
       /\ WitnessedBy(WithLast(n.queue, q, b), g, h)
  <2>1. WitnessedBy(n.queue, n.isPausedFlow, n.ispaused)
    BY <1>1 DEF Witnessed
  <2>2. WitnessedBy(WithLast(n.queue, q, a), n.isPausedFlow, n.ispaused)
    BY <1>2, <1>4, <2>1, PushKeepsWitness
  <2>3. /\ \A c \in g[q] : c \in n.isPausedFlow[q] \/ (b.tagged /\ c = b.flow)
        /\ \A c \in n.isPausedFlow[q] : c \in g[q]
        /\ \A c \in h[q] : c \in n.ispaused[q] \/ (c = Source(b.flow) /\ b.flow \in g[q])
    BY <1>4, <1>7 DEF new, s
  <2>4. WitnessedBy(WithLast(n.queue, q, b), g, h)
    <3>1. /\ n.queue \in QueueStates
          /\ n.isPausedFlow \in [Queues -> SUBSET Flows]
          /\ n.ispaused \in [Queues -> SUBSET Sources]
          /\ g \in [Queues -> SUBSET Flows] /\ h \in [Queues -> SUBSET Sources]
          /\ b \in Packets
          /\ \A r \in Queues \ {q} : g[r] = n.isPausedFlow[r] /\ h[r] = n.ispaused[r]
      BY <1>2, <1>4, <1>7
    <3> DEFINE queue == n.queue
               marked == n.isPausedFlow
               paused == n.ispaused
    <3>2. /\ queue \in QueueStates
          /\ marked \in [Queues -> SUBSET Flows] /\ paused \in [Queues -> SUBSET Sources]
          /\ WitnessedBy(queue, marked, paused)
          /\ \A r \in Queues \ {q} : g[r] = marked[r] /\ h[r] = paused[r]
          /\ \A c \in g[q] : c \in marked[q] \/ (b.tagged /\ c = b.flow)
          /\ \A c \in marked[q] : c \in g[q]
          /\ \A c \in h[q] : c \in paused[q] \/ (c = Source(b.flow) /\ b.flow \in g[q])
      BY <2>1, <2>3, <3>1
    <3> HIDE DEF queue, marked, paused
    <3>3. WitnessedBy(WithLast(queue, q, b), g, h)
      BY <3>1, <3>2, PushKeepsWitness
    <3>4. QED
      BY <3>3 DEF queue
  <2>5. QED
    BY <2>2, <2>4
<1>11. Good(m, entered) /\ SameBalance(m, n)
  <2> DEFINE w == WithLast(n.queue, q, a)
  <2> HIDE DEF w
  <2>1. w \in [Queues -> Seq(Packets)]
    BY <1>8 DEF w
  <2>2. m = [n EXCEPT !.queue = w]
    BY DEF w
  <2> HIDE DEF m
  <2>3. /\ m \in Switches
        /\ m.queue = w /\ m.passed = n.passed /\ m.flowid_queue = n.flowid_queue
        /\ m.isPausedFlow = n.isPausedFlow /\ m.ispaused = n.ispaused
        /\ m.bfcWire = n.bfcWire /\ m.lost = n.lost
    BY <1>1, <2>1, <2>2 DEF Switches
  <2>4. Witnessed(m) /\ Ordered(m, entered) /\ SameBalance(m, n)
    BY <1>9, <1>10, <2>3 DEF Witnessed, Ordered, SameBalance, Balance, w
  <2>5. QED
    BY <2>3, <2>4 DEF Good
<1>12. /\ t \in Switches
       /\ t.queue = WithLast(n.queue, q, b)
       /\ t.passed = n.passed /\ t.flowid_queue = n.flowid_queue
       /\ t.isPausedFlow = g /\ t.ispaused = h
       /\ t.bfcWire = n.bfcWire /\ t.lost = n.lost
  <2> DEFINE w == WithLast(n.queue, q, b)
  <2> HIDE DEF w
  <2>1. w \in [Queues -> Seq(Packets)]
    BY <1>8 DEF w
  <2>2. t = [n EXCEPT !.queue = w, !.isPausedFlow = g, !.ispaused = h]
    BY DEF w
  <2> HIDE DEF t
  <2>3. /\ t \in Switches
        /\ t.queue = w
        /\ t.passed = n.passed /\ t.flowid_queue = n.flowid_queue
        /\ t.isPausedFlow = g /\ t.ispaused = h
        /\ t.bfcWire = n.bfcWire /\ t.lost = n.lost
    BY <1>1, <1>7, <2>1, <2>2 DEF Switches
  <2>4. QED
    BY <2>3 DEF w
<1> HIDE DEF m, t
<1>13. Good(t, entered)
  <2>1. Witnessed(t) /\ Ordered(t, entered)
    BY <1>9, <1>10, <1>12 DEF Witnessed, Ordered
  <2>2. QED
    BY <1>12, <2>1 DEF Good
<1>14. CASE ~IsFull(y, q)
  BY <1>5, <1>6, <1>11, <1>14 DEF p
<1>15. CASE IsFull(y, q) /\ s \in n.ispaused[q]
  <2>1. h = n.ispaused
    BY <1>2, <1>15 DEF h
  <2>2. SameBalance(t, n)
    BY <1>12, <2>1 DEF SameBalance, Balance
  <2>3. p = t
    BY <1>5, <1>6, <1>15
  <2>4. QED
    BY <1>13, <2>2, <2>3 DEF p
<1>16. CASE IsFull(y, q) /\ s \notin n.ispaused[q]
  <2>1. p = processbfccommand(t, "PAUSE", s)
    BY <1>5, <1>6, <1>16
  <2> HIDE DEF Good
  <2>2. /\ p \in Switches /\ SameBuffers(p, t)
        /\ p.isPausedFlow = t.isPausedFlow /\ p.ispaused = t.ispaused
    BY <1>3, <1>12, <2>1, CommandKeeps
  <2>3. Witnessed(p) /\ Ordered(p, entered)
    BY <1>13, <2>2 DEF Good, Witnessed, Ordered, SameBuffers
  <2>4. ASSUME NEW i \in Ifaces, NEW u \in UpQueues
        PROVE  Balance(p, i, u) = Balance(n, i, u)
    <3>1. Balance(p, i, u) = Balance(t, i, u) + (IF s = <<i, u>> THEN 1 ELSE 0)
      <4>1. Sign("PAUSE") = 1
        BY DEF Sign
      <4>2. QED
        BY <1>3, <1>12, <2>1, <4>1, CommandBalance
    <3>2. Cardinality(Holders(h, <<i, u>>))
            = Cardinality(Holders(n.ispaused, <<i, u>>)) + (IF s = <<i, u>> THEN 1 ELSE 0)
      BY <1>2, <1>16, HolderJoins DEF h
    <3>3. /\ WireBalance(n.bfcWire[i], u) \in Int /\ n.lost[i][u] \in Int
          /\ Cardinality(Holders(n.ispaused, <<i, u>>)) \in Nat
      BY <1>1, PartsOf, WireBalanceType, HoldersFinite
    <3>4. Balance(t, i, u) = Balance(n, i, u) - (IF s = <<i, u>> THEN 1 ELSE 0)
      BY <1>12, <3>2, <3>3 DEF Balance
    <3>5. Balance(n, i, u) \in Int
      BY <3>3 DEF Balance
    <3>6. QED
      BY <3>1, <3>4, <3>5
  <2>5. QED
    BY <2>2, <2>3, <2>4 DEF Good, SameBalance, p
<1>17. QED
  BY <1>14, <1>15, <1>16

LEMMA SharedKeeps ==
  ASSUME NEW entered, NEW q \in Queues, NEW f, NEW k, NEW n, Ready(n, entered, q, f, k),
         NEW v \in Nat
  PROVE  LET m == [n EXCEPT !.sharedBuffer[numb[q]] = v]
         IN  Ready(m, entered, q, f, k) /\ SameBalance(m, n)
<1> DEFINE m == [n EXCEPT !.sharedBuffer[numb[q]] = v]
           shared == [n.sharedBuffer EXCEPT ![numb[q]] = v]
<1>1. n \in Switches /\ Witnessed(n) /\ Ordered(n, entered)
  BY DEF Ready, Good
<1>2. m = [n EXCEPT !.sharedBuffer = shared]
  BY <1>1 DEF Switches
<1>3. shared \in [Queues -> Nat]
  BY <1>1, Parameters, PartsOf
<1> HIDE DEF m, shared
<1>4. /\ m \in Switches
      /\ m.queue = n.queue /\ m.passed = n.passed /\ m.flowid_queue = n.flowid_queue
      /\ m.isPausedFlow = n.isPausedFlow /\ m.ispaused = n.ispaused
      /\ m.bfcWire = n.bfcWire /\ m.lost = n.lost
  BY <1>1, <1>2, <1>3 DEF Switches
<1>5. Witnessed(m) /\ Ordered(m, entered) /\ SameBalance(m, n)
  BY <1>1, <1>4 DEF Witnessed, Ordered, SameBalance, Balance
<1>6. QED
  BY <1>4, <1>5 DEF Ready, Good, m

LEMMA QueuedKeeps ==
  ASSUME named \in [Flows -> UpQueues], NEW entered \in [Flows -> 0..FlowLength],
         NEW q \in Queues, NEW f \in Flows, NEW k \in 1..FlowLength,
         NEW n, Ready(n, entered, q, f, k), NEW m \in Queued(n, q, f, k)
  PROVE  Good(m, entered) /\ SameBalance(m, n)
<1> DEFINE b == BufferManagement(n, q)
           c == [n EXCEPT !.sharedBuffer[numb[q]] = b.shared]
<1>1. n \in Switches
  BY DEF Ready, Good
<1>2. CASE b.ok
  <2>1. b.shared \in Nat
    <3>1. n.sharedBuffer[numb[q]] \in Nat
      BY <1>1, Parameters, PartsOf
    <3>2. Size(n, q) \in Nat
      <4>1. n.queue[q] \in Seq(Packets)
        BY <1>1, PartsOf
      <4>2. QED
        BY <4>1 DEF Size
    <3>3. QED
      BY <1>2, <3>1, <3>2 DEF BufferManagement
  <2> HIDE DEF b
  <2>2. Ready(c, entered, q, f, k) /\ SameBalance(c, n)
    BY <2>1, SharedKeeps
  <2> HIDE DEF c
  <2>3. Good(Pushed(c, q, f, k), entered) /\ SameBalance(Pushed(c, q, f, k), c)
    BY <2>2, PushedKeeps
  <2>4. m \in handleCanPullPacketChanged(Pushed(c, q, f, k))
    BY <1>2 DEF Queued, b, c
  <2>5. Good(m, entered) /\ SameBalance(m, Pushed(c, q, f, k))
    BY <2>3, <2>4, CanPullKeeps
  <2>6. QED
    BY <2>2, <2>3, <2>5, BalanceIsTransitive
<1>3. CASE ~b.ok
  BY <1>3 DEF Queued, Ready, SameBalance
<1>4. QED
  BY <1>2, <1>3

-----------------------------------------------------------------------------
(***************************************************************************)
(* Choosing the queue.                                                     *)
(***************************************************************************)
LEMMA QueuesForType ==
  ASSUME NEW n \in Switches, NEW f \in Flows, NEW q \in QueuesFor(n, f)
  PROVE  q \in Queues /\ (f \in DOMAIN n.flowid_queue => n.flowid_queue[f] = q)
<1> DEFINE empty == {r \in Queues : n.queue[r] = <<>>}
<1>1. CASE f \in DOMAIN n.flowid_queue
  <2>1. n.flowid_queue[f] \in Queues
    BY <1>1, PartsOf, MapsAre
  <2>2. QED
    BY <1>1, <2>1 DEF QueuesFor
<1>2. CASE f \notin DOMAIN n.flowid_queue /\ empty # {}
  <2>1. empty \in SUBSET Nat
    BY Parameters DEF Queues
  <2>2. \E r \in empty : \A k \in empty : r <= k
    <3> HIDE DEF empty
    <3>1. QED
      BY <1>2, <2>1, LeastNat
  <2>3. q = CHOOSE r \in empty : \A k \in empty : r <= k
    BY <1>2 DEF QueuesFor
  <2>4. q \in empty
    <3> HIDE DEF empty
    <3>1. QED
      BY <2>2, <2>3
  <2>5. QED
    BY <1>2, <2>4
<1>3. CASE f \notin DOMAIN n.flowid_queue /\ empty = {}
  BY <1>3 DEF QueuesFor
<1>4. QED
  BY <1>1, <1>2, <1>3

LEMMA StoreType ==
  ASSUME NEW map \in Maps, NEW f \in Flows, NEW q \in Queues
  PROVE  /\ Store(map, f, q) \in Maps
         /\ DOMAIN Store(map, f, q) = DOMAIN map \cup {f}
         /\ Store(map, f, q)[f] = q
         /\ \A g \in DOMAIN map \ {f} : Store(map, f, q)[g] = map[g]
<1>1. DOMAIN map \subseteq Flows /\ \A g \in DOMAIN map : map[g] \in Queues
  BY MapsAre
<1> DEFINE s == Store(map, f, q)
<1>2. /\ s = [g \in DOMAIN s |-> s[g]]
      /\ DOMAIN s = DOMAIN map \cup {f}
      /\ s[f] = q
      /\ \A g \in DOMAIN map \ {f} : s[g] = map[g]
  BY DEF Store
<1> HIDE DEF s
<1>3. DOMAIN s \subseteq Flows /\ \A g \in DOMAIN s : s[g] \in Queues
  BY <1>1, <1>2
<1>4. s \in Maps
  BY <1>2, <1>3, MapsAre
<1>5. QED
  BY <1>2, <1>4 DEF s

LEMMA EraseType ==
  ASSUME NEW map \in Maps, NEW f
  PROVE  /\ Erase(map, f) \in Maps
         /\ DOMAIN Erase(map, f) = DOMAIN map \ {f}
         /\ \A g \in DOMAIN map \ {f} : Erase(map, f)[g] = map[g]
<1>1. DOMAIN map \subseteq Flows /\ \A g \in DOMAIN map : map[g] \in Queues
  BY MapsAre
<1> DEFINE s == Erase(map, f)
<1>2. /\ s = [g \in DOMAIN s |-> s[g]]
      /\ DOMAIN s = DOMAIN map \ {f}
      /\ \A g \in DOMAIN map \ {f} : s[g] = map[g]
  BY DEF Erase
<1> HIDE DEF s
<1>3. DOMAIN s \subseteq Flows /\ \A g \in DOMAIN s : s[g] \in Queues
  BY <1>1, <1>2
<1>4. s \in Maps
  BY <1>2, <1>3, MapsAre
<1>5. QED
  BY <1>2, <1>4 DEF s

\* The next packet of f finds the packets of f in the queue chosen for it.
LEMMA ClassifiedReady ==
  ASSUME NEW entered \in [Flows -> 0..FlowLength], NEW n, Good(n, entered),
         NEW f \in Flows, NEW k \in 1..FlowLength, k = entered[f] + 1,
         NEW q \in QueuesFor(n, f)
  PROVE  /\ Ready(Classified(n, q, f, k), [entered EXCEPT ![f] = k], q, f, k)
         /\ SameBalance(Classified(n, q, f, k), n)
<1> DEFINE old == n.flowid_queue
           map == IF f \in DOMAIN old /\ k = FlowLength THEN Erase(old, f)
                  ELSE Store(old, f, q)
           m == Classified(n, q, f, k)
           now == [entered EXCEPT ![f] = k]
<1>1. n \in Switches /\ Witnessed(n) /\ Ordered(n, entered)
  BY DEF Good
<1>2. q \in Queues /\ (f \in DOMAIN old => old[f] = q) /\ old \in Maps
  BY <1>1, QueuesForType, PartsOf
<1>3. m = [n EXCEPT !.flowid_queue = map]
  BY <1>1 DEF Classified, Switches
<1>4. /\ map \in Maps
      /\ DOMAIN map \subseteq DOMAIN old \cup {f}
      /\ DOMAIN old \ {f} \subseteq DOMAIN map
      /\ \A g \in DOMAIN map \ {f} : map[g] = old[g]
      /\ f \in DOMAIN map => map[f] = q
      /\ f \in DOMAIN map \/ k = FlowLength
  <2>1. CASE f \in DOMAIN old /\ k = FlowLength
    <3>1. map = Erase(old, f)
      BY <2>1
    <3> HIDE DEF map
    <3>2. /\ map \in Maps /\ DOMAIN map = DOMAIN old \ {f}
          /\ \A g \in DOMAIN old \ {f} : map[g] = old[g]
      BY <1>2, <3>1, EraseType
    <3>3. QED
      BY <2>1, <3>2
  <2>2. CASE ~(f \in DOMAIN old /\ k = FlowLength)
    <3>1. map = Store(old, f, q)
      BY <2>2
    <3> HIDE DEF map
    <3>2. /\ Store(old, f, q) \in Maps
          /\ DOMAIN Store(old, f, q) = DOMAIN old \cup {f}
          /\ Store(old, f, q)[f] = q
          /\ \A g \in DOMAIN old \ {f} : Store(old, f, q)[g] = old[g]
      <4> HIDE DEF old
      <4>1. q \in Queues /\ old \in Maps
        BY <1>2
      <4>2. \A r \in Queues, o \in Maps :
               /\ Store(o, f, r) \in Maps
               /\ DOMAIN Store(o, f, r) = DOMAIN o \cup {f}
               /\ Store(o, f, r)[f] = r
               /\ \A g \in DOMAIN o \ {f} : Store(o, f, r)[g] = o[g]
        BY StoreType
      <4>3. QED
        BY <4>1, <4>2, Zenon
    <3>3. QED
      BY <3>1, <3>2
  <2>3. QED
    BY <2>1, <2>2
<1> HIDE DEF map, m
<1>5. /\ m \in Switches
      /\ m.flowid_queue = map
      /\ m.queue = n.queue /\ m.passed = n.passed
      /\ m.isPausedFlow = n.isPausedFlow /\ m.ispaused = n.ispaused
      /\ m.bfcWire = n.bfcWire /\ m.lost = n.lost
  BY <1>1, <1>3, <1>4 DEF Switches
<1>6. /\ now \in [Flows -> 0..FlowLength]
      /\ \A g \in Flows : now[g] = IF g = f THEN k ELSE entered[g]
  BY Parameters
<1> HIDE DEF now
<1>7. OrderedBy(n.queue, old, n.passed, entered)
  BY <1>1 DEF Ordered
<1>8. \A r \in Queues : \A j \in 1..Len(n.queue[r]) :
         /\ n.queue[r][j].flow \in Flows
         /\ n.queue[r][j].n \in Nat
  <2>1. \A r \in Queues : n.queue[r] \in Seq(Packets)
    BY <1>1, PartsOf
  <2>2. \A x \in Packets : x.flow \in Flows /\ x.n \in Nat
    BY Parameters DEF Packets
  <2>3. QED
    BY <2>1, <2>2
<1>9. n.passed \in [Flows -> 0..FlowLength]
  BY <1>1, PartsOf
<1>10. /\ entered[f] \in Nat /\ k \in Nat /\ FlowLength \in Nat
       /\ n.passed[f] \in Nat /\ n.passed[f] <= entered[f] /\ k <= FlowLength
       /\ f \in DOMAIN old \/ entered[f] \in {0, FlowLength}
  BY <1>7, <1>9, Parameters DEF OrderedBy
<1>11. ASSUME NEW r \in Queues, NEW j \in 1..Len(n.queue[r]), n.queue[r][j].flow = f
       PROVE  r = q /\ n.queue[r][j].n < k
  <2>1. /\ n.passed[f] < n.queue[r][j].n /\ n.queue[r][j].n <= entered[f]
        /\ f \in DOMAIN old => old[f] = r
    BY <1>7, <1>11 DEF OrderedBy
  <2>2. n.queue[r][j].n \in Nat
    BY <1>8
  <2>3. entered[f] # 0 /\ entered[f] # FlowLength
    BY <1>10, <2>1, <2>2
  <2>4. QED
    BY <1>2, <1>10, <2>1, <2>2, <2>3
<1>12. OrderedBy(n.queue, map, n.passed, now)
  <2>1. ASSUME NEW r \in Queues, NEW j \in 1..Len(n.queue[r])
        PROVE  /\ n.passed[n.queue[r][j].flow] < n.queue[r][j].n
               /\ n.queue[r][j].n <= now[n.queue[r][j].flow]
               /\ n.queue[r][j].flow \in DOMAIN map => map[n.queue[r][j].flow] = r
    <3> DEFINE x == n.queue[r][j]
    <3>1. x.flow \in Flows /\ x.n \in Nat
      BY <1>8
    <3>2. /\ n.passed[x.flow] < x.n /\ x.n <= entered[x.flow]
          /\ x.flow \in DOMAIN old => old[x.flow] = r
      BY <1>7 DEF OrderedBy
    <3>3. x.flow = f => r = q /\ x.n < k
      BY <1>11
    <3> HIDE DEF x
    <3>4. x.n <= now[x.flow]
      BY <1>6, <1>10, <3>1, <3>2, <3>3
    <3>5. x.flow \in DOMAIN map => map[x.flow] = r
      BY <1>4, <3>2, <3>3
    <3>6. QED
      BY <3>2, <3>4, <3>5 DEF x
  <2>2. \A r \in Queues : \A j \in 1..Len(n.queue[r]) :
          \A z \in Queues : \A l \in 1..Len(n.queue[z]) :
              n.queue[z][l].flow = n.queue[r][j].flow
                  => z = r /\ (l > j => n.queue[z][l].n > n.queue[r][j].n)
    BY <1>7, Zenon DEF OrderedBy
  <2>3. ASSUME NEW g \in Flows
        PROVE  n.passed[g] <= now[g] /\ (g \in DOMAIN map \/ now[g] \in {0, FlowLength})
    <3>1. CASE g = f
      BY <1>4, <1>6, <1>10, <3>1
    <3>2. CASE g # f
      BY <1>4, <1>6, <1>7, <3>2 DEF OrderedBy
    <3>3. QED
      BY <3>1, <3>2
  <2>4. QED
    BY <2>1, <2>2, <2>3 DEF OrderedBy
<1>13. Good(m, now) /\ SameBalance(m, n)
  BY <1>1, <1>5, <1>12 DEF Good, Witnessed, Ordered, SameBalance, Balance
<1>14. /\ now[f] = k /\ m.passed[f] < k
       /\ f \in DOMAIN m.flowid_queue => m.flowid_queue[f] = q
       /\ \A r \in Queues : \A j \in 1..Len(m.queue[r]) :
             m.queue[r][j].flow = f => r = q /\ m.queue[r][j].n < k
  BY <1>4, <1>5, <1>6, <1>10, <1>11
<1>15. QED
  BY <1>13, <1>14 DEF Ready, m, now

LEMMA ArrivedKeeps ==
  ASSUME named \in [Flows -> UpQueues], NEW entered \in [Flows -> 0..FlowLength],
         NEW n, Good(n, entered),
         NEW f \in Flows, NEW k \in 1..FlowLength, k = entered[f] + 1,
         NEW m \in Arrived(n, f, k)
  PROVE  Good(m, [entered EXCEPT ![f] = k]) /\ SameBalance(m, n)
<1> DEFINE now == [entered EXCEPT ![f] = k]
<1>1. PICK q \in QueuesFor(n, f) : m \in Queued(Classified(n, q, f, k), q, f, k)
  BY DEF Arrived
<1>2. q \in Queues
  BY QueuesForType DEF Good
<1>3. now \in [Flows -> 0..FlowLength]
  BY Parameters
<1>4. Ready(Classified(n, q, f, k), now, q, f, k) /\ SameBalance(Classified(n, q, f, k), n)
  BY ClassifiedReady
<1> HIDE DEF now
<1>5. Good(m, now) /\ SameBalance(m, Classified(n, q, f, k))
  BY <1>1, <1>2, <1>3, <1>4, QueuedKeeps
<1>6. QED
  BY <1>4, <1>5, BalanceIsTransitive DEF now

-----------------------------------------------------------------------------
(***************************************************************************)
(* The upstream ports.                                                     *)
(***************************************************************************)
\* The packets of each flow that have reached the switch.
EnteredOf(made, waiting, sent) ==
    [f \in Flows |-> made[f] - waiting[f] - Copies(sent[IfaceOf[f]], f)]

\* Every packet waits, is on the wire of its flow's port, or has arrived.
UpstreamOK(made, waiting, sent) ==
    /\ made \in [Flows -> 0..FlowLength]
    /\ waiting \in [Flows -> 0..FlowLength]
    /\ sent \in [Ifaces -> Seq(Flows)]
    /\ \A i \in Ifaces : \A k \in 1..Len(sent[i]) : IfaceOf[sent[i][k]] = i
    /\ EnteredOf(made, waiting, sent) \in [Flows -> 0..FlowLength]

LEMMA UpstreamTypes ==
  ASSUME NEW made, NEW waiting, NEW sent, UpstreamOK(made, waiting, sent), NEW f \in Flows
  PROVE  /\ made[f] \in Nat /\ made[f] <= FlowLength
         /\ waiting[f] \in Nat /\ waiting[f] <= FlowLength
         /\ IfaceOf[f] \in Ifaces
         /\ sent[IfaceOf[f]] \in Seq(Flows)
         /\ Copies(sent[IfaceOf[f]], f) \in Nat
         /\ waiting[f] + Copies(sent[IfaceOf[f]], f) <= made[f]
         /\ EnteredOf(made, waiting, sent)[f]
              = made[f] - waiting[f] - Copies(sent[IfaceOf[f]], f)
<1>1. /\ made[f] \in Nat /\ made[f] <= FlowLength
      /\ waiting[f] \in Nat /\ waiting[f] <= FlowLength
      /\ IfaceOf[f] \in Ifaces
  BY Parameters DEF UpstreamOK
<1>2. sent[IfaceOf[f]] \in Seq(Flows)
  BY <1>1 DEF UpstreamOK
<1>3. Copies(sent[IfaceOf[f]], f) \in Nat
  BY <1>2, PlacesFinite
<1>4. EnteredOf(made, waiting, sent)[f] = made[f] - waiting[f] - Copies(sent[IfaceOf[f]], f)
  BY DEF EnteredOf
<1>5. EnteredOf(made, waiting, sent)[f] \in 0..FlowLength
  BY DEF UpstreamOK
<1>6. waiting[f] + Copies(sent[IfaceOf[f]], f) <= made[f]
  BY <1>1, <1>3, <1>4, <1>5, Parameters
<1>7. QED
  BY <1>1, <1>2, <1>3, <1>4, <1>6

More(g, f) == [g EXCEPT ![f] = @ + 1]
Less(g, f) == [g EXCEPT ![f] = @ - 1]

\* A packet that is made waits.
LEMMA MadeKeeps ==
  ASSUME NEW made, NEW waiting, NEW sent, UpstreamOK(made, waiting, sent),
         NEW f \in Flows, made[f] < FlowLength
  PROVE  /\ UpstreamOK(More(made, f), More(waiting, f), sent)
         /\ EnteredOf(More(made, f), More(waiting, f), sent) = EnteredOf(made, waiting, sent)
<1> DEFINE g == More(made, f)
           b == More(waiting, f)
<1>1. \A h \in Flows : /\ made[h] \in Nat /\ made[h] <= FlowLength
                       /\ waiting[h] \in Nat /\ waiting[h] <= FlowLength
                       /\ Copies(sent[IfaceOf[h]], h) \in Nat
                       /\ waiting[h] + Copies(sent[IfaceOf[h]], h) <= made[h]
  BY UpstreamTypes
<1>2. made[f] + 1 \in 0..FlowLength /\ waiting[f] + 1 \in 0..FlowLength
  BY <1>1, Parameters
<1>3. g \in [Flows -> 0..FlowLength] /\ b \in [Flows -> 0..FlowLength]
  BY <1>2 DEF UpstreamOK, More
<1>4. \A h \in Flows : /\ g[h] = IF h = f THEN made[h] + 1 ELSE made[h]
                       /\ b[h] = IF h = f THEN waiting[h] + 1 ELSE waiting[h]
  BY DEF UpstreamOK, More
<1> HIDE DEF g, b
<1>5. \A h \in Flows : g[h] - b[h] - Copies(sent[IfaceOf[h]], h)
                         = made[h] - waiting[h] - Copies(sent[IfaceOf[h]], h)
  BY <1>1, <1>4
<1>6. EnteredOf(g, b, sent) = EnteredOf(made, waiting, sent)
  BY <1>5 DEF EnteredOf
<1>7. UpstreamOK(g, b, sent)
  BY <1>3, <1>6 DEF UpstreamOK
<1>8. QED
  BY <1>6, <1>7 DEF g, b

\* A packet that starts goes from the backlog to the wire.
LEMMA SentKeeps ==
  ASSUME NEW made, NEW waiting, NEW sent, UpstreamOK(made, waiting, sent),
         NEW f \in Flows, waiting[f] > 0
  PROVE  /\ UpstreamOK(made, Less(waiting, f), WithLast(sent, IfaceOf[f], f))
         /\ EnteredOf(made, Less(waiting, f), WithLast(sent, IfaceOf[f], f))
              = EnteredOf(made, waiting, sent)
<1> DEFINE i == IfaceOf[f]
           v == Append(sent[i], f)
           b == Less(waiting, f)
           w == WithLast(sent, i, f)
<1>1. \A h \in Flows : /\ made[h] \in Nat
                       /\ waiting[h] \in Nat /\ waiting[h] <= FlowLength
                       /\ IfaceOf[h] \in Ifaces
                       /\ sent[IfaceOf[h]] \in Seq(Flows)
                       /\ Copies(sent[IfaceOf[h]], h) \in Nat
  BY UpstreamTypes
<1>2. waiting[f] - 1 \in 0..FlowLength
  BY <1>1, Parameters
<1>3. b \in [Flows -> 0..FlowLength]
  BY <1>2 DEF UpstreamOK, Less
<1>4. i \in Ifaces /\ v \in Seq(Flows)
  BY <1>1
<1>5. /\ \A h \in Flows : b[h] = IF h = f THEN waiting[h] - 1 ELSE waiting[h]
      /\ \A j \in Ifaces : w[j] = IF j = i THEN v ELSE sent[j]
  BY <1>4 DEF UpstreamOK, Less, WithLast
<1>6. w \in [Ifaces -> Seq(Flows)]
  BY <1>4 DEF UpstreamOK, Less, WithLast
<1>7. \A h \in Flows : Copies(v, h) = Copies(sent[i], h) + (IF f = h THEN 1 ELSE 0)
  BY <1>1, CopiesAppended
<1>8. \A j \in Ifaces : \A k \in 1..Len(w[j]) : IfaceOf[w[j][k]] = j
  <2>1. TAKE j \in Ifaces
  <2>2. CASE j = i
    <3>1. /\ Len(sent[i]) \in Nat /\ Len(v) = Len(sent[i]) + 1 /\ v[Len(sent[i]) + 1] = f
          /\ \A k \in 1..Len(sent[i]) : v[k] = sent[i][k]
      BY <1>1
    <3> HIDE DEF v, w
    <3>2. \A k \in 1..Len(v) : k \in 1..Len(sent[i]) \/ k = Len(sent[i]) + 1
      BY <3>1
    <3>3. \A k \in 1..Len(v) : IfaceOf[v[k]] = i
      BY <1>4, <3>1, <3>2 DEF UpstreamOK
    <3>4. QED
      BY <1>4, <1>5, <2>2, <3>3
  <2>3. CASE j # i
    <3>1. w[j] = sent[j]
      BY <1>5, <2>3
    <3> HIDE DEF w
    <3>2. QED
      BY <3>1 DEF UpstreamOK
  <2>4. QED
    BY <2>2, <2>3
<1> HIDE DEF b, w, v
<1>9. ASSUME NEW h \in Flows
      PROVE  made[h] - b[h] - Copies(w[IfaceOf[h]], h)
               = made[h] - waiting[h] - Copies(sent[IfaceOf[h]], h)
  <2>1. Copies(w[IfaceOf[h]], h)
          = Copies(sent[IfaceOf[h]], h) + (IF f = h THEN 1 ELSE 0)
    <3>1. CASE IfaceOf[h] = i
      BY <1>1, <1>5, <1>7, <3>1
    <3>2. CASE IfaceOf[h] # i
      BY <1>1, <1>5, <3>2
    <3>3. QED
      BY <3>1, <3>2
  <2>2. b[h] = waiting[h] - (IF f = h THEN 1 ELSE 0)
    BY <1>1, <1>5
  <2>3. QED
    BY <1>1, <2>1, <2>2
<1>10. EnteredOf(made, b, w) = EnteredOf(made, waiting, sent)
  BY <1>9 DEF EnteredOf
<1>11. UpstreamOK(made, b, w)
  BY <1>3, <1>6, <1>8, <1>10 DEF UpstreamOK
<1>12. QED
  BY <1>10, <1>11 DEF b, w

\* A packet that arrives has the number after the last that came.
LEMMA TakenKeeps ==
  ASSUME NEW made, NEW waiting, NEW sent, UpstreamOK(made, waiting, sent),
         NEW i \in Ifaces, sent[i] # <<>>
  PROVE  /\ Head(sent[i]) \in Flows
         /\ EnteredOf(made, waiting, sent)[Head(sent[i])] + 1 \in 1..FlowLength
         /\ UpstreamOK(made, waiting, WithoutFirst(sent, i))
         /\ EnteredOf(made, waiting, WithoutFirst(sent, i))
              = More(EnteredOf(made, waiting, sent), Head(sent[i]))
<1> DEFINE f == Head(sent[i])
           v == Tail(sent[i])
           w == WithoutFirst(sent, i)
           e == EnteredOf(made, waiting, sent)
<1>1. sent[i] \in Seq(Flows)
  BY DEF UpstreamOK
<1>2. /\ f \in Flows /\ v \in Seq(Flows) /\ f = sent[i][1] /\ 1 \in 1..Len(sent[i])
      /\ \A k \in 1..Len(v) : k + 1 \in 1..Len(sent[i]) /\ v[k] = sent[i][k + 1]
  <2>1. f \in Flows /\ v \in Seq(Flows) /\ Len(sent[i]) \in Nat \ {0}
    BY <1>1
  <2>2. Len(v) = Len(sent[i]) - 1 /\ \A k \in 1..Len(v) : v[k] = sent[i][k + 1]
    BY <1>1
  <2> HIDE DEF v
  <2>3. QED
    BY <2>1, <2>2
<1>3. \A h \in Flows : Copies(sent[i], h) = Copies(v, h) + (IF f = h THEN 1 ELSE 0)
  BY <1>1, CopiesOfTail
<1>4. \A j \in Ifaces : w[j] = IF j = i THEN v ELSE sent[j]
  BY DEF UpstreamOK, WithoutFirst
<1>5. w \in [Ifaces -> Seq(Flows)]
  BY <1>2 DEF UpstreamOK, WithoutFirst
<1>6. IfaceOf[f] = i
  BY <1>2 DEF UpstreamOK
<1> HIDE DEF v, w, f, e
<1>7. \A j \in Ifaces : \A k \in 1..Len(w[j]) : IfaceOf[w[j][k]] = j
  <2> TAKE j \in Ifaces
  <2> TAKE k \in 1..Len(w[j])
  <2>2. CASE j = i
    <3>1. k + 1 \in 1..Len(sent[i]) /\ w[j][k] = sent[i][k + 1]
      BY <1>2, <1>4, <2>2
    <3>2. IfaceOf[sent[i][k + 1]] = i
      BY <3>1 DEF UpstreamOK
    <3>3. QED
      BY <2>2, <3>1, <3>2
  <2>3. CASE j # i
    <3>1. w[j] = sent[j]
      BY <1>4, <2>3
    <3>2. QED
      BY <3>1 DEF UpstreamOK
  <2>4. QED
    BY <2>2, <2>3
<1>8. \A h \in Flows : /\ made[h] \in Nat /\ made[h] <= FlowLength
                       /\ waiting[h] \in Nat
                       /\ IfaceOf[h] \in Ifaces
                       /\ Copies(sent[IfaceOf[h]], h) \in Nat
                       /\ waiting[h] + Copies(sent[IfaceOf[h]], h) <= made[h]
                       /\ e[h] = made[h] - waiting[h] - Copies(sent[IfaceOf[h]], h)
  BY UpstreamTypes DEF e
<1>9. \A h \in Flows : Copies(v, h) \in Nat
  BY <1>2, PlacesFinite
<1>10. ASSUME NEW h \in Flows
       PROVE  made[h] - waiting[h] - Copies(w[IfaceOf[h]], h)
                = IF h = f THEN e[h] + 1 ELSE e[h]
  <2>1. CASE IfaceOf[h] = i
    <3>1. Copies(w[IfaceOf[h]], h) = Copies(v, h)
      BY <1>4, <2>1
    <3>2. Copies(sent[IfaceOf[h]], h) = Copies(v, h) + (IF f = h THEN 1 ELSE 0)
      BY <1>3, <2>1
    <3>3. QED
      BY <1>8, <1>9, <3>1, <3>2
  <2>2. CASE IfaceOf[h] # i
    BY <1>4, <1>6, <1>8, <2>2
  <2>3. QED
    BY <2>1, <2>2
<1>11. /\ e \in [Flows -> 0..FlowLength]
       /\ EnteredOf(made, waiting, w) = More(e, f)
  <2>1. e \in [Flows -> 0..FlowLength]
    BY DEF UpstreamOK, e
  <2>2. QED
    BY <1>10, <2>1 DEF EnteredOf, More
<1>12. e[f] + 1 \in 1..FlowLength
  <2>1. Copies(w[i], f) \in Nat
    BY <1>2, <1>4, <1>9
  <2>2. e[f] + 1 = made[f] - waiting[f] - Copies(w[i], f)
    BY <1>2, <1>6, <1>10
  <2>3. e[f] \in 0..FlowLength
    BY <1>2, <1>11
  <2>4. made[f] \in Nat /\ made[f] <= FlowLength /\ waiting[f] \in Nat
    BY <1>2, <1>8
  <2>5. FlowLength \in Nat
    BY Parameters
  <2>6. e[f] \in Nat
    BY <2>3, <2>5
  <2>7. made[f] - waiting[f] - Copies(w[i], f) <= made[f]
    BY <2>1, <2>4
  <2>8. e[f] + 1 <= FlowLength
    BY <2>1, <2>2, <2>4, <2>5, <2>6, <2>7
  <2>9. QED
    BY <2>5, <2>6, <2>8
<1>13. EnteredOf(made, waiting, w) \in [Flows -> 0..FlowLength]
  <2>1. e[f] + 1 \in 0..FlowLength
    BY <1>12, Parameters
  <2>2. QED
    BY <1>2, <1>11, <2>1 DEF More
<1>14. UpstreamOK(made, waiting, w)
  BY <1>5, <1>7, <1>13 DEF UpstreamOK
<1>15. QED
  BY <1>2, <1>11, <1>12, <1>14 DEF f, w, e

-----------------------------------------------------------------------------
(***************************************************************************)
(* The inductive invariant.                                                *)
(***************************************************************************)
Counters == [Ifaces -> [UpQueues -> Int]]
Agree(counters, n) ==
    \A i \in Ifaces, u \in UpQueues : counters[i][u] + Balance(n, i, u) = 0

IInv ==
    /\ named \in [Flows -> UpQueues]
    /\ pauses \in Counters
    /\ upBusy \in [Ifaces -> BOOLEAN]
    /\ UpstreamOK(given, backlog, wire)
    /\ Good(d, EnteredOf(given, backlog, wire))
    /\ Agree(pauses, d)

\* What a step establishes; the names of the upstream queues never change.
Kept ==
    /\ named' = named
    /\ pauses' \in Counters
    /\ upBusy' \in [Ifaces -> BOOLEAN]
    /\ UpstreamOK(given', backlog', wire')
    /\ Good(d', EnteredOf(given', backlog', wire'))
    /\ Agree(pauses', d')

LEMMA KeptIsInv ==
  ASSUME IInv, Kept
  PROVE  IInv'
<1>1. /\ d' \in Switches
      /\ WitnessedBy(d'.queue, d'.isPausedFlow, d'.ispaused)
      /\ Ordered(d', EnteredOf(given', backlog', wire'))
  BY DEF Kept, Good, Witnessed
<1>2. \A f : Source(f)' = Source(f)
  BY DEF Kept, Source
<1>3. WitnessedBy(d.queue, d.isPausedFlow, d.ispaused)'
  BY <1>1, <1>2 DEF WitnessedBy
<1>4. Good(d, EnteredOf(given, backlog, wire))'
  BY <1>1, <1>3 DEF Good, Witnessed
<1>5. QED
  BY <1>4 DEF IInv, Kept

LEMMA EnteredType ==
  ASSUME IInv
  PROVE  EnteredOf(given, backlog, wire) \in [Flows -> 0..FlowLength]
BY DEF IInv, UpstreamOK

\* A step of the switch alone.
LEMMA AloneKeeps ==
  ASSUME IInv, Good(d', EnteredOf(given, backlog, wire)), SameBalance(d', d),
         UNCHANGED <<named, backlog, given, pauses, upBusy, wire>>
  PROVE  Kept
<1>1. Agree(pauses, d')
  BY DEF IInv, Agree, SameBalance
<1>2. QED
  BY <1>1 DEF IInv, Kept

LEMMA MacBusyKeeps ==
  ASSUME NEW entered, NEW n, Good(n, entered), NEW i \in Ifaces, NEW e \in BOOLEAN
  PROVE  /\ Good([n EXCEPT !.macBusy[i] = e], entered)
         /\ SameBalance([n EXCEPT !.macBusy[i] = e], n)
<1> DEFINE r == [n EXCEPT !.macBusy[i] = e]
           b == [n.macBusy EXCEPT ![i] = e]
<1>1. n \in Switches /\ Witnessed(n) /\ Ordered(n, entered)
  BY DEF Good
<1>2. r = [n EXCEPT !.macBusy = b] /\ b \in [Ifaces -> BOOLEAN]
  BY <1>1 DEF Switches
<1> HIDE DEF r, b
<1>3. /\ r \in Switches
      /\ r.queue = n.queue /\ r.passed = n.passed /\ r.flowid_queue = n.flowid_queue
      /\ r.isPausedFlow = n.isPausedFlow /\ r.ispaused = n.ispaused
      /\ r.bfcWire = n.bfcWire /\ r.lost = n.lost
  BY <1>1, <1>2 DEF Switches
<1>4. Witnessed(r) /\ Ordered(r, entered) /\ SameBalance(r, n)
  BY <1>1, <1>3 DEF Witnessed, Ordered, SameBalance, Balance
<1>5. QED
  BY <1>3, <1>4 DEF Good, r

LEMMA StartsFrameKeeps ==
  ASSUME upBusy \in [Ifaces -> BOOLEAN], NEW i \in Ifaces, NEW made, NEW b,
         UpstreamOK(made, b, wire), StartsFrame(i, b)
  PROVE  /\ upBusy' \in [Ifaces -> BOOLEAN]
         /\ UpstreamOK(made, backlog', wire')
         /\ EnteredOf(made, backlog', wire') = EnteredOf(made, b, wire)
<1>1. CASE backlog' = b /\ upBusy' = [upBusy EXCEPT ![i] = FALSE] /\ UNCHANGED wire
  BY <1>1
<1>2. CASE /\ \E f \in Waiting(i, b) :
                 /\ backlog' = [b EXCEPT ![f] = @ - 1]
                 /\ wire' = [wire EXCEPT ![i] = Append(@, f)]
           /\ upBusy' = [upBusy EXCEPT ![i] = TRUE]
  <2>1. PICK f \in Waiting(i, b) : /\ backlog' = [b EXCEPT ![f] = @ - 1]
                                   /\ wire' = [wire EXCEPT ![i] = Append(@, f)]
    BY <1>2
  <2>2. f \in Flows /\ IfaceOf[f] = i /\ b[f] > 0
    BY DEF Waiting
  <2>3. backlog' = Less(b, f) /\ wire' = WithLast(wire, IfaceOf[f], f)
    BY <2>1, <2>2 DEF Less, WithLast
  <2>4. /\ UpstreamOK(made, backlog', wire')
        /\ EnteredOf(made, backlog', wire') = EnteredOf(made, b, wire)
    BY <2>2, <2>3, SentKeeps
  <2>5. QED
    BY <1>2, <2>4
<1>3. QED
  BY <1>1, <1>2 DEF StartsFrame

LEMMA UpstreamPushKeeps ==
  ASSUME IInv, NEW f \in Flows, UpstreamPush(f)
  PROVE  Kept
<1> DEFINE i == IfaceOf[f]
           b == More(backlog, f)
           g == More(given, f)
           e == EnteredOf(given, backlog, wire)
<1>1. /\ given[f] < FlowLength /\ given' = g
      /\ IF upBusy[i] THEN backlog' = b /\ UNCHANGED <<upBusy, wire>>
         ELSE StartsFrame(i, b)
      /\ UNCHANGED <<d, named, pauses>>
  BY DEF UpstreamPush, More
<1>2. /\ UpstreamOK(given, backlog, wire) /\ upBusy \in [Ifaces -> BOOLEAN]
      /\ Good(d, e) /\ Agree(pauses, d) /\ pauses \in Counters
  BY DEF IInv
<1>3. i \in Ifaces
  BY Parameters
<1>4. UpstreamOK(g, b, wire) /\ EnteredOf(g, b, wire) = e
  <2>1. given[f] < FlowLength /\ UpstreamOK(given, backlog, wire)
    BY <1>1, <1>2
  <2>2. QED
    BY <2>1, MadeKeeps
<1> HIDE DEF i, b, g, e
<1>5. /\ upBusy' \in [Ifaces -> BOOLEAN]
      /\ UpstreamOK(g, backlog', wire')
      /\ EnteredOf(g, backlog', wire') = e
  <2>1. CASE upBusy[i]
    BY <1>1, <1>2, <1>4, <2>1
  <2>2. CASE ~upBusy[i]
    BY <1>1, <1>2, <1>3, <1>4, <2>2, StartsFrameKeeps
  <2>3. QED
    BY <2>1, <2>2
<1>6. QED
  BY <1>1, <1>2, <1>5 DEF Kept

LEMMA UpstreamEndIFGKeeps ==
  ASSUME IInv, NEW i \in Ifaces, UpstreamEndIFG(i)
  PROVE  Kept
<1>1. StartsFrame(i, backlog) /\ UNCHANGED <<d, named, given, pauses>>
  BY DEF UpstreamEndIFG
<1>2. /\ UpstreamOK(given, backlog, wire) /\ upBusy \in [Ifaces -> BOOLEAN]
      /\ Good(d, EnteredOf(given, backlog, wire)) /\ Agree(pauses, d) /\ pauses \in Counters
  BY DEF IInv
<1>3. /\ upBusy' \in [Ifaces -> BOOLEAN]
      /\ UpstreamOK(given, backlog', wire')
      /\ EnteredOf(given, backlog', wire') = EnteredOf(given, backlog, wire)
  BY <1>1, <1>2, StartsFrameKeeps
<1>4. QED
  BY <1>1, <1>2, <1>3 DEF Kept

LEMMA FrameArrivesKeeps ==
  ASSUME IInv, NEW i \in Ifaces, FrameArrives(i)
  PROVE  Kept
<1> DEFINE f == Head(wire[i])
           w == WithoutFirst(wire, i)
           e == EnteredOf(given, backlog, wire)
           k == e[f] + 1
<1>1. /\ wire[i] # <<>>
      /\ d' \in Arrived(d, f, given[f] - backlog[f] - OnWire(f) + 1)
      /\ wire' = w
      /\ UNCHANGED <<named, backlog, given, pauses, upBusy>>
  BY DEF FrameArrives, WithoutFirst
<1>2. /\ UpstreamOK(given, backlog, wire) /\ upBusy \in [Ifaces -> BOOLEAN]
      /\ Good(d, e) /\ Agree(pauses, d) /\ pauses \in Counters
      /\ named \in [Flows -> UpQueues]
  BY DEF IInv
<1>3. /\ f \in Flows
      /\ k \in 1..FlowLength
      /\ UpstreamOK(given, backlog, w)
      /\ EnteredOf(given, backlog, w) = [e EXCEPT ![f] = k]
  <2>1. /\ f \in Flows
        /\ k \in 1..FlowLength
        /\ UpstreamOK(given, backlog, w)
        /\ EnteredOf(given, backlog, w) = More(e, f)
    <3>1. wire[i] # <<>> /\ UpstreamOK(given, backlog, wire)
      BY <1>1, <1>2
    <3>2. QED
      BY <3>1, TakenKeeps
  <2>2. QED
    BY <2>1 DEF More
<1>4. given[f] - backlog[f] - OnWire(f) + 1 = k
  <2>1. OnWire(f) = Copies(wire[IfaceOf[f]], f)
    BY Zenon DEF OnWire, Copies, Places
  <2>2. e[f] = given[f] - backlog[f] - Copies(wire[IfaceOf[f]], f)
    <3> HIDE DEF f
    <3>1. f \in Flows
      BY <1>3
    <3>2. QED
      BY <3>1 DEF EnteredOf
  <2> HIDE DEF e, f
  <2>3. QED
    BY <2>1, <2>2
<1>5. e \in [Flows -> 0..FlowLength]
  BY EnteredType
<1>6. d' \in Arrived(d, f, k)
  BY <1>1, <1>4
<1> HIDE DEF f, w, e
<1>7. Good(d', [e EXCEPT ![f] = k]) /\ SameBalance(d', d)
  <2>1. k = e[f] + 1
    OBVIOUS
  <2> HIDE DEF k
  <2>2. QED
    BY <1>2, <1>3, <1>5, <1>6, <2>1, ArrivedKeeps
<1>8. Agree(pauses, d')
  BY <1>2, <1>7 DEF Agree, SameBalance
<1>9. QED
  BY <1>1, <1>2, <1>3, <1>7, <1>8 DEF Kept

LEMMA ProcessbfcframeKeeps ==
  ASSUME IInv, NEW i \in Ifaces, processbfcframe(i)
  PROVE  Kept
<1> DEFINE e == EnteredOf(given, backlog, wire)
           h == Head(d.bfcWire[i])
           w == [d.bfcWire EXCEPT ![i] = Tail(@)]
           c == [pauses EXCEPT ![i] = Counted(i, h)]
<1>1. /\ d.bfcWire[i] # <<>>
      /\ pauses' = c
      /\ d' = [d EXCEPT !.bfcWire[i] = Tail(@)]
      /\ UNCHANGED <<named, backlog, given, upBusy, wire>>
  BY DEF processbfcframe
<1>2. /\ UpstreamOK(given, backlog, wire) /\ upBusy \in [Ifaces -> BOOLEAN]
      /\ Good(d, e) /\ Agree(pauses, d) /\ pauses \in Counters
      /\ d \in Switches /\ Witnessed(d) /\ Ordered(d, e)
  BY DEF IInv, Good
<1>3. /\ d.bfcWire \in [Ifaces -> Seq(Commands)] /\ d.bfcWire[i] \in Seq(Commands)
      /\ d.lost \in [Ifaces -> [UpQueues -> Int]]
  BY <1>2, PartsOf
<1>4. h.op \in {"PAUSE", "RESUME"} /\ h.queueID \in UpQueues /\ Tail(d.bfcWire[i]) \in Seq(Commands)
  <2>1. h \in Commands /\ Tail(d.bfcWire[i]) \in Seq(Commands)
    BY <1>1, <1>3
  <2> HIDE DEF h
  <2>2. QED
    BY <2>1 DEF Commands
<1>5. w \in [Ifaces -> Seq(Commands)]
  BY <1>3, <1>4
<1>6. d' = [d EXCEPT !.bfcWire = w]
  BY <1>1, <1>2 DEF Switches
<1>7. /\ \A j \in Ifaces \ {i} : w[j] = d.bfcWire[j]
      /\ w[i] = Tail(d.bfcWire[i])
  BY <1>3
<1> HIDE DEF w
<1>8. /\ d' \in Switches
      /\ d'.bfcWire = w
      /\ d'.queue = d.queue /\ d'.passed = d.passed /\ d'.flowid_queue = d.flowid_queue
      /\ d'.isPausedFlow = d.isPausedFlow /\ d'.ispaused = d.ispaused
      /\ d'.lost = d.lost
  BY <1>2, <1>5, <1>6 DEF Switches
<1>9. Good(d', e)
  <2>1. Witnessed(d') /\ Ordered(d', e)
    BY <1>2, <1>8 DEF Witnessed, Ordered
  <2>2. QED
    BY <1>8, <2>1 DEF Good
<1> HIDE DEF h
<1>10. \A j \in Ifaces, u \in UpQueues :
          pauses[j][u] \in Int
  BY <1>2 DEF Counters
<1>11. /\ c \in Counters
       /\ \A j \in Ifaces \ {i} : c[j] = pauses[j]
       /\ \A u \in UpQueues :
             c[i][u] = pauses[i][u] + (IF h.queueID = u THEN Sign(h.op) ELSE 0)
  <2>1. pauses[i] \in [UpQueues -> Int] /\ pauses \in [Ifaces -> [UpQueues -> Int]]
    BY <1>2 DEF Counters
  <2>2. /\ Counted(i, h) \in [UpQueues -> Int]
        /\ \A u \in UpQueues : Counted(i, h)[u]
             = pauses[i][u] + (IF h.queueID = u THEN Sign(h.op) ELSE 0)
    BY <1>4, <2>1 DEF Counted, Sign
  <2>3. QED
    BY <2>1, <2>2 DEF Counters
<1> HIDE DEF c
<1>12. ASSUME NEW j \in Ifaces, NEW u \in UpQueues
       PROVE  c[j][u] + Balance(d', j, u) = 0
  <2>1. pauses[j][u] + Balance(d, j, u) = 0
    BY <1>2 DEF Agree
  <2>2. CASE j = i
    <3>1. WireBalance(d.bfcWire[i], u) = WireBalance(w[i], u)
                                  + (IF h.queueID = u THEN Sign(h.op) ELSE 0)
      BY <1>1, <1>3, <1>7, WireBalanceRead DEF h
    <3>2. /\ WireBalance(w[i], u) \in Int
          /\ Sign(h.op) \in Int
          /\ d.lost[i][u] \in Int /\ pauses[i][u] \in Int
          /\ Cardinality(Holders(d.ispaused, <<i, u>>)) \in Nat
      <4>1. WireBalance(w[i], u) \in Int
        BY <1>4, <1>7, WireBalanceType
      <4>2. Sign(h.op) \in Int
        BY DEF Sign
      <4>3. QED
        BY <1>3, <1>10, <4>1, <4>2, HoldersFinite
    <3>3. /\ Balance(d, i, u) = WireBalance(d.bfcWire[i], u) + d.lost[i][u]
                                  - Cardinality(Holders(d.ispaused, <<i, u>>))
          /\ Balance(d', i, u) = WireBalance(w[i], u) + d.lost[i][u]
                                   - Cardinality(Holders(d.ispaused, <<i, u>>))
      BY <1>8 DEF Balance
    <3>4. c[i][u] = pauses[i][u] + (IF h.queueID = u THEN Sign(h.op) ELSE 0)
      BY <1>11
    <3>5. QED
      BY <2>1, <2>2, <3>1, <3>2, <3>3, <3>4
  <2>3. CASE j # i
    <3>1. Balance(d', j, u) = Balance(d, j, u)
      BY <1>7, <1>8, <2>3 DEF Balance
    <3>2. QED
      BY <1>11, <2>1, <2>3, <3>1
  <2>4. QED
    BY <2>2, <2>3
<1>13. Agree(pauses', d')
  BY <1>1, <1>12 DEF Agree
<1>14. QED
  BY <1>1, <1>2, <1>9, <1>11, <1>13 DEF Kept, e

LEMMA ReverseFrameKeeps ==
  ASSUME IInv, NEW i \in Ifaces, ReverseFrame(i)
  PROVE  Kept
<1>1. /\ d' = [d EXCEPT !.macBusy[i] = TRUE]
      /\ UNCHANGED <<named, backlog, given, pauses, upBusy, wire>>
  BY DEF ReverseFrame
<1>2. Good(d, EnteredOf(given, backlog, wire))
  BY DEF IInv
<1>3. Good(d', EnteredOf(given, backlog, wire)) /\ SameBalance(d', d)
  BY <1>1, <1>2, MacBusyKeeps
<1>4. QED
  BY <1>1, <1>3, AloneKeeps

LEMMA ReverseEndIFGKeeps ==
  ASSUME IInv, NEW i \in Ifaces, ReverseEndIFG(i)
  PROVE  Kept
<1>1. /\ d' = [d EXCEPT !.macBusy[i] = FALSE]
      /\ UNCHANGED <<named, backlog, given, pauses, upBusy, wire>>
  BY DEF ReverseEndIFG
<1>2. Good(d, EnteredOf(given, backlog, wire))
  BY DEF IInv
<1>3. Good(d', EnteredOf(given, backlog, wire)) /\ SameBalance(d', d)
  BY <1>1, <1>2, MacBusyKeeps
<1>4. QED
  BY <1>1, <1>3, AloneKeeps

LEMMA EgressEndIFGKeeps ==
  ASSUME IInv, EgressEndIFG
  PROVE  Kept
<1>1. /\ d' \in Dequeued(d)
      /\ UNCHANGED <<named, backlog, given, pauses, upBusy, wire>>
  BY DEF EgressEndIFG
<1>2. /\ Good(d, EnteredOf(given, backlog, wire)) /\ named \in [Flows -> UpQueues]
      /\ EnteredOf(given, backlog, wire) \in [Flows -> 0..FlowLength]
  BY EnteredType DEF IInv
<1>3. Good(d', EnteredOf(given, backlog, wire)) /\ SameBalance(d', d)
  BY <1>1, <1>2, DequeuedKeeps
<1>4. QED
  BY <1>1, <1>3, AloneKeeps

\* Nothing waits, nothing is paused and no flow is known at first.
LEMMA InitIInv == Init => IInv
<1> SUFFICES ASSUME Init PROVE IInv
  OBVIOUS
<1> DEFINE e == EnteredOf(given, backlog, wire)
<1>1. /\ d.queue = [q \in Queues |-> <<>>]
      /\ d.isPausedFlow = [q \in Queues |-> {}]
      /\ d.ispaused = [q \in Queues |-> {}]
      /\ d.flowid_queue = [f \in {} |-> 0]
      /\ d.passed = [f \in Flows |-> 0]
      /\ d.bfcWire = [i \in Ifaces |-> <<>>]
      /\ d.lost = [i \in Ifaces |-> [u \in UpQueues |-> 0]]
  BY DEF Init
<1>2. named \in [Flows -> UpQueues]
  BY DEF Init
<1>3. /\ backlog = [f \in Flows |-> 0] /\ given = [f \in Flows |-> 0]
      /\ wire = [i \in Ifaces |-> <<>>]
      /\ pauses = [i \in Ifaces |-> [u \in UpQueues |-> 0]]
      /\ upBusy = [i \in Ifaces |-> FALSE]
  BY DEF Init
<1>4. FlowLength \in Nat \ {0} /\ \A f \in Flows : IfaceOf[f] \in Ifaces
  BY Parameters
<1>5. \A f \in Flows : given[f] - backlog[f] - Copies(wire[IfaceOf[f]], f) = 0
  BY <1>3, <1>4, CopiesOfNone
<1>6. e = [f \in Flows |-> 0]
  BY <1>5 DEF EnteredOf
<1>7. UpstreamOK(given, backlog, wire)
  <2>1. given \in [Flows -> 0..FlowLength] /\ backlog \in [Flows -> 0..FlowLength]
    BY <1>3, <1>4
  <2>2. e \in [Flows -> 0..FlowLength]
    BY <1>4, <1>6
  <2>3. wire \in [Ifaces -> Seq(Flows)]
    BY <1>3
  <2>4. \A i \in Ifaces : \A k \in 1..Len(wire[i]) : IfaceOf[wire[i][k]] = i
    BY <1>3
  <2>5. QED
    BY <2>1, <2>2, <2>3, <2>4 DEF UpstreamOK
<1> HIDE DEF e
<1>8. d \in Switches
  <2> DEFINE shared == [q \in Queues |-> SharedBuffer]
             busy == [i \in Ifaces |-> FALSE]
  <2>1. d = [queue |-> d.queue, isPausedFlow |-> d.isPausedFlow, ispaused |-> d.ispaused,
             flowid_queue |-> d.flowid_queue, sharedBuffer |-> shared, egBusy |-> FALSE,
             macBusy |-> busy, bfcWire |-> d.bfcWire, lost |-> d.lost, passed |-> d.passed]
    BY DEF Init
  <2>2. /\ d.queue \in [Queues -> Seq(Packets)]
        /\ d.isPausedFlow \in [Queues -> SUBSET Flows]
        /\ d.ispaused \in [Queues -> SUBSET Sources]
        /\ d.bfcWire \in [Ifaces -> Seq(Commands)]
    BY <1>1
  <2>3. d.lost \in [Ifaces -> [UpQueues -> Int]]
    BY <1>1
  <2>4. d.passed \in [Flows -> 0..FlowLength]
    BY <1>1, <1>4
  <2>5. d.flowid_queue \in Maps
    <3>1. d.flowid_queue \in [{} -> Queues]
      BY <1>1
    <3>2. QED
      BY <3>1 DEF Maps
  <2>6. shared \in [Queues -> Nat] /\ busy \in [Ifaces -> BOOLEAN]
    BY Parameters
  <2> HIDE DEF shared, busy
  <2> DEFINE n == [queue |-> d.queue, isPausedFlow |-> d.isPausedFlow, ispaused |-> d.ispaused,
                   flowid_queue |-> d.flowid_queue, sharedBuffer |-> shared, egBusy |-> FALSE,
                   macBusy |-> busy, bfcWire |-> d.bfcWire, lost |-> d.lost,
                   passed |-> d.passed]
  <2>7. n \in Switches
    BY <2>2, <2>3, <2>4, <2>5, <2>6 DEF Switches
  <2> HIDE DEF n
  <2>8. d = n
    BY <2>1 DEF n
  <2>9. QED
    BY <2>7, <2>8
<1>9. Witnessed(d)
  BY <1>1 DEF Witnessed, WitnessedBy
<1>10. Ordered(d, e)
  <2>1. \A q \in Queues : Len(d.queue[q]) = 0
    BY <1>1
  <2>2. \A q \in Queues : \A k \in 1..Len(d.queue[q]) : FALSE
    BY <2>1
  <2>3. \A f \in Flows : /\ d.passed[f] <= e[f]
                         /\ f \in DOMAIN d.flowid_queue \/ e[f] \in {0, FlowLength}
    BY <1>1, <1>6
  <2>4. QED
    BY <2>2, <2>3 DEF Ordered, OrderedBy
<1>11. Agree(pauses, d)
  <2>1. SUFFICES ASSUME NEW i \in Ifaces, NEW u \in UpQueues
                 PROVE  pauses[i][u] + Balance(d, i, u) = 0
    BY DEF Agree
  <2>2. WireBalance(d.bfcWire[i], u) = 0
    <3>1. d.bfcWire[i] = <<>>
      BY <1>1
    <3>2. QED
      BY <3>1, CopiesOfNone DEF WireBalance
  <2>3. Cardinality(Holders(d.ispaused, <<i, u>>)) = 0
    <3>1. Holders(d.ispaused, <<i, u>>) = {}
      BY <1>1 DEF Holders
    <3>2. QED
      BY <3>1, FS_EmptySet
  <2>4. d.lost[i][u] = 0 /\ pauses[i][u] = 0
    BY <1>1, <1>3
  <2>5. QED
    BY <2>2, <2>3, <2>4 DEF Balance
<1>12. pauses \in Counters /\ upBusy \in [Ifaces -> BOOLEAN]
  BY <1>3 DEF Counters
<1>13. QED
  BY <1>2, <1>7, <1>8, <1>9, <1>10, <1>11, <1>12 DEF IInv, Good, e

\* Each handler keeps the invariant.
LEMMA StepIInv == IInv /\ [Next]_vars => IInv'
<1> SUFFICES ASSUME IInv, [Next]_vars PROVE IInv'
  OBVIOUS
<1>1. ASSUME NEW f \in Flows, UpstreamPush(f) PROVE IInv'
  BY <1>1, UpstreamPushKeeps, KeptIsInv
<1>2. ASSUME NEW i \in Ifaces, UpstreamEndIFG(i) PROVE IInv'
  BY <1>2, UpstreamEndIFGKeeps, KeptIsInv
<1>3. ASSUME NEW i \in Ifaces, FrameArrives(i) PROVE IInv'
  BY <1>3, FrameArrivesKeeps, KeptIsInv
<1>4. ASSUME NEW i \in Ifaces, processbfcframe(i) PROVE IInv'
  BY <1>4, ProcessbfcframeKeeps, KeptIsInv
<1>5. ASSUME NEW i \in Ifaces, ReverseFrame(i) PROVE IInv'
  BY <1>5, ReverseFrameKeeps, KeptIsInv
<1>6. ASSUME NEW i \in Ifaces, ReverseEndIFG(i) PROVE IInv'
  BY <1>6, ReverseEndIFGKeeps, KeptIsInv
<1>7. CASE EgressEndIFG
  BY <1>7, EgressEndIFGKeeps, KeptIsInv
<1>8. CASE UNCHANGED vars
  <2>1. Kept
    BY <1>8 DEF vars, IInv, Kept
  <2>2. QED
    BY <2>1, KeptIsInv
<1>9. QED
  BY <1>1, <1>2, <1>3, <1>4, <1>5, <1>6, <1>7, <1>8 DEF Next

\* Every reachable state of the chain satisfies the invariant.
THEOREM IInvHolds == Spec => []IInv
<1>1. Init => IInv
  BY InitIInv
<1>2. IInv /\ [Next]_vars => IInv'
  BY StepIInv
<1>3. QED
  BY <1>1, <1>2, PTL DEF Spec

-----------------------------------------------------------------------------
(***************************************************************************)
(* The theorems.                                                           *)
(***************************************************************************)
\* The state of the chain is well formed: no handler takes from a shared buffer
\* that is empty (BFCqueue::BufferManagement), and no scheduler from an upstream
\* queue that is (BFCScheduler::schedulePacket).
THEOREM TypeCorrect == Spec => []TypeOK
<1>1. IInv => TypeOK
  <2>1. SUFFICES ASSUME IInv PROVE TypeOK
    OBVIOUS
  <2>2. d \in Switches
    BY <2>1 DEF IInv, Good
  <2>3. QED
    BY <2>1, <2>2 DEF TypeOK, IInv, UpstreamOK, Switches, Sources, Maps, Counters
<1>2. QED
  BY <1>1, IInvHolds, PTL

\* A pause that a queue of the egress port holds always has a packet in that
\* queue whose departure sends the RESUME (BFCqueue::pushPacket and pullPacket).
THEOREM PausesWitnessed == Spec => []PauseHasWitness
<1>1. IInv => PauseHasWitness
  <2>1. SUFFICES ASSUME IInv, NEW q \in Queues, NEW s \in d.ispaused[q]
                 PROVE  \E k \in 1..Len(d.queue[q]) :
                           /\ d.queue[q][k].tagged
                           /\ d.queue[q][k].flow \in d.isPausedFlow[q]
                           /\ Source(d.queue[q][k].flow) = s
    BY DEF PauseHasWitness
  <2>2. WitnessedBy(d.queue, d.isPausedFlow, d.ispaused)
    BY <2>1 DEF IInv, Good, Witnessed
  <2>3. PICK f \in d.isPausedFlow[q] : Source(f) = s
    BY <2>1, <2>2 DEF WitnessedBy
  <2>4. TaggedIn(d.queue[q], f)
    BY <2>2, <2>3 DEF WitnessedBy
  <2>5. PICK k \in 1..Len(d.queue[q]) : d.queue[q][k].tagged /\ d.queue[q][k].flow = f
    BY <2>4 DEF TaggedIn
  <2>6. QED
    BY <2>3, <2>5
<1>2. QED
  BY <1>1, IInvHolds, PTL

\* The counter of an upstream queue (BFCScheduler::ispaused) never drifts from
\* the pauses that the egress port holds, whatever the order of the pauses and
\* of the commands that a busy BFCMac drops.
THEOREM CountsCorrect == Spec => []PausesCounted
<1>1. IInv => PausesCounted
  <2>1. SUFFICES ASSUME IInv, NEW i \in Ifaces, NEW u \in UpQueues
                 PROVE  pauses[i][u] + UnderWay(i, u) + d.lost[i][u]
                          = Cardinality({q \in Queues : <<i, u>> \in d.ispaused[q]})
    BY DEF PausesCounted
  <2>2. UnderWay(i, u) = WireBalance(d.bfcWire[i], u)
    BY Zenon DEF UnderWay, WireBalance, Copies, Places
  <2>3. Cardinality({q \in Queues : <<i, u>> \in d.ispaused[q]})
          = Cardinality(Holders(d.ispaused, <<i, u>>))
    BY Zenon DEF Holders
  <2>4. pauses[i][u] + Balance(d, i, u) = 0
    BY <2>1 DEF IInv, Agree
  <2>5. d \in Switches /\ pauses[i][u] \in Int
    BY <2>1 DEF IInv, Good, Counters
  <2>6. /\ WireBalance(d.bfcWire[i], u) \in Int /\ d.lost[i][u] \in Int
        /\ Cardinality(Holders(d.ispaused, <<i, u>>)) \in Nat
    BY <2>5, PartsOf, WireBalanceType, HoldersFinite
  <2>7. Balance(d, i, u) = WireBalance(d.bfcWire[i], u) + d.lost[i][u]
                             - Cardinality(Holders(d.ispaused, <<i, u>>))
    BY DEF Balance
  <2>8. pauses[i][u] + WireBalance(d.bfcWire[i], u) + d.lost[i][u]
          = Cardinality(Holders(d.ispaused, <<i, u>>))
    BY <2>4, <2>5, <2>6, <2>7
  <2>9. QED
    BY <2>2, <2>3, <2>8
<1>2. QED
  BY <1>1, IInvHolds, PTL

\* BFCClassifier may give a queue to another flow, and a flow another queue, but
\* the packets of a flow always wait in one queue, in order.
THEOREM OrderKept == Spec => []FlowsKeepOrder
<1>1. IInv => FlowsKeepOrder
  <2>1. SUFFICES ASSUME IInv PROVE FlowsKeepOrder
    OBVIOUS
  <2>2. OrderedBy(d.queue, d.flowid_queue, d.passed, EnteredOf(given, backlog, wire))
    BY <2>1 DEF IInv, Good, Ordered
  <2>3. d \in Switches
    BY <2>1 DEF IInv, Good
  <2>4. /\ \A q \in Queues : \A k \in 1..Len(d.queue[q]) : d.queue[q][k] \in Packets
        /\ d.passed \in [Flows -> 0..FlowLength]
    BY <2>3, PartsOf
  <2>5. ASSUME NEW q \in Queues, NEW k \in 1..Len(d.queue[q])
        PROVE  d.queue[q][k].n > d.passed[d.queue[q][k].flow]
    <3>1. d.passed[d.queue[q][k].flow] < d.queue[q][k].n
      BY <2>2 DEF OrderedBy
    <3>2. d.queue[q][k].n \in Nat /\ d.queue[q][k].flow \in Flows
      BY <2>4, Parameters DEF Packets
    <3>3. QED
      BY <2>4, <3>1, <3>2
  <2>6. \A q \in Queues : \A k \in 1..Len(d.queue[q]) :
          \A r \in Queues : \A j \in 1..Len(d.queue[r]) :
              d.queue[r][j].flow = d.queue[q][k].flow
                  => r = q /\ (j > k => d.queue[r][j].n > d.queue[q][k].n)
    BY <2>2, Zenon DEF OrderedBy
  <2>7. QED
    BY <2>5, <2>6 DEF FlowsKeepOrder
<1>2. QED
  BY <1>1, IInvHolds, PTL
=============================================================================

--------------------------- MODULE PfcLink_proofs ---------------------------
(***************************************************************************)
(* Proofs about PfcLink for any number of upstream ports and priorities,   *)
(* any room on the wires and any thresholds: the state of the switch stays *)
(* well formed, its pauses and the upstream schedulers agree, its egress   *)
(* port does not idle on a backlog and, when the thresholds leave enough   *)
(* headroom, it drops a packet only after a PAUSE was lost.                *)
(***************************************************************************)
EXTENDS PfcLink, PrefixSum_proofs

LEMMA Parameters ==
  /\ NumPriorities \in Nat
  /\ DataCapacity \in Int /\ SharedBuffer \in Int /\ Headroom \in Int
  /\ XON \in Int /\ XOFF \in Int
  /\ Packets \in Nat
BY PfcLinkAssumption

\* The parts of the switch's state.
QueueState == [shared   : Int,
               queue    : [Priorities -> Seq(PacketsOf)],
               paused   : [Priorities -> SUBSET Ifaces],
               markNext : [Priorities -> BOOLEAN]]

Frame == [op : {"PAUSE", "RESUME"}, priority : Priorities, overtaken : Nat]

LEMMA SwitchesNamed ==
  Switches = [sw      : QueueState,
              egBusy  : BOOLEAN,
              macBusy : [Ifaces -> BOOLEAN],
              pfcWire : [Ifaces -> Seq(Frame)],
              lost    : [Ifaces -> [Priorities -> BOOLEAN]],
              dropped : SUBSET Priorities]
BY DEF Switches, QueueState, Frame

\* A state of the switch is the record of its parts.
LEMMA PartsOf ==
  ASSUME NEW n \in Switches
  PROVE  /\ n = [sw |-> n.sw, egBusy |-> n.egBusy, macBusy |-> n.macBusy,
                 pfcWire |-> n.pfcWire, lost |-> n.lost, dropped |-> n.dropped]
         /\ n.sw \in QueueState
         /\ n.egBusy \in BOOLEAN
         /\ n.macBusy \in [Ifaces -> BOOLEAN]
         /\ n.pfcWire \in [Ifaces -> Seq(Frame)]
         /\ n.lost \in [Ifaces -> [Priorities -> BOOLEAN]]
         /\ n.dropped \in SUBSET Priorities
BY SwitchesNamed

LEMMA Assembled ==
  ASSUME NEW s \in QueueState, NEW e \in BOOLEAN, NEW m \in [Ifaces -> BOOLEAN],
         NEW w \in [Ifaces -> Seq(Frame)], NEW l \in [Ifaces -> [Priorities -> BOOLEAN]],
         NEW x \in SUBSET Priorities
  PROVE  [sw |-> s, egBusy |-> e, macBusy |-> m, pfcWire |-> w, lost |-> l, dropped |-> x]
             \in Switches
BY SwitchesNamed

\* Changes of one part.
LEMMA EgBusyChanged ==
  ASSUME NEW n \in Switches, NEW e \in BOOLEAN
  PROVE  /\ [n EXCEPT !.egBusy = e] \in Switches
         /\ [n EXCEPT !.egBusy = e].egBusy = e
         /\ [n EXCEPT !.egBusy = e].sw = n.sw
         /\ [n EXCEPT !.egBusy = e].pfcWire = n.pfcWire
         /\ [n EXCEPT !.egBusy = e].lost = n.lost
BY SwitchesNamed

LEMMA DroppedChanged ==
  ASSUME NEW n \in Switches, NEW p \in Priorities
  PROVE  /\ [n EXCEPT !.dropped = @ \cup {p}] \in Switches
         /\ [n EXCEPT !.dropped = @ \cup {p}].egBusy = n.egBusy
         /\ [n EXCEPT !.dropped = @ \cup {p}].sw = n.sw
         /\ [n EXCEPT !.dropped = @ \cup {p}].pfcWire = n.pfcWire
         /\ [n EXCEPT !.dropped = @ \cup {p}].lost = n.lost
BY SwitchesNamed

LEMMA MacBusyChanged ==
  ASSUME NEW n \in Switches, NEW i \in Ifaces, NEW b \in BOOLEAN
  PROVE  /\ [n EXCEPT !.macBusy[i] = b] \in Switches
         /\ [n EXCEPT !.macBusy[i] = b].egBusy = n.egBusy
         /\ [n EXCEPT !.macBusy[i] = b].sw = n.sw
         /\ [n EXCEPT !.macBusy[i] = b].pfcWire = n.pfcWire
         /\ [n EXCEPT !.macBusy[i] = b].lost = n.lost
BY SwitchesNamed

LEMMA WireChanged ==
  ASSUME NEW n \in Switches, NEW i \in Ifaces, NEW w \in Seq(Frame)
  PROVE  /\ [n EXCEPT !.pfcWire[i] = w] \in Switches
         /\ [n EXCEPT !.pfcWire[i] = w].egBusy = n.egBusy
         /\ [n EXCEPT !.pfcWire[i] = w].sw = n.sw
         /\ [n EXCEPT !.pfcWire[i] = w].pfcWire = [n.pfcWire EXCEPT ![i] = w]
         /\ [n EXCEPT !.pfcWire[i] = w].lost = n.lost
BY SwitchesNamed

-----------------------------------------------------------------------------
(***************************************************************************)
(* The queues, as REDPFCQueue changes them.                                *)
(***************************************************************************)
\* The instance of PrefixSum within that of REDPFCQueue is PrefixSum.
LEMMA QueueLength == \A s : Q!Length(s) = Length(s)
BY Zenon DEF Q!Length, Length, Q!SumTo, SumTo, Q!PartialSums, PartialSums

LEMMA LengthIsNatural ==
  ASSUME NEW s \in Seq(PacketsOf)
  PROVE  Q!Length(s) \in Nat
<1>1. \A x \in PacketsOf : x.len \in Nat
  BY DEF PacketsOf
<1>2. Length(s) \in Nat
  BY <1>1, LengthType
<1>3. QED
  BY <1>2, QueueLength

\* A push and a pull keep the queues well formed and change the pauses of
\* their own queue only.
LEMMA PushedType ==
  ASSUME NEW s \in QueueState, NEW p \in Priorities, NEW i \in Ifaces
  PROVE  /\ Q!Pushed(s, p, PacketOf(i)) \in QueueState
         /\ \A r \in Priorities \ {p} : Q!Pushed(s, p, PacketOf(i)).paused[r] = s.paused[r]
<1> DEFINE longer == Append(s.queue[p], PacketOf(i))
           asked == IF TRUE /\ Q!PauseDue(Q!Length(longer), s.shared)
                    THEN s.paused[p] \cup {PacketOf(i).iface} ELSE s.paused[p]
           queue == [s.queue EXCEPT ![p] = longer]
           paused == [s.paused EXCEPT ![p] = asked]
<1>1. /\ s.shared \in Int
      /\ s.queue \in [Priorities -> Seq(PacketsOf)]
      /\ s.paused \in [Priorities -> SUBSET Ifaces]
      /\ s.markNext \in [Priorities -> BOOLEAN]
  BY DEF QueueState
<1>2. Q!Pushed(s, p, PacketOf(i)) = [shared |-> s.shared, queue |-> queue,
                                     paused |-> paused, markNext |-> s.markNext]
  BY Zenon DEF Q!Pushed
<1>3. PacketOf(i) \in PacketsOf /\ PacketOf(i).iface = i
  BY DEF PacketOf, PacketsOf
<1>4. asked \in SUBSET Ifaces
  BY <1>1, <1>3
<1> HIDE DEF asked
<1>5. /\ queue \in [Priorities -> Seq(PacketsOf)]
      /\ paused \in [Priorities -> SUBSET Ifaces]
      /\ \A r \in Priorities \ {p} : paused[r] = s.paused[r]
  BY <1>1, <1>3, <1>4
<1> HIDE DEF queue, paused
<1>6. QED
  BY <1>1, <1>2, <1>5 DEF QueueState

LEMMA PulledType ==
  ASSUME NEW s \in QueueState, NEW p \in Priorities, s.queue[p] # <<>>
  PROVE  /\ Q!Pulled(s, p, FALSE) \in QueueState
         /\ \A r \in Priorities \ {p} : Q!Pulled(s, p, FALSE).paused[r] = s.paused[r]
<1> DEFINE rest == Tail(s.queue[p])
           free == s.shared + Q!Release(s, p)
           asked == IF TRUE /\ Q!ResumeDue(Q!Length(rest), free) THEN {} ELSE s.paused[p]
           mark == Q!Marked(FALSE, Head(s.queue[p]).ecn, s.markNext[p])
           queue == [s.queue EXCEPT ![p] = rest]
           paused == [s.paused EXCEPT ![p] = asked]
           markNext == [s.markNext EXCEPT ![p] = mark.next]
<1>1. /\ s.shared \in Int
      /\ s.queue \in [Priorities -> Seq(PacketsOf)]
      /\ s.paused \in [Priorities -> SUBSET Ifaces]
      /\ s.markNext \in [Priorities -> BOOLEAN]
      /\ rest \in Seq(PacketsOf) /\ Head(s.queue[p]) \in PacketsOf
  BY DEF QueueState
<1>2. Q!Pulled(s, p, FALSE) = [shared |-> free, queue |-> queue,
                               paused |-> paused, markNext |-> markNext]
  BY Zenon DEF Q!Pulled
<1>3. free \in Int
  <2>1. Q!Length(s.queue[p]) \in Nat
    BY <1>1, LengthIsNatural
  <2>2. Head(s.queue[p]).len = 1
    BY <1>1 DEF PacketsOf
  <2>3. QED
    BY <1>1, <2>1, <2>2, Parameters DEF Q!Release
<1>4. asked \in SUBSET Ifaces
  BY <1>1
<1>5. mark.next \in BOOLEAN
  BY <1>1 DEF Q!Marked
<1> HIDE DEF asked, mark, rest, free
<1>6. /\ queue \in [Priorities -> Seq(PacketsOf)]
      /\ paused \in [Priorities -> SUBSET Ifaces]
      /\ markNext \in [Priorities -> BOOLEAN]
      /\ \A r \in Priorities \ {p} : paused[r] = s.paused[r]
  BY <1>1, <1>4, <1>5
<1> HIDE DEF queue, paused, markNext
<1> DEFINE t == [shared |-> free, queue |-> queue, paused |-> paused, markNext |-> markNext]
<1>7. t \in QueueState /\ \A r \in Priorities \ {p} : t.paused[r] = s.paused[r]
  BY <1>3, <1>6 DEF QueueState
<1> HIDE DEF t
<1>8. Q!Pulled(s, p, FALSE) = t
  BY <1>2 DEF t
<1>9. QED
  BY <1>7, <1>8, Zenon

LEMMA ChargedType ==
  ASSUME NEW s \in QueueState, NEW i \in Ifaces
  PROVE  /\ Q!Charged(s, PacketOf(i)) \in QueueState
         /\ Q!Charged(s, PacketOf(i)).paused = s.paused
<1>1. PacketOf(i).len = 1
  BY DEF PacketOf
<1>2. QED
  BY <1>1 DEF Q!Charged, QueueState

-----------------------------------------------------------------------------
(***************************************************************************)
(* The frames under way.                                                   *)
(***************************************************************************)
\* A frame that is sent decides what its priority will hold, and nothing else.
LEMMA AfterAppend ==
  ASSUME NEW w \in Seq(Frame), NEW f \in Frame, NEW b \in BOOLEAN, NEW p \in Priorities
  PROVE  AfterFrames(Append(w, f), b, p)
             <=> IF f.priority = p THEN f.op = "PAUSE" ELSE AfterFrames(w, b, p)
<1> DEFINE v == Append(w, f)
           n == Len(w)
<1>1. /\ n \in Nat /\ Len(v) = n + 1
      /\ v[n + 1] = f
      /\ \A k \in 1..n : v[k] = w[k]
  OBVIOUS
<1> HIDE DEF v, n
<1>2. CASE f.priority = p
  <2>1. ~ \A j \in 1..Len(v) : v[j].priority # p
    BY <1>1, <1>2
  <2>2. \A k \in 1..n : ~ \A j \in (k + 1)..Len(v) : v[j].priority # p
    BY <1>1, <1>2
  <2>3. \A j \in ((n + 1) + 1)..Len(v) : v[j].priority # p
    BY <1>1
  <2>4. AfterFrames(v, b, p) <=> f.op = "PAUSE"
    BY <1>1, <1>2, <2>1, <2>2, <2>3 DEF AfterFrames
  <2>5. QED
    BY <1>2, <2>4 DEF v
<1>3. CASE f.priority # p
  <2>1. \A k \in 0..n : (\A j \in (k + 1)..Len(v) : v[j].priority # p)
                           <=> (\A j \in (k + 1)..n : w[j].priority # p)
    BY <1>1, <1>3
  <2>2. ~(v[n + 1].priority = p)
    BY <1>1, <1>3
  <2>a. \A k \in 1..Len(v) : k # n + 1 => k \in 1..n
    BY <1>1
  <2>b. \A k \in 1..n : k \in 1..Len(v) /\ v[k] = w[k] /\ k \in 0..n
    BY <1>1
  <2>c. 0 \in 0..n /\ n = Len(w)
    BY <1>1 DEF n
  <2> DEFINE None(x, k) == \A j \in (k + 1)..Len(x) : x[j].priority # p
             At(x, k) == x[k].priority = p /\ x[k].op = "PAUSE" /\ None(x, k)
  <2>d. \A x : AfterFrames(x, b, p) <=> \/ b /\ None(x, 0)
                                      \/ \E k \in 1..Len(x) : At(x, k)
    BY DEF AfterFrames
  <2>e. \A k \in 0..n : None(v, k) <=> None(w, k)
    BY <2>1, <2>c
  <2>f. \A k \in 1..n : At(v, k) <=> At(w, k)
    BY <2>b, <2>e
  <2>g. ~At(v, n + 1)
    BY <2>2
  <2> HIDE DEF None, At
  <2>3. AfterFrames(v, b, p) <=> AfterFrames(w, b, p)
    BY <2>a, <2>b, <2>c, <2>d, <2>e, <2>f, <2>g
  <2>4. QED
    BY <1>3, <2>3 DEF v
<1>4. QED
  BY <1>2, <1>3

\* A frame that arrives makes the flag what it said.
LEMMA AfterTail ==
  ASSUME NEW w \in Seq(Frame), w # <<>>, NEW b \in BOOLEAN, NEW p \in Priorities
  PROVE  AfterFrames(w, b, p)
             <=> AfterFrames(Tail(w), IF Head(w).priority = p THEN Head(w).op = "PAUSE" ELSE b, p)
<1> DEFINE v == Tail(w)
           n == Len(v)
           f == Head(w)
           c == IF f.priority = p THEN f.op = "PAUSE" ELSE b
<1>1. /\ n \in Nat /\ Len(w) = n + 1
      /\ w[1] = f
      /\ \A k \in 1..n : v[k] = w[k + 1]
  OBVIOUS
<1>2. c \in BOOLEAN
  OBVIOUS
<1> HIDE DEF v, n, f
<1>3. \A k \in 0..n : (\A j \in (k + 1)..n : v[j].priority # p)
                         <=> (\A j \in (k + 2)..(n + 1) : w[j].priority # p)
  <2>1. \A j \in 1..n : v[j].priority = w[j + 1].priority
    BY <1>1
  <2>2. ASSUME NEW k \in 0..n, \A j \in (k + 1)..n : v[j].priority # p
        PROVE  \A j \in (k + 2)..(n + 1) : w[j].priority # p
    <3>1. ASSUME NEW j \in (k + 2)..(n + 1) PROVE w[j].priority # p
      <4>1. j - 1 \in (k + 1)..n /\ j - 1 \in 1..n /\ (j - 1) + 1 = j
        BY <1>1
      <4>2. QED
        BY <2>1, <2>2, <4>1
    <3>2. QED
      BY <3>1
  <2>3. ASSUME NEW k \in 0..n, \A j \in (k + 2)..(n + 1) : w[j].priority # p
        PROVE  \A j \in (k + 1)..n : v[j].priority # p
    <3>1. ASSUME NEW j \in (k + 1)..n PROVE v[j].priority # p
      <4>1. j + 1 \in (k + 2)..(n + 1) /\ j \in 1..n
        BY <1>1
      <4>2. QED
        BY <2>1, <2>3, <4>1
    <3>2. QED
      BY <3>1
  <2>4. QED
    BY <2>2, <2>3
<1> DEFINE LastInW(k) == \A j \in (k + 1)..(n + 1) : w[j].priority # p
           LastInV(k) == \A j \in (k + 1)..n : v[j].priority # p
<1>4. \A k \in 0..n : LastInV(k) <=> LastInW(k + 1)
  <2>1. \A k \in 0..n : (k + 1) + 1 = k + 2
    BY <1>1
  <2>2. QED
    BY <1>3, <2>1
<1>5. LastInW(0) <=> (f.priority # p /\ LastInW(1))
  <2>1. 1..(n + 1) = {1} \cup 2..(n + 1)
    BY <1>1
  <2>2. 0 + 1 = 1 /\ 1 + 1 = 2
    OBVIOUS
  <2>3. QED
    BY <1>1, <2>1, <2>2
<1>6. AfterFrames(w, b, p) <=> \/ LastInW(0) /\ b
                             \/ \E k \in 1..(n + 1) : w[k].priority = p /\ w[k].op = "PAUSE" /\ LastInW(k)
  BY <1>1 DEF AfterFrames
<1>7. AfterFrames(v, c, p) <=> \/ LastInV(0) /\ c
                             \/ \E k \in 1..n : v[k].priority = p /\ v[k].op = "PAUSE" /\ LastInV(k)
  BY DEF AfterFrames, n
<1> HIDE DEF LastInW, LastInV
<1>8. LastInV(0) <=> LastInW(1)
  BY <1>1, <1>4
<1>9. (\E k \in 1..n : v[k].priority = p /\ v[k].op = "PAUSE" /\ LastInV(k))
        <=> (\E k \in 2..(n + 1) : w[k].priority = p /\ w[k].op = "PAUSE" /\ LastInW(k))
  <2>1. ASSUME NEW k \in 1..n, v[k].priority = p /\ v[k].op = "PAUSE" /\ LastInV(k)
        PROVE  \E m \in 2..(n + 1) : w[m].priority = p /\ w[m].op = "PAUSE" /\ LastInW(m)
    <3>1. k + 1 \in 2..(n + 1) /\ k \in 0..n
      BY <1>1
    <3>2. QED
      BY <1>1, <1>4, <2>1, <3>1
  <2>2. ASSUME NEW k \in 2..(n + 1), w[k].priority = p /\ w[k].op = "PAUSE" /\ LastInW(k)
        PROVE  \E m \in 1..n : v[m].priority = p /\ v[m].op = "PAUSE" /\ LastInV(m)
    <3>1. k - 1 \in 1..n /\ k - 1 \in 0..n /\ (k - 1) + 1 = k
      BY <1>1
    <3>2. QED
      BY <1>1, <1>4, <2>2, <3>1
  <2>3. QED
    BY <2>1, <2>2
<1>10. (\E k \in 1..(n + 1) : w[k].priority = p /\ w[k].op = "PAUSE" /\ LastInW(k))
         <=> \/ f.priority = p /\ f.op = "PAUSE" /\ LastInW(1)
             \/ \E k \in 2..(n + 1) : w[k].priority = p /\ w[k].op = "PAUSE" /\ LastInW(k)
  <2>1. 1..(n + 1) = {1} \cup 2..(n + 1)
    BY <1>1
  <2>2. QED
    BY <1>1, <2>1
<1>11. AfterFrames(w, b, p) <=> AfterFrames(v, c, p)
  BY <1>2, <1>5, <1>6, <1>7, <1>8, <1>9, <1>10
<1>12. QED
  BY <1>11 DEF v, f

\* Only operations and priorities matter.
LEMMA AfterSame ==
  ASSUME NEW w \in Seq(Frame), NEW v \in Seq(Frame), Len(v) = Len(w),
         \A k \in 1..Len(w) : v[k].op = w[k].op /\ v[k].priority = w[k].priority,
         NEW b \in BOOLEAN, NEW p \in Priorities
  PROVE  AfterFrames(v, b, p) <=> AfterFrames(w, b, p)
<1>1. Len(w) \in Nat
  OBVIOUS
<1>2. \A k \in 0..Len(w) : (\A j \in (k + 1)..Len(w) : v[j].priority # p)
                              <=> (\A j \in (k + 1)..Len(w) : w[j].priority # p)
  BY <1>1
<1> DEFINE LastInW(k) == \A j \in (k + 1)..Len(w) : w[j].priority # p
           LastInV(k) == \A j \in (k + 1)..Len(w) : v[j].priority # p
<1>3. /\ AfterFrames(w, b, p) <=> \/ LastInW(0) /\ b
                                 \/ \E k \in 1..Len(w) : w[k].priority = p /\ w[k].op = "PAUSE" /\ LastInW(k)
      /\ AfterFrames(v, b, p) <=> \/ LastInV(0) /\ b
                                 \/ \E k \in 1..Len(w) : v[k].priority = p /\ v[k].op = "PAUSE" /\ LastInV(k)
  BY DEF AfterFrames
<1>4. \A k \in 0..Len(w) : LastInV(k) <=> LastInW(k)
  BY <1>2
<1> HIDE DEF LastInW, LastInV
<1>5. LastInV(0) <=> LastInW(0)
  BY <1>1, <1>4
<1>6. \A k \in 1..Len(w) : (v[k].priority = p /\ v[k].op = "PAUSE" /\ LastInV(k))
                              <=> (w[k].priority = p /\ w[k].op = "PAUSE" /\ LastInW(k))
  BY <1>1, <1>4
<1>7. QED
  BY <1>3, <1>5, <1>6

-----------------------------------------------------------------------------
(***************************************************************************)
(* The switch.                                                             *)
(***************************************************************************)
\* What the two properties say of a state n of the switch, when the upstream
\* schedulers hold the flags h.
Agree(n, h) ==
    \A i \in Ifaces, p \in Priorities :
        n.lost[i][p] \/ (AfterFrames(n.pfcWire[i], h[i][p], p) <=> i \in n.sw.paused[p])

Works(n) == \A p \in Priorities : n.sw.queue[p] # <<>> => n.egBusy \/ egStopped

Flags == [Ifaces -> [Priorities -> BOOLEAN]]

\* The commands of a queue whose pauses change are sent or noted as lost.
LEMMA CommandKeeps ==
  ASSUME NEW n \in Switches, NEW h \in Flags, Agree(n, h),
         NEW p \in Priorities, NEW s \in QueueState,
         \A r \in Priorities \ {p} : s.paused[r] = n.sw.paused[r]
  PROVE  /\ processpfccommand(n, s, p) \in Switches
         /\ processpfccommand(n, s, p).sw = s
         /\ processpfccommand(n, s, p).egBusy = n.egBusy
         /\ Agree(processpfccommand(n, s, p), h)
<1> DEFINE told == Commands(n.sw, s, p)
           op(i) == IF i \in s.paused[p] THEN "PAUSE" ELSE "RESUME"
           frame(i) == [op |-> op(i), priority |-> p, overtaken |-> 0]
           macBusy == [i \in Ifaces |-> n.macBusy[i] \/ i \in told]
           pfcWire == [i \in Ifaces |-> IF i \in told /\ ~n.macBusy[i]
                                         THEN Append(n.pfcWire[i], frame(i)) ELSE n.pfcWire[i]]
           lost == [i \in Ifaces |-> IF i \in told THEN [n.lost[i] EXCEPT ![p] = n.macBusy[i]]
                                      ELSE n.lost[i]]
           m == [sw |-> s, egBusy |-> n.egBusy, macBusy |-> macBusy,
                 pfcWire |-> pfcWire, lost |-> lost, dropped |-> n.dropped]
<1>1. processpfccommand(n, s, p) = m
  BY Zenon DEF processpfccommand
<1>2. \A i \in Ifaces : frame(i) \in Frame /\ frame(i).priority = p
                        /\ (frame(i).op = "PAUSE" <=> i \in s.paused[p])
  BY DEF Frame
<1>3. \A i \in Ifaces : i \in told <=> ((i \in n.sw.paused[p]) # (i \in s.paused[p]))
  BY DEF Commands
<1> HIDE DEF told, frame
<1>4. macBusy \in [Ifaces -> BOOLEAN]
  BY PartsOf
<1>5. pfcWire \in [Ifaces -> Seq(Frame)]
  <2>1. \A i \in Ifaces : n.pfcWire[i] \in Seq(Frame)
    BY PartsOf
  <2>2. \A i \in Ifaces : Append(n.pfcWire[i], frame(i)) \in Seq(Frame)
    BY <1>2, <2>1
  <2>3. QED
    BY <2>1, <2>2
<1>6. lost \in [Ifaces -> [Priorities -> BOOLEAN]]
  BY PartsOf
<1>7. m \in Switches
  <2> HIDE DEF macBusy, pfcWire, lost
  <2>1. QED
    BY <1>4, <1>5, <1>6, PartsOf, Assembled
<1>8. ASSUME NEW i \in Ifaces, NEW r \in Priorities
      PROVE  lost[i][r] \/ (AfterFrames(pfcWire[i], h[i][r], r) <=> i \in s.paused[r])
  <2>1. n.lost[i][r] \/ (AfterFrames(n.pfcWire[i], h[i][r], r) <=> i \in n.sw.paused[r])
    BY DEF Agree
  <2>2. h[i][r] \in BOOLEAN /\ n.pfcWire[i] \in Seq(Frame) /\ n.macBusy[i] \in BOOLEAN
        /\ n.lost[i] \in [Priorities -> BOOLEAN]
    BY PartsOf DEF Flags
  <2>3. r # p => s.paused[r] = n.sw.paused[r]
    OBVIOUS
  <2>4. CASE i \notin told
    <3>1. lost[i] = n.lost[i] /\ pfcWire[i] = n.pfcWire[i]
      BY <2>4
    <3>2. i \in s.paused[r] <=> i \in n.sw.paused[r]
      BY <1>3, <2>3, <2>4
    <3>3. QED
      BY <2>1, <3>1, <3>2
  <2>5. CASE i \in told /\ n.macBusy[i]
    <3>1. lost[i] = [n.lost[i] EXCEPT ![p] = n.macBusy[i]] /\ pfcWire[i] = n.pfcWire[i]
      BY <2>5
    <3>2. CASE r = p
      BY <2>2, <2>5, <3>1, <3>2
    <3>3. CASE r # p
      <4>1. lost[i][r] = n.lost[i][r]
        BY <2>2, <3>1, <3>3
      <4>2. QED
        BY <2>1, <2>3, <3>1, <3>3, <4>1
    <3>4. QED
      BY <3>2, <3>3
  <2>6. CASE i \in told /\ ~n.macBusy[i]
    <3>1. lost[i] = [n.lost[i] EXCEPT ![p] = n.macBusy[i]]
          /\ pfcWire[i] = Append(n.pfcWire[i], frame(i))
      BY <2>6
    <3>2. AfterFrames(pfcWire[i], h[i][r], r)
             <=> IF frame(i).priority = r THEN frame(i).op = "PAUSE"
                 ELSE AfterFrames(n.pfcWire[i], h[i][r], r)
      BY <1>2, <2>2, <3>1, AfterAppend
    <3>3. CASE r = p
      BY <1>2, <3>2, <3>3
    <3>4. CASE r # p
      <4>1. lost[i][r] = n.lost[i][r]
        BY <2>2, <3>1, <3>4
      <4>2. QED
        BY <1>2, <2>1, <2>3, <3>2, <3>4, <4>1
    <3>5. QED
      BY <3>3, <3>4
  <2>7. QED
    BY <2>4, <2>5, <2>6
<1>9. m.sw = s /\ m.egBusy = n.egBusy /\ m.pfcWire = pfcWire /\ m.lost = lost
  OBVIOUS
<1> HIDE DEF m, pfcWire, lost
<1>10. Agree(m, h)
  BY <1>8, <1>9 DEF Agree
<1>11. QED
  BY <1>1, <1>7, <1>9, <1>10

\* The egress MAC takes the next packet, or is idle as there is none.
LEMMA DequeuedKeeps ==
  ASSUME NEW n \in Switches, NEW h \in Flags, Agree(n, h)
  PROVE  Dequeued(n) \in Switches /\ Agree(Dequeued(n), h) /\ Works(Dequeued(n))
<1> DEFINE full == {p \in Priorities : n.sw.queue[p] # <<>>}
           first == CHOOSE x \in full : \A y \in full : x <= y
           s == Q!Pulled(n.sw, first, FALSE)
           m == processpfccommand(n, s, first)
<1>1. CASE full = {}
  <2>1. Dequeued(n) = [n EXCEPT !.egBusy = FALSE]
    BY <1>1, Zenon DEF Dequeued
  <2> DEFINE e == [n EXCEPT !.egBusy = FALSE]
  <2>2. e \in Switches /\ e.sw = n.sw /\ e.pfcWire = n.pfcWire /\ e.lost = n.lost
    BY EgBusyChanged
  <2> HIDE DEF e
  <2>3. Agree(e, h)
    BY <2>2 DEF Agree
  <2>4. Works(e)
    BY <1>1, <2>2 DEF Works
  <2>5. QED
    BY <2>1, <2>2, <2>3, <2>4 DEF e
<1>2. CASE full # {}
  <2>1. Dequeued(n) = [m EXCEPT !.egBusy = ~egStopped]
    BY <1>2, Zenon DEF Dequeued
  <2>2. first \in Priorities /\ n.sw.queue[first] # <<>>
    <3>1. full \in SUBSET Nat
      BY Parameters DEF Priorities
    <3>2. \E x \in full : \A y \in full : x <= y
      <4> HIDE DEF full
      <4>1. QED
        BY <1>2, <3>1, LeastNat
    <3>3. first \in full
      BY <3>2
    <3>4. QED
      BY <3>3
  <2> HIDE DEF first
  <2>3. n.sw \in QueueState
    BY PartsOf
  <2>4. s \in QueueState /\ \A r \in Priorities \ {first} : s.paused[r] = n.sw.paused[r]
    BY <2>2, <2>3, PulledType
  <2> HIDE DEF s
  <2>5. m \in Switches /\ Agree(m, h)
    BY <2>2, <2>4, CommandKeeps
  <2> HIDE DEF m
  <2> DEFINE e == [m EXCEPT !.egBusy = ~egStopped]
  <2>6. e \in Switches /\ e.egBusy = ~egStopped /\ e.sw = m.sw /\ e.pfcWire = m.pfcWire
        /\ e.lost = m.lost
    BY <2>5, EgBusyChanged
  <2> HIDE DEF e
  <2>7. Agree(e, h)
    BY <2>5, <2>6 DEF Agree
  <2>8. Works(e)
    BY <2>6 DEF Works
  <2>9. QED
    BY <2>1, <2>6, <2>7, <2>8 DEF e
<1>3. QED
  BY <1>1, <1>2

\* A push wakes the egress MAC, or finds it at work.
LEMMA PushKeeps ==
  ASSUME NEW n \in Switches, NEW h \in Flags, Agree(n, h),
         NEW i \in Ifaces, NEW p \in Priorities,
         NEW s \in QueueState, s.paused = n.sw.paused,
         NEW m, m = handleCanPullPacketChanged(
                       processpfccommand(n, Q!Pushed(s, p, PacketOf(i)), p))
  PROVE  m \in Switches /\ Agree(m, h) /\ Works(m)
<1> DEFINE t == Q!Pushed(s, p, PacketOf(i))
           k == processpfccommand(n, t, p)
<1>1. t \in QueueState /\ \A r \in Priorities \ {p} : t.paused[r] = n.sw.paused[r]
  BY PushedType
<1> HIDE DEF t
<1>2. k \in Switches /\ Agree(k, h)
  BY <1>1, CommandKeeps
<1>3. m = handleCanPullPacketChanged(k)
  BY DEF t
<1> HIDE DEF k
<1>4. CASE k.egBusy
  BY <1>2, <1>3, <1>4 DEF handleCanPullPacketChanged, Works
<1>5. CASE ~k.egBusy
  BY <1>2, <1>3, <1>5, DequeuedKeeps DEF handleCanPullPacketChanged
<1>6. QED
  BY <1>4, <1>5

LEMMA ArrivedKeeps ==
  ASSUME NEW n \in Switches, NEW h \in Flags, Agree(n, h), Works(n),
         NEW i \in Ifaces, NEW p \in Priorities, NEW m \in Arrived(n, i, p)
  PROVE  m \in Switches /\ Agree(m, h) /\ Works(m)
<1>1. n.sw \in QueueState
  BY PartsOf
<1>2. \/ m = [n EXCEPT !.dropped = @ \cup {p}]
      \/ m = handleCanPullPacketChanged(
                processpfccommand(n, Q!Pushed(n.sw, p, PacketOf(i)), p))
      \/ m = handleCanPullPacketChanged(
                processpfccommand(n, Q!Pushed(Q!Charged(n.sw, PacketOf(i)), p, PacketOf(i)), p))
  <2>1. Q!BufferManagement(n.sw, p, PacketOf(i)) \subseteq {"drop", "free", "charge"}
    BY DEF Q!BufferManagement
  <2> DEFINE pushed(s) == handleCanPullPacketChanged(
                             processpfccommand(n, Q!Pushed(s, p, PacketOf(i)), p))
  <2>2. PICK outcome \in Q!BufferManagement(n.sw, p, PacketOf(i)) :
           m = CASE outcome = "drop"   -> [n EXCEPT !.dropped = @ \cup {p}]
                 [] outcome = "free"   -> pushed(n.sw)
                 [] outcome = "charge" -> pushed(Q!Charged(n.sw, PacketOf(i)))
    BY Zenon DEF Arrived
  <2> HIDE DEF pushed
  <2>3. \/ m = [n EXCEPT !.dropped = @ \cup {p}]
        \/ m = pushed(n.sw)
        \/ m = pushed(Q!Charged(n.sw, PacketOf(i)))
    BY <2>1, <2>2
  <2>4. QED
    BY <2>3 DEF pushed
<1>3. CASE m = [n EXCEPT !.dropped = @ \cup {p}]
  BY <1>3, DroppedChanged DEF Agree, Works
<1>4. CASE m = handleCanPullPacketChanged(
                processpfccommand(n, Q!Pushed(n.sw, p, PacketOf(i)), p))
  BY <1>1, <1>4, PushKeeps
<1>5. CASE m = handleCanPullPacketChanged(
                processpfccommand(n, Q!Pushed(Q!Charged(n.sw, PacketOf(i)), p, PacketOf(i)), p))
  BY <1>1, <1>5, ChargedType, PushKeeps
<1>6. QED
  BY <1>2, <1>3, <1>4, <1>5

-----------------------------------------------------------------------------
(***************************************************************************)
(* The headroom.  An upstream port i can still put a number of packets of  *)
(* priority p into the queue before a PAUSE stops it: those on the wire    *)
(* and those it starts while the PAUSE is under way.  Enough grants each   *)
(* port a budget for them: the most there can be while it is not paused,   *)
(* and from then on at least what it covers.  The queue, the budgets and   *)
(* XOFF are in proportion, and so a queue beyond dataCapacity has spent    *)
(* more than there was.                                                    *)
(***************************************************************************)
\* The most packets of one priority that a port sends before it is stopped.
MostUnderWay == WireFrames + PfcDelay

Slots == Ifaces \X (1..MostUnderWay)

Budgets == [Ifaces -> 0..MostUnderWay]

\* The packets that budgets b grant.
Granted(b) == {s \in Slots : s[2] <= b[s[1]]}

\* Port i holds back nothing of what it was granted but one packet.
Spend(b, i) == [b EXCEPT ![i] = @ - 1]

\* A port with data frames w and PFC frames u under way, whose last frame for
\* p is a PAUSE, sends at most c more packets of priority p.
Covers(w, u, p, c) ==
    /\ Copies(w, p) <= c
    /\ \A k \in 1..Len(u) :
          u[k].priority = p => Copies(w, p) + PfcDelay - u[k].overtaken <= c

Enough(n, w, p, b) ==
    /\ \A i \in Ifaces : IF i \in n.sw.paused[p] THEN Covers(w[i], n.pfcWire[i], p, b[i])
                         ELSE b[i] = MostUnderWay
    /\ Len(n.sw.queue[p]) + Cardinality(Granted(b)) <= XOFF - 1 + Cardinality(Slots)

PauseLost(n, p) == \E i \in n.sw.paused[p] : n.lost[i][p]

\* The room there is for priority p when the wires carry w.
Roomy(n, w, p) == PauseLost(n, p) \/ \E b \in Budgets : Enough(n, w, p, b)

LEMMA SlotsCounted ==
  ASSUME IsFiniteSet(Ifaces)
  PROVE  /\ MostUnderWay \in Nat
         /\ IsFiniteSet(Slots)
         /\ Cardinality(Slots) = Cardinality(Ifaces) * MostUnderWay
         /\ Cardinality(Slots) \in Nat
<1>1. MostUnderWay \in Nat
  BY PfcLinkAssumption DEF MostUnderWay
<1>2. /\ IsFiniteSet(1..MostUnderWay)
      /\ Cardinality(1..MostUnderWay) = IF 1 > MostUnderWay THEN 0 ELSE MostUnderWay - 1 + 1
  <2>1. 1 \in Int /\ MostUnderWay \in Int
    BY <1>1
  <2>2. QED
    BY <2>1, FS_Interval
<1>3. Cardinality(1..MostUnderWay) = MostUnderWay
  BY <1>1, <1>2
<1>4. /\ IsFiniteSet(Slots)
      /\ Cardinality(Slots) = Cardinality(Ifaces) * Cardinality(1..MostUnderWay)
  BY <1>2, FS_Product DEF Slots
<1>5. Cardinality(Slots) \in Nat
  BY <1>4, FS_CardinalityType
<1>6. QED
  BY <1>1, <1>3, <1>4, <1>5

\* No more is granted than there are slots, and all of them in the beginning.
LEMMA GrantedCounted ==
  ASSUME IsFiniteSet(Ifaces), NEW b \in Budgets
  PROVE  /\ IsFiniteSet(Granted(b))
         /\ Cardinality(Granted(b)) \in Nat
         /\ Cardinality(Granted(b)) <= Cardinality(Slots)
<1>1. IsFiniteSet(Slots)
  BY SlotsCounted
<1>2. Granted(b) \in SUBSET Slots
  BY DEF Granted
<1>3. QED
  BY <1>1, <1>2, FS_Subset, FS_CardinalityType

\* A packet that is spent leaves one less.
LEMMA SpendCounted ==
  ASSUME IsFiniteSet(Ifaces), NEW b \in Budgets, NEW i \in Ifaces, b[i] >= 1
  PROVE  /\ Spend(b, i) \in Budgets
         /\ Spend(b, i)[i] = b[i] - 1
         /\ \A j \in Ifaces \ {i} : Spend(b, i)[j] = b[j]
         /\ Cardinality(Granted(Spend(b, i))) = Cardinality(Granted(b)) - 1
         /\ Cardinality(Granted(b)) >= 1
<1> DEFINE a == Spend(b, i)
<1>1. MostUnderWay \in Nat
  BY SlotsCounted
<1>2. b[i] \in 0..MostUnderWay /\ b[i] - 1 \in 0..MostUnderWay /\ b[i] \in 1..MostUnderWay
  BY <1>1 DEF Budgets
<1>3. /\ a \in Budgets /\ a[i] = b[i] - 1
      /\ \A j \in Ifaces \ {i} : a[j] = b[j]
  BY <1>2 DEF Budgets, Spend
<1> HIDE DEF a
<1>4. <<i, b[i]>> \in Granted(b)
  BY <1>1, <1>2 DEF Granted, Slots
<1>5. Granted(a) = Granted(b) \ {<<i, b[i]>>}
  <2>1. ASSUME NEW s \in Slots
        PROVE  s[2] <= a[s[1]] <=> s[2] <= b[s[1]] /\ s # <<i, b[i]>>
    <3>1. /\ s = <<s[1], s[2]>> /\ s[1] \in Ifaces /\ s[2] \in 1..MostUnderWay
      BY DEF Slots
    <3>2. b[s[1]] \in 0..MostUnderWay
      BY <3>1 DEF Budgets
    <3>3. CASE s[1] = i
      <4>1. a[s[1]] = b[i] - 1
        BY <1>3, <3>3
      <4>2. s # <<i, b[i]>> <=> s[2] # b[i]
        BY <3>1, <3>3
      <4>3. s[2] <= b[i] - 1 <=> s[2] <= b[i] /\ s[2] # b[i]
        BY <1>1, <1>2, <3>1
      <4>4. QED
        BY <3>3, <4>1, <4>2, <4>3
    <3>4. CASE s[1] # i
      <4>1. a[s[1]] = b[s[1]] /\ s # <<i, b[i]>>
        BY <1>3, <3>1, <3>4
      <4>2. QED
        BY <4>1
    <3>5. QED
      BY <3>3, <3>4
  <2>2. QED
    BY <2>1 DEF Granted
<1>6. IsFiniteSet(Granted(b)) /\ Cardinality(Granted(b)) \in Nat
  BY GrantedCounted
<1>7. Cardinality(Granted(a)) = Cardinality(Granted(b)) - 1
  <2> DEFINE G == Granted(b)
             e == <<i, b[i]>>
  <2>1. IsFiniteSet(G) /\ e \in G /\ Granted(a) = G \ {e}
    BY <1>4, <1>5, <1>6
  <2> HIDE DEF G, e
  <2>2. Cardinality(G \ {e}) = IF e \in G THEN Cardinality(G) - 1 ELSE Cardinality(G)
    BY <2>1, FS_RemoveElement
  <2>3. Cardinality(Granted(a)) = Cardinality(G) - 1
    BY <2>1, <2>2
  <2>4. QED
    BY <2>3 DEF G
<1>8. Cardinality(Granted(a)) \in Nat
  BY <1>3, GrantedCounted
<1>9. QED
  BY <1>3, <1>6, <1>7, <1>8 DEF a

\* Budgets that are all full grant no more than the slots, whatever the queue.
LEMMA FullBudgets ==
  ASSUME IsFiniteSet(Ifaces)
  PROVE  [i \in Ifaces |-> MostUnderWay] \in Budgets
<1>1. MostUnderWay \in Nat
  BY SlotsCounted
<1>2. QED
  BY <1>1 DEF Budgets

-----------------------------------------------------------------------------
(***************************************************************************)
(* What a port's budget covers, as frames start and arrive.                *)
(***************************************************************************)
LEMMA FramesAge ==
  ASSUME NEW u \in Seq(Frame)
  PROVE  \A k \in 1..Len(u) : u[k].overtaken \in Nat
<1>1. \A k \in 1..Len(u) : u[k] \in Frame
  OBVIOUS
<1>2. \A f \in Frame : f.overtaken \in Nat
  BY DEF Frame
<1>3. QED
  BY <1>1, <1>2

\* A data frame arrives: the budget still covers the rest, and when the packet
\* is one of priority p, one packet less does.
LEMMA CoversDataArrival ==
  ASSUME NEW w \in Seq(Priorities), w # <<>>, NEW u \in Seq(Frame), NEW p \in Priorities,
         NEW c \in Nat, Covers(w, u, p, c)
  PROVE  /\ Covers(Tail(w), u, p, c)
         /\ Head(w) = p => c >= 1 /\ Covers(Tail(w), u, p, c - 1)
<1>1. /\ Copies(w, p) = Copies(Tail(w), p) + (IF Head(w) = p THEN 1 ELSE 0)
      /\ Copies(w, p) \in Nat
  BY CopiesOfTail, PlacesFinite
<1>2. Copies(Tail(w), p) \in Nat
  <2>1. Tail(w) \in Seq(Priorities)
    OBVIOUS
  <2>2. QED
    BY <2>1, PlacesFinite
<1>3. \A k \in 1..Len(u) : u[k].overtaken \in Nat
  BY FramesAge
<1>4. PfcDelay \in Nat
  BY PfcLinkAssumption
<1> DEFINE m == Copies(w, p)
           t == Copies(Tail(w), p)
<1>5. /\ m <= c
      /\ \A k \in 1..Len(u) : u[k].priority = p => m + PfcDelay - u[k].overtaken <= c
  BY DEF Covers
<1> HIDE DEF m, t
<1>6. m \in Nat /\ t \in Nat /\ t <= m /\ (Head(w) = p => m = t + 1)
  BY <1>1, <1>2 DEF m, t
<1>7. /\ t <= c
      /\ \A k \in 1..Len(u) : u[k].priority = p => t + PfcDelay - u[k].overtaken <= c
  BY <1>3, <1>4, <1>5, <1>6
<1>8. ASSUME Head(w) = p
      PROVE  /\ c >= 1 /\ t <= c - 1
             /\ \A k \in 1..Len(u) : u[k].priority = p => t + PfcDelay - u[k].overtaken <= c - 1
  BY <1>3, <1>4, <1>5, <1>6, <1>8
<1>9. QED
  BY <1>7, <1>8 DEF Covers, t

\* A PFC frame for another priority is sent.
LEMMA CoversOtherFrame ==
  ASSUME NEW w, NEW u \in Seq(Frame), NEW f \in Frame, NEW p \in Priorities, f.priority # p,
         NEW c, Covers(w, u, p, c)
  PROVE  Covers(w, Append(u, f), p, c)
<1> DEFINE v == Append(u, f)
           n == Len(u)
<1>1. n \in Nat /\ Len(v) = n + 1 /\ v[n + 1] = f /\ \A k \in 1..n : v[k] = u[k]
  OBVIOUS
<1> HIDE DEF v
<1>2. \A k \in 1..Len(v) : v[k].priority = p => k \in 1..n
  BY <1>1
<1>3. Covers(w, v, p, c)
  BY <1>1, <1>2 DEF Covers
<1>4. QED
  BY <1>3 DEF v

\* A PFC frame arrives.
LEMMA CoversPfcArrival ==
  ASSUME NEW w, NEW u \in Seq(Frame), u # <<>>, NEW p \in Priorities,
         NEW c, Covers(w, u, p, c)
  PROVE  Covers(w, Tail(u), p, c)
<1> DEFINE v == Tail(u)
           n == Len(v)
<1>1. n \in Nat /\ Len(u) = n + 1 /\ \A k \in 1..n : v[k] = u[k + 1]
  OBVIOUS
<1> HIDE DEF v, n
<1>2. \A k \in 1..n : k + 1 \in 1..Len(u)
  BY <1>1
<1>3. Covers(w, v, p, c)
  BY <1>1, <1>2 DEF Covers, n
<1>4. QED
  BY <1>3 DEF v

\* The port starts a frame of priority q, which overtakes the PFC frames under
\* way: when q is p, the PAUSE is among them.
LEMMA CoversStart ==
  ASSUME NEW w \in Seq(Priorities), NEW q \in Priorities, NEW u \in Seq(Frame), NEW v \in Seq(Frame),
         NEW p \in Priorities, NEW c \in Nat, Covers(w, u, p, c),
         Len(v) = Len(u),
         \A k \in 1..Len(u) : /\ v[k].priority = u[k].priority
                              /\ v[k].overtaken = u[k].overtaken + 1
                              /\ u[k].overtaken < PfcDelay,
         q = p => \E k \in 1..Len(u) : u[k].priority = p
  PROVE  Covers(Append(w, q), v, p, c)
<1> DEFINE m == Copies(w, p)
           t == Copies(Append(w, q), p)
<1>1. m \in Nat /\ t = m + (IF q = p THEN 1 ELSE 0)
  BY CopiesAppended, PlacesFinite
<1>2. /\ m <= c
      /\ \A k \in 1..Len(u) : u[k].priority = p => m + PfcDelay - u[k].overtaken <= c
  BY DEF Covers
<1> HIDE DEF m, t
<1>3. \A k \in 1..Len(u) : u[k].overtaken \in Nat
  BY FramesAge
<1>4. PfcDelay \in Nat
  BY PfcLinkAssumption
<1>5. t <= c
  <2>1. CASE q # p
    BY <1>1, <1>2, <2>1
  <2>2. CASE q = p
    <3>1. PICK k \in 1..Len(u) : u[k].priority = p
      BY <2>2
    <3>2. m + PfcDelay - u[k].overtaken <= c /\ u[k].overtaken < PfcDelay /\ u[k].overtaken \in Nat
      BY <1>2, <1>3, <3>1
    <3>3. QED
      BY <1>1, <1>4, <2>2, <3>2
  <2>3. QED
    BY <2>1, <2>2
<1>6. ASSUME NEW k \in 1..Len(v), v[k].priority = p
      PROVE  t + PfcDelay - v[k].overtaken <= c
  <2>1. k \in 1..Len(u) /\ u[k].priority = p /\ v[k].overtaken = u[k].overtaken + 1
    BY <1>6
  <2>2. m + PfcDelay - u[k].overtaken <= c /\ u[k].overtaken \in Nat
    BY <1>2, <1>3, <2>1
  <2>3. t <= m + 1 /\ t \in Nat
    BY <1>1
  <2> DEFINE o == u[k].overtaken
             y == v[k].overtaken
  <2>4. y = o + 1 /\ m + PfcDelay - o <= c /\ o \in Nat
    BY <2>1, <2>2
  <2> HIDE DEF o, y
  <2>5. t + PfcDelay - y <= c
    BY <1>1, <1>4, <2>3, <2>4
  <2>6. QED
    BY <2>5 DEF y
<1>7. QED
  BY <1>5, <1>6 DEF Covers, t

\* A full budget that has spent one packet covers whatever is under way.
LEMMA CoversFull ==
  ASSUME NEW w \in Seq(Priorities), Len(w) + 1 <= WireFrames, NEW u \in Seq(Frame),
         NEW p \in Priorities
  PROVE  Covers(w, u, p, MostUnderWay - 1)
<1> DEFINE m == Copies(w, p)
<1>1. m \in Nat /\ m <= Len(w) /\ Len(w) \in Nat
  BY PlacesFinite, CopiesFit
<1> HIDE DEF m
<1>2. WireFrames \in Nat /\ PfcDelay \in Nat
  BY PfcLinkAssumption
<1>3. \A k \in 1..Len(u) : u[k].overtaken \in Nat
  BY FramesAge
<1>4. m <= WireFrames + PfcDelay - 1
  BY <1>1, <1>2
<1>5. \A k \in 1..Len(u) : m + PfcDelay - u[k].overtaken <= WireFrames + PfcDelay - 1
  BY <1>1, <1>2, <1>3
<1> DEFINE c == WireFrames + PfcDelay - 1
<1>6. /\ m <= c
      /\ \A k \in 1..Len(u) : u[k].priority = p => m + PfcDelay - u[k].overtaken <= c
  BY <1>4, <1>5
<1> HIDE DEF c
<1>7. Covers(w, u, p, c)
  BY <1>6 DEF Covers, m
<1>8. MostUnderWay - 1 = c
  BY <1>2 DEF c, MostUnderWay
<1>9. QED
  BY <1>7, <1>8, Zenon

-----------------------------------------------------------------------------
(***************************************************************************)
(* The room for each priority, as the switch handles a packet.             *)
(***************************************************************************)
Wires == [Ifaces -> Seq(Priorities)]

WiresFit(w) == \A i \in Ifaces : Len(w[i]) <= WireFrames

Room(n, w) == \A p \in Priorities : Roomy(n, w, p)

\* Every packet counts as one.
LEMMA UnitLength ==
  ASSUME NEW s \in Seq(PacketsOf)
  PROVE  Q!Length(s) = Len(s) /\ Len(s) \in Nat
<1>1. \A x \in PacketsOf : x.len = 1
  BY DEF PacketsOf
<1>2. Length(s) = Len(s)
  BY <1>1, LengthOfUnits
<1>3. QED
  BY <1>2, QueueLength

\* A push adds a packet to its queue, and either asks the port it came from to
\* pause or leaves the queue below XOFF.
LEMMA PushedParts ==
  ASSUME NEW s \in QueueState, NEW p \in Priorities, NEW i \in Ifaces,
         NEW t, t = Q!Pushed(s, p, PacketOf(i))
  PROVE  /\ Len(t.queue[p]) = Len(s.queue[p]) + 1
         /\ \A r \in Priorities \ {p} : t.queue[r] = s.queue[r]
         /\ \/ t.paused[p] = s.paused[p] \cup {i}
            \/ t.paused[p] = s.paused[p] /\ Len(t.queue[p]) < XOFF
<1> DEFINE longer == Append(s.queue[p], PacketOf(i))
           asked == IF TRUE /\ Q!PauseDue(Q!Length(longer), s.shared)
                    THEN s.paused[p] \cup {PacketOf(i).iface} ELSE s.paused[p]
           queue == [s.queue EXCEPT ![p] = longer]
           paused == [s.paused EXCEPT ![p] = asked]
<1>1. /\ s.queue \in [Priorities -> Seq(PacketsOf)]
      /\ s.paused \in [Priorities -> SUBSET Ifaces]
  BY DEF QueueState
<1>2. t = [shared |-> s.shared, queue |-> queue, paused |-> paused, markNext |-> s.markNext]
  BY Zenon DEF Q!Pushed
<1>3. PacketOf(i) \in PacketsOf /\ PacketOf(i).iface = i
  BY DEF PacketOf, PacketsOf
<1>4. longer \in Seq(PacketsOf) /\ Len(longer) = Len(s.queue[p]) + 1
  BY <1>1, <1>3
<1>5. Q!Length(longer) = Len(longer) /\ Len(longer) \in Nat
  BY <1>4, UnitLength
<1> HIDE DEF longer
<1>6. \/ asked = s.paused[p] \cup {i}
      \/ asked = s.paused[p] /\ Len(longer) < XOFF
  BY <1>3, <1>5, Parameters DEF Q!PauseDue
<1> HIDE DEF asked
<1>7. /\ queue[p] = longer
      /\ paused[p] = asked
      /\ \A r \in Priorities \ {p} : queue[r] = s.queue[r]
  BY <1>1
<1> HIDE DEF queue, paused
<1>8. t.queue = queue /\ t.paused = paused
  BY <1>2
<1>9. QED
  BY <1>4, <1>6, <1>7, <1>8

\* A pull takes a packet from its queue; a queue that lets ports go has fallen
\* to XON.
LEMMA PulledParts ==
  ASSUME NEW s \in QueueState, NEW p \in Priorities, s.queue[p] # <<>>
  PROVE  /\ Len(Q!Pulled(s, p, FALSE).queue[p]) = Len(s.queue[p]) - 1
         /\ \A r \in Priorities \ {p} : Q!Pulled(s, p, FALSE).queue[r] = s.queue[r]
         /\ \/ Q!Pulled(s, p, FALSE).paused[p] = {} /\ Len(Q!Pulled(s, p, FALSE).queue[p]) <= XON
            \/ Q!Pulled(s, p, FALSE).paused[p] = s.paused[p]
<1> DEFINE rest == Tail(s.queue[p])
           free == s.shared + Q!Release(s, p)
           asked == IF TRUE /\ Q!ResumeDue(Q!Length(rest), free) THEN {} ELSE s.paused[p]
           mark == Q!Marked(FALSE, Head(s.queue[p]).ecn, s.markNext[p])
           queue == [s.queue EXCEPT ![p] = rest]
           paused == [s.paused EXCEPT ![p] = asked]
           markNext == [s.markNext EXCEPT ![p] = mark.next]
           t == [shared |-> free, queue |-> queue, paused |-> paused, markNext |-> markNext]
<1>1. /\ s.queue \in [Priorities -> Seq(PacketsOf)]
      /\ s.paused \in [Priorities -> SUBSET Ifaces]
  BY DEF QueueState
<1>2. Q!Pulled(s, p, FALSE) = t
  BY Zenon DEF Q!Pulled
<1>3. t.queue = queue /\ t.paused = paused
  OBVIOUS
<1> HIDE DEF t
<1>4. rest \in Seq(PacketsOf) /\ Len(rest) = Len(s.queue[p]) - 1
  BY <1>1
<1>5. Q!Length(rest) = Len(rest) /\ Len(rest) \in Nat
  BY <1>4, UnitLength
<1> HIDE DEF rest, free, mark
<1>6. \/ asked = {} /\ Len(rest) <= XON
      \/ asked = s.paused[p]
  BY <1>5, Parameters DEF Q!ResumeDue
<1> HIDE DEF asked
<1>7. /\ queue[p] = rest
      /\ paused[p] = asked
      /\ \A r \in Priorities \ {p} : queue[r] = s.queue[r]
  BY <1>1
<1> HIDE DEF queue, paused, markNext
<1>8. /\ Len(t.queue[p]) = Len(s.queue[p]) - 1
      /\ \A r \in Priorities \ {p} : t.queue[r] = s.queue[r]
      /\ \/ t.paused[p] = {} /\ Len(t.queue[p]) <= XON
         \/ t.paused[p] = s.paused[p]
  BY <1>4, <1>6, <1>7, <1>3
<1>9. QED
  BY <1>2, <1>8, Zenon

LEMMA QueueLens ==
  ASSUME NEW s \in QueueState, NEW p \in Priorities
  PROVE  Len(s.queue[p]) \in Nat /\ s.paused[p] \in SUBSET Ifaces
BY DEF QueueState

\* What a command changes: the losses and the frames of its own priority.
LEMMA CommandParts ==
  ASSUME NEW n \in Switches, NEW p \in Priorities, NEW s \in QueueState,
         NEW m, m = processpfccommand(n, s, p)
  PROVE  /\ m.sw = s
         /\ \A i \in Ifaces, r \in Priorities \ {p} : m.lost[i][r] = n.lost[i][r]
         /\ \A i \in Ifaces : \/ m.pfcWire[i] = n.pfcWire[i]
                              \/ \E f \in Frame : /\ f.priority = p
                                                  /\ m.pfcWire[i] = Append(n.pfcWire[i], f)
         /\ \A i \in Ifaces : (i \in n.sw.paused[p] <=> i \in s.paused[p])
                                => m.pfcWire[i] = n.pfcWire[i] /\ m.lost[i] = n.lost[i]
<1> DEFINE told == Commands(n.sw, s, p)
           op(i) == IF i \in s.paused[p] THEN "PAUSE" ELSE "RESUME"
           frame(i) == [op |-> op(i), priority |-> p, overtaken |-> 0]
           macBusy == [i \in Ifaces |-> n.macBusy[i] \/ i \in told]
           pfcWire == [i \in Ifaces |-> IF i \in told /\ ~n.macBusy[i]
                                         THEN Append(n.pfcWire[i], frame(i)) ELSE n.pfcWire[i]]
           lost == [i \in Ifaces |-> IF i \in told THEN [n.lost[i] EXCEPT ![p] = n.macBusy[i]]
                                      ELSE n.lost[i]]
<1>1. m = [sw |-> s, egBusy |-> n.egBusy, macBusy |-> macBusy,
           pfcWire |-> pfcWire, lost |-> lost, dropped |-> n.dropped]
  BY Zenon DEF processpfccommand
<1>2. \A i \in Ifaces : frame(i) \in Frame /\ frame(i).priority = p
  BY DEF Frame
<1>3. \A i \in Ifaces : i \in told <=> ~(i \in n.sw.paused[p] <=> i \in s.paused[p])
  BY DEF Commands
<1> HIDE DEF told, frame
<1>4. \A i \in Ifaces : n.lost[i] \in [Priorities -> BOOLEAN]
  BY PartsOf
<1>5. \A i \in Ifaces, r \in Priorities \ {p} : lost[i][r] = n.lost[i][r]
  BY <1>4
<1>6. \A i \in Ifaces : i \notin told => pfcWire[i] = n.pfcWire[i] /\ lost[i] = n.lost[i]
  OBVIOUS
<1>7. \A i \in Ifaces : \/ pfcWire[i] = n.pfcWire[i]
                        \/ \E f \in Frame : f.priority = p /\ pfcWire[i] = Append(n.pfcWire[i], f)
  BY <1>2
<1> HIDE DEF pfcWire, lost, macBusy
<1>8. m.sw = s /\ m.pfcWire = pfcWire /\ m.lost = lost
  BY <1>1
<1>9. QED
  BY <1>3, <1>5, <1>6, <1>7, <1>8

\* Room stays while the queue does not grow, the same ports are paused, and
\* what covered a port's frames still does.
LEMMA RoomyKept ==
  ASSUME IsFiniteSet(Ifaces),
         NEW n, NEW m, NEW w, NEW v, NEW p \in Priorities,
         n.sw.paused[p] \in SUBSET Ifaces,
         m.sw.paused[p] = n.sw.paused[p],
         Len(m.sw.queue[p]) \in Nat, Len(n.sw.queue[p]) \in Nat,
         Len(m.sw.queue[p]) <= Len(n.sw.queue[p]),
         \A i \in n.sw.paused[p] :
            /\ n.lost[i][p] => m.lost[i][p]
            /\ ~n.lost[i][p] =>
                 \A c \in Nat : Covers(w[i], n.pfcWire[i], p, c) => Covers(v[i], m.pfcWire[i], p, c),
         Roomy(n, w, p)
  PROVE  Roomy(m, v, p)
<1>1. CASE PauseLost(n, p)
  <2>1. PauseLost(m, p)
    BY <1>1 DEF PauseLost
  <2>2. QED
    BY <2>1 DEF Roomy
<1>2. CASE ~PauseLost(n, p)
  <2>1. PICK b \in Budgets : Enough(n, w, p, b)
    BY <1>2 DEF Roomy
  <2>2. \A i \in Ifaces : b[i] \in Nat
    BY SlotsCounted DEF Budgets
  <2>3. ASSUME NEW i \in Ifaces
        PROVE  IF i \in m.sw.paused[p] THEN Covers(v[i], m.pfcWire[i], p, b[i])
               ELSE b[i] = MostUnderWay
    <3>1. IF i \in n.sw.paused[p] THEN Covers(w[i], n.pfcWire[i], p, b[i])
          ELSE b[i] = MostUnderWay
      BY <2>1 DEF Enough
    <3>2. i \in n.sw.paused[p] => ~n.lost[i][p]
      BY <1>2 DEF PauseLost
    <3>3. CASE i \in n.sw.paused[p]
      <4>1. Covers(w[i], n.pfcWire[i], p, b[i]) /\ b[i] \in Nat /\ ~n.lost[i][p]
        BY <2>2, <3>1, <3>2, <3>3
      <4>2. Covers(v[i], m.pfcWire[i], p, b[i])
        BY <3>3, <4>1
      <4>3. QED
        BY <3>3, <4>2
    <3>4. CASE i \notin n.sw.paused[p]
      BY <3>1, <3>4
    <3>5. QED
      BY <3>3, <3>4
  <2>4. Len(m.sw.queue[p]) + Cardinality(Granted(b)) <= XOFF - 1 + Cardinality(Slots)
    <3>1. Len(n.sw.queue[p]) + Cardinality(Granted(b)) <= XOFF - 1 + Cardinality(Slots)
      BY <2>1 DEF Enough
    <3>2. Cardinality(Granted(b)) \in Nat /\ Cardinality(Slots) \in Nat /\ XOFF \in Int
      BY GrantedCounted, SlotsCounted, Parameters
    <3> DEFINE g == Cardinality(Granted(b))
               z == Cardinality(Slots)
               x == Len(n.sw.queue[p])
               y == Len(m.sw.queue[p])
    <3>3. x + g <= XOFF - 1 + z /\ y <= x /\ x \in Nat /\ y \in Nat /\ g \in Nat /\ z \in Nat
      BY <3>1, <3>2
    <3> HIDE DEF g, z, x, y
    <3>4. y + g <= XOFF - 1 + z
      BY <3>2, <3>3
    <3>5. QED
      BY <3>4 DEF g, z, y
  <2>5. QED
    BY <2>3, <2>4 DEF Enough, Roomy
<1>3. QED
  BY <1>1, <1>2

\* A data frame that leaves its wire needs no more room.
LEMMA RoomAfterDelivery ==
  ASSUME IsFiniteSet(Ifaces), NEW n \in Switches, NEW w \in Wires, NEW i \in Ifaces, w[i] # <<>>,
         NEW v \in Wires, v[i] = Tail(w[i]), \A j \in Ifaces \ {i} : v[j] = w[j],
         NEW p \in Priorities, Roomy(n, w, p)
  PROVE  Roomy(n, v, p)
<1>1. /\ n.sw \in QueueState
      /\ \A j \in Ifaces : n.pfcWire[j] \in Seq(Frame) /\ w[j] \in Seq(Priorities)
  BY PartsOf DEF Wires
<1>2. Len(n.sw.queue[p]) \in Nat /\ n.sw.paused[p] \in SUBSET Ifaces
  BY <1>1, QueueLens
<1>3. Len(n.sw.queue[p]) <= Len(n.sw.queue[p])
  BY <1>2
<1>4. ASSUME NEW j \in Ifaces, NEW c \in Nat, Covers(w[j], n.pfcWire[j], p, c)
      PROVE  Covers(v[j], n.pfcWire[j], p, c)
  <2>1. CASE j = i
    <3>1. Covers(Tail(w[j]), n.pfcWire[j], p, c)
      BY <1>1, <1>4, <2>1, CoversDataArrival
    <3>2. QED
      BY <2>1, <3>1
  <2>2. CASE j # i
    BY <1>4, <2>2
  <2>3. QED
    BY <2>1, <2>2
<1>5. QED
  BY <1>2, <1>3, <1>4, RoomyKept

\* A command takes no room from another priority.
LEMMA RoomOfOthers ==
  ASSUME IsFiniteSet(Ifaces), NEW n \in Switches, NEW w, NEW p \in Priorities,
         NEW s \in QueueState, NEW r \in Priorities \ {p},
         s.paused[r] = n.sw.paused[r], s.queue[r] = n.sw.queue[r],
         NEW m, m = processpfccommand(n, s, p), Roomy(n, w, r)
  PROVE  Roomy(m, w, r)
<1>1. /\ n.sw \in QueueState
      /\ \A j \in Ifaces : n.pfcWire[j] \in Seq(Frame)
  BY PartsOf
<1>2. Len(n.sw.queue[r]) \in Nat /\ n.sw.paused[r] \in SUBSET Ifaces
  BY <1>1, QueueLens
<1>3. /\ m.sw = s
      /\ \A j \in Ifaces : m.lost[j][r] = n.lost[j][r]
      /\ \A j \in Ifaces : \/ m.pfcWire[j] = n.pfcWire[j]
                           \/ \E f \in Frame : /\ f.priority = p
                                               /\ m.pfcWire[j] = Append(n.pfcWire[j], f)
  BY CommandParts
<1>4. ASSUME NEW j \in Ifaces, NEW c \in Nat, Covers(w[j], n.pfcWire[j], r, c)
      PROVE  Covers(w[j], m.pfcWire[j], r, c)
  <2>1. CASE m.pfcWire[j] = n.pfcWire[j]
    BY <1>4, <2>1
  <2>2. CASE m.pfcWire[j] # n.pfcWire[j]
    <3>1. PICK f \in Frame : f.priority = p /\ m.pfcWire[j] = Append(n.pfcWire[j], f)
      BY <1>3, <2>2
    <3>2. Covers(w[j], Append(n.pfcWire[j], f), r, c)
      BY <1>1, <1>4, <3>1, CoversOtherFrame
    <3>3. QED
      BY <3>1, <3>2
  <2>3. QED
    BY <2>1, <2>2
<1>5. /\ m.sw.paused[r] = n.sw.paused[r] /\ m.sw.queue[r] = n.sw.queue[r]
      /\ Len(m.sw.queue[r]) \in Nat /\ Len(m.sw.queue[r]) <= Len(n.sw.queue[r])
  BY <1>2, <1>3
<1>6. QED
  BY <1>2, <1>3, <1>4, <1>5, RoomyKept

\* A pull: the queue is shorter, or short enough to grant every budget anew.
LEMMA RoomAfterPull ==
  ASSUME HeadroomSuffices, NEW n \in Switches, NEW w, NEW p \in Priorities, NEW s \in QueueState,
         Len(s.queue[p]) = Len(n.sw.queue[p]) - 1,
         \A r \in Priorities \ {p} : s.queue[r] = n.sw.queue[r] /\ s.paused[r] = n.sw.paused[r],
         \/ s.paused[p] = {} /\ Len(s.queue[p]) <= XON
         \/ s.paused[p] = n.sw.paused[p],
         NEW m, m = processpfccommand(n, s, p), Room(n, w)
  PROVE  Room(m, w)
<1>1. IsFiniteSet(Ifaces) /\ XON < XOFF
  BY DEF HeadroomSuffices
<1>2. n.sw \in QueueState
  BY PartsOf
<1>3. /\ Len(n.sw.queue[p]) \in Nat /\ n.sw.paused[p] \in SUBSET Ifaces
      /\ Len(s.queue[p]) \in Nat
  BY <1>2, QueueLens
<1>4. /\ m.sw = s
      /\ \A i \in Ifaces : (i \in n.sw.paused[p] <=> i \in s.paused[p])
                              => m.pfcWire[i] = n.pfcWire[i] /\ m.lost[i] = n.lost[i]
  BY CommandParts
<1>5. \A r \in Priorities : Roomy(n, w, r)
  BY DEF Room
<1>6. Roomy(m, w, p)
  <2>1. CASE s.paused[p] = n.sw.paused[p]
    <3>1. \A i \in n.sw.paused[p] : m.pfcWire[i] = n.pfcWire[i] /\ m.lost[i] = n.lost[i]
      BY <1>3, <1>4, <2>1
    <3>2. /\ m.sw.paused[p] = n.sw.paused[p]
          /\ Len(m.sw.queue[p]) \in Nat /\ Len(m.sw.queue[p]) <= Len(n.sw.queue[p])
      BY <1>3, <1>4, <2>1
    <3>3. \A i \in n.sw.paused[p] :
             /\ n.lost[i][p] => m.lost[i][p]
             /\ ~n.lost[i][p] => \A c \in Nat : Covers(w[i], n.pfcWire[i], p, c)
                                                  => Covers(w[i], m.pfcWire[i], p, c)
      BY <3>1
    <3>4. Roomy(n, w, p)
      BY <1>5
    <3>5. QED
      BY <1>1, <1>3, <3>2, <3>3, <3>4, RoomyKept
  <2>2. CASE s.paused[p] = {} /\ Len(s.queue[p]) <= XON
    <3> DEFINE b == [i \in Ifaces |-> MostUnderWay]
               g == Cardinality(Granted(b))
               z == Cardinality(Slots)
               x == Len(s.queue[p])
    <3>1. b \in Budgets /\ \A i \in Ifaces : b[i] = MostUnderWay
      BY <1>1, FullBudgets
    <3> HIDE DEF b
    <3>2. g \in Nat /\ z \in Nat /\ g <= z
      BY <1>1, <3>1, GrantedCounted, SlotsCounted
    <3>3. x \in Nat /\ x <= XON /\ XON < XOFF /\ XON \in Int /\ XOFF \in Int
      BY <1>1, <1>3, <2>2, Parameters
    <3> HIDE DEF g, z, x
    <3>4. x + g <= XOFF - 1 + z
      BY <3>2, <3>3
    <3>5. Len(m.sw.queue[p]) + Cardinality(Granted(b)) <= XOFF - 1 + Cardinality(Slots)
      BY <1>4, <3>4 DEF g, z, x
    <3>6. m.sw.paused[p] = {}
      BY <1>4, <2>2
    <3>7. Enough(m, w, p, b)
      BY <3>1, <3>5, <3>6 DEF Enough
    <3>8. QED
      BY <3>1, <3>7 DEF Roomy
  <2>3. QED
    BY <2>1, <2>2
<1>7. ASSUME NEW r \in Priorities \ {p} PROVE Roomy(m, w, r)
  BY <1>1, <1>5, RoomOfOthers
<1>8. QED
  BY <1>6, <1>7 DEF Room

\* An arrival: the packet was granted to the port it came from.
LEMMA RoomAfterPush ==
  ASSUME HeadroomSuffices, NEW n \in Switches, NEW w \in Wires, WiresFit(w),
         NEW i \in Ifaces, w[i] # <<>>, NEW p \in Priorities, Head(w[i]) = p,
         NEW v \in Wires, v[i] = Tail(w[i]), \A j \in Ifaces \ {i} : v[j] = w[j],
         NEW s \in QueueState,
         Len(s.queue[p]) = Len(n.sw.queue[p]) + 1,
         \A r \in Priorities \ {p} : s.queue[r] = n.sw.queue[r] /\ s.paused[r] = n.sw.paused[r],
         \/ s.paused[p] = n.sw.paused[p] \cup {i}
         \/ s.paused[p] = n.sw.paused[p] /\ Len(s.queue[p]) < XOFF,
         NEW m, m \in Switches, m = processpfccommand(n, s, p), Room(n, w)
  PROVE  Room(m, v)
<1>1. IsFiniteSet(Ifaces)
  BY DEF HeadroomSuffices
<1>2. /\ n.sw \in QueueState
      /\ \A j \in Ifaces : n.pfcWire[j] \in Seq(Frame) /\ m.pfcWire[j] \in Seq(Frame)
  BY PartsOf
<1>3. /\ Len(n.sw.queue[p]) \in Nat /\ n.sw.paused[p] \in SUBSET Ifaces
      /\ Len(s.queue[p]) \in Nat
  BY <1>2, QueueLens
<1>4. /\ m.sw = s
      /\ \A j \in Ifaces : (j \in n.sw.paused[p] <=> j \in s.paused[p])
                              => m.pfcWire[j] = n.pfcWire[j] /\ m.lost[j] = n.lost[j]
  BY CommandParts
<1>5. \A r \in Priorities : Roomy(n, w, r) /\ Roomy(n, v, r)
  BY <1>1, RoomAfterDelivery DEF Room
<1>6. /\ w[i] \in Seq(Priorities) /\ v[i] \in Seq(Priorities)
      /\ Len(w[i]) <= WireFrames /\ Len(v[i]) + 1 = Len(w[i])
      /\ Len(v[i]) \in Nat
  BY DEF Wires, WiresFit
<1>7. MostUnderWay \in Nat /\ MostUnderWay >= 1
  <2>1. WireFrames \in Nat /\ PfcDelay \in Nat
    BY PfcLinkAssumption
  <2>2. QED
    BY <1>6, <2>1 DEF MostUnderWay
<1>8. Roomy(m, v, p)
  <2>1. CASE PauseLost(n, p)
    <3>1. PICK j \in n.sw.paused[p] : n.lost[j][p]
      BY <2>1 DEF PauseLost
    <3>2. j \in s.paused[p] /\ j \in Ifaces
      BY <1>3, <3>1
    <3>3. m.lost[j][p]
      BY <1>4, <3>1, <3>2
    <3>4. PauseLost(m, p)
      BY <1>4, <3>2, <3>3 DEF PauseLost
    <3>5. QED
      BY <3>4 DEF Roomy
  <2>2. CASE ~PauseLost(n, p)
    <3>1. PICK b \in Budgets : Enough(n, w, p, b)
      BY <1>5, <2>2 DEF Roomy
    <3> DEFINE g == Cardinality(Granted(b))
               z == Cardinality(Slots)
               x == Len(n.sw.queue[p])
               y == Len(s.queue[p])
    <3>2. g \in Nat /\ z \in Nat /\ g <= z
      BY <1>1, GrantedCounted, SlotsCounted
    <3>3. x + g <= XOFF - 1 + z /\ y = x + 1 /\ x \in Nat /\ y \in Nat /\ XOFF \in Int
      BY <1>3, <3>1, Parameters DEF Enough
    <3>4. \A j \in Ifaces : b[j] \in Nat
      BY <1>7 DEF Budgets
    <3>5. \A j \in Ifaces : IF j \in n.sw.paused[p] THEN Covers(w[j], n.pfcWire[j], p, b[j])
                            ELSE b[j] = MostUnderWay
      BY <3>1 DEF Enough
    <3> HIDE DEF g, z, x, y
    <3>6. CASE i \notin n.sw.paused[p] /\ s.paused[p] = n.sw.paused[p] /\ y < XOFF
      <4>1. ASSUME NEW j \in Ifaces
            PROVE  IF j \in m.sw.paused[p] THEN Covers(v[j], m.pfcWire[j], p, b[j])
                   ELSE b[j] = MostUnderWay
        <5>1. m.sw.paused[p] = n.sw.paused[p] /\ m.pfcWire[j] = n.pfcWire[j]
          BY <1>4, <3>6
        <5>2. j \in n.sw.paused[p] => v[j] = w[j]
          BY <3>6
        <5>3. QED
          BY <3>5, <5>1, <5>2
      <4>2. y + g <= XOFF - 1 + z
        BY <3>2, <3>3, <3>6
      <4>3. Len(m.sw.queue[p]) + Cardinality(Granted(b)) <= XOFF - 1 + Cardinality(Slots)
        BY <1>4, <4>2 DEF g, z, y
      <4>4. Enough(m, v, p, b)
        BY <4>1, <4>3 DEF Enough
      <4>5. QED
        BY <4>4 DEF Roomy
    <3>7. CASE s.paused[p] = n.sw.paused[p] \cup {i}
      <4> DEFINE a == Spend(b, i)
                 h == Cardinality(Granted(a))
      <4>1. b[i] >= 1 /\ Covers(v[i], m.pfcWire[i], p, b[i] - 1)
        <5>1. CASE i \in n.sw.paused[p]
          <6>1. s.paused[p] = n.sw.paused[p]
            BY <3>7, <5>1
          <6>2. m.pfcWire[i] = n.pfcWire[i]
            BY <1>4, <6>1
          <6>3. Covers(w[i], n.pfcWire[i], p, b[i])
            BY <3>5, <5>1
          <6>4. b[i] \in Nat /\ n.pfcWire[i] \in Seq(Frame)
            BY <1>2, <3>4
          <6>5. b[i] >= 1 /\ Covers(Tail(w[i]), n.pfcWire[i], p, b[i] - 1)
            BY <1>6, <6>3, <6>4, CoversDataArrival
          <6>6. QED
            BY <6>2, <6>5
        <5>2. CASE i \notin n.sw.paused[p]
          <6>1. b[i] = MostUnderWay
            BY <3>5, <5>2
          <6>2. Covers(v[i], m.pfcWire[i], p, MostUnderWay - 1)
            BY <1>2, <1>6, CoversFull
          <6>3. QED
            BY <1>7, <6>1, <6>2
        <5>3. QED
          BY <5>1, <5>2
      <4>2. /\ a \in Budgets /\ a[i] = b[i] - 1
            /\ \A j \in Ifaces \ {i} : a[j] = b[j]
            /\ h = g - 1
        BY <1>1, <4>1, SpendCounted DEF g
      <4> HIDE DEF a
      <4>3. ASSUME NEW j \in Ifaces
            PROVE  IF j \in m.sw.paused[p] THEN Covers(v[j], m.pfcWire[j], p, a[j])
                   ELSE a[j] = MostUnderWay
        <5>1. CASE j = i
          <6>1. i \in m.sw.paused[p]
            BY <1>4, <3>7
          <6>2. QED
            BY <4>1, <4>2, <5>1, <6>1
        <5>2. CASE j # i
          <6>1. (j \in n.sw.paused[p] <=> j \in s.paused[p]) /\ v[j] = w[j] /\ a[j] = b[j]
            BY <3>7, <4>2, <5>2
          <6>2. m.pfcWire[j] = n.pfcWire[j] /\ (j \in m.sw.paused[p] <=> j \in n.sw.paused[p])
            BY <1>4, <6>1
          <6>3. QED
            BY <3>5, <6>1, <6>2
        <5>3. QED
          BY <5>1, <5>2
      <4>4. y + h <= XOFF - 1 + z
        <5> HIDE DEF h
        <5>1. QED
          BY <3>2, <3>3, <4>2
      <4>5. Len(m.sw.queue[p]) + Cardinality(Granted(a)) <= XOFF - 1 + Cardinality(Slots)
        BY <1>4, <4>4 DEF h, z, y
      <4>6. Enough(m, v, p, a)
        BY <4>3, <4>5 DEF Enough
      <4>7. QED
        BY <4>2, <4>6 DEF Roomy
    <3>8. QED
      <4>1. \/ s.paused[p] = n.sw.paused[p] \cup {i}
            \/ i \notin n.sw.paused[p] /\ s.paused[p] = n.sw.paused[p] /\ y < XOFF
        <5>1. i \in n.sw.paused[p] => n.sw.paused[p] \cup {i} = n.sw.paused[p]
          OBVIOUS
        <5>2. QED
          BY <5>1 DEF y
      <4>2. QED
        BY <3>6, <3>7, <4>1
  <2>3. QED
    BY <2>1, <2>2
<1>9. ASSUME NEW r \in Priorities \ {p} PROVE Roomy(m, v, r)
  BY <1>1, <1>5, RoomOfOthers
<1>10. QED
  BY <1>8, <1>9 DEF Room

\* The room of a switch is that of its queues, PFC frames and losses.
LEMMA RoomOfParts ==
  ASSUME NEW n, NEW m, m.sw = n.sw, m.pfcWire = n.pfcWire, m.lost = n.lost, NEW w
  PROVE  Room(m, w) <=> Room(n, w)
BY DEF Room, Roomy, PauseLost, Enough

LEMMA RoomAfterDequeue ==
  ASSUME HeadroomSuffices, NEW n \in Switches, NEW h \in Flags, Agree(n, h), NEW w, Room(n, w)
  PROVE  Room(Dequeued(n), w)
<1> DEFINE full == {p \in Priorities : n.sw.queue[p] # <<>>}
           first == CHOOSE x \in full : \A y \in full : x <= y
           s == Q!Pulled(n.sw, first, FALSE)
           m == processpfccommand(n, s, first)
<1>1. CASE full = {}
  <2>1. Dequeued(n) = [n EXCEPT !.egBusy = FALSE]
    BY <1>1, Zenon DEF Dequeued
  <2> DEFINE e == [n EXCEPT !.egBusy = FALSE]
  <2>2. e.sw = n.sw /\ e.pfcWire = n.pfcWire /\ e.lost = n.lost
    BY EgBusyChanged
  <2> HIDE DEF e
  <2>3. Room(e, w)
    BY <2>2, RoomOfParts
  <2>4. QED
    BY <2>1, <2>3 DEF e
<1>2. CASE full # {}
  <2>1. Dequeued(n) = [m EXCEPT !.egBusy = ~egStopped]
    BY <1>2, Zenon DEF Dequeued
  <2>2. first \in Priorities /\ n.sw.queue[first] # <<>>
    <3>1. full \in SUBSET Nat
      BY Parameters DEF Priorities
    <3>2. \E x \in full : \A y \in full : x <= y
      <4> HIDE DEF full
      <4>1. QED
        BY <1>2, <3>1, LeastNat
    <3>3. first \in full
      BY <3>2
    <3>4. QED
      BY <3>3
  <2> HIDE DEF first
  <2>3. n.sw \in QueueState
    BY PartsOf
  <2>4. s \in QueueState /\ \A r \in Priorities \ {first} : s.paused[r] = n.sw.paused[r]
    BY <2>2, <2>3, PulledType
  <2>5. /\ Len(s.queue[first]) = Len(n.sw.queue[first]) - 1
        /\ \A r \in Priorities \ {first} : s.queue[r] = n.sw.queue[r]
        /\ \/ s.paused[first] = {} /\ Len(s.queue[first]) <= XON
           \/ s.paused[first] = n.sw.paused[first]
    BY <2>2, <2>3, PulledParts
  <2> HIDE DEF s
  <2>6. m \in Switches
    BY <2>2, <2>4, CommandKeeps
  <2>7. Room(m, w)
    BY <2>2, <2>4, <2>5, RoomAfterPull
  <2> HIDE DEF m
  <2> DEFINE e == [m EXCEPT !.egBusy = ~egStopped]
  <2>8. e.sw = m.sw /\ e.pfcWire = m.pfcWire /\ e.lost = m.lost
    BY <2>6, EgBusyChanged
  <2> HIDE DEF e
  <2>9. Room(e, w)
    BY <2>7, <2>8, RoomOfParts
  <2>10. QED
    BY <2>1, <2>9 DEF e
<1>3. QED
  BY <1>1, <1>2

LEMMA RoomAfterArrival ==
  ASSUME HeadroomSuffices, NEW n \in Switches, NEW h \in Flags, Agree(n, h),
         NEW w \in Wires, WiresFit(w),
         NEW i \in Ifaces, w[i] # <<>>, NEW p \in Priorities, Head(w[i]) = p,
         NEW v \in Wires, v[i] = Tail(w[i]), \A j \in Ifaces \ {i} : v[j] = w[j],
         NEW s \in QueueState, s.paused = n.sw.paused, s.queue = n.sw.queue,
         NEW m, m = handleCanPullPacketChanged(
                       processpfccommand(n, Q!Pushed(s, p, PacketOf(i)), p)),
         Room(n, w)
  PROVE  Room(m, v)
<1> DEFINE t == Q!Pushed(s, p, PacketOf(i))
           k == processpfccommand(n, t, p)
<1>1. t \in QueueState /\ \A r \in Priorities \ {p} : t.paused[r] = s.paused[r]
  BY PushedType
<1>2. /\ Len(t.queue[p]) = Len(s.queue[p]) + 1
      /\ \A r \in Priorities \ {p} : t.queue[r] = s.queue[r]
      /\ \/ t.paused[p] = s.paused[p] \cup {i}
         \/ t.paused[p] = s.paused[p] /\ Len(t.queue[p]) < XOFF
  BY PushedParts
<1>3. m = handleCanPullPacketChanged(k)
  OBVIOUS
<1> HIDE DEF t
<1>4. k \in Switches /\ Agree(k, h)
  BY <1>1, CommandKeeps
<1>5. Room(k, v)
  <2>1. Len(t.queue[p]) = Len(n.sw.queue[p]) + 1
    BY <1>2
  <2>2. \A r \in Priorities \ {p} : t.queue[r] = n.sw.queue[r] /\ t.paused[r] = n.sw.paused[r]
    BY <1>1, <1>2
  <2>3. \/ t.paused[p] = n.sw.paused[p] \cup {i}
        \/ t.paused[p] = n.sw.paused[p] /\ Len(t.queue[p]) < XOFF
    BY <1>2
  <2>4. QED
    BY <1>1, <1>4, <2>1, <2>2, <2>3, RoomAfterPush
<1> HIDE DEF k
<1>6. CASE k.egBusy
  BY <1>3, <1>5, <1>6 DEF handleCanPullPacketChanged
<1>7. CASE ~k.egBusy
  BY <1>3, <1>4, <1>5, <1>7, RoomAfterDequeue DEF handleCanPullPacketChanged
<1>8. QED
  BY <1>6, <1>7

\* Nothing but buffer management drops packets.
LEMMA CommandDropsNone ==
  ASSUME NEW n, NEW s, NEW p
  PROVE  processpfccommand(n, s, p).dropped = n.dropped
BY DEF processpfccommand

LEMMA DequeueDropsNone ==
  ASSUME NEW n \in Switches, NEW h \in Flags, Agree(n, h)
  PROVE  Dequeued(n).dropped = n.dropped
<1> DEFINE full == {p \in Priorities : n.sw.queue[p] # <<>>}
           first == CHOOSE x \in full : \A y \in full : x <= y
           s == Q!Pulled(n.sw, first, FALSE)
           m == processpfccommand(n, s, first)
<1>1. CASE full = {}
  <2>1. Dequeued(n) = [n EXCEPT !.egBusy = FALSE]
    BY <1>1, Zenon DEF Dequeued
  <2>2. [n EXCEPT !.egBusy = FALSE].dropped = n.dropped
    BY PartsOf
  <2>3. QED
    BY <2>1, <2>2
<1>2. CASE full # {}
  <2>1. Dequeued(n) = [m EXCEPT !.egBusy = ~egStopped]
    BY <1>2, Zenon DEF Dequeued
  <2>2. m.dropped = n.dropped
    BY CommandDropsNone, Zenon
  <2>3. [m EXCEPT !.egBusy = ~egStopped].dropped = m.dropped
    <3>1. m = [sw |-> m.sw, egBusy |-> m.egBusy, macBusy |-> m.macBusy,
               pfcWire |-> m.pfcWire, lost |-> m.lost, dropped |-> m.dropped]
      <4> HIDE DEF s
      <4>1. QED
        BY DEF processpfccommand
    <3> HIDE DEF m
    <3>2. QED
      BY <3>1
  <2>4. QED
    BY <2>1, <2>2, <2>3, Zenon
<1>3. QED
  BY <1>1, <1>2

\* The queue of a packet that is dropped is beyond dataCapacity.
LEMMA DropOverloaded ==
  ASSUME NEW n \in Switches, NEW i \in Ifaces, NEW p \in Priorities,
         "drop" \in Q!BufferManagement(n.sw, p, PacketOf(i))
  PROVE  DataCapacity # -1 /\ Len(n.sw.queue[p]) > DataCapacity
<1>1. n.sw.queue[p] \in Seq(PacketsOf)
  BY PartsOf DEF QueueState
<1>2. Q!Length(n.sw.queue[p]) = Len(n.sw.queue[p])
  BY <1>1, UnitLength
<1>3. Q!isOverloaded(n.sw, p)
  BY DEF Q!BufferManagement
<1>4. QED
  BY <1>2, <1>3 DEF Q!isOverloaded, Q!NoLimit

\* With the headroom, that takes a PAUSE that was lost: otherwise the packet
\* was granted, and the queue has the place.
LEMMA GrantedIsAdmitted ==
  ASSUME HeadroomSuffices, NEW n \in Switches, NEW w \in Wires, WiresFit(w),
         NEW i \in Ifaces, w[i] # <<>>, NEW p \in Priorities, Head(w[i]) = p, Room(n, w),
         "drop" \in Q!BufferManagement(n.sw, p, PacketOf(i))
  PROVE  PauseLost(n, p)
<1>1. SUFFICES ASSUME ~PauseLost(n, p) PROVE FALSE
  OBVIOUS
<1>2. DataCapacity # -1 /\ Len(n.sw.queue[p]) > DataCapacity
  BY DropOverloaded
<1>3. PICK b \in Budgets : Enough(n, w, p, b)
  BY <1>1 DEF Room, Roomy
<1>4. /\ n.sw \in QueueState /\ n.pfcWire[i] \in Seq(Frame) /\ w[i] \in Seq(Priorities)
      /\ Len(w[i]) <= WireFrames /\ Len(w[i]) >= 1
  BY PartsOf DEF Wires, WiresFit
<1>5. MostUnderWay \in Nat /\ MostUnderWay >= 1
  <2>1. WireFrames \in Nat /\ PfcDelay \in Nat
    BY PfcLinkAssumption
  <2>2. QED
    BY <1>4, <2>1 DEF MostUnderWay
<1>6. b[i] >= 1
  <2>1. CASE i \in n.sw.paused[p]
    <3>1. Covers(w[i], n.pfcWire[i], p, b[i]) /\ b[i] \in Nat
      BY <1>3, <1>5, <2>1 DEF Enough, Budgets
    <3>2. QED
      BY <1>4, <3>1, CoversDataArrival
  <2>2. CASE i \notin n.sw.paused[p]
    <3>1. b[i] = MostUnderWay
      BY <1>3, <2>2 DEF Enough
    <3>2. QED
      BY <1>5, <3>1
  <2>3. QED
    BY <2>1, <2>2
<1>7. IsFiniteSet(Ifaces)
  BY DEF HeadroomSuffices
<1> DEFINE g == Cardinality(Granted(b))
           z == Cardinality(Slots)
           x == Len(n.sw.queue[p])
<1>8. g \in Nat /\ g >= 1
  BY <1>6, <1>7, SpendCounted, GrantedCounted
<1>9. z \in Nat /\ z = Cardinality(Ifaces) * MostUnderWay
  BY <1>7, SlotsCounted
<1>10. x + g <= XOFF - 1 + z /\ x \in Nat
  BY <1>3, <1>4, QueueLens DEF Enough
<1>11. XOFF + z - 2 <= DataCapacity
  BY <1>2, <1>9, Zenon DEF HeadroomSuffices, MostUnderWay
<1>12. x > DataCapacity
  BY <1>2
<1> HIDE DEF g, z, x
<1>13. QED
  BY <1>8, <1>9, <1>10, <1>11, <1>12, Parameters

LEMMA ArrivedInRoom ==
  ASSUME HeadroomSuffices, NEW n \in Switches, NEW h \in Flags, Agree(n, h),
         NEW w \in Wires, WiresFit(w),
         NEW i \in Ifaces, w[i] # <<>>, NEW p \in Priorities, Head(w[i]) = p,
         NEW v \in Wires, v[i] = Tail(w[i]), \A j \in Ifaces \ {i} : v[j] = w[j],
         Room(n, w), NEW m \in Arrived(n, i, p)
  PROVE  /\ Room(m, v)
         /\ \A r \in m.dropped \ n.dropped : PauseLost(n, r)
<1>1. n.sw \in QueueState
  BY PartsOf
<1> DEFINE pushed(s) == handleCanPullPacketChanged(
                           processpfccommand(n, Q!Pushed(s, p, PacketOf(i)), p))
           c == Q!Charged(n.sw, PacketOf(i))
<1>2. \/ m = [n EXCEPT !.dropped = @ \cup {p}]
         /\ "drop" \in Q!BufferManagement(n.sw, p, PacketOf(i))
      \/ m = pushed(n.sw)
      \/ m = pushed(c)
  <2>1. Q!BufferManagement(n.sw, p, PacketOf(i)) \subseteq {"drop", "free", "charge"}
    BY DEF Q!BufferManagement
  <2> HIDE DEF pushed, c
  <2>2. PICK outcome \in Q!BufferManagement(n.sw, p, PacketOf(i)) :
           m = CASE outcome = "drop"   -> [n EXCEPT !.dropped = @ \cup {p}]
                 [] outcome = "free"   -> pushed(n.sw)
                 [] outcome = "charge" -> pushed(c)
    BY Zenon DEF Arrived, pushed, c
  <2>3. QED
    BY <2>1, <2>2
<1>3. ASSUME NEW s \in QueueState, s.paused = n.sw.paused, s.queue = n.sw.queue, m = pushed(s)
      PROVE  Room(m, v) /\ m.dropped = n.dropped
  <2>1. Room(m, v)
    BY <1>3, RoomAfterArrival
  <2> DEFINE k == processpfccommand(n, Q!Pushed(s, p, PacketOf(i)), p)
  <2>2. k.dropped = n.dropped
    BY CommandDropsNone, Zenon
  <2>3. k \in Switches /\ Agree(k, h)
    <3> DEFINE t == Q!Pushed(s, p, PacketOf(i))
    <3>1. t \in QueueState /\ \A r \in Priorities \ {p} : t.paused[r] = n.sw.paused[r]
      BY <1>3, PushedType
    <3> HIDE DEF t
    <3>2. processpfccommand(n, t, p) \in Switches /\ Agree(processpfccommand(n, t, p), h)
      BY <3>1, CommandKeeps
    <3>3. QED
      BY <3>2 DEF t
  <2>4. m = handleCanPullPacketChanged(k)
    BY <1>3
  <2> HIDE DEF k
  <2>5. m.dropped = k.dropped
    BY <2>3, <2>4, DequeueDropsNone DEF handleCanPullPacketChanged
  <2>6. QED
    BY <2>1, <2>2, <2>5
<1>4. CASE m = [n EXCEPT !.dropped = @ \cup {p}]
           /\ "drop" \in Q!BufferManagement(n.sw, p, PacketOf(i))
  <2>1. PauseLost(n, p)
    BY <1>4, GrantedIsAdmitted
  <2>2. m.sw = n.sw /\ m.pfcWire = n.pfcWire /\ m.lost = n.lost
    BY <1>4, DroppedChanged
  <2>3. m.dropped = n.dropped \cup {p}
    BY <1>4, PartsOf
  <2>4. IsFiniteSet(Ifaces)
    BY DEF HeadroomSuffices
  <2>5. Room(n, v)
    BY <2>4, RoomAfterDelivery DEF Room
  <2>6. QED
    BY <2>1, <2>2, <2>3, <2>5, RoomOfParts
<1>5. CASE m = pushed(n.sw)
  BY <1>1, <1>3, <1>5
<1>6. CASE m = pushed(c)
  <2>1. c \in QueueState /\ c.paused = n.sw.paused
    BY <1>1, ChargedType
  <2>2. c.queue = n.sw.queue
    BY <1>1 DEF Q!Charged, QueueState
  <2> HIDE DEF pushed, c
  <2>3. QED
    BY <1>3, <1>6, <2>1, <2>2
<1>7. QED
  BY <1>2, <1>4, <1>5, <1>6

-----------------------------------------------------------------------------
(***************************************************************************)
(* The system.                                                             *)
(***************************************************************************)
\* No port has more waiting than it was given, which bounds every backlog.
BacklogWasSent == \A i \in Ifaces, p \in Priorities : backlog[i][p] <= sent

IInv == TypeOK /\ BacklogWasSent /\ Agree(d, ispaused) /\ Works(d)

LEMMA AgreeIsPausesAgree == Agree(d, ispaused) <=> PausesAgree
BY DEF Agree, PausesAgree, WillBePaused

LEMMA WorksIsWorkConserving == Works(d) <=> EgressWorkConserving
BY DEF Works, EgressWorkConserving

LEMMA InitIInv == Init => IInv
<1> SUFFICES ASSUME Init PROVE IInv
  OBVIOUS
<1>1. d \in Switches
  <2>1. [shared |-> SharedBuffer, queue |-> [p \in Priorities |-> <<>>],
         paused |-> [p \in Priorities |-> {}],
         markNext |-> [p \in Priorities |-> FALSE]] \in QueueState
    BY Parameters DEF QueueState
  <2>2. /\ [i \in Ifaces |-> FALSE] \in [Ifaces -> BOOLEAN]
        /\ [i \in Ifaces |-> <<>>] \in [Ifaces -> Seq(Frame)]
        /\ [i \in Ifaces |-> [p \in Priorities |-> FALSE]] \in [Ifaces -> [Priorities -> BOOLEAN]]
        /\ {} \in SUBSET Priorities /\ FALSE \in BOOLEAN
    OBVIOUS
  <2>3. QED
    BY <2>1, <2>2, Assembled, Zenon DEF Init
<1>2. TypeOK
  <2>1. 0 \in 0..Packets
    BY Parameters
  <2>2. /\ backlog \in [Ifaces -> [Priorities -> 0..Packets]] /\ sent \in 0..Packets
        /\ ispaused \in [Ifaces -> [Priorities -> BOOLEAN]]
    BY <2>1 DEF Init
  <2>3. /\ upBusy \in [Ifaces -> BOOLEAN] /\ wire \in [Ifaces -> Seq(Priorities)]
        /\ egStopped \in BOOLEAN /\ upStopped \in [Ifaces -> BOOLEAN]
    <3>1. /\ upBusy = [i \in Ifaces |-> FALSE] /\ wire = [i \in Ifaces |-> <<>>]
          /\ egStopped = FALSE /\ upStopped = [i \in Ifaces |-> FALSE]
      BY DEF Init
    <3>2. /\ [i \in Ifaces |-> FALSE] \in [Ifaces -> BOOLEAN]
          /\ [i \in Ifaces |-> <<>>] \in [Ifaces -> Seq(Priorities)]
      OBVIOUS
    <3>3. QED
      BY <3>1, <3>2, Zenon
  <2>4. QED
    BY <1>1, <2>2, <2>3 DEF TypeOK
<1>3. BacklogWasSent
  BY DEF Init, BacklogWasSent
<1>4. Agree(d, ispaused)
  <2>1. ASSUME NEW i \in Ifaces, NEW p \in Priorities
        PROVE  ~AfterFrames(d.pfcWire[i], ispaused[i][p], p) /\ i \notin d.sw.paused[p]
    <3>1. d.pfcWire[i] = <<>> /\ ispaused[i][p] = FALSE /\ d.sw.paused[p] = {}
      BY DEF Init
    <3>2. QED
      BY <3>1 DEF AfterFrames
  <2>2. QED
    BY <2>1 DEF Agree
<1>5. Works(d)
  BY DEF Init, Works
<1>6. QED
  BY <1>2, <1>3, <1>4, <1>5 DEF IInv

\* A port that starts a frame moves one packet from its backlog to the wire;
\* that ages the PFC frames under way to it.
LEMMA StartsFrameKeeps ==
  ASSUME IInv, NEW i \in Ifaces, NEW b \in [Priorities -> 0..Packets], StartsFrame(i, b)
  PROVE  /\ d' \in Switches
         /\ \A j \in Ifaces, p \in Priorities :
               backlog'[j][p] <= (IF j = i THEN b[p] ELSE backlog[j][p])
         /\ backlog' \in [Ifaces -> [Priorities -> 0..Packets]]
         /\ upBusy' \in [Ifaces -> BOOLEAN]
         /\ wire' \in [Ifaces -> Seq(Priorities)]
         /\ Agree(d', ispaused) /\ Works(d')
<1>1. /\ d \in Switches /\ Agree(d, ispaused) /\ Works(d)
      /\ backlog \in [Ifaces -> [Priorities -> 0..Packets]]
      /\ upBusy \in [Ifaces -> BOOLEAN]
      /\ wire \in [Ifaces -> Seq(Priorities)]
      /\ ispaused \in [Ifaces -> [Priorities -> BOOLEAN]]
  BY DEF IInv, TypeOK
<1>2. CASE Pullable(i, b) = {}
  <2>1. /\ backlog' = [backlog EXCEPT ![i] = b]
        /\ upBusy' = [upBusy EXCEPT ![i] = FALSE]
        /\ d' = d /\ wire' = wire
    BY <1>2 DEF StartsFrame
  <2>2. /\ backlog' \in [Ifaces -> [Priorities -> 0..Packets]]
        /\ upBusy' \in [Ifaces -> BOOLEAN]
        /\ \A j \in Ifaces : backlog'[j] = IF j = i THEN b ELSE backlog[j]
    BY <1>1, <2>1
  <2>3. \A p \in Priorities : b[p] <= b[p] /\ \A j \in Ifaces : backlog[j][p] <= backlog[j][p]
    BY <1>1, Parameters
  <2>4. QED
    BY <1>1, <2>1, <2>2, <2>3
<1>3. CASE Pullable(i, b) # {}
  <2> DEFINE p == CHOOSE x \in Pullable(i, b) : \A y \in Pullable(i, b) : x <= y
             w == d.pfcWire[i]
             v == [k \in DOMAIN w |-> [w[k] EXCEPT !.overtaken = @ + 1]]
  <2>1. /\ backlog' = [backlog EXCEPT ![i] = [b EXCEPT ![p] = @ - 1]]
        /\ upBusy' = [upBusy EXCEPT ![i] = ~upStopped[i]]
        /\ IF upStopped[i]
           THEN UNCHANGED <<d, wire>>
           ELSE /\ wire' = [wire EXCEPT ![i] = Append(@, p)]
                /\ d' = [d EXCEPT !.pfcWire[i] = Aged(w)]
    BY <1>3, Zenon DEF StartsFrame
  <2>2. p \in Priorities /\ b[p] > 0
    <3>1. Pullable(i, b) \in SUBSET Nat
      BY Parameters DEF Pullable, Priorities
    <3>2. \E x \in Pullable(i, b) : \A y \in Pullable(i, b) : x <= y
      BY <1>3, <3>1, LeastNat
    <3>3. p \in Pullable(i, b)
      BY <3>2
    <3>4. QED
      BY <3>3 DEF Pullable
  <2> HIDE DEF p
  <2>8. /\ d' \in Switches /\ wire' \in [Ifaces -> Seq(Priorities)]
        /\ Agree(d', ispaused) /\ Works(d')
    <3>1. CASE upStopped[i]
      <4>1. d' = d /\ wire' = wire
        BY <2>1, <3>1
      <4>2. QED
        BY <1>1, <4>1
    <3>2. CASE ~upStopped[i]
      <4>3. w \in Seq(Frame)
        BY <1>1, PartsOf
      <4>4. /\ v \in Seq(Frame) /\ Len(v) = Len(w)
            /\ \A k \in 1..Len(w) : v[k].op = w[k].op /\ v[k].priority = w[k].priority
        <5>1. DOMAIN w = 1..Len(w) /\ Len(w) \in Nat /\ \A k \in 1..Len(w) : w[k] \in Frame
          BY <4>3
        <5>2. \A f \in Frame : /\ [f EXCEPT !.overtaken = @ + 1] \in Frame
                                /\ [f EXCEPT !.overtaken = @ + 1].op = f.op
                                /\ [f EXCEPT !.overtaken = @ + 1].priority = f.priority
          BY DEF Frame
        <5>3. \A k \in 1..Len(w) : /\ v[k] \in Frame
                                    /\ v[k].op = w[k].op /\ v[k].priority = w[k].priority
          BY <5>1, <5>2
        <5>4. v \in [1..Len(w) -> Frame]
          BY <5>1, <5>2
        <5>5. v \in Seq(Frame) /\ Len(v) = Len(w)
          <6> HIDE DEF v, w
          <6>1. QED
            BY <5>1, <5>4
        <5>6. QED
          BY <5>3, <5>5
      <4>5. d' = [d EXCEPT !.pfcWire[i] = v]
        BY <2>1, <3>2, Zenon DEF Aged
      <4>6. /\ d' \in Switches /\ d'.egBusy = d.egBusy /\ d'.sw = d.sw /\ d'.lost = d.lost
            /\ d'.pfcWire = [d.pfcWire EXCEPT ![i] = v]
        <5> HIDE DEF v
        <5>1. QED
          BY <1>1, <4>4, <4>5, WireChanged
      <4>7. Agree(d', ispaused)
        <5>1. ASSUME NEW j \in Ifaces, NEW r \in Priorities
              PROVE  AfterFrames(d'.pfcWire[j], ispaused[j][r], r)
                         <=> AfterFrames(d.pfcWire[j], ispaused[j][r], r)
          <6> HIDE DEF v, w
          <6>1. CASE j = i
            <7>1. d'.pfcWire[j] = v /\ d.pfcWire[j] = w /\ ispaused[j][r] \in BOOLEAN
              BY <1>1, <4>6, <6>1, PartsOf DEF w
            <7>2. QED
              BY <4>3, <4>4, <7>1, AfterSame
          <6>2. CASE j # i
            BY <1>1, <4>6, <6>2, PartsOf
          <6>3. QED
            BY <6>1, <6>2
        <5>2. QED
          BY <1>1, <4>6, <5>1 DEF Agree
      <4>8. Works(d')
        BY <1>1, <4>6 DEF Works
      <4>9. wire' \in [Ifaces -> Seq(Priorities)]
        <5>1. wire' = [wire EXCEPT ![i] = Append(wire[i], p)]
          BY <2>1, <3>2, Zenon
        <5>2. Append(wire[i], p) \in Seq(Priorities)
          BY <1>1, <2>2
        <5>3. QED
          BY <1>1, <5>1, <5>2
      <4>10. QED
        BY <4>6, <4>7, <4>8, <4>9
    <3>3. QED
      BY <3>1, <3>2
  <2>9. [b EXCEPT ![p] = @ - 1] \in [Priorities -> 0..Packets]
        /\ \A r \in Priorities : [b EXCEPT ![p] = @ - 1][r] <= b[r]
    BY <2>2, Parameters
  <2>10. /\ backlog' \in [Ifaces -> [Priorities -> 0..Packets]]
         /\ \A j \in Ifaces, r \in Priorities :
               backlog'[j][r] <= (IF j = i THEN b[r] ELSE backlog[j][r])
    <3> DEFINE c == [b EXCEPT ![p] = @ - 1]
    <3>1. backlog' = [backlog EXCEPT ![i] = c]
      BY <2>1
    <3>2. c \in [Priorities -> 0..Packets] /\ \A r \in Priorities : c[r] <= b[r]
      BY <2>9
    <3> HIDE DEF c
    <3>3. \A j \in Ifaces : backlog'[j] = IF j = i THEN c ELSE backlog[j]
      BY <1>1, <3>1
    <3>4. \A j \in Ifaces, r \in Priorities : backlog[j][r] <= backlog[j][r]
      BY <1>1, Parameters
    <3>5. QED
      BY <1>1, <3>1, <3>2, <3>3, <3>4
  <2>11. upBusy' \in [Ifaces -> BOOLEAN]
    BY <1>1, <2>1
  <2>12. QED
    BY <2>8, <2>10, <2>11
<1>4. QED
  BY <1>2, <1>3

LEMMA UpstreamPushKeeps ==
  ASSUME IInv, NEW i \in Ifaces, NEW p \in Priorities, UpstreamPush(i, p)
  PROVE  IInv'
<1> DEFINE b == [backlog[i] EXCEPT ![p] = @ + 1]
<1>1. TypeOK /\ BacklogWasSent /\ Agree(d, ispaused) /\ Works(d)
  BY DEF IInv
<1>c. egStopped' = egStopped /\ upStopped' = upStopped
  BY DEF UpstreamPush, clocks
<1>2. sent < Packets /\ sent' = sent + 1 /\ sent \in Nat /\ sent' \in 0..Packets
  BY <1>1, Parameters DEF UpstreamPush, TypeOK
<1>3. ispaused' = ispaused
  BY DEF UpstreamPush
<1>4. backlog \in [Ifaces -> [Priorities -> 0..Packets]]
  BY <1>1 DEF TypeOK
<1>5. b \in [Priorities -> 0..Packets] /\ \A r \in Priorities : b[r] <= sent'
  <2>1. \A r \in Priorities : backlog[i][r] \in 0..Packets /\ backlog[i][r] <= sent
    BY <1>1, <1>4 DEF BacklogWasSent
  <2>2. \A r \in Priorities : b[r] = IF r = p THEN backlog[i][r] + 1 ELSE backlog[i][r]
    BY <1>4
  <2>3. b \in [Priorities -> Int]
    BY <1>4, Parameters
  <2> HIDE DEF b
  <2>4. \A r \in Priorities : b[r] \in 0..Packets /\ b[r] <= sent'
    BY <1>2, <2>1, <2>2, Parameters
  <2>5. QED
    BY <2>3, <2>4
<1>6. \/ /\ backlog' = [backlog EXCEPT ![i] = b]
         /\ UNCHANGED <<d, upBusy, wire>>
      \/ StartsFrame(i, b)
  BY DEF UpstreamPush
<1> HIDE DEF b
<1>7. /\ d' \in Switches
      /\ \A j \in Ifaces, r \in Priorities :
            backlog'[j][r] <= (IF j = i THEN b[r] ELSE backlog[j][r])
      /\ backlog' \in [Ifaces -> [Priorities -> 0..Packets]]
      /\ upBusy' \in [Ifaces -> BOOLEAN]
      /\ wire' \in [Ifaces -> Seq(Priorities)]
      /\ Agree(d', ispaused) /\ Works(d')
  <2>1. CASE StartsFrame(i, b)
    BY <1>5, <2>1, StartsFrameKeeps
  <2>2. CASE backlog' = [backlog EXCEPT ![i] = b] /\ UNCHANGED <<d, upBusy, wire>>
    <3>1. /\ d' \in Switches /\ upBusy' \in [Ifaces -> BOOLEAN] /\ wire' \in [Ifaces -> Seq(Priorities)]
      BY <1>1, <2>2 DEF TypeOK
    <3>2. Agree(d', ispaused) /\ Works(d')
      <4>1. d' = d
        BY <2>2
      <4>2. QED
        BY <1>1, <4>1
    <3>3. backlog' \in [Ifaces -> [Priorities -> 0..Packets]]
          /\ \A j \in Ifaces : backlog'[j] = IF j = i THEN b ELSE backlog[j]
      BY <1>4, <1>5, <2>2
    <3>4. \A r \in Priorities : b[r] <= b[r] /\ \A j \in Ifaces : backlog[j][r] <= backlog[j][r]
      BY <1>4, <1>5, Parameters
    <3>5. QED
      BY <3>1, <3>2, <3>3, <3>4
  <2>3. QED
    BY <1>6, <2>1, <2>2
<1>8. TypeOK'
  BY <1>1, <1>2, <1>3, <1>7, <1>c DEF TypeOK
<1>9. BacklogWasSent'
  <2>1. ASSUME NEW j \in Ifaces, NEW r \in Priorities PROVE backlog'[j][r] <= sent'
    <3>1. backlog[j][r] <= sent
      BY <1>1 DEF BacklogWasSent
    <3>2. backlog[j][r] \in 0..Packets /\ backlog'[j][r] \in 0..Packets /\ b[r] \in 0..Packets
      BY <1>4, <1>5, <1>7
    <3>3. b[r] <= sent'
      BY <1>5
    <3>4. backlog'[j][r] <= (IF j = i THEN b[r] ELSE backlog[j][r])
      BY <1>7
    <3>5. QED
      BY <1>2, <3>1, <3>2, <3>3, <3>4, Parameters
  <2>2. QED
    BY <2>1 DEF BacklogWasSent
<1>10. QED
  BY <1>3, <1>7, <1>8, <1>9, <1>c DEF IInv, Works

LEMMA UpstreamEndIFGKeeps ==
  ASSUME IInv, NEW i \in Ifaces, UpstreamEndIFG(i)
  PROVE  IInv'
<1>1. TypeOK /\ BacklogWasSent /\ StartsFrame(i, backlog[i]) /\ ispaused' = ispaused /\ sent' = sent
  BY DEF IInv, UpstreamEndIFG
<1>c. egStopped' = egStopped /\ upStopped' = upStopped
  BY DEF UpstreamEndIFG, clocks
<1>2. backlog[i] \in [Priorities -> 0..Packets] /\ sent \in 0..Packets
  BY <1>1 DEF TypeOK
<1>3. /\ d' \in Switches
      /\ \A j \in Ifaces, r \in Priorities :
            backlog'[j][r] <= (IF j = i THEN backlog[i][r] ELSE backlog[j][r])
      /\ backlog' \in [Ifaces -> [Priorities -> 0..Packets]]
      /\ upBusy' \in [Ifaces -> BOOLEAN]
      /\ wire' \in [Ifaces -> Seq(Priorities)]
      /\ Agree(d', ispaused) /\ Works(d')
  BY <1>1, <1>2, StartsFrameKeeps
<1>4. TypeOK'
  BY <1>1, <1>3, <1>c DEF TypeOK
<1>5. BacklogWasSent'
  <2>1. ASSUME NEW j \in Ifaces, NEW r \in Priorities PROVE backlog'[j][r] <= sent'
    <3>1. backlog[j][r] <= sent
      BY <1>1 DEF BacklogWasSent
    <3>2. backlog[j][r] \in 0..Packets /\ backlog'[j][r] \in 0..Packets
      BY <1>1, <1>3 DEF TypeOK
    <3>3. backlog'[j][r] <= backlog[j][r]
      BY <1>3
    <3>4. QED
      BY <1>1, <1>2, <3>1, <3>2, <3>3, Parameters
  <2>2. QED
    BY <2>1 DEF BacklogWasSent
<1>6. QED
  BY <1>1, <1>3, <1>4, <1>5, <1>c DEF IInv, Works

LEMMA FrameArrivesKeeps ==
  ASSUME IInv, NEW i \in Ifaces, FrameArrives(i)
  PROVE  IInv'
<1>1. TypeOK /\ BacklogWasSent /\ Agree(d, ispaused) /\ Works(d)
  BY DEF IInv
<1>c. egStopped' = egStopped /\ upStopped' = upStopped
  BY DEF FrameArrives, clocks
<1>2. /\ wire[i] # <<>> /\ d' \in Arrived(d, i, Head(wire[i]))
      /\ wire' = [wire EXCEPT ![i] = Tail(@)]
      /\ UNCHANGED <<backlog, ispaused, upBusy, sent>>
  BY DEF FrameArrives
<1>3. wire[i] \in Seq(Priorities) /\ d \in Switches /\ ispaused \in Flags
  BY <1>1 DEF TypeOK, Flags
<1>4. Head(wire[i]) \in Priorities /\ Tail(wire[i]) \in Seq(Priorities)
  BY <1>2, <1>3
<1>5. d' \in Switches /\ Agree(d', ispaused) /\ Works(d')
  BY <1>1, <1>2, <1>3, <1>4, ArrivedKeeps
<1>6. wire' \in [Ifaces -> Seq(Priorities)]
  BY <1>1, <1>2, <1>4 DEF TypeOK
<1>7. TypeOK'
  BY <1>1, <1>2, <1>5, <1>6, <1>c DEF TypeOK
<1>8. BacklogWasSent'
  <2>1. UNCHANGED <<backlog, sent>>
    BY <1>2
  <2>2. QED
    BY <1>1, <2>1, Zenon DEF BacklogWasSent
<1>9. ispaused' = ispaused
  BY <1>2
<1>10. QED
  BY <1>5, <1>7, <1>8, <1>9, <1>c DEF IInv, Works

LEMMA PfcFrameKeeps ==
  ASSUME IInv, NEW i \in Ifaces, processpfcframe(i)
  PROVE  IInv'
<1> DEFINE w == d.pfcWire[i]
           f == Head(w)
<1>1. TypeOK /\ BacklogWasSent /\ Agree(d, ispaused) /\ Works(d)
  BY DEF IInv
<1>c. egStopped' = egStopped /\ upStopped' = upStopped
  BY DEF processpfcframe, clocks
<1>2. /\ w # <<>>
      /\ ispaused' = [ispaused EXCEPT ![i] = Paused(i, f)]
      /\ d' = [d EXCEPT !.pfcWire[i] = Tail(w)]
      /\ UNCHANGED <<backlog, upBusy, wire, sent>>
  BY DEF processpfcframe
<1>3. d \in Switches /\ w \in Seq(Frame)
  <2>1. d \in Switches
    BY <1>1, Zenon DEF TypeOK
  <2>2. d.pfcWire[i] \in Seq(Frame)
    BY <2>1, PartsOf
  <2>3. QED
    BY <2>1, <2>2
<1> HIDE DEF w
<1>4. f \in Frame /\ Tail(w) \in Seq(Frame)
  BY <1>2, <1>3
<1> HIDE DEF f
<1> DEFINE e == [d EXCEPT !.pfcWire[i] = Tail(w)]
<1>e. /\ e \in Switches /\ e.egBusy = d.egBusy /\ e.sw = d.sw /\ e.lost = d.lost
      /\ e.pfcWire = [d.pfcWire EXCEPT ![i] = Tail(w)]
  <2> DEFINE v == Tail(w)
  <2>1. v \in Seq(Frame)
    BY <1>4
  <2> HIDE DEF v
  <2>2. /\ [d EXCEPT !.pfcWire[i] = v] \in Switches
        /\ [d EXCEPT !.pfcWire[i] = v].egBusy = d.egBusy
        /\ [d EXCEPT !.pfcWire[i] = v].sw = d.sw
        /\ [d EXCEPT !.pfcWire[i] = v].pfcWire = [d.pfcWire EXCEPT ![i] = v]
        /\ [d EXCEPT !.pfcWire[i] = v].lost = d.lost
    BY <1>3, <2>1, WireChanged
  <2>3. QED
    BY <2>2 DEF v
<1>d. d' = e
  BY <1>2
<1> HIDE DEF e
<1>5. /\ d' \in Switches /\ d'.egBusy = d.egBusy /\ d'.sw = d.sw /\ d'.lost = d.lost
      /\ d'.pfcWire = [d.pfcWire EXCEPT ![i] = Tail(w)]
  BY <1>e, <1>d
<1>6. ispaused \in [Ifaces -> [Priorities -> BOOLEAN]]
  BY <1>1 DEF TypeOK
<1>7. /\ f.priority \in Priorities
      /\ Paused(i, f) = [ispaused[i] EXCEPT ![f.priority] = (f.op = "PAUSE")]
  BY <1>4 DEF Paused, Frame
<1>8. /\ ispaused' \in [Ifaces -> [Priorities -> BOOLEAN]]
      /\ \A r \in Priorities : ispaused'[i][r] = IF f.priority = r THEN f.op = "PAUSE"
                                                  ELSE ispaused[i][r]
      /\ \A j \in Ifaces \ {i} : ispaused'[j] = ispaused[j]
  BY <1>2, <1>6, <1>7
<1>9. Agree(d', ispaused')
  <2>1. ASSUME NEW j \in Ifaces, NEW r \in Priorities
        PROVE  AfterFrames(d'.pfcWire[j], ispaused'[j][r], r)
                   <=> AfterFrames(d.pfcWire[j], ispaused[j][r], r)
    <3>1. CASE j = i
      <4>1. d'.pfcWire[j] = Tail(w) /\ d.pfcWire[j] = w /\ ispaused[j][r] \in BOOLEAN
        BY <1>3, <1>5, <1>6, <3>1, PartsOf DEF w
      <4>2. AfterFrames(w, ispaused[j][r], r)
               <=> AfterFrames(Tail(w), IF f.priority = r THEN f.op = "PAUSE" ELSE ispaused[j][r], r)
        BY <1>2, <1>3, <4>1, AfterTail DEF f
      <4>3. ispaused'[j][r] = IF f.priority = r THEN f.op = "PAUSE" ELSE ispaused[j][r]
        BY <1>8, <3>1
      <4>4. QED
        BY <4>1, <4>2, <4>3
    <3>2. CASE j # i
      <4>1. d'.pfcWire[j] = d.pfcWire[j] /\ ispaused'[j] = ispaused[j]
        BY <1>3, <1>5, <1>8, <3>2, PartsOf
      <4>2. QED
        BY <4>1
    <3>3. QED
      BY <3>1, <3>2
  <2>2. QED
    BY <1>1, <1>5, <2>1 DEF Agree
<1>10. Works(d')
  BY <1>1, <1>5 DEF Works
<1>11. TypeOK'
  BY <1>1, <1>2, <1>5, <1>8, <1>c DEF TypeOK
<1>12. QED
  BY <1>1, <1>2, <1>9, <1>10, <1>11, <1>c DEF IInv, BacklogWasSent, Works

LEMMA ReverseKeeps ==
  ASSUME IInv, NEW i \in Ifaces, ReverseFrame(i) \/ ReverseEndIFG(i)
  PROVE  IInv'
<1>1. TypeOK /\ BacklogWasSent /\ Agree(d, ispaused) /\ Works(d)
  BY DEF IInv
<1>c. egStopped' = egStopped /\ upStopped' = upStopped
  BY DEF ReverseFrame, ReverseEndIFG, clocks
<1>2. PICK b \in BOOLEAN : d' = [d EXCEPT !.macBusy[i] = b]
  BY DEF ReverseFrame, ReverseEndIFG
<1>3. UNCHANGED <<backlog, ispaused, upBusy, wire, sent>>
  BY DEF ReverseFrame, ReverseEndIFG
<1>4. /\ d' \in Switches /\ d'.egBusy = d.egBusy /\ d'.sw = d.sw /\ d'.lost = d.lost
      /\ d'.pfcWire = d.pfcWire
  BY <1>1, <1>2, MacBusyChanged DEF TypeOK
<1>5. Agree(d', ispaused) /\ Works(d')
  BY <1>1, <1>4 DEF Agree, Works
<1>6. TypeOK'
  BY <1>1, <1>3, <1>4, <1>c DEF TypeOK
<1>7. QED
  BY <1>1, <1>3, <1>5, <1>6, <1>c DEF IInv, BacklogWasSent, Works

LEMMA EgressEndIFGKeeps == IInv /\ EgressEndIFG => IInv'
<1> SUFFICES ASSUME IInv, EgressEndIFG PROVE IInv'
  OBVIOUS
<1>1. TypeOK /\ BacklogWasSent /\ Agree(d, ispaused)
  BY DEF IInv
<1>c. egStopped' = egStopped /\ upStopped' = upStopped
  BY DEF EgressEndIFG, clocks
<1>2. d' = Dequeued(d) /\ UNCHANGED <<backlog, ispaused, upBusy, wire, sent>>
  BY DEF EgressEndIFG, AfterIFG
<1>3. d' \in Switches /\ Agree(d', ispaused) /\ Works(d')
  BY <1>1, <1>2, DequeuedKeeps DEF TypeOK, Flags
<1>4. TypeOK'
  BY <1>1, <1>2, <1>3, <1>c DEF TypeOK
<1>5. QED
  BY <1>1, <1>2, <1>3, <1>4, <1>c DEF IInv, BacklogWasSent, Works

LEMMA StopKeeps == IInv /\ StopTimePasses => IInv'
<1> SUFFICES ASSUME IInv, StopTimePasses PROVE IInv'
  OBVIOUS
<1>1. TypeOK /\ BacklogWasSent /\ Agree(d, ispaused) /\ Works(d)
  BY DEF IInv
<1>2. UNCHANGED <<d, backlog, ispaused, upBusy, wire, sent>>
  BY DEF StopTimePasses
<1>3. /\ egStopped' \in BOOLEAN /\ (egStopped => egStopped')
      /\ upStopped' \in [Ifaces -> BOOLEAN]
  BY <1>1 DEF StopTimePasses, TypeOK
<1>4. TypeOK' /\ BacklogWasSent'
  BY <1>1, <1>2, <1>3 DEF TypeOK, BacklogWasSent
<1>5. Works(d)'
  BY <1>1, <1>2, <1>3 DEF Works
<1>6. QED
  BY <1>1, <1>2, <1>4, <1>5 DEF IInv

LEMMA StepIInv == IInv /\ [Next]_vars => IInv'
<1> SUFFICES ASSUME IInv, [Next]_vars PROVE IInv'
  OBVIOUS
<1>1. ASSUME NEW i \in Ifaces, NEW p \in Priorities, UpstreamPush(i, p) PROVE IInv'
  BY <1>1, UpstreamPushKeeps
<1>2. ASSUME NEW i \in Ifaces, UpstreamEndIFG(i) PROVE IInv'
  BY <1>2, UpstreamEndIFGKeeps
<1>3. ASSUME NEW i \in Ifaces, FrameArrives(i) PROVE IInv'
  BY <1>3, FrameArrivesKeeps
<1>4. ASSUME NEW i \in Ifaces, processpfcframe(i) PROVE IInv'
  BY <1>4, PfcFrameKeeps
<1>5. ASSUME NEW i \in Ifaces, ReverseFrame(i) \/ ReverseEndIFG(i) PROVE IInv'
  BY <1>5, ReverseKeeps
<1>6. CASE EgressEndIFG
  BY <1>6, EgressEndIFGKeeps
<1>7. CASE StopTimePasses
  BY <1>7, StopKeeps
<1>8. CASE UNCHANGED vars
  BY <1>8 DEF vars, clocks, IInv, TypeOK, BacklogWasSent, Works
<1>9. QED
  BY <1>1, <1>2, <1>3, <1>4, <1>5, <1>6, <1>7, <1>8 DEF Next

\* The inductive invariant.
THEOREM Invariant == Spec => []IInv
<1>1. Init => IInv
  BY InitIInv
<1>2. IInv /\ [Next]_vars => IInv'
  BY StepIInv
<1>3. QED
  BY <1>1, <1>2, PTL DEF Spec

\* Queues, wires, flags and backlogs stay well formed, whatever the handlers
\* nest, and no upstream port sends a packet that it does not have.
THEOREM TypeCorrect == Spec => []TypeOK
<1>1. IInv => TypeOK
  BY DEF IInv
<1>2. QED
  BY <1>1, Invariant, PTL

\* A queue and the upstream schedulers agree about every pause, up to the PFC
\* frames under way, unless the last command was dropped by a busy MAC
\* (REDPFCQueue, processpfccommand, processpfcframe).
THEOREM Agreement == Spec => []PausesAgree
<1>1. IInv => PausesAgree
  BY AgreeIsPausesAgree DEF IInv
<1>2. QED
  BY <1>1, Invariant, PTL

\* Until stopTime the egress MAC does not idle while a queue holds a packet
\* (handleCanPullPacketChanged, handleEndIFGPeriod).
THEOREM WorkConserving == Spec => []EgressWorkConserving
<1>1. IInv => EgressWorkConserving
  BY WorksIsWorkConserving DEF IInv
<1>2. QED
  BY <1>1, Invariant, PTL

-----------------------------------------------------------------------------
(***************************************************************************)
(* With the headroom, a packet is dropped only after a PAUSE was lost.     *)
(***************************************************************************)
HInv == IInv /\ WiresFit(wire) /\ Room(d, wire)

LEMMA InitHInv ==
  ASSUME HeadroomSuffices, Init
  PROVE  HInv
<1>1. IInv
  BY InitIInv
<1>2. WiresFit(wire)
  BY PfcLinkAssumption DEF Init, WiresFit
<1>3. ASSUME NEW p \in Priorities PROVE Roomy(d, wire, p)
  <2> DEFINE b == [i \in Ifaces |-> MostUnderWay]
             g == Cardinality(Granted(b))
             z == Cardinality(Slots)
  <2>1. IsFiniteSet(Ifaces) /\ XON < XOFF
    BY DEF HeadroomSuffices
  <2>2. b \in Budgets /\ \A i \in Ifaces : b[i] = MostUnderWay
    BY <2>1, FullBudgets
  <2> HIDE DEF b
  <2>3. g \in Nat /\ z \in Nat /\ g <= z
    BY <2>1, <2>2, GrantedCounted, SlotsCounted
  <2>4. d.sw.paused[p] = {} /\ Len(d.sw.queue[p]) = 0
    BY DEF Init
  <2>5. XON \in Nat /\ XOFF \in Nat
    BY PfcLinkAssumption
  <2> HIDE DEF g, z
  <2>6. 0 + g <= XOFF - 1 + z
    BY <2>1, <2>3, <2>5
  <2>7. Enough(d, wire, p, b)
    BY <2>2, <2>4, <2>6 DEF Enough, g, z
  <2>8. QED
    BY <2>2, <2>7 DEF Roomy
<1>4. QED
  BY <1>1, <1>2, <1>3 DEF HInv, Room

\* A port that is to be paused and is not has the PAUSE under way to it.
LEMMA PauseUnderWay ==
  ASSUME IInv, NEW i \in Ifaces, NEW p \in Priorities, i \in d.sw.paused[p],
         ~d.lost[i][p], ~ispaused[i][p]
  PROVE  \E k \in 1..Len(d.pfcWire[i]) : d.pfcWire[i][k].priority = p
<1>1. Agree(d, ispaused)
  BY DEF IInv
<1>2. AfterFrames(d.pfcWire[i], ispaused[i][p], p)
  BY <1>1 DEF Agree
<1>3. QED
  BY <1>2 DEF AfterFrames

LEMMA RoomAfterStart ==
  ASSUME HeadroomSuffices, HInv, NEW i \in Ifaces, NEW q \in [Priorities -> 0..Packets],
         StartsFrame(i, q)
  PROVE  WiresFit(wire') /\ Room(d', wire') /\ d'.dropped = d.dropped
<1>1. /\ d \in Switches /\ wire \in Wires /\ WiresFit(wire) /\ Room(d, wire) /\ IInv
      /\ IsFiniteSet(Ifaces)
  BY DEF HInv, IInv, TypeOK, Wires, HeadroomSuffices
<1>2. CASE Pullable(i, q) = {} \/ upStopped[i]
  <2>1. d' = d /\ wire' = wire
    BY <1>2, Zenon DEF StartsFrame
  <2>2. QED
    BY <1>1, <2>1
<1>3. CASE Pullable(i, q) # {} /\ ~upStopped[i]
  <2> DEFINE p == CHOOSE x \in Pullable(i, q) : \A y \in Pullable(i, q) : x <= y
             u == d.pfcWire[i]
             a == [k \in DOMAIN u |-> [u[k] EXCEPT !.overtaken = @ + 1]]
  <2>1. /\ Len(wire[i]) < WireFrames
        /\ \A k \in 1..Len(u) : u[k].overtaken < PfcDelay
        /\ wire' = [wire EXCEPT ![i] = Append(@, p)]
        /\ d' = [d EXCEPT !.pfcWire[i] = Aged(u)]
    BY <1>3, Zenon DEF StartsFrame
  <2>2. p \in Priorities /\ ~ispaused[i][p]
    <3>1. Pullable(i, q) \in SUBSET Nat
      BY Parameters DEF Pullable, Priorities
    <3>2. \E x \in Pullable(i, q) : \A y \in Pullable(i, q) : x <= y
      BY <1>3, <3>1, LeastNat
    <3>3. p \in Pullable(i, q)
      BY <3>2
    <3>4. QED
      BY <3>3 DEF Pullable
  <2> HIDE DEF p
  <2>3. u \in Seq(Frame)
    BY <1>1, PartsOf
  <2>4. /\ a \in Seq(Frame) /\ Len(a) = Len(u)
        /\ \A k \in 1..Len(u) : /\ a[k].priority = u[k].priority
                                /\ a[k].overtaken = u[k].overtaken + 1
    <3>1. DOMAIN u = 1..Len(u) /\ Len(u) \in Nat /\ \A k \in 1..Len(u) : u[k] \in Frame
      BY <2>3
    <3>2. \A f \in Frame : /\ [f EXCEPT !.overtaken = @ + 1] \in Frame
                            /\ [f EXCEPT !.overtaken = @ + 1].overtaken = f.overtaken + 1
                            /\ [f EXCEPT !.overtaken = @ + 1].priority = f.priority
      BY DEF Frame
    <3>3. \A k \in 1..Len(u) : /\ a[k].priority = u[k].priority
                                /\ a[k].overtaken = u[k].overtaken + 1
      BY <3>1, <3>2
    <3>4. a \in [1..Len(u) -> Frame]
      BY <3>1, <3>2
    <3>5. a \in Seq(Frame) /\ Len(a) = Len(u)
      <4> HIDE DEF a, u
      <4>1. QED
        BY <3>1, <3>4
    <3>6. QED
      BY <3>3, <3>5
  <2>5. d' = [d EXCEPT !.pfcWire[i] = a]
    BY <2>1, Zenon DEF Aged
  <2> HIDE DEF a
  <2>6. /\ d' \in Switches /\ d'.sw = d.sw /\ d'.lost = d.lost /\ d'.dropped = d.dropped
        /\ d'.pfcWire = [d.pfcWire EXCEPT ![i] = a]
    <3>1. d'.dropped = d.dropped
      BY <1>1, <2>5, PartsOf
    <3>2. QED
      BY <1>1, <2>4, <2>5, <3>1, WireChanged
  <2>7. /\ d'.pfcWire[i] = a
        /\ \A j \in Ifaces \ {i} : d'.pfcWire[j] = d.pfcWire[j]
    BY <1>1, <2>6, PartsOf
  <2>8. /\ wire[i] \in Seq(Priorities)
        /\ wire'[i] = Append(wire[i], p)
        /\ \A j \in Ifaces \ {i} : wire'[j] = wire[j]
    BY <1>1, <2>1 DEF Wires
  <2>9. WiresFit(wire')
    <3>1. Len(wire'[i]) = Len(wire[i]) + 1 /\ Len(wire[i]) \in Nat
      BY <2>2, <2>8
    <3>2. WireFrames \in Nat
      BY PfcLinkAssumption
    <3>3. Len(wire'[i]) <= WireFrames
      BY <2>1, <3>1, <3>2
    <3>4. QED
      BY <1>1, <2>8, <3>3 DEF WiresFit
  <2>10. ASSUME NEW r \in Priorities PROVE Roomy(d', wire', r)
    <3>1. Len(d.sw.queue[r]) \in Nat /\ d.sw.paused[r] \in SUBSET Ifaces
      BY <1>1, PartsOf, QueueLens
    <3>2. ASSUME NEW j \in d.sw.paused[r], ~d.lost[j][r], NEW c \in Nat,
                 Covers(wire[j], d.pfcWire[j], r, c)
          PROVE  Covers(wire'[j], d'.pfcWire[j], r, c)
      <4>1. CASE j = i
        <5>1. p = r => \E k \in 1..Len(u) : u[k].priority = r
          BY <1>1, <2>2, <3>2, <4>1, PauseUnderWay
        <5>2. Covers(wire[i], u, r, c)
          BY <3>2, <4>1
        <5> HIDE DEF u
        <5>3. Covers(Append(wire[i], p), a, r, c)
          BY <2>1, <2>2, <2>3, <2>4, <2>8, <5>1, <5>2, CoversStart
        <5>4. QED
          BY <2>7, <2>8, <4>1, <5>3
      <4>2. CASE j # i
        <5>1. j \in Ifaces \ {i}
          BY <3>1, <4>2
        <5>2. QED
          BY <2>7, <2>8, <3>2, <5>1
      <4>3. QED
        BY <4>1, <4>2
    <3>3. \A j \in d.sw.paused[r] :
             /\ d.lost[j][r] => d'.lost[j][r]
             /\ ~d.lost[j][r] => \A c \in Nat : Covers(wire[j], d.pfcWire[j], r, c)
                                                  => Covers(wire'[j], d'.pfcWire[j], r, c)
      BY <2>6, <3>2
    <3>4. /\ d'.sw.paused[r] = d.sw.paused[r]
          /\ Len(d'.sw.queue[r]) \in Nat /\ Len(d'.sw.queue[r]) <= Len(d.sw.queue[r])
      BY <2>6, <3>1
    <3>5. Roomy(d, wire, r)
      BY <1>1 DEF Room
    <3>6. QED
      BY <1>1, <3>1, <3>3, <3>4, <3>5, RoomyKept
  <2>11. QED
    BY <2>6, <2>9, <2>10 DEF Room
<1>4. QED
  BY <1>2, <1>3

LEMMA RoomAfterPfcFrame ==
  ASSUME HeadroomSuffices, HInv, NEW i \in Ifaces, processpfcframe(i)
  PROVE  WiresFit(wire') /\ Room(d', wire') /\ d'.dropped = d.dropped
<1> DEFINE u == d.pfcWire[i]
           a == Tail(u)
<1>1. /\ d \in Switches /\ wire \in Wires /\ WiresFit(wire) /\ Room(d, wire)
      /\ IsFiniteSet(Ifaces)
  BY DEF HInv, IInv, TypeOK, Wires, HeadroomSuffices
<1>2. u # <<>> /\ d' = [d EXCEPT !.pfcWire[i] = a] /\ wire' = wire
  BY DEF processpfcframe
<1>3. u \in Seq(Frame)
  BY <1>1, PartsOf
<1> HIDE DEF u
<1>4. a \in Seq(Frame)
  BY <1>2, <1>3
<1> HIDE DEF a
<1>5. /\ d' \in Switches /\ d'.sw = d.sw /\ d'.lost = d.lost /\ d'.dropped = d.dropped
      /\ d'.pfcWire = [d.pfcWire EXCEPT ![i] = a]
  <2>1. d'.dropped = d.dropped
    BY <1>1, <1>2, PartsOf
  <2>2. QED
    BY <1>1, <1>2, <1>4, <2>1, WireChanged
<1>6. /\ d'.pfcWire[i] = a
      /\ \A j \in Ifaces \ {i} : d'.pfcWire[j] = d.pfcWire[j]
  BY <1>1, <1>5, PartsOf
<1>7. ASSUME NEW r \in Priorities PROVE Roomy(d', wire, r)
  <2>1. Len(d.sw.queue[r]) \in Nat /\ d.sw.paused[r] \in SUBSET Ifaces
    BY <1>1, PartsOf, QueueLens
  <2>2. ASSUME NEW j \in d.sw.paused[r], NEW c \in Nat, Covers(wire[j], d.pfcWire[j], r, c)
        PROVE  Covers(wire[j], d'.pfcWire[j], r, c)
    <3>1. CASE j = i
      <4>1. Covers(wire[j], u, r, c)
        BY <2>2, <3>1 DEF u
      <4>2. Covers(wire[j], Tail(u), r, c)
        BY <1>2, <1>3, <4>1, CoversPfcArrival
      <4>3. QED
        BY <1>6, <3>1, <4>2 DEF a
    <3>2. CASE j # i
      <4>1. j \in Ifaces \ {i}
        BY <2>1, <3>2
      <4>2. QED
        BY <1>6, <2>2, <4>1
    <3>3. QED
      BY <3>1, <3>2
  <2>3. \A j \in d.sw.paused[r] :
           /\ d.lost[j][r] => d'.lost[j][r]
           /\ ~d.lost[j][r] => \A c \in Nat : Covers(wire[j], d.pfcWire[j], r, c)
                                                => Covers(wire[j], d'.pfcWire[j], r, c)
    BY <1>5, <2>2
  <2>4. /\ d'.sw.paused[r] = d.sw.paused[r]
        /\ Len(d'.sw.queue[r]) \in Nat /\ Len(d'.sw.queue[r]) <= Len(d.sw.queue[r])
    BY <1>5, <2>1
  <2>5. Roomy(d, wire, r)
    BY <1>1 DEF Room
  <2>6. QED
    BY <1>1, <2>1, <2>3, <2>4, <2>5, RoomyKept
<1>8. QED
  BY <1>1, <1>2, <1>5, <1>7 DEF Room

\* What a step does to the room and to the drops.
DropsAreExcused == \A p \in d'.dropped \ d.dropped : PauseLost(d, p)

LEMMA StepRoom ==
  ASSUME HeadroomSuffices, HInv, [Next]_vars
  PROVE  WiresFit(wire') /\ Room(d', wire') /\ DropsAreExcused
<1>1. /\ d \in Switches /\ wire \in Wires /\ WiresFit(wire) /\ Room(d, wire) /\ IInv
      /\ Agree(d, ispaused) /\ ispaused \in Flags
      /\ backlog \in [Ifaces -> [Priorities -> 0..Packets]]
  BY DEF HInv, IInv, TypeOK, Wires, Flags
<1>2. d'.dropped = d.dropped => DropsAreExcused
  BY DEF DropsAreExcused
<1>3. ASSUME d'.sw = d.sw, d'.pfcWire = d.pfcWire, d'.lost = d.lost, d'.dropped = d.dropped,
             wire' = wire
      PROVE  WiresFit(wire') /\ Room(d', wire') /\ DropsAreExcused
  BY <1>1, <1>2, <1>3, RoomOfParts
<1>4. ASSUME NEW i \in Ifaces, NEW p \in Priorities, UpstreamPush(i, p)
      PROVE  WiresFit(wire') /\ Room(d', wire') /\ DropsAreExcused
  <2> DEFINE q == [backlog[i] EXCEPT ![p] = @ + 1]
  <2>1. \/ UNCHANGED <<d, wire>>
        \/ StartsFrame(i, q)
    BY <1>4 DEF UpstreamPush
  <2>2. q \in [Priorities -> 0..Packets]
    <3>1. backlog[i][p] \in 0..Packets /\ backlog[i][p] <= sent /\ sent < Packets /\ sent \in Nat
      BY <1>4, Parameters DEF HInv, IInv, TypeOK, BacklogWasSent, UpstreamPush
    <3>2. backlog[i][p] + 1 \in 0..Packets
      BY <3>1, Parameters
    <3>3. QED
      BY <1>1, <3>2
  <2> HIDE DEF q
  <2>3. CASE UNCHANGED <<d, wire>>
    BY <1>3, <2>3
  <2>4. CASE StartsFrame(i, q)
    BY <1>2, <2>2, <2>4, RoomAfterStart
  <2>5. QED
    BY <2>1, <2>3, <2>4
<1>5. ASSUME NEW i \in Ifaces, UpstreamEndIFG(i)
      PROVE  WiresFit(wire') /\ Room(d', wire') /\ DropsAreExcused
  <2>1. StartsFrame(i, backlog[i]) /\ backlog[i] \in [Priorities -> 0..Packets]
    BY <1>1, <1>5 DEF UpstreamEndIFG
  <2>2. QED
    BY <1>2, <2>1, RoomAfterStart
<1>6. ASSUME NEW i \in Ifaces, FrameArrives(i)
      PROVE  WiresFit(wire') /\ Room(d', wire') /\ DropsAreExcused
  <2> DEFINE p == Head(wire[i])
             v == [wire EXCEPT ![i] = Tail(@)]
  <2>1. wire[i] # <<>> /\ d' \in Arrived(d, i, p) /\ wire' = v
    BY <1>6 DEF FrameArrives
  <2>2. wire[i] \in Seq(Priorities)
    BY <1>1 DEF Wires
  <2>3. p \in Priorities /\ Tail(wire[i]) \in Seq(Priorities) /\ Len(Tail(wire[i])) <= Len(wire[i])
        /\ Len(Tail(wire[i])) \in Nat /\ Len(wire[i]) \in Nat
    BY <2>1, <2>2
  <2>4. /\ v \in Wires /\ v[i] = Tail(wire[i])
        /\ \A j \in Ifaces \ {i} : v[j] = wire[j]
    BY <1>1, <2>3 DEF Wires
  <2> HIDE DEF v
  <2>5. Room(d', v) /\ \A r \in d'.dropped \ d.dropped : PauseLost(d, r)
    <3>1. Head(wire[i]) = p
      OBVIOUS
    <3> HIDE DEF p
    <3>2. QED
      BY <1>1, <2>1, <2>3, <2>4, <3>1, ArrivedInRoom
  <2>6. WiresFit(v)
    <3>1. WireFrames \in Nat
      BY PfcLinkAssumption
    <3>2. Len(wire[i]) <= WireFrames
      BY <1>1 DEF WiresFit
    <3>3. Len(v[i]) <= WireFrames
      BY <2>3, <2>4, <3>1, <3>2
    <3>4. QED
      BY <1>1, <2>4, <3>3 DEF WiresFit
  <2>7. QED
    BY <2>1, <2>5, <2>6 DEF DropsAreExcused
<1>7. ASSUME NEW i \in Ifaces, processpfcframe(i)
      PROVE  WiresFit(wire') /\ Room(d', wire') /\ DropsAreExcused
  BY <1>2, <1>7, RoomAfterPfcFrame
<1>8. ASSUME NEW i \in Ifaces, ReverseFrame(i) \/ ReverseEndIFG(i)
      PROVE  WiresFit(wire') /\ Room(d', wire') /\ DropsAreExcused
  <2>1. PICK b \in BOOLEAN : d' = [d EXCEPT !.macBusy[i] = b]
    BY <1>8 DEF ReverseFrame, ReverseEndIFG
  <2>2. wire' = wire
    BY <1>8 DEF ReverseFrame, ReverseEndIFG
  <2>3. d'.sw = d.sw /\ d'.pfcWire = d.pfcWire /\ d'.lost = d.lost
    BY <1>1, <2>1, MacBusyChanged
  <2>4. d'.dropped = d.dropped
    BY <1>1, <2>1, PartsOf
  <2>5. QED
    BY <1>3, <2>2, <2>3, <2>4
<1>9. CASE EgressEndIFG
  <2>1. d' = Dequeued(d) /\ wire' = wire
    BY <1>9 DEF EgressEndIFG, AfterIFG
  <2>2. Room(Dequeued(d), wire) /\ Dequeued(d).dropped = d.dropped
    BY <1>1, RoomAfterDequeue, DequeueDropsNone
  <2>3. QED
    BY <1>1, <1>2, <2>1, <2>2
<1>10. CASE StopTimePasses \/ UNCHANGED vars
  BY <1>3, <1>10 DEF StopTimePasses, vars
<1>11. QED
  BY <1>4, <1>5, <1>6, <1>7, <1>8, <1>9, <1>10 DEF Next

\* PFC is lossless as far as its commands are sent: when XON lies below XOFF
\* and dataCapacity leaves the queue room for every packet that the upstream
\* ports may send before a PAUSE reaches them, BufferManagement drops a packet
\* only after a busy MAC dropped a PAUSE of its queue
\* (REDPFCQueue::pushPacket, BufferManagement, processpfccommand).
THEOREM Lossless ==
  ASSUME HeadroomSuffices
  PROVE  Spec => LosslessUnlessPauseLost
<1>1. Init => HInv
  BY InitHInv
<1>2. HInv /\ [Next]_vars => HInv'
  <2>1. SUFFICES ASSUME HInv, [Next]_vars PROVE HInv'
    OBVIOUS
  <2>2. IInv'
    BY <2>1, StepIInv DEF HInv
  <2>3. WiresFit(wire') /\ Room(d', wire')
    BY <2>1, StepRoom
  <2>4. QED
    BY <2>2, <2>3 DEF HInv
<1>3. HInv /\ [Next]_vars => [\A p \in d'.dropped \ d.dropped : \E i \in Ifaces : d.lost[i][p]]_vars
  <2>1. SUFFICES ASSUME HInv, [Next]_vars
                 PROVE  \A p \in d'.dropped \ d.dropped : \E i \in Ifaces : d.lost[i][p]
    OBVIOUS
  <2>2. DropsAreExcused
    BY <2>1, StepRoom
  <2>3. d \in Switches
    BY <2>1 DEF HInv, IInv, TypeOK
  <2>4. d'.dropped \subseteq Priorities
    <3>1. IInv'
      BY <2>1, StepIInv DEF HInv
    <3>2. d' \in Switches
      BY <3>1 DEF IInv, TypeOK
    <3>3. QED
      BY <3>2, PartsOf
  <2>5. \A p \in Priorities : d.sw.paused[p] \subseteq Ifaces
    BY <2>3, PartsOf DEF QueueState
  <2>6. QED
    BY <2>2, <2>4, <2>5 DEF DropsAreExcused, PauseLost
<1>4. QED
  BY <1>1, <1>2, <1>3, PTL DEF Spec, LosslessUnlessPauseLost
=============================================================================

------------------------- MODULE REDPFCQueue_proofs -------------------------
(***************************************************************************)
(* Proofs about REDPFCQueue for any number of queues, any traffic and any  *)
(* setting of the parameters; a theorem that needs more of the parameters  *)
(* than SwitchAssumption says so in its ASSUME.                            *)
(***************************************************************************)
EXTENDS REDPFCQueue, PrefixSum_proofs

SwitchState == [shared   : Int,
                queue    : [Queues -> Seq(Traffic)],
                paused   : [Queues -> SUBSET Ifaces],
                markNext : [Queues -> BOOLEAN]]

LEMMA TrafficLengths == \A p \in Traffic : p.len \in Nat /\ p.len > 0
BY SwitchAssumption

\* Lengths and excesses are natural numbers.
LEMMA QueueLengthType ==
  ASSUME NEW s \in SwitchState, NEW q \in Queues
  PROVE  Length(s.queue[q]) \in Nat /\ Excess(s, q) \in Nat
<1>1. s.queue[q] \in Seq(Traffic)
  BY DEF SwitchState
<1>2. Length(s.queue[q]) \in Nat
  BY <1>1, LengthType, TrafficLengths
<1>3. DataCapacity \in Int
  BY SwitchAssumption DEF NoLimit
<1>4. QED
  BY <1>2, <1>3 DEF Excess

\* A packet taken off a queue is credited with a number of its own length at
\* most, and a number that is not negative.
LEMMA ReleaseType ==
  ASSUME NEW s \in SwitchState, NEW q \in Queues, s.queue[q] # <<>>
  PROVE  /\ Release(s, q) \in Nat
         /\ Release(s, q) <= Head(s.queue[q]).len
         /\ Head(s.queue[q]) \in Traffic
         /\ Tail(s.queue[q]) \in Seq(Traffic)
<1>1. Head(s.queue[q]) \in Traffic /\ Tail(s.queue[q]) \in Seq(Traffic)
  BY DEF SwitchState
<1>2. Head(s.queue[q]).len \in Nat
  BY <1>1, TrafficLengths
<1>3. Length(s.queue[q]) \in Nat /\ DataCapacity \in Int
  BY QueueLengthType, SwitchAssumption DEF NoLimit
<1> DEFINE n == Length(s.queue[q])
           l == Head(s.queue[q]).len
<1>4. Release(s, q) = IF n - DataCapacity >= l THEN l
                      ELSE IF n >= DataCapacity THEN n - DataCapacity ELSE 0
  BY Zenon DEF Release
<1> HIDE DEF n, l
<1>5. n \in Nat /\ l \in Nat /\ DataCapacity \in Int
  BY <1>2, <1>3 DEF n, l
<1>6. Release(s, q) \in Nat /\ Release(s, q) <= l
  BY <1>4, <1>5
<1>7. QED
  BY <1>1, <1>6 DEF l

-----------------------------------------------------------------------------
(***************************************************************************)
(* The handlers, one operator at a time.                                   *)
(***************************************************************************)
LEMMA ChargedType ==
  ASSUME NEW s \in SwitchState, NEW p \in Traffic
  PROVE  /\ Charged(s, p) \in SwitchState
         /\ Charged(s, p).shared = s.shared - p.len
         /\ Charged(s, p).queue = s.queue
         /\ Charged(s, p).paused = s.paused
<1>1. s.shared \in Int /\ p.len \in Nat
  BY TrafficLengths DEF SwitchState
<1>2. s.shared - p.len \in Int
  BY <1>1
<1> DEFINE n == s.shared - p.len
<1>3. Charged(s, p) = [s EXCEPT !.shared = n]
  BY Zenon DEF Charged
<1> HIDE DEF n
<1>4. n \in Int
  BY <1>2 DEF n
<1>5. /\ Charged(s, p) \in SwitchState /\ Charged(s, p).shared = n
      /\ Charged(s, p).queue = s.queue /\ Charged(s, p).paused = s.paused
  BY <1>3, <1>4 DEF SwitchState
<1>6. QED
  BY <1>5 DEF n

LEMMA PushedType ==
  ASSUME NEW s \in SwitchState, NEW q \in Queues, NEW p \in Traffic
  PROVE  /\ Pushed(s, q, p) \in SwitchState
         /\ Pushed(s, q, p).shared = s.shared
         /\ Pushed(s, q, p).queue = [s.queue EXCEPT ![q] = Append(@, p)]
         /\ \A r \in Queues : r # q => Pushed(s, q, p).paused[r] = s.paused[r]
         /\ ~UsePfc => Pushed(s, q, p).paused[q] = s.paused[q]
<1> DEFINE asked == IF UsePfc /\ PauseDue(Length(Append(s.queue[q], p)), s.shared)
                    THEN s.paused[q] \cup {p.iface} ELSE s.paused[q]
           queue == [s.queue EXCEPT ![q] = Append(@, p)]
           paused == [s.paused EXCEPT ![q] = asked]
<1>1. /\ s.queue \in [Queues -> Seq(Traffic)]
      /\ s.paused \in [Queues -> SUBSET Ifaces]
      /\ s.markNext \in [Queues -> BOOLEAN]
      /\ s.shared \in Int
      /\ s = [shared |-> s.shared, queue |-> s.queue,
               paused |-> s.paused, markNext |-> s.markNext]
  BY DEF SwitchState
<1>2. Pushed(s, q, p) = [shared |-> s.shared, queue |-> queue,
                         paused |-> paused, markNext |-> s.markNext]
  BY Zenon DEF Pushed
<1>3. asked \in SUBSET Ifaces /\ (~UsePfc => asked = s.paused[q])
  BY <1>1, SwitchAssumption
<1> HIDE DEF asked
<1>4. queue \in [Queues -> Seq(Traffic)] /\ paused \in [Queues -> SUBSET Ifaces]
  BY <1>1, <1>3
<1>5. \A r \in Queues : paused[r] = IF r = q THEN asked ELSE s.paused[r]
  BY <1>1
<1> HIDE DEF queue, paused
<1>6. Pushed(s, q, p) \in SwitchState
  BY <1>1, <1>2, <1>4 DEF SwitchState
<1>7. QED
  BY <1>2, <1>3, <1>5, <1>6 DEF queue

\* A push leaves the pool alone.
LEMMA PushedShared ==
  ASSUME NEW s \in SwitchState, NEW q \in Queues, NEW p \in Traffic
  PROVE  Pushed(s, q, p).shared = s.shared
BY DEF Pushed, SwitchState

\* Marking keeps the types of the code and of the flag.
LEMMA MarkedType ==
  ASSUME NEW above, NEW ecn, NEW next \in BOOLEAN
  PROVE  /\ Marked(above, ecn, next).next \in BOOLEAN
         /\ ecn \in EcnCodes => Marked(above, ecn, next).ecn \in EcnCodes
BY DEF Marked, EcnCodes

LEMMA PulledType ==
  ASSUME NEW s \in SwitchState, NEW q \in Queues, s.queue[q] # <<>>,
         NEW above \in BOOLEAN
  PROVE  /\ Pulled(s, q, above) \in SwitchState
         /\ Pulled(s, q, above).shared = s.shared + Release(s, q)
         /\ Pulled(s, q, above).queue = [s.queue EXCEPT ![q] = Tail(@)]
         /\ \A r \in Queues : r # q => Pulled(s, q, above).paused[r] = s.paused[r]
         /\ Pulled(s, q, above).paused[q] =
               IF UsePfc /\ ResumeDue(Length(Tail(s.queue[q])), s.shared + Release(s, q))
               THEN {} ELSE s.paused[q]
<1> DEFINE free == s.shared + Release(s, q)
           asked == IF UsePfc /\ ResumeDue(Length(Tail(s.queue[q])), free)
                    THEN {} ELSE s.paused[q]
           mark == Marked(above, Head(s.queue[q]).ecn, s.markNext[q]).next
           queue == [s.queue EXCEPT ![q] = Tail(@)]
           paused == [s.paused EXCEPT ![q] = asked]
           markNext == [s.markNext EXCEPT ![q] = mark]
<1>1. /\ s.queue \in [Queues -> Seq(Traffic)]
      /\ s.paused \in [Queues -> SUBSET Ifaces]
      /\ s.markNext \in [Queues -> BOOLEAN]
      /\ s.shared \in Int
      /\ s = [shared |-> s.shared, queue |-> s.queue,
               paused |-> s.paused, markNext |-> s.markNext]
      /\ Release(s, q) \in Nat
      /\ Tail(s.queue[q]) \in Seq(Traffic)
  BY ReleaseType DEF SwitchState
<1>2. Pulled(s, q, above) = [shared |-> free, queue |-> queue,
                             paused |-> paused, markNext |-> markNext]
  BY Zenon DEF Pulled
<1>3. free \in Int /\ asked \in SUBSET Ifaces /\ mark \in BOOLEAN
  <2>1. s.markNext[q] \in BOOLEAN
    BY <1>1
  <2>2. mark \in BOOLEAN
    BY <2>1, MarkedType
  <2>3. QED
    BY <1>1, <2>2
<1>4. /\ queue \in [Queues -> Seq(Traffic)]
      /\ paused \in [Queues -> SUBSET Ifaces]
      /\ markNext \in [Queues -> BOOLEAN]
  <2> HIDE DEF asked, mark
  <2>1. QED
    BY <1>1, <1>3
<1>5. \A r \in Queues : paused[r] = IF r = q THEN asked ELSE s.paused[r]
  BY <1>1
<1> HIDE DEF queue, paused, markNext
<1>6. Pulled(s, q, above) \in SwitchState
  BY <1>2, <1>3, <1>4 DEF SwitchState
<1>7. QED
  BY <1>2, <1>5, <1>6 DEF queue

\* A pull gives the memory of its packet back.
LEMMA PulledShared ==
  ASSUME NEW s \in SwitchState, NEW q \in Queues, NEW above \in BOOLEAN
  PROVE  Pulled(s, q, above).shared = s.shared + Release(s, q)
BY DEF Pulled, SwitchState

\* RED's verdict is a truth value.
LEMMA AboveLimitType ==
  ASSUME NEW n
  PROVE  AboveLimit(n) \subseteq BOOLEAN
BY DEF AboveLimit

\* handleMessage leaves the switch as it is, or pushes the packet into the
\* switch as it is or as charged; a charged packet fitted.
LEMMA HandleMessageCases ==
  ASSUME NEW q \in Queues, NEW p \in Traffic, handleMessage(q, p)
  PROVE  /\ UNCHANGED out
         /\ \/ sw' = sw
            \/ sw' = Pushed(sw, q, p) /\ ~isOverloaded(sw, q)
            \/ /\ sw' = Pushed(Charged(sw, p), q, p)
               /\ isOverloaded(sw, q)
               /\ TRUE \in Fits(sw, q, p)
BY Zenon DEF handleMessage, BufferManagement

-----------------------------------------------------------------------------
(***************************************************************************)
(* Type correctness.                                                       *)
(***************************************************************************)
\* The switch keeps its types: Pushed records interfaces, Pulled leaves
\* sequences of packets, marking leaves ECN codes.
THEOREM TypeCorrect == Spec => []TypeOK
<1>1. Init => TypeOK
  BY SwitchAssumption DEF Init, TypeOK, EcnCodes
<1>2. TypeOK /\ [Next]_vars => TypeOK'
  <2> SUFFICES ASSUME TypeOK, [Next]_vars PROVE TypeOK'
    OBVIOUS
  <2>1. sw \in SwitchState /\ out \in EcnCodes
    BY DEF TypeOK, SwitchState
  <2>2. ASSUME NEW q \in Queues, NEW p \in Traffic, handleMessage(q, p)
        PROVE  TypeOK'
    <3>1. sw' \in SwitchState
      <4>1. /\ Charged(sw, p) \in SwitchState
            /\ Pushed(sw, q, p) \in SwitchState
        BY <2>1, ChargedType, PushedType
      <4>2. Pushed(Charged(sw, p), q, p) \in SwitchState
        BY <4>1, PushedType
      <4>3. QED
        BY <2>1, <2>2, <4>1, <4>2, HandleMessageCases
    <3>2. out' = out
      BY <2>2, HandleMessageCases
    <3>3. QED
      BY <2>1, <3>1, <3>2 DEF TypeOK, SwitchState
  <2>3. ASSUME NEW q \in Queues, pullPacket(q)
        PROVE  TypeOK'
    <3>1. PICK above \in AboveLimit(Length(Tail(sw.queue[q]))) :
             /\ sw' = Pulled(sw, q, above)
             /\ out' = Marked(above, Head(sw.queue[q]).ecn, sw.markNext[q]).ecn
      BY <2>3 DEF pullPacket
    <3>2. above \in BOOLEAN /\ sw.queue[q] # <<>>
      BY <2>3, <3>1, AboveLimitType DEF pullPacket
    <3>3. sw' \in SwitchState
      BY <2>1, <3>1, <3>2, PulledType
    <3>4. Head(sw.queue[q]).ecn \in EcnCodes /\ sw.markNext[q] \in BOOLEAN
      BY <2>1, <3>2, ReleaseType, SwitchAssumption DEF SwitchState
    <3>5. out' \in EcnCodes
      BY <3>1, <3>2, <3>4, MarkedType
    <3>6. QED
      BY <3>3, <3>5 DEF TypeOK, SwitchState
  <2>4. CASE UNCHANGED vars
    BY <2>4 DEF vars, TypeOK
  <2>5. QED
    BY <2>2, <2>3, <2>4 DEF Next
<1>3. QED
  BY <1>1, <1>2, PTL DEF Spec

\* What a step of the switch is, once the bounds on traffic are forgotten.
LEMMA StepCases ==
  ASSUME TypeOK, [Next]_vars
  PROVE  \/ sw' = sw
         \/ \E q \in Queues, p \in Traffic :
               \/ sw' = Pushed(sw, q, p) /\ ~isOverloaded(sw, q)
               \/ /\ sw' = Pushed(Charged(sw, p), q, p)
                  /\ isOverloaded(sw, q)
                  /\ TRUE \in Fits(sw, q, p)
         \/ \E q \in Queues, above \in BOOLEAN :
               sw.queue[q] # <<>> /\ sw' = Pulled(sw, q, above)
<1>1. ASSUME NEW q \in Queues, NEW p \in Traffic, handleMessage(q, p)
      PROVE  \/ sw' = sw
             \/ sw' = Pushed(sw, q, p) /\ ~isOverloaded(sw, q)
             \/ /\ sw' = Pushed(Charged(sw, p), q, p)
                /\ isOverloaded(sw, q)
                /\ TRUE \in Fits(sw, q, p)
  BY <1>1, HandleMessageCases
<1>2. ASSUME NEW q \in Queues, pullPacket(q)
      PROVE  \E above \in BOOLEAN : sw.queue[q] # <<>> /\ sw' = Pulled(sw, q, above)
  BY <1>2, AboveLimitType DEF pullPacket
<1>3. QED
  BY <1>1, <1>2, Zenon DEF Next, vars

-----------------------------------------------------------------------------
(***************************************************************************)
(* The account of the shared buffer.                                       *)
(***************************************************************************)
\* A step that touches the packets of one queue changes the total excess by
\* what it changes the excess of that queue.
LEMMA TotalExcessUpdate ==
  ASSUME NEW s \in SwitchState, NEW t \in SwitchState, NEW q \in Queues,
         NEW x, t.queue = [s.queue EXCEPT ![q] = x]
  PROVE  TotalExcess(t) = TotalExcess(s) + (Excess(t, q) - Excess(s, q))
<1> DEFINE f == [r \in Queues |-> Excess(s, r)]
           g == [r \in Queues |-> Excess(t, r)]
<1>1. NumQueues \in Nat
  BY SwitchAssumption
<1>2. \A r \in Queues : Excess(s, r) \in Nat /\ Excess(t, r) \in Nat
  BY QueueLengthType
<1>3. \A r \in Queues : r # q => t.queue[r] = s.queue[r]
  BY DEF SwitchState
<1>4. \A r \in Queues : r # q => Excess(t, r) = Excess(s, r)
  BY <1>3 DEF Excess
<1>5. /\ \A r \in 1..NumQueues : f[r] \in Int /\ g[r] \in Int
      /\ \A r \in 1..NumQueues : r # q => g[r] = f[r]
      /\ q \in 1..NumQueues
  BY <1>2, <1>4 DEF Queues
<1>6. f[q] = Excess(s, q) /\ g[q] = Excess(t, q)
  OBVIOUS
<1> HIDE DEF f, g
<1>7. SumTo(g, NumQueues) = SumTo(f, NumQueues) + (g[q] - f[q])
  BY <1>1, <1>5, SumToUpdate
<1>8. QED
  BY <1>6, <1>7 DEF TotalExcess, f, g

LEMMA TotalExcessType ==
  ASSUME NEW s \in SwitchState
  PROVE  TotalExcess(s) \in Int
<1>1. \A r \in Queues : Excess(s, r) \in Nat
  BY QueueLengthType
<1>2. QED
  BY <1>1, SumToType, SwitchAssumption DEF TotalExcess, Queues

\* Pushing adds the packet's length to the excess, less what of it still
\* fits into dataCapacity.
LEMMA PushedExcess ==
  ASSUME NEW s \in SwitchState, NEW q \in Queues, NEW p \in Traffic
  PROVE  LET t == Pushed(s, q, p)
         IN  /\ Excess(t, q) >= Excess(s, q)
             /\ Length(s.queue[q]) > DataCapacity => Excess(t, q) = Excess(s, q) + p.len
<1> DEFINE t == Pushed(s, q, p)
<1>1. t.queue[q] = Append(s.queue[q], p) /\ s.queue[q] \in Seq(Traffic)
  <2>1. t.queue = [s.queue EXCEPT ![q] = Append(@, p)]
    BY PushedType
  <2>2. s.queue \in [Queues -> Seq(Traffic)]
    BY DEF SwitchState
  <2> HIDE DEF t
  <2>3. QED
    BY <2>1, <2>2
<1>2. Length(t.queue[q]) = Length(s.queue[q]) + p.len
  BY <1>1, LengthAppend, TrafficLengths
<1>3. Length(s.queue[q]) \in Nat /\ p.len \in Nat /\ DataCapacity \in Int
  BY QueueLengthType, TrafficLengths, SwitchAssumption DEF NoLimit
<1> HIDE DEF t
<1>4. QED
  BY <1>2, <1>3 DEF Excess, t

\* Pulling credits the shared buffer with exactly what the excess loses.
LEMMA PulledExcess ==
  ASSUME NEW s \in SwitchState, NEW q \in Queues, s.queue[q] # <<>>,
         NEW above \in BOOLEAN
  PROVE  Excess(Pulled(s, q, above), q) = Excess(s, q) - Release(s, q)
<1> DEFINE t == Pulled(s, q, above)
<1>1. t.queue[q] = Tail(s.queue[q]) /\ s.queue[q] \in Seq(Traffic)
  <2>1. t.queue = [s.queue EXCEPT ![q] = Tail(@)]
    BY PulledType
  <2>2. s.queue \in [Queues -> Seq(Traffic)]
    BY DEF SwitchState
  <2> HIDE DEF t
  <2>3. QED
    BY <2>1, <2>2
<1>2. Length(s.queue[q]) = Head(s.queue[q]).len + Length(t.queue[q])
  BY <1>1, LengthTail, TrafficLengths
<1>3. /\ Length(s.queue[q]) \in Nat
      /\ Head(s.queue[q]).len \in Nat
      /\ DataCapacity \in Int
  BY QueueLengthType, ReleaseType, TrafficLengths, SwitchAssumption DEF NoLimit
<1>4. Length(t.queue[q]) \in Nat
  <2>1. Tail(s.queue[q]) \in Seq(Traffic)
    BY ReleaseType
  <2>2. Length(Tail(s.queue[q])) \in Nat
    BY <2>1, LengthType, TrafficLengths
  <2>3. QED
    BY <1>1, <2>2
<1> HIDE DEF t
<1>5. QED
  BY <1>2, <1>3, <1>4 DEF Excess, Release, t

\* No order of arrivals and departures of packets of any lengths makes the
\* shared buffer smaller than configured, provided only dataCapacity limits
\* the queues: with a packetCapacity, packets below dataCapacity are charged
\* and never credited.
THEOREM PoolConserved ==
  ASSUME PacketCapacity = NoLimit
  PROVE  Spec => []PoolNotLeaked
<1>1. Init => PoolNotLeaked
  <2> SUFFICES ASSUME Init PROVE PoolNotLeaked
    OBVIOUS
  <2> DEFINE f == [r \in Queues |-> Excess(sw, r)]
  <2>1. sw \in SwitchState /\ sw.shared = SharedBuffer
    BY SwitchAssumption DEF Init, SwitchState
  <2>2. \A r \in 1..NumQueues : f[r] \in Nat
    BY <2>1, QueueLengthType DEF Queues
  <2> HIDE DEF f
  <2>3. SumTo(f, NumQueues) \in Nat
    BY <2>2, SumToNat, SwitchAssumption
  <2>4. QED
    BY <2>1, <2>3, SwitchAssumption DEF PoolNotLeaked, TotalExcess, f
<1>2. TypeOK /\ PoolNotLeaked /\ [Next]_vars => PoolNotLeaked'
  <2> SUFFICES ASSUME TypeOK, PoolNotLeaked, [Next]_vars PROVE PoolNotLeaked'
    OBVIOUS
  <2>1. sw \in SwitchState
    BY DEF TypeOK, SwitchState
  <2>2. sw.shared \in Int /\ TotalExcess(sw) \in Int /\ SharedBuffer \in Int
    BY <2>1, TotalExcessType, SwitchAssumption DEF SwitchState
  <2>3. CASE sw' = sw
    BY <2>3 DEF PoolNotLeaked
  <2>4. ASSUME NEW q \in Queues, NEW p \in Traffic, sw' = Pushed(sw, q, p)
        PROVE  PoolNotLeaked'
    <3> DEFINE t == Pushed(sw, q, p)
    <3>p. /\ t \in SwitchState /\ t.shared = sw.shared
          /\ t.queue = [sw.queue EXCEPT ![q] = Append(@, p)]
      BY <2>1, PushedType
    <3>e. Excess(t, q) >= Excess(sw, q)
      BY <2>1, PushedExcess
    <3>t. sw' = t
      BY <2>4
    <3> HIDE DEF t
    <3>1. TotalExcess(sw') = TotalExcess(sw) + (Excess(sw', q) - Excess(sw, q))
      BY <2>1, <3>p, <3>t, TotalExcessUpdate
    <3>2. Excess(sw', q) >= Excess(sw, q)
      BY <3>e, <3>t
    <3>3. Excess(sw', q) \in Nat /\ Excess(sw, q) \in Nat
      BY <2>1, <3>p, <3>t, QueueLengthType
    <3>4. sw'.shared = sw.shared
      BY <3>p, <3>t
    <3>5. QED
      BY <2>2, <3>1, <3>2, <3>3, <3>4 DEF PoolNotLeaked
  <2>5. ASSUME NEW q \in Queues, NEW p \in Traffic,
               sw' = Pushed(Charged(sw, p), q, p), isOverloaded(sw, q)
        PROVE  PoolNotLeaked'
    <3> DEFINE c == Charged(sw, p)
    <3>1. /\ c \in SwitchState
          /\ c.shared = sw.shared - p.len
          /\ c.queue = sw.queue
      BY <2>1, ChargedType
    <3> HIDE DEF c
    <3>2. TotalExcess(c) = TotalExcess(sw) /\ Excess(c, q) = Excess(sw, q)
      BY <3>1 DEF TotalExcess, Excess
    <3>3. Length(c.queue[q]) > DataCapacity
      BY <2>5, <3>1 DEF isOverloaded
    <3>4. /\ sw' \in SwitchState
          /\ sw'.shared = sw.shared - p.len
          /\ TotalExcess(sw') = TotalExcess(c) + (Excess(sw', q) - Excess(c, q))
      <4>1. /\ sw' \in SwitchState
            /\ sw'.shared = c.shared
            /\ sw'.queue = [c.queue EXCEPT ![q] = Append(@, p)]
        BY <2>5, <3>1, PushedType DEF c
      <4>2. TotalExcess(sw') = TotalExcess(c) + (Excess(sw', q) - Excess(c, q))
        BY <3>1, <4>1, TotalExcessUpdate
      <4>3. QED
        BY <3>1, <4>1, <4>2
    <3>5. Excess(sw', q) = Excess(c, q) + p.len
      BY <2>5, <3>1, <3>3, PushedExcess DEF c
    <3>6. Excess(sw', q) \in Nat /\ Excess(c, q) \in Nat /\ p.len \in Nat
      BY <3>1, <3>4, QueueLengthType, TrafficLengths
    <3>7. QED
      BY <2>2, <3>2, <3>4, <3>5, <3>6 DEF PoolNotLeaked
  <2>6. ASSUME NEW q \in Queues, NEW above \in BOOLEAN,
               sw.queue[q] # <<>>, sw' = Pulled(sw, q, above)
        PROVE  PoolNotLeaked'
    <3>1. /\ sw' \in SwitchState
          /\ sw'.shared = sw.shared + Release(sw, q)
          /\ TotalExcess(sw') = TotalExcess(sw) + (Excess(sw', q) - Excess(sw, q))
      <4>1. /\ sw' \in SwitchState
            /\ sw'.shared = sw.shared + Release(sw, q)
            /\ sw'.queue = [sw.queue EXCEPT ![q] = Tail(@)]
        BY <2>1, <2>6, PulledType
      <4>2. TotalExcess(sw') = TotalExcess(sw) + (Excess(sw', q) - Excess(sw, q))
        BY <2>1, <4>1, TotalExcessUpdate
      <4>3. QED
        BY <4>1, <4>2
    <3>2. Excess(sw', q) = Excess(sw, q) - Release(sw, q)
      BY <2>1, <2>6, PulledExcess
    <3>3. Excess(sw, q) \in Nat /\ Release(sw, q) \in Nat
      BY <2>1, <2>6, QueueLengthType, ReleaseType
    <3>4. QED
      BY <2>2, <3>1, <3>2, <3>3 DEF PoolNotLeaked
  <2>7. QED
    BY <2>3, <2>4, <2>5, <2>6, StepCases
<1>3. QED
  BY <1>1, <1>2, TypeCorrect, PTL DEF Spec

\* A share alpha <= 1 of what is free is at most what is free.
LEMMA ShareBound ==
  ASSUME NEW m \in Nat, AlphaNum <= AlphaDen
  PROVE  /\ (AlphaNum * m) \div AlphaDen \in Nat
         /\ (AlphaNum * m) \div AlphaDen <= m
<1> DEFINE a == AlphaNum * m
           d == a \div AlphaDen
<1>1. AlphaNum \in Nat /\ AlphaDen \in Nat /\ AlphaDen > 0
  BY SwitchAssumption
<1>2. a \in Nat /\ a <= AlphaDen * m
  BY <1>1
<1> HIDE DEF a
<1>3. /\ d \in Nat
      /\ AlphaDen * d <= a
  BY <1>1, <1>2
<1> HIDE DEF d
<1>4. AlphaDen * d <= AlphaDen * m
  BY <1>1, <1>2, <1>3
<1>5. d <= m
  BY <1>1, <1>3, <1>4
<1>6. QED
  BY <1>3, <1>5 DEF d, a

\* With alpha <= 1 a packet is charged only to memory that is free.
THEOREM PoolGrantsOnlyFree ==
  ASSUME PacketCapacity = NoLimit, AlphaNum <= AlphaDen
  PROVE  Spec => []PoolNotOverdrawn
<1>1. Init => PoolNotOverdrawn
  BY SwitchAssumption DEF Init, PoolNotOverdrawn
<1>2. TypeOK /\ PoolNotOverdrawn /\ [Next]_vars => PoolNotOverdrawn'
  <2> SUFFICES ASSUME TypeOK, PoolNotOverdrawn, [Next]_vars PROVE PoolNotOverdrawn'
    OBVIOUS
  <2>1. sw \in SwitchState /\ sw.shared \in Nat
    BY DEF TypeOK, SwitchState, PoolNotOverdrawn
  <2>2. CASE sw' = sw
    BY <2>2 DEF PoolNotOverdrawn
  <2>3. ASSUME NEW q \in Queues, NEW p \in Traffic, sw' = Pushed(sw, q, p)
        PROVE  PoolNotOverdrawn'
    <3>1. Pushed(sw, q, p).shared = sw.shared
      BY <2>1, PushedShared
    <3>2. sw'.shared = sw.shared
      BY <2>3, <3>1
    <3>3. QED
      BY <2>1, <3>2 DEF PoolNotOverdrawn
  <2>4. ASSUME NEW q \in Queues, NEW p \in Traffic,
               sw' = Pushed(Charged(sw, p), q, p),
               isOverloaded(sw, q), TRUE \in Fits(sw, q, p)
        PROVE  PoolNotOverdrawn'
    <3> DEFINE limit == (AlphaNum * sw.shared) \div AlphaDen
    <3>1. limit \in Nat /\ limit <= sw.shared
      BY <2>1, ShareBound
    <3>2. Fits(sw, q, p) =
             IF limit < 0 THEN BOOLEAN
             ELSE {/\ Length(sw.queue[q]) - DataCapacity + p.len >= 0
                   /\ Length(sw.queue[q]) - DataCapacity + p.len <= limit}
      BY Zenon DEF Fits
    <3> HIDE DEF limit
    <3>3. Length(sw.queue[q]) - DataCapacity + p.len <= limit
      <4>1. ~(limit < 0)
        BY <3>1
      <4>2. TRUE \in {/\ Length(sw.queue[q]) - DataCapacity + p.len >= 0
                      /\ Length(sw.queue[q]) - DataCapacity + p.len <= limit}
        BY <2>4, <3>2, <4>1, Zenon
      <4>3. QED
        BY <4>2, Zenon
    <3>4. Length(sw.queue[q]) > DataCapacity
      BY <2>4 DEF isOverloaded
    <3>5. Length(sw.queue[q]) \in Nat /\ DataCapacity \in Int /\ p.len \in Nat
      BY <2>1, QueueLengthType, TrafficLengths, SwitchAssumption DEF NoLimit
    <3>6. p.len <= sw.shared
      BY <2>1, <3>1, <3>3, <3>4, <3>5
    <3>7. sw'.shared = sw.shared - p.len
      <4> DEFINE c == Charged(sw, p)
      <4>1. c \in SwitchState /\ c.shared = sw.shared - p.len
        BY <2>1, ChargedType
      <4>2. sw' = Pushed(c, q, p)
        BY <2>4
      <4> HIDE DEF c
      <4>3. Pushed(c, q, p).shared = c.shared
        BY <4>1, PushedShared
      <4>4. QED
        BY <4>1, <4>2, <4>3
    <3>8. QED
      BY <2>1, <3>5, <3>6, <3>7 DEF PoolNotOverdrawn
  <2>5. ASSUME NEW q \in Queues, NEW above \in BOOLEAN,
               sw.queue[q] # <<>>, sw' = Pulled(sw, q, above)
        PROVE  PoolNotOverdrawn'
    <3> DEFINE t == Pulled(sw, q, above)
    <3>p. t.shared = sw.shared + Release(sw, q)
      BY <2>1, PulledShared
    <3>t. sw' = t
      BY <2>5
    <3> HIDE DEF t
    <3>1. sw'.shared = sw.shared + Release(sw, q)
      BY <3>p, <3>t
    <3>2. Release(sw, q) \in Nat
      BY <2>1, <2>5, ReleaseType
    <3>3. QED
      BY <2>1, <3>1, <3>2 DEF PoolNotOverdrawn
  <2>6. QED
    BY <2>2, <2>3, <2>4, <2>5, StepCases
<1>3. QED
  BY <1>1, <1>2, TypeCorrect, PTL DEF Spec

-----------------------------------------------------------------------------
(***************************************************************************)
(* Pauses.  Without PFC no interface is ever recorded; with PFC the pull   *)
(* that empties a queue finds 0 <= XON and 0 < dataCapacity.  The second   *)
(* is what HiQueue.ned's dataCapacity buys: with the default of -1 a queue *)
(* would need free memory above headroom to let the upstream ports go.     *)
(***************************************************************************)
NoPfcNoPause == ~UsePfc => \A q \in Queues : sw.paused[q] = {}

THEOREM PauseHasBacklog ==
  ASSUME DataCapacity # NoLimit, DataCapacity # 0
  PROVE  Spec => []PausedOnlyIfBacklogged
<1> DEFINE Inv == PausedOnlyIfBacklogged /\ NoPfcNoPause
<1>1. Init => Inv
  BY DEF Init, PausedOnlyIfBacklogged, NoPfcNoPause
<1>2. TypeOK /\ Inv /\ [Next]_vars => Inv'
  <2> SUFFICES ASSUME TypeOK, Inv, [Next]_vars PROVE Inv'
    OBVIOUS
  <2>1. sw \in SwitchState
    BY DEF TypeOK, SwitchState
  <2>2. CASE sw' = sw
    BY <2>2 DEF PausedOnlyIfBacklogged, NoPfcNoPause
  <2>3. ASSUME NEW c \in SwitchState, c.queue = sw.queue, c.paused = sw.paused,
               NEW q \in Queues, NEW p \in Traffic, sw' = Pushed(c, q, p)
        PROVE  Inv'
    <3>1. /\ sw'.queue = [sw.queue EXCEPT ![q] = Append(@, p)]
          /\ \A r \in Queues : r # q => sw'.paused[r] = sw.paused[r]
          /\ ~UsePfc => sw'.paused[q] = sw.paused[q]
      BY <2>3, PushedType
    <3>2. sw.queue \in [Queues -> Seq(Traffic)]
      BY <2>1 DEF SwitchState
    <3>3. /\ sw'.queue[q] # <<>>
          /\ \A r \in Queues : r # q => sw'.queue[r] = sw.queue[r]
      <4>1. sw.queue[q] \in Seq(Traffic) /\ sw'.queue[q] = Append(sw.queue[q], p)
        BY <3>1, <3>2
      <4>2. Append(sw.queue[q], p) # <<>>
        BY <4>1
      <4>3. QED
        BY <3>1, <3>2, <4>1, <4>2
    <3>4. QED
      BY <3>1, <3>3 DEF PausedOnlyIfBacklogged, NoPfcNoPause
  <2>4. ASSUME NEW q \in Queues, NEW above \in BOOLEAN,
               sw.queue[q] # <<>>, sw' = Pulled(sw, q, above)
        PROVE  Inv'
    <3>1. /\ sw'.queue = [sw.queue EXCEPT ![q] = Tail(@)]
          /\ \A r \in Queues : r # q => sw'.paused[r] = sw.paused[r]
          /\ sw'.paused[q] =
                IF UsePfc /\ ResumeDue(Length(Tail(sw.queue[q])), sw.shared + Release(sw, q))
                THEN {} ELSE sw.paused[q]
      BY <2>1, <2>4, PulledType
    <3>2. sw.queue \in [Queues -> Seq(Traffic)]
      BY <2>1 DEF SwitchState
    <3>3. /\ sw'.queue[q] = Tail(sw.queue[q])
          /\ \A r \in Queues : r # q => sw'.queue[r] = sw.queue[r]
      BY <3>1, <3>2
    <3>4. CASE Tail(sw.queue[q]) = <<>>
      <4>1. Length(Tail(sw.queue[q])) = 0
        BY <3>4, LengthEmpty
      <4>2. ResumeDue(0, sw.shared + Release(sw, q))
        BY SwitchAssumption DEF ResumeDue
      <4>3. sw'.paused[q] = {}
        BY <3>1, <4>1, <4>2 DEF NoPfcNoPause
      <4>4. QED
        BY <3>1, <3>3, <4>3 DEF PausedOnlyIfBacklogged, NoPfcNoPause
    <3>5. CASE Tail(sw.queue[q]) # <<>>
      BY <3>1, <3>3, <3>5 DEF PausedOnlyIfBacklogged, NoPfcNoPause
    <3>6. QED
      BY <3>4, <3>5
  <2>5. ASSUME NEW q \in Queues, NEW p \in Traffic
        PROVE  /\ sw' = Pushed(sw, q, p) => Inv'
               /\ sw' = Pushed(Charged(sw, p), q, p) => Inv'
    BY <2>1, <2>3, ChargedType
  <2>6. QED
    BY <2>2, <2>4, <2>5, StepCases
<1>3. QED
  BY <1>1, <1>2, TypeCorrect, PTL DEF Spec

-----------------------------------------------------------------------------
(***************************************************************************)
(* Marking, where Kmin and Kmax are in their order.                        *)
(***************************************************************************)
\* Whatever is deferred by markNext and drawn by RED, the mark on departure
\* depends on the packet's code and on what it leaves behind.
THEOREM MarkingCorrect ==
  ASSUME Kmin <= Kmax
  PROVE  Spec => EcnMarking
<1>1. ASSUME TypeOK, [Next]_vars, NEW q \in Queues, Departs(q)
      PROVE  EcnStep(q)
  <2>1. sw \in SwitchState /\ out \in EcnCodes /\ sw.queue \in [Queues -> Seq(Traffic)]
    BY <1>1 DEF TypeOK, SwitchState
  <2>2. PICK r \in Queues, above \in BOOLEAN :
           /\ sw.queue[r] # <<>>
           /\ above \in AboveLimit(Length(Tail(sw.queue[r])))
           /\ sw' = Pulled(sw, r, above)
           /\ out' = Marked(above, Head(sw.queue[r]).ecn, sw.markNext[r]).ecn
    <3>1. sw' # sw
      BY <1>1, <2>1 DEF Departs
    <3>2. ASSUME NEW r \in Queues, NEW p \in Traffic, handleMessage(r, p)
          PROVE  FALSE
      <4>1. \E c \in SwitchState : c.queue = sw.queue /\ sw' = Pushed(c, r, p)
        BY <2>1, <3>1, <3>2, HandleMessageCases, ChargedType
      <4>2. sw'.queue = [sw.queue EXCEPT ![r] = Append(@, p)]
        BY <4>1, PushedType
      <4>3. sw.queue[q] \in Seq(Traffic) /\ sw.queue[r] \in Seq(Traffic)
        BY <2>1
      <4>4. sw'.queue[q] = IF q = r THEN Append(sw.queue[q], p) ELSE sw.queue[q]
        BY <2>1, <4>2
      <4>5. Len(sw'.queue[q]) >= Len(sw.queue[q])
        BY <4>3, <4>4
      <4>6. QED
        BY <1>1, <4>3, <4>4, <4>5 DEF Departs
    <3>3. PICK r \in Queues : pullPacket(r)
      BY <1>1, <3>1, <3>2, Zenon DEF Next, vars
    <3>4. QED
      BY <3>3, AboveLimitType DEF pullPacket
  <2>3. above \in BOOLEAN
    OBVIOUS
  <2>4. sw'.queue = [sw.queue EXCEPT ![r] = Tail(@)]
    <3>1. sw' = Pulled(sw, r, above) /\ sw.queue[r] # <<>>
      BY <2>2, Zenon
    <3>2. Pulled(sw, r, above).queue = [sw.queue EXCEPT ![r] = Tail(@)]
      BY <2>1, <3>1, PulledType
    <3>3. QED
      BY <3>1, <3>2, Zenon
  <2>5. q = r
    <3>1. q # r => sw'.queue[q] = sw.queue[q]
      BY <2>1, <2>4
    <3>2. Len(sw.queue[q]) \in Nat
      BY <2>1
    <3>3. QED
      BY <1>1, <3>1, <3>2 DEF Departs
  <2>6. sw'.queue[q] = Tail(sw.queue[q])
    BY <2>1, <2>4, <2>5
  <2>7. Head(sw.queue[q]).ecn \in EcnCodes /\ Tail(sw.queue[q]) \in Seq(Traffic)
    BY <2>1, <2>2, <2>5, ReleaseType, SwitchAssumption
  <2> DEFINE n == Length(Tail(sw.queue[q]))
             ecn == Head(sw.queue[q]).ecn
  <2>8. n \in Nat
    BY <2>7, LengthType, TrafficLengths
  <2>9. above \in AboveLimit(n) /\ out' = Marked(above, ecn, sw.markNext[q]).ecn
    BY <2>2, <2>5
  <2>10. Length(sw'.queue[q]) = n
    BY <2>6
  <2>11. ecn \in EcnCodes
    BY <2>7
  <2> HIDE DEF n, ecn
  <2>12. Kmin \in Nat /\ Kmax \in Nat /\ Kmin <= Kmax
    BY SwitchAssumption
  <2>13. (n < Kmin => ~above) /\ (n >= Kmax => above)
    BY <2>3, <2>8, <2>9, <2>12 DEF AboveLimit
  <2>14. ~above \/ ecn = "NOT_ECT" => out' = ecn
    BY <2>9 DEF Marked
  <2>15. /\ UseEcn /\ above /\ ecn # "NOT_ECT" => out' = "CE"
         /\ ecn = "CE" => out' = "CE"
    BY <2>3, <2>9, <2>11 DEF Marked, EcnCodes
  <2>16. QED
    BY <2>10, <2>13, <2>14, <2>15, Zenon DEF EcnStep, ecn
<1>2. TypeOK /\ [Next]_vars => [\A q \in Queues : Departs(q) => EcnStep(q)]_vars
  BY <1>1
<1>3. QED
  BY <1>2, TypeCorrect, PTL DEF Spec, EcnMarking
=============================================================================

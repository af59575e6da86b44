--------------------------- MODULE HiQueue_proofs ---------------------------
(***************************************************************************)
(* The timer of the credit queue, the MAC that it wakes and the turns that *)
(* the scheduler gives, for credits of any lengths, any capacity, any      *)
(* number of providers, any weights and any other traffic.                 *)
(***************************************************************************)
EXTENDS HiQueue, PrefixSum_proofs, SequenceTheorems

LEMMA Parameters ==
    /\ MaxTime \in Nat /\ CreditTimes \in SUBSET (1..MaxTime)
    /\ dataCapacity # None => dataCapacity \in Nat /\ MaxTime <= dataCapacity
    /\ packetCapacity # None => packetCapacity \in Nat \ {0}
    /\ CreditTx \in Nat \ {0} /\ DataTx \in Nat \ {0} /\ MaxWaiting \in Nat
BY HiQueueAssumption

LEMMA Inputs ==
    /\ NumProviders \in Nat /\ Weights \in [Providers -> Nat]
    /\ Credits \in Providers /\ Watched \in SUBSET Providers
BY WeightsAssumption, HiQueueAssumption

-----------------------------------------------------------------------------
(***************************************************************************)
(* The turns of the scheduler.                                             *)
(***************************************************************************)
\* The loop finds a provider of the set it looks for.
LEMMA FirstIn ==
  ASSUME NEW S \in SUBSET Providers, S # {}
  PROVE  First(S) \in S
<1>1. S \in SUBSET Nat
  BY Inputs DEF Providers
<1>2. \E i \in S : \A j \in S : i <= j
  BY <1>1, LeastNat
<1>3. QED
  BY <1>2 DEF First

BucketsOK(b) == b \in [Providers -> Nat] /\ \A i \in Providers : b[i] <= Weights[i]

\* The three outcomes of schedulePacket: a token is taken from a provider that
\* has one; every provider that is ready has run out, the buckets are filled
\* and a weighted provider is served; or only providers of weight 0 are ready.
LEMMA ScheduleCases ==
  ASSUME NEW b, BucketsOK(b), NEW r \in SUBSET Providers, r # {}
  PROVE  LET s == schedulePacket(b, r) IN
         /\ s.index \in r
         /\ \/ /\ b[s.index] > 0
               /\ s.buckets = [b EXCEPT ![s.index] = b[s.index] - 1]
            \/ /\ \A i \in r : b[i] = 0
               /\ Weights[s.index] > 0
               /\ s.buckets = [Weights EXCEPT ![s.index] = Weights[s.index] - 1]
            \/ /\ \A i \in r : Weights[i] = 0
               /\ s.buckets = b
<1> DEFINE full     == {i \in r : b[i] > 0}
           weighted == {i \in r : Weights[i] > 0}
<1>1. b \in [Providers -> Nat] /\ Weights \in [Providers -> Nat]
  BY Inputs DEF BucketsOK
<1>2. /\ full # {} => First(full) \in full
      /\ weighted # {} => First(weighted) \in weighted
      /\ First(r) \in r
  BY FirstIn
<1>3. CASE full # {}
  <2> DEFINE i == First(full)
  <2>1. i \in r /\ b[i] > 0
    BY <1>2, <1>3
  <2>2. schedulePacket(b, r) = [index |-> i, buckets |-> [b EXCEPT ![i] = b[i] - 1]]
    BY <1>3 DEF schedulePacket
  <2> HIDE DEF i
  <2>3. QED
    BY <2>1, <2>2
<1>4. CASE full = {} /\ weighted # {}
  <2> DEFINE i == First(weighted)
  <2>1. i \in r /\ Weights[i] > 0 /\ \A k \in r : b[k] = 0
    BY <1>1, <1>2, <1>4
  <2>2. schedulePacket(b, r) =
           [index |-> i, buckets |-> [Weights EXCEPT ![i] = Weights[i] - 1]]
    BY <1>4 DEF schedulePacket
  <2> HIDE DEF i
  <2>3. QED
    BY <2>1, <2>2
<1>5. CASE full = {} /\ weighted = {}
  <2>1. \A i \in r : Weights[i] = 0
    BY <1>1, <1>5
  <2>2. schedulePacket(b, r) = [index |-> First(r), buckets |-> b]
    BY <1>5 DEF schedulePacket
  <2>3. QED
    BY <1>2, <2>1, <2>2
<1>6. QED
  BY <1>3, <1>4, <1>5

\* A token that j still has, and every pull from j that i has already waited
\* for, come out of one bucket of j, or of two if the buckets have been filled
\* while i waited: then i has tokens of its own and they are not filled again.
Allowance(b, i, j) == IF b[i] > 0 THEN 2 * Weights[j] ELSE Weights[j]

BypassAccount(b, p) ==
    \A i \in Watched, j \in Providers : Weights[i] > 0 => p[i][j] + b[j] <= Allowance(b, i, j)

SchedulerOK(b, p) ==
    /\ BucketsOK(b)
    /\ p \in [Watched -> [Providers -> Nat]]
    /\ BypassAccount(b, p)

LEMMA InitSchedulerOK == SchedulerOK(Weights, [i \in Watched |-> NonePassed])
<1>1. NonePassed \in [Providers -> Nat] /\ \A j \in Providers : NonePassed[j] = 0
  BY DEF NonePassed
<1>2. \A j \in Providers : Weights[j] \in Nat
  BY Inputs
<1>3. BucketsOK(Weights)
  BY Inputs, <1>2 DEF BucketsOK
<1>4. BypassAccount(Weights, [i \in Watched |-> NonePassed])
  BY Inputs, <1>1, <1>2 DEF BypassAccount, Allowance
<1>5. QED
  BY <1>1, <1>3, <1>4 DEF SchedulerOK

\* The waits after a pull from provider k, of those in r.
PassedAfter(p, r, k) ==
    [i \in Watched |-> IF i \in r \ {k} /\ Weights[i] > 0
                       THEN [p[i] EXCEPT ![k] = p[i][k] + 1]
                       ELSE NonePassed]

\* A pull keeps the tokens within the weights and the waits within the account.
LEMMA ScheduleKeeps ==
  ASSUME NEW b, NEW p, SchedulerOK(b, p), NEW r \in SUBSET Providers, r # {},
         NEW s, s = schedulePacket(b, r)
  PROVE  /\ s.index \in r
         /\ SchedulerOK(s.buckets, PassedAfter(p, r, s.index))
<1> DEFINE k == s.index
           c == s.buckets
           m == PassedAfter(p, r, k)
<1>1. /\ k \in r
      /\ \/ b[k] > 0 /\ c = [b EXCEPT ![k] = b[k] - 1]
         \/ /\ \A i \in r : b[i] = 0
            /\ Weights[k] > 0
            /\ c = [Weights EXCEPT ![k] = Weights[k] - 1]
         \/ (\A i \in r : Weights[i] = 0) /\ c = b
  <2>1. BucketsOK(b)
    BY Zenon DEF SchedulerOK
  <2>2. LET t == schedulePacket(b, r) IN
        /\ t.index \in r
        /\ \/ /\ b[t.index] > 0
              /\ t.buckets = [b EXCEPT ![t.index] = b[t.index] - 1]
           \/ /\ \A i \in r : b[i] = 0
              /\ Weights[t.index] > 0
              /\ t.buckets = [Weights EXCEPT ![t.index] = Weights[t.index] - 1]
           \/ (\A i \in r : Weights[i] = 0) /\ t.buckets = b
    BY <2>1, ScheduleCases, Zenon
  <2>3. QED
    BY <2>2, Zenon
<1>2. /\ b \in [Providers -> Nat] /\ \A i \in Providers : b[i] <= Weights[i]
      /\ Weights \in [Providers -> Nat] /\ k \in Providers /\ Watched \in SUBSET Providers
      /\ p \in [Watched -> [Providers -> Nat]]
  BY <1>1, Inputs DEF SchedulerOK, BucketsOK
<1> HIDE DEF k, c
<1>3. BucketsOK(c)
  <2>1. CASE b[k] > 0 /\ c = [b EXCEPT ![k] = b[k] - 1]
    <3>1. b[k] - 1 \in Nat /\ b[k] - 1 <= Weights[k]
      BY <1>2, <2>1
    <3>2. c \in [Providers -> Nat]
      BY <1>2, <2>1, <3>1
    <3>3. \A i \in Providers : c[i] = IF i = k THEN b[k] - 1 ELSE b[i]
      BY <1>2, <2>1
    <3>4. QED
      BY <1>2, <3>1, <3>2, <3>3 DEF BucketsOK
  <2>2. CASE Weights[k] > 0 /\ c = [Weights EXCEPT ![k] = Weights[k] - 1]
    <3>1. Weights[k] - 1 \in Nat /\ Weights[k] - 1 <= Weights[k]
      BY <1>2, <2>2
    <3>2. c \in [Providers -> Nat]
      BY <1>2, <2>2, <3>1
    <3>3. \A i \in Providers : c[i] = IF i = k THEN Weights[k] - 1 ELSE Weights[i]
      BY <1>2, <2>2
    <3>4. \A i \in Providers : Weights[i] <= Weights[i]
      BY <1>2
    <3>5. QED
      BY <3>1, <3>2, <3>3, <3>4 DEF BucketsOK
  <2>3. CASE c = b
    BY <1>2, <2>3 DEF BucketsOK
  <2>4. QED
    BY <1>1, <2>1, <2>2, <2>3
<1>4. NonePassed \in [Providers -> Nat] /\ \A j \in Providers : NonePassed[j] = 0
  BY DEF NonePassed
<1>5. m \in [Watched -> [Providers -> Nat]]
  <2>1. ASSUME NEW i \in Watched
        PROVE  [p[i] EXCEPT ![k] = p[i][k] + 1] \in [Providers -> Nat]
    BY <1>2
  <2>2. QED
    BY <1>4, <2>1 DEF PassedAfter
<1>6. ASSUME NEW i \in Watched, NEW j \in Providers, Weights[i] > 0
      PROVE  m[i][j] + c[j] <= Allowance(c, i, j)
  <2>1. /\ b[i] \in Nat /\ b[j] \in Nat /\ Weights[j] \in Nat /\ b[j] <= Weights[j]
        /\ p[i][j] \in Nat /\ Weights[i] \in Nat
    BY <1>2
  <2>2. p[i][j] + b[j] <= Allowance(b, i, j)
    BY <1>6 DEF SchedulerOK, BypassAccount
  <2>3. c[j] \in Nat /\ c[j] <= Weights[j] /\ c[i] \in Nat
    BY <1>2, <1>3 DEF BucketsOK
  <2>4. CASE ~(i \in r \ {k})
    <3>1. m[i] = NonePassed
      BY <2>4 DEF PassedAfter
    <3>2. m[i][j] = 0
      BY <3>1, <1>4
    <3>3. QED
      BY <2>1, <2>3, <3>2 DEF Allowance
  <2>5. CASE i \in r \ {k}
    <3> DEFINE d == IF j = k THEN 1 ELSE 0
    <3>1. m[i][j] = p[i][j] + d
      <4>1. m[i] = [p[i] EXCEPT ![k] = p[i][k] + 1]
        BY <1>6, <2>5 DEF PassedAfter
      <4>2. p[i] \in [Providers -> Nat]
        BY <1>2
      <4>3. QED
        BY <2>1, <4>1, <4>2
    <3>d. d \in Nat
      OBVIOUS
    <3>2. CASE b[k] > 0 /\ c = [b EXCEPT ![k] = b[k] - 1]
      <4>1. c[i] = b[i] /\ c[j] = b[j] - d
        BY <1>2, <2>1, <2>5, <3>2
      <4> HIDE DEF d, m
      <4>2. m[i][j] + c[j] = p[i][j] + b[j]
        BY <2>1, <3>1, <3>d, <4>1
      <4>3. QED
        BY <2>2, <4>1, <4>2 DEF Allowance
    <3>3. CASE /\ \A l \in r : b[l] = 0
               /\ Weights[k] > 0
               /\ c = [Weights EXCEPT ![k] = Weights[k] - 1]
      <4>1. b[i] = 0 /\ c[i] = Weights[i] /\ c[j] = Weights[j] - d /\ b[j] >= 0
        BY <1>2, <2>1, <2>5, <3>3
      <4>2. p[i][j] + b[j] <= Weights[j] /\ Allowance(c, i, j) = 2 * Weights[j]
        BY <1>6, <2>2, <4>1 DEF Allowance
      <4> HIDE DEF d, m
      <4>3. QED
        BY <2>1, <3>1, <3>d, <4>1, <4>2
    <3>4. CASE \A l \in r : Weights[l] = 0
      BY <1>6, <2>5, <3>4
    <3>5. QED
      BY <1>1, <3>2, <3>3, <3>4
  <2>6. QED
    BY <2>4, <2>5
<1>7. SchedulerOK(c, m)
  BY <1>3, <1>5, <1>6 DEF SchedulerOK, BypassAccount
<1>8. QED
  BY <1>1, <1>7 DEF k, c

-----------------------------------------------------------------------------
(***************************************************************************)
(* The credits in the queue.                                               *)
(***************************************************************************)
\* Sums of the first lengths of a queue and of a prefix of it are the same.
LEMMA SumOfPrefix ==
  ASSUME NEW q \in Seq(Nat), NEW n \in 0..Len(q)
  PROVE  /\ SumTo(q, n) \in Nat
         /\ SumTo(SubSeq(q, 1, n), n) = SumTo(q, n)
<1> DEFINE p == SubSeq(q, 1, n)
<1>1. n \in Nat /\ \A i \in 1..n : q[i] \in Nat
  OBVIOUS
<1>2. \A i \in 1..n : p[i] = q[i]
  OBVIOUS
<1>3. SumTo(q, n) \in Nat
  BY <1>1, SumToNat
<1>4. PartialSums(p, n)[n] = PartialSums(q, n)[n]
  <2> HIDE DEF p
  <2>1. QED
    BY <1>1, <1>2, PartialSumsAgree
<1>5. QED
  BY <1>3, <1>4 DEF SumTo

\* What pushPacket asserts.
Fits(q) == ~isOverloaded(q, Len(q))

\* Without its first credit a queue is no longer than it was.
LEMMA TailFits ==
  ASSUME NEW q \in Seq(Nat), q # <<>>, Fits(q)
  PROVE  Fits(Tail(q))
<1> DEFINE t == Tail(q)
           n == Len(t)
<1>1. /\ n \in Nat /\ Len(q) = n + 1
      /\ \A k \in 1..n : t[k] = q[k + 1] /\ t[k] \in Nat
      /\ \A k \in 1..(n + 1) : q[k] \in Nat
  <2>1. t \in Seq(Nat) /\ Len(q) \in Nat /\ Len(t) = Len(q) - 1
    OBVIOUS
  <2>2. \A k \in 1..n : t[k] = q[k + 1]
    OBVIOUS
  <2>3. \A k \in 1..Len(q) : q[k] \in Nat
    OBVIOUS
  <2>4. \A k \in 1..Len(t) : t[k] \in Nat
    BY <2>1
  <2>5. QED
    BY <2>1, <2>2, <2>3, <2>4
<1> HIDE DEF t, n
<1>2. SumTo(q, n + 1) = q[1] + SumTo(t, n)
  <2>1. \A k \in 1..(n + 1) : q[k] \in Int
    BY <1>1
  <2>2. n \in Nat /\ \A k \in 1..n : t[k] = q[k + 1]
    BY <1>1
  <2>3. QED
    BY <2>1, <2>2, SumShift
<1>3. SumTo(t, n) \in Nat
  BY <1>1, SumToNat
<1>4. q[1] \in Nat
  BY <1>1
<1>5. ~isOverloaded(q, n + 1)
  BY <1>1 DEF Fits
<1>6. ~isOverloaded(t, n)
  BY <1>1, <1>2, <1>3, <1>4, <1>5, Parameters DEF isOverloaded
<1>7. QED
  BY <1>6 DEF Fits, n, t

\* What is left of a queue that is too long is not empty and begins like it.
LEMMA FittingKeepsFirst ==
  ASSUME NEW q \in Seq(CreditTimes), q # <<>>
  PROVE  /\ Fitting(q) \in Seq(CreditTimes) /\ Fitting(q) # <<>>
         /\ Head(Fitting(q)) = Head(q)
         /\ Fits(Fitting(q))
<1> DEFINE N == Len(q)
           Fit == {n \in 0..N : ~isOverloaded(q, n)}
           Last(n) == ~isOverloaded(q, n) /\ \A m \in (n + 1)..N : isOverloaded(q, m)
           L == CHOOSE n \in 0..N : Last(n)
<1>1. q \in Seq(Nat) /\ N \in Nat \ {0} /\ q[1] \in 1..MaxTime
  <2>1. CreditTimes \in SUBSET Nat /\ CreditTimes \in SUBSET (1..MaxTime)
    BY Parameters
  <2>2. N \in Nat \ {0} /\ q[1] \in CreditTimes /\ \A i \in 1..N : q[i] \in CreditTimes
    OBVIOUS
  <2>3. q \in Seq(Nat)
    BY <2>1, SeqMonotonic
  <2>4. QED
    BY <2>1, <2>2, <2>3
<1>2. \A n \in 0..N : SumTo(q, n) \in Nat
  BY <1>1, SumOfPrefix
<1>3. ~isOverloaded(q, 1)
  <2>1. PartialSums(q, 1)[0] = 0 /\ PartialSums(q, 1)[1] = PartialSums(q, 1)[0] + q[1]
    BY PartialSumsDef
  <2>2. SumTo(q, 1) = q[1]
    BY <1>1, <2>1 DEF SumTo
  <2>3. QED
    BY <1>1, <2>2, Parameters DEF isOverloaded
<1>4. \E n \in Fit : \A m \in Fit : m <= n
  <2> DEFINE T == {N - n : n \in Fit}
  <2>1. T \in SUBSET Nat /\ T # {}
    BY <1>1, <1>3
  <2>2. PICK k \in T : \A l \in T : k <= l
    <3> HIDE DEF T
    <3>1. QED
      BY <2>1, LeastNat
  <2>3. PICK n \in Fit : k = N - n
    BY <2>2
  <2>4. ASSUME NEW m \in Fit PROVE m <= n
    <3>1. N - m \in T
      OBVIOUS
    <3>a. \A l \in T : N - n <= l
      BY <2>2, <2>3
    <3>b. N - n <= N - m
      <4> HIDE DEF T
      <4>1. QED
        BY <3>1, <3>a
    <3>2. N - n <= N - m /\ m \in Nat /\ n \in Nat
      BY <3>b, <1>1
    <3>3. QED
      BY <3>2, <1>1
  <2>5. QED
    BY <2>3, <2>4
<1>5. \E n \in 0..N : Last(n)
  <2>1. PICK n \in Fit : \A m \in Fit : m <= n
    BY <1>4
  <2>2. \A m \in (n + 1)..N : isOverloaded(q, m)
    BY <2>1, <1>1
  <2>3. QED
    BY <2>1, <2>2
<1>6. L \in 0..N /\ Last(L)
  <2> HIDE DEF Last
  <2>1. QED
    BY <1>5
<1>7. Fitting(q) = SubSeq(q, 1, L)
  BY DEF Fitting
<1> HIDE DEF L
<1>8. L >= 1
  BY <1>1, <1>3, <1>6
<1>9. /\ SubSeq(q, 1, L) \in Seq(CreditTimes) /\ Len(SubSeq(q, 1, L)) = L
      /\ SubSeq(q, 1, L)[1] = q[1]
  BY <1>1, <1>6, <1>8
<1>10. Fits(SubSeq(q, 1, L))
  <2>1. SumTo(SubSeq(q, 1, L), L) = SumTo(q, L)
    BY <1>1, <1>6, SumOfPrefix
  <2>2. ~isOverloaded(SubSeq(q, 1, L), L)
    BY <1>6, <2>1 DEF isOverloaded
  <2>3. QED
    BY <1>9, <2>2 DEF Fits
<1>11. QED
  BY <1>1, <1>6, <1>7, <1>8, <1>9, <1>10

-----------------------------------------------------------------------------
\* What holds of the credits q, the time t since the last was pulled, the timer
\* c and the history e, whenever a handler looks at them.  A credit that is due
\* has no timer left, one that is not yet has one that expires in time; a timer
\* that is left over, when the queue was emptied or what it was set for came
\* early, is about to expire, before any time has passed.
QueueOK(q, t, c, e) ==
    /\ q \in Seq(CreditTimes) /\ Fits(q)
    /\ t \in 0..MaxTime /\ c \in {None} \cup 0..MaxTime /\ e \in BOOLEAN
    /\ (q = <<>> \/ e) /\ c # None => c = 0 /\ t = 0
    /\ q # <<>> /\ ~e => IF c = None THEN t >= Head(q) ELSE t + c = Head(q)

PortOK(w, x) ==
    /\ w \in [Others -> 0..MaxWaiting]
    /\ x \in {None} \cup 0..CreditTx \cup 0..DataTx

QueuesInv ==
    /\ QueueOK(creditQueue, interval, canpull, early)
    /\ PortOK(waiting, txleft)
    /\ SchedulerOK(buckets, passed)
    /\ CreditNotOverlooked

IInv == QueuesInv /\ ispaused \in BOOLEAN /\ stopped \in BOOLEAN

LEMMA TypeFromIInv == IInv => TypeOK
BY DEF IInv, QueuesInv, QueueOK, Fits, PortOK, SchedulerOK, BucketsOK, TypeOK

LEMMA InitIInv == Init => IInv
<1> SUFFICES ASSUME Init PROVE IInv
  OBVIOUS
<1>1. Fits(<<>>)
  <2>1. Len(<<>>) = 0 /\ PartialSums(<<>>, 0)[0] = 0
    BY PartialSumsDef
  <2>2. QED
    BY <2>1, Parameters DEF Fits, isOverloaded, SumTo
<1>2. QueueOK(<<>>, 0, None, FALSE)
  BY <1>1, Parameters DEF QueueOK, None
<1>3. PortOK(waiting, txleft)
  BY Parameters DEF Init, PortOK
<1>4. SchedulerOK(buckets, passed)
  BY InitSchedulerOK DEF Init
<1>5. QED
  BY <1>2, <1>3, <1>4 DEF Init, IInv, QueuesInv, CreditNotOverlooked

\* Pulling the first credit, which was due, leaves the timer for the second.
LEMMA PullKeepsQueue ==
  ASSUME NEW q, NEW c, NEW e, QueueOK(q, interval, c, e), CanPullCredit(q), pullPacket(q, c)
  PROVE  QueueOK(creditQueue', interval', canpull', early')
<1>1. q \in Seq(CreditTimes) /\ q # <<>> /\ interval >= Head(q) /\ Head(q) \in 1..MaxTime
  <2>1. q \in Seq(CreditTimes) /\ q # <<>> /\ interval >= Head(q)
    BY DEF QueueOK, CanPullCredit
  <2>2. Head(q) \in CreditTimes
    BY <2>1
  <2>3. QED
    BY <2>1, <2>2, Parameters
<1>2. creditQueue' = Tail(q) /\ interval' = 0 /\ early' = FALSE
      /\ canpull' = IF Len(q) > 1 THEN q[2] ELSE c
  BY DEF pullPacket
<1>3. Tail(q) \in Seq(CreditTimes) /\ Fits(Tail(q))
  <2>1. q \in Seq(Nat)
    <3>1. CreditTimes \in SUBSET Nat
      BY Parameters
    <3>2. QED
      BY <1>1, <3>1, SeqMonotonic
  <2>2. Fits(q)
    BY DEF QueueOK
  <2>3. QED
    BY <1>1, <2>1, <2>2, TailFits
<1>4. CASE Len(q) > 1
  <2>1. Tail(q) # <<>> /\ Head(Tail(q)) = q[2] /\ q[2] \in CreditTimes
    <3>1. /\ Len(Tail(q)) = Len(q) - 1 /\ Len(q) \in Nat
          /\ \A i \in 1..(Len(q) - 1) : Tail(q)[i] = q[i + 1]
          /\ \A i \in 1..Len(q) : q[i] \in CreditTimes
      BY <1>1
    <3>2. 1 \in 1..(Len(q) - 1) /\ 2 \in 1..Len(q) /\ Len(Tail(q)) > 0
      BY <1>4, <3>1
    <3>3. Tail(q)[1] = q[2]
      BY <3>1, <3>2
    <3>4. ASSUME NEW t \in Seq(CreditTimes), Len(t) > 0 PROVE t # <<>> /\ Head(t) = t[1]
      BY <3>4
    <3>5. Tail(q) # <<>> /\ Head(Tail(q)) = Tail(q)[1]
      BY <1>3, <3>2, <3>4
    <3>6. QED
      BY <3>1, <3>2, <3>3, <3>5
  <2>2. q[2] \in 1..MaxTime
    BY <2>1, Parameters
  <2>3. canpull' = q[2] /\ canpull' # None /\ canpull' \in 0..MaxTime /\ 0 \in 0..MaxTime
        /\ interval' + canpull' = q[2]
    BY <1>2, <1>4, <2>2, Parameters DEF None
  <2>4. creditQueue' # <<>> /\ Head(creditQueue') = q[2]
    BY <1>2, <2>1
  <2>5. QED
    BY <1>2, <1>3, <2>3, <2>4 DEF QueueOK
<1>5. CASE ~(Len(q) > 1)
  <2>1. Tail(q) = <<>>
    BY <1>1, <1>5
  <2>2. c = None \/ c = 0
    <3>1. c \in {None} \cup 0..MaxTime /\ interval \in 0..MaxTime
      BY DEF QueueOK
    <3>2. (e /\ c # None) => c = 0
      BY DEF QueueOK
    <3>3. (~e /\ c # None) => interval + c = Head(q)
      BY <1>1 DEF QueueOK
    <3>4. (interval + c = Head(q) /\ c # None) => c = 0
      BY <3>1, <1>1, Parameters DEF None
    <3>5. QED
      BY <3>2, <3>3, <3>4
  <2>3. canpull' \in {None} \cup 0..MaxTime /\ 0 \in 0..MaxTime /\ (canpull' # None => canpull' = 0)
    BY <1>2, <1>5, <2>2, Parameters
  <2>4. creditQueue' = <<>>
    BY <1>2, <2>1
  <2>5. QED
    BY <1>2, <1>3, <2>3, <2>4 DEF QueueOK
<1>6. QED
  BY <1>4, <1>5

\* An idle transmitter leaves a credit in the queue only for its timer, or when
\* it came early.
LEMMA DequeueOrIdleKeeps ==
  ASSUME stopped' = stopped, NEW q, NEW w, NEW c, NEW e,
         QueueOK(q, interval, c, e), PortOK(w, txleft), SchedulerOK(buckets, passed), DequeueOrIdle(q, w, c, e)
  PROVE  QueuesInv'
<1> DEFINE r == Pullable(q, w)
           s == schedulePacket(buckets, r)
<1>1. CASE r = {}
  <2>1. Keep(q, c, e) /\ waiting' = w /\ txleft' = None
        /\ buckets' = buckets /\ passed' = passed
    BY <1>1 DEF DequeueOrIdle, wrrVars
  <2>2. QueueOK(creditQueue', interval', canpull', early')
    BY <2>1 DEF Keep
  <2>3. PortOK(waiting', txleft')
    BY <2>1 DEF PortOK
  <2>4. ~CanPullCredit(q)
    BY <1>1, Inputs DEF Pullable
  <2>5. q # <<>> => c # None \/ e
    BY <2>4 DEF QueueOK, CanPullCredit
  <2>6. CreditNotOverlooked'
    BY <2>1, <2>5 DEF CreditNotOverlooked, Keep
  <2>7. QED
    BY <2>1, <2>2, <2>3, <2>6 DEF QueuesInv
<1>2. CASE r # {}
  <2>1. r \in SUBSET Providers
    BY DEF Pullable
  <2>2. s.index \in r /\ SchedulerOK(s.buckets, PassedAfter(passed, r, s.index))
    BY <1>2, <2>1, ScheduleKeeps
  <2>p. pullScheduled(q, w, c, e)
    BY <1>2 DEF DequeueOrIdle
  <2>b. buckets' = s.buckets /\ passed' = PassedAfter(passed, r, s.index)
    BY <2>p, Zenon DEF pullScheduled, PassedAfter
  <2>3. /\ IF s.index = Credits
           THEN /\ pullPacket(q, c)
                /\ waiting' = w
                /\ txleft' = IF stopped THEN None ELSE CreditTx
           ELSE /\ Keep(q, c, e)
                /\ waiting' = [w EXCEPT ![s.index] = @ - 1]
                /\ txleft' = IF stopped THEN None ELSE DataTx
    BY <2>p, Zenon DEF pullScheduled
  <2>w. SchedulerOK(buckets', passed')
    BY <2>2, <2>b
  <2> HIDE DEF s
  <2>4. (~stopped => txleft' # None) /\ txleft' \in {None} \cup 0..CreditTx \cup 0..DataTx
    BY <2>3, Parameters DEF None
  <2>5. CASE s.index = Credits
    <3>1. CanPullCredit(q)
      BY <2>2, <2>5 DEF Pullable
    <3>2. QueueOK(creditQueue', interval', canpull', early')
      BY <2>3, <2>5, <3>1, PullKeepsQueue
    <3>3. PortOK(waiting', txleft')
      BY <2>2, <2>3, <2>4, <2>5 DEF PortOK
    <3>4. QED
      BY <2>4, <2>w, <3>2, <3>3 DEF QueuesInv, CreditNotOverlooked
  <2>6. CASE s.index # Credits
    <3>1. QueueOK(creditQueue', interval', canpull', early')
      BY <2>3, <2>6 DEF Keep
    <3>2. s.index \in Others /\ w[s.index] > 0
      BY <2>1, <2>2, <2>6 DEF Pullable, Others
    <3>3. waiting' \in [Others -> 0..MaxWaiting]
      <4>1. w \in [Others -> 0..MaxWaiting]
        BY DEF PortOK
      <4>2. w[s.index] - 1 \in 0..MaxWaiting
        BY <4>1, <3>2, Parameters
      <4>3. QED
        BY <4>1, <4>2, <2>3, <2>6
    <3>4. PortOK(waiting', txleft')
      BY <2>2, <2>3, <2>4, <3>3 DEF PortOK
    <3>5. QED
      BY <2>4, <2>w, <3>1, <3>4 DEF QueuesInv, CreditNotOverlooked
  <2>7. QED
    BY <2>5, <2>6
<1>3. QED
  BY <1>1, <1>2

LEMMA AnnouncementKeeps ==
  ASSUME stopped' = stopped, NEW q, NEW w, NEW c, NEW e,
         QueueOK(q, interval, c, e), PortOK(w, txleft), SchedulerOK(buckets, passed),
         handleCanPullPacketChanged(q, w, c, e)
  PROVE  QueuesInv'
<1>1. CASE txleft = None
  BY <1>1, DequeueOrIdleKeeps DEF handleCanPullPacketChanged
<1>2. CASE txleft # None
  <2>1. Keep(q, c, e) /\ waiting' = w /\ txleft' = txleft
        /\ buckets' = buckets /\ passed' = passed
    BY <1>2 DEF handleCanPullPacketChanged, wrrVars
  <2>2. QED
    BY <1>2, <2>1 DEF Keep, QueuesInv, CreditNotOverlooked
<1>3. QED
  BY <1>1, <1>2

-----------------------------------------------------------------------------
(***************************************************************************)
(* One lemma for each event.                                               *)
(***************************************************************************)
LEMMA PushCreditKeeps ==
  ASSUME QueuesInv, NEW n \in CreditTimes, PushCredit(n), stopped' = stopped
  PROVE  QueuesInv'
<1> DEFINE q == Fitting(Append(creditQueue, n))
           e == early \/ (creditQueue = <<>> /\ interval < n)
<1>1. creditQueue \in Seq(CreditTimes) /\ QueueOK(creditQueue, interval, canpull, early)
  BY DEF QueuesInv, QueueOK
<1>2. /\ Append(creditQueue, n) \in Seq(CreditTimes) /\ Append(creditQueue, n) # <<>>
      /\ Head(Append(creditQueue, n)) = IF creditQueue = <<>> THEN n ELSE Head(creditQueue)
  <2>1. ASSUME NEW s \in Seq(CreditTimes)
        PROVE  /\ Append(s, n) \in Seq(CreditTimes) /\ Append(s, n) # <<>>
               /\ Head(Append(s, n)) = IF s = <<>> THEN n ELSE Head(s)
    <3>1. Append(s, n) \in Seq(CreditTimes) /\ Len(Append(s, n)) = Len(s) + 1 /\ Len(s) \in Nat
      OBVIOUS
    <3>2. Append(s, n) # <<>> /\ Head(Append(s, n)) = Append(s, n)[1]
      BY <3>1
    <3>3. CASE s = <<>>
      BY <3>1, <3>2, <3>3
    <3>4. CASE s # <<>>
      <4>1. 1 \in 1..Len(s) /\ Head(s) = s[1]
        BY <3>4
      <4>2. Append(s, n)[1] = s[1]
        BY <4>1
      <4>3. QED
        BY <3>1, <3>2, <3>4, <4>1, <4>2
    <3>5. QED
      BY <3>3, <3>4
  <2>2. QED
    BY <1>1, <2>1
<1>3. /\ q \in Seq(CreditTimes) /\ q # <<>> /\ Fits(q)
      /\ Head(q) = IF creditQueue = <<>> THEN n ELSE Head(creditQueue)
  BY <1>2, FittingKeepsFirst
<1>4. handleCanPullPacketChanged(q, waiting, canpull, e)
  BY DEF PushCredit
<1> HIDE DEF q
<1>5. QueueOK(q, interval, canpull, e)
  <2>1. interval \in 0..MaxTime /\ canpull \in {None} \cup 0..MaxTime /\ n \in 1..MaxTime
    BY <1>1, Parameters DEF QueueOK
  <2>2. e \in BOOLEAN
    OBVIOUS
  <2>3. (creditQueue = <<>> \/ early) /\ canpull # None => canpull = 0 /\ interval = 0
    BY <1>1 DEF QueueOK
  <2>4. e /\ canpull # None => canpull = 0 /\ interval = 0
    BY <2>3
  <2>5. ~e => IF canpull = None THEN interval >= Head(q) ELSE interval + canpull = Head(q)
    <3>1. CASE creditQueue = <<>>
      <4>1. ~e => interval >= n /\ n > 0
        BY <2>1, <3>1
      <4>2. ~e => canpull = None
        BY <2>3, <3>1, <4>1
      <4>3. QED
        BY <1>3, <3>1, <4>1, <4>2
    <3>2. CASE creditQueue # <<>>
      BY <1>1, <1>3, <3>2 DEF QueueOK
    <3>3. QED
      BY <3>1, <3>2
  <2> HIDE DEF e
  <2>6. QED
    BY <1>3, <2>1, <2>2, <2>4, <2>5 DEF QueueOK
<1> HIDE DEF e
<1>6. PortOK(waiting, txleft)
  BY DEF QueuesInv
<1>7. QED
  BY <1>4, <1>5, <1>6, AnnouncementKeeps DEF QueuesInv

LEMMA PushOtherKeeps ==
  ASSUME QueuesInv, NEW i \in Others, PushOther(i), stopped' = stopped
  PROVE  QueuesInv'
<1> DEFINE w == [waiting EXCEPT ![i] = @ + 1]
<1>1. waiting \in [Others -> 0..MaxWaiting] /\ waiting[i] < MaxWaiting
  BY DEF QueuesInv, PortOK, PushOther
<1>2. waiting[i] + 1 \in 0..MaxWaiting
  BY <1>1, Parameters
<1>3. w \in [Others -> 0..MaxWaiting]
  BY <1>1, <1>2
<1>4. handleCanPullPacketChanged(creditQueue, w, canpull, early)
  BY DEF PushOther
<1> HIDE DEF w
<1>5. PortOK(w, txleft)
  BY <1>3 DEF QueuesInv, PortOK
<1>6. QED
  BY <1>4, <1>5, AnnouncementKeeps DEF QueuesInv

LEMMA CanPullExpiresKeeps == QueuesInv /\ CanPullExpires => QueuesInv'
<1> SUFFICES ASSUME QueuesInv, CanPullExpires PROVE QueuesInv'
  OBVIOUS
<1>s. stopped' = stopped
  BY DEF CanPullExpires
<1>1. QueueOK(creditQueue, interval, None, early)
  <2>1. QueueOK(creditQueue, interval, 0, early)
    BY DEF QueuesInv, CanPullExpires
  <2>2. interval \in 0..MaxTime /\ interval + 0 = interval
    BY <2>1, Parameters DEF QueueOK
  <2>3. 0 # None
    BY DEF None
  <2>4. creditQueue # <<>> /\ ~early => interval = Head(creditQueue)
    BY <2>1, <2>2, <2>3 DEF QueueOK
  <2>5. QED
    BY <2>1, <2>2, <2>4 DEF QueueOK
<1>2. CASE creditQueue # <<>>
  <2>1. handleCanPullPacketChanged(creditQueue, waiting, None, early)
    BY <1>2 DEF CanPullExpires
  <2>2. QED
    BY <1>s, <1>1, <2>1, AnnouncementKeeps DEF QueuesInv
<1>3. CASE creditQueue = <<>>
  <2>1. Keep(creditQueue, None, early) /\ UNCHANGED <<waiting, buckets, passed, txleft>>
    BY <1>3 DEF CanPullExpires, wrrVars
  <2>2. QED
    BY <1>s, <1>1, <1>3, <2>1 DEF QueuesInv, Keep, CreditNotOverlooked
<1>4. QED
  BY <1>2, <1>3

LEMMA EndIFGKeeps == QueuesInv /\ handleEndIFGPeriod => QueuesInv'
BY DequeueOrIdleKeeps DEF QueuesInv, handleEndIFGPeriod

LEMMA PfcFrameKeeps == QueuesInv /\ processpfcframe => QueuesInv'
BY DEF processpfcframe, QueuesInv, queueVars, wrrVars, CreditNotOverlooked

LEMMA StopKeeps == QueuesInv /\ StopTimePasses => QueuesInv'
BY DEF StopTimePasses, QueuesInv, queueVars, wrrVars, CreditNotOverlooked

LEMMA TickKeeps == QueuesInv /\ Tick => QueuesInv'
<1> SUFFICES ASSUME QueuesInv, Tick PROVE QueuesInv'
  OBVIOUS
<1>1. QueueOK(creditQueue, interval, canpull, early) /\ canpull # 0
  BY DEF QueuesInv, Tick
<1>2. /\ creditQueue \in Seq(CreditTimes)
      /\ interval \in 0..MaxTime /\ canpull \in {None} \cup 0..MaxTime
      /\ creditQueue # <<>> => Head(creditQueue) \in 1..MaxTime
  <2>1. creditQueue \in Seq(CreditTimes) /\ interval \in 0..MaxTime /\ canpull \in {None} \cup 0..MaxTime
    BY <1>1 DEF QueueOK
  <2>2. creditQueue # <<>> => Head(creditQueue) \in CreditTimes
    BY <2>1
  <2>3. QED
    BY <2>1, <2>2, Parameters
<1>3. /\ interval' = IF interval < MaxTime THEN interval + 1 ELSE interval
      /\ canpull' = IF canpull = None THEN None ELSE canpull - 1
      /\ txleft' = IF txleft = None THEN None ELSE txleft - 1
      /\ UNCHANGED <<creditQueue, early, waiting, buckets, passed, stopped>>
      /\ txleft # 0
  BY DEF Tick, wrrVars
<1>4. interval' \in 0..MaxTime /\ canpull' \in {None} \cup 0..MaxTime /\ interval' >= interval
      /\ (canpull' = None <=> canpull = None)
  BY <1>1, <1>2, <1>3, Parameters DEF None
<1>5. canpull # None => creditQueue # <<>> /\ ~early /\ interval + canpull = Head(creditQueue)
  BY <1>1 DEF QueueOK
<1>6. canpull # None => interval' + canpull' = Head(creditQueue)
  BY <1>1, <1>2, <1>3, <1>5, Parameters DEF None
<1>7. creditQueue # <<>> /\ ~early /\ canpull = None => interval' >= Head(creditQueue)
  <2>1. creditQueue # <<>> /\ ~early /\ canpull = None => interval >= Head(creditQueue)
    BY <1>1 DEF QueueOK
  <2>2. QED
    BY <2>1, <1>2, <1>4, Parameters
<1>8. QueueOK(creditQueue', interval', canpull', early')
  <2>1. (creditQueue = <<>> \/ early) => canpull' = None
    BY <1>4, <1>5
  <2>2. creditQueue # <<>> /\ ~early =>
           IF canpull' = None THEN interval' >= Head(creditQueue) ELSE interval' + canpull' = Head(creditQueue)
    BY <1>4, <1>6, <1>7
  <2>3. creditQueue' = creditQueue /\ early' = early
    BY <1>3
  <2>4. Fits(creditQueue) /\ early \in BOOLEAN
    BY <1>1 DEF QueueOK
  <2>5. QED
    BY <1>2, <1>4, <2>1, <2>2, <2>3, <2>4 DEF QueueOK
<1>9. PortOK(waiting', txleft')
  <2>1. PortOK(waiting, txleft)
    BY DEF QueuesInv
  <2>2. txleft' \in {None} \cup 0..CreditTx \cup 0..DataTx
    BY <1>3, <2>1, Parameters DEF PortOK, None
  <2>3. QED
    BY <1>3, <2>1, <2>2 DEF PortOK
<1>10. CreditNotOverlooked'
  <2>1. txleft' = None => txleft = None
    <3>1. txleft \in {None} \cup Nat
      BY Parameters DEF QueuesInv, PortOK
    <3>2. QED
      BY <1>3, <3>1 DEF None
  <2>2. CreditNotOverlooked
    BY DEF QueuesInv
  <2>3. QED
    BY <1>3, <1>4, <2>1, <2>2 DEF CreditNotOverlooked
<1>11. SchedulerOK(buckets', passed')
  BY <1>3 DEF QueuesInv
<1>12. QED
  BY <1>8, <1>9, <1>10, <1>11 DEF QueuesInv

LEMMA StepIInv == IInv /\ [Next]_vars => IInv'
<1> SUFFICES ASSUME IInv, [Next]_vars PROVE IInv'
  OBVIOUS
<1>1. QueuesInv /\ ispaused \in BOOLEAN /\ stopped \in BOOLEAN
  BY DEF IInv
<1>2. QueuesInv'
  <2>1. CASE handleMessage
    BY <1>1, <2>1, PushCreditKeeps, PushOtherKeeps DEF handleMessage
  <2>2. CASE processpfcframe
    BY <1>1, <2>2, PfcFrameKeeps
  <2>3. CASE CanPullExpires
    BY <1>1, <2>3, CanPullExpiresKeeps
  <2>4. CASE handleEndIFGPeriod
    BY <1>1, <2>4, EndIFGKeeps
  <2>5. CASE StopTimePasses
    BY <1>1, <2>5, StopKeeps
  <2>6. CASE Tick
    BY <1>1, <2>6, TickKeeps
  <2>7. CASE UNCHANGED vars
    BY <1>1, <2>7 DEF vars, queueVars, wrrVars, QueuesInv, CreditNotOverlooked
  <2>8. QED
    BY <2>1, <2>2, <2>3, <2>4, <2>5, <2>6, <2>7 DEF Next
<1>3. ispaused' \in BOOLEAN /\ stopped' \in BOOLEAN
  BY <1>1
  DEF Next, handleMessage, processpfcframe, CanPullExpires, handleEndIFGPeriod, StopTimePasses,
      Tick, vars
<1>4. QED
  BY <1>2, <1>3 DEF IInv

\* The invariant that the properties follow from.
THEOREM Invariant == Spec => []IInv
<1>1. Init => IInv
  BY InitIInv
<1>2. IInv /\ [Next]_vars => IInv'
  BY StepIInv
<1>3. QED
  BY <1>1, <1>2, PTL DEF Spec

-----------------------------------------------------------------------------
\* pushPacket never leaves the credit queue overloaded, its timer
\* is never set further ahead than the longest mintime, and the counts of the
\* scheduler and of the other queues keep their ranges: no bucket exceeds its
\* weight or goes below zero.
THEOREM TypeCorrect == Spec => []TypeOK
<1>1. IInv => TypeOK
  BY TypeFromIInv
<1>2. QED
  BY <1>1, Invariant, PTL

\* An idle MAC never faces a credit without a timer that will announce it, but
\* for a credit that came to the empty queue too early.
THEOREM NotOverlooked == Spec => []CreditNotOverlooked
<1>1. IInv => CreditNotOverlooked
  BY DEF IInv, QueuesInv
<1>2. QED
  BY <1>1, Invariant, PTL

\* The canpull timer always expires the moment the first credit may go.
THEOREM TimerExact == Spec => []TimerMatchesFirst
<1>1. IInv => TimerMatchesFirst
  BY DEF IInv, QueuesInv, QueueOK, TimerMatchesFirst
<1>2. QED
  BY <1>1, Invariant, PTL

\* A weighted provider that has a packet at every pull waits for at most twice
\* the weight of every other one, for any number of providers and any weights.
THEOREM NoStarvation == Spec => []BoundedBypass
<1>1. IInv => BoundedBypass
  <2> SUFFICES ASSUME IInv, NEW i \in Watched, NEW j \in Providers, Weights[i] > 0
               PROVE  passed[i][j] <= 2 * Weights[j]
    BY DEF BoundedBypass
  <2>1. SchedulerOK(buckets, passed)
    BY DEF IInv, QueuesInv
  <2>2. /\ buckets[j] \in Nat /\ Weights[j] \in Nat /\ passed[i][j] \in Nat
        /\ passed[i][j] + buckets[j] <= Allowance(buckets, i, j)
    BY <2>1, Inputs DEF SchedulerOK, BucketsOK, BypassAccount
  <2>3. QED
    BY <2>2 DEF Allowance
<1>2. QED
  BY <1>1, Invariant, PTL
=============================================================================

---------------------------- MODULE DCQCN_proofs ----------------------------
(***************************************************************************)
(* Proofs about the DCQCN sender for any flows and any setting of the      *)
(* parameters: its types, the iterator, the timers, and the rates.         *)
(* (PrefixSum_proofs gives LeastNat.)                                      *)
(***************************************************************************)
EXTENDS DCQCN, PrefixSum_proofs

-----------------------------------------------------------------------------
(***************************************************************************)
(* The map and its iterator.                                               *)
(***************************************************************************)
LEMMA FlowIdsAreNumbers == FlowIds \subseteq Nat /\ 0 \notin FlowIds
BY DcqcnAssumption DEF FlowIds, DcqcnAssumption

LEMMA FirstIsLeast ==
  ASSUME NEW S \in SUBSET FlowIds, S # {}
  PROVE  First(S) \in S /\ \A g \in S : First(S) <= g
<1>1. \E m \in S : \A g \in S : m <= g
  BY LeastNat, FlowIdsAreNumbers
<1>2. QED
  BY <1>1 DEF First

LEMMA LeastIsFirst ==
  ASSUME NEW S \in SUBSET FlowIds, NEW m \in S, \A g \in S : m <= g
  PROVE  First(S) = m
<1>1. First(S) \in S /\ First(S) <= m /\ m <= First(S)
  BY FirstIsLeast
<1>2. First(S) \in Nat /\ m \in Nat
  BY <1>1, FlowIdsAreNumbers
<1>3. QED
  BY <1>1, <1>2

\* A new flow is the first of an empty map and the last of any other.
LEMMA NewIsLast ==
  ASSUME NEW S \in SUBSET FlowIds, NEW f \in FlowIds, \A g \in S : g < f
  PROVE  First(S \cup {f}) = IF S = {} THEN f ELSE First(S)
<1>1. CASE S = {}
  <2>1. S \cup {f} = {f} /\ \A g \in {f} : f <= g
    BY <1>1, FlowIdsAreNumbers
  <2>2. First({f}) = f
    BY <2>1, LeastIsFirst
  <2>3. QED
    BY <1>1, <2>1, <2>2, Zenon
<1>2. CASE S # {}
  <2>1. First(S) \in S /\ \A g \in S : First(S) <= g
    BY <1>2, FirstIsLeast
  <2>2. First(S) \in S \cup {f} /\ \A g \in S \cup {f} : First(S) <= g
    <3>1. First(S) \in Nat /\ f \in Nat /\ First(S) < f
      BY <2>1, FlowIdsAreNumbers
    <3>2. QED
      BY <2>1, <3>1
  <2>3. First(S \cup {f}) = First(S)
    BY <2>2, LeastIsFirst
  <2>4. QED
    BY <1>2, <2>3, Zenon
<1>3. QED
  BY <1>1, <1>2

\* The successor of the first flow is the first of the others.
LEMMA SuccessorOfFirst ==
  ASSUME Flows \subseteq FlowIds, Flows # {}
  PROVE  Successor(First(Flows)) = First(Flows \ {First(Flows)})
<1>1. First(Flows) \in Flows /\ \A g \in Flows : First(Flows) <= g
  BY FirstIsLeast
<1>2. {g \in Flows : g > First(Flows)} = Flows \ {First(Flows)}
  <2>1. First(Flows) \in Nat /\ \A g \in Flows : g \in Nat
    BY <1>1, FlowIdsAreNumbers
  <2>2. \A g \in Flows : g > First(Flows) <=> g # First(Flows)
    BY <1>1, <2>1
  <2>3. QED
    BY <2>2
<1>3. Successor(First(Flows)) = First({g \in Flows : g > First(Flows)})
  BY Zenon DEF Successor
<1>4. QED
  BY <1>2, <1>3, Zenon

-----------------------------------------------------------------------------
(***************************************************************************)
(* The rate of a flow with history c.                                      *)
(***************************************************************************)
RateOK(i, c) ==
    /\ 0 < i.currentRate /\ i.currentRate <= i.targetRate /\ i.targetRate <= linkspeed
    /\ c.rate # 0 => /\ c.steps = i.TimeFrSteps
                     /\ c.steps < frSteps_th /\ i.ByteFrSteps < frSteps_th
                           => i.targetRate = c.rate

FlowOK(i, c) == i \in sender_flowinfo /\ RateOK(i, c)

\* The rate after a cut by half of a / A, rounded up.
LEMMA CutArithmetic ==
  ASSUME NEW r \in Nat, 0 < r, NEW A \in Nat, 0 < A, NEW a \in 0..A
  PROVE  LET cutRate == (r * (2 * A - a) + 2 * A - 1) \div (2 * A)
         IN  cutRate \in Nat /\ 0 < cutRate /\ cutRate <= r
<1> DEFINE d == 2 * A
           m == d - a
           n == r * m + d - 1
<1>1. d \in Nat /\ m \in Nat /\ 0 < d /\ m <= d /\ 1 <= m
  OBVIOUS
<1>2. r * m \in Nat /\ r * m >= 1 /\ r * m <= r * d /\ r * d \in Nat
  <2> HIDE DEF d, m
  <2>1. r * m \in Nat /\ r * d \in Nat
    BY <1>1
  <2>2. r * (d - m) >= 0 /\ r * (d - m) = r * d - r * m
    BY <1>1
  <2>3. (r - 1) * (m - 1) >= 0 /\ (r - 1) * (m - 1) = r * m - r - m + 1
    BY <1>1
  <2>4. QED
    BY <1>1, <2>1, <2>2, <2>3
<1>3. n \in Nat /\ d <= n /\ n < (r + 1) * d
  <2> HIDE DEF d, m
  <2>1. (r + 1) * d = r * d + d
    BY <1>1
  <2>2. QED
    BY <1>1, <1>2, <2>1
<1>4. n \div d \in Nat /\ 0 < n \div d /\ n \div d <= r
  <2> HIDE DEF d, m, n
  <2> DEFINE k == n \div d
  <2>1. k \in Int /\ d * k <= n /\ n < d * (k + 1)
    BY <1>1, <1>3
  <2> HIDE DEF k
  <2>2. k >= 1
    <3>1. SUFFICES ASSUME k + 1 <= 1 PROVE FALSE
      BY <2>1
    <3>2. d * (1 - (k + 1)) >= 0 /\ d * (1 - (k + 1)) = d - d * (k + 1)
      BY <1>1, <2>1, <3>1
    <3>3. d * (k + 1) \in Int
      BY <1>1, <2>1
    <3>4. QED
      BY <1>1, <1>3, <2>1, <3>2, <3>3
  <2>3. k <= r
    <3>1. SUFFICES ASSUME r + 1 <= k PROVE FALSE
      BY <2>1
    <3>2. d * (k - (r + 1)) >= 0 /\ d * (k - (r + 1)) = d * k - (r + 1) * d
      BY <1>1, <2>1, <3>1
    <3>3. d * k \in Int /\ (r + 1) * d \in Int
      BY <1>1, <2>1
    <3>4. QED
      BY <1>3, <2>1, <3>2, <3>3
  <2>4. QED
    BY <2>1, <2>2, <2>3 DEF k
<1>5. QED
  BY <1>4

\* alpha moves between 0 and 1.
LEMMA AlphaArithmetic ==
  ASSUME NEW A \in Nat, 0 < A, NEW a \in 0..A, NEW g \in 0..A
  PROVE  LET decayed == ((A - g) * a) \div A
         IN  decayed \in Nat /\ decayed <= A - g
<1> DEFINE n == (A - g) * a
           k == n \div A
<1>1. n \in Nat /\ n <= (A - g) * A /\ (A - g) * A \in Nat
  <2>1. (A - g) \in Nat /\ A - a \in Nat
    OBVIOUS
  <2>2. (A - g) * a \in Nat /\ (A - g) * A \in Nat
    BY <2>1
  <2>3. (A - g) * (A - a) >= 0 /\ (A - g) * (A - a) = (A - g) * A - (A - g) * a
    BY <2>1
  <2>4. QED
    BY <2>2, <2>3
<1>2. k \in Int /\ A * k <= n /\ n < A * (k + 1)
  <2> HIDE DEF n
  <2>1. QED
    BY <1>1
<1> HIDE DEF n, k
<1>3. k >= 0
  <2>1. SUFFICES ASSUME k + 1 <= 0 PROVE FALSE
    BY <1>2
  <2>2. A * (0 - (k + 1)) >= 0 /\ A * (0 - (k + 1)) = 0 - A * (k + 1)
    BY <1>2, <2>1
  <2>3. A * (k + 1) \in Int
    BY <1>2
  <2>4. QED
    BY <1>1, <1>2, <2>2, <2>3
<1>4. k <= A - g
  <2>1. SUFFICES ASSUME (A - g) + 1 <= k PROVE FALSE
    BY <1>2
  <2>2. A * (k - ((A - g) + 1)) >= 0 /\ A * (k - ((A - g) + 1)) = A * k - (A - g) * A - A
    BY <1>2, <2>1
  <2>3. A * k \in Int
    BY <1>2
  <2>4. QED
    BY <1>1, <1>2, <2>2, <2>3
<1>5. QED
  BY <1>2, <1>3, <1>4 DEF n, k

LEMMA Parameters ==
  /\ NumFlows \in Nat
  /\ Lengths \subseteq Nat \ {0}
  /\ max_pck_size \in Nat /\ max_pck_size > 0
  /\ AlphaUnit \in Nat /\ AlphaUnit > 0
  /\ initialRate \in Nat /\ 0 < initialRate /\ initialRate <= linkspeed
  /\ HeaderLength \in Nat
  /\ frSteps_th \in Nat
  /\ MaxFrSteps \in Nat
  /\ Rai \in Nat /\ Rhai \in Nat /\ linkspeed \in Nat
  /\ gamma \in 0..AlphaUnit
BY DcqcnAssumption DEF DcqcnAssumption

LEMMA NewFlowOK ==
  ASSUME NEW length \in Lengths, NEW c, c.rate = 0
  PROVE  FlowOK(NewFlow(length), c)
BY Parameters DEF NewFlow, FlowOK, RateOK, sender_flowinfo

LEMMA CutOK ==
  ASSUME NEW i, NEW c, FlowOK(i, c)
  PROVE  FlowOK(CutRate(i), [rate |-> i.currentRate, steps |-> 0])
<1> DEFINE r == (i.currentRate * (2 * AlphaUnit - i.alpha) + 2 * AlphaUnit - 1)
                   \div (2 * AlphaUnit)
           d == ((AlphaUnit - gamma) * i.alpha) \div AlphaUnit
           cutInfo == [remainLength |-> i.remainLength, SndAccState |-> i.SndAccState,
                       ByteCounter |-> 0, currentRate |-> r,
                       targetRate |-> i.currentRate, alpha |-> d + gamma, iRhai |-> 0,
                       ByteFrSteps |-> 0, TimeFrSteps |-> 0]
<1>1. i \in sender_flowinfo /\ RateOK(i, c)
  BY DEF FlowOK
<1>2. i.currentRate \in Nat /\ 0 < i.currentRate /\ i.alpha \in 0..AlphaUnit
      /\ i.currentRate <= linkspeed
  BY <1>1, Parameters DEF sender_flowinfo, RateOK
<1>3. r \in Nat /\ 0 < r /\ r <= i.currentRate
  BY <1>2, Parameters, CutArithmetic
<1>4. d + gamma \in 0..AlphaUnit
  <2>1. d \in Nat /\ d <= AlphaUnit - gamma
    BY <1>2, Parameters, AlphaArithmetic
  <2> HIDE DEF d
  <2>2. QED
    BY <2>1, Parameters
<1>5. CutRate(i) = cutInfo
  <2>1. CutRate(i) = [i EXCEPT !.targetRate = i.currentRate, !.currentRate = r,
                               !.alpha = d + gamma, !.ByteCounter = 0,
                               !.ByteFrSteps = 0, !.TimeFrSteps = 0, !.iRhai = 0]
    BY DEF CutRate, r, d
  <2> HIDE DEF r, d
  <2>2. QED
    BY <1>1, <2>1 DEF sender_flowinfo
<1>6. cutInfo \in sender_flowinfo
  <2> HIDE DEF r, d
  <2>1. QED
    BY <1>1, <1>3, <1>4, Parameters DEF sender_flowinfo
<1>7. RateOK(cutInfo, [rate |-> i.currentRate, steps |-> 0])
  <2> HIDE DEF r, d
  <2>1. QED
    BY <1>2, <1>3, Parameters DEF RateOK
<1> HIDE DEF cutInfo
<1>8. QED
  BY <1>5, <1>6, <1>7 DEF FlowOK

\* A step of the rate timer.
LEMMA IncreaseOK ==
  ASSUME NEW i, NEW c \in [rate : Nat, steps : Nat],
         FlowOK(i, c), i.TimeFrSteps < MaxFrSteps
  PROVE  FlowOK(increaseTxRate([i EXCEPT !.TimeFrSteps = @ + 1]),
                [c EXCEPT !.steps = @ + 1])
<1> DEFINE j == [i EXCEPT !.TimeFrSteps = @ + 1]
           state  == AccState(j)
           hyper  == j.iRhai + (IF state = "Hyper_Increase" THEN 1 ELSE 0)
           target == CASE state = "Fast_Recovery"     -> j.targetRate
                       [] state = "Additive_Increase" -> AtMostLink(j.targetRate + Rai)
                       [] state = "Hyper_Increase"    -> AtMostLink(j.targetRate + hyper * Rhai)
           rate   == (j.currentRate + target) \div 2
           newInfo == [remainLength |-> i.remainLength, SndAccState |-> state,
                       ByteCounter |-> i.ByteCounter, currentRate |-> rate,
                       targetRate |-> target, alpha |-> i.alpha, iRhai |-> hyper,
                       ByteFrSteps |-> i.ByteFrSteps, TimeFrSteps |-> i.TimeFrSteps + 1]
<1>1. i \in sender_flowinfo /\ RateOK(i, c)
  BY DEF FlowOK
<1>2. /\ j = [remainLength |-> i.remainLength, SndAccState |-> i.SndAccState,
               ByteCounter |-> i.ByteCounter, currentRate |-> i.currentRate,
               targetRate |-> i.targetRate, alpha |-> i.alpha, iRhai |-> i.iRhai,
               ByteFrSteps |-> i.ByteFrSteps, TimeFrSteps |-> i.TimeFrSteps + 1]
  BY <1>1 DEF sender_flowinfo
<1>3. /\ i.currentRate \in Nat /\ 0 < i.currentRate /\ i.targetRate \in Nat
      /\ i.currentRate <= i.targetRate /\ i.targetRate <= linkspeed
      /\ i.iRhai \in Nat /\ i.ByteFrSteps \in Nat /\ i.TimeFrSteps \in Nat
      /\ i.TimeFrSteps + 1 \in 0..MaxFrSteps
  BY <1>1, Parameters DEF sender_flowinfo, RateOK
<1>4. /\ state \in {"Fast_Recovery", "Additive_Increase", "Hyper_Increase"}
      /\ i.ByteFrSteps < frSteps_th /\ i.TimeFrSteps + 1 < frSteps_th
            => state = "Fast_Recovery"
      /\ state = "Fast_Recovery" => i.ByteFrSteps < frSteps_th
                                       /\ i.TimeFrSteps + 1 < frSteps_th
  <2> DEFINE b == i.ByteFrSteps
             u == i.TimeFrSteps + 1
  <2>1. b \in Int /\ u \in Int /\ frSteps_th \in Int
    BY <1>3, Parameters
  <2>2. j.ByteFrSteps = b /\ j.TimeFrSteps = u
    BY <1>2
  <2> HIDE DEF b, u, j
  <2>3. /\ state \in {"Fast_Recovery", "Additive_Increase", "Hyper_Increase"}
        /\ b < frSteps_th /\ u < frSteps_th => state = "Fast_Recovery"
        /\ state = "Fast_Recovery" => b < frSteps_th /\ u < frSteps_th
    BY <2>1, <2>2 DEF AccState
  <2>4. QED
    BY <2>3 DEF b, u
<1>5. /\ j.currentRate = i.currentRate /\ j.targetRate = i.targetRate
      /\ j.iRhai = i.iRhai
  BY <1>2
<1>6. increaseTxRate(j) = newInfo
  <2> HIDE DEF state, hyper, target, rate
  <2>1. increaseTxRate(j) = [j EXCEPT !.SndAccState = state, !.iRhai = hyper,
                                      !.targetRate = target, !.currentRate = rate]
    BY DEF increaseTxRate, state, hyper, target, rate
  <2> HIDE DEF j
  <2>2. QED
    BY <1>2, <2>1
<1> HIDE DEF j, state
<1>7. hyper \in Nat
  BY <1>3, <1>5
<1>8. /\ target \in Nat /\ i.targetRate <= target /\ target <= linkspeed
      /\ state = "Fast_Recovery" => target = i.targetRate
  <2> HIDE DEF hyper
  <2>1. hyper * Rhai \in Nat
    BY <1>7, Parameters
  <2>2. CASE state = "Fast_Recovery"
    BY <1>3, <1>5, <2>2
  <2>3. CASE state = "Additive_Increase"
    BY <1>3, <1>5, <2>3, Parameters DEF AtMostLink
  <2>4. CASE state = "Hyper_Increase"
    BY <1>3, <1>5, <2>1, <2>4, Parameters DEF AtMostLink
  <2>5. QED
    BY <1>4, <2>2, <2>3, <2>4
<1> HIDE DEF hyper, target
<1>9. rate \in Nat /\ 0 < rate /\ rate <= target
  BY <1>3, <1>5, <1>8
<1> HIDE DEF rate
<1>10. newInfo \in sender_flowinfo
  BY <1>1, <1>3, <1>4, <1>7, <1>8, <1>9 DEF sender_flowinfo
<1>11. RateOK(newInfo, [c EXCEPT !.steps = @ + 1])
  BY <1>1, <1>3, <1>4, <1>8, <1>9, Parameters DEF RateOK
<1> HIDE DEF newInfo
<1>12. QED
  BY <1>6, <1>10, <1>11 DEF FlowOK, j

LEMMA DecayOK ==
  ASSUME NEW i, NEW c, FlowOK(i, c)
  PROVE  FlowOK([i EXCEPT !.alpha = ((AlphaUnit - gamma) * @) \div AlphaUnit], c)
<1> DEFINE d == ((AlphaUnit - gamma) * i.alpha) \div AlphaUnit
<1>1. i \in sender_flowinfo /\ RateOK(i, c)
  BY DEF FlowOK
<1>2. d \in 0..AlphaUnit
  <2>1. i.alpha \in 0..AlphaUnit
    BY <1>1 DEF sender_flowinfo
  <2>2. d \in Nat /\ d <= AlphaUnit - gamma
    BY <2>1, Parameters, AlphaArithmetic
  <2> HIDE DEF d
  <2>3. QED
    BY <2>2, Parameters
<1> HIDE DEF d
<1>3. FlowOK([i EXCEPT !.alpha = d], c)
  BY <1>1, <1>2 DEF FlowOK, sender_flowinfo, RateOK
<1>4. QED
  BY <1>3 DEF d

\* A packet that leaves bytes behind, with any byte count.
LEMMA PacketOK ==
  ASSUME NEW i, NEW c, FlowOK(i, c), i.remainLength > max_pck_size, NEW n \in Nat
  PROVE  LET rest == [i EXCEPT !.remainLength = @ - max_pck_size]
         IN  FlowOK(rest, c) /\ FlowOK([rest EXCEPT !.ByteCounter = @ + n], c)
<1> DEFINE left == i.remainLength - max_pck_size
           Rest(bytes) ==
               [remainLength |-> left, SndAccState |-> i.SndAccState,
                ByteCounter |-> bytes, currentRate |-> i.currentRate,
                targetRate |-> i.targetRate, alpha |-> i.alpha, iRhai |-> i.iRhai,
                ByteFrSteps |-> i.ByteFrSteps, TimeFrSteps |-> i.TimeFrSteps]
<1>1. i \in sender_flowinfo /\ RateOK(i, c)
  BY DEF FlowOK
<1>2. left \in Nat \ {0} /\ i.ByteCounter \in Nat
  BY <1>1, Parameters DEF sender_flowinfo
<1> HIDE DEF left
<1>3. \A bytes \in Nat : Rest(bytes) \in sender_flowinfo /\ RateOK(Rest(bytes), c)
  BY <1>1, <1>2 DEF sender_flowinfo, RateOK
<1>4. [i EXCEPT !.remainLength = @ - max_pck_size] = Rest(i.ByteCounter)
  BY <1>1 DEF sender_flowinfo, left
<1>5. [Rest(i.ByteCounter) EXCEPT !.ByteCounter = @ + n] = Rest(i.ByteCounter + n)
  OBVIOUS
<1>6. i.ByteCounter + n \in Nat
  BY <1>2
<1> HIDE DEF Rest
<1>7. FlowOK(Rest(i.ByteCounter), c) /\ FlowOK(Rest(i.ByteCounter + n), c)
  BY <1>2, <1>3, <1>6 DEF FlowOK
<1>8. QED
  BY <1>4, <1>5, <1>7

-----------------------------------------------------------------------------
(***************************************************************************)
(* The invariant.  A flow enters the map under an id that the map and the  *)
(* history do not know yet, which is what makes it the last.               *)
(***************************************************************************)
RatesAndCuts == \A f \in Flows : RateOK(sender_flowMap[f], cut[f])

NewIdsFresh ==
    /\ \A f \in Flows : f < flowid
    /\ \A f \in FlowIds : f >= flowid => cut[f].rate = 0

IInv == TypeOK /\ IterValid /\ TimersOwned /\ RatesAndCuts /\ NewIdsFresh

LEMMA FlowsOK ==
  ASSUME IInv, NEW f \in Flows
  PROVE  f \in FlowIds /\ FlowOK(sender_flowMap[f], cut[f])
BY DEF IInv, TypeOK, RatesAndCuts, FlowOK

\* What a step that keeps or changes the map must show of it.
LEMMA FlowsOKNext ==
  ASSUME \A f \in DOMAIN sender_flowMap' : f \in FlowIds /\ FlowOK(sender_flowMap'[f], cut'[f])
  PROVE  /\ Flows' \subseteq FlowIds
         /\ \A f \in Flows' : sender_flowMap'[f] \in sender_flowinfo
         /\ RatesAndCuts'
BY DEF FlowOK, RatesAndCuts, Flows

LEMMA InitInv == Init => IInv
<1> SUFFICES ASSUME Init PROVE IInv
  OBVIOUS
<1>1. Flows = {}
  BY DEF Init, Flows
<1>2. First({}) = 0
  BY DEF First
<1>3. TypeOK
  <2>1. flowid \in 1..NumFlows + 1
    BY Parameters DEF Init
  <2>2. cut \in [FlowIds -> [rate : Nat, steps : Nat]]
    BY DEF Init
  <2>3. SenderState \in {"SENDING", "STOPPING"} /\ timers = {}
    BY DEF Init
  <2>4. senddata \in BOOLEAN /\ stopped \in BOOLEAN
    BY DEF Init
  <2>5. QED
    BY <1>1, <2>1, <2>2, <2>3, <2>4 DEF TypeOK
<1>4. IterValid
  BY <1>1, <1>2 DEF Init, IterValid
<1>5. QED
  BY <1>1, <1>3, <1>4 DEF Init, IInv, TimersOwned, RatesAndCuts, NewIdsFresh

-----------------------------------------------------------------------------
(***************************************************************************)
(* One lemma per action.                                                   *)
(***************************************************************************)
\* The application's packet, as a new flow or as one more packet of a flow.
LEMMA StoreNewFlow ==
  ASSUME IInv, flowid <= NumFlows, NEW length \in Lengths,
         sender_flowMap' = Store(sender_flowMap, flowid, NewFlow(length)),
         cut' = cut
  PROVE  /\ flowid \in FlowIds /\ Flows' = Flows \cup {flowid}
         /\ \A f \in DOMAIN sender_flowMap' :
               f \in FlowIds /\ FlowOK(sender_flowMap'[f], cut'[f])
<1>1. flowid \in FlowIds
  BY Parameters DEF IInv, TypeOK, FlowIds
<1>2. cut[flowid].rate = 0
  <2>1. flowid >= flowid
    BY DEF IInv, TypeOK
  <2>2. QED
    BY <1>1, <2>1 DEF IInv, NewIdsFresh
<1>3. DOMAIN sender_flowMap' = Flows \cup {flowid}
  BY DEF Store, Flows
<1>4. ASSUME NEW f \in DOMAIN sender_flowMap'
      PROVE  f \in FlowIds /\ FlowOK(sender_flowMap'[f], cut'[f])
  <2>1. CASE f = flowid
    <3>1. sender_flowMap'[f] = NewFlow(length)
      BY <1>3, <2>1 DEF Store
    <3>2. FlowOK(NewFlow(length), cut[f])
      BY <1>2, <2>1, NewFlowOK
    <3>3. QED
      BY <1>1, <2>1, <3>1, <3>2
  <2>2. CASE f # flowid
    <3>1. f \in Flows /\ sender_flowMap'[f] = sender_flowMap[f]
      BY <1>3, <2>2 DEF Store, Flows
    <3>2. f \in FlowIds /\ FlowOK(sender_flowMap[f], cut[f])
      BY <3>1, FlowsOK
    <3>3. QED
      BY <3>1, <3>2
  <2>3. QED
    BY <2>1, <2>2
<1>5. QED
  BY <1>1, <1>3, <1>4 DEF Flows

LEMMA UpperpckStep ==
  ASSUME IInv, processUpperpck
  PROVE  IInv'
<1>1. PICK new \in BOOLEAN :
        /\ new => /\ flowid <= NumFlows
                  /\ flowid' = flowid + 1
                  /\ \E length \in Lengths :
                        sender_flowMap' = Store(sender_flowMap, flowid, NewFlow(length))
                  /\ iter' = IterFor(flowid)
        /\ ~new => Flows # {} /\ UNCHANGED <<flowid, sender_flowMap, iter>>
  BY Zenon DEF processUpperpck
<1>2. /\ UNCHANGED <<timers, cut, stopped>>
      /\ SenderState' = "SENDING"
      /\ senddata' = TRUE
  <2>1. UNCHANGED <<timers, cut, stopped>>
    BY Zenon DEF processUpperpck
  <2>2. CASE SenderState = "STOPPING"
    BY <2>1, <2>2, Zenon DEF processUpperpck, StartSending
  <2>3. CASE SenderState # "STOPPING"
    <3>1. SenderState = "SENDING"
      BY <2>3 DEF IInv, TypeOK
    <3>2. senddata = TRUE
      BY <3>1, Zenon DEF IInv, IterValid, TypeOK
    <3>3. QED
      BY <2>1, <2>3, <3>1, <3>2, Zenon DEF processUpperpck
  <2>4. QED
    BY <2>2, <2>3
<1>3. CASE new
  <2>1. PICK length \in Lengths :
          sender_flowMap' = Store(sender_flowMap, flowid, NewFlow(length))
    BY <1>1, <1>3
  <2>2. /\ flowid \in FlowIds /\ Flows' = Flows \cup {flowid}
        /\ \A f \in DOMAIN sender_flowMap' :
              f \in FlowIds /\ FlowOK(sender_flowMap'[f], cut'[f])
    BY <1>1, <1>2, <1>3, <2>1, StoreNewFlow
  <2>3. /\ Flows' \subseteq FlowIds
        /\ \A f \in Flows' : sender_flowMap'[f] \in sender_flowinfo
        /\ RatesAndCuts'
    BY <2>2, FlowsOKNext
  <2>4. TypeOK'
    <3>1. flowid' \in 1..NumFlows + 1
      BY <1>1, <1>3, Parameters DEF IInv, TypeOK
    <3>2. QED
      BY <1>2, <2>3, <3>1, Zenon DEF IInv, TypeOK
  <2>5. IterValid'
    <3>1. Flows \in SUBSET FlowIds /\ \A g \in Flows : g < flowid
      BY DEF IInv, TypeOK, NewIdsFresh
    <3>2. First(Flows \cup {flowid}) = IF Flows = {} THEN flowid ELSE First(Flows)
      BY <2>2, <3>1, NewIsLast
    <3>3. iter' = IF Flows = {} THEN flowid ELSE iter
      BY <1>1, <1>3 DEF IterFor
    <3>4. iter = First(Flows)
      BY DEF IInv, IterValid
    <3>5. iter' = First(Flows')
      BY <2>2, <3>2, <3>3, <3>4, Zenon
    <3>6. QED
      BY <1>2, <3>5, Zenon DEF IterValid
  <2>6. TimersOwned'
    BY <1>2, <2>2 DEF IInv, TimersOwned
  <2>7. NewIdsFresh'
    <3>1. flowid \in Int /\ \A f \in FlowIds : f \in Int
      BY FlowIdsAreNumbers DEF IInv, TypeOK
    <3>2. QED
      BY <1>1, <1>2, <1>3, <2>2, <3>1, FlowIdsAreNumbers DEF IInv, TypeOK, NewIdsFresh
  <2>8. QED
    BY <2>3, <2>4, <2>5, <2>6, <2>7 DEF IInv
<1>4. CASE ~new
  <2>1. Flows' = Flows /\ UNCHANGED <<flowid, sender_flowMap, iter, timers, cut, stopped>>
    BY <1>1, <1>2, <1>4 DEF Flows
  <2>2. TypeOK' /\ IterValid'
    BY <1>2, <2>1, Zenon DEF IInv, TypeOK, IterValid
  <2>3. TimersOwned' /\ RatesAndCuts' /\ NewIdsFresh'
    BY <2>1 DEF IInv, TimersOwned, RatesAndCuts, NewIdsFresh
  <2>4. QED
    BY <2>2, <2>3 DEF IInv
<1>5. QED
  BY <1>3, <1>4

\* The packets of the flow at iter.
LEMMA LastPacketStep ==
  ASSUME IInv, iter \in Flows, LastPacket(iter), senddata,
         UNCHANGED <<SenderState, flowid, cut, stopped>>
  PROVE  IInv'
<1>1. Flows' = Flows \ {iter} /\ \A f \in Flows' : sender_flowMap'[f] = sender_flowMap[f]
  BY DEF LastPacket, Erase, Flows
<1>2. \A f \in DOMAIN sender_flowMap' : f \in FlowIds /\ FlowOK(sender_flowMap'[f], cut'[f])
  BY <1>1, FlowsOK DEF Flows
<1>3. /\ Flows' \subseteq FlowIds
      /\ \A f \in Flows' : sender_flowMap'[f] \in sender_flowinfo
      /\ RatesAndCuts'
  BY <1>2, FlowsOKNext
<1>4. timers' = timers \ TimersOf(iter) /\ UNCHANGED senddata
  BY DEF LastPacket
<1>5. TypeOK'
  <2>1. timers' \subseteq {"rate", "alpha"} \X FlowIds
    BY <1>4 DEF IInv, TypeOK
  <2>2. QED
    BY <1>3, <1>4, <2>1, Zenon DEF IInv, TypeOK
<1>6. IterValid'
  <2>1. Flows \subseteq FlowIds /\ Flows # {} /\ iter = First(Flows)
    BY DEF IInv, TypeOK, IterValid
  <2>2. iter' = Successor(First(Flows))
    BY <2>1 DEF LastPacket
  <2>3. iter' = First(Flows')
    BY <1>1, <2>1, <2>2, SuccessorOfFirst, Zenon
  <2>4. SenderState = "SENDING"
    BY Zenon DEF IInv, IterValid
  <2>5. QED
    BY <1>4, <2>3, <2>4, Zenon DEF IterValid
<1>7. TimersOwned'
  <2>1. SUFFICES ASSUME NEW t \in timers' PROVE t[2] \in Flows'
    BY DEF TimersOwned
  <2>2. t \in timers /\ t \notin TimersOf(iter) /\ t \in {"rate", "alpha"} \X FlowIds
    BY <1>4 DEF IInv, TypeOK
  <2>3. t[2] \in Flows
    BY <2>2 DEF IInv, TimersOwned
  <2>4. t[2] # iter
    BY <2>2 DEF TimersOf
  <2>5. QED
    BY <1>1, <2>3, <2>4
<1>8. NewIdsFresh'
  BY <1>1 DEF IInv, NewIdsFresh
<1>9. QED
  BY <1>3, <1>5, <1>6, <1>7, <1>8 DEF IInv

\* Steps that change only entries of the map: what they must show.
LEMMA EntryStep ==
  ASSUME IInv, Flows' = Flows,
         \A f \in Flows : FlowOK(sender_flowMap'[f], cut'[f]),
         cut' \in [FlowIds -> [rate : Nat, steps : Nat]],
         \A f \in FlowIds : cut'[f].rate = 0 \/ cut'[f].rate = cut[f].rate \/ f \in Flows,
         timers' \subseteq {"rate", "alpha"} \X FlowIds,
         \A t \in timers' : t[2] \in Flows,
         UNCHANGED <<iter, SenderState, senddata, flowid, stopped>>
  PROVE  IInv'
<1>1. \A f \in DOMAIN sender_flowMap' : f \in FlowIds /\ FlowOK(sender_flowMap'[f], cut'[f])
  BY DEF Flows, IInv, TypeOK
<1>2. /\ Flows' \subseteq FlowIds
      /\ \A f \in Flows' : sender_flowMap'[f] \in sender_flowinfo
      /\ RatesAndCuts'
  BY <1>1, FlowsOKNext
<1>3. TypeOK'
  BY <1>2, Zenon DEF IInv, TypeOK
<1>4. IterValid'
  BY Zenon DEF IInv, IterValid
<1>5. TimersOwned'
  BY DEF TimersOwned
<1>6. NewIdsFresh'
  <2>1. \A f \in Flows : f \in Nat /\ flowid \in Nat /\ f < flowid
    BY FlowIdsAreNumbers, Parameters DEF IInv, TypeOK, NewIdsFresh
  <2>2. ASSUME NEW f \in FlowIds, f >= flowid PROVE cut'[f].rate = 0
    <3>1. f \notin Flows
      BY <2>1, <2>2
    <3>2. cut[f].rate = 0
      BY <2>2 DEF IInv, NewIdsFresh
    <3>3. QED
      BY <3>1, <3>2
  <2>3. QED
    BY <2>1, <2>2 DEF NewIdsFresh
<1>7. QED
  BY <1>2, <1>3, <1>4, <1>5, <1>6 DEF IInv

LEMMA NotLastPacketStep ==
  ASSUME IInv, iter \in Flows, sender_flowMap[iter].remainLength > max_pck_size,
         NotLastPacket(iter, max_pck_size),
         UNCHANGED <<SenderState, flowid, cut, stopped>>
  PROVE  IInv'
<1> DEFINE rest == [sender_flowMap[iter] EXCEPT !.remainLength = @ - max_pck_size]
           snd_info == IF rest.SndAccState = "Normal" THEN rest
                       ELSE [rest EXCEPT !.ByteCounter = @ + max_pck_size + HeaderLength]
<1>1. FlowOK(sender_flowMap[iter], cut[iter]) /\ iter \in FlowIds
  BY FlowsOK
<1>2. FlowOK(snd_info, cut[iter])
  <2>1. max_pck_size + HeaderLength \in Nat
    BY Parameters
  <2>2. FlowOK(rest, cut[iter])
    BY <1>1, <2>1, PacketOK, Zenon
  <2>3. FlowOK([rest EXCEPT !.ByteCounter = @ + (max_pck_size + HeaderLength)], cut[iter])
    BY <1>1, <2>1, PacketOK, Zenon
  <2>4. rest.ByteCounter + (max_pck_size + HeaderLength)
          = rest.ByteCounter + max_pck_size + HeaderLength
    <3>1. rest.ByteCounter \in Nat
      BY <2>2 DEF FlowOK, sender_flowinfo
    <3> HIDE DEF rest
    <3>2. QED
      BY <3>1, Parameters
  <2> HIDE DEF rest
  <2>5. QED
    BY <2>2, <2>3, <2>4
<1>3. PICK map : /\ sender_flowMap' = Store(map, iter, snd_info)
                 /\ DOMAIN map = Flows
                 /\ \A f \in Flows : f # iter => map[f] = sender_flowMap[f]
  <2> DEFINE map == IF rest.SndAccState # "Normal" /\ snd_info.ByteCounter >= ByteCounter_th
                    THEN ByteCounterExpired(sender_flowMap, iter) ELSE sender_flowMap
  <2>1. sender_flowMap' = Store(map, iter, snd_info)
    BY DEF NotLastPacket
  <2> HIDE DEF rest, snd_info
  <2>2. DOMAIN map = Flows /\ \A f \in Flows : f # iter => map[f] = sender_flowMap[f]
    BY DEF ByteCounterExpired, Store, Flows
  <2>3. QED
    BY <2>1, <2>2
<1> HIDE DEF snd_info
<1>4. Flows' = Flows /\ \A f \in Flows : FlowOK(sender_flowMap'[f], cut'[f])
  <2>1. Flows' = Flows
    BY <1>3 DEF Store, Flows
  <2>2. ASSUME NEW f \in Flows PROVE FlowOK(sender_flowMap'[f], cut'[f])
    <3>1. sender_flowMap'[f] = IF f = iter THEN snd_info ELSE sender_flowMap[f]
      BY <1>3 DEF Store
    <3>2. FlowOK(sender_flowMap[f], cut[f])
      BY FlowsOK
    <3>3. QED
      BY <1>2, <3>1, <3>2, Zenon
  <2>3. QED
    BY <2>1, <2>2
<1>5. UNCHANGED <<iter, senddata, timers>>
  BY DEF NotLastPacket
<1>6. /\ cut \in [FlowIds -> [rate : Nat, steps : Nat]]
      /\ timers \subseteq {"rate", "alpha"} \X FlowIds
      /\ \A t \in timers : t[2] \in Flows
  BY DEF IInv, TypeOK, TimersOwned
<1>7. QED
  BY <1>4, <1>5, <1>6, EntryStep, Zenon

LEMMA SendDataStep ==
  ASSUME IInv, SendData
  PROVE  IInv'
<1>1. senddata /\ UNCHANGED <<flowid, cut, stopped>>
  BY DEF SendData
<1>2. CASE Flows = {} \/ stopped
  <2>1. /\ SenderState' = "STOPPING"
        /\ senddata' = FALSE
        /\ UNCHANGED <<sender_flowMap, iter, timers>>
    BY <1>2, Zenon DEF SendData
  <2>2. Flows' = Flows
    BY <2>1 DEF Flows
  <2>3. TypeOK' /\ IterValid'
    <3>1. "STOPPING" # "SENDING"
      OBVIOUS
    <3>2. QED
      BY <1>1, <1>2, <2>1, <2>2, <3>1, Zenon DEF IInv, TypeOK, IterValid
  <2>4. TimersOwned' /\ RatesAndCuts' /\ NewIdsFresh'
    BY <1>1, <2>1, <2>2 DEF IInv, TimersOwned, RatesAndCuts, NewIdsFresh
  <2>5. QED
    BY <2>3, <2>4 DEF IInv
<1>3. CASE ~(Flows = {} \/ stopped)
  <2>1. send_data(iter) /\ UNCHANGED SenderState
    BY <1>3, Zenon DEF SendData
  <2>2. iter \in Flows
    <3>1. Flows \in SUBSET FlowIds /\ Flows # {} /\ iter = First(Flows)
      BY <1>3 DEF IInv, TypeOK, IterValid
    <3>2. QED
      BY <3>1, FirstIsLeast
  <2>3. CASE sender_flowMap[iter].remainLength > max_pck_size
    BY <1>1, <2>1, <2>2, <2>3, NotLastPacketStep DEF send_data
  <2>4. CASE ~(sender_flowMap[iter].remainLength > max_pck_size)
    BY <1>1, <2>1, <2>2, <2>4, LastPacketStep DEF send_data
  <2>5. QED
    BY <2>3, <2>4
<1>4. QED
  BY <1>2, <1>3

\* The timers of a flow and its CNPs.
LEMMA RateTimerStep ==
  ASSUME IInv, NEW f \in FlowIds, RateTimer(f)
  PROVE  IInv'
<1> DEFINE next == increaseTxRate([sender_flowMap[f] EXCEPT !.TimeFrSteps = @ + 1])
<1>1. /\ <<"rate", f>> \in timers
      /\ sender_flowMap[f].TimeFrSteps < MaxFrSteps
      /\ sender_flowMap' = Store(sender_flowMap, f, next)
      /\ cut' = [cut EXCEPT ![f].steps = @ + 1]
      /\ UNCHANGED <<iter, SenderState, senddata, timers, flowid, stopped>>
  BY DEF RateTimer
<1> HIDE DEF next
<1>2. f \in Flows
  BY <1>1 DEF IInv, TimersOwned
<1>3. cut \in [FlowIds -> [rate : Nat, steps : Nat]]
  BY DEF IInv, TypeOK
<1>4. /\ cut' \in [FlowIds -> [rate : Nat, steps : Nat]]
      /\ cut'[f] = [cut[f] EXCEPT !.steps = @ + 1]
      /\ \A g \in FlowIds : g # f => cut'[g] = cut[g]
      /\ \A g \in FlowIds : cut'[g].rate = cut[g].rate
  BY <1>1, <1>3
<1>5. FlowOK(next, cut'[f])
  <2>1. FlowOK(sender_flowMap[f], cut[f]) /\ cut[f] \in [rate : Nat, steps : Nat]
    BY <1>2, <1>3, FlowsOK
  <2>2. QED
    BY <1>1, <1>4, <2>1, IncreaseOK DEF next
<1>6. Flows' = Flows /\ \A g \in Flows : FlowOK(sender_flowMap'[g], cut'[g])
  <2>1. Flows' = Flows
    BY <1>1, <1>2 DEF Store, Flows
  <2>2. ASSUME NEW g \in Flows PROVE FlowOK(sender_flowMap'[g], cut'[g])
    <3>1. sender_flowMap'[g] = IF g = f THEN next ELSE sender_flowMap[g]
      BY <1>1 DEF Store, Flows
    <3>2. g \in FlowIds /\ FlowOK(sender_flowMap[g], cut[g])
      BY FlowsOK
    <3>3. QED
      BY <1>4, <1>5, <3>1, <3>2, Zenon
  <2>3. QED
    BY <2>1, <2>2
<1>7. /\ timers \subseteq {"rate", "alpha"} \X FlowIds
      /\ \A t \in timers : t[2] \in Flows
  BY DEF IInv, TypeOK, TimersOwned
<1>8. QED
  BY <1>1, <1>4, <1>6, <1>7, EntryStep, Zenon

LEMMA AlphaTimerStep ==
  ASSUME IInv, NEW f \in FlowIds, AlphaTimer(f)
  PROVE  IInv'
<1> DEFINE next == [sender_flowMap[f] EXCEPT !.alpha = ((AlphaUnit - gamma) * @) \div AlphaUnit]
<1>1. /\ <<"alpha", f>> \in timers
      /\ sender_flowMap' = [sender_flowMap EXCEPT ![f] = next]
      /\ UNCHANGED <<iter, SenderState, senddata, timers, flowid, cut, stopped>>
  BY DEF AlphaTimer
<1>2. f \in Flows
  BY <1>1 DEF IInv, TimersOwned
<1>3. FlowOK(next, cut[f])
  BY <1>2, FlowsOK, DecayOK
<1> HIDE DEF next
<1>4. Flows' = Flows /\ \A g \in Flows : FlowOK(sender_flowMap'[g], cut'[g])
  BY <1>1, <1>3, FlowsOK DEF Flows
<1>5. /\ cut \in [FlowIds -> [rate : Nat, steps : Nat]]
      /\ timers \subseteq {"rate", "alpha"} \X FlowIds
      /\ \A t \in timers : t[2] \in Flows
  BY DEF IInv, TypeOK, TimersOwned
<1>6. QED
  BY <1>1, <1>4, <1>5, EntryStep, Zenon

LEMMA CnpStep ==
  ASSUME IInv, NEW f \in FlowIds, receive_cnp(f)
  PROVE  IInv'
<1> DEFINE found == [rate |-> sender_flowMap[f].currentRate, steps |-> 0]
           next  == CutRate(sender_flowMap[f])
<1>1. /\ f \in Flows
      /\ sender_flowMap' = [sender_flowMap EXCEPT ![f] = next]
      /\ timers' = timers \cup {<<"rate", f>>, <<"alpha", f>>}
      /\ cut' = [cut EXCEPT ![f] = found]
      /\ UNCHANGED <<iter, SenderState, senddata, flowid, stopped>>
  BY DEF receive_cnp
<1>2. FlowOK(next, found)
  BY <1>1, FlowsOK, CutOK, Zenon
<1>3. found \in [rate : Nat, steps : Nat]
  BY <1>1, FlowsOK DEF FlowOK, sender_flowinfo
<1> HIDE DEF next, found
<1>4. cut \in [FlowIds -> [rate : Nat, steps : Nat]]
  BY DEF IInv, TypeOK
<1>5. /\ cut' \in [FlowIds -> [rate : Nat, steps : Nat]]
      /\ cut'[f] = found
      /\ \A g \in FlowIds : g # f => cut'[g] = cut[g]
  BY <1>1, <1>3, <1>4
<1>6. Flows' = Flows /\ \A g \in Flows : FlowOK(sender_flowMap'[g], cut'[g])
  BY <1>1, <1>2, <1>5, FlowsOK DEF Flows
<1>7. /\ timers' \subseteq {"rate", "alpha"} \X FlowIds
      /\ \A t \in timers' : t[2] \in Flows
  BY <1>1 DEF IInv, TypeOK, TimersOwned
<1>8. \A g \in FlowIds : cut'[g].rate = 0 \/ cut'[g].rate = cut[g].rate \/ g \in Flows
  BY <1>1, <1>5
<1>9. QED
  BY <1>1, <1>5, <1>6, <1>7, <1>8, EntryStep, Zenon

LEMMA StopTimeStep ==
  ASSUME IInv, StopTimePasses
  PROVE  IInv'
<1>1. UNCHANGED <<sender_flowMap, iter, SenderState, senddata, timers, flowid, cut>>
      /\ stopped' = TRUE /\ Flows' = Flows
  BY DEF StopTimePasses, Flows
<1>2. TypeOK' /\ IterValid'
  BY <1>1, Zenon DEF IInv, TypeOK, IterValid
<1>3. TimersOwned' /\ RatesAndCuts' /\ NewIdsFresh'
  BY <1>1 DEF IInv, TimersOwned, RatesAndCuts, NewIdsFresh
<1>4. QED
  BY <1>2, <1>3 DEF IInv

LEMMA StutterStep ==
  ASSUME IInv, UNCHANGED vars
  PROVE  IInv'
<1>1. UNCHANGED <<sender_flowMap, iter, SenderState, senddata, timers, flowid, cut, stopped>>
      /\ Flows' = Flows
  BY DEF vars, Flows
<1>2. TypeOK' /\ IterValid'
  BY <1>1, Zenon DEF IInv, TypeOK, IterValid
<1>3. TimersOwned' /\ RatesAndCuts' /\ NewIdsFresh'
  BY <1>1 DEF IInv, TimersOwned, RatesAndCuts, NewIdsFresh
<1>4. QED
  BY <1>2, <1>3 DEF IInv

LEMMA StepInv == IInv /\ [Next]_vars => IInv'
<1> SUFFICES ASSUME IInv, [Next]_vars PROVE IInv'
  OBVIOUS
<1>1. CASE processUpperpck
  BY <1>1, UpperpckStep
<1>2. CASE SendData
  BY <1>2, SendDataStep
<1>3. CASE StopTimePasses
  BY <1>3, StopTimeStep
<1>4. CASE \E f \in FlowIds : RateTimer(f)
  BY <1>4, RateTimerStep
<1>5. CASE \E f \in FlowIds : AlphaTimer(f)
  BY <1>5, AlphaTimerStep
<1>6. CASE \E f \in FlowIds : receive_cnp(f)
  BY <1>6, CnpStep
<1>7. CASE UNCHANGED vars
  BY <1>7, StutterStep
<1>8. QED
  BY <1>1, <1>2, <1>3, <1>4, <1>5, <1>6, <1>7 DEF Next

\* The invariant holds in every reachable state: no handler breaks it.
THEOREM Invariant == Spec => []IInv
BY InitInv, StepInv, PTL DEF Spec

-----------------------------------------------------------------------------
(***************************************************************************)
(* What the invariant says of the code.                                    *)
(***************************************************************************)
\* The types, among them that a flow in the map has bytes left to send.
THEOREM TypeCorrect == Spec => []TypeOK
<1>1. IInv => TypeOK
  BY DEF IInv
<1>2. QED
  BY <1>1, Invariant, PTL

\* senddata may dereference iter whenever the map is not empty, and the
\* sender that has flows is sending: send_data and processUpperpck.
THEOREM IteratorCorrect == Spec => []IterValid
<1>1. IInv => IterValid
  BY DEF IInv
<1>2. QED
  BY <1>1, Invariant, PTL

\* No timer outlives its flow: the look-ups of handleSelfMessage succeed.
THEOREM NoOrphanTimer == Spec => []TimersOwned
<1>1. IInv => TimersOwned
  BY DEF IInv
<1>2. QED
  BY <1>1, Invariant, PTL

\* Rates stay positive, below the target, and the target below the link's
\* speed, for any order of CNPs, timers and packets.
THEOREM RatesBounded == Spec => []RatesOrdered
<1>1. IInv => RatesOrdered
  BY DEF IInv, RatesAndCuts, RateOK, RatesOrdered
<1>2. QED
  BY <1>1, Invariant, PTL

\* Fast recovery ends at the rate that the last CNP found.
THEOREM RecoveryTarget == Spec => []RecoversToCutRate
<1>1. IInv => RecoversToCutRate
  BY DEF IInv, RatesAndCuts, RateOK, RecoversToCutRate
<1>2. QED
  BY <1>1, Invariant, PTL
=============================================================================

---------------------------- MODULE XPASS_proofs ----------------------------
(***************************************************************************)
(* What XPASS promises to a sender and its receivers, for any of them, any *)
(* messages, and any losses and reorderings of the network.                *)
(***************************************************************************)
EXTENDS XPASS, PrefixSum_proofs, SequenceTheorems

LEMMA Parameters ==
    /\ FlowSizes \in SUBSET (1..(Word - 1))
    /\ max_pck_size \in Nat \ {0}
    /\ Word \in Nat /\ Word > 2 * max_pck_size
    /\ MaxFlows \in Nat
BY XPASSAssumption

\* The types, in two halves: the sender with the network, and the receivers.
FlowInfo == [flowsize : 0..(Word - 1), destaddr : Receivers, priority : Priorities]
DataPacket == [seq : Nat, flow : Flows, priority : Priorities]
ReceiverInfo == [cdt : Nat, last : Int, now : Nat, pck : Nat, current_speed : {0, 1}]

MapOK(map) == DOMAIN map \in SUBSET Flows /\ map \in [DOMAIN map -> FlowInfo]

\* While requests and stops arrive in order, data that is not sent yet keeps
\* the sender waiting for the credits of somebody.
SenderAwake ==
    remainSize # 0 /\ "lateStop" \notin faults =>
        \E r \in Receivers : sender_StateMap[r] = "CREDIT_RECEIVING"

\* The first number that receiver r can still get: beyond the last feedback by
\* at least the packets that were counted since.
Lowest(r) == receiver_flowMap[r].last + receiver_flowMap[r].pck + 1

\* Numbers go up from lo through the data d and then the credits c to hi.
Ordered(lo, hi, d, c) ==
    /\ lo <= hi
    /\ \A k \in 1..Len(d) :
          /\ lo <= d[k].seq /\ d[k].seq < hi
          /\ \A j \in 1..(k - 1) : d[j].seq < d[k].seq
    /\ \A k \in 1..Len(c) :
          /\ lo <= c[k] /\ c[k] < hi
          /\ \A j \in 1..(k - 1) : c[j] < c[k]
          /\ \A j \in 1..Len(d) : d[j].seq < c[k]

\* Those under way from and to receiver r, up to the credit it sends next.
InOrder(r) == Ordered(Lowest(r), receiver_flowMap[r].cdt, data[r], credits[r])

NumbersInOrder == "dataOvertaken" \notin faults => \A r \in Receivers : InOrder(r)

-----------------------------------------------------------------------------
(***************************************************************************)
(* Types.                                                                  *)
(***************************************************************************)
LEMMA FirstInMap ==
  ASSUME NEW map, MapOK(map), DOMAIN map # {}
  PROVE  First(map) \in DOMAIN map
<1>1. DOMAIN map \in SUBSET Nat
  BY Parameters DEF MapOK, Flows
<1>2. \E f \in DOMAIN map : \A g \in DOMAIN map : f <= g
  BY <1>1, LeastNat
<1>3. QED
  BY <1>2 DEF First

LEMMA ReducedType ==
  ASSUME NEW map, MapOK(map), NEW f \in DOMAIN map, NEW n \in 0..max_pck_size
  PROVE  MapOK(Reduced(map, f, n))
<1>1. map[f] \in FlowInfo /\ map[f].flowsize \in 0..(Word - 1)
  BY DEF MapOK, FlowInfo
<1>2. (map[f].flowsize + Word - n) % Word \in 0..(Word - 1)
  <2>1. Word \in Nat \ {0} /\ map[f].flowsize + Word - n \in Int
    BY <1>1, Parameters
  <2>2. QED
    BY <2>1
<1> DEFINE z == (map[f].flowsize + Word - n) % Word
           i == [map[f] EXCEPT !.flowsize = z]
<1>3. Reduced(map, f, n) = [map EXCEPT ![f] = i]
  BY DEF Reduced
<1> HIDE DEF z
<1>4. i \in FlowInfo
  BY <1>1, <1>2 DEF FlowInfo, z
<1> HIDE DEF i
<1>5. QED
  BY <1>3, <1>4 DEF MapOK

LEMMA EraseType ==
  ASSUME NEW map, MapOK(map), NEW f
  PROVE  MapOK(Erase(map, f)) /\ DOMAIN Erase(map, f) = DOMAIN map \ {f}
BY DEF MapOK, Erase

LEMMA StoreType ==
  ASSUME NEW map, MapOK(map), NEW f \in Flows, NEW i \in FlowInfo
  PROVE  MapOK(Store(map, f, i))
BY DEF MapOK, Store

LEMMA WithoutType ==
  ASSUME NEW S, NEW c \in Seq(S), NEW k \in 1..Len(c)
  PROVE  /\ Without(c, k) \in Seq(S)
         /\ Len(Without(c, k)) = Len(c) - 1
         /\ \A j \in 1..(Len(c) - 1) : Without(c, k)[j] = IF j < k THEN c[j] ELSE c[j + 1]
<1>1. Len(c) \in Nat /\ \A j \in 1..Len(c) : c[j] \in S
  OBVIOUS
<1>2. Len(c) - 1 \in Nat
  BY <1>1
<1>3. \A j \in 1..(Len(c) - 1) : (IF j < k THEN c[j] ELSE c[j + 1]) \in S
  BY <1>1
<1>4. QED
  BY <1>2, <1>3 DEF Without

\* What SendData leaves.
LEMMA SendDataType ==
  ASSUME TypeOK, NEW r \in Receivers, NEW c \in Nat, sender_flowMap # [f \in {} |-> 0],
         failed = "no", SendData(r, c)
  PROVE  /\ MapOK(sender_flowMap')
         /\ remainSize' \in Int
         /\ failed' \in {"no", "emptyMap"}
         /\ \E p \in DataPacket : p.seq = c /\ data' = [data EXCEPT ![r] = Append(@, p)]
<1> DEFINE f == First(sender_flowMap)
           i == sender_flowMap[f]
           p == [seq |-> c, flow |-> f, priority |-> i.priority]
<1>1. MapOK(sender_flowMap) /\ remainSize \in Int
  BY DEF TypeOK, MapOK, FlowInfo
<1>2. DOMAIN sender_flowMap # {}
  <2>1. sender_flowMap = [g \in DOMAIN sender_flowMap |-> sender_flowMap[g]]
    BY DEF TypeOK
  <2>2. DOMAIN sender_flowMap = {} => sender_flowMap = [g \in {} |-> 0]
    BY <2>1
  <2>3. QED
    BY <2>2
<1>3. f \in DOMAIN sender_flowMap /\ f \in Flows /\ i \in FlowInfo
  BY <1>1, <1>2, FirstInMap DEF MapOK
<1>4. p \in DataPacket /\ p.seq = c
  BY <1>3 DEF DataPacket, FlowInfo
<1>5. data' = [data EXCEPT ![r] = Append(@, p)]
  BY DEF SendData
<1>6. max_pck_size \in 0..max_pck_size /\ i.flowsize \in Nat
  BY <1>3, Parameters DEF FlowInfo
<1>7. MapOK(sender_flowMap') /\ remainSize' \in Int /\ failed' \in {"no", "emptyMap"}
  <2>1. CASE /\ i.flowsize >= max_pck_size
             /\ remainSize' = remainSize - max_pck_size
             /\ sender_flowMap' = Reduced(sender_flowMap, f, max_pck_size)
             /\ UNCHANGED failed
    <3>1. MapOK(sender_flowMap')
      BY <1>1, <1>3, <1>6, <2>1, ReducedType
    <3>2. QED
      BY <1>1, <2>1, <3>1, Parameters
  <2>2. CASE /\ i.flowsize < max_pck_size /\ AtLeastOnePacket
             /\ remainSize' = remainSize - max_pck_size
             /\ IF DOMAIN sender_flowMap = {f}
                THEN sender_flowMap' = Erase(sender_flowMap, f) /\ failed' = "emptyMap"
                ELSE /\ sender_flowMap' = CarryOver(Erase(sender_flowMap, f), i.flowsize)
                     /\ UNCHANGED failed
    <3> DEFINE m == Erase(sender_flowMap, f)
    <3>1. MapOK(m) /\ DOMAIN m = DOMAIN sender_flowMap \ {f}
      BY <1>1, EraseType
    <3>2. CASE DOMAIN sender_flowMap = {f}
      BY <1>1, <2>2, <3>1, <3>2, Parameters
    <3>3. CASE DOMAIN sender_flowMap # {f}
      <4>1. DOMAIN m # {}
        BY <1>2, <1>3, <3>1, <3>3
      <4>2. First(m) \in DOMAIN m
        BY <3>1, <4>1, FirstInMap
      <4>3. max_pck_size - i.flowsize \in 0..max_pck_size
        BY <1>6, <2>2, Parameters
      <4>4. sender_flowMap' = Reduced(m, First(m), max_pck_size - i.flowsize) /\ failed' = failed
        BY <2>2, <3>3 DEF CarryOver
      <4> HIDE DEF m, i
      <4>5. MapOK(Reduced(m, First(m), max_pck_size - i.flowsize))
        BY <3>1, <4>2, <4>3, ReducedType
      <4>6. QED
        BY <1>1, <2>2, <4>4, <4>5, Parameters
    <3>4. QED
      BY <3>2, <3>3
  <2>3. CASE /\ i.flowsize < max_pck_size /\ ~AtLeastOnePacket
             /\ remainSize' = 0
             /\ UNCHANGED <<sender_flowMap, failed>>
    BY <1>1, <2>3
  <2>4. QED
    BY <2>1, <2>2, <2>3 DEF SendData
<1>8. QED
  BY <1>4, <1>5, <1>7

\* The feedback leaves a rate of 0 or 1 and counts from the last number on.
LEMMA FeedbackType ==
  ASSUME NEW i \in ReceiverInfo
  PROVE  /\ Feedback(i) \in ReceiverInfo
         /\ Feedback(i).cdt = i.cdt /\ Feedback(i).last = i.now /\ Feedback(i).pck = 0
         /\ Feedback(i).current_speed
              = ControlledRate(i.current_speed, (i.now - i.last) - i.pck, i.now - i.last)
<1> DEFINE c == ControlledRate(i.current_speed, (i.now - i.last) - i.pck, i.now - i.last)
<1>1. Feedback(i) = [i EXCEPT !.current_speed = c, !.last = i.now, !.pck = 0]
  BY DEF Feedback
<1>2. c \in {0, 1}
  BY DEF ControlledRate, ReceiverInfo
<1> HIDE DEF c
<1>3. Feedback(i) = [cdt |-> i.cdt, last |-> i.now, now |-> i.now, pck |-> 0, current_speed |-> c]
  BY <1>1 DEF ReceiverInfo
<1>4. i.now \in Nat /\ i.now \in Int /\ i.cdt \in Nat
  BY DEF ReceiverInfo
<1>5. QED
  BY <1>2, <1>3, <1>4 DEF ReceiverInfo, c

\* TypeOK by these names, in a state and in the next.
Types ==
    /\ MapOK(sender_flowMap)
    /\ remainSize \in Int
    /\ sender_StateMap \in [Receivers -> {"CREDIT_RECEIVING", "CSTOP_SENT"}]
    /\ sendstop \in [Receivers -> Nat]
    /\ nextFlow \in Nat \ {0}
    /\ receiver_StateMap \in [Receivers -> {"CREDIT_SENDING", "CREDIT_STOP"}]
    /\ receiver_flowMap \in [Receivers -> ReceiverInfo]
    /\ sendcredit \in [Receivers -> BOOLEAN]
    /\ credits \in [Receivers -> Seq(Nat)]
    /\ data \in [Receivers -> Seq(DataPacket)]
    /\ ctl \in [Receivers -> Seq({"req", "stop"})]
    /\ stopped \in BOOLEAN
    /\ failed \in {"no", "emptyMap", "zeroRate"}
    /\ faults \in SUBSET Faults

LEMMA TypesNamed == TypeOK <=> Types
BY Zenon DEF TypeOK, Types, MapOK, FlowInfo, ReceiverInfo, DataPacket

LEMMA TypesAfter == TypeOK' <=> Types'
BY Zenon DEF TypeOK, Types, MapOK, FlowInfo, ReceiverInfo, DataPacket

LEMMA InitType == Init => TypeOK
<1> SUFFICES ASSUME Init PROVE TypeOK
  OBVIOUS
<1>1. MapOK(sender_flowMap)
  BY DEF Init, MapOK
<1>2. [cdt |-> 0, last |-> -1, now |-> 0, pck |-> 0, current_speed |-> 1] \in ReceiverInfo
  BY DEF ReceiverInfo
<1>3. receiver_flowMap \in [Receivers -> ReceiverInfo]
  BY <1>2, Zenon DEF Init
<1>4. /\ credits \in [Receivers -> Seq(Nat)]
      /\ data \in [Receivers -> Seq(DataPacket)]
      /\ ctl \in [Receivers -> Seq({"req", "stop"})]
  BY DEF Init
<1>5. /\ remainSize \in Int
      /\ sendstop \in [Receivers -> Nat]
      /\ nextFlow \in Nat \ {0}
  BY DEF Init
<1>6. /\ sender_StateMap \in [Receivers -> {"CREDIT_RECEIVING", "CSTOP_SENT"}]
      /\ receiver_StateMap \in [Receivers -> {"CREDIT_SENDING", "CREDIT_STOP"}]
      /\ sendcredit \in [Receivers -> BOOLEAN]
      /\ stopped \in BOOLEAN /\ failed = "no" /\ faults = {}
  BY DEF Init
<1>7. QED
  BY <1>1, <1>3, <1>4, <1>5, <1>6, TypesNamed, Zenon DEF Types

LEMMA TypeUpper ==
  ASSUME TypeOK, NEW r \in Receivers, NEW n \in FlowSizes, NEW p \in Priorities,
         processUpperpck(r, n, p)
  PROVE  TypeOK'
<1>1. nextFlow \in Flows /\ n \in 0..(Word - 1) /\ n \in Int
  BY Parameters, TypesNamed DEF Types, processUpperpck, Flows
<1>2. [flowsize |-> n, destaddr |-> r, priority |-> p] \in FlowInfo
  BY <1>1 DEF FlowInfo
<1>3. MapOK(sender_flowMap')
  BY <1>1, <1>2, StoreType, TypesNamed DEF Types, processUpperpck
<1>4. remainSize' \in Int /\ nextFlow' \in Nat \ {0}
  BY <1>1, TypesNamed DEF Types, processUpperpck
<1>5. /\ sender_StateMap' \in [Receivers -> {"CREDIT_RECEIVING", "CSTOP_SENT"}]
      /\ ctl' \in [Receivers -> Seq({"req", "stop"})]
  <2>1. ctl[r] \in Seq({"req", "stop"}) /\ Append(ctl[r], "req") \in Seq({"req", "stop"})
    BY TypesNamed DEF Types
  <2>a. /\ sender_StateMap \in [Receivers -> {"CREDIT_RECEIVING", "CSTOP_SENT"}]
        /\ ctl \in [Receivers -> Seq({"req", "stop"})]
    BY TypesNamed, Zenon DEF Types
  <2>2. CASE NeedsRequest(r)
    <3>1. /\ sender_StateMap' = [sender_StateMap EXCEPT ![r] = "CREDIT_RECEIVING"]
          /\ ctl' = [ctl EXCEPT ![r] = Append(ctl[r], "req")]
      BY <2>2 DEF processUpperpck
    <3>2. QED
      BY <2>1, <2>a, <3>1
  <2>3. CASE ~NeedsRequest(r)
    <3>1. UNCHANGED <<sender_StateMap, ctl>>
      BY <2>3 DEF processUpperpck
    <3>2. QED
      BY <2>a, <3>1
  <2>4. QED
    BY <2>2, <2>3
<1>6. UNCHANGED <<sendstop, receiver_StateMap, receiver_flowMap, sendcredit, credits, data,
                  stopped, failed, faults>>
  BY DEF processUpperpck, receiverVars
<1>7. QED
  BY <1>3, <1>4, <1>5, <1>6, TypesNamed, TypesAfter, Zenon DEF Types

LEMMA TypeReceiveCredit ==
  ASSUME TypeOK, NEW r \in Receivers, receive_credit(r)
  PROVE  TypeOK'
<1>1. credits[r] \in Seq(Nat) /\ credits[r] # <<>> /\ failed = "no"
  BY TypesNamed DEF Types, receive_credit
<1>2. Head(credits[r]) \in Nat /\ Tail(credits[r]) \in Seq(Nat)
  BY <1>1
<1>3. credits' \in [Receivers -> Seq(Nat)]
  BY <1>2, TypesNamed DEF Types, receive_credit
<1>4. UNCHANGED <<sender_StateMap, nextFlow, receiver_StateMap, receiver_flowMap, sendcredit,
                  ctl, stopped, faults>>
  BY DEF receive_credit, receiverVars
<1>5. CASE stopped \/ remainSize = 0
  <2>1. UNCHANGED <<sender_flowMap, remainSize, data, failed>> /\ sendstop' = [sendstop EXCEPT ![r] = @ + 1]
    BY <1>5 DEF receive_credit
  <2>2. sendstop' \in [Receivers -> Nat]
    BY <2>1, TypesNamed DEF Types
  <2>3. QED
    BY <1>3, <1>4, <2>1, <2>2, TypesNamed, TypesAfter, Zenon DEF Types
<1>6. CASE ~(stopped \/ remainSize = 0) /\ sender_flowMap = [f \in {} |-> 0]
  <2>1. UNCHANGED <<sender_flowMap, remainSize, data, sendstop>> /\ failed' = "emptyMap"
    BY <1>6 DEF receive_credit
  <2>2. QED
    BY <1>3, <1>4, <2>1, TypesNamed, TypesAfter, Zenon DEF Types
<1>7. CASE ~(stopped \/ remainSize = 0) /\ sender_flowMap # [f \in {} |-> 0]
  <2>1. SendData(r, Head(credits[r])) /\ sendstop' = sendstop
    BY <1>7 DEF receive_credit
  <2>2. /\ MapOK(sender_flowMap') /\ remainSize' \in Int /\ failed' \in {"no", "emptyMap"}
        /\ \E p \in DataPacket : p.seq = Head(credits[r]) /\ data' = [data EXCEPT ![r] = Append(@, p)]
    BY <1>1, <1>2, <1>7, <2>1, SendDataType
  <2>3. data' \in [Receivers -> Seq(DataPacket)]
    <3>1. data \in [Receivers -> Seq(DataPacket)]
      BY TypesNamed DEF Types
    <3>2. QED
      BY <2>2, <3>1
  <2>4. QED
    BY <1>3, <1>4, <2>1, <2>2, <2>3, TypesNamed, TypesAfter, Zenon DEF Types
<1>8. QED
  BY <1>5, <1>6, <1>7

LEMMA TypeSendStop ==
  ASSUME TypeOK, NEW r \in Receivers, send_stop(r)
  PROVE  TypeOK'
<1>1. /\ sendstop' = [sendstop EXCEPT ![r] = @ - 1] /\ sendstop[r] > 0
      /\ sender_StateMap' = [sender_StateMap EXCEPT ![r] = "CSTOP_SENT"]
      /\ ctl' = [ctl EXCEPT ![r] = Append(@, "stop")]
      /\ faults' \in {faults, faults \cup {"lateStop"}}
      /\ UNCHANGED <<sender_flowMap, remainSize, nextFlow, receiver_StateMap, receiver_flowMap,
                     sendcredit, credits, data, stopped, failed>>
  BY DEF send_stop, receiverVars
<1>2. sendstop' \in [Receivers -> Nat]
  BY <1>1, TypesNamed DEF Types
<1>3. ctl' \in [Receivers -> Seq({"req", "stop"})]
  <2>1. ctl[r] \in Seq({"req", "stop"}) /\ Append(ctl[r], "stop") \in Seq({"req", "stop"})
    BY TypesNamed DEF Types
  <2>2. QED
    BY <1>1, <2>1, TypesNamed DEF Types
<1>4. faults' \in SUBSET Faults /\ sender_StateMap' \in [Receivers -> {"CREDIT_RECEIVING", "CSTOP_SENT"}]
  BY <1>1, TypesNamed DEF Types, Faults
<1>5. QED
  BY <1>1, <1>2, <1>3, <1>4, TypesNamed, TypesAfter, Zenon DEF Types

LEMMA TypeControl ==
  ASSUME TypeOK, NEW r \in Receivers, DeliverControl(r)
  PROVE  TypeOK'
<1>1. PICK k \in 1..Len(ctl[r]) :
          /\ ctl' = [ctl EXCEPT ![r] = Without(@, k)]
          /\ faults' = faults \cup (IF k = 1 THEN {} ELSE {"overtaken"})
          /\ CASE ctl[r][k] = "req"  -> receive_credreq(r)
               [] ctl[r][k] = "stop" -> receive_stopcred(r)
  BY DEF DeliverControl
<1>2. ctl[r] \in Seq({"req", "stop"}) /\ ctl[r][k] \in {"req", "stop"}
  BY TypesNamed DEF Types
<1>3. ctl' \in [Receivers -> Seq({"req", "stop"})]
  <2>1. Without(ctl[r], k) \in Seq({"req", "stop"})
    BY <1>2, WithoutType
  <2>2. QED
    BY <1>1, <2>1, TypesNamed DEF Types
<1>4. receive_credreq(r) \/ receive_stopcred(r)
  BY <1>1, <1>2
<1>5. /\ receiver_StateMap' \in [Receivers -> {"CREDIT_SENDING", "CREDIT_STOP"}]
      /\ sendcredit' \in [Receivers -> BOOLEAN]
      /\ receiver_flowMap' = receiver_flowMap
  BY <1>4, TypesNamed DEF Types, receive_credreq, receive_stopcred, receiverVars
<1>6. faults' \in SUBSET Faults
  BY <1>1, TypesNamed DEF Types, Faults
<1>7. UNCHANGED <<sender_flowMap, remainSize, sender_StateMap, sendstop, nextFlow, credits, data,
                  stopped, failed>>
  BY DEF DeliverControl, senderVars
<1>8. QED
  BY <1>3, <1>5, <1>6, <1>7, TypesNamed, TypesAfter, Zenon DEF Types

LEMMA TypeSendCredit ==
  ASSUME TypeOK, NEW r \in Receivers, send_credit(r)
  PROVE  TypeOK'
<1> DEFINE i == receiver_flowMap[r]
<1>1. /\ credits' = [credits EXCEPT ![r] = Append(@, i.cdt)]
      /\ receiver_flowMap' = [receiver_flowMap EXCEPT ![r].cdt = @ + 1]
      /\ sendcredit' = [sendcredit EXCEPT ![r] = receiver_StateMap[r] = "CREDIT_SENDING"]
      /\ failed' \in {"zeroRate", failed}
      /\ UNCHANGED <<sender_flowMap, remainSize, sender_StateMap, sendstop, nextFlow,
                     receiver_StateMap, data, ctl, stopped, faults>>
  BY DEF send_credit, senderVars
<1>2. i \in ReceiverInfo /\ i.cdt \in Nat
  BY TypesNamed DEF Types, ReceiverInfo
<1>3. credits' \in [Receivers -> Seq(Nat)]
  <2>1. credits[r] \in Seq(Nat)
    BY TypesNamed DEF Types
  <2>2. Append(credits[r], i.cdt) \in Seq(Nat)
    BY <1>2, <2>1
  <2>3. QED
    BY <1>1, <2>2, TypesNamed DEF Types
<1>4. receiver_flowMap' \in [Receivers -> ReceiverInfo]
  <2>1. [i EXCEPT !.cdt = i.cdt + 1] \in ReceiverInfo
    BY <1>2 DEF ReceiverInfo
  <2>2. receiver_flowMap' = [receiver_flowMap EXCEPT ![r] = [i EXCEPT !.cdt = i.cdt + 1]]
    BY <1>1
  <2> HIDE DEF i
  <2>3. QED
    BY <2>1, <2>2, TypesNamed DEF Types
<1>5. sendcredit' \in [Receivers -> BOOLEAN] /\ failed' \in {"no", "emptyMap", "zeroRate"}
  BY <1>1, TypesNamed DEF Types
<1>6. QED
  BY <1>1, <1>3, <1>4, <1>5, TypesNamed, TypesAfter, Zenon DEF Types

\* The packet that arrives and the record that it leaves.
Received(r, p) == [receiver_flowMap[r] EXCEPT !.now = p.seq, !.pck = @ + 1]

LEMMA ReceivedType ==
  ASSUME TypeOK, NEW r \in Receivers, NEW p \in DataPacket
  PROVE  /\ Received(r, p) \in ReceiverInfo
         /\ Received(r, p).cdt = receiver_flowMap[r].cdt
         /\ Received(r, p).last = receiver_flowMap[r].last
         /\ Received(r, p).now = p.seq
         /\ Received(r, p).pck = receiver_flowMap[r].pck + 1
         /\ Received(r, p).current_speed = receiver_flowMap[r].current_speed
<1> DEFINE i == receiver_flowMap[r]
<1>1. i \in ReceiverInfo /\ p.seq \in Nat /\ i.pck \in Nat
  BY TypesNamed DEF Types, ReceiverInfo, DataPacket
<1>2. Received(r, p) = [i EXCEPT !.now = p.seq, !.pck = i.pck + 1]
  BY DEF Received
<1> DEFINE s == p.seq
           m == i.pck + 1
<1>3. s \in Nat /\ m \in Nat
  BY <1>1
<1> HIDE DEF i, s, m
<1>4. Received(r, p) = [i EXCEPT !.now = s, !.pck = m]
  BY <1>2 DEF s, m
<1>5. Received(r, p) = [cdt |-> i.cdt, last |-> i.last, now |-> s, pck |-> m,
                        current_speed |-> i.current_speed]
  BY <1>1, <1>4 DEF ReceiverInfo
<1>6. QED
  BY <1>1, <1>3, <1>5 DEF ReceiverInfo, i, s, m

LEMMA TypeReceiveData ==
  ASSUME TypeOK, NEW r \in Receivers, receive_data(r)
  PROVE  TypeOK'
<1>1. PICK k \in 1..Len(data[r]) :
          /\ data' = [data EXCEPT ![r] = Without(@, k)]
          /\ faults' = faults \cup (IF k = 1 THEN {} ELSE {"dataOvertaken"})
          /\ \E j \in {Received(r, data[r][k]), Feedback(Received(r, data[r][k]))} :
                receiver_flowMap' = [receiver_flowMap EXCEPT ![r] = j]
  BY DEF receive_data, Received
<1>2. data[r] \in Seq(DataPacket) /\ data[r][k] \in DataPacket
  BY TypesNamed DEF Types
<1>3. data' \in [Receivers -> Seq(DataPacket)]
  <2>1. Without(data[r], k) \in Seq(DataPacket)
    BY <1>2, WithoutType
  <2>2. QED
    BY <1>1, <2>1, TypesNamed DEF Types
<1>4. receiver_flowMap' \in [Receivers -> ReceiverInfo]
  <2>1. Received(r, data[r][k]) \in ReceiverInfo /\ Feedback(Received(r, data[r][k])) \in ReceiverInfo
    BY <1>2, ReceivedType, FeedbackType
  <2>2. QED
    BY <1>1, <2>1, TypesNamed DEF Types
<1>5. faults' \in SUBSET Faults
  BY <1>1, TypesNamed DEF Types, Faults
<1>6. UNCHANGED <<sender_flowMap, remainSize, sender_StateMap, sendstop, nextFlow,
                  receiver_StateMap, sendcredit, credits, ctl, stopped, failed>>
  BY DEF receive_data, senderVars
<1>7. QED
  BY <1>3, <1>4, <1>5, <1>6, TypesNamed, TypesAfter, Zenon DEF Types

\* A channel that loses its first packet.
LEMMA TypeLosses ==
  ASSUME TypeOK, NEW r \in Receivers, LoseCredit(r) \/ LoseData(r) \/ LoseControl(r)
  PROVE  TypeOK'
<1>1. UNCHANGED <<sender_flowMap, remainSize, sender_StateMap, sendstop, nextFlow,
                  receiver_StateMap, receiver_flowMap, sendcredit, stopped, failed>>
  BY DEF LoseCredit, LoseData, LoseControl, senderVars, receiverVars
<1>2. ASSUME NEW S, NEW c \in [Receivers -> Seq(S)], c[r] # <<>>
      PROVE  [c EXCEPT ![r] = Tail(@)] \in [Receivers -> Seq(S)]
  <2>1. c[r] \in Seq(S)
    OBVIOUS
  <2>2. Tail(c[r]) \in Seq(S)
    BY <1>2, <2>1
  <2>3. QED
    BY <2>2
<1>3. CASE LoseCredit(r)
  <2>1. credits' = [credits EXCEPT ![r] = Tail(@)] /\ credits[r] # <<>> /\ UNCHANGED <<data, ctl, faults>>
    BY <1>3 DEF LoseCredit
  <2>2. QED
    BY <1>1, <1>2, <2>1, TypesNamed, TypesAfter, Zenon DEF Types
<1>4. CASE LoseData(r)
  <2>1. data' = [data EXCEPT ![r] = Tail(@)] /\ data[r] # <<>> /\ UNCHANGED <<credits, ctl, faults>>
    BY <1>4 DEF LoseData
  <2>2. QED
    BY <1>1, <1>2, <2>1, TypesNamed, TypesAfter, Zenon DEF Types
<1>5. CASE LoseControl(r)
  <2>1. ctl' = [ctl EXCEPT ![r] = Tail(@)] /\ ctl[r] # <<>> /\ UNCHANGED <<credits, data>>
    BY <1>5 DEF LoseControl
  <2>2. faults' \in SUBSET Faults
    BY <1>5, TypesNamed DEF Types, LoseControl, Faults
  <2>3. ctl' \in [Receivers -> Seq({"req", "stop"})]
    BY <1>2, <2>1, TypesNamed DEF Types
  <2>4. QED
    BY <1>1, <2>1, <2>2, <2>3, TypesNamed, TypesAfter, Zenon DEF Types
<1>6. QED
  BY <1>3, <1>4, <1>5

LEMMA TypeStep == TypeOK /\ [Next]_vars => TypeOK'
<1> SUFFICES ASSUME TypeOK, [Next]_vars PROVE TypeOK'
  OBVIOUS
<1>1. ASSUME NEW r \in Receivers, NEW n \in FlowSizes, NEW p \in Priorities, processUpperpck(r, n, p)
      PROVE  TypeOK'
  BY <1>1, TypeUpper
<1>2. ASSUME NEW r \in Receivers,
             \/ receive_credit(r) \/ send_stop(r) \/ DeliverControl(r) \/ send_credit(r)
             \/ receive_data(r) \/ LoseCredit(r) \/ LoseData(r) \/ LoseControl(r)
      PROVE  TypeOK'
  BY <1>2, TypeReceiveCredit, TypeSendStop, TypeControl, TypeSendCredit, TypeReceiveData, TypeLosses
<1>3. CASE Stop
  BY <1>3, TypesNamed, TypesAfter DEF Types, Stop, senderVars, receiverVars, networkVars
<1>4. CASE UNCHANGED vars
  BY <1>4, TypesNamed, TypesAfter DEF Types, vars, senderVars, receiverVars, networkVars
<1>5. QED
  BY <1>1, <1>2, <1>3, <1>4 DEF Next

\* The counters, maps and channels keep their types: a flow's size stays in its
\* word, and the count of packets since the last feedback a natural number.
THEOREM TypeCorrect == Spec => []TypeOK
<1>1. Init => TypeOK
  BY InitType
<1>2. TypeOK /\ [Next]_vars => TypeOK'
  BY TypeStep
<1>3. QED
  BY <1>1, <1>2, PTL DEF Spec

-----------------------------------------------------------------------------
(***************************************************************************)
(* Requests, stops and credits.                                            *)
(***************************************************************************)
\* What the sender believes and what the receiver is about to do.
AgreeOn(r) == sender_StateMap[r] = "CREDIT_RECEIVING" <=> Settles(r)

ControlInOrder == faults \cap {"reqLost", "stopLost", "overtaken"} = {}

AgreeInv == TypeOK /\ StatesAgree /\ CreditsFlow /\ SenderAwake

LEMMA AgreeInit == Init => AgreeInv
<1> SUFFICES ASSUME Init PROVE AgreeInv
  OBVIOUS
<1>1. TypeOK
  BY InitType
<1>2. \A r \in Receivers : Settles(r) <=> FALSE
  BY DEF Init, Settles
<1>3. StatesAgree
  BY <1>2 DEF Init, StatesAgree
<1>4. CreditsFlow /\ SenderAwake
  BY DEF Init, CreditsFlow, SenderAwake
<1>5. QED
  BY <1>1, <1>3, <1>4 DEF AgreeInv

\* The last of the requests and stops under way.
LEMMA SettlesAfterAppend ==
  ASSUME NEW r \in Receivers, ctl[r] \in Seq({"req", "stop"}), NEW op \in {"req", "stop"},
         ctl'[r] = Append(ctl[r], op)
  PROVE  Settles(r)' <=> op = "req"
<1>1. /\ ctl'[r] # <<>> /\ Len(ctl'[r]) = Len(ctl[r]) + 1
      /\ ctl'[r][Len(ctl[r]) + 1] = op
  OBVIOUS
<1>2. QED
  BY <1>1 DEF Settles

\* A step that changes neither what the sender and the receivers believe nor
\* the requests and stops under way.
LEMMA SameControl ==
  ASSUME AgreeInv,
         UNCHANGED <<sender_StateMap, receiver_StateMap, ctl, sendcredit>>,
         faults \in SUBSET (faults'), failed = "no",
         remainSize' # 0 => remainSize # 0
  PROVE  StatesAgree' /\ CreditsFlow' /\ SenderAwake'
<1>1. \A r \in Receivers : Settles(r)' <=> Settles(r)
  BY DEF Settles
<1>2. StatesAgree'
  BY <1>1 DEF AgreeInv, StatesAgree
<1>3. CreditsFlow' /\ SenderAwake'
  BY DEF AgreeInv, CreditsFlow, SenderAwake
<1>4. QED
  BY <1>2, <1>3

LEMMA AgreeUpper ==
  ASSUME AgreeInv, NEW r \in Receivers, NEW n \in FlowSizes, NEW p \in Priorities,
         processUpperpck(r, n, p)
  PROVE  AgreeInv'
<1>1. TypeOK'
  BY TypeUpper DEF AgreeInv
<1>2. /\ sender_StateMap \in [Receivers -> {"CREDIT_RECEIVING", "CSTOP_SENT"}]
      /\ ctl \in [Receivers -> Seq({"req", "stop"})]
  BY TypesNamed DEF AgreeInv, Types
<1>3. UNCHANGED <<receiver_StateMap, receiver_flowMap, sendcredit, failed, faults>>
  BY DEF processUpperpck, receiverVars
<1>4. /\ sender_StateMap'[r] = "CREDIT_RECEIVING"
      /\ \/ sender_StateMap[r] = "CSTOP_SENT" /\ ctl'[r] = Append(ctl[r], "req")
         \/ sender_StateMap[r] = "CREDIT_RECEIVING" /\ ctl'[r] = ctl[r]
      /\ \A s \in Receivers \ {r} : sender_StateMap'[s] = sender_StateMap[s] /\ ctl'[s] = ctl[s]
  BY <1>2 DEF processUpperpck, NeedsRequest
<1>5. StatesAgree'
  <2>1. SUFFICES ASSUME ControlInOrder, NEW s \in Receivers PROVE AgreeOn(s)'
    BY <1>3 DEF StatesAgree, AgreeOn, ControlInOrder
  <2>2. AgreeOn(s)
    BY <2>1 DEF AgreeInv, StatesAgree, AgreeOn, ControlInOrder
  <2>3. CASE s = r /\ ctl'[r] = Append(ctl[r], "req")
    <3>1. Settles(r)'
      BY <1>2, <2>3, SettlesAfterAppend
    <3>2. QED
      BY <1>4, <2>3, <3>1 DEF AgreeOn
  <2>4. CASE sender_StateMap'[s] = sender_StateMap[s] /\ ctl'[s] = ctl[s]
    BY <1>3, <2>2, <2>4 DEF AgreeOn, Settles
  <2>5. QED
    BY <1>4, <2>3, <2>4
<1>6. CreditsFlow' /\ SenderAwake'
  BY <1>3, <1>4 DEF AgreeInv, CreditsFlow, SenderAwake
<1>7. QED
  BY <1>1, <1>5, <1>6 DEF AgreeInv

LEMMA AgreeSendStop ==
  ASSUME AgreeInv, NEW r \in Receivers, send_stop(r)
  PROVE  AgreeInv'
<1>1. TypeOK'
  BY TypeSendStop DEF AgreeInv
<1>2. /\ sender_StateMap \in [Receivers -> {"CREDIT_RECEIVING", "CSTOP_SENT"}]
      /\ ctl \in [Receivers -> Seq({"req", "stop"})]
  BY TypesNamed DEF AgreeInv, Types
<1>3. UNCHANGED <<receiver_StateMap, receiver_flowMap, sendcredit, failed, remainSize>>
      /\ faults' = faults \cup (IF remainSize = 0 THEN {} ELSE {"lateStop"})
  BY DEF send_stop, receiverVars
<1>4. /\ sender_StateMap'[r] = "CSTOP_SENT" /\ ctl'[r] = Append(ctl[r], "stop")
      /\ \A s \in Receivers \ {r} : sender_StateMap'[s] = sender_StateMap[s] /\ ctl'[s] = ctl[s]
  BY <1>2 DEF send_stop
<1>5. StatesAgree'
  <2>1. SUFFICES ASSUME ControlInOrder', NEW s \in Receivers PROVE AgreeOn(s)'
    BY DEF StatesAgree, AgreeOn, ControlInOrder
  <2>2. AgreeOn(s)
    BY <1>3, <2>1 DEF AgreeInv, StatesAgree, AgreeOn, ControlInOrder
  <2>3. CASE s = r
    <3>1. ~Settles(r)'
      BY <1>2, <1>4, SettlesAfterAppend
    <3>2. QED
      BY <1>4, <2>3, <3>1 DEF AgreeOn
  <2>4. CASE s # r
    BY <1>3, <1>4, <2>2, <2>4 DEF AgreeOn, Settles
  <2>5. QED
    BY <2>3, <2>4
<1>6. CreditsFlow' /\ SenderAwake'
  BY <1>3 DEF AgreeInv, CreditsFlow, SenderAwake
<1>7. QED
  BY <1>1, <1>5, <1>6 DEF AgreeInv

\* Without its first packet a channel ends as before, unless it is empty.
LEMMA TailOfChannel ==
  ASSUME NEW S, NEW c \in Seq(S), c # <<>>
  PROVE  /\ Without(c, 1) = Tail(c)
         /\ Tail(c) \in Seq(S) /\ Len(Tail(c)) = Len(c) - 1
         /\ Tail(c) = <<>> <=> Len(c) = 1
         /\ \A k \in 1..(Len(c) - 1) : Tail(c)[k] = c[k + 1]
<1>1. /\ Len(c) \in Nat \ {0} /\ 1 \in 1..Len(c)
      /\ Tail(c) \in Seq(S) /\ Len(Tail(c)) = Len(c) - 1
      /\ \A k \in 1..(Len(c) - 1) : Tail(c)[k] = c[k + 1]
  OBVIOUS
<1>2. /\ Without(c, 1) \in Seq(S) /\ Len(Without(c, 1)) = Len(c) - 1
      /\ \A j \in 1..(Len(c) - 1) : Without(c, 1)[j] = IF j < 1 THEN c[j] ELSE c[j + 1]
  BY <1>1, WithoutType
<1>3. \A j \in 1..(Len(c) - 1) : Without(c, 1)[j] = Tail(c)[j]
  BY <1>1, <1>2
<1> DEFINE t == Tail(c)
           w == Without(c, 1)
<1>4. t \in Seq(S) /\ w \in Seq(S) /\ Len(t) = Len(w) /\ \A j \in 1..Len(t) : t[j] = w[j]
  BY <1>1, <1>2, <1>3
<1>5. w = t
  <2> HIDE DEF t, w
  <2>1. QED
    BY <1>4, SeqEqual
<1>6. t = <<>> <=> Len(t) = 0
  <2> HIDE DEF w
  <2>1. t \in Seq(S)
    BY <1>1
  <2> HIDE DEF t
  <2>2. QED
    BY <2>1
<1>7. QED
  BY <1>1, <1>5, <1>6

LEMMA AgreeControl ==
  ASSUME AgreeInv, NEW r \in Receivers, DeliverControl(r)
  PROVE  AgreeInv'
<1>1. TypeOK'
  BY TypeControl DEF AgreeInv
<1>2. PICK k \in 1..Len(ctl[r]) :
          /\ ctl' = [ctl EXCEPT ![r] = Without(@, k)]
          /\ faults' = faults \cup (IF k = 1 THEN {} ELSE {"overtaken"})
          /\ CASE ctl[r][k] = "req"  -> receive_credreq(r)
               [] ctl[r][k] = "stop" -> receive_stopcred(r)
  BY DEF DeliverControl
<1>3. /\ ctl \in [Receivers -> Seq({"req", "stop"})]
      /\ receiver_StateMap \in [Receivers -> {"CREDIT_SENDING", "CREDIT_STOP"}]
      /\ sendcredit \in [Receivers -> BOOLEAN]
      /\ ctl[r] \in Seq({"req", "stop"}) /\ ctl[r] # <<>>
  BY TypesNamed DEF AgreeInv, Types
<1>4. UNCHANGED <<sender_StateMap, remainSize, failed>> /\ failed = "no"
  BY DEF DeliverControl, senderVars
<1>5. /\ \/ /\ ctl[r][k] = "req" /\ receiver_StateMap'[r] = "CREDIT_SENDING"
            /\ sendcredit'[r] = TRUE
         \/ /\ ctl[r][k] = "stop" /\ receiver_StateMap'[r] = "CREDIT_STOP"
            /\ sendcredit' = sendcredit
      /\ \A s \in Receivers \ {r} : /\ receiver_StateMap'[s] = receiver_StateMap[s]
                                    /\ sendcredit'[s] = sendcredit[s] /\ ctl'[s] = ctl[s]
  <2>1. ctl[r][k] \in {"req", "stop"}
    BY <1>3
  <2>2. CASE ctl[r][k] = "req"
    <3>1. receive_credreq(r)
      BY <1>2, <2>2
    <3>2. CASE receiver_StateMap[r] = "CREDIT_SENDING"
      <4>1. sendcredit[r]
        BY <1>4, <3>2 DEF AgreeInv, CreditsFlow
      <4>2. UNCHANGED <<receiver_StateMap, sendcredit>>
        BY <3>1, <3>2 DEF receive_credreq, receiverVars
      <4>3. QED
        BY <1>2, <1>3, <2>2, <3>2, <4>1, <4>2
    <3>3. CASE receiver_StateMap[r] # "CREDIT_SENDING"
      BY <1>2, <1>3, <2>2, <3>1, <3>3 DEF receive_credreq
    <3>4. QED
      BY <3>2, <3>3
  <2>3. CASE ctl[r][k] = "stop"
    BY <1>2, <1>3, <2>3 DEF receive_stopcred
  <2>4. QED
    BY <2>1, <2>2, <2>3
<1>6. CreditsFlow'
  BY <1>4, <1>5 DEF AgreeInv, CreditsFlow
<1>7. SenderAwake'
  BY <1>2, <1>4 DEF AgreeInv, SenderAwake
<1>8. StatesAgree'
  <2>1. SUFFICES ASSUME ControlInOrder', NEW s \in Receivers PROVE AgreeOn(s)'
    BY DEF StatesAgree, AgreeOn, ControlInOrder
  <2>2. k = 1
    BY <1>2, <2>1 DEF ControlInOrder
  <2>3. AgreeOn(s)
    BY <1>2, <2>1 DEF AgreeInv, StatesAgree, AgreeOn, ControlInOrder
  <2>4. CASE s # r
    BY <1>4, <1>5, <2>3, <2>4 DEF AgreeOn, Settles
  <2>5. CASE s = r
    <3> DEFINE c == ctl[r]
               t == Tail(c)
    <3>1. ctl'[r] = t
      BY <1>2, <1>3, <2>2, TailOfChannel
    <3>2. /\ c \in Seq({"req", "stop"}) /\ c # <<>> /\ Len(c) \in Nat
          /\ Len(t) = Len(c) - 1 /\ (t = <<>> <=> Len(c) = 1)
          /\ \A j \in 1..(Len(c) - 1) : t[j] = c[j + 1]
      <4>1. c \in Seq({"req", "stop"}) /\ c # <<>>
        BY <1>3
      <4> HIDE DEF c
      <4>2. Len(c) \in Nat /\ Len(t) = Len(c) - 1 /\ \A j \in 1..(Len(c) - 1) : t[j] = c[j + 1]
        BY <4>1, TailOfChannel
      <4>a. t \in Seq({"req", "stop"})
        BY <4>1
      <4> HIDE DEF t
      <4>b. t = <<>> <=> Len(t) = 0
        BY <4>a
      <4>3. t = <<>> <=> Len(c) = 1
        BY <4>2, <4>b
      <4>4. QED
        BY <4>1, <4>2, <4>3
    <3>3. Settles(r) <=> c[Len(c)] = "req"
      <4>1. ctl[r] # <<>>
        BY <3>2
      <4>2. QED
        BY <4>1, Zenon DEF Settles
    <3> HIDE DEF c, t
    <3>4. Settles(r)' <=> c[Len(c)] = "req"
      <4>1. CASE Len(c) = 1
        <5>1. c[Len(c)] = "req" <=> receiver_StateMap'[r] = "CREDIT_SENDING"
          BY <1>5, <2>2, <4>1 DEF c
        <5>2. QED
          BY <3>1, <3>2, <4>1, <5>1 DEF Settles
      <4>2. CASE Len(c) # 1
        <5>1. Len(c) - 1 \in 1..(Len(c) - 1) /\ (Len(c) - 1) + 1 = Len(c)
          <6>1. Len(c) # 0
            BY <3>2
          <6>2. QED
            BY <3>2, <4>2, <6>1
        <5>2. t[Len(t)] = c[Len(c)] /\ t # <<>>
          BY <3>2, <4>2, <5>1
        <5>3. QED
          BY <3>1, <5>2 DEF Settles
      <4>3. QED
        BY <4>1, <4>2
    <3>5. QED
      BY <1>4, <2>3, <2>5, <3>3, <3>4 DEF AgreeOn
  <2>6. QED
    BY <2>4, <2>5
<1>9. QED
  BY <1>1, <1>6, <1>7, <1>8 DEF AgreeInv

LEMMA AgreeSendCredit ==
  ASSUME AgreeInv, NEW r \in Receivers, send_credit(r)
  PROVE  AgreeInv'
<1>1. TypeOK'
  BY TypeSendCredit DEF AgreeInv
<1>2. /\ UNCHANGED <<sender_StateMap, remainSize, receiver_StateMap, ctl, faults>>
      /\ sendcredit' = [sendcredit EXCEPT ![r] = receiver_StateMap[r] = "CREDIT_SENDING"]
      /\ failed = "no"
  BY DEF send_credit, senderVars
<1>3. \A s \in Receivers : Settles(s)' <=> Settles(s)
  BY <1>2 DEF Settles
<1>4. StatesAgree'
  BY <1>2, <1>3 DEF AgreeInv, StatesAgree
<1>5. SenderAwake'
  BY <1>2 DEF AgreeInv, SenderAwake
<1>6. CreditsFlow'
  <2>1. sendcredit \in [Receivers -> BOOLEAN]
    BY TypesNamed DEF AgreeInv, Types
  <2>2. QED
    BY <1>2, <2>1 DEF AgreeInv, CreditsFlow
<1>7. QED
  BY <1>1, <1>4, <1>5, <1>6 DEF AgreeInv

LEMMA AgreeLoseControl ==
  ASSUME AgreeInv, NEW r \in Receivers, LoseControl(r)
  PROVE  AgreeInv'
<1>1. TypeOK'
  BY TypeLosses DEF AgreeInv
<1>2. UNCHANGED <<sender_StateMap, remainSize, receiver_StateMap, sendcredit, failed>>
      /\ faults' = faults \cup {IF Head(ctl[r]) = "req" THEN "reqLost" ELSE "stopLost"}
  BY DEF LoseControl, senderVars, receiverVars
<1>3. StatesAgree'
  BY <1>2 DEF StatesAgree
<1>4. CreditsFlow' /\ SenderAwake'
  BY <1>2 DEF AgreeInv, CreditsFlow, SenderAwake
<1>5. QED
  BY <1>1, <1>3, <1>4 DEF AgreeInv

\* The steps that change nothing of this.
LEMMA AgreeOthers ==
  ASSUME AgreeInv,
         \/ Stop
         \/ \E r \in Receivers :
               receive_credit(r) \/ receive_data(r) \/ LoseCredit(r) \/ LoseData(r)
  PROVE  AgreeInv'
<1>1. TypeOK'
  <2>1. [Next]_vars
    BY DEF Next
  <2>2. QED
    BY <2>1, TypeStep DEF AgreeInv
<1>2. UNCHANGED <<sender_StateMap, receiver_StateMap, ctl, sendcredit>> /\ failed = "no"
  BY DEF Stop, receive_credit, receive_data, LoseCredit, LoseData, senderVars, receiverVars, networkVars
<1>3. faults \in SUBSET (faults')
  BY DEF Stop, receive_credit, receive_data, LoseCredit, LoseData
<1>4. remainSize' # 0 => remainSize # 0
  <2>1. CASE \E r \in Receivers : receive_credit(r)
    BY <2>1 DEF receive_credit
  <2>2. CASE Stop \/ \E r \in Receivers : receive_data(r) \/ LoseCredit(r) \/ LoseData(r)
    BY <2>2 DEF Stop, receive_data, LoseCredit, LoseData, senderVars
  <2>3. QED
    BY <2>1, <2>2
<1>5. QED
  BY <1>1, <1>2, <1>3, <1>4, SameControl DEF AgreeInv

LEMMA AgreeStep == AgreeInv /\ [Next]_vars => AgreeInv'
<1> SUFFICES ASSUME AgreeInv, [Next]_vars PROVE AgreeInv'
  OBVIOUS
<1>1. ASSUME NEW r \in Receivers, NEW n \in FlowSizes, NEW p \in Priorities, processUpperpck(r, n, p)
      PROVE  AgreeInv'
  BY <1>1, AgreeUpper
<1>2. ASSUME NEW r \in Receivers,
             send_stop(r) \/ DeliverControl(r) \/ send_credit(r) \/ LoseControl(r)
      PROVE  AgreeInv'
  BY <1>2, AgreeSendStop, AgreeControl, AgreeSendCredit, AgreeLoseControl
<1>3. ASSUME NEW r \in Receivers,
             receive_credit(r) \/ receive_data(r) \/ LoseCredit(r) \/ LoseData(r)
      PROVE  AgreeInv'
  BY <1>3, AgreeOthers
<1>4. CASE Stop
  BY <1>4, AgreeOthers
<1>5. CASE UNCHANGED vars
  <2>1. TypeOK'
    BY <1>5, TypeStep DEF AgreeInv
  <2>2. UNCHANGED <<sender_StateMap, receiver_StateMap, ctl, sendcredit, faults, failed, remainSize>>
    BY <1>5 DEF vars, senderVars, receiverVars, networkVars
  <2>3. \A r \in Receivers : Settles(r)' <=> Settles(r)
    BY <2>2 DEF Settles
  <2>4. StatesAgree' /\ CreditsFlow' /\ SenderAwake'
    BY <2>2, <2>3 DEF AgreeInv, StatesAgree, CreditsFlow, SenderAwake
  <2>5. QED
    BY <2>1, <2>4 DEF AgreeInv
<1>6. QED
  BY <1>1, <1>2, <1>3, <1>4, <1>5 DEF Next

THEOREM AgreeInvariant == Spec => []AgreeInv
<1>1. Init => AgreeInv
  BY AgreeInit
<1>2. AgreeInv /\ [Next]_vars => AgreeInv'
  BY AgreeStep
<1>3. QED
  BY <1>1, <1>2, PTL DEF Spec

\* Sender and receivers agree about credits as long as no request or stop is
\* lost or overtaken.
THEOREM Agreement == Spec => []StatesAgree
<1>1. AgreeInv => StatesAgree
  BY DEF AgreeInv
<1>2. QED
  BY <1>1, AgreeInvariant, PTL

\* A receiver that sends credits has its timer scheduled.
THEOREM CreditsDoNotCease == Spec => []CreditsFlow
<1>1. AgreeInv => CreditsFlow
  BY DEF AgreeInv
<1>2. QED
  BY <1>1, AgreeInvariant, PTL

\* Data is not forgotten while control packets arrive in order and no stop is
\* sent over new data: the sender waits for credits of a receiver, and that one
\* sends them or will.
THEOREM NoDataStranded == Spec => []NotStranded
<1>1. AgreeInv => NotStranded
  <2>1. SUFFICES ASSUME AgreeInv, remainSize # 0,
                        faults \cap {"reqLost", "stopLost", "overtaken", "lateStop"} = {}
                 PROVE  \E r \in Receivers : Settles(r)
    BY DEF NotStranded
  <2>2. PICK r \in Receivers : sender_StateMap[r] = "CREDIT_RECEIVING"
    BY <2>1 DEF AgreeInv, SenderAwake
  <2>3. Settles(r)
    BY <2>1, <2>2 DEF AgreeInv, StatesAgree
  <2>4. QED
    BY <2>3
<1>2. QED
  BY <1>1, AgreeInvariant, PTL

-----------------------------------------------------------------------------
(***************************************************************************)
(* The numbers of credits and data, and the rate that follows from them.   *)
(***************************************************************************)
LEMMA OrderedAfterCredit ==
  ASSUME NEW lo \in Int, NEW hi \in Nat, NEW d \in Seq(DataPacket), NEW c \in Seq(Nat),
         Ordered(lo, hi, d, c), c # <<>>
  PROVE  Ordered(lo, hi, d, Tail(c))
<1> DEFINE t == Tail(c)
<1>1. /\ Len(c) \in Nat /\ Len(t) = Len(c) - 1
      /\ \A k \in 1..(Len(c) - 1) : t[k] = c[k + 1]
  BY TailOfChannel
<1> HIDE DEF t
<1>2. ASSUME NEW k \in 1..Len(t)
      PROVE  /\ lo <= t[k] /\ t[k] < hi
             /\ \A j \in 1..(k - 1) : t[j] < t[k]
             /\ \A j \in 1..Len(d) : d[j].seq < t[k]
  <2>1. k + 1 \in 1..Len(c) /\ t[k] = c[k + 1]
    BY <1>1
  <2>2. /\ lo <= c[k + 1] /\ c[k + 1] < hi
        /\ \A j \in 1..((k + 1) - 1) : c[j] < c[k + 1]
        /\ \A j \in 1..Len(d) : d[j].seq < c[k + 1]
    BY <2>1 DEF Ordered
  <2>3. \A j \in 1..(k - 1) : t[j] = c[j + 1] /\ j + 1 \in 1..((k + 1) - 1)
    <3>1. k \in Nat /\ k <= Len(c) - 1
      BY <1>1
    <3>2. \A j \in 1..(k - 1) : j \in 1..(Len(c) - 1) /\ j + 1 \in 1..((k + 1) - 1)
      BY <1>1, <3>1
    <3>3. QED
      BY <1>1, <3>2
  <2>4. QED
    BY <2>1, <2>2, <2>3
<1>3. QED
  BY <1>2 DEF Ordered, t

LEMMA OrderedAfterData ==
  ASSUME NEW lo \in Int, NEW hi \in Nat, NEW d \in Seq(DataPacket), NEW c \in Seq(Nat),
         Ordered(lo, hi, d, c), d # <<>>,
         NEW low \in Int, low <= d[1].seq + 1
  PROVE  Ordered(low, hi, Tail(d), c)
<1> DEFINE t == Tail(d)
           s == d[1].seq
<1>1. /\ Len(d) \in Nat /\ Len(t) = Len(d) - 1 /\ 1 \in 1..Len(d)
      /\ \A k \in 1..(Len(d) - 1) : t[k] = d[k + 1]
      /\ \A k \in 1..Len(d) : d[k] \in DataPacket
  <2>1. Len(d) \in Nat /\ Len(t) = Len(d) - 1 /\ \A k \in 1..(Len(d) - 1) : t[k] = d[k + 1]
    BY TailOfChannel
  <2>2. 1 \in 1..Len(d) /\ \A k \in 1..Len(d) : d[k] \in DataPacket
    OBVIOUS
  <2>3. QED
    BY <2>1, <2>2
<1>2. s \in Nat /\ s < hi /\ \A k \in 1..Len(d) : d[k].seq \in Nat
  BY <1>1 DEF Ordered, DataPacket
<1> HIDE DEF t, s
<1>3. ASSUME NEW k \in 1..Len(t)
      PROVE  /\ low <= t[k].seq /\ t[k].seq < hi
             /\ \A j \in 1..(k - 1) : t[j].seq < t[k].seq
  <2>1. k + 1 \in 1..Len(d) /\ t[k] = d[k + 1] /\ 1 \in 1..((k + 1) - 1)
    BY <1>1
  <2>2. /\ d[k + 1].seq < hi /\ d[k + 1].seq \in Nat
        /\ \A j \in 1..((k + 1) - 1) : d[j].seq < d[k + 1].seq
    BY <1>2, <2>1 DEF Ordered
  <2>3. ASSUME NEW j \in 1..(k - 1)
        PROVE  t[j] = d[j + 1] /\ j + 1 \in 1..((k + 1) - 1)
    <3>1. k \in Nat /\ k <= Len(d) - 1
      BY <1>1
    <3>2. j \in 1..(Len(d) - 1) /\ j + 1 \in 1..((k + 1) - 1)
      BY <1>1, <3>1
    <3>3. QED
      BY <1>1, <3>2
  <2>4. s < d[k + 1].seq
    BY <2>1, <2>2 DEF s
  <2>5. low <= d[k + 1].seq
    <3>1. low <= s + 1
      BY DEF s
    <3>2. QED
      BY <1>2, <2>2, <2>4, <3>1
  <2>6. QED
    BY <2>1, <2>2, <2>3, <2>5
<1>4. ASSUME NEW k \in 1..Len(c)
      PROVE  /\ low <= c[k] /\ c[k] < hi
             /\ \A j \in 1..(k - 1) : c[j] < c[k]
             /\ \A j \in 1..Len(t) : t[j].seq < c[k]
  <2>1. /\ c[k] < hi /\ c[k] \in Nat
        /\ \A j \in 1..(k - 1) : c[j] < c[k]
        /\ \A j \in 1..Len(d) : d[j].seq < c[k]
    <3>1. c[k] \in Nat
      OBVIOUS
    <3>2. QED
      BY <3>1 DEF Ordered
  <2>2. s < c[k] /\ low <= s + 1
    BY <1>1, <2>1 DEF s
  <2>3. \A j \in 1..Len(t) : t[j] = d[j + 1] /\ j + 1 \in 1..Len(d)
    BY <1>1
  <2>4. low <= c[k]
    <3>1. low \in Int /\ s \in Nat
      BY <1>2
    <3>2. QED
      BY <2>1, <2>2, <3>1
  <2>5. \A j \in 1..Len(t) : t[j].seq < c[k]
    BY <2>1, <2>3
  <2>6. QED
    BY <2>1, <2>4, <2>5
<1>5. low <= hi
  <2>1. low <= s + 1
    BY DEF s
  <2>2. QED
    BY <1>2, <2>1
<1>6. QED
  BY <1>3, <1>4, <1>5 DEF Ordered, t

LEMMA OrderedAfterSend ==
  ASSUME NEW lo \in Int, NEW hi \in Nat, NEW d \in Seq(DataPacket), NEW c \in Seq(Nat),
         Ordered(lo, hi, d, c)
  PROVE  Ordered(lo, hi + 1, d, Append(c, hi))
<1> DEFINE a == Append(c, hi)
           n == Len(c)
<1>1. /\ n \in Nat /\ Len(a) = n + 1 /\ a[n + 1] = hi
      /\ \A k \in 1..n : a[k] = c[k] /\ c[k] \in Nat
  OBVIOUS
<1>2. \A k \in 1..Len(d) : d[k].seq \in Nat
  <2>1. \A k \in 1..Len(d) : d[k] \in DataPacket
    OBVIOUS
  <2>2. QED
    BY <2>1 DEF DataPacket
<1> HIDE DEF a, n
<1>3. ASSUME NEW k \in 1..Len(a)
      PROVE  /\ lo <= a[k] /\ a[k] < hi + 1
             /\ \A j \in 1..(k - 1) : a[j] < a[k]
             /\ \A j \in 1..Len(d) : d[j].seq < a[k]
  <2>1. CASE k = n + 1
    <3>1. \A j \in 1..(k - 1) : a[j] = c[j] /\ c[j] < hi
      BY <1>1, <2>1 DEF Ordered, n
    <3>2. QED
      BY <1>1, <2>1, <3>1 DEF Ordered
  <2>2. CASE k # n + 1
    <3>1. k \in 1..n
      BY <1>1, <2>2
    <3>2. /\ lo <= c[k] /\ c[k] < hi /\ c[k] \in Nat
          /\ \A j \in 1..(k - 1) : c[j] < c[k]
          /\ \A j \in 1..Len(d) : d[j].seq < c[k]
      BY <1>1, <3>1 DEF Ordered, n
    <3>3. \A j \in 1..(k - 1) : a[j] = c[j]
      <4>1. \A j \in 1..(k - 1) : j \in 1..n
        BY <1>1, <3>1
      <4>2. QED
        BY <1>1, <4>1
    <3>4. a[k] = c[k] /\ c[k] < hi + 1
      BY <1>1, <3>1, <3>2
    <3>5. QED
      BY <3>2, <3>3, <3>4
  <2>3. QED
    BY <2>1, <2>2
<1>4. ASSUME NEW k \in 1..Len(d)
      PROVE  /\ lo <= d[k].seq /\ d[k].seq < hi + 1
             /\ \A j \in 1..(k - 1) : d[j].seq < d[k].seq
  <2>1. /\ lo <= d[k].seq /\ d[k].seq < hi
        /\ \A j \in 1..(k - 1) : d[j].seq < d[k].seq
    BY DEF Ordered
  <2>2. d[k].seq \in Nat
    BY <1>2
  <2>3. QED
    BY <2>1, <2>2
<1>5. lo <= hi + 1
  BY DEF Ordered
<1>6. QED
  BY <1>3, <1>4, <1>5 DEF Ordered, a

\* A credit that becomes a packet keeps its place between the others.
LEMMA OrderedAfterTurn ==
  ASSUME NEW lo \in Int, NEW hi \in Nat, NEW d \in Seq(DataPacket), NEW c \in Seq(Nat),
         Ordered(lo, hi, d, c), c # <<>>,
         NEW p \in DataPacket, p.seq = Head(c)
  PROVE  Ordered(lo, hi, Append(d, p), Tail(c))
<1> DEFINE t == Tail(c)
           a == Append(d, p)
           n == Len(d)
<1>1. /\ n \in Nat /\ Len(a) = n + 1 /\ a[n + 1] = p
      /\ \A k \in 1..n : a[k] = d[k] /\ d[k] \in DataPacket
  OBVIOUS
<1>2. /\ Len(c) \in Nat /\ Len(t) = Len(c) - 1
      /\ \A k \in 1..(Len(c) - 1) : t[k] = c[k + 1]
  BY TailOfChannel
<1>3. 1 \in 1..Len(c) /\ p.seq = c[1] /\ p.seq \in Nat
  BY DEF DataPacket
<1>4. Ordered(lo, hi, d, t)
  BY OrderedAfterCredit
<1> HIDE DEF a, n, t
<1>5. /\ lo <= p.seq /\ p.seq < hi
      /\ \A j \in 1..n : d[j].seq < p.seq
  BY <1>3 DEF Ordered, n
<1>6. ASSUME NEW k \in 1..Len(a)
      PROVE  /\ lo <= a[k].seq /\ a[k].seq < hi
             /\ \A j \in 1..(k - 1) : a[j].seq < a[k].seq
  <2>1. CASE k = n + 1
    <3>1. a[k].seq = p.seq
      BY <1>1, <2>1
    <3>2. \A j \in 1..(k - 1) : j \in 1..n /\ a[j] = d[j]
      BY <1>1, <2>1
    <3>3. \A j \in 1..(k - 1) : a[j].seq < p.seq
      BY <1>5, <3>2
    <3>4. QED
      BY <1>5, <3>1, <3>3
  <2>2. CASE k # n + 1
    <3>1. k \in 1..n
      BY <1>1, <2>2
    <3>2. /\ lo <= d[k].seq /\ d[k].seq < hi
          /\ \A j \in 1..(k - 1) : d[j].seq < d[k].seq
      BY <3>1 DEF Ordered, n
    <3>3. \A j \in 1..(k - 1) : a[j] = d[j]
      BY <1>1, <3>1
    <3>4. QED
      BY <1>1, <3>1, <3>2, <3>3
  <2>3. QED
    BY <2>1, <2>2
<1>7. ASSUME NEW k \in 1..Len(t)
      PROVE  /\ lo <= t[k] /\ t[k] < hi
             /\ \A j \in 1..(k - 1) : t[j] < t[k]
             /\ \A j \in 1..Len(a) : a[j].seq < t[k]
  <2>1. /\ lo <= t[k] /\ t[k] < hi
        /\ \A j \in 1..(k - 1) : t[j] < t[k]
        /\ \A j \in 1..n : d[j].seq < t[k]
    BY <1>4 DEF Ordered, n
  <2>2. c[1] < t[k]
    <3>1. k + 1 \in 1..Len(c) /\ t[k] = c[k + 1] /\ 1 \in 1..((k + 1) - 1)
      BY <1>2
    <3>2. QED
      BY <3>1 DEF Ordered
  <2>3. \A j \in 1..Len(a) : j \in 1..n \/ j = n + 1
    BY <1>1
  <2>4. QED
    BY <1>1, <1>3, <2>1, <2>2, <2>3
<1>8. lo <= hi
  BY DEF Ordered
<1>9. QED
  BY <1>6, <1>7, <1>8 DEF Ordered, a, t

OrderInv == TypeOK /\ NumbersInOrder /\ RatePositive

LEMMA OrderInit == Init => OrderInv
<1> SUFFICES ASSUME Init PROVE OrderInv
  OBVIOUS
<1>1. TypeOK
  BY InitType
<1>2. RatePositive
  BY DEF Init, RatePositive
<1>3. ASSUME NEW r \in Receivers
      PROVE  InOrder(r)
  <2>1. /\ data[r] = <<>> /\ credits[r] = <<>>
        /\ receiver_flowMap[r].cdt = 0 /\ Lowest(r) = 0
    BY DEF Init, Lowest
  <2>2. QED
    BY <2>1 DEF InOrder, Ordered
<1>4. QED
  BY <1>1, <1>2, <1>3 DEF OrderInv, NumbersInOrder

\* A receiver's numbers by their types.
LEMMA NumberTypes ==
  ASSUME TypeOK, NEW r \in Receivers
  PROVE  /\ receiver_flowMap[r] \in ReceiverInfo
         /\ receiver_flowMap[r].cdt \in Nat /\ receiver_flowMap[r].last \in Int
         /\ receiver_flowMap[r].pck \in Nat /\ Lowest(r) \in Int
         /\ credits[r] \in Seq(Nat) /\ data[r] \in Seq(DataPacket)
<1>1. receiver_flowMap[r] \in ReceiverInfo /\ credits[r] \in Seq(Nat) /\ data[r] \in Seq(DataPacket)
  BY TypesNamed DEF Types
<1>2. /\ receiver_flowMap[r].cdt \in Nat /\ receiver_flowMap[r].last \in Int
      /\ receiver_flowMap[r].pck \in Nat
  BY <1>1 DEF ReceiverInfo
<1>3. QED
  BY <1>1, <1>2 DEF Lowest

\* A step that leaves the other receivers alone and r in order.
LEMMA OrderAt ==
  ASSUME OrderInv, TypeOK', "dataOvertaken" \notin faults, NEW r \in Receivers,
         \A s \in Receivers \ {r} :
            /\ receiver_flowMap'[s] = receiver_flowMap[s]
            /\ data'[s] = data[s] /\ credits'[s] = credits[s],
         Ordered(receiver_flowMap'[r].last + receiver_flowMap'[r].pck + 1,
                 receiver_flowMap'[r].cdt, data'[r], credits'[r]),
         receiver_flowMap'[r].current_speed # 0,
         failed' # "zeroRate"
  PROVE  OrderInv'
<1>1. InOrder(r)'
  BY DEF InOrder, Lowest
<1>2. ASSUME NEW s \in Receivers, s # r
      PROVE  InOrder(s)'
  <2>1. InOrder(s)
    BY DEF OrderInv, NumbersInOrder
  <2>2. /\ receiver_flowMap'[s] = receiver_flowMap[s]
        /\ data'[s] = data[s] /\ credits'[s] = credits[s]
    BY <1>2
  <2>3. QED
    BY <2>1, <2>2, Zenon DEF InOrder, Lowest
<1>3. NumbersInOrder'
  BY <1>1, <1>2 DEF NumbersInOrder
<1>4. RatePositive'
  <2>1. \A s \in Receivers \ {r} : receiver_flowMap'[s].current_speed # 0
    BY DEF OrderInv, RatePositive
  <2>2. QED
    BY <2>1 DEF RatePositive
<1>5. QED
  BY <1>3, <1>4 DEF OrderInv

\* A step that changes none of it.
LEMMA OrderUnchanged ==
  ASSUME OrderInv, TypeOK', UNCHANGED <<receiver_flowMap, data, credits>>,
         "dataOvertaken" \notin faults, failed' = failed
  PROVE  OrderInv'
<1>1. \A r \in Receivers : InOrder(r)'
  BY DEF OrderInv, NumbersInOrder, InOrder, Lowest
<1>2. QED
  BY <1>1 DEF OrderInv, NumbersInOrder, RatePositive

LEMMA OrderReceiveCredit ==
  ASSUME OrderInv, TypeOK', "dataOvertaken" \notin faults,
         NEW r \in Receivers, receive_credit(r)
  PROVE  OrderInv'
<1> DEFINE c == credits[r]
<1>1. /\ failed = "no" /\ c # <<>> /\ credits' = [credits EXCEPT ![r] = Tail(@)]
      /\ UNCHANGED receiver_flowMap
  BY DEF receive_credit, receiverVars
<1>2. TypeOK /\ credits \in [Receivers -> Seq(Nat)] /\ data \in [Receivers -> Seq(DataPacket)]
  BY TypesNamed DEF OrderInv, Types
<1>3. credits'[r] = Tail(c) /\ \A s \in Receivers \ {r} : credits'[s] = credits[s]
  BY <1>1, <1>2
<1>4. Ordered(Lowest(r), receiver_flowMap[r].cdt, data[r], c)
  BY DEF OrderInv, NumbersInOrder, InOrder
<1>5. receiver_flowMap[r].current_speed # 0
  BY DEF OrderInv, RatePositive
<1>6. /\ receiver_flowMap[r].cdt \in Nat /\ Lowest(r) \in Int
      /\ c \in Seq(Nat) /\ data[r] \in Seq(DataPacket)
  BY <1>2, NumberTypes
<1>7. CASE data' = data /\ failed' \in {failed, "emptyMap"}
  <2>1. Ordered(Lowest(r), receiver_flowMap[r].cdt, data[r], Tail(c))
    BY <1>1, <1>4, <1>6, OrderedAfterCredit
  <2>2. QED
    BY <1>1, <1>3, <1>5, <1>7, <2>1, OrderAt DEF Lowest
<1>8. CASE sender_flowMap # [f \in {} |-> 0] /\ SendData(r, Head(c))
  <2>1. Head(c) \in Nat
    BY <1>1, <1>6
  <2>2. /\ failed' \in {"no", "emptyMap"}
        /\ \E p \in DataPacket : p.seq = Head(c) /\ data' = [data EXCEPT ![r] = Append(@, p)]
    BY <1>1, <1>2, <1>8, <2>1, SendDataType
  <2>3. PICK p \in DataPacket : p.seq = Head(c) /\ data' = [data EXCEPT ![r] = Append(@, p)]
    BY <2>2
  <2>4. Ordered(Lowest(r), receiver_flowMap[r].cdt, Append(data[r], p), Tail(c))
    BY <1>1, <1>4, <1>6, <2>3, OrderedAfterTurn
  <2>5. data'[r] = Append(data[r], p) /\ \A s \in Receivers \ {r} : data'[s] = data[s]
    BY <1>2, <2>3
  <2>6. QED
    BY <1>1, <1>3, <1>5, <2>2, <2>4, <2>5, OrderAt DEF Lowest
<1>9. QED
  BY <1>1, <1>7, <1>8 DEF receive_credit

LEMMA OrderSendCredit ==
  ASSUME OrderInv, TypeOK', "dataOvertaken" \notin faults,
         NEW r \in Receivers, send_credit(r)
  PROVE  OrderInv'
<1> DEFINE i == receiver_flowMap[r]
           h == i.cdt + 1
           j == [i EXCEPT !.cdt = h]
<1>1. /\ receiver_flowMap' = [receiver_flowMap EXCEPT ![r] = j]
      /\ credits' = [credits EXCEPT ![r] = Append(@, i.cdt)]
      /\ data' = data /\ failed = "no"
      /\ failed' = IF receiver_StateMap[r] = "CREDIT_SENDING" /\ i.current_speed = 0
                   THEN "zeroRate" ELSE failed
  BY DEF send_credit
<1>2. i.current_speed # 0
  BY DEF OrderInv, RatePositive
<1>3. /\ TypeOK /\ credits \in [Receivers -> Seq(Nat)]
      /\ receiver_flowMap \in [Receivers -> ReceiverInfo]
  BY TypesNamed DEF OrderInv, Types
<1>4. /\ i \in ReceiverInfo /\ i.cdt \in Nat /\ Lowest(r) \in Int
      /\ credits[r] \in Seq(Nat) /\ data[r] \in Seq(DataPacket)
  BY <1>3, NumberTypes
<1>5. Ordered(Lowest(r), i.cdt, data[r], credits[r])
  BY DEF OrderInv, NumbersInOrder, InOrder
<1>6. Ordered(Lowest(r), h, data[r], Append(credits[r], i.cdt))
  BY <1>4, <1>5, OrderedAfterSend
<1>7. /\ receiver_flowMap'[r] = j /\ credits'[r] = Append(credits[r], i.cdt)
      /\ \A s \in Receivers \ {r} : receiver_flowMap'[s] = receiver_flowMap[s] /\ credits'[s] = credits[s]
  BY <1>1, <1>3
<1>8. j.cdt = h /\ j.last = i.last /\ j.pck = i.pck /\ j.current_speed = i.current_speed
  <2> HIDE DEF i, h
  <2>1. QED
    BY <1>4 DEF ReceiverInfo
<1>9. Lowest(r) = i.last + i.pck + 1
  BY DEF Lowest
<1>10. failed' # "zeroRate"
  BY <1>1, <1>2
<1> HIDE DEF i, h, j
<1>11. QED
  BY <1>1, <1>2, <1>6, <1>7, <1>8, <1>9, <1>10, OrderAt

\* A packet that arrives in its place: as many numbers lie between two feedbacks
\* as packets were counted, or more, so the share that was lost is one of 0..1.
LEMMA RateAfterFeedback ==
  ASSUME NEW i \in ReceiverInfo, i.now >= i.last + i.pck, i.pck > 0, i.current_speed # 0
  PROVE  Feedback(i).current_speed # 0
<1>1. i.now \in Nat /\ i.last \in Int /\ i.pck \in Nat
  BY DEF ReceiverInfo
<1> DEFINE n == i.now - i.last
           m == n - i.pck
<1>2. n \in Int /\ m \in Int /\ ~(n <= 0 \/ m < 0 \/ m >= n)
  BY <1>1
<1>3. Feedback(i).current_speed = ControlledRate(i.current_speed, m, n)
  BY FeedbackType
<1> HIDE DEF m, n
<1>4. QED
  BY <1>2, <1>3 DEF ControlledRate

LEMMA OrderReceiveData ==
  ASSUME OrderInv, TypeOK', "dataOvertaken" \notin faults',
         NEW r \in Receivers, receive_data(r)
  PROVE  OrderInv'
<1> DEFINE d == data[r]
           p == d[1]
           i == receiver_flowMap[r]
           g == Received(r, p)
<1>1. PICK k \in 1..Len(d) :
          /\ data' = [data EXCEPT ![r] = Without(@, k)]
          /\ faults' = faults \cup (IF k = 1 THEN {} ELSE {"dataOvertaken"})
          /\ \E j \in {Received(r, d[k]), Feedback(Received(r, d[k]))} :
                receiver_flowMap' = [receiver_flowMap EXCEPT ![r] = j]
  BY DEF receive_data, Received
<1>2. k = 1 /\ "dataOvertaken" \notin faults
  BY <1>1
<1>3. /\ TypeOK /\ data \in [Receivers -> Seq(DataPacket)]
      /\ receiver_flowMap \in [Receivers -> ReceiverInfo]
  BY TypesNamed DEF OrderInv, Types
<1>4. /\ i \in ReceiverInfo /\ i.cdt \in Nat /\ i.last \in Int /\ i.pck \in Nat
      /\ Lowest(r) \in Int /\ Lowest(r) = i.last + i.pck + 1
      /\ credits[r] \in Seq(Nat) /\ d \in Seq(DataPacket)
  BY <1>3, NumberTypes DEF Lowest
<1>5. d # <<>> /\ 1 \in 1..Len(d) /\ Without(d, k) = Tail(d)
  <2>1. d # <<>>
    BY <1>1, <1>4
  <2>2. Without(d, 1) = Tail(d) /\ 1 \in 1..Len(d)
    <3>1. Without(d, 1) = Tail(d)
      BY <1>4, <2>1, TailOfChannel
    <3> HIDE DEF d
    <3>2. Len(d) \in Nat /\ Len(d) # 0
      BY <1>4, <2>1
    <3>3. QED
      BY <3>1, <3>2
  <2>3. QED
    BY <1>2, <2>1, <2>2
<1>6. p \in DataPacket /\ p.seq \in Nat
  <2>1. p \in DataPacket
    BY <1>4, <1>5
  <2>2. QED
    BY <2>1 DEF DataPacket
<1>7. Ordered(Lowest(r), i.cdt, d, credits[r])
  BY <1>2 DEF OrderInv, NumbersInOrder, InOrder
<1>8. Lowest(r) <= p.seq
  BY <1>5, <1>7 DEF Ordered
<1>9. i.current_speed # 0
  BY <1>2 DEF OrderInv, RatePositive
<1>10. /\ g \in ReceiverInfo /\ g.cdt = i.cdt /\ g.last = i.last /\ g.now = p.seq
       /\ g.pck = i.pck + 1 /\ g.current_speed = i.current_speed
  BY <1>3, <1>6, ReceivedType
<1>11. PICK j \in {g, Feedback(g)} : receiver_flowMap' = [receiver_flowMap EXCEPT ![r] = j]
  BY <1>1, <1>2
<1>12. /\ receiver_flowMap'[r] = j /\ data'[r] = Tail(d) /\ credits' = credits
       /\ \A s \in Receivers \ {r} : receiver_flowMap'[s] = receiver_flowMap[s] /\ data'[s] = data[s]
  <2>1. credits' = credits
    BY DEF receive_data
  <2>2. QED
    BY <1>1, <1>3, <1>5, <1>11, <2>1
<1>13. failed' # "zeroRate"
  BY DEF receive_data
<1> DEFINE low == j.last + j.pck + 1
<1>14. /\ j.cdt = i.cdt /\ j.current_speed # 0
       /\ low \in Int /\ low <= p.seq + 1
  <2>1. CASE j = g
    <3> DEFINE l == i.last
               m == i.pck
    <3>1. l \in Int /\ m \in Nat /\ low = l + (m + 1) + 1 /\ l + m + 1 <= p.seq
      BY <1>4, <1>8, <1>10, <2>1
    <3>2. j.cdt = i.cdt /\ j.current_speed # 0
      BY <1>9, <1>10, <2>1
    <3> HIDE DEF l, m, low
    <3>3. low \in Int /\ low <= p.seq + 1
      BY <1>6, <3>1
    <3>4. QED
      BY <3>2, <3>3
  <2>2. CASE j = Feedback(g)
    <3>1. /\ Feedback(g).cdt = g.cdt /\ Feedback(g).last = g.now /\ Feedback(g).pck = 0
      BY <1>10, FeedbackType
    <3>2. g.now >= g.last + g.pck /\ g.pck > 0 /\ g.current_speed # 0
      BY <1>4, <1>6, <1>8, <1>9, <1>10
    <3>3. Feedback(g).current_speed # 0
      BY <1>10, <3>2, RateAfterFeedback
    <3> HIDE DEF g, p, i
    <3>4. QED
      BY <1>6, <1>10, <2>2, <3>1, <3>3
  <2>3. QED
    BY <1>11, <2>1, <2>2
<1>15. Ordered(low, i.cdt, Tail(d), credits[r])
  BY <1>4, <1>5, <1>7, <1>14, OrderedAfterData
<1> HIDE DEF g, d, i
<1>16. QED
  BY <1>2, <1>12, <1>13, <1>14, <1>15, OrderAt

LEMMA OrderLosses ==
  ASSUME OrderInv, TypeOK', "dataOvertaken" \notin faults,
         NEW r \in Receivers, LoseCredit(r) \/ LoseData(r)
  PROVE  OrderInv'
<1>1. /\ TypeOK /\ credits \in [Receivers -> Seq(Nat)] /\ data \in [Receivers -> Seq(DataPacket)]
  BY TypesNamed DEF OrderInv, Types
<1>2. /\ receiver_flowMap[r].cdt \in Nat /\ Lowest(r) \in Int
      /\ credits[r] \in Seq(Nat) /\ data[r] \in Seq(DataPacket)
  BY <1>1, NumberTypes
<1>3. Ordered(Lowest(r), receiver_flowMap[r].cdt, data[r], credits[r])
  BY DEF OrderInv, NumbersInOrder, InOrder
<1>4. receiver_flowMap[r].current_speed # 0 /\ failed # "zeroRate"
  BY DEF OrderInv, RatePositive
<1>5. receiver_flowMap' = receiver_flowMap /\ failed' = failed
  BY DEF LoseCredit, LoseData, receiverVars
<1>6. CASE LoseCredit(r)
  <2>1. credits[r] # <<>> /\ credits' = [credits EXCEPT ![r] = Tail(@)] /\ data' = data
    BY <1>6 DEF LoseCredit
  <2>2. Ordered(Lowest(r), receiver_flowMap[r].cdt, data[r], Tail(credits[r]))
    BY <1>2, <1>3, <2>1, OrderedAfterCredit
  <2>3. credits'[r] = Tail(credits[r]) /\ \A s \in Receivers \ {r} : credits'[s] = credits[s]
    BY <1>1, <2>1
  <2>4. QED
    BY <1>4, <1>5, <2>1, <2>2, <2>3, OrderAt DEF Lowest
<1>7. CASE LoseData(r)
  <2>1. data[r] # <<>> /\ data' = [data EXCEPT ![r] = Tail(@)] /\ credits' = credits
    BY <1>7 DEF LoseData
  <2>2. Lowest(r) <= data[r][1].seq + 1
    <3>1. 1 \in 1..Len(data[r]) /\ data[r][1] \in DataPacket
      <4>1. 1 \in 1..Len(data[r])
        BY <1>2, <2>1, TailOfChannel
      <4>2. QED
        BY <1>2, <4>1
    <3>2. data[r][1].seq \in Nat /\ Lowest(r) <= data[r][1].seq
      BY <1>3, <3>1 DEF Ordered, DataPacket
    <3>3. QED
      BY <1>2, <3>2
  <2>3. Ordered(Lowest(r), receiver_flowMap[r].cdt, Tail(data[r]), credits[r])
    BY <1>2, <1>3, <2>1, <2>2, OrderedAfterData
  <2>4. data'[r] = Tail(data[r]) /\ \A s \in Receivers \ {r} : data'[s] = data[s]
    BY <1>1, <2>1
  <2>5. QED
    BY <1>4, <1>5, <2>1, <2>3, <2>4, OrderAt DEF Lowest
<1>8. QED
  BY <1>6, <1>7

LEMMA OrderStep == OrderInv /\ [Next]_vars => OrderInv'
<1> SUFFICES ASSUME OrderInv, [Next]_vars PROVE OrderInv'
  OBVIOUS
<1>1. TypeOK'
  BY TypeStep DEF OrderInv
<1>2. CASE "dataOvertaken" \in faults'
  BY <1>1, <1>2 DEF OrderInv, NumbersInOrder, RatePositive
<1>3. CASE "dataOvertaken" \notin faults'
  <2>1. "dataOvertaken" \notin faults
    <3>1. faults \subseteq faults'
      BY DEF Next, vars, processUpperpck, receive_credit, send_stop, DeliverControl, send_credit,
             receive_data, LoseCredit, LoseData, LoseControl, Stop
    <3>2. QED
      BY <1>3, <3>1
  <2>2. ASSUME NEW r \in Receivers,
               \/ \E n \in FlowSizes, p \in Priorities : processUpperpck(r, n, p)
               \/ send_stop(r) \/ DeliverControl(r) \/ LoseControl(r)
        PROVE  OrderInv'
    <3>1. UNCHANGED <<receiver_flowMap, data, credits, failed>>
      <4>1. CASE DeliverControl(r)
        <5>1. PICK k \in 1..Len(ctl[r]) :
                 CASE ctl[r][k] = "req"  -> receive_credreq(r)
                   [] ctl[r][k] = "stop" -> receive_stopcred(r)
          BY <4>1 DEF DeliverControl
        <5>2. ctl[r][k] \in {"req", "stop"}
          BY TypesNamed DEF OrderInv, Types
        <5>3. UNCHANGED receiver_flowMap
          BY <5>1, <5>2 DEF receive_credreq, receive_stopcred, receiverVars
        <5>4. QED
          BY <4>1, <5>3 DEF DeliverControl
      <4>2. QED
        BY <2>2, <4>1 DEF processUpperpck, send_stop, LoseControl, receiverVars
    <3>2. QED
      BY <1>1, <2>1, <3>1, OrderUnchanged
  <2>3. ASSUME NEW r \in Receivers,
               receive_credit(r) \/ send_credit(r) \/ receive_data(r) \/ LoseCredit(r) \/ LoseData(r)
        PROVE  OrderInv'
    BY <1>1, <1>3, <2>1, <2>3, OrderReceiveCredit, OrderSendCredit, OrderReceiveData, OrderLosses
  <2>4. CASE Stop \/ UNCHANGED vars
    <3>1. UNCHANGED <<receiver_flowMap, data, credits, failed>>
      BY <2>4 DEF Stop, vars, receiverVars, networkVars
    <3>2. QED
      BY <1>1, <2>1, <3>1, OrderUnchanged
  <2>5. QED
    BY <2>2, <2>3, <2>4 DEF Next
<1>4. QED
  BY <1>2, <1>3

\* The rate of the credits stays above 0 as long as data arrives in order,
\* whatever is lost.
THEOREM RateStaysPositive == Spec => []RatePositive
<1>1. Init => OrderInv
  BY OrderInit
<1>2. OrderInv /\ [Next]_vars => OrderInv'
  BY OrderStep
<1>3. OrderInv => RatePositive
  BY DEF OrderInv
<1>4. QED
  BY <1>1, <1>2, <1>3, PTL DEF Spec

-----------------------------------------------------------------------------
(***************************************************************************)
(* The sizes of the flows cover what remains to be sent.                   *)
(***************************************************************************)
SizeIn(map) == [f \in Flows |-> IF f \in DOMAIN map THEN map[f].flowsize ELSE 0]

Bytes(map) == SumTo(SizeIn(map), MaxFlows)

\* The invariant: a new flow is a new entry of the map.
CoverInv ==
    /\ TypeOK
    /\ \A f \in DOMAIN sender_flowMap : f < nextFlow
    /\ SizesCoverRemain

\* The property by these names, in a state and in the next.
LEMMA CoverNamed ==
    SizesCoverRemain <=> /\ Bytes(sender_flowMap) >= remainSize
                         /\ failed = "emptyMap" => remainSize < 0
BY Zenon DEF SizesCoverRemain, Bytes, SizeIn

LEMMA CoverAfter ==
    SizesCoverRemain' <=> /\ Bytes(sender_flowMap') >= remainSize'
                          /\ failed' = "emptyMap" => remainSize' < 0
BY Zenon DEF SizesCoverRemain, Bytes, SizeIn

\* The bytes in a map are a natural number, 0 in an empty map.
LEMMA BytesType ==
  ASSUME NEW map, MapOK(map)
  PROVE  /\ \A f \in Flows : SizeIn(map)[f] \in Nat
         /\ Bytes(map) \in Nat
<1>1. \A f \in Flows : SizeIn(map)[f] \in Nat
  <2> SUFFICES ASSUME NEW f \in Flows PROVE SizeIn(map)[f] \in Nat
    OBVIOUS
  <2>1. f \in DOMAIN map => map[f].flowsize \in 0..(Word - 1)
    BY DEF MapOK, FlowInfo
  <2>2. QED
    BY <2>1, Parameters DEF SizeIn
<1>2. QED
  BY <1>1, Parameters, SumToNat DEF Bytes, Flows

LEMMA BytesOfNothing ==
  ASSUME NEW map, MapOK(map), DOMAIN map = {}
  PROVE  Bytes(map) = 0
<1> DEFINE P == PartialSums(SizeIn(map), MaxFlows)
           Bad == {k \in 0..MaxFlows : P[k] # 0}
<1>1. P[0] = 0 /\ \A i \in 1..MaxFlows : P[i] = P[i - 1] + SizeIn(map)[i]
  BY Parameters, PartialSumsDef
<1>2. \A i \in 1..MaxFlows : SizeIn(map)[i] = 0
  BY DEF SizeIn, Flows
<1> HIDE DEF P
<1>3. SUFFICES ASSUME Bad # {} PROVE FALSE
  BY Parameters DEF P, Bytes, SumTo
<1>4. PICK m \in Bad : \A k \in Bad : m <= k
  <2> HIDE DEF Bad
  <2>1. Bad \in SUBSET Nat
    BY Parameters DEF Bad
  <2>2. QED
    BY <1>3, <2>1, LeastNat
<1>5. m \in 1..MaxFlows /\ m - 1 \in 0..MaxFlows /\ m - 1 \notin Bad
  BY <1>1, <1>4, Parameters
<1>6. QED
  BY <1>1, <1>2, <1>4, <1>5

\* Two maps that differ in one flow differ by its bytes.
LEMMA BytesChange ==
  ASSUME NEW m, MapOK(m), NEW n, MapOK(n), NEW f \in Flows,
         \A g \in Flows : g # f => SizeIn(n)[g] = SizeIn(m)[g]
  PROVE  Bytes(n) = Bytes(m) + (SizeIn(n)[f] - SizeIn(m)[f])
<1>1. /\ \A g \in Flows : SizeIn(m)[g] \in Int
      /\ \A g \in Flows : SizeIn(n)[g] \in Int
  BY BytesType
<1>2. QED
  BY <1>1, Parameters, SumToUpdate DEF Bytes, Flows

LEMMA BytesAfterStore ==
  ASSUME NEW m, MapOK(m), NEW f \in Flows, f \notin DOMAIN m, NEW i \in FlowInfo
  PROVE  Bytes(Store(m, f, i)) = Bytes(m) + i.flowsize
<1> DEFINE n == Store(m, f, i)
<1>1. MapOK(n)
  BY StoreType
<1>2. SizeIn(n)[f] = i.flowsize /\ SizeIn(m)[f] = 0
  BY DEF SizeIn, Store
<1>3. \A g \in Flows : g # f => SizeIn(n)[g] = SizeIn(m)[g]
  BY DEF SizeIn, Store
<1>4. i.flowsize \in Int /\ Bytes(m) \in Int
  BY Parameters, BytesType DEF FlowInfo
<1> HIDE DEF n
<1>5. Bytes(n) = Bytes(m) + (SizeIn(n)[f] - SizeIn(m)[f])
  BY <1>1, <1>3, BytesChange
<1>6. QED
  BY <1>2, <1>4, <1>5 DEF n

LEMMA BytesAfterErase ==
  ASSUME NEW m, MapOK(m), NEW f \in DOMAIN m
  PROVE  Bytes(Erase(m, f)) = Bytes(m) - m[f].flowsize
<1> DEFINE n == Erase(m, f)
<1>1. MapOK(n) /\ f \in Flows
  BY EraseType DEF MapOK
<1>2. SizeIn(n)[f] = 0 /\ SizeIn(m)[f] = m[f].flowsize
  BY <1>1 DEF SizeIn, Erase
<1>3. \A g \in Flows : g # f => SizeIn(n)[g] = SizeIn(m)[g]
  BY DEF SizeIn, Erase
<1>4. SizeIn(m)[f] \in Int /\ Bytes(m) \in Int
  BY <1>1, BytesType
<1> HIDE DEF n
<1>5. Bytes(n) = Bytes(m) + (SizeIn(n)[f] - SizeIn(m)[f])
  BY <1>1, <1>3, BytesChange
<1>6. QED
  BY <1>2, <1>4, <1>5 DEF n

\* A reduction takes n bytes, or wraps around and takes less.
LEMMA BytesAfterReduction ==
  ASSUME NEW m, MapOK(m), NEW f \in DOMAIN m, NEW n \in 0..max_pck_size
  PROVE  Bytes(Reduced(m, f, n)) >= Bytes(m) - n
<1> DEFINE w == Reduced(m, f, n)
           fs == m[f].flowsize
           z == (fs + Word - n) % Word
<1>1. MapOK(w) /\ f \in Flows
  BY ReducedType DEF MapOK
<1>2. m[f] \in FlowInfo /\ fs \in 0..(Word - 1)
  BY DEF MapOK, FlowInfo
<1>3. z >= fs - n /\ z \in Nat
  <2>1. CASE fs >= n
    <3>1. fs + Word - n = (fs - n) + Word /\ fs - n \in 0..(Word - 1)
      BY <1>2, <2>1, Parameters
    <3>2. ((fs - n) + Word) % Word = fs - n
      BY <3>1, Parameters
    <3>3. QED
      BY <1>2, <2>1, <3>1, <3>2
  <2>2. CASE fs < n
    <3>1. fs + Word - n \in 0..(Word - 1)
      BY <1>2, <2>2, Parameters
    <3>2. (fs + Word - n) % Word = fs + Word - n
      BY <3>1, Parameters
    <3>3. QED
      BY <1>2, <2>2, <3>1, <3>2, Parameters
  <2>3. QED
    BY <1>2, <2>1, <2>2, Parameters
<1>4. w = [m EXCEPT ![f] = [m[f] EXCEPT !.flowsize = z]]
  BY DEF Reduced
<1> HIDE DEF z
<1>5. w[f].flowsize = z /\ DOMAIN w = DOMAIN m /\ \A g \in DOMAIN m : g # f => w[g] = m[g]
  BY <1>2, <1>4 DEF MapOK, FlowInfo
<1> HIDE DEF w
<1>6. SizeIn(w)[f] = z /\ SizeIn(m)[f] = fs
  BY <1>1, <1>5 DEF SizeIn
<1>7. \A g \in Flows : g # f => SizeIn(w)[g] = SizeIn(m)[g]
  BY <1>5 DEF SizeIn
<1>8. Bytes(w) = Bytes(m) + (SizeIn(w)[f] - SizeIn(m)[f])
  BY <1>1, <1>7, BytesChange
<1>9. Bytes(m) \in Int /\ Bytes(w) \in Int
  BY <1>1, BytesType
<1>10. QED
  BY <1>2, <1>3, <1>6, <1>8, <1>9, Parameters DEF w

LEMMA CoverInit == Init => CoverInv
<1> SUFFICES ASSUME Init PROVE CoverInv
  OBVIOUS
<1>1. TypeOK
  BY InitType
<1>2. MapOK(sender_flowMap) /\ DOMAIN sender_flowMap = {}
  BY DEF Init, MapOK
<1>3. Bytes(sender_flowMap) = 0
  BY <1>2, BytesOfNothing
<1>4. remainSize = 0 /\ failed = "no"
  BY DEF Init
<1>5. QED
  BY <1>1, <1>2, <1>3, <1>4, CoverNamed DEF CoverInv

LEMMA CoverUpper ==
  ASSUME CoverInv, NEW r \in Receivers, NEW n \in FlowSizes, NEW p \in Priorities,
         processUpperpck(r, n, p)
  PROVE  /\ SizesCoverRemain'
         /\ \A f \in DOMAIN sender_flowMap' : f < nextFlow'
<1> DEFINE i == [flowsize |-> n, destaddr |-> r, priority |-> p]
<1>1. /\ MapOK(sender_flowMap) /\ remainSize \in Int /\ nextFlow \in Nat \ {0}
      /\ nextFlow \in Flows /\ n \in 0..(Word - 1) /\ n \in Int
  BY Parameters, TypesNamed DEF CoverInv, Types, processUpperpck, Flows
<1>2. i \in FlowInfo /\ i.flowsize = n
  BY <1>1 DEF FlowInfo
<1>3. nextFlow \notin DOMAIN sender_flowMap /\ DOMAIN sender_flowMap \in SUBSET Flows
  BY <1>1 DEF CoverInv, MapOK
<1>4. /\ sender_flowMap' = Store(sender_flowMap, nextFlow, i)
      /\ remainSize' = remainSize + n /\ nextFlow' = nextFlow + 1 /\ failed' = failed
      /\ failed = "no"
  BY DEF processUpperpck
<1> HIDE DEF i
<1>5. Bytes(sender_flowMap') = Bytes(sender_flowMap) + n
  BY <1>1, <1>2, <1>3, <1>4, BytesAfterStore
<1>6. Bytes(sender_flowMap) \in Nat /\ Bytes(sender_flowMap) >= remainSize
  BY <1>1, BytesType, CoverNamed DEF CoverInv
<1>7. SizesCoverRemain'
  <2>1. Bytes(sender_flowMap') >= remainSize'
    BY <1>1, <1>4, <1>5, <1>6
  <2>2. QED
    BY <1>4, <2>1, CoverAfter
<1>8. \A f \in DOMAIN sender_flowMap' : f < nextFlow'
  <2>1. DOMAIN sender_flowMap' = DOMAIN sender_flowMap \cup {nextFlow}
    BY <1>4 DEF Store
  <2>2. DOMAIN sender_flowMap \in SUBSET Int
    BY <1>3, Parameters DEF Flows
  <2>3. QED
    BY <1>1, <1>4, <2>1, <2>2 DEF CoverInv
<1>9. QED
  BY <1>7, <1>8

LEMMA CoverSendData ==
  ASSUME CoverInv, NEW r \in Receivers, NEW c \in Nat, sender_flowMap # [f \in {} |-> 0],
         failed = "no", SendData(r, c)
  PROVE  /\ SizesCoverRemain'
         /\ DOMAIN sender_flowMap' \in SUBSET DOMAIN sender_flowMap
<1> DEFINE f == First(sender_flowMap)
           i == sender_flowMap[f]
<1>1. MapOK(sender_flowMap) /\ remainSize \in Int
  BY TypesNamed DEF CoverInv, Types
<1>2. DOMAIN sender_flowMap # {}
  <2>1. sender_flowMap = [g \in DOMAIN sender_flowMap |-> sender_flowMap[g]]
    BY DEF CoverInv, TypeOK
  <2>2. DOMAIN sender_flowMap = {} => sender_flowMap = [g \in {} |-> 0]
    BY <2>1
  <2>3. QED
    BY <2>2
<1>3. f \in DOMAIN sender_flowMap /\ f \in Flows /\ i \in FlowInfo
  BY <1>1, <1>2, FirstInMap DEF MapOK
<1>4. i.flowsize \in Nat /\ max_pck_size \in 0..max_pck_size /\ max_pck_size \in Nat \ {0}
  BY <1>3, Parameters DEF FlowInfo
<1>5. Bytes(sender_flowMap) \in Nat /\ Bytes(sender_flowMap) >= remainSize
  BY <1>1, BytesType, CoverNamed DEF CoverInv
<1>6. CASE /\ i.flowsize >= max_pck_size
           /\ remainSize' = remainSize - max_pck_size
           /\ sender_flowMap' = Reduced(sender_flowMap, f, max_pck_size)
           /\ UNCHANGED failed
  <2> HIDE DEF f
  <2>1. Bytes(sender_flowMap') >= Bytes(sender_flowMap) - max_pck_size
    BY <1>1, <1>3, <1>4, <1>6, BytesAfterReduction
  <2>2. MapOK(sender_flowMap')
    BY <1>1, <1>3, <1>4, <1>6, ReducedType
  <2>3. Bytes(sender_flowMap') \in Nat
    BY <2>2, BytesType
  <2>4. Bytes(sender_flowMap') >= remainSize'
    BY <1>1, <1>4, <1>5, <1>6, <2>1, <2>3
  <2>5. failed' # "emptyMap"
    BY <1>6
  <2>6. DOMAIN sender_flowMap' = DOMAIN sender_flowMap
    BY <1>6 DEF Reduced
  <2>7. QED
    BY <2>4, <2>5, <2>6, CoverAfter
<1>7. CASE /\ i.flowsize < max_pck_size /\ AtLeastOnePacket
           /\ remainSize' = remainSize - max_pck_size
           /\ IF DOMAIN sender_flowMap = {f}
              THEN sender_flowMap' = Erase(sender_flowMap, f) /\ failed' = "emptyMap"
              ELSE /\ sender_flowMap' = CarryOver(Erase(sender_flowMap, f), i.flowsize)
                   /\ UNCHANGED failed
  <2> DEFINE m == Erase(sender_flowMap, f)
             need == max_pck_size - i.flowsize
  <2>1. MapOK(m) /\ DOMAIN m = DOMAIN sender_flowMap \ {f}
    BY <1>1, EraseType
  <2>2. Bytes(m) = Bytes(sender_flowMap) - i.flowsize
    BY <1>1, <1>3, BytesAfterErase
  <2>3. Bytes(m) \in Nat
    BY <2>1, BytesType
  <2>4. CASE DOMAIN sender_flowMap = {f}
    <3>1. sender_flowMap' = m
      BY <1>7, <2>4
    <3>2. Bytes(m) = 0
      BY <2>1, <2>4, BytesOfNothing
    <3> HIDE DEF m, i
    <3>3. remainSize < max_pck_size
      BY <1>1, <1>4, <1>5, <1>7, <2>2, <3>2
    <3>4. remainSize' < 0
      BY <1>1, <1>4, <1>7, <3>3 DEF AtLeastOnePacket
    <3>5. remainSize' \in Int
      BY <1>1, <1>4, <1>7
    <3>6. QED
      BY <2>1, <3>1, <3>2, <3>4, <3>5, CoverAfter
  <2>5. CASE DOMAIN sender_flowMap # {f}
    <3>1. sender_flowMap' = Reduced(m, First(m), need) /\ failed' = failed
      BY <1>7, <2>5 DEF CarryOver
    <3>2. DOMAIN m # {}
      BY <1>3, <2>1, <2>5
    <3>3. First(m) \in DOMAIN m
      BY <2>1, <3>2, FirstInMap
    <3> HIDE DEF m, i
    <3>4. need \in 0..max_pck_size
      BY <1>4, <1>7
    <3>5. Bytes(sender_flowMap') >= Bytes(m) - need
      <4> HIDE DEF need
      <4>1. QED
        BY <2>1, <3>1, <3>3, <3>4, BytesAfterReduction
    <3>6. MapOK(sender_flowMap')
      BY <2>1, <3>1, <3>3, <3>4, ReducedType
    <3>7. Bytes(sender_flowMap') \in Nat
      BY <3>6, BytesType
    <3>8. Bytes(sender_flowMap') >= remainSize'
      BY <1>1, <1>4, <1>5, <1>7, <2>2, <2>3, <3>5, <3>7
    <3>9. DOMAIN sender_flowMap' = DOMAIN m
      BY <3>1 DEF Reduced
    <3>10. QED
      BY <2>1, <3>1, <3>8, <3>9, CoverAfter
  <2>6. QED
    BY <2>4, <2>5
<1>8. CASE /\ i.flowsize < max_pck_size /\ ~AtLeastOnePacket
           /\ remainSize' = 0
           /\ UNCHANGED <<sender_flowMap, failed>>
  BY <1>5, <1>8, CoverAfter
<1>9. QED
  BY <1>6, <1>7, <1>8 DEF SendData

LEMMA CoverReceiveCredit ==
  ASSUME CoverInv, NEW r \in Receivers, receive_credit(r)
  PROVE  /\ SizesCoverRemain'
         /\ DOMAIN sender_flowMap' \in SUBSET DOMAIN sender_flowMap
<1>1. CASE stopped \/ remainSize = 0
  <2>1. UNCHANGED <<sender_flowMap, remainSize, failed>>
    BY <1>1 DEF receive_credit
  <2>2. QED
    BY <2>1, CoverNamed, CoverAfter DEF CoverInv
<1>2. CASE ~(stopped \/ remainSize = 0) /\ sender_flowMap = [f \in {} |-> 0]
  <2>1. UNCHANGED <<sender_flowMap, remainSize>>
    BY <1>2 DEF receive_credit
  <2>2. MapOK(sender_flowMap) /\ DOMAIN sender_flowMap = {} /\ remainSize \in Int
    BY <1>2, TypesNamed DEF CoverInv, Types
  <2>3. Bytes(sender_flowMap) = 0 /\ Bytes(sender_flowMap) >= remainSize
    BY <2>2, BytesOfNothing, CoverNamed DEF CoverInv
  <2>4. remainSize < 0
    BY <1>2, <2>2, <2>3
  <2>5. QED
    BY <2>1, <2>3, <2>4, CoverAfter
<1>3. CASE ~(stopped \/ remainSize = 0) /\ sender_flowMap # [f \in {} |-> 0]
  <2>1. SendData(r, Head(credits[r])) /\ failed = "no" /\ credits[r] # <<>>
    BY <1>3 DEF receive_credit
  <2>2. Head(credits[r]) \in Nat
    BY <2>1, TypesNamed DEF CoverInv, Types
  <2>3. QED
    BY <1>3, <2>1, <2>2, CoverSendData
<1>4. QED
  BY <1>1, <1>2, <1>3

LEMMA CoverStep == CoverInv /\ [Next]_vars => CoverInv'
<1> SUFFICES ASSUME CoverInv, [Next]_vars PROVE CoverInv'
  OBVIOUS
<1>1. TypeOK'
  BY TypeStep DEF CoverInv
<1>2. ASSUME NEW r \in Receivers, NEW n \in FlowSizes, NEW p \in Priorities,
             processUpperpck(r, n, p)
      PROVE  CoverInv'
  BY <1>1, <1>2, CoverUpper DEF CoverInv
<1>3. ASSUME NEW r \in Receivers, receive_credit(r)
      PROVE  CoverInv'
  <2>1. SizesCoverRemain' /\ DOMAIN sender_flowMap' \in SUBSET DOMAIN sender_flowMap
    BY <1>3, CoverReceiveCredit
  <2>2. nextFlow' = nextFlow
    BY <1>3 DEF receive_credit
  <2>3. QED
    BY <1>1, <2>1, <2>2 DEF CoverInv
<1>4. ASSUME UNCHANGED <<sender_flowMap, remainSize, nextFlow>>,
             failed' \in {failed, "zeroRate"}
      PROVE  CoverInv'
  <2>1. SizesCoverRemain'
    BY <1>4, CoverNamed, CoverAfter DEF CoverInv
  <2>2. QED
    BY <1>1, <1>4, <2>1 DEF CoverInv
<1>5. ASSUME NEW r \in Receivers,
             \/ send_stop(r) \/ DeliverControl(r) \/ send_credit(r) \/ receive_data(r)
             \/ LoseCredit(r) \/ LoseData(r) \/ LoseControl(r)
      PROVE  CoverInv'
  <2>1. UNCHANGED <<sender_flowMap, remainSize, nextFlow>> /\ failed' \in {failed, "zeroRate"}
    BY <1>5 DEF send_stop, DeliverControl, send_credit, receive_data, LoseCredit, LoseData,
                LoseControl, senderVars
  <2>2. QED
    BY <1>4, <2>1
<1>6. CASE Stop \/ UNCHANGED vars
  <2>1. UNCHANGED <<sender_flowMap, remainSize, nextFlow, failed>>
    BY <1>6 DEF Stop, vars, senderVars
  <2>2. QED
    BY <1>4, <2>1
<1>7. QED
  BY <1>2, <1>3, <1>5, <1>6 DEF Next

\* For any messages and packet sizes, the sender dereferences begin() of an
\* empty map only after remainSize has become negative.
THEOREM RemainCovered == Spec => []SizesCoverRemain
<1>1. Init => CoverInv
  BY CoverInit
<1>2. CoverInv /\ [Next]_vars => CoverInv'
  BY CoverStep
<1>3. CoverInv => SizesCoverRemain
  BY DEF CoverInv
<1>4. QED
  BY <1>1, <1>2, <1>3, PTL DEF Spec
=============================================================================

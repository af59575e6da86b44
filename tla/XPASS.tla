------------------------------- MODULE XPASS -------------------------------
(***************************************************************************)
(* Congestion control by credits (XPASS.cc): one sending host, the hosts it *)
(* sends to, and the network between them.                                 *)
(*                                                                         *)
(*   sender                                     receiver r                 *)
(*   flows, remainSize    -- ctl: req, stop ->  CREDIT_SENDING or _STOP    *)
(*   CREDIT_RECEIVING or  <-- credits[r] -----  sendcredit timer           *)
(*   CSTOP_SENT for r     --- data[r] ------->  feedback: current_speed    *)
(*                                                                         *)
(* Every module keeps both roles; those of one host share nothing that     *)
(* decides anything, so each is modelled once.  Every packet can be lost.  *)
(* Credits keep their order, and so do data packets of one priority; those *)
(* of two priorities may overtake each other in a queue.  So may a request *)
(* and a stop: HiClassifier reads the priority of a packet without a HiTag, *)
(* as the stop is, from a variable that nothing has set.                   *)
(*                                                                         *)
(* A message of several pieces is one arrival: the later pieces find their *)
(* flow in the map and the credits requested, and change nothing.          *)
(***************************************************************************)
EXTENDS PrefixSum, FiniteSets

CONSTANTS
    Receivers,              \* hosts that flows go to
    FlowSizes,              \* message lengths
    Priorities,             \* priorities of the applications
    max_pck_size,
    Word,                   \* flowsize counts modulo this (2^64)
    useECN,                 \* feedback by ECN: the rate has a floor
    TargetNum, TargetDen,   \* targetratio as a fraction
    MaxFlows,               \* bound: messages that are sent
    MaxCredits              \* bound: credits that the receivers send in all

ASSUME XPASSAssumption ==
    /\ FlowSizes \subseteq 1..(Word - 1)
    /\ max_pck_size \in Nat \ {0}
    /\ Word \in Nat /\ Word > 2 * max_pck_size
    /\ useECN \in BOOLEAN
    /\ TargetNum \in Nat /\ TargetDen \in Nat /\ TargetNum < TargetDen
    /\ MaxFlows \in Nat /\ MaxCredits \in Nat

VARIABLES
    sender_flowMap,      \* flow id -> [flowsize, destaddr, priority]
    remainSize,          \* bytes of all flows that were not sent yet
    sender_StateMap,     \* r -> "CREDIT_RECEIVING", "CSTOP_SENT"
    sendstop,            \* r -> number of sendstop timers that are scheduled
    nextFlow,            \* id of the next message (GlobalFlowId)
    receiver_StateMap,   \* r -> "CREDIT_SENDING", "CREDIT_STOP"
    receiver_flowMap,    \* r -> [cdt, last, now, pck, current_speed], see Init
    sendcredit,          \* r -> whether the sendcredit timer is scheduled
    credits,             \* r -> credits under way to the sender
    data,                \* r -> data packets under way to r
    ctl,                 \* r -> requests and stops under way to r
    stopped,             \* whether stopTime has passed
    failed,              \* "no", or what ended the simulation
    faults               \* what has gone wrong in the network (history)

senderVars   == <<sender_flowMap, remainSize, sender_StateMap, sendstop, nextFlow>>
receiverVars == <<receiver_StateMap, receiver_flowMap, sendcredit>>
networkVars  == <<credits, data, ctl>>
vars == <<senderVars, receiverVars, networkVars, stopped, failed, faults>>

Flows == 1..MaxFlows

\* std::map: the entries after an insertion and after an erasure, and the key
\* of begin().
Store(map, f, info) == [g \in DOMAIN map \cup {f} |-> IF g = f THEN info ELSE map[g]]
Erase(map, f) == [g \in DOMAIN map \ {f} |-> map[g]]
First(map) == CHOOSE f \in DOMAIN map : \A g \in DOMAIN map : f <= g

\* A channel without its k-th packet.
Without(c, k) == [j \in 1..(Len(c) - 1) |-> IF j < k THEN c[j] ELSE c[j + 1]]

-----------------------------------------------------------------------------
\* A receiver that has sent no credit has no entry in receiver_flowMap; the
\* values here are those that its first request stores.  The two sequence
\* numbers and the packets counted since the last feedback decide the feedback;
\* of current_speed only whether it is 0.
Init ==
    /\ sender_flowMap = [f \in {} |-> 0]
    /\ remainSize = 0
    /\ sender_StateMap = [r \in Receivers |-> "CSTOP_SENT"]
    /\ sendstop = [r \in Receivers |-> 0]
    /\ nextFlow = 1
    /\ receiver_StateMap = [r \in Receivers |-> "CREDIT_STOP"]
    /\ receiver_flowMap = [r \in Receivers |->
          [cdt |-> 0, last |-> -1, now |-> 0, pck |-> 0, current_speed |-> 1]]
    /\ sendcredit = [r \in Receivers |-> FALSE]
    /\ credits = [r \in Receivers |-> <<>>]
    /\ data = [r \in Receivers |-> <<>>]
    /\ ctl = [r \in Receivers |-> <<>>]
    /\ stopped = FALSE
    /\ failed = "no"
    /\ faults = {}

-----------------------------------------------------------------------------
(***************************************************************************)
(* The sender.                                                             *)
(***************************************************************************)
\* Whether a message for r has to ask for credits.
NeedsRequest(r) == sender_StateMap[r] = "CSTOP_SENT"

\* XPASS::processUpperpck, send_credreq: a message of n bytes for r arrives
\* from an application of priority p.
processUpperpck(r, n, p) ==
    /\ failed = "no"
    /\ nextFlow <= MaxFlows
    /\ sender_flowMap' = Store(sender_flowMap, nextFlow,
                               [flowsize |-> n, destaddr |-> r, priority |-> p])
    /\ remainSize' = remainSize + n
    /\ nextFlow' = nextFlow + 1
    /\ IF NeedsRequest(r)
       THEN /\ sender_StateMap' = [sender_StateMap EXCEPT ![r] = "CREDIT_RECEIVING"]
            /\ ctl' = [ctl EXCEPT ![r] = Append(@, "req")]
       ELSE UNCHANGED <<sender_StateMap, ctl>>
    /\ UNCHANGED <<sendstop, receiverVars, credits, data, stopped, failed, faults>>

\* The map after the first flow f lost n bytes, in unsigned arithmetic.
Reduced(map, f, n) == [map EXCEPT ![f].flowsize = (@ + Word - n) % Word]

\* A full packet takes the rest of the first flow, and what it lacks from the
\* flow that is first then.
CarryOver_FullPacket(map, rest) == Reduced(map, First(map), max_pck_size)

CarryOver(map, rest) == Reduced(map, First(map), max_pck_size - rest)

\* remainSize, a long, is compared as an unsigned number.
AtLeastOnePacket == remainSize < 0 \/ remainSize >= max_pck_size

\* A credit of r with number c takes a packet from the first flow, whatever its
\* destination, and sends it to r.
SendData(r, c) ==
    LET f == First(sender_flowMap)
        i == sender_flowMap[f]
    IN  /\ \/ /\ i.flowsize >= max_pck_size
              /\ remainSize' = remainSize - max_pck_size
              /\ sender_flowMap' = Reduced(sender_flowMap, f, max_pck_size)
              /\ UNCHANGED failed
           \/ /\ i.flowsize < max_pck_size /\ AtLeastOnePacket
              /\ remainSize' = remainSize - max_pck_size
              /\ IF DOMAIN sender_flowMap = {f}
                 THEN sender_flowMap' = Erase(sender_flowMap, f) /\ failed' = "emptyMap"
                 ELSE /\ sender_flowMap' = CarryOver(Erase(sender_flowMap, f), i.flowsize)
                      /\ UNCHANGED failed
           \/ /\ i.flowsize < max_pck_size /\ ~AtLeastOnePacket
              /\ remainSize' = 0
              /\ UNCHANGED <<sender_flowMap, failed>>
        /\ data' = [data EXCEPT ![r] = Append(@, [seq |-> c, flow |-> f, priority |-> i.priority])]

\* XPASS::receive_credit: the next credit of r arrives.  begin() of an empty
\* map is undefined behaviour, which the model ends.
receive_credit(r) ==
    /\ failed = "no" /\ credits[r] # <<>>
    /\ credits' = [credits EXCEPT ![r] = Tail(@)]
    /\ IF stopped \/ remainSize = 0
       THEN /\ sendstop' = [sendstop EXCEPT ![r] = @ + 1]
            /\ UNCHANGED <<sender_flowMap, remainSize, data, failed>>
       ELSE /\ UNCHANGED sendstop
            /\ IF sender_flowMap = [f \in {} |-> 0]
               THEN failed' = "emptyMap" /\ UNCHANGED <<sender_flowMap, remainSize, data>>
               ELSE SendData(r, Head(credits[r]))
    /\ UNCHANGED <<sender_StateMap, nextFlow, receiverVars, ctl, stopped, faults>>

\* A sendstop timer for r expires (XPASS::send_stop), possibly with new data
\* to send.
send_stop_StateKept(r) ==
    /\ failed = "no" /\ sendstop[r] > 0
    /\ sendstop' = [sendstop EXCEPT ![r] = @ - 1]
    /\ ctl' = [ctl EXCEPT ![r] = Append(@, "stop")]
    /\ faults' = faults \cup (IF remainSize = 0 THEN {} ELSE {"lateStop"})
    /\ UNCHANGED <<sender_flowMap, remainSize, sender_StateMap, nextFlow, receiverVars,
                   credits, data, stopped, failed>>

send_stop(r) ==
    /\ failed = "no" /\ sendstop[r] > 0
    /\ sendstop' = [sendstop EXCEPT ![r] = @ - 1]
    /\ sender_StateMap' = [sender_StateMap EXCEPT ![r] = "CSTOP_SENT"]
    /\ ctl' = [ctl EXCEPT ![r] = Append(@, "stop")]
    /\ faults' = faults \cup (IF remainSize = 0 THEN {} ELSE {"lateStop"})
    /\ UNCHANGED <<sender_flowMap, remainSize, nextFlow, receiverVars,
                   credits, data, stopped, failed>>

-----------------------------------------------------------------------------
(***************************************************************************)
(* The receivers.                                                          *)
(***************************************************************************)
\* XPASS::receive_credreq: a receiver that sends credits already ignores the
\* request.
receive_credreq_TimerOnce(r) ==
    IF receiver_StateMap[r] = "CREDIT_SENDING"
    THEN UNCHANGED receiverVars
    ELSE /\ receiver_StateMap' = [receiver_StateMap EXCEPT ![r] = "CREDIT_SENDING"]
         /\ sendcredit' = [sendcredit EXCEPT ![r] = @ \/ receiver_flowMap[r].cdt = 0]
         /\ UNCHANGED receiver_flowMap

receive_credreq(r) ==
    IF receiver_StateMap[r] = "CREDIT_SENDING"
    THEN UNCHANGED receiverVars
    ELSE /\ receiver_StateMap' = [receiver_StateMap EXCEPT ![r] = "CREDIT_SENDING"]
         /\ sendcredit' = [sendcredit EXCEPT ![r] = TRUE]
         /\ UNCHANGED receiver_flowMap

\* XPASS::receive_stopcred: the timer that is scheduled sends one more credit.
receive_stopcred_WhenIdle(r) ==
    /\ receiver_StateMap' = IF sendcredit[r] THEN receiver_StateMap
                            ELSE [receiver_StateMap EXCEPT ![r] = "CREDIT_STOP"]
    /\ UNCHANGED <<sendcredit, receiver_flowMap>>

receive_stopcred(r) ==
    /\ receiver_StateMap' = [receiver_StateMap EXCEPT ![r] = "CREDIT_STOP"]
    /\ UNCHANGED <<sendcredit, receiver_flowMap>>

\* A request or a stop arrives at r.
DeliverControl(r) ==
    /\ failed = "no"
    /\ \E k \in 1..Len(ctl[r]) :
          /\ ctl' = [ctl EXCEPT ![r] = Without(@, k)]
          /\ faults' = faults \cup (IF k = 1 THEN {} ELSE {"overtaken"})
          /\ CASE ctl[r][k] = "req"  -> receive_credreq(r)
               [] ctl[r][k] = "stop" -> receive_stopcred(r)
    /\ UNCHANGED <<senderVars, credits, data, stopped, failed>>

CreditsSent == {x \in Receivers \X (0..MaxCredits) : x[2] < receiver_flowMap[x[1]].cdt}

\* XPASS::send_credit, when the sendcredit timer of r expires.  The interval to
\* the next credit divides by the rate.
send_credit(r) ==
    LET i == receiver_flowMap[r] IN
    /\ failed = "no" /\ sendcredit[r] /\ Cardinality(CreditsSent) < MaxCredits
    /\ credits' = [credits EXCEPT ![r] = Append(@, i.cdt)]
    /\ receiver_flowMap' = [receiver_flowMap EXCEPT ![r].cdt = @ + 1]
    /\ sendcredit' = [sendcredit EXCEPT ![r] = receiver_StateMap[r] = "CREDIT_SENDING"]
    /\ failed' = IF receiver_StateMap[r] = "CREDIT_SENDING" /\ i.current_speed = 0
                 THEN "zeroRate" ELSE failed
    /\ UNCHANGED <<senderVars, receiver_StateMap, data, ctl, stopped, faults>>

\* XPASS::feedback_control and ecnbased_control: what the credits that were
\* lost since the last feedback make of the rate.  A ratio outside 0..1 counts
\* as 1, which makes the rate 0 but for the floor of ecnbased_control.
ControlledRate(speed, sumlost, sumcredits) ==
    LET total == sumcredits <= 0 \/ sumlost < 0 \/ sumlost >= sumcredits
        low   == sumlost * TargetDen <= TargetNum * sumcredits
    IN  IF useECN THEN 1
        ELSE IF total THEN 0
        ELSE IF low THEN 1 ELSE speed

Feedback_CountKept(i) ==
    LET sumcredits == i.now - i.last
    IN  [i EXCEPT !.current_speed = ControlledRate(@, sumcredits - i.pck, sumcredits),
                  !.last = i.now]

Feedback_CountBelow(i) ==
    LET sumcredits == i.now - i.last
    IN  [i EXCEPT !.current_speed = ControlledRate(@, sumcredits - i.pck, sumcredits),
                  !.last = i.now, !.pck = -1]

Feedback(i) ==
    LET sumcredits == i.now - i.last
    IN  [i EXCEPT !.current_speed = ControlledRate(@, sumcredits - i.pck, sumcredits),
                  !.last = i.now, !.pck = 0]

\* XPASS::receive_data: a packet arrives at r; an RTT after the last feedback,
\* or more, it is time for the next.
receive_data(r) ==
    /\ failed = "no"
    /\ \E k \in 1..Len(data[r]) :
          LET p == data[r][k]
              i == [receiver_flowMap[r] EXCEPT !.now = p.seq, !.pck = @ + 1]
          IN  /\ \A j \in 1..(k - 1) : data[r][j].priority # p.priority
              /\ data' = [data EXCEPT ![r] = Without(@, k)]
              /\ faults' = faults \cup (IF k = 1 THEN {} ELSE {"dataOvertaken"})
              /\ \E j \in {i, Feedback(i)} :
                    receiver_flowMap' = [receiver_flowMap EXCEPT ![r] = j]
    /\ UNCHANGED <<senderVars, receiver_StateMap, sendcredit, credits, ctl, stopped, failed>>

-----------------------------------------------------------------------------
(***************************************************************************)
(* The network and the clock.                                              *)
(***************************************************************************)
LoseCredit(r) ==
    /\ failed = "no" /\ credits[r] # <<>>
    /\ credits' = [credits EXCEPT ![r] = Tail(@)]
    /\ UNCHANGED <<senderVars, receiverVars, data, ctl, stopped, failed, faults>>

LoseData(r) ==
    /\ failed = "no" /\ data[r] # <<>>
    /\ data' = [data EXCEPT ![r] = Tail(@)]
    /\ UNCHANGED <<senderVars, receiverVars, credits, ctl, stopped, failed, faults>>

LoseControl(r) ==
    /\ failed = "no" /\ ctl[r] # <<>>
    /\ ctl' = [ctl EXCEPT ![r] = Tail(@)]
    /\ faults' = faults \cup {IF Head(ctl[r]) = "req" THEN "reqLost" ELSE "stopLost"}
    /\ UNCHANGED <<senderVars, receiverVars, credits, data, stopped, failed>>

\* stopTime passes.
Stop ==
    /\ failed = "no" /\ ~stopped
    /\ stopped' = TRUE
    /\ UNCHANGED <<senderVars, receiverVars, networkVars, failed, faults>>

Next ==
    \/ \E r \in Receivers :
          \/ \E n \in FlowSizes, p \in Priorities : processUpperpck(r, n, p)
          \/ receive_credit(r)
          \/ send_stop(r)
          \/ DeliverControl(r)
          \/ send_credit(r)
          \/ receive_data(r)
          \/ LoseCredit(r)
          \/ LoseData(r)
          \/ LoseControl(r)
    \/ Stop

Spec == Init /\ [][Next]_vars

\* Scheduled events are executed: timers expire, and what is on the wire leaves
\* it.
FairSpec ==
    /\ Spec
    /\ \A r \in Receivers : /\ WF_vars(send_stop(r))
                            /\ WF_vars(DeliverControl(r) \/ LoseControl(r))

-----------------------------------------------------------------------------
(***************************************************************************)
(* Properties.                                                             *)
(***************************************************************************)
Faults == {"reqLost", "stopLost", "overtaken", "dataOvertaken", "lateStop"}

TypeOK ==
    /\ DOMAIN sender_flowMap \subseteq Flows
    /\ sender_flowMap \in [DOMAIN sender_flowMap ->
          [flowsize : 0..(Word - 1), destaddr : Receivers, priority : Priorities]]
    /\ remainSize \in Int
    /\ sender_StateMap \in [Receivers -> {"CREDIT_RECEIVING", "CSTOP_SENT"}]
    /\ sendstop \in [Receivers -> Nat]
    /\ nextFlow \in Nat \ {0}
    /\ receiver_StateMap \in [Receivers -> {"CREDIT_SENDING", "CREDIT_STOP"}]
    /\ receiver_flowMap \in [Receivers -> [cdt : Nat, last : Int, now : Nat, pck : Nat,
                                           current_speed : {0, 1}]]
    /\ sendcredit \in [Receivers -> BOOLEAN]
    /\ credits \in [Receivers -> Seq(Nat)]
    /\ data \in [Receivers -> Seq([seq : Nat, flow : Flows, priority : Priorities])]
    /\ ctl \in [Receivers -> Seq({"req", "stop"})]
    /\ stopped \in BOOLEAN
    /\ failed \in {"no", "emptyMap", "zeroRate"}
    /\ faults \subseteq Faults

\* What receiver r will be doing when the requests and stops that are under way
\* have arrived in the order in which they were sent.
Settles(r) ==
    IF ctl[r] = <<>> THEN receiver_StateMap[r] = "CREDIT_SENDING"
    ELSE ctl[r][Len(ctl[r])] = "req"

\* Unless a request or a stop was lost or overtaken, the sender believes that
\* it gets credits from a receiver just when that receiver sends them, or will
\* by what is under way (send_credreq, send_stop and their receivers).
StatesAgree ==
    faults \cap {"reqLost", "stopLost", "overtaken"} = {} =>
        \A r \in Receivers : sender_StateMap[r] = "CREDIT_RECEIVING" <=> Settles(r)

\* While a receiver sends credits, its sendcredit timer is scheduled (or the
\* simulation has ended): no order of requests, stops and expiries, with a
\* request that meets the timer of the time before the stop, ends the credits.
CreditsFlow ==
    failed = "no" =>
        \A r \in Receivers : receiver_StateMap[r] = "CREDIT_SENDING" => sendcredit[r]

\* Data that waits at the sender is not forgotten: a receiver sends credits for
\* it or is being asked to.  The exceptions are control packets that were lost or
\* overtaken (XPASS repeats none) and a stop timer that fired after new data had
\* come (send_stop does not look at remainSize).
NotStranded ==
    (remainSize # 0 /\ faults \cap {"reqLost", "stopLost", "overtaken", "lateStop"} = {}) =>
        \E r \in Receivers : Settles(r)

\* The rate of the credits becomes 0, and send_credit divides by it, only after
\* a data packet has overtaken another: in order, the packets counted between
\* two feedbacks are no more than the credit numbers they span.
RatePositive ==
    "dataOvertaken" \notin faults =>
        /\ failed # "zeroRate"
        /\ \A r \in Receivers : receiver_flowMap[r].current_speed # 0

\* The flows in the map hold what remains to be sent, or more: receive_credit
\* reaches begin() of an empty map only after remainSize has become negative.
SizesCoverRemain ==
    /\ SumTo([f \in Flows |-> IF f \in DOMAIN sender_flowMap
                              THEN sender_flowMap[f].flowsize ELSE 0], MaxFlows) >= remainSize
    /\ failed = "emptyMap" => remainSize < 0

\* A stop that is due makes the receiver stop, unless it is lost or overtaken.
StopArrives ==
    \A r \in Receivers :
        (sendstop[r] > 0) ~> \/ receiver_StateMap[r] = "CREDIT_STOP"
                             \/ faults \cap {"stopLost", "overtaken"} # {}
                             \/ failed # "no"
=============================================================================

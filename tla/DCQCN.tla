------------------------------- MODULE DCQCN -------------------------------
(***************************************************************************)
(* The sender of DCQCN congestion control at one host (HiNA/CC/DCQCN).     *)
(*                                                                         *)
(* The application's flows wait in sender_flowMap.  The senddata timer     *)
(* sends the flow at iter, packet by packet, until it is done; meanwhile   *)
(* CNPs of the receivers cut a flow's rate, and its rate timer, its alpha  *)
(* timer and its byte counter change it.  A timer may fire at any moment   *)
(* while it is scheduled, a CNP may come for any flow ever sent.           *)
(*                                                                         *)
(* Rates and lengths are integers; alpha and gamma count in 1/AlphaUnit,   *)
(* and \div stands for the rounding of doubles.                            *)
(***************************************************************************)
EXTENDS Integers, FiniteSets

CONSTANTS
    NumFlows,        \* bound: flows the applications create
    Lengths,         \* their lengths
    max_pck_size,
    HeaderLength,    \* of the UDP header
    ByteCounter_th,
    frSteps_th,
    MaxFrSteps,      \* bound: rate timer steps of a flow between two CNPs
    Rai, Rhai,
    linkspeed,
    initialRate,     \* linkspeed * initialrate
    gamma,
    AlphaUnit

FlowIds == 1..NumFlows

ASSUME DcqcnAssumption ==
    /\ NumFlows \in Nat
    /\ Lengths \subseteq Nat \ {0}
    /\ {max_pck_size, ByteCounter_th, AlphaUnit, initialRate} \subseteq Nat \ {0}
    /\ {HeaderLength, frSteps_th, MaxFrSteps, Rai, Rhai, linkspeed} \subseteq Nat
    /\ gamma \in 0..AlphaUnit
    /\ initialRate <= linkspeed

VARIABLES
    sender_flowMap,  \* [flow ids in the map -> sender_flowinfo]
    iter,            \* the flow it points to, or 0 for end()
    SenderState,
    senddata,        \* whether this timer is scheduled
    timers,          \* the flows' timers that are: <<"rate", id>>, <<"alpha", id>>
    flowid,          \* GlobalFlowId, the id of the next flow
    cut,             \* [flow -> rate: the rate that the last CNP found, or 0;
                     \*          steps: rate timer steps since] (history variable)
    stopped          \* simTime() >= stopTime

vars == <<sender_flowMap, iter, SenderState, senddata, timers, flowid, cut, stopped>>

Flows == DOMAIN sender_flowMap

\* std::map: insertion or assignment, erasure, and the successor of an entry.
Store(map, f, info) == [g \in DOMAIN map \cup {f} |-> IF g = f THEN info ELSE map[g]]
Erase(map, f) == [g \in DOMAIN map \ {f} |-> map[g]]

First(S) == IF S = {} THEN 0 ELSE CHOOSE f \in S : \A g \in S : f <= g
Successor(f) == First({g \in Flows : g > f})

-----------------------------------------------------------------------------
(***************************************************************************)
(* The rate of a flow.                                                     *)
(***************************************************************************)
NewFlow(length) ==
    [remainLength |-> length, SndAccState |-> "Normal", ByteCounter |-> 0,
     currentRate |-> initialRate, targetRate |-> initialRate, alpha |-> AlphaUnit,
     iRhai |-> 0, ByteFrSteps |-> 0, TimeFrSteps |-> 0]

\* A CNP: the rate is cut by alpha / 2 and the recovery starts over.
CutRate_KeepSteps(i) ==
    [i EXCEPT !.targetRate = i.currentRate,
              !.currentRate = (i.currentRate * (2 * AlphaUnit - i.alpha) + 2 * AlphaUnit - 1)
                                 \div (2 * AlphaUnit),
              !.alpha = ((AlphaUnit - gamma) * i.alpha) \div AlphaUnit + gamma,
              !.ByteCounter = 0, !.ByteFrSteps = 0, !.iRhai = 0]

CutRate(i) ==
    [i EXCEPT !.targetRate = i.currentRate,
              !.currentRate = (i.currentRate * (2 * AlphaUnit - i.alpha) + 2 * AlphaUnit - 1)
                                 \div (2 * AlphaUnit),
              !.alpha = ((AlphaUnit - gamma) * i.alpha) \div AlphaUnit + gamma,
              !.ByteCounter = 0, !.ByteFrSteps = 0, !.TimeFrSteps = 0, !.iRhai = 0]

AccState(i) ==
    LET most  == IF i.ByteFrSteps > i.TimeFrSteps THEN i.ByteFrSteps ELSE i.TimeFrSteps
        least == IF i.ByteFrSteps > i.TimeFrSteps THEN i.TimeFrSteps ELSE i.ByteFrSteps
    IN  IF most < frSteps_th THEN "Fast_Recovery"
        ELSE IF least > frSteps_th THEN "Hyper_Increase"
        ELSE "Additive_Increase"

\* increaseTxRate on a flow: by how much the target grows, and the rate half
\* way to it.
AtMostLink_Unlimited(rate) == rate

AtMostLink(rate) == IF rate > linkspeed THEN linkspeed ELSE rate

increaseTxRate(i) ==
    LET state  == AccState(i)
        hyper  == i.iRhai + (IF state = "Hyper_Increase" THEN 1 ELSE 0)
        target == CASE state = "Fast_Recovery"     -> i.targetRate
                    [] state = "Additive_Increase" -> AtMostLink(i.targetRate + Rai)
                    [] state = "Hyper_Increase"    -> AtMostLink(i.targetRate + hyper * Rhai)
    IN  [i EXCEPT !.SndAccState = state, !.iRhai = hyper, !.targetRate = target,
                  !.currentRate = (i.currentRate + target) \div 2]

-----------------------------------------------------------------------------
Init ==
    /\ sender_flowMap = << >>
    /\ iter = 0
    /\ SenderState = "STOPPING"
    /\ senddata = FALSE
    /\ timers = {}
    /\ flowid = 1
    /\ cut = [f \in FlowIds |-> [rate |-> 0, steps |-> 0]]
    /\ stopped = FALSE

\* A sender that has nothing to do starts with the packet that comes.
StartSending ==
    /\ SenderState' = "SENDING"
    /\ senddata' = TRUE

\* A packet of the application: the first of a flow enters it into the map,
\* the others (of a flow longer than one datagram) are deleted.
IterFor_Always(f) == f

IterFor(f) == IF Flows = {} THEN f ELSE iter

processUpperpck ==
    /\ \/ /\ flowid <= NumFlows
          /\ flowid' = flowid + 1
          /\ \E length \in Lengths :
                sender_flowMap' = Store(sender_flowMap, flowid, NewFlow(length))
          /\ iter' = IterFor(flowid)
       \/ /\ Flows # {}
          /\ UNCHANGED <<flowid, sender_flowMap, iter>>
    /\ IF SenderState = "STOPPING" THEN StartSending ELSE UNCHANGED <<SenderState, senddata>>
    /\ UNCHANGED <<timers, cut, stopped>>

\* The packet takes the flow's last bytes: the flow's timers are deleted with
\* it, and iter moves on.
TimersOf_RateOnly(f) == {<<"rate", f>>}

TimersOf(f) == {<<"rate", f>>, <<"alpha", f>>}

LastPacket_NotScheduled(f) ==
    /\ sender_flowMap' = Erase(sender_flowMap, f)
    /\ iter' = Successor(f)
    /\ timers' = timers \ TimersOf(f)
    /\ senddata' = FALSE

LastPacket(f) ==
    /\ sender_flowMap' = Erase(sender_flowMap, f)
    /\ iter' = Successor(f)
    /\ timers' = timers \ TimersOf(f)
    /\ UNCHANGED senddata

\* The packet leaves bytes behind.  snd_info is a copy of the flow's entry:
\* what the byte counter changes in the entry when it expires -- its steps,
\* its reset, the rate -- is overwritten when the copy is stored.
ByteCounterExpired(map, f) ==
    Store(map, f, increaseTxRate([map[f] EXCEPT !.ByteFrSteps = @ + 1, !.ByteCounter = 0]))

NotLastPacket(f, length) ==
    LET rest     == [sender_flowMap[f] EXCEPT !.remainLength = @ - length]
        snd_info == IF rest.SndAccState = "Normal" THEN rest
                    ELSE [rest EXCEPT !.ByteCounter = @ + length + HeaderLength]
        map      == IF rest.SndAccState # "Normal" /\ snd_info.ByteCounter >= ByteCounter_th
                    THEN ByteCounterExpired(sender_flowMap, f) ELSE sender_flowMap
    IN  /\ sender_flowMap' = Store(map, f, snd_info)
        /\ UNCHANGED <<iter, senddata, timers>>

send_data_FullPacketLeft(f) ==
    IF sender_flowMap[f].remainLength >= max_pck_size
    THEN NotLastPacket(f, max_pck_size)
    ELSE LastPacket(f)

send_data(f) ==
    IF sender_flowMap[f].remainLength > max_pck_size
    THEN NotLastPacket(f, max_pck_size)
    ELSE LastPacket(f)

\* The senddata timer; send_data schedules it again.
SendData ==
    /\ senddata
    /\ IF Flows = {} \/ stopped
       THEN /\ SenderState' = "STOPPING"
            /\ senddata' = FALSE
            /\ UNCHANGED <<sender_flowMap, iter, timers>>
       ELSE send_data(iter) /\ UNCHANGED SenderState
    /\ UNCHANGED <<flowid, cut, stopped>>

RateTimer(f) ==
    /\ <<"rate", f>> \in timers
    /\ sender_flowMap[f].TimeFrSteps < MaxFrSteps
    /\ sender_flowMap' =
          Store(sender_flowMap, f,
                increaseTxRate([sender_flowMap[f] EXCEPT !.TimeFrSteps = @ + 1]))
    /\ cut' = [cut EXCEPT ![f].steps = @ + 1]
    /\ UNCHANGED <<iter, SenderState, senddata, timers, flowid, stopped>>

\* updateAlpha
AlphaTimer(f) ==
    /\ <<"alpha", f>> \in timers
    /\ sender_flowMap' =
          [sender_flowMap EXCEPT ![f].alpha = ((AlphaUnit - gamma) * @) \div AlphaUnit]
    /\ UNCHANGED <<iter, SenderState, senddata, timers, flowid, cut, stopped>>

\* A CNP of a flow that is still in the map restarts its timers.
receive_cnp(f) ==
    /\ f \in Flows
    /\ sender_flowMap' = [sender_flowMap EXCEPT ![f] = CutRate(@)]
    /\ timers' = timers \cup {<<"rate", f>>, <<"alpha", f>>}
    /\ cut' = [cut EXCEPT ![f] = [rate |-> sender_flowMap[f].currentRate, steps |-> 0]]
    /\ UNCHANGED <<iter, SenderState, senddata, flowid, stopped>>

\* The clock passes stopTime.
StopTimePasses ==
    /\ ~stopped
    /\ stopped' = TRUE
    /\ UNCHANGED <<sender_flowMap, iter, SenderState, senddata, timers, flowid, cut>>

Next ==
    \/ processUpperpck \/ SendData \/ StopTimePasses
    \/ \E f \in FlowIds : RateTimer(f) \/ AlphaTimer(f) \/ receive_cnp(f)

Spec == Init /\ [][Next]_vars

\* The simulator delivers the senddata timer that is scheduled.
FairSpec == Spec /\ WF_vars(SendData)

-----------------------------------------------------------------------------
(***************************************************************************)
(* Properties.                                                             *)
(***************************************************************************)
\* Types: in the map a flow has bytes left to send.
sender_flowinfo ==
    [remainLength : Nat \ {0},
     SndAccState  : {"Normal", "Fast_Recovery", "Additive_Increase", "Hyper_Increase"},
     ByteCounter  : Nat, currentRate : Nat, targetRate : Nat, alpha : 0..AlphaUnit,
     iRhai : Nat, ByteFrSteps : Nat, TimeFrSteps : 0..MaxFrSteps]

TypeOK ==
    /\ Flows \subseteq FlowIds
    /\ \A f \in Flows : sender_flowMap[f] \in sender_flowinfo
    /\ SenderState \in {"SENDING", "STOPPING"}
    /\ senddata \in BOOLEAN
    /\ timers \subseteq {"rate", "alpha"} \X FlowIds
    /\ flowid \in 1..NumFlows + 1
    /\ cut \in [FlowIds -> [rate : Nat, steps : Nat]]
    /\ stopped \in BOOLEAN

\* iter can be dereferenced whenever senddata fires: while there are flows it
\* points to the oldest, whatever came and finished between two packets; and
\* senddata is scheduled, once, exactly while the sender is sending.
IterValid ==
    /\ iter = First(Flows)
    /\ SenderState = "SENDING" <=> senddata
    /\ Flows # {} /\ ~stopped => SenderState = "SENDING"

\* A timer that is scheduled belongs to a flow in the map: its handler looks
\* the flow up without a test, and the timer is deleted with the flow.
TimersOwned ==
    \A t \in timers : t[2] \in Flows

\* Whatever order CNPs and timers come in, a flow's rate is positive, at most
\* its target, and that at most the speed of the link.
RatesOrdered ==
    \A f \in Flows : LET i == sender_flowMap[f] IN
        0 < i.currentRate /\ i.currentRate <= i.targetRate /\ i.targetRate <= linkspeed

\* Fast recovery returns to the rate before the cut: a flow's target is the
\* rate that its last CNP found until the rate timer has stepped frSteps_th
\* times since (or the byte counter has), whatever CNPs, timers and packets
\* came before and come in between.
RecoversToCutRate ==
    \A f \in Flows : LET i == sender_flowMap[f] IN
        cut[f].rate # 0 /\ cut[f].steps < frSteps_th /\ i.ByteFrSteps < frSteps_th
            => i.targetRate = cut[f].rate

\* Every flow is sent, one after the other.
EveryFlowSent == \A f \in FlowIds : f \in Flows ~> (f \notin Flows \/ stopped)

\* send_data reports "byte counter expired" and calls increaseTxRate, the
\* "rate increase at the sender": the flow has made a step of its recovery
\* when its counter expires, and counts its bytes from zero.
ByteCounterIncreasesRate ==
    [][\A f \in Flows \cap DOMAIN sender_flowMap' :
         LET i == sender_flowMap[f] IN
         /\ sender_flowMap'[f].remainLength < i.remainLength
         /\ i.SndAccState # "Normal"
         /\ i.ByteCounter + max_pck_size + HeaderLength >= ByteCounter_th
         => /\ sender_flowMap'[f].ByteFrSteps = i.ByteFrSteps + 1
            /\ sender_flowMap'[f].ByteCounter = 0]_vars
=============================================================================

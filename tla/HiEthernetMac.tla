--------------------------- MODULE HiEthernetMac ---------------------------
(***************************************************************************)
(* The full-duplex MAC of an interface: HiNA/Ethernet/HiEthernetMac with   *)
(* what it inherits from EthernetMacBase and MacProtocolBase.              *)
(*                                                                         *)
(* The transmitter has a state, at most one frame and three timers.  It is *)
(* driven by those timers, by its queue (a SwitchMacQueue in front of the  *)
(* port's HiQueue, whose packets can all be pulled here: PfcLink.tla has   *)
(* the ones that PFC holds back), by the frames of the peer, by the PFC    *)
(* commands of the node's other ports, and by the node's lifecycle.        *)
(*                                                                         *)
(* A timer may fire at any moment while it is scheduled.  A check of the   *)
(* code that fails (ASSERT, cRuntimeError) ends the simulation.            *)
(***************************************************************************)
EXTENDS Integers

CONSTANTS
    MaxQueue,      \* bound: packets in the queue
    PauseUnits,    \* the pause times the peer sends
    TIMELY,        \* whether the MAC acknowledges TIMELY segments
    PfcCommands,   \* whether queues of the node signal this interface
    Lifecycle      \* operations of the node that happen: "stop", "crash"

ASSUME MacAssumption ==
    /\ MaxQueue \in Nat
    /\ PauseUnits \subseteq Nat
    /\ TIMELY \in BOOLEAN
    /\ PfcCommands \in BOOLEAN
    /\ Lifecycle \subseteq {"stop", "crash"}

VARIABLES
    transmitState,
    currentTxFrame,        \* "none", or what kind of frame it is
    curTxSignal,           \* whether it is set
    pauseUnitsRequested,
    timers,                \* those of endTx, endIfg and endPause scheduled
    queue,                 \* packets that can be dequeued
    connected,
    operationalState,
    stopped,               \* simTime() > stopTime
    failed,                \* a check of the code failed
    wentDown               \* the node was stopped or crashed (history variable)

txVars == <<transmitState, currentTxFrame, curTxSignal, pauseUnitsRequested, timers, queue>>
upVars == <<connected, operationalState, stopped, wentDown>>
vars == <<txVars, upVars, failed>>

-----------------------------------------------------------------------------
(***************************************************************************)
(* What the handlers call.  t holds the timers scheduled at the call and q *)
(* the packets in the queue.                                               *)
(***************************************************************************)
startFrameTransmission(frame, q, t) ==
    /\ transmitState' = "TRANSMITTING"
    /\ currentTxFrame' = frame
    /\ curTxSignal' = TRUE
    /\ timers' = t \cup {"endTx"}
    /\ queue' = q
    /\ failed' = (failed \/ curTxSignal \/ "endTx" \in t)
    /\ UNCHANGED pauseUnitsRequested

\* The transmitter is idle, without a frame.
BecomeIdle(q, t) ==
    /\ transmitState' = "TX_IDLE"
    /\ currentTxFrame' = "none"
    /\ timers' = t
    /\ queue' = q
    /\ UNCHANGED <<curTxSignal, pauseUnitsRequested, failed>>

\* A dequeued packet, in state s: deleted after stopTime and when there is no
\* connection, an error unless the transmitter is idle, else transmitted.
handleUpperPacket(s, q, t) ==
    IF stopped \/ ~connected THEN BecomeIdle(q, t)
    ELSE IF s = "TX_IDLE" /\ currentTxFrame = "none"
         THEN startFrameTransmission("data", q, t)
         ELSE /\ failed' = TRUE
              /\ UNCHANGED txVars

\* The transmitter has become idle: it takes the next packet, if any.
DequeueOrIdle_Unchecked(q, t) == handleUpperPacket("TX_IDLE", q - 1, t)

DequeueOrIdle(q, t) ==
    IF q = 0 THEN BecomeIdle(q, t) ELSE handleUpperPacket("TX_IDLE", q - 1, t)

scheduleEndIFGPeriod(t) ==
    /\ transmitState' = "WAIT_IFG"
    /\ timers' = t \cup {"endIfg"}

scheduleEndPausePeriod_Unscheduled(t) == transmitState' = "PAUSE" /\ timers' = t

scheduleEndPausePeriod(t) ==
    /\ transmitState' = "PAUSE"
    /\ timers' = t \cup {"endPause"}

\* processConnectDisconnect when the MAC is no longer connected: the timers
\* are cancelled, the frame is dropped and the queue drained.
processConnectDisconnect_KeepTimers == BecomeIdle(0, timers)

processConnectDisconnect == BecomeIdle(0, {})

-----------------------------------------------------------------------------
Init ==
    /\ transmitState = "TX_IDLE"
    /\ currentTxFrame = "none"
    /\ curTxSignal = FALSE
    /\ pauseUnitsRequested = 0
    /\ timers = {}
    /\ queue = 0
    /\ connected = TRUE
    /\ operationalState = "OPERATING"
    /\ stopped = FALSE
    /\ failed = FALSE
    /\ wentDown = FALSE

IsUp == operationalState \in {"OPERATING", "STOPPING"}

\* The message of a timer.  One that is delivered to a module that is down is
\* an error (OperationalMixin::handleMessageWhenDown).
Fires(timer) == timer \in timers /\ ~failed

ErrorIf(condition, A) == IF condition THEN failed' = TRUE /\ UNCHANGED txVars ELSE A

\* A packet is pushed into the port's queue, which tells the MAC.
handleCanPullPacketChanged_AnyState ==
    IF currentTxFrame = "none" THEN handleUpperPacket(transmitState, queue, timers)
    ELSE queue' = queue + 1 /\ UNCHANGED <<transmitState, currentTxFrame, curTxSignal, pauseUnitsRequested, timers, failed>>

handleCanPullPacketChanged ==
    IF currentTxFrame = "none" /\ transmitState = "TX_IDLE"
    THEN handleUpperPacket(transmitState, queue, timers)
    ELSE queue' = queue + 1 /\ UNCHANGED <<transmitState, currentTxFrame, curTxSignal, pauseUnitsRequested, timers, failed>>

\* The layers above go down with the MAC, so that nothing is pushed then.
Push ==
    /\ ~failed /\ IsUp /\ queue < MaxQueue
    /\ handleCanPullPacketChanged
    /\ UNCHANGED upVars

handleEndIFGPeriod ==
    /\ Fires("endIfg")
    /\ ErrorIf(~IsUp \/ currentTxFrame # "none" \/ transmitState # "WAIT_IFG",
               DequeueOrIdle(queue, timers \ {"endIfg"}))
    /\ UNCHANGED upVars

handleEndPausePeriod_NoDequeue ==
    /\ Fires("endPause")
    /\ ErrorIf(~IsUp \/ currentTxFrame # "none" \/ transmitState # "PAUSE",
               BecomeIdle(queue, timers \ {"endPause"}))
    /\ UNCHANGED upVars

handleEndPausePeriod ==
    /\ Fires("endPause")
    /\ ErrorIf(~IsUp \/ currentTxFrame # "none" \/ transmitState # "PAUSE",
               DequeueOrIdle(queue, timers \ {"endPause"}))
    /\ UNCHANGED upVars

\* The frame is on the wire.  A pause that came meanwhile begins, else the
\* gap.
TxEnded ==
    /\ currentTxFrame' = "none"
    /\ curTxSignal' = FALSE
    /\ pauseUnitsRequested' = 0
    /\ IF pauseUnitsRequested > 0
       THEN scheduleEndPausePeriod(timers \ {"endTx"})
       ELSE scheduleEndIFGPeriod(timers \ {"endTx"})
    /\ UNCHANGED <<queue, failed>>

\* processAtHandleMessageFinished, after the frame of a MAC that is stopping:
\* it disconnects and is down.  The queue it asks whether it is empty is the
\* SwitchMacQueue, which holds packets only while it passes them on, so the
\* rest of the port's backlog is dropped with processConnectDisconnect.
Stops ==
    /\ transmitState' = "TX_IDLE"
    /\ currentTxFrame' = "none"
    /\ curTxSignal' = FALSE
    /\ pauseUnitsRequested' = 0
    /\ timers' = {}
    /\ queue' = 0
    /\ operationalState' = "NOT_OPERATING"
    /\ connected' = FALSE
    /\ UNCHANGED <<stopped, failed, wentDown>>

handleEndTxPeriod ==
    /\ Fires("endTx")
    /\ IF IsUp /\ transmitState = "TRANSMITTING" /\ currentTxFrame # "none" /\ curTxSignal
       THEN IF operationalState = "STOPPING" THEN Stops ELSE TxEnded /\ UNCHANGED upVars
       ELSE failed' = TRUE /\ UNCHANGED <<txVars, upVars>>

-----------------------------------------------------------------------------
(***************************************************************************)
(* Frames of the peer, deleted when the MAC is down.  Data frames are      *)
(* passed up and PFC frames to the scheduler: the transmitter is not       *)
(* concerned.                                                              *)
(***************************************************************************)
processPauseCommand(units) ==
    \/ /\ transmitState = "TX_IDLE"
       /\ IF units > 0 THEN scheduleEndPausePeriod(timers) ELSE UNCHANGED <<transmitState, timers>>
       /\ UNCHANGED pauseUnitsRequested
    \/ /\ transmitState = "PAUSE"
       /\ scheduleEndPausePeriod(timers \ {"endPause"})
       /\ UNCHANGED pauseUnitsRequested
    \/ /\ transmitState \in {"TRANSMITTING", "WAIT_IFG"}
       /\ pauseUnitsRequested' = units
       /\ UNCHANGED <<transmitState, timers>>

ReceivePause(units) ==
    /\ ~failed /\ IsUp /\ connected
    /\ processPauseCommand(units)
    /\ UNCHANGED <<currentTxFrame, curTxSignal, queue, upVars, failed>>

\* The last packet of a TIMELY segment is acknowledged past the queue, by an
\* idle transmitter; a busy one acknowledges nothing.
ReceiveSegmentEnd ==
    /\ ~failed /\ IsUp /\ connected /\ TIMELY
    /\ currentTxFrame = "none" /\ transmitState = "TX_IDLE"
    /\ startFrameTransmission("ack", queue, timers)
    /\ UNCHANGED upVars

\* A queue of the node signals this interface: an idle transmitter sends the
\* PFC frame past the queue, a busy one drops the command.  Neither connected
\* nor the operational state is looked at.
processpfccommand ==
    /\ ~failed /\ PfcCommands
    /\ currentTxFrame = "none" /\ transmitState = "TX_IDLE"
    /\ startFrameTransmission("pfc", queue, timers)
    /\ UNCHANGED upVars

-----------------------------------------------------------------------------
(***************************************************************************)
(* Lifecycle.                                                              *)
(***************************************************************************)
\* With a frame in hand the MAC goes on until it is sent, else it is down at
\* once.  (The timeout of the operation is longer than any frame.)
handleStopOperation ==
    /\ ~failed /\ "stop" \in Lifecycle /\ operationalState = "OPERATING"
    /\ operationalState' = IF currentTxFrame # "none" THEN "STOPPING" ELSE "NOT_OPERATING"
    /\ wentDown' = TRUE
    /\ UNCHANGED <<txVars, connected, stopped, failed>>

handleCrashOperation ==
    /\ ~failed /\ "crash" \in Lifecycle /\ operationalState = "OPERATING"
    /\ operationalState' = "NOT_OPERATING"
    /\ connected' = FALSE
    /\ wentDown' = TRUE
    /\ processConnectDisconnect
    /\ UNCHANGED stopped

handleStartOperation ==
    /\ ~failed /\ operationalState = "NOT_OPERATING"
    /\ operationalState' = "OPERATING"
    /\ connected' = TRUE
    /\ UNCHANGED <<txVars, stopped, failed, wentDown>>

\* The clock passes stopTime.
StopTimePasses ==
    /\ ~failed /\ ~stopped
    /\ stopped' = TRUE
    /\ UNCHANGED <<txVars, connected, operationalState, failed, wentDown>>

Next ==
    \/ Push
    \/ handleEndTxPeriod \/ handleEndIFGPeriod \/ handleEndPausePeriod
    \/ \E units \in PauseUnits : ReceivePause(units)
    \/ ReceiveSegmentEnd \/ processpfccommand
    \/ handleStopOperation \/ handleCrashOperation \/ handleStartOperation
    \/ StopTimePasses

Spec == Init /\ [][Next]_vars

\* The simulator delivers the timers that are scheduled.  For endPause this
\* says that the peer does not prolong a pause for ever.
Fairness ==
    /\ WF_vars(handleEndTxPeriod)
    /\ WF_vars(handleEndIFGPeriod)
    /\ WF_vars(handleEndPausePeriod)

FairSpec == Spec /\ Fairness

-----------------------------------------------------------------------------
(***************************************************************************)
(* Properties.                                                             *)
(***************************************************************************)
TypeOK ==
    /\ transmitState \in {"TX_IDLE", "TRANSMITTING", "WAIT_IFG", "PAUSE"}
    /\ currentTxFrame \in {"none", "data", "ack", "pfc"}
    /\ curTxSignal \in BOOLEAN
    /\ pauseUnitsRequested \in {0} \cup PauseUnits
    /\ timers \subseteq {"endTx", "endIfg", "endPause"}
    /\ queue \in 0..MaxQueue
    /\ connected \in BOOLEAN
    /\ operationalState \in {"OPERATING", "STOPPING", "NOT_OPERATING"}
    /\ stopped \in BOOLEAN
    /\ failed \in BOOLEAN
    /\ wentDown \in BOOLEAN

\* Whatever drives the transmitter, and through stops, crashes and restarts,
\* the timer that is scheduled is the one whose handler expects the present
\* state, and there is a frame exactly while one is transmitted.
TimersMatchState ==
    /\ timers = CASE transmitState = "TX_IDLE"      -> {}
                  [] transmitState = "TRANSMITTING" -> {"endTx"}
                  [] transmitState = "WAIT_IFG"     -> {"endIfg"}
                  [] transmitState = "PAUSE"        -> {"endPause"}
    /\ currentTxFrame # "none" <=> transmitState = "TRANSMITTING"
    /\ transmitState = "TRANSMITTING" => curTxSignal
    /\ operationalState = "STOPPING" => transmitState = "TRANSMITTING"

\* No ASSERT or cRuntimeError of the MAC ends the simulation before the node
\* is stopped or crashed: no callback finds the transmitter in a state that
\* the handler it calls does not allow.
NoCheckFails == failed => wentDown

\* The transmitter does not idle on a backlog: what bypasses the queue (PFC
\* frames, acknowledgements, pauses) leaves a timer that comes back to it.
IdleOnlyWhenEmpty == transmitState = "TX_IDLE" /\ ~stopped => queue = 0

\* A packet that waits is followed by a frame on the wire, though pauses, PFC
\* frames and acknowledgements may come before it, as long as the node is up.
BacklogIsServed ==
    queue > 0 ~> (currentTxFrame = "data" \/ stopped \/ wentDown)

\* HiEthernetMac.cc: a PAUSE that finds the transmitter busy waits "until it
\* finishes with current frame (endTx) and then it'll go to PAUSE state": no
\* frame starts while a pause is stored.
NoFrameWhilePauseStored ==
    [][transmitState # "TRANSMITTING" /\ transmitState' = "TRANSMITTING"
       => pauseUnitsRequested = 0]_vars
=============================================================================

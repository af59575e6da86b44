------------------------ MODULE HiEthernetMac_proofs ------------------------
(***************************************************************************)
(* Proofs about the MAC, for every pause time, queue bound and lifecycle.  *)
(*                                                                         *)
(* TypeOK is inductive by itself.  The other invariants need TimersMatch-  *)
(* State: only the timer of the present state can fire, so each handler    *)
(* finds the state that it expects.                                        *)
(***************************************************************************)
EXTENDS HiEthernetMac, TLAPS

THEOREM InitType == Init => TypeOK
<1>1. 0 \in 0..MaxQueue
  BY MacAssumption DEF MacAssumption
<1> QED
  BY <1>1 DEF Init, TypeOK

\* Every step keeps the types: a packet is only dequeued from a queue that
\* has one.
THEOREM NextType == TypeOK /\ [Next]_vars => TypeOK'
<1> SUFFICES ASSUME TypeOK, [Next]_vars
             PROVE  TypeOK'
  OBVIOUS
<1> USE MacAssumption DEF MacAssumption, TypeOK
<1>0. ASSUME NEW s, NEW q \in 0..MaxQueue, NEW t \in SUBSET {"endTx", "endIfg", "endPause"},
             handleUpperPacket(s, q, t), UNCHANGED upVars
      PROVE  TypeOK'
  <2>1. CASE stopped \/ ~connected
    BY <1>0, <2>1 DEF handleUpperPacket, BecomeIdle, upVars
  <2>2. CASE ~(stopped \/ ~connected) /\ s = "TX_IDLE" /\ currentTxFrame = "none"
    BY <1>0, <2>2 DEF handleUpperPacket, startFrameTransmission, upVars
  <2>3. CASE ~(stopped \/ ~connected) /\ ~(s = "TX_IDLE" /\ currentTxFrame = "none")
    BY <1>0, <2>3 DEF handleUpperPacket, txVars, upVars
  <2> QED  BY <2>1, <2>2, <2>3
<1>1. ASSUME NEW t \in SUBSET {"endTx", "endIfg", "endPause"},
             DequeueOrIdle(queue, t), UNCHANGED upVars
      PROVE  TypeOK'
  <2>1. CASE queue = 0
    BY <1>1, <2>1 DEF DequeueOrIdle, BecomeIdle, upVars
  <2>2. CASE queue # 0
    <3>1. queue - 1 \in 0..MaxQueue /\ handleUpperPacket("TX_IDLE", queue - 1, t)
      BY <1>1, <2>2 DEF DequeueOrIdle
    <3> QED  BY <1>0, <1>1, <3>1
  <2> QED  BY <2>1, <2>2
<1>2. CASE Push
  <2>1. CASE currentTxFrame = "none" /\ transmitState = "TX_IDLE"
    BY <1>0, <1>2, <2>1 DEF Push, handleCanPullPacketChanged
  <2>2. CASE ~(currentTxFrame = "none" /\ transmitState = "TX_IDLE")
    <3>1. queue + 1 \in 0..MaxQueue
      BY <1>2 DEF Push
    <3>2. /\ queue' = queue + 1
          /\ UNCHANGED <<transmitState, currentTxFrame, curTxSignal, pauseUnitsRequested, timers, failed>>
          /\ UNCHANGED upVars
      BY <1>2, <2>2 DEF Push, handleCanPullPacketChanged
    <3> QED  BY <3>1, <3>2 DEF upVars
  <2> QED  BY <2>1, <2>2
<1>3. CASE handleEndTxPeriod
  <2>1. 0 \in 0..MaxQueue
    OBVIOUS
  <2>2. CASE Stops
    BY <2>1, <2>2 DEF Stops
  <2>3. CASE TxEnded /\ UNCHANGED upVars
    BY <2>3 DEF TxEnded, scheduleEndPausePeriod, scheduleEndIFGPeriod, upVars
  <2>4. CASE failed' = TRUE /\ UNCHANGED <<txVars, upVars>>
    BY <2>4 DEF txVars, upVars
  <2> QED  BY <1>3, <2>2, <2>3, <2>4 DEF handleEndTxPeriod
<1>4. CASE handleEndIFGPeriod
  <2>1. CASE DequeueOrIdle(queue, timers \ {"endIfg"})
    BY <1>1, <1>4, <2>1 DEF handleEndIFGPeriod
  <2>2. CASE failed' = TRUE /\ UNCHANGED txVars
    BY <1>4, <2>2 DEF handleEndIFGPeriod, txVars, upVars
  <2> QED  BY <1>4, <2>1, <2>2 DEF handleEndIFGPeriod, ErrorIf
<1>5. CASE handleEndPausePeriod
  <2>1. CASE DequeueOrIdle(queue, timers \ {"endPause"})
    BY <1>1, <1>5, <2>1 DEF handleEndPausePeriod
  <2>2. CASE failed' = TRUE /\ UNCHANGED txVars
    BY <1>5, <2>2 DEF handleEndPausePeriod, txVars, upVars
  <2> QED  BY <1>5, <2>1, <2>2 DEF handleEndPausePeriod, ErrorIf
<1>6. CASE \E units \in PauseUnits : ReceivePause(units)
  BY <1>6 DEF ReceivePause, processPauseCommand, scheduleEndPausePeriod, upVars
<1>7. CASE ReceiveSegmentEnd \/ processpfccommand
  BY <1>7 DEF ReceiveSegmentEnd, processpfccommand, startFrameTransmission, upVars
<1>8. CASE handleStopOperation \/ handleStartOperation \/ StopTimePasses
  <2>1. CASE handleStopOperation
    BY <2>1 DEF handleStopOperation, txVars
  <2>2. CASE handleStartOperation
    BY <2>2 DEF handleStartOperation, txVars
  <2>3. CASE StopTimePasses
    BY <2>3 DEF StopTimePasses, txVars
  <2> QED  BY <1>8, <2>1, <2>2, <2>3
<1>9. CASE handleCrashOperation
  <2>1. 0 \in 0..MaxQueue
    OBVIOUS
  <2> QED
    BY <1>9, <2>1 DEF handleCrashOperation, processConnectDisconnect, BecomeIdle
<1>10. CASE UNCHANGED vars
  BY <1>10 DEF vars, txVars, upVars
<1> HIDE DEF TypeOK
<1> QED
  BY <1>2, <1>3, <1>4, <1>5, <1>6, <1>7, <1>8, <1>9, <1>10 DEF Next

\* The MAC keeps its types, for every pause time and every bound.
THEOREM TypeCorrect == Spec => []TypeOK
  BY InitType, NextType, PTL DEF Spec

-----------------------------------------------------------------------------
\* The inductive invariant: timers, state and frame agree; a MAC that is up is
\* connected; and an idle one has nothing to send.
MacInv == TypeOK /\ TimersMatchState /\ IdleOnlyWhenEmpty /\ (IsUp => connected)

THEOREM InitInv == Init => MacInv
  BY InitType DEF Init, MacInv, TimersMatchState, IdleOnlyWhenEmpty, IsUp

\* A dequeued packet is transmitted, or deleted with the transmitter idle
\* after stopTime only.
LEMMA UpperPacketKeepsInv ==
  ASSUME NEW q, MacInv, TypeOK', IsUp, UNCHANGED upVars, currentTxFrame = "none",
         handleUpperPacket("TX_IDLE", q, {}),
         operationalState # "STOPPING"
  PROVE  MacInv'
  <1>1. connected
    BY DEF MacInv
  <1>2. CASE stopped
    BY <1>2 DEF MacInv, TimersMatchState, IdleOnlyWhenEmpty, IsUp, handleUpperPacket, BecomeIdle, upVars
  <1>3. CASE ~stopped
    BY <1>1, <1>3 DEF MacInv, TimersMatchState, IdleOnlyWhenEmpty, IsUp, handleUpperPacket,
                      startFrameTransmission, upVars
  <1> QED  BY <1>2, <1>3

\* Every step keeps timers, state, frame and queue in agreement.
THEOREM NextInv == MacInv /\ [Next]_vars => MacInv'
<1> SUFFICES ASSUME MacInv, [Next]_vars
             PROVE  MacInv'
  OBVIOUS
<1>0. TypeOK /\ TypeOK'
  BY NextType DEF MacInv
<1>1. CASE Push
  <2>1. CASE transmitState = "TX_IDLE" /\ ~stopped
    <3>1. currentTxFrame = "none" /\ timers = {} /\ operationalState # "STOPPING" /\ connected
      BY <1>1, <2>1 DEF MacInv, TimersMatchState, Push
    <3> QED
      BY <1>0, <1>1, <2>1, <3>1, UpperPacketKeepsInv DEF Push, handleCanPullPacketChanged
  <2>2. CASE transmitState = "TX_IDLE" /\ stopped
    <3>1. currentTxFrame = "none" /\ timers = {} /\ operationalState # "STOPPING"
      BY <1>1, <2>2 DEF MacInv, TimersMatchState, Push
    <3> QED
      BY <1>0, <1>1, <2>2, <3>1, UpperPacketKeepsInv DEF Push, handleCanPullPacketChanged
  <2>3. CASE transmitState # "TX_IDLE"
    BY <1>0, <1>1, <2>3 DEF Push, handleCanPullPacketChanged, MacInv, TimersMatchState,
                            IdleOnlyWhenEmpty, IsUp, upVars
  <2> QED  BY <2>1, <2>2, <2>3
<1>2. CASE handleEndTxPeriod
  <2>1. transmitState = "TRANSMITTING" /\ timers = {"endTx"}
    BY <1>0, <1>2 DEF handleEndTxPeriod, Fires, MacInv, TimersMatchState, TypeOK
  <2> QED
    BY <1>0, <1>2, <2>1 DEF handleEndTxPeriod, Stops, TxEnded, scheduleEndPausePeriod,
           scheduleEndIFGPeriod, MacInv, TimersMatchState, IdleOnlyWhenEmpty, IsUp, txVars, upVars
<1>3. ASSUME DequeueOrIdle(queue, {}), currentTxFrame = "none", IsUp, UNCHANGED upVars,
             operationalState # "STOPPING"
      PROVE  MacInv'
  <2>1. CASE queue = 0
    BY <1>0, <1>3, <2>1 DEF DequeueOrIdle, BecomeIdle, MacInv, TimersMatchState, IdleOnlyWhenEmpty,
                            IsUp, upVars
  <2>2. CASE queue # 0
    BY <1>0, <1>3, <2>2, UpperPacketKeepsInv DEF DequeueOrIdle
  <2> QED  BY <2>1, <2>2
<1>4. CASE handleEndIFGPeriod
  <2>1. transmitState = "WAIT_IFG" /\ timers = {"endIfg"} /\ currentTxFrame = "none"
        /\ operationalState # "STOPPING"
    BY <1>0, <1>4 DEF handleEndIFGPeriod, Fires, MacInv, TimersMatchState, TypeOK
  <2>2. CASE IsUp
    <3>1. DequeueOrIdle(queue, {})
      BY <1>4, <2>1, <2>2 DEF handleEndIFGPeriod, ErrorIf
    <3> QED  BY <1>3, <1>4, <2>1, <2>2, <3>1 DEF handleEndIFGPeriod
  <2>3. CASE ~IsUp
    BY <1>0, <1>4, <2>1, <2>3 DEF handleEndIFGPeriod, ErrorIf, MacInv, TimersMatchState,
                                  IdleOnlyWhenEmpty, IsUp, txVars, upVars
  <2> QED  BY <2>2, <2>3
<1>5. CASE handleEndPausePeriod
  <2>1. transmitState = "PAUSE" /\ timers = {"endPause"} /\ currentTxFrame = "none"
        /\ operationalState # "STOPPING"
    BY <1>0, <1>5 DEF handleEndPausePeriod, Fires, MacInv, TimersMatchState, TypeOK
  <2>2. CASE IsUp
    <3>1. DequeueOrIdle(queue, {})
      BY <1>5, <2>1, <2>2 DEF handleEndPausePeriod, ErrorIf
    <3> QED  BY <1>3, <1>5, <2>1, <2>2, <3>1 DEF handleEndPausePeriod
  <2>3. CASE ~IsUp
    BY <1>0, <1>5, <2>1, <2>3 DEF handleEndPausePeriod, ErrorIf, MacInv, TimersMatchState,
                                  IdleOnlyWhenEmpty, IsUp, txVars, upVars
  <2> QED  BY <2>2, <2>3
<1>6. ASSUME NEW units \in PauseUnits, ReceivePause(units)
      PROVE  MacInv'
  BY <1>0, <1>6 DEF ReceivePause, processPauseCommand, scheduleEndPausePeriod, MacInv,
                    TimersMatchState, IdleOnlyWhenEmpty, IsUp, upVars
<1>7. CASE ReceiveSegmentEnd \/ processpfccommand
  BY <1>0, <1>7 DEF ReceiveSegmentEnd, processpfccommand, startFrameTransmission, MacInv,
                    TimersMatchState, IdleOnlyWhenEmpty, IsUp, upVars
<1>8. CASE handleStopOperation \/ handleStartOperation \/ StopTimePasses
  BY <1>0, <1>8 DEF handleStopOperation, handleStartOperation, StopTimePasses, MacInv,
                    TimersMatchState, IdleOnlyWhenEmpty, IsUp, txVars
<1>9. CASE handleCrashOperation
  BY <1>0, <1>9 DEF handleCrashOperation, processConnectDisconnect, BecomeIdle, MacInv,
                    TimersMatchState, IdleOnlyWhenEmpty, IsUp
<1>10. CASE UNCHANGED vars
  BY <1>0, <1>10 DEF vars, txVars, upVars, MacInv, TimersMatchState, IdleOnlyWhenEmpty, IsUp
<1> QED
  BY <1>1, <1>2, <1>4, <1>5, <1>6, <1>7, <1>8, <1>9, <1>10 DEF Next

\* Timers, state and frame agree through stops, crashes and restarts.
THEOREM TimersCorrect == Spec => []TimersMatchState
<1>1. MacInv => TimersMatchState
  BY DEF MacInv
<1> QED  BY InitInv, NextInv, <1>1, PTL DEF Spec

\* The transmitter does not idle on a backlog.
THEOREM WorkConserving == Spec => []IdleOnlyWhenEmpty
<1>1. MacInv => IdleOnlyWhenEmpty
  BY DEF MacInv
<1> QED  BY InitInv, NextInv, <1>1, PTL DEF Spec

-----------------------------------------------------------------------------
\* Until the node is stopped or crashed, nothing leaves a stale signal behind.
NoFailureInv ==
    MacInv /\ (~wentDown => /\ operationalState = "OPERATING"
                            /\ currentTxFrame = "none" => ~curTxSignal
                            /\ ~failed)

\* No step of a MAC that was neither stopped nor crashed fails a check.
THEOREM NextNoFailure == NoFailureInv /\ [Next]_vars => NoFailureInv'
<1> SUFFICES ASSUME NoFailureInv, [Next]_vars, ~wentDown'
             PROVE  /\ operationalState' = "OPERATING"
                    /\ currentTxFrame' = "none" => ~curTxSignal'
                    /\ ~failed'
  BY NextInv DEF NoFailureInv
<1>a. ~wentDown
  <2>1. TypeOK
    BY DEF NoFailureInv, MacInv
  <2> QED
    BY <2>1 DEF Next, Push, handleEndTxPeriod, Stops, handleEndIFGPeriod, handleEndPausePeriod, ReceivePause,
           ReceiveSegmentEnd, processpfccommand, handleStopOperation, handleCrashOperation,
           handleStartOperation, StopTimePasses, vars, upVars
<1>0. /\ MacInv /\ TypeOK /\ TimersMatchState /\ IsUp /\ operationalState = "OPERATING" /\ ~failed
      /\ currentTxFrame = "none" => ~curTxSignal
  BY <1>a DEF NoFailureInv, MacInv, IsUp
<1> USE <1>0
<1>1. CASE Push
  BY <1>1 DEF Push, handleCanPullPacketChanged, handleUpperPacket, startFrameTransmission,
              BecomeIdle, TimersMatchState, TypeOK, upVars, txVars
<1>2. CASE handleEndTxPeriod
  <2>1. transmitState = "TRANSMITTING" /\ currentTxFrame # "none" /\ curTxSignal
    BY <1>2 DEF handleEndTxPeriod, Fires, TimersMatchState, TypeOK
  <2> QED
    BY <1>2, <2>1 DEF handleEndTxPeriod, TxEnded, upVars
<1>3. ASSUME DequeueOrIdle(queue, {}), currentTxFrame = "none", UNCHANGED upVars
      PROVE  /\ operationalState' = "OPERATING"
             /\ currentTxFrame' = "none" => ~curTxSignal'
             /\ ~failed'
  BY <1>3 DEF DequeueOrIdle, handleUpperPacket, startFrameTransmission, BecomeIdle, upVars
<1>4. CASE handleEndIFGPeriod
  <2>1. transmitState = "WAIT_IFG" /\ timers = {"endIfg"} /\ currentTxFrame = "none"
    BY <1>4 DEF handleEndIFGPeriod, Fires, TimersMatchState, TypeOK
  <2>2. DequeueOrIdle(queue, {})
    BY <1>4, <2>1 DEF handleEndIFGPeriod, ErrorIf
  <2> QED  BY <1>3, <1>4, <2>1, <2>2 DEF handleEndIFGPeriod
<1>5. CASE handleEndPausePeriod
  <2>1. transmitState = "PAUSE" /\ timers = {"endPause"} /\ currentTxFrame = "none"
    BY <1>5 DEF handleEndPausePeriod, Fires, TimersMatchState, TypeOK
  <2>2. DequeueOrIdle(queue, {})
    BY <1>5, <2>1 DEF handleEndPausePeriod, ErrorIf
  <2> QED  BY <1>3, <1>5, <2>1, <2>2 DEF handleEndPausePeriod
<1>6. ASSUME NEW units \in PauseUnits, ReceivePause(units)
      PROVE  /\ operationalState' = "OPERATING"
             /\ currentTxFrame' = "none" => ~curTxSignal'
             /\ ~failed'
  BY <1>6 DEF ReceivePause, upVars
<1>7. CASE ReceiveSegmentEnd \/ processpfccommand
  BY <1>7 DEF ReceiveSegmentEnd, processpfccommand, startFrameTransmission, TimersMatchState, upVars
<1>8. CASE handleStopOperation \/ handleStartOperation \/ StopTimePasses \/ handleCrashOperation
  BY <1>8 DEF handleStopOperation, handleStartOperation, StopTimePasses, handleCrashOperation, txVars
<1>9. CASE UNCHANGED vars
  BY <1>9 DEF vars, txVars, upVars
<1> QED
  BY <1>1, <1>2, <1>4, <1>5, <1>6, <1>7, <1>8, <1>9 DEF Next

\* No ASSERT and no cRuntimeError ends the simulation before the node is
\* stopped or crashed.
THEOREM NeverFails == Spec => []NoCheckFails
<1>1. Init => NoFailureInv
  BY InitInv DEF Init, NoFailureInv
<1>2. NoFailureInv => NoCheckFails
  BY DEF NoFailureInv, NoCheckFails
<1> QED  BY <1>1, NextNoFailure, <1>2, PTL DEF Spec
=============================================================================

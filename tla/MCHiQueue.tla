----------------------------- MODULE MCHiQueue -----------------------------
(***************************************************************************)
(* HiQueue for TLC, with the inputs of HiQueue.ned: the best-effort queue, *)
(* the credit queue and the HiPriorityScheduler.  One run has its weights  *)
(* and credits of three lengths, the other weights that differ, of which   *)
(* that of the credit queue is 0.                                          *)
(***************************************************************************)
EXTENDS HiQueue

WeightsOfNed == <<1, 1, 1>>
WeightsOfTurns == <<3, 0, 2>>

\* The value of a capacity that is not checked.
Unlimited == -1
=============================================================================

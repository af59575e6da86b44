------------------------------ MODULE MCXPASS ------------------------------
(***************************************************************************)
(* Small networks for model checking XPASS.                                *)
(***************************************************************************)
EXTENDS XPASS

CONSTANTS r1, r2

MCReceivers == {r1, r2}
=============================================================================

-------------------------- MODULE MCHiEthernetMac --------------------------
(***************************************************************************)
(* Values for model checking HiEthernetMac.                                *)
(***************************************************************************)
EXTENDS HiEthernetMac

\* A pause, one of no length, and one of another length.
MCPauseUnits == {0, 1, 2}

MCNoLifecycle == {}
MCStopAndCrash == {"stop", "crash"}
=============================================================================

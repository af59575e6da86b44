----------------------------- MODULE MCPfcLink -----------------------------
(***************************************************************************)
(* Small networks for model checking PfcLink.                              *)
(***************************************************************************)
EXTENDS PfcLink

CONSTANTS i1, i2

MCOneIface == {i1}

MCTwoIfaces == {i1, i2}

\* Both networks have the headroom that losslessness takes.
ASSUME MCHeadroom == HeadroomSuffices
=============================================================================

------------------------------ MODULE MCDCQCN ------------------------------
(***************************************************************************)
(* Small flows for model checking DCQCN.                                   *)
(***************************************************************************)
EXTENDS DCQCN

\* a flow of one full packet, and one whose first packet fills the byte counter
MCLengths == {2, 4}

\* a flow long enough for the byte counter to expire
MCLong == {8}
=============================================================================

------------------------------- MODULE MCBFC -------------------------------
(***************************************************************************)
(* A small network for model checking BFC: three flows come through one    *)
(* upstream port, by its queues 0 and 1, and two queues of the egress port *)
(* share a buffer, as Num_7 and Num_8 do.                                  *)
(***************************************************************************)
EXTENDS BFC

CONSTANTS f1, f2, f3, i1

MCFlows == {f1, f2, f3}
MCIfaces == {i1}
MCIfaceOf == [f \in MCFlows |-> i1]
MCHomeOf == [f \in MCFlows |-> IF f = f2 THEN 1 ELSE 0]
MCnumb == [q \in Queues |-> 0]
=============================================================================

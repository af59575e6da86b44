--------------------------- MODULE MCREDPFCQueue ---------------------------
(***************************************************************************)
(* Small switches for model checking REDPFCQueue.                          *)
(***************************************************************************)
EXTENDS REDPFCQueue

CONSTANTS i1, i2

MCIfaces == {i1, i2}

\* two queues of one port
MCOnePort == [q \in Queues |-> 1]

\* short and long packets of two ingress interfaces, for the accounting, with
\* the kinds of ECN code that marking tells apart
MCMixedLengths ==
    {[len |-> 1, iface |-> i1, ecn |-> "ECT", udata |-> FALSE],
     [len |-> 2, iface |-> i2, ecn |-> "NOT_ECT", udata |-> FALSE],
     [len |-> 2, iface |-> i1, ecn |-> "CE", udata |-> TRUE]}
=============================================================================

---------------------------- MODULE WrrScheduler ----------------------------
(***************************************************************************)
(* The scheduler of an egress port (HiNA/Ethernet/HiQueue/HiScheduler/     *)
(* WrrScheduler): weighted round robin between its providers.  This is the *)
(* choice it makes; HiQueue.tla has the queues it chooses from.            *)
(***************************************************************************)
EXTENDS Integers

CONSTANTS
    NumProviders,   \* providers.size()
    Weights         \* [Providers -> weights[i]]

Providers == 1..NumProviders

ASSUME WeightsAssumption ==
    /\ NumProviders \in Nat
    /\ Weights \in [Providers -> Nat]

\* The loops over the providers take the first that qualifies.
First(S) == CHOOSE i \in S : \A j \in S : i <= j

\* schedulePacket, for buckets b when canPullSomePacket of the providers in
\* ready is true: the index it returns and the buckets it leaves.
schedulePacket_RefillOne(b, ready) ==
    LET full     == {i \in ready : b[i] > 0}
        weighted == {i \in ready : Weights[i] > 0}
        i        == First(IF full # {} THEN full ELSE IF weighted # {} THEN weighted ELSE ready)
    IN  IF full # {}     THEN [index |-> i, buckets |-> [b EXCEPT ![i] = b[i] - 1]]
        ELSE IF weighted # {} THEN [index |-> i, buckets |-> [b EXCEPT ![i] = Weights[i] - 1]]
        ELSE [index |-> i, buckets |-> b]

schedulePacket_NoRefill(b, ready) ==
    LET full     == {i \in ready : b[i] > 0}
        weighted == {i \in ready : Weights[i] > 0}
        i        == First(IF full # {} THEN full ELSE IF weighted # {} THEN weighted ELSE ready)
    IN  IF weighted # {} THEN [index |-> i, buckets |-> [b EXCEPT ![i] = b[i] - 1]]
        ELSE [index |-> i, buckets |-> b]

schedulePacket(b, ready) ==
    LET full     == {i \in ready : b[i] > 0}
        weighted == {i \in ready : Weights[i] > 0}
        i        == First(IF full # {} THEN full ELSE IF weighted # {} THEN weighted ELSE ready)
    IN  IF full # {}          THEN [index |-> i, buckets |-> [b EXCEPT ![i] = b[i] - 1]]
        ELSE IF weighted # {} THEN [index |-> i, buckets |-> [Weights EXCEPT ![i] = Weights[i] - 1]]
        ELSE [index |-> i, buckets |-> b]
=============================================================================

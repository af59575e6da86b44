----------------------------- MODULE PrefixSum -----------------------------
(***************************************************************************)
(* The sum of the first n values of an integer function.  cPacketQueue     *)
(* keeps the bit length of its packets as such a sum, and the memory that  *)
(* a switch has handed out is a sum over its queues.                       *)
(*                                                                         *)
(* The sums are a recursive function on 0..n, not a RECURSIVE operator, so *)
(* that the provers can be given their defining equation (PrefixSum_proofs)*)
(***************************************************************************)
EXTENDS Integers, Sequences

\* f[1] + ... + f[i], for every i in 0..n
PartialSums(f, n) ==
    LET sum[i \in 0..n] == IF i = 0 THEN 0 ELSE sum[i - 1] + f[i]
    IN  sum

\* f[1] + ... + f[n]
SumTo(f, n) == PartialSums(f, n)[n]

\* Total length of a sequence of packets (cPacketQueue::getBitLength).
Length(s) == SumTo([i \in 1..Len(s) |-> s[i].len], Len(s))
=============================================================================

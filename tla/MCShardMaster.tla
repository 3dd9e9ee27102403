--------------------------- MODULE MCShardMaster ---------------------------
(* Instances of ShardMaster for TLC. *)
EXTENDS ShardMaster, TLC

\* A proper range, one that reaches past the last chunk, and an inverted one.
MCMoveShard ==
  {[lower |-> 1, upper |-> 2], [lower |-> 2, upper |-> UIntMax],
   [lower |-> 3, upper |-> 1]}

MCSymmetry == Permutations(Thread) \cup Permutations(Server)
=============================================================================

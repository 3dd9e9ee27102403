------------------------------ MODULE MCClient ------------------------------
(* Instances for TLC of the shard master with a client beside it. *)
EXTENDS Client, TLC

\* A proper range, one that reaches past the last chunk, and an inverted one.
MCMoveShard ==
  {[lower |-> 1, upper |-> 2], [lower |-> 2, upper |-> UIntMax],
   [lower |-> 3, upper |-> 1]}

MCSymmetry == Permutations(Thread) \cup Permutations(Server)

\* The shards that Move and Leave find in the configuration.
Held == UNION {sm_config[i].shards : i \in DOMAIN sm_config}

\* subtract(a, b) returns the chunks of a that are not in b, and does not get to
\* the assert(false) at its end, for every shard a that a configuration can hold
\* and every shard b, inverted ones and those with a bound 0 or the largest uint
\* included.
SubtractIsDifference ==
  \A a \in Held, b \in Shard : SubtractExact(a, b) /\ ~ReachesAssert(a, b)
=============================================================================

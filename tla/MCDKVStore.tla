----------------------------- MODULE MCDKVStore -----------------------------
(* Instances of DKVStore for TLC. *)
EXTENDS DKVStore, TLC

CONSTANTS k1, k2

\* k1 changes hands when the second server joins.
MCChunkOf == [k \in Key |-> IF k = k1 THEN 1 ELSE 0]

MCMoveShard == {[lower |-> 1, upper |-> 1]}

MCSymmetry == Permutations(Server) \cup Permutations(Client)
=============================================================================

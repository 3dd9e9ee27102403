----------------------------- MODULE MCProducer -----------------------------
(* ProducerBase for TLC. *)
EXTENDS ProducerBase

\* A new sub-queue with a limit of two blocks, and one without limit whose
\* indices are about to wrap.
MCSetup == {[origin |-> 0, MAX_SUBQUEUE_SIZE |-> 4], [origin |-> 14, MAX_SUBQUEUE_SIZE |-> IndexMod]}

MCSymmetry == Permutations(Consumer) \cup Permutations(Block)
=============================================================================

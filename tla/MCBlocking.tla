----------------------------- MODULE MCBlocking -----------------------------
(* Queues of both classes for TLC. *)
EXTENDS BlockingQueue

CONSTANTS c1, c2

MCInitialOffset == [c \in Consumer |-> IF c = c1 THEN 0 ELSE 1]

\* A plain queue with a producer for each token, two that get their producers
\* while they are used, and a blocking queue.
MCSetup ==
  {[producers |-> 2, kinds |-> {"try_dequeue", "token", "bulk_token"}, maxItems |-> 2, blocking |-> FALSE],
   [producers |-> 0, kinds |-> {"non_interleaved", "bulk"}, maxItems |-> 2, blocking |-> FALSE],
   [producers |-> 0, kinds |-> {"token"}, maxItems |-> 2, blocking |-> FALSE],
   [producers |-> 1, kinds |-> {"try_dequeue", "token", "bulk", "bulk_token"}, maxItems |-> 3, blocking |-> TRUE]}
=============================================================================

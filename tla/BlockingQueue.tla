---------------------------- MODULE BlockingQueue ---------------------------
(***************************************************************************)
(* moodycamel::BlockingConcurrentQueue: ConcurrentQueue and a semaphore    *)
(* that counts its items.  An enqueue releases its permits after the       *)
(* items are in the queue; a dequeue first takes permits and then repeats  *)
(* the inner operation until it has an item for each.                      *)
(*                                                                         *)
(* The semaphore is the counting one that LightweightSemaphore implements. *)
(***************************************************************************)
EXTENDS ConcurrentQueue, FiniteSetsExt

VARIABLES
  permits,
  unsignalled                \* per producer: items enqueued whose permits are not released

blockingVars == <<vars, permits, unsignalled>>

BInit ==
  /\ Init
  /\ permits = 0
  /\ unsignalled = [p \in 1 .. MaxProducers |-> 0]

\* The first half of the enqueue operations.
Enqueue(p, n) ==
  /\ unsignalled[p] = 0
  /\ inner_enqueue_bulk(p, n)
  /\ unsignalled' = [unsignalled EXCEPT ![p] = n]
  /\ UNCHANGED permits

enqueue(p) == Enqueue(p, 1)
enqueue_bulk(p, n) == Enqueue(p, n)


\* Their second half, sema->signal.
signal(p) ==
  /\ unsignalled[p] > 0
  /\ permits' = permits + unsignalled[p]
  /\ unsignalled' = [unsignalled EXCEPT ![p] = 0]
  /\ UNCHANGED <<queueVars, globalExplicitConsumerOffset, ctoken, consumer>>

\* All dequeue operations: as many permits as there are up to max, at least one
\* (without one the try_ and the timed ones return, and the others wait), then
\* the inner operation.
Acquire(c, kind, max) ==
  /\ At(c, "idle") /\ permits > 0
  /\ LET n == Least(permits, max) IN permits' = permits - n /\ Start(c, kind, n)
  /\ UNCHANGED unsignalled

wait_dequeue(c) == Acquire(c, "try_dequeue", 1)
wait_dequeue_token(c) == Acquire(c, "token", 1)
wait_dequeue_bulk(c) == \E max \in 1 .. MaxBulk : Acquire(c, "bulk", max)
wait_dequeue_bulk_token(c) == \E max \in 1 .. MaxBulk : Acquire(c, "bulk_token", max)

\* Mutant: an inner operation that came back short is not repeated.
RepeatNot(c) ==
  /\ Return(c)
  /\ UNCHANGED <<permits, unsignalled>>

\* The loop around the inner operation: again, for what is missing.
Repeat(c) ==
  /\ At(c, "done")
  /\ IF consumer[c].want > 0 THEN Start(c, consumer[c].kind, consumer[c].want) ELSE Return(c)
  /\ UNCHANGED <<permits, unsignalled>>

ConsumerStep(c) ==
  /\ setup.blocking
  /\ (DequeueStep(c) /\ UNCHANGED <<permits, unsignalled>>) \/ Repeat(c)
  /\ Watch /\ UNCHANGED setup

BlockingNext ==
  \/ (CountProducer \/ PushProducer) /\ UNCHANGED <<permits, unsignalled>>
  \/ \E p \in DOMAIN items :
       enqueue(p) \/ signal(p) \/ \E n \in 2 .. MaxBulk : enqueue_bulk(p, n)
  \/ \E c \in Consumer :
       wait_dequeue(c) \/ wait_dequeue_token(c) \/ wait_dequeue_bulk(c) \/ wait_dequeue_bulk_token(c)

\* A queue of either class.
BNext ==
  \/ setup.blocking /\ BlockingNext /\ Watch /\ UNCHANGED setup
  \/ ~setup.blocking /\ Next /\ UNCHANGED <<permits, unsignalled>>
  \/ \E c \in Consumer : ConsumerStep(c)

BSpec == BInit /\ [][BNext]_blockingVars

\* A thread inside an operation goes on with it.
BFairSpec == BSpec /\ \A c \in Consumer : WF_blockingVars(ConsumerStep(c))

-----------------------------------------------------------------------------
(* Properties *)

\* Items a consumer has permits for and has not got.
Owed(c) ==
  CASE At(c, "idle") \/ At(c, "turn") -> 0
    [] At(c, "giveback") -> consumer[c].want - consumer[c].count
    [] OTHER -> consumer[c].want

Total(f) == MapThenSumSet(LAMBDA x : f[x], DOMAIN f)

\* Every item in the queue has exactly one permit: on its way to the semaphore,
\* in it, or in the hands of a consumer that is still looking for an item.  So
\* no consumer looks for an item that is not there, and none stays behind.
PermitsCountItems ==
  setup.blocking => Total(items) = permits + Total(unsignalled) + MapThenSumSet(Owed, Consumer)

=============================================================================

--------------------------- MODULE ConcurrentQueue --------------------------
(***************************************************************************)
(* The dequeue operations of moodycamel::ConcurrentQueue over all its      *)
(* sub-queues: by score, one after the other, and by consumer tokens that  *)
(* rotate.                                                                 *)
(*                                                                         *)
(* Of a sub-queue there is what SubQueue says of it: the number of its     *)
(* items, and the claims that came too late and are still to be given      *)
(* back, which hide as many items from others.  Producers are positions of *)
(* the list; next_prod leads to lower ones.                                *)
(***************************************************************************)
EXTENDS Integers, Sequences, FiniteSets

CONSTANTS
  Consumer,
  initialOffset,             \* the id of each consumer's token
  MaxProducers,
  Setup,                     \* producers at first, operations the consumers use, a bound on
                             \* the items ever enqueued, and whether the queue is the inner
                             \* one of a BlockingConcurrentQueue
  MaxBulk,                   \* items of one bulk operation, at most
  ScoreLimit,                \* non-empty producers that are scored, at most
  EXPLICIT_CONSUMER_CONSUMPTION_QUOTA_BEFORE_ROTATE,
  OffsetMod                  \* 2 ^ 32

Kind == {"try_dequeue", "non_interleaved", "token", "bulk", "bulk_token"}

ASSUME QueueAssumption ==
  /\ initialOffset \in [Consumer -> Nat]
  /\ Setup \subseteq [producers : 0 .. MaxProducers, kinds : SUBSET Kind, maxItems : Nat,
                      blocking : BOOLEAN]
  /\ {ScoreLimit, OffsetMod, EXPLICIT_CONSUMER_CONSUMPTION_QUOTA_BEFORE_ROTATE} \subseteq Nat \ {0}

VARIABLES
  setup,                     \* the member of Setup for this queue
  items,                     \* the sub-queues in the list: how many items
  late,                      \* of each: claims to be given back
  producerCount,
  globalExplicitConsumerOffset,
  enqueued,                  \* items ever enqueued
  ctoken,                    \* the consumer tokens
  consumer,                  \* progress of each consumer
  seenEmpty                  \* history: the sub-queues that showed no item during the operation

queueVars == <<items, late, producerCount, enqueued>>
vars == <<setup, queueVars, globalExplicitConsumerOffset, ctoken, consumer, seenEmpty>>

Least(m, n) == IF m < n THEN m ELSE n
Visible(p) == IF items[p] > late[p] THEN items[p] - late[p] ELSE 0

Idle == [at |-> "idle"]

Init ==
  /\ setup \in Setup
  /\ items = [p \in 1 .. setup.producers |-> 0]
  /\ late = [p \in 1 .. setup.producers |-> 0]
  /\ producerCount = setup.producers
  /\ globalExplicitConsumerOffset = 0
  /\ enqueued = 0
  /\ ctoken = [c \in Consumer |-> [lastKnownGlobalOffset |-> OffsetMod - 1, itemsConsumedFromCurrent |-> 0,
                                   currentProducer |-> 0, desiredProducer |-> 0]]
  /\ consumer = [c \in Consumer |-> Idle]
  /\ seenEmpty = [c \in Consumer |-> {}]

At(c, at) == consumer[c].at = at
Goto(c, r) == consumer' = [consumer EXCEPT ![c] = r]

\* The history goes on in every step: for a consumer inside an operation, what
\* it has seen and what is empty now.
Watch ==
  seenEmpty' = [c \in Consumer |->
    IF consumer'[c] = Idle THEN {}
    ELSE (IF At(c, "done") /\ consumer'[c] # consumer[c] THEN {} ELSE seenEmpty[c])
           \cup {p \in DOMAIN items' : items'[p] <= late'[p]}]

-----------------------------------------------------------------------------
(* Producers *)

\* add_producer: the count goes up before the list does.
CountProducer ==
  /\ producerCount = Len(items) /\ producerCount < MaxProducers
  /\ producerCount' = producerCount + 1
  /\ UNCHANGED <<items, late, enqueued, globalExplicitConsumerOffset, ctoken, consumer>>

PushProducer ==
  /\ producerCount > Len(items)
  /\ items' = Append(items, 0) /\ late' = Append(late, 0)
  /\ UNCHANGED <<producerCount, enqueued, globalExplicitConsumerOffset, ctoken, consumer>>

\* n items appear in the sub-queue of the calling thread or token.
inner_enqueue_bulk(p, n) ==
  /\ enqueued + n <= setup.maxItems
  /\ enqueued' = enqueued + n
  /\ items' = [items EXCEPT ![p] = @ + n]
  /\ UNCHANGED <<late, producerCount, globalExplicitConsumerOffset, ctoken, consumer>>

inner_enqueue(p) == inner_enqueue_bulk(p, 1)

-----------------------------------------------------------------------------
(* The operations begin *)

\* The caller learns how many of the items are still wanted.
Done(r, want) == [at |-> "done", want |-> want, max |-> r.max, kind |-> r.kind, known |-> r.known]

\* On to the sub-queue p.
TryAt(r, p) == [r EXCEPT !.at = "look", !.ptr = p]

\* One after the other from p on, without best.
Each(r, p) ==
  LET q == IF p > 0 /\ p = r.best THEN p - 1 ELSE p IN
    IF q = 0 THEN Done(r, r.want) ELSE [TryAt(r, q) EXCEPT !.mode = "each"]

Operation(kind, mode, max) ==
  [at |-> "look", kind |-> kind, mode |-> mode, max |-> max, want |-> max, known |-> Len(items),
   ptr |-> 0, best |-> 0, scored |-> 0, tail |-> 0, count |-> 0, desired |-> 0]

try_dequeue(c) ==
  Goto(c, [Operation("try_dequeue", "score", 1) EXCEPT !.at = "score", !.ptr = Len(items)])

try_dequeue_non_interleaved(c) == Goto(c, Each(Operation("non_interleaved", "each", 1), Len(items)))

try_dequeue_bulk(c, max) == Goto(c, Each(Operation("bulk", "each", max), Len(items)))

\* With a token: from its current producer, or after a rotation from another.
TokenDequeue(c, kind, max) ==
  LET r == [Operation(kind, "current", max) EXCEPT !.ptr = ctoken[c].currentProducer] IN
    Goto(c, IF \/ ctoken[c].desiredProducer = 0
               \/ ctoken[c].lastKnownGlobalOffset # globalExplicitConsumerOffset
            THEN [r EXCEPT !.at = "tail"] ELSE r)
try_dequeue_token(c) == TokenDequeue(c, "token", 1)
try_dequeue_bulk_token(c, max) == TokenDequeue(c, "bulk_token", max)

Bulk == {"bulk", "bulk_token"}

Start(c, kind, max) ==
  /\ max = 1 \/ kind \in Bulk
  /\ CASE kind = "try_dequeue" -> try_dequeue(c)
       [] kind = "non_interleaved" -> try_dequeue_non_interleaved(c)
       [] kind = "token" -> try_dequeue_token(c)
       [] kind = "bulk" -> try_dequeue_bulk(c, max)
       [] kind = "bulk_token" -> try_dequeue_bulk_token(c, max)
  /\ UNCHANGED <<queueVars, globalExplicitConsumerOffset, ctoken>>

\* The best of the first ScoreLimit sub-queues that are not empty; if all are
\* empty, that is the result.
Score(c) ==
  /\ At(c, "score")
  /\ LET r == consumer[c] IN
       Goto(c, IF r.ptr = 0 \/ r.scored = ScoreLimit
               THEN IF r.scored = 0 THEN Done(r, 1) ELSE [TryAt(r, r.best) EXCEPT !.mode = "best", !.count = 0]
               ELSE [r EXCEPT !.ptr = @ - 1,
                              !.scored = IF items[r.ptr] > 0 THEN @ + 1 ELSE @,
                              !.best = IF items[r.ptr] > r.count THEN r.ptr ELSE @,
                              !.count = IF items[r.ptr] > @ THEN items[r.ptr] ELSE @])
  /\ UNCHANGED <<queueVars, globalExplicitConsumerOffset, ctoken>>

-----------------------------------------------------------------------------
(* update_current_producer_after_rotation *)

NextOrTail(p, tail) == IF p = 1 THEN tail ELSE p - 1

Walk(p, tail, n) ==
  LET walk[i \in 0 .. n] == IF i = 0 THEN p ELSE NextOrTail(walk[i - 1], tail) IN walk[n]

LoadTail(c) ==
  /\ At(c, "tail")
  /\ Goto(c, IF ctoken[c].desiredProducer = 0 /\ Len(items) = 0 THEN Done(consumer[c], consumer[c].want)
             ELSE [consumer[c] EXCEPT !.at = "count", !.tail = Len(items)])
  /\ UNCHANGED <<queueVars, globalExplicitConsumerOffset, ctoken>>

LoadCount(c) ==
  /\ At(c, "count")
  /\ Goto(c, [consumer[c] EXCEPT !.at = "offset", !.count = producerCount])
  /\ UNCHANGED <<queueVars, globalExplicitConsumerOffset, ctoken>>

\* Mutant: the place of the token is not derived from its id.
FirstPlaceTail(c, prodCount, tail) == tail

\* The token's own place among the producers.
FirstPlace(c, prodCount, tail) == Walk(tail, tail, prodCount - 1 - (initialOffset[c] % prodCount))

Rotate(c) ==
  /\ At(c, "offset")
  /\ LET r == consumer[c]
         first == IF ctoken[c].desiredProducer = 0 THEN FirstPlace(c, r.count, r.tail)
                  ELSE ctoken[c].desiredProducer
         delta == (globalExplicitConsumerOffset - ctoken[c].lastKnownGlobalOffset) % OffsetMod
         desired == Walk(first, r.tail, delta % r.count)
     IN  /\ ctoken' = [ctoken EXCEPT ![c] =
              [lastKnownGlobalOffset |-> globalExplicitConsumerOffset, itemsConsumedFromCurrent |-> 0,
               currentProducer |-> desired, desiredProducer |-> desired]]
         /\ Goto(c, TryAt(r, desired))
  /\ UNCHANGED <<queueVars, globalExplicitConsumerOffset>>

update_current_producer_after_rotation(c) == LoadTail(c) \/ LoadCount(c) \/ Rotate(c)

-----------------------------------------------------------------------------
(* What follows when the sub-queue has given k items *)

\* Round the list, until the token's producer comes again.
Others(r, p, current, want) ==
  LET q == NextOrTail(p, r.tail) IN
    IF want = 0 \/ q = current THEN Done(r, want)
    ELSE [TryAt(r, q) EXCEPT !.mode = "others", !.want = want]

Quota(r, consumed) ==
  IF r.kind \in Bulk THEN consumed >= EXPLICIT_CONSUMER_CONSUMPTION_QUOTA_BEFORE_ROTATE
  ELSE consumed = EXPLICIT_CONSUMER_CONSUMPTION_QUOTA_BEFORE_ROTATE


After(c, k) ==
  LET r == consumer[c]
      want == r.want - k
      tk == ctoken[c]
  IN  CASE r.mode = "best" -> Goto(c, IF want = 0 THEN Done(r, 0) ELSE Each(r, Len(items))) /\ UNCHANGED ctoken
        [] r.mode = "each" ->
             /\ Goto(c, IF want = 0 THEN Done(r, 0) ELSE Each([r EXCEPT !.want = want], r.ptr - 1))
             /\ UNCHANGED ctoken
        [] r.mode = "current" ->
             /\ ctoken' = [ctoken EXCEPT ![c].itemsConsumedFromCurrent = @ + k]
             /\ Goto(c, IF want = 0
                        THEN IF Quota(r, tk.itemsConsumedFromCurrent + k) THEN [r EXCEPT !.at = "turn"] ELSE Done(r, 0)
                        ELSE Others([r EXCEPT !.tail = Len(items)], r.ptr, r.ptr, want))
        [] r.mode = "others" ->
             /\ ctoken' = [ctoken EXCEPT ![c].currentProducer = IF k > 0 THEN r.ptr ELSE @,
                                         ![c].itemsConsumedFromCurrent = IF k > 0 THEN k ELSE @]
             /\ Goto(c, Others(r, r.ptr, ctoken'[c].currentProducer, want))

\* Everybody shall rotate.
Turn(c) ==
  /\ At(c, "turn")
  /\ globalExplicitConsumerOffset' = (globalExplicitConsumerOffset + 1) % OffsetMod
  /\ Goto(c, Done(consumer[c], 0))
  /\ UNCHANGED <<queueVars, ctoken>>

-----------------------------------------------------------------------------
(* dequeue, dequeue_bulk of a sub-queue: see SubQueue *)

Look(c) ==
  /\ At(c, "look")
  /\ IF Visible(consumer[c].ptr) = 0 THEN After(c, 0)
     ELSE /\ Goto(c, [consumer[c] EXCEPT !.at = "claim",
                                         !.desired = Least(consumer[c].want, Visible(consumer[c].ptr))])
          /\ UNCHANGED ctoken
  /\ UNCHANGED <<queueVars, globalExplicitConsumerOffset>>

\* What others have not taken meanwhile; a claim on more is to be given back.
Claim(c) ==
  /\ At(c, "claim")
  /\ LET p == consumer[c].ptr
         k == Least(consumer[c].desired, Visible(p))
         excess == consumer[c].desired - k
     IN  /\ items' = [items EXCEPT ![p] = @ - k]
         /\ late' = [late EXCEPT ![p] = @ + excess]
         /\ IF excess = 0 THEN After(c, k)
            ELSE /\ Goto(c, [consumer[c] EXCEPT !.at = "giveback", !.desired = excess, !.count = k])
                 /\ UNCHANGED ctoken
  /\ UNCHANGED <<producerCount, enqueued, globalExplicitConsumerOffset>>

GiveBack(c) ==
  /\ At(c, "giveback")
  /\ late' = [late EXCEPT ![consumer[c].ptr] = @ - consumer[c].desired]
  /\ After(c, consumer[c].count)
  /\ UNCHANGED <<items, producerCount, enqueued, globalExplicitConsumerOffset>>

DequeueStep(c) ==
  \/ Score(c) \/ update_current_producer_after_rotation(c) \/ Turn(c)
  \/ Look(c) \/ Claim(c) \/ GiveBack(c)

Return(c) ==
  /\ At(c, "done")
  /\ Goto(c, Idle)
  /\ UNCHANGED <<queueVars, globalExplicitConsumerOffset, ctoken>>

ProducerNext ==
  \/ CountProducer \/ PushProducer
  \/ \E p \in DOMAIN items : inner_enqueue(p) \/ \E n \in 2 .. MaxBulk : inner_enqueue_bulk(p, n)

Next ==
  /\ \/ ProducerNext
     \/ \E c \in Consumer :
          \/ At(c, "idle") /\ \E kind \in setup.kinds, max \in 1 .. MaxBulk : Start(c, kind, max)
          \/ DequeueStep(c) \/ Return(c)
  /\ Watch
  /\ UNCHANGED setup

Spec == Init /\ [][Next]_vars

-----------------------------------------------------------------------------
(* Properties *)

QueueTypeOK ==
  /\ DOMAIN items = DOMAIN late /\ producerCount \in Len(items) .. MaxProducers
  /\ \A p \in DOMAIN items : {items[p], late[p]} \subseteq 0 .. (setup.maxItems + Cardinality(Consumer) * MaxBulk)
  /\ globalExplicitConsumerOffset \in 0 .. (OffsetMod - 1)
  /\ \A c \in Consumer : {ctoken[c].currentProducer, ctoken[c].desiredProducer} \subseteq 0 .. Len(items)


\* With as many producers as tokens the tokens are at different producers,
\* whatever rotations (fewer than OffsetMod) each of them has missed.
TokensSpread ==
  \A c, d \in Consumer :
    /\ c # d /\ producerCount = setup.producers /\ producerCount = Cardinality(Consumer)
    /\ ctoken[c].desiredProducer # 0 /\ ctoken[d].desiredProducer # 0
    /\ ctoken[c].lastKnownGlobalOffset = ctoken[d].lastKnownGlobalOffset
    => ctoken[c].desiredProducer # ctoken[d].desiredProducer

\* The tokens' places are places of the list, and different ones.
TokensInv == QueueTypeOK /\ TokensSpread
=============================================================================

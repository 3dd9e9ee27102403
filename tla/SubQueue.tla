------------------------------ MODULE SubQueue ------------------------------
(***************************************************************************)
(* What the two kinds of sub-queue of moodycamel::ConcurrentQueue share    *)
(* (ProducerBase, and the first half of dequeue and dequeue_bulk): one     *)
(* producer moves tailIndex, consumers claim items on                      *)
(* dequeueOptimisticCount, give back on dequeueOvercommit what was not     *)
(* there, and take the others from headIndex.                              *)
(*                                                                         *)
(* All indices are index_t and wrap at IndexMod.  The payload of an item   *)
(* is the index it was enqueued under.  A step makes at most one access to *)
(* a variable that another thread may change at that moment.               *)
(***************************************************************************)
EXTENDS Integers, Sequences, FiniteSets, FiniteSetsExt, TLC

CONSTANTS
  Consumer,
  Block, NoBlock,            \* blocks; nullptr
  BLOCK_SIZE,
  IndexMod,                  \* 2 ^ width of index_t
  BulkSize,                  \* items of one bulk operation
  Setup,                     \* indices to begin with, and MAX_SUBQUEUE_SIZE of the traits
  MaxItems,                  \* bound on the items that come after that
  MaxOvercommit              \* bound on dequeueOvercommit when a dequeue begins

ASSUME SubQueueAssumption ==
  /\ BLOCK_SIZE \in Nat \ {0, 1} /\ IndexMod % (2 * BLOCK_SIZE) = 0
  /\ Setup \subseteq [origin : {i \in 0 .. (IndexMod - 1) : i % BLOCK_SIZE = 0},
                      MAX_SUBQUEUE_SIZE : {i \in 1 .. IndexMod : i % BLOCK_SIZE = 0}]
  /\ MaxItems < IndexMod
  /\ NoBlock \notin Block /\ BulkSize \subseteq Nat \ {0}

Index == 0 .. (IndexMod - 1)
Empty == IndexMod            \* no item in a slot

VARIABLES
  setup,                     \* the member of Setup for this sub-queue
  tailIndex, headIndex,
  dequeueOptimisticCount, dequeueOvercommit,
  tailBlock,
  slot,                      \* the elements of each block
  free,                      \* how often a block is in the free list
  producer, consumer         \* progress of the producer and of the consumers

\* Items that have come and gone at the start.
origin == setup.origin

countVars == <<dequeueOptimisticCount, dequeueOvercommit>>

Plus(i, n) == (i + n) % IndexMod
Minus(i, n) == (i - n) % IndexMod
Signed(d) == IF d < IndexMod \div 2 THEN d ELSE d - IndexMod
Base(i) == i - (i % BLOCK_SIZE)
Blocks(i) == i \div BLOCK_SIZE
Least(m, n) == IF m < n THEN m ELSE n

circular_less_than(a, b) == Minus(a, b) > IndexMod \div 2

Idle == [at |-> "idle"]

\* Nothing is in the sub-queue.
SubInit ==
  /\ setup \in Setup
  /\ tailIndex = origin /\ headIndex = origin
  /\ dequeueOptimisticCount = origin /\ dequeueOvercommit = 0
  /\ IF origin = 0 THEN tailBlock = NoBlock ELSE tailBlock \in Block
  /\ slot = [b \in Block |-> [i \in 0 .. (BLOCK_SIZE - 1) |-> Empty]]
  /\ producer = Idle
  /\ consumer = [c \in Consumer |-> Idle]

\* add_block_to_free_list, add_blocks_to_free_list
AddFree(bs) == free' = [b \in Block |-> IF b \in bs THEN free[b] + 1 ELSE free[b]]

-----------------------------------------------------------------------------
(* The producer's arithmetic *)

ProducerAt(at) == producer.at = at
ProducerGoto(at) == producer' = [producer EXCEPT !.at = at]

\* The bases of the blocks that n items from tailIndex on need and that are not
\* there yet.
NewBases(n) ==
  LET last == Base(Minus(tailIndex, 1))
      blocks == Blocks(Minus(Base(Plus(tailIndex, n - 1)), last))
  IN  [k \in 1 .. blocks |-> Plus(last, k * BLOCK_SIZE)]

\* A block at this base might bring the tail round to the head, or exceed the
\* traits' limit (which is IndexMod if there is none).
Full(base) ==
  \/ ~ circular_less_than(headIndex, Plus(base, BLOCK_SIZE))
  \/ setup.MAX_SUBQUEUE_SIZE - BLOCK_SIZE < Minus(base, headIndex)

\* n items are constructed along the block start and the reserved ones.
Fill(n, start, reserved) ==
  LET bases == NewBases(n)
      blockOf(i) == IF \E j \in DOMAIN bases : bases[j] = Base(i)
                    THEN reserved[CHOOSE j \in DOMAIN bases : bases[j] = Base(i)]
                    ELSE start
  IN  slot' = [b \in Block |-> [p \in 0 .. (BLOCK_SIZE - 1) |->
        LET here == {i \in {Plus(tailIndex, k) : k \in 0 .. (n - 1)} :
                       blockOf(i) = b /\ i % BLOCK_SIZE = p}
        IN  IF here = {} THEN slot[b][p] ELSE CHOOSE i \in here : TRUE]]

-----------------------------------------------------------------------------
(* The consumers' claims *)

ConsumerAt(c, at) == consumer[c].at = at
ConsumerGoto(c, r) == consumer' = [consumer EXCEPT ![c] = r]

\* The tail and the overcommit are read; the latter is used from now on.
StartDequeue(c, max) ==
  /\ ConsumerAt(c, "idle")
  /\ dequeueOvercommit <= MaxOvercommit
  /\ ConsumerGoto(c, [at |-> "look", max |-> max, tail |-> tailIndex, overcommit |-> dequeueOvercommit])
  /\ UNCHANGED <<headIndex, countVars>>

\* How many items there seem to be.
Look(c) ==
  /\ ConsumerAt(c, "look")
  /\ LET seen == Minus(consumer[c].tail, Minus(dequeueOptimisticCount, consumer[c].overcommit)) IN
       IF circular_less_than(0, seen)
         THEN ConsumerGoto(c, [at |-> "claim", desired |-> Least(seen, consumer[c].max),
                               overcommit |-> consumer[c].overcommit])
         ELSE ConsumerGoto(c, Idle)
  /\ UNCHANGED <<headIndex, countVars>>

Claim(c) ==
  /\ ConsumerAt(c, "claim")
  /\ dequeueOptimisticCount' = Plus(dequeueOptimisticCount, consumer[c].desired)
  /\ ConsumerGoto(c, [at |-> "check", desired |-> consumer[c].desired,
                      first |-> Minus(dequeueOptimisticCount, consumer[c].overcommit)])
  /\ UNCHANGED <<headIndex, dequeueOvercommit>>

\* Mutant: the tail is not looked at again after the claim.
CheckNot(c) ==
  /\ ConsumerAt(c, "check")
  /\ ConsumerGoto(c, [at |-> "head", count |-> consumer[c].desired])
  /\ UNCHANGED <<headIndex, countVars>>

\* How many of the claimed items there really are.
Check(c) ==
  /\ ConsumerAt(c, "check")
  /\ LET desired == consumer[c].desired
         there == Minus(tailIndex, consumer[c].first)
         actual == IF circular_less_than(0, there) THEN Least(desired, there) ELSE 0
     IN  ConsumerGoto(c, IF actual < desired
                         THEN [at |-> "giveback", excess |-> desired - actual, count |-> actual]
                         ELSE [at |-> "head", count |-> actual])
  /\ UNCHANGED <<headIndex, countVars>>

GiveBack(c) ==
  /\ ConsumerAt(c, "giveback")
  /\ dequeueOvercommit' = Plus(dequeueOvercommit, consumer[c].excess)
  /\ ConsumerGoto(c, IF consumer[c].count = 0 THEN Idle ELSE [at |-> "head", count |-> consumer[c].count])
  /\ UNCHANGED <<headIndex, dequeueOptimisticCount>>

\* The items are the next ones from the head.
TakeHead(c) ==
  /\ ConsumerAt(c, "head")
  /\ headIndex' = Plus(headIndex, consumer[c].count)
  /\ ConsumerGoto(c, [at |-> "header", index |-> headIndex, end |-> headIndex'])
  /\ UNCHANGED <<countVars>>

ClaimStep(c) == Look(c) \/ Claim(c) \/ Check(c) \/ GiveBack(c) \/ TakeHead(c)

\* The items that a consumer takes from the block at its index, up to the end of
\* the block or of its claim.
StopIndex(c) ==
  LET stop == Plus(Base(consumer[c].index), BLOCK_SIZE)
  IN  IF circular_less_than(consumer[c].end, stop) THEN consumer[c].end ELSE stop
TakenHere(c) ==
  {Plus(consumer[c].index, k) : k \in 0 .. (Minus(StopIndex(c), consumer[c].index) - 1)}
Positions(c) == {i % BLOCK_SIZE : i \in TakenHere(c)}

\* They are moved out and destroyed, even if a move throws.
MoveOut(c, b) ==
  slot' = [slot EXCEPT ![b] = [p \in DOMAIN @ |-> IF p \in Positions(c) THEN Empty ELSE @[p]]]

-----------------------------------------------------------------------------
(* Properties *)

\* Items that a consumer has claimed and not yet taken from the head, with the
\* ones it will give back.
Claimed(c) ==
  CASE consumer[c].at = "check" -> consumer[c].desired
    [] consumer[c].at = "giveback" -> consumer[c].excess + consumer[c].count
    [] consumer[c].at = "head" -> consumer[c].count
    [] OTHER -> 0
Entitled(c) == IF consumer[c].at \in {"giveback", "head"} THEN consumer[c].count ELSE 0

\* Claims made on a tail that others have emptied meanwhile, with an overcommit
\* read long ago, never reach past the tail: whoever passes the second check
\* finds its items between head and tail.
ClaimsCovered == MapThenSumSet(Entitled, Consumer) <= Minus(tailIndex, headIndex)

\* Each claim is either taken or given back: an item that was enqueued does not
\* become invisible, whatever claims failed before.
ClaimsAddUp ==
  Minus(dequeueOptimisticCount, dequeueOvercommit) = Plus(headIndex, MapThenSumSet(Claimed, Consumer))

\* The items that no consumer has taken yet.
Left == {Plus(headIndex, k) : k \in 0 .. (Minus(tailIndex, headIndex) - 1)}

\* The destructor returns every block to the free list (or to the allocator),
\* none of them twice.
NoBlockLost == ProducerAt("gone") => \A b \in Block : free[b] = 1
=============================================================================

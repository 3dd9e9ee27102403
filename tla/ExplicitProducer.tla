-------------------------- MODULE ExplicitProducer --------------------------
(***************************************************************************)
(* moodycamel::ConcurrentQueue's sub-queue of a producer token: unlike an  *)
(* implicit producer it keeps its blocks in a ring and uses the block      *)
(* ahead of the tail again once its flags say that it is empty.            *)
(*                                                                         *)
(* For one item the code is that of a bulk of one, but for the order of    *)
(* steps that consumers cannot see.                                        *)
(***************************************************************************)
EXTENDS SubQueue

CONSTANTS
  EXPLICIT_INITIAL_INDEX_SIZE,
  MaxHeaders,                \* bound on the block indices ever allocated
  BulkFails,                 \* may an allocation fail after the bulk has reserved blocks?
  BoundaryThrows             \* may an item's constructor throw after blocks were reserved?

ExplicitAssumption ==
  EXPLICIT_INITIAL_INDEX_SIZE \in Nat \ {0, 1} /\ {BulkFails, BoundaryThrows} \subseteq BOOLEAN

VARIABLES
  emptyFlags,                \* the positions of each block whose flag is set
  next,                      \* the ring of blocks
  header,                    \* block index headers with their entries; blockIndex is the last
  pr_blockIndexSlotsUsed, pr_blockIndexFront

indexVars == <<header, pr_blockIndexSlotsUsed, pr_blockIndexFront>>
blockVars == <<tailBlock, slot, emptyFlags, next, free>>
vars == <<setup, tailIndex, headIndex, countVars, blockVars, indexVars, producer, consumer>>

blockIndex == header[Len(header)]
NoEntry == [base |-> 0, block |-> NoBlock]
SlotPositions == 0 .. (BLOCK_SIZE - 1)

\* The entry i of the first index when the one block of the ring has been used
\* for origin items.
EntryAfter(i) ==
  LET uses == {k \in 0 .. (Blocks(origin) - 1) : k % EXPLICIT_INITIAL_INDEX_SIZE = i}
  IN  IF uses = {} THEN NoEntry ELSE [base |-> BLOCK_SIZE * Max(uses), block |-> tailBlock]

FirstHeader ==
  [size    |-> EXPLICIT_INITIAL_INDEX_SIZE,
   front   |-> IF origin = 0 THEN -1 ELSE (Blocks(origin) - 1) % EXPLICIT_INITIAL_INDEX_SIZE,
   entries |-> [i \in 0 .. (EXPLICIT_INITIAL_INDEX_SIZE - 1) |-> EntryAfter(i)]]

\* The constructor, whose new_block_index may fail; or later, when everything
\* enqueued has been dequeued again, one item at a time.
Init ==
  /\ SubInit
  /\ emptyFlags = [b \in Block |-> IF b = tailBlock THEN SlotPositions ELSE {}]
  /\ next = [b \in Block |-> IF b = tailBlock THEN b ELSE NoBlock]
  /\ free = [b \in Block |-> IF b = tailBlock THEN 0 ELSE 1]
  /\ header = <<FirstHeader>> \/ (origin = 0 /\ header = <<>>)
  /\ pr_blockIndexSlotsUsed = IF origin = 0 THEN 0 ELSE 1
  /\ pr_blockIndexFront = Blocks(origin) % EXPLICIT_INITIAL_INDEX_SIZE

-----------------------------------------------------------------------------
(* enqueue, enqueue_bulk *)

ConsumersSide == <<headIndex, countVars, consumer>>

\* Mutant: one empty slot is enough.
is_emptySome(b) == emptyFlags[b] # {}

is_empty(b) == emptyFlags[b] = SlotPositions

\* What a failed operation goes back to is kept.
enqueue_bulk(n) ==
  /\ ProducerAt("idle")
  /\ Minus(tailIndex, origin) + n <= MaxItems
  /\ producer' = [at |-> IF NewBases(n) = <<>> THEN "build" ELSE "ahead",
                  n |-> n, reserved |-> <<>>, startBlock |-> tailBlock,
                  front |-> pr_blockIndexFront, slots |-> pr_blockIndexSlotsUsed]
  /\ UNCHANGED <<tailIndex, blockVars, indexVars, ConsumersSide>>

enqueue == enqueue_bulk(1)

NextBase == NewBases(producer.n)[Len(producer.reserved) + 1]
LastNeeded == Len(producer.reserved) + 1 = Len(NewBases(producer.n))

firstAllocatedBlock == IF producer.reserved = <<>> THEN NoBlock ELSE producer.reserved[1]

\* The block b is reserved, whose entry goes to the front of the index.  With the
\* last one reserved, all of them are marked as not empty.
Reserve(b, flags, at) ==
  /\ tailBlock' = b
  /\ header' = [header EXCEPT ![Len(header)].entries[pr_blockIndexFront] = [base |-> NextBase, block |-> b]]
  /\ pr_blockIndexFront' = (pr_blockIndexFront + 1) % blockIndex.size
  /\ LET reserved == Append(producer.reserved, b) IN
       /\ producer' = [producer EXCEPT !.reserved = reserved, !.at = IF LastNeeded THEN "build" ELSE at]
       /\ emptyFlags' = [c \in Block |->
            IF LastNeeded /\ \E k \in DOMAIN reserved : reserved[k] = c THEN {} ELSE flags[c]]

\* May the block ahead be used again?  Not one that this operation took.
CanReuse ==
  /\ tailBlock # NoBlock
  /\ next[tailBlock] # firstAllocatedBlock
  /\ is_empty(next[tailBlock])

ReuseAhead ==
  /\ ProducerAt("ahead")
  /\ CanReuse
  /\ Reserve(next[tailBlock], emptyFlags, "ahead")
  /\ UNCHANGED <<tailIndex, slot, next, free, pr_blockIndexSlotsUsed, ConsumersSide>>

\* From here on blocks come from the pool.
UsePool ==
  /\ ProducerAt("ahead")
  /\ ~ CanReuse
  /\ ProducerGoto("pool")
  /\ UNCHANGED <<tailIndex, blockVars, indexVars, ConsumersSide>>

\* Back to where the operation began, but for the blocks in the ring.
Undo ==
  /\ tailBlock' = IF producer.startBlock = NoBlock THEN firstAllocatedBlock ELSE producer.startBlock
  /\ pr_blockIndexFront' = producer.front
  /\ pr_blockIndexSlotsUsed' = producer.slots
  /\ producer' = Idle

\* There is no leeway for another block.
NoRoom ==
  /\ ProducerAt("pool")
  /\ Full(NextBase)
  /\ BulkFails \/ producer.reserved = <<>>
  /\ Undo
  /\ UNCHANGED <<tailIndex, slot, emptyFlags, next, free, header, ConsumersSide>>

IndexFull == IF header = <<>> THEN TRUE ELSE pr_blockIndexSlotsUsed = blockIndex.size

\* The entries in use, oldest first, in an index of twice the size.
NewEntries(size) ==
  [i \in 0 .. (2 * size - 1) |->
     IF i < pr_blockIndexSlotsUsed
     THEN blockIndex.entries[(pr_blockIndexFront - pr_blockIndexSlotsUsed + i) % size]
     ELSE NoEntry]

\* A larger index is allocated.
new_block_index ==
  /\ ProducerAt("pool")
  /\ IndexFull
  /\ ~ Full(NextBase)
  /\ Len(header) < MaxHeaders
  /\ LET size == IF header = <<>> THEN EXPLICIT_INITIAL_INDEX_SIZE \div 2 ELSE blockIndex.size IN
       header' = Append(header, [size |-> 2 * size, front |-> producer.slots - 1, entries |-> NewEntries(size)])
  /\ pr_blockIndexFront' = pr_blockIndexSlotsUsed
  /\ producer' = [producer EXCEPT !.front = producer.slots, !.at = "block"]
  /\ UNCHANGED <<tailIndex, blockVars, pr_blockIndexSlotsUsed, ConsumersSide>>

IndexHasRoom ==
  /\ ProducerAt("pool")
  /\ ~ Full(NextBase)
  /\ ~ IndexFull
  /\ ProducerGoto("block")
  /\ UNCHANGED <<tailIndex, blockVars, indexVars, ConsumersSide>>

\* The block comes after the tail block in the ring.
Link(b) ==
  IF tailBlock = NoBlock THEN [next EXCEPT ![b] = b]
  ELSE [next EXCEPT ![b] = next[tailBlock], ![tailBlock] = b]

\* requisition_block succeeds.
InsertBlock(b) ==
  /\ ProducerAt("block")
  /\ free[b] > 0
  /\ free' = [free EXCEPT ![b] = @ - 1]
  /\ next' = Link(b)
  /\ pr_blockIndexSlotsUsed' = pr_blockIndexSlotsUsed + 1
  /\ Reserve(b, [emptyFlags EXCEPT ![b] = SlotPositions], "pool")
  /\ UNCHANGED <<tailIndex, slot, ConsumersSide>>

\* new_block_index or requisition_block fails.
AllocationFails ==
  /\ ProducerAt("block") \/ (ProducerAt("pool") /\ IndexFull /\ ~ Full(NextBase))
  /\ BulkFails \/ producer.reserved = <<>>
  /\ Undo
  /\ UNCHANGED <<tailIndex, slot, emptyFlags, next, free, header, ConsumersSide>>

\* The items are constructed, and the front of the index goes to the last block;
Build ==
  /\ ProducerAt("build")
  /\ Fill(producer.n, producer.startBlock, producer.reserved)
  /\ header' = IF producer.reserved = <<>> THEN header
               ELSE [header EXCEPT ![Len(header)].front = (pr_blockIndexFront - 1) % blockIndex.size]
  /\ ProducerGoto("publish")
  /\ UNCHANGED <<tailIndex, tailBlock, emptyFlags, next, free, pr_blockIndexSlotsUsed, pr_blockIndexFront,
                 ConsumersSide>>

\* or a constructor throws, and the ones constructed are destroyed again.
BuildThrows ==
  /\ ProducerAt("build")
  /\ BoundaryThrows \/ producer.reserved = <<>>
  /\ Undo
  /\ UNCHANGED <<tailIndex, slot, emptyFlags, next, free, header, ConsumersSide>>

Publish ==
  /\ ProducerAt("publish")
  /\ tailIndex' = Plus(tailIndex, producer.n)
  /\ producer' = Idle
  /\ UNCHANGED <<blockVars, indexVars, ConsumersSide>>

EnqueueStep ==
  \/ ReuseAhead \/ UsePool \/ NoRoom \/ new_block_index \/ IndexHasRoom \/ AllocationFails
  \/ Build \/ BuildThrows \/ Publish
  \/ \E b \in Block : InsertBlock(b)

-----------------------------------------------------------------------------
(* dequeue, dequeue_bulk *)

ProducersSide == <<tailIndex, tailBlock, next, free, indexVars, producer>>

dequeue_bulk(c, max) == StartDequeue(c, max) /\ UNCHANGED <<slot, emptyFlags, ProducersSide>>

dequeue(c) == dequeue_bulk(c, 1)

ClaimItems(c) == ClaimStep(c) /\ UNCHANGED <<slot, emptyFlags, ProducersSide>>

LoadIndex(c) ==
  /\ ConsumerAt(c, "header")
  /\ ConsumerGoto(c, [consumer[c] EXCEPT !.at = "front"] @@ [h |-> Len(header)])
  /\ UNCHANGED <<headIndex, countVars, slot, emptyFlags, ProducersSide>>

LoadFront(c) ==
  /\ ConsumerAt(c, "front")
  /\ ConsumerGoto(c, [consumer[c] EXCEPT !.at = "find"] @@ [f |-> header[consumer[c].h].front])
  /\ UNCHANGED <<headIndex, countVars, slot, emptyFlags, ProducersSide>>

\* The entry is as far from the front as the bases are apart.
Find(c) ==
  /\ ConsumerAt(c, "find")
  /\ LET k == consumer[c]
         offset == Blocks(Signed(Minus(Base(k.index), header[k.h].entries[k.f].base)))
     IN  ConsumerGoto(c, [at |-> "take", index |-> k.index, end |-> k.end, h |-> k.h,
                          idx |-> (k.f + offset) % header[k.h].size])
  /\ UNCHANGED <<headIndex, countVars, slot, emptyFlags, ProducersSide>>

EntryAt(c) == header[consumer[c].h].entries[consumer[c].idx]

\* The items leave, and their flags are set, which lets the producer have the
\* block back; then on to the next block.
Take(c) ==
  /\ ConsumerAt(c, "take")
  /\ MoveOut(c, EntryAt(c).block)
  /\ emptyFlags' = [emptyFlags EXCEPT ![EntryAt(c).block] = @ \cup Positions(c)]
  /\ ConsumerGoto(c, IF StopIndex(c) = consumer[c].end THEN Idle
                     ELSE [consumer[c] EXCEPT !.index = StopIndex(c),
                                              !.idx = (@ + 1) % header[consumer[c].h].size])
  /\ UNCHANGED <<headIndex, countVars, ProducersSide>>

DequeueStep(c) == ClaimItems(c) \/ LoadIndex(c) \/ LoadFront(c) \/ Find(c) \/ Take(c)

-----------------------------------------------------------------------------
(* The destructor *)

\* The blocks that a walk along the ring from the tail block meets.
Ring ==
  LET walk[k \in 0 .. Cardinality(Block)] == IF k = 0 THEN tailBlock ELSE next[walk[k - 1]]
  IN  IF tailBlock = NoBlock THEN {} ELSE {walk[k] : k \in 0 .. Cardinality(Block)}

\* The block that the head is in the middle of: the first entry whose block does
\* not end before the head.
HalfDequeued ==
  LET size == blockIndex.size
      at(k) == blockIndex.entries[(pr_blockIndexFront - pr_blockIndexSlotsUsed + k) % size]
      ks == {k \in 0 .. (size - 1) : ~ circular_less_than(Plus(at(k).base, BLOCK_SIZE), headIndex)}
  IN  IF headIndex % BLOCK_SIZE = 0 \/ ks = {} THEN NoBlock ELSE at(Min(ks)).block

\* The slots whose element the destructor destroys: of the blocks not flagged
\* empty, from the head on, up to the tail.
Destroyed ==
  {<<b, p>> \in {r \in Ring : ~ is_empty(r)} \X SlotPositions :
     /\ b = HalfDequeued => p >= headIndex % BLOCK_SIZE
     /\ b = tailBlock /\ tailIndex % BLOCK_SIZE # 0 => p < tailIndex % BLOCK_SIZE}

\* When no operation is under way; all blocks of the ring are given back.
Destroy ==
  /\ producer = Idle
  /\ \A c \in Consumer : consumer[c] = Idle
  /\ producer' = [at |-> "gone", destroyed |-> IF tailBlock = NoBlock THEN {} ELSE Destroyed]
  /\ AddFree(Ring)
  /\ consumer' = [c \in Consumer |-> [at |-> "gone"]]
  /\ UNCHANGED <<tailIndex, headIndex, countVars, tailBlock, slot, emptyFlags, next, indexVars>>

Next ==
  /\ \/ enqueue \/ (\E n \in BulkSize : enqueue_bulk(n)) \/ EnqueueStep
     \/ \E c \in Consumer :
          dequeue(c) \/ (\E max \in BulkSize : dequeue_bulk(c, max)) \/ DequeueStep(c)
     \/ Destroy
  /\ UNCHANGED setup

Spec == Init /\ [][Next]_vars

-----------------------------------------------------------------------------
(* Properties *)

ExplicitTypeOK ==
  /\ {tailIndex, headIndex, dequeueOptimisticCount, dequeueOvercommit} \subseteq Index
  /\ tailBlock \in Block \cup {NoBlock}
  /\ slot \in [Block -> [SlotPositions -> Index \cup {Empty}]]
  /\ emptyFlags \in [Block -> SUBSET SlotPositions]
  /\ next \in [Block -> Block \cup {NoBlock}]
  /\ free \in [Block -> {0, 1}]
  /\ header # <<>> => pr_blockIndexSlotsUsed \in 0 .. blockIndex.size

\* A new entry overwrites the oldest one of the circular index, for which the
\* code relies on there being room ("guaranteed to be room since we're
\* conceptually removing the last block from it first"): every item still in
\* the queue, of a block wherever in the ring, has an entry that names its block.
EntriesCoverItems ==
  \A i \in Left :
    \E k \in DOMAIN blockIndex.entries :
      LET e == blockIndex.entries[k] IN
        e.base = Base(i) /\ e.block # NoBlock /\ slot[e.block][i % BLOCK_SIZE] = i

\* A consumer gets the items of the indices it took, although the producer has
\* replaced the index, reused blocks or overwritten entries since the consumer
\* read the index, its front and the base there.
TakesFromRing ==
  \A c \in Consumer :
    ConsumerAt(c, "take") =>
      /\ EntryAt(c).block # NoBlock
      /\ \A i \in TakenHere(c) : slot[EntryAt(c).block][i % BLOCK_SIZE] = i

\* The destructor destroys the elements that were enqueued and not dequeued,
\* each of them and nothing else: a constructor that threw before, say, leaves
\* no block behind that seems to have elements ("We want the element not to
\* appear in the queue in that case (without corrupting the queue)").
DestroysItems ==
  ProducerAt("gone") =>
    producer.destroyed = {<<b, p>> \in Block \X SlotPositions : slot[b][p] # Empty}
=============================================================================

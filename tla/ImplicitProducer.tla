-------------------------- MODULE ImplicitProducer --------------------------
(***************************************************************************)
(* moodycamel::ConcurrentQueue's sub-queue of one implicit producer: the   *)
(* producer enqueues (one item or a bulk), any consumer dequeues.  The     *)
(* block of an index is found through a circular block index that the      *)
(* producer extends and consumers read without locks; who empties a block  *)
(* frees it.  Free blocks are a bag here; FreeList has its code.           *)
(***************************************************************************)
EXTENDS SubQueue

CONSTANTS
  IMPLICIT_INITIAL_INDEX_SIZE,
  MaxHeaders                 \* bound on the block indices ever allocated

ImplicitAssumption == IMPLICIT_INITIAL_INDEX_SIZE \in Nat \ {0, 1}

INVALID_BLOCK_BASE == 1

VARIABLES
  elementsCompletelyDequeued,
  entry,                     \* block index entries: key and value
  header                     \* block index headers; blockIndex is the last

indexVars == <<entry, header>>
blockVars == <<slot, elementsCompletelyDequeued, free>>
vars == <<setup, tailIndex, headIndex, countVars, tailBlock, blockVars, indexVars, producer, consumer>>

\* new_block_index: the entries of the previous index, oldest first, and as
\* many new ones.
NewHeader(prev) ==
  [capacity |-> 2 * prev.capacity,
   tail     |-> prev.capacity - 1,
   index    |-> [i \in 0 .. (2 * prev.capacity - 1) |->
                   IF i < prev.capacity THEN prev.index[(prev.tail + 1 + i) % prev.capacity] ELSE i]]

FirstHeader ==
  [capacity |-> IMPLICIT_INITIAL_INDEX_SIZE,
   tail     |-> IMPLICIT_INITIAL_INDEX_SIZE - 1,
   index    |-> [i \in 0 .. (IMPLICIT_INITIAL_INDEX_SIZE - 1) |-> i]]

Entry == 0 .. (IMPLICIT_INITIAL_INDEX_SIZE * 2 ^ (MaxHeaders - 1) - 1)

\* The entry e of the first index when the producer has filled origin slots.
EntryAfter(e) ==
  LET uses == {k \in 0 .. (Blocks(origin) - 1) : k % IMPLICIT_INITIAL_INDEX_SIZE = e}
  IN  [key |-> IF uses = {} THEN INVALID_BLOCK_BASE ELSE BLOCK_SIZE * Max(uses), value |-> NoBlock]

\* The constructor, whose new_block_index may fail; or later, when everything
\* enqueued has been dequeued again, one item at a time.
Init ==
  /\ SubInit
  /\ elementsCompletelyDequeued = [b \in Block |-> IF b = tailBlock THEN BLOCK_SIZE ELSE 0]
  /\ entry = [e \in Entry |-> EntryAfter(e)]
  /\ \/ header = <<[FirstHeader EXCEPT !.tail = (@ + Blocks(origin)) % IMPLICIT_INITIAL_INDEX_SIZE]>>
     \/ origin = 0 /\ header = <<>>
  /\ free = [b \in Block |-> 1]

blockIndex == header[Len(header)]

-----------------------------------------------------------------------------
(* enqueue, enqueue_bulk *)

\* Everything else but what a step of the producer can change.
ConsumersSide == <<headIndex, countVars, consumer>>

\* Blocks are reserved first.
enqueue_bulk(n) ==
  /\ ProducerAt("idle")
  /\ Minus(tailIndex, origin) + n <= MaxItems
  /\ producer' = [at |-> IF NewBases(n) = <<>> THEN "build" ELSE "room",
                  n |-> n, chain |-> <<>>, undone |-> 0]
  /\ UNCHANGED <<tailIndex, tailBlock, blockVars, indexVars, ConsumersSide>>

\* For one item the code is the same, but for the order of steps that consumers
\* cannot see.
enqueue == enqueue_bulk(1)

\* The base for the next block of the operation.
NextBase == NewBases(producer.n)[Len(producer.chain) + 1]

NoSpace == Full(NextBase)

\* Full, or the constructor got no block index.
NoRoom ==
  /\ ProducerAt("room")
  /\ (header = <<>>) \/ NoSpace
  /\ ProducerGoto("revert")
  /\ UNCHANGED <<tailIndex, tailBlock, blockVars, indexVars, ConsumersSide>>

InUse(e) == entry[e].key # INVALID_BLOCK_BASE /\ entry[e].value # NoBlock

NextEntry == blockIndex.index[(blockIndex.tail + 1) % blockIndex.capacity]

\* insert_block_index_entry: the entry after the tail gets the base as its key,
TakeEntry ==
  /\ ProducerAt("room")
  /\ header # <<>>
  /\ ~ NoSpace
  /\ ~ InUse(NextEntry)
  /\ entry' = [entry EXCEPT ![NextEntry].key = NextBase]
  /\ ProducerGoto("advance")
  /\ UNCHANGED <<tailIndex, tailBlock, blockVars, header, ConsumersSide>>

\* or a larger index is allocated, which may fail.
new_block_index ==
  /\ ProducerAt("room")
  /\ header # <<>>
  /\ ~ NoSpace
  /\ InUse(NextEntry)
  /\ \/ /\ Len(header) < MaxHeaders
        /\ header' = Append(header, NewHeader(blockIndex))
        /\ UNCHANGED producer
     \/ ProducerGoto("revert") /\ UNCHANGED header
  /\ UNCHANGED <<tailIndex, tailBlock, blockVars, entry, ConsumersSide>>

SetTail(d) ==
  header' = [header EXCEPT ![Len(header)].tail = (@ + d) % blockIndex.capacity]

\* The new tail of the block index is published.
AdvanceTail ==
  /\ ProducerAt("advance")
  /\ SetTail(1)
  /\ ProducerGoto("block")
  /\ UNCHANGED <<tailIndex, tailBlock, blockVars, entry, ConsumersSide>>

\* requisition_block succeeds: the block is reset and entered.
GetBlock(b) ==
  /\ ProducerAt("block")
  /\ free[b] > 0
  /\ free' = [free EXCEPT ![b] = @ - 1]
  /\ elementsCompletelyDequeued' = [elementsCompletelyDequeued EXCEPT ![b] = 0]
  /\ entry' = [entry EXCEPT ![blockIndex.index[blockIndex.tail]].value = b]
  /\ producer' = [producer EXCEPT
       !.chain = Append(@, b),
       !.at = IF Len(producer.chain) + 1 = Len(NewBases(producer.n)) THEN "build" ELSE "room"]
  /\ UNCHANGED <<tailIndex, tailBlock, slot, header, ConsumersSide>>

\* Mutant: the tail is not rewound.
NoBlockLeftNoRewind ==
  /\ ProducerAt("block")
  /\ entry' = [entry EXCEPT ![blockIndex.index[blockIndex.tail]].value = NoBlock]
  /\ ProducerGoto("revert")
  /\ UNCHANGED <<tailIndex, tailBlock, blockVars, header, ConsumersSide>>

\* requisition_block returns nullptr.
NoBlockLeft ==
  /\ ProducerAt("block")
  /\ entry' = [entry EXCEPT ![blockIndex.index[blockIndex.tail]].value = NoBlock]
  /\ SetTail(-1)
  /\ ProducerGoto("revert")
  /\ UNCHANGED <<tailIndex, tailBlock, blockVars, ConsumersSide>>

\* The items are constructed and then published all at once.
Publish ==
  /\ ProducerAt("build")
  /\ Fill(producer.n, tailBlock, producer.chain)
  /\ tailBlock' = IF producer.chain = <<>> THEN tailBlock ELSE producer.chain[Len(producer.chain)]
  /\ tailIndex' = Plus(tailIndex, producer.n)
  /\ producer' = Idle
  /\ UNCHANGED <<elementsCompletelyDequeued, free, indexVars, ConsumersSide>>

\* The copy constructor of an item throws.
BuildThrows ==
  /\ ProducerAt("build")
  /\ ProducerGoto("revert")
  /\ UNCHANGED <<tailIndex, tailBlock, blockVars, indexVars, ConsumersSide>>

\* get_block_index_index_for_index, with the tail t of the header h.
Locate(h, t, base) ==
  (t + Signed(Minus(base, entry[h.index[t]].key)) \div BLOCK_SIZE) % h.capacity


\* The blocks of the operation leave the index one by one, first to last, the
\* tail going back meanwhile; then they are freed.
Revert ==
  /\ ProducerAt("revert")
  /\ IF producer.undone < Len(producer.chain)
       THEN LET base == NewBases(producer.n)[producer.undone + 1]
                e == blockIndex.index[Locate(blockIndex, blockIndex.tail, base)]
            IN  /\ entry' = [entry EXCEPT ![e].value = NoBlock]
                /\ SetTail(-1)
                /\ producer' = [producer EXCEPT !.undone = @ + 1]
                /\ UNCHANGED free
       ELSE /\ AddFree({producer.chain[k] : k \in DOMAIN producer.chain})
            /\ producer' = Idle
            /\ UNCHANGED indexVars
  /\ UNCHANGED <<tailIndex, tailBlock, slot, elementsCompletelyDequeued, ConsumersSide>>

EnqueueStep ==
  \/ NoRoom \/ TakeEntry \/ new_block_index \/ AdvanceTail \/ NoBlockLeft
  \/ Publish \/ BuildThrows \/ Revert
  \/ \E b \in Block : GetBlock(b)

-----------------------------------------------------------------------------
(* dequeue, dequeue_bulk *)

ProducersSide == <<tailIndex, tailBlock, header, producer>>

dequeue_bulk(c, max) == StartDequeue(c, max) /\ UNCHANGED <<blockVars, entry, ProducersSide>>

\* dequeue is the case of one item.
dequeue(c) == dequeue_bulk(c, 1)

ClaimItems(c) == ClaimStep(c) /\ UNCHANGED <<blockVars, entry, ProducersSide>>

\* The search for their block: the index, its tail, the key at its tail.
LoadHeader(c) ==
  /\ ConsumerAt(c, "header")
  /\ ConsumerGoto(c, [consumer[c] EXCEPT !.at = "tail"] @@ [h |-> Len(header)])
  /\ UNCHANGED <<headIndex, countVars, blockVars, entry, ProducersSide>>

LoadTail(c) ==
  /\ ConsumerAt(c, "tail")
  /\ ConsumerGoto(c, [consumer[c] EXCEPT !.at = "find"] @@ [t |-> header[consumer[c].h].tail])
  /\ UNCHANGED <<headIndex, countVars, blockVars, entry, ProducersSide>>

Find(c) ==
  /\ ConsumerAt(c, "find")
  /\ LET k == consumer[c] IN
       ConsumerGoto(c, [at |-> "take", index |-> k.index, end |-> k.end, h |-> k.h,
                        idx |-> Locate(header[k.h], k.t, Base(k.index))])
  /\ UNCHANGED <<headIndex, countVars, blockVars, entry, ProducersSide>>

\* The entry a consumer is at.
EntryAt(c) == header[consumer[c].h].index[consumer[c].idx]

\* On to the next block of the index, or done.
NextBlock(c, index) ==
  ConsumerGoto(c, IF index = consumer[c].end THEN Idle
                  ELSE [consumer[c] EXCEPT !.at = "take", !.index = index,
                                           !.idx = (@ + 1) % header[consumer[c].h].capacity])

\* What set_many_empty (set_empty for one) returns when it has counted up to n.
emptied(n) == n = BLOCK_SIZE

\* Who empties the block releases it.
Take(c) ==
  /\ ConsumerAt(c, "take")
  /\ LET b == entry[EntryAt(c)].value
         n == elementsCompletelyDequeued[b] + Cardinality(TakenHere(c))
     IN  /\ MoveOut(c, b)
         /\ elementsCompletelyDequeued' = [elementsCompletelyDequeued EXCEPT ![b] = n]
         /\ IF emptied(n)
              THEN ConsumerGoto(c, [block |-> b, at |-> "clear", index |-> StopIndex(c)] @@ consumer[c])
              ELSE NextBlock(c, StopIndex(c))
  /\ UNCHANGED <<headIndex, countVars, free, entry, ProducersSide>>

ClearEntry(c) ==
  /\ ConsumerAt(c, "clear")
  /\ entry' = [entry EXCEPT ![EntryAt(c)].value = NoBlock]
  /\ ConsumerGoto(c, [consumer[c] EXCEPT !.at = "free"])
  /\ UNCHANGED <<headIndex, countVars, blockVars, ProducersSide>>

FreeBlock(c) ==
  /\ ConsumerAt(c, "free")
  /\ AddFree({consumer[c].block})
  /\ NextBlock(c, consumer[c].index)
  /\ UNCHANGED <<headIndex, countVars, slot, elementsCompletelyDequeued, entry, ProducersSide>>

DequeueStep(c) ==
  \/ ClaimItems(c) \/ LoadHeader(c)
  \/ LoadTail(c) \/ Find(c) \/ Take(c) \/ ClearEntry(c) \/ FreeBlock(c)

-----------------------------------------------------------------------------

\* The block that the destructor frees through tailBlock.
LastBlock ==
  IF tailBlock # NoBlock /\ (Left # {} \/ tailIndex % BLOCK_SIZE # 0) THEN {tailBlock} ELSE {}

\* The destructor, when no operation is under way: the blocks of the items that
\* are left, the last of them through tailBlock.
Destroy ==
  /\ producer = Idle
  /\ \A c \in Consumer : consumer[c] = Idle
  /\ LET blockOf(i) == entry[blockIndex.index[Locate(blockIndex, blockIndex.tail, Base(i))]].value
         passed == {blockOf(i) : i \in {j \in Left : Base(j) # Base(Minus(tailIndex, 1))}}
     IN  free' = [b \in Block |-> free[b] + (IF b \in passed THEN 1 ELSE 0)
                                          + (IF b \in LastBlock THEN 1 ELSE 0)]
  /\ producer' = [at |-> "gone"]
  /\ consumer' = [c \in Consumer |-> [at |-> "gone"]]
  /\ UNCHANGED <<tailIndex, headIndex, countVars, tailBlock, slot, elementsCompletelyDequeued, indexVars>>

Next ==
  /\ \/ enqueue \/ (\E n \in BulkSize : enqueue_bulk(n)) \/ EnqueueStep
     \/ \E c \in Consumer :
          dequeue(c) \/ (\E max \in BulkSize : dequeue_bulk(c, max)) \/ DequeueStep(c)
     \/ Destroy
  /\ UNCHANGED setup

Spec == Init /\ [][Next]_vars

-----------------------------------------------------------------------------
(* Properties *)

ImplicitTypeOK ==
  /\ {tailIndex, headIndex, dequeueOptimisticCount, dequeueOvercommit} \subseteq Index
  /\ tailBlock \in Block \cup {NoBlock}
  /\ slot \in [Block -> [0 .. (BLOCK_SIZE - 1) -> Index \cup {Empty}]]
  /\ elementsCompletelyDequeued \in [Block -> 0 .. BLOCK_SIZE]
  /\ entry \in [Entry -> [key : Index, value : Block \cup {NoBlock}]]
  /\ free \in [Block -> {0, 1}]

\* The lock-free search finds the block of the item, although the producer
\* extends, rewinds and replaces the index meanwhile.
LookupsSucceed ==
  \A c \in Consumer :
    ConsumerAt(c, "find") =>
      LET k == consumer[c]
          e == entry[header[k.h].index[Locate(header[k.h], k.t, Base(k.index))]]
      IN  /\ entry[header[k.h].index[k.t]].key # INVALID_BLOCK_BASE
          /\ e.key = Base(k.index) /\ e.value # NoBlock

\* A consumer gets the items of the indices it took, each once, from a block
\* that nobody has freed: in a bulk also after it has moved on to other blocks.
TakesOwnItems ==
  \A c \in Consumer :
    ConsumerAt(c, "take") =>
      LET b == entry[EntryAt(c)].value IN
        /\ b # NoBlock
        /\ free[b] = 0
        /\ \A i \in TakenHere(c) : slot[b][i % BLOCK_SIZE] = i

\* After an enqueue that failed and was undone, too, the entry at the tail of the
\* index is that of the last item.  (Not so once the items are gone: an undone
\* bulk may have taken that entry for another base.)
IndexFollowsTail ==
  producer = Idle /\ headIndex # tailIndex =>
    entry[blockIndex.index[blockIndex.tail]].key = Base(Minus(tailIndex, 1))

=============================================================================

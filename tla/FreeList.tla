------------------------------ MODULE FreeList ------------------------------
(***************************************************************************)
(* Where the blocks of moodycamel::ConcurrentQueue come from and go to:    *)
(* the pool made by the constructor, the lock-free free list with its      *)
(* reference counts, and the allocator.                                    *)
(*                                                                         *)
(* A step makes one access to a shared variable; the load of a reference   *)
(* count and the CAS that increments it are one step (one that fails       *)
(* starts again as if it had not been tried).                              *)
(***************************************************************************)
EXTENDS Integers, Sequences, FiniteSets

CONSTANTS
  Thread,
  PoolBlock,                 \* initialBlockPool, a sequence of blocks
  HeapBlock,                 \* blocks that create may allocate
  NoBlock,                   \* nullptr
  SHOULD_BE_ON_FREELIST      \* the flag bit, above every reference count

FreeListAssumption == SHOULD_BE_ON_FREELIST > Cardinality(Thread) + 1

InPool == {PoolBlock[i] : i \in DOMAIN PoolBlock}
Block == InPool \cup HeapBlock

VARIABLES
  freeListHead, freeListNext, freeListRefs,
  initialBlockPoolIndex,
  heap,                      \* blocks not allocated yet
  own,                       \* the blocks that each thread has
  thread                     \* progress of each thread

vars == <<freeListHead, freeListNext, freeListRefs, initialBlockPoolIndex, heap, own, thread>>
listVars == <<freeListHead, freeListNext, freeListRefs>>
poolVars == <<initialBlockPoolIndex, heap>>

Idle == [at |-> "idle"]

Init ==
  /\ freeListHead = NoBlock
  /\ freeListNext = [b \in Block |-> NoBlock]
  /\ freeListRefs = [b \in Block |-> 0]
  /\ initialBlockPoolIndex = 0
  /\ heap = HeapBlock
  /\ own = [t \in Thread |-> {}]
  /\ thread = [t \in Thread |-> Idle]

At(t, at) == thread[t].at = at
Goto(t, r) == thread' = [thread EXCEPT ![t] = r]
Gets(t, b) == own' = [own EXCEPT ![t] = @ \cup {b}]
Refs(b, n) == freeListRefs' = [freeListRefs EXCEPT ![b] = n]

-----------------------------------------------------------------------------
(* requisition_block: the initial pool *)

requisition_block(t) ==
  /\ At(t, "idle")
  /\ Goto(t, [at |-> IF initialBlockPoolIndex >= Len(PoolBlock) THEN "head" ELSE "bump"])
  /\ UNCHANGED <<listVars, poolVars, own>>

try_get_block_from_initial_pool(t) ==
  /\ At(t, "bump")
  /\ initialBlockPoolIndex' = initialBlockPoolIndex + 1
  /\ IF initialBlockPoolIndex < Len(PoolBlock)
       THEN Gets(t, PoolBlock[initialBlockPoolIndex + 1]) /\ Goto(t, Idle)
       ELSE Goto(t, [at |-> "head"]) /\ UNCHANGED own
  /\ UNCHANGED <<listVars, heap>>

\* create<Block>, if allowed and successful.
Create(t) ==
  /\ At(t, "create")
  /\ \/ \E b \in heap : Gets(t, b) /\ heap' = heap \ {b}
     \/ UNCHANGED <<own, heap>>
  /\ Goto(t, Idle)
  /\ UNCHANGED <<listVars, initialBlockPoolIndex>>

-----------------------------------------------------------------------------
(* try_get *)

\* The loop goes on with the head h.
Try(h) == IF h = NoBlock THEN [at |-> "create"] ELSE [at |-> "ref", head |-> h]

LoadHead(t) ==
  /\ At(t, "head")
  /\ Goto(t, Try(freeListHead))
  /\ UNCHANGED <<listVars, poolVars, own>>

Count(refs) == refs % SHOULD_BE_ON_FREELIST

\* Mutants: a count of zero is incremented, too; or waited for.
ReferenceAny(t) ==
  /\ At(t, "ref")
  /\ Refs(thread[t].head, freeListRefs[thread[t].head] + 1)
  /\ Goto(t, [at |-> "next", head |-> thread[t].head])
  /\ UNCHANGED <<freeListHead, freeListNext, poolVars, own>>
ReferenceWait(t) ==
  /\ At(t, "ref")
  /\ IF Count(freeListRefs[thread[t].head]) = 0
       THEN UNCHANGED <<thread, freeListRefs>>
       ELSE /\ Refs(thread[t].head, freeListRefs[thread[t].head] + 1)
            /\ Goto(t, [at |-> "next", head |-> thread[t].head])
  /\ UNCHANGED <<freeListHead, freeListNext, poolVars, own>>

\* A reference is taken, unless the node has none.
Reference(t) ==
  /\ At(t, "ref")
  /\ IF Count(freeListRefs[thread[t].head]) = 0
       THEN Goto(t, [at |-> "head"]) /\ UNCHANGED freeListRefs
       ELSE /\ Refs(thread[t].head, freeListRefs[thread[t].head] + 1)
            /\ Goto(t, [at |-> "next", head |-> thread[t].head])
  /\ UNCHANGED <<freeListHead, freeListNext, poolVars, own>>

LoadNext(t) ==
  /\ At(t, "next")
  /\ Goto(t, [at |-> "cas", head |-> thread[t].head, next |-> freeListNext[thread[t].head]])
  /\ UNCHANGED <<listVars, poolVars, own>>

\* The head is swung to the next node, or its new value is remembered.
TakeHead(t) ==
  /\ At(t, "cas")
  /\ IF freeListHead = thread[t].head
       THEN freeListHead' = thread[t].next /\ Goto(t, [at |-> "got", node |-> thread[t].head])
       ELSE /\ Goto(t, [at |-> "release", node |-> thread[t].head, head |-> freeListHead])
            /\ UNCHANGED freeListHead
  /\ UNCHANGED <<freeListNext, freeListRefs, poolVars, own>>

\* Our reference and that of the list are dropped.
Got(t) ==
  /\ At(t, "got")
  /\ Refs(thread[t].node, freeListRefs[thread[t].node] - 2)
  /\ Gets(t, thread[t].node)
  /\ Goto(t, Idle)
  /\ UNCHANGED <<freeListHead, freeListNext, poolVars>>

\* Who drops the last reference of a node that should be on the list adds it.
Release(t) ==
  /\ At(t, "release")
  /\ Refs(thread[t].node, freeListRefs[thread[t].node] - 1)
  /\ Goto(t, IF freeListRefs[thread[t].node] = SHOULD_BE_ON_FREELIST + 1
             THEN [at |-> "add", node |-> thread[t].node, then |-> Try(thread[t].head)]
             ELSE Try(thread[t].head))
  /\ UNCHANGED <<freeListHead, freeListNext, poolVars, own>>

try_get(t) ==
  LoadHead(t) \/ Reference(t) \/ LoadNext(t) \/ TakeHead(t) \/ Got(t) \/ Release(t)

-----------------------------------------------------------------------------
(* add, add_knowing_refcount_is_zero *)

add(t, b) ==
  /\ At(t, "idle")
  /\ b \in own[t]
  /\ own' = [own EXCEPT ![t] = @ \ {b}]
  /\ Refs(b, freeListRefs[b] + SHOULD_BE_ON_FREELIST)
  /\ Goto(t, IF freeListRefs[b] = 0 THEN [at |-> "add", node |-> b, then |-> Idle] ELSE Idle)
  /\ UNCHANGED <<freeListHead, freeListNext, poolVars>>

AddLoadHead(t) ==
  /\ At(t, "add")
  /\ Goto(t, [at |-> "setnext", node |-> thread[t].node, head |-> freeListHead, then |-> thread[t].then])
  /\ UNCHANGED <<listVars, poolVars, own>>

SetNext(t) ==
  /\ At(t, "setnext")
  /\ freeListNext' = [freeListNext EXCEPT ![thread[t].node] = thread[t].head]
  /\ Goto(t, [thread[t] EXCEPT !.at = "setrefs"])
  /\ UNCHANGED <<freeListHead, freeListRefs, poolVars, own>>

SetRefs(t) ==
  /\ At(t, "setrefs")
  /\ Refs(thread[t].node, 1)
  /\ Goto(t, [thread[t] EXCEPT !.at = "push"])
  /\ UNCHANGED <<freeListHead, freeListNext, poolVars, own>>

Push(t) ==
  /\ At(t, "push")
  /\ IF freeListHead = thread[t].head
       THEN freeListHead' = thread[t].node /\ Goto(t, thread[t].then)
       ELSE /\ Goto(t, [thread[t] EXCEPT !.at = "failed", !.head = freeListHead])
            /\ UNCHANGED freeListHead
  /\ UNCHANGED <<freeListNext, freeListRefs, poolVars, own>>

\* The flag is set again; if others took a reference meanwhile, the last of them
\* will add the node.
PushFailed(t) ==
  /\ At(t, "failed")
  /\ Refs(thread[t].node, freeListRefs[thread[t].node] + SHOULD_BE_ON_FREELIST - 1)
  /\ Goto(t, IF freeListRefs[thread[t].node] = 1 THEN [thread[t] EXCEPT !.at = "setnext"]
                                                 ELSE thread[t].then)
  /\ UNCHANGED <<freeListHead, freeListNext, poolVars, own>>

add_knowing_refcount_is_zero(t) ==
  AddLoadHead(t) \/ SetNext(t) \/ SetRefs(t) \/ Push(t) \/ PushFailed(t)

ThreadStep(t) ==
  \/ try_get_block_from_initial_pool(t) \/ Create(t)
  \/ try_get(t) \/ add_knowing_refcount_is_zero(t)

Next == \E t \in Thread :
  \/ requisition_block(t)
  \/ \E b \in Block : add(t, b)
  \/ ThreadStep(t)

Spec == Init /\ [][Next]_vars

\* Threads inside an operation keep running.
FairSpec == Spec /\ \A t \in Thread : WF_vars(ThreadStep(t))

-----------------------------------------------------------------------------
(* Properties *)

FreeListTypeOK ==
  /\ freeListHead \in Block \cup {NoBlock}
  /\ freeListNext \in [Block -> Block \cup {NoBlock}]
  /\ freeListRefs \in [Block -> 0 .. (SHOULD_BE_ON_FREELIST + Cardinality(Thread) + 1)]
  /\ heap \subseteq HeapBlock
  /\ own \in [Thread -> SUBSET Block]

\* The nodes met from the head on, as far as a walk gets.
OnList ==
  LET walk[k \in 0 .. Cardinality(Block)] ==
        IF k = 0 THEN freeListHead
        ELSE IF walk[k - 1] = NoBlock THEN NoBlock ELSE freeListNext[walk[k - 1]]
  IN  {walk[k] : k \in 0 .. Cardinality(Block)} \ {NoBlock}

\* A thread has a block from the moment it has swung the head past it.
Owned(t) == own[t] \cup (IF At(t, "got") THEN {thread[t].node} ELSE {})

\* No block is given to two threads, or to one while it is on the list or still
\* to be allocated, whatever node is taken and put back between the load of the
\* head, that of the next node and the CAS (the ABA problem).
OwnedOnce ==
  \A t \in Thread, b \in Block :
    b \in Owned(t) =>
      /\ b \notin OnList \cup heap
      /\ \A u \in Thread \ {t} : b \notin Owned(u)

\* No block is lost: when no operation is under way, what no thread has and what
\* was handed out before is on the list, with the list's reference only; no
\* thread has left the addition of a node to somebody who was already gone.
NoneLost ==
  (\A t \in Thread : thread[t] = Idle) =>
    LET out == heap \cup {PoolBlock[i] : i \in {j \in DOMAIN PoolBlock : j > initialBlockPoolIndex}}
        held == UNION {own[t] : t \in Thread}
    IN  /\ OnList = Block \ (out \cup held)
        /\ \A b \in Block : freeListRefs[b] = IF b \in OnList THEN 1 ELSE 0

\* assert((head->freeListRefs & SHOULD_BE_ON_FREELIST) == 0): nobody can have put
\* back a node that only the one who took it knows to be off the list.
TakenNotFlagged ==
  \A t \in Thread : At(t, "got") => freeListRefs[thread[t].node] < SHOULD_BE_ON_FREELIST

\* The index of the initial pool, which every requisition may increment, runs
\* past the pool by one per thread at most and so never wraps.
PoolIndexBounded == initialBlockPoolIndex <= Len(PoolBlock) + Cardinality(Thread)

\* Lock-freedom: a thread whose operation never ends is kept from it by others
\* that begin and end operations for ever, not by one that has stopped.
LockFree ==
  \A t \in Thread :
    <>[](~ At(t, "idle")) =>
      /\ []<>(\E u \in Thread \ {t} : ~ At(u, "idle"))
      /\ []<>(\E u \in Thread \ {t} : At(u, "idle"))

\* A block is in one place, and in one only, whatever the threads do.
FreeListInv == FreeListTypeOK /\ OwnedOnce /\ NoneLost /\ TakenNotFlagged /\ PoolIndexBounded
=============================================================================

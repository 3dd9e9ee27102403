------------------------------ MODULE MCParts -------------------------------
(* Three parts of the program whose operations do not use each other, for TLC: *)
(* the free list of blocks and the list and hash tables of producers of the    *)
(* move queue, and MD5.  The variable part says which one a behaviour is of;   *)
(* the variables of the other ones do not exist.                               *)
EXTENDS Integers, Sequences, FiniteSets

CONSTANTS
  t1, t2, t3, p1,
  Thread, FreeListUser,
  HeapBlock, NoBlock, SHOULD_BE_ON_FREELIST,
  NoThread, INITIAL_IMPLICIT_PRODUCER_HASH_SIZE, MaxTables, MaxProducers,
  CountMod, MaxLength, UpdateLength

VARIABLES
  part,
  freeListThread, freeListHead, freeListNext, freeListRefs, initialBlockPoolIndex, heap, own,
  thread, use, table, implicitProducerHashCount, implicitProducerHashResizeInProgress, list,
  producerCount, token,
  state, count, buffer, finalized, digest, length

MCPool == <<p1>>

\* Two of three threads have colliding hash codes.
MCHashed == [t \in Thread |-> IF t \in {t1, t2} THEN 1 ELSE 3]

\* Three threads without tokens, or two that may use tokens as well.
MCUse ==
  { [t \in Thread |-> {"implicit"}],
    [t \in Thread |-> IF t \in {t1, t2} THEN {"implicit", "token"} ELSE {}] }

\* The alphabet over and over.
MCMessage(n) == [i \in 1 .. n |-> 97 + ((i - 1) % 26)]

Free == INSTANCE FreeList WITH Thread <- FreeListUser, PoolBlock <- MCPool, thread <- freeListThread
Prod == INSTANCE Producers WITH hashed <- MCHashed, Use <- MCUse
Hash == INSTANCE MD5 WITH Message <- MCMessage

ASSUME Free!FreeListAssumption /\ Prod!ProducersAssumption /\ Hash!MD5Assumption

freeVars == <<freeListThread, freeListHead, freeListNext, freeListRefs, initialBlockPoolIndex, heap, own>>
prodVars == <<thread, use, table, implicitProducerHashCount, implicitProducerHashResizeInProgress, list,
              producerCount, token>>
hashVars == <<state, count, buffer, finalized, digest, length>>
vars == <<part, freeVars, prodVars, hashVars>>

NoFreeList ==
  /\ freeListThread = [t \in FreeListUser |-> Free!Idle]
  /\ freeListHead = NoBlock /\ freeListNext = <<>> /\ freeListRefs = <<>>
  /\ initialBlockPoolIndex = 0 /\ heap = {} /\ own = <<>>

NoProducers ==
  /\ thread = [t \in Thread |-> Prod!Idle] /\ use = <<>> /\ table = <<>>
  /\ implicitProducerHashCount = 0 /\ implicitProducerHashResizeInProgress = FALSE
  /\ list = <<>> /\ producerCount = 0 /\ token = <<>>

NoHash ==
  state = <<>> /\ count = <<>> /\ buffer = <<>> /\ finalized = FALSE /\ digest = <<>> /\ length = 0

Init ==
  \/ part = "freeList" /\ Free!Init /\ NoProducers /\ NoHash
  \/ part = "producers" /\ Prod!Init /\ NoFreeList /\ NoHash
  \/ part = "md5" /\ Hash!Init /\ NoFreeList /\ NoProducers

Next ==
  \/ part = "freeList" /\ Free!Next /\ UNCHANGED <<part, prodVars, hashVars>>
  \/ part = "producers" /\ Prod!Next /\ UNCHANGED <<part, freeVars, hashVars>>
  \/ part = "md5" /\ Hash!Next /\ UNCHANGED <<part, freeVars, prodVars>>

\* A step of a thread that is inside an operation of the queue.
ThreadStep(t) ==
  \/ /\ part = "freeList" /\ t \in FreeListUser /\ Free!ThreadStep(t)
     /\ UNCHANGED <<part, prodVars, hashVars>>
  \/ /\ part = "producers" /\ Prod!ThreadStep(t)
     /\ UNCHANGED <<part, use, freeVars, hashVars>>

FairSpec == Init /\ [][Next]_vars /\ \A t \in Thread : WF_vars(ThreadStep(t))

-----------------------------------------------------------------------------
(* The properties of the parts *)

\* No block of the queue is given to two threads by try_get, or lost between a
\* thread that adds it and those that still refer to it, whatever happens between
\* its loads and its CAS.
FreeListInv == part = "freeList" => Free!FreeListInv

\* An operation on the free list is held up only by the progress of others.
LockFree == part = "freeList" => Free!LockFree

\* get_or_add_implicit_producer never gives a thread a second producer, no two
\* live tokens share one, every hash table keeps an empty slot at which a probe
\* ends, and failed allocations and lost races leave the counts right.
ProducersInv == part = "producers" => Prod!ProducersInv

\* Nobody waits for a growth of the hash that is over.
NoWaitForNobody == part = "producers" => Prod!NoWaitForNobody

\* The digest is that of the padded message, however it was cut into updates, and
\* the number that places a key is that of RFC 1321's digest.
DigestRight == part = "md5" => Hash!DigestRight
=============================================================================

---------------------------- MODULE ProducerBase ----------------------------
(***************************************************************************)
(* A sub-queue of the move queue of either kind: what ProducerBase         *)
(* dispatches on isExplicit to.  The members of the other kind do not      *)
(* exist.                                                                  *)
(***************************************************************************)
EXTENDS SubQueue

CONSTANTS
  IMPLICIT_INITIAL_INDEX_SIZE, EXPLICIT_INITIAL_INDEX_SIZE, MaxHeaders,
  BulkFails, BoundaryThrows,
  ExplicitItems, ExplicitBulk    \* MaxItems and BulkSize of an explicit producer

VARIABLES
  isExplicit,
  header,
  elementsCompletelyDequeued, entry,
  emptyFlags, next, pr_blockIndexSlotsUsed, pr_blockIndexFront

Implicit == INSTANCE ImplicitProducer
Explicit == INSTANCE ExplicitProducer WITH MaxItems <- ExplicitItems, BulkSize <- ExplicitBulk

ASSUME Implicit!ImplicitAssumption /\ Explicit!ExplicitAssumption

implicitOnly == <<elementsCompletelyDequeued, entry>>
explicitOnly == <<emptyFlags, next, pr_blockIndexSlotsUsed, pr_blockIndexFront>>
vars == <<isExplicit, setup, tailIndex, headIndex, countVars, tailBlock, slot, free, header,
          producer, consumer, implicitOnly, explicitOnly>>

Init ==
  \/ /\ isExplicit = FALSE
     /\ Implicit!Init
     /\ emptyFlags = <<>> /\ next = <<>> /\ pr_blockIndexSlotsUsed = 0 /\ pr_blockIndexFront = 0
  \/ /\ isExplicit = TRUE
     /\ Explicit!Init
     /\ elementsCompletelyDequeued = <<>> /\ entry = <<>>

Next ==
  \/ ~isExplicit /\ Implicit!Next /\ UNCHANGED <<isExplicit, explicitOnly>>
  \/ isExplicit /\ Explicit!Next /\ UNCHANGED <<isExplicit, implicitOnly>>

Spec == Init /\ [][Next]_vars

-----------------------------------------------------------------------------
(* Properties *)

ProducerTypeOK ==
  /\ isExplicit \in BOOLEAN
  /\ IF isExplicit THEN Explicit!ExplicitTypeOK ELSE Implicit!ImplicitTypeOK

\* Claims never reach past the tail, and each is taken or given back: no item is
\* promised to two consumers, and none becomes invisible.
ClaimsInv == ProducerTypeOK /\ ClaimsCovered /\ ClaimsAddUp

\* A consumer finds the blocks of the indices it took and gets their items, each
\* once, although the producer extends, rewinds and replaces the index, frees
\* blocks or uses them and their entries again meanwhile.
TakesOwnItems ==
  IF isExplicit THEN Explicit!TakesFromRing ELSE Implicit!LookupsSucceed /\ Implicit!TakesOwnItems

\* The index leads to the items that are left, after an enqueue that failed and
\* was undone, too: every one has an entry that names its block, in the index of
\* a token; the entry at the tail is that of the last item, in an implicit one.
IndexLeadsToItems == IF isExplicit THEN Explicit!EntriesCoverItems ELSE Implicit!IndexFollowsTail

=============================================================================

---------------------------- MODULE ShardLemmas ----------------------------
(* What SMShard::subtract computes, for every pair of uint ranges. *)
EXTENDS Shards, TLAPS

\* A value that fits is not changed by the conversion to uint.
LEMMA WrapSame ==
  ASSUME NEW n \in UInt
  PROVE  Wrap(n) = n
  BY UIntAssumption DEF UInt, Wrap

\* No input of SMShard::subtract reaches its assert(false).
THEOREM AssertUnreachable ==
  ASSUME NEW a \in Shard, NEW b \in Shard
  PROVE  ~ReachesAssert(a, b)
  BY UIntAssumption
     DEF ReachesAssert, NoOverlap, TotalOverlap, StrictlyInside, Shard, UInt

\* SMShard::subtract returns shards whose chunks are exactly those of a that
\* are not in b, without any bound wrapping around, also when a or b is
\* inverted.
THEOREM SubtractDifference ==
  ASSUME NEW a \in Shard, NEW b \in Shard
  PROVE  /\ subtract(a, b) \subseteq Shard
         /\ SubtractExact(a, b)
<1>. USE UIntAssumption DEF Shard, UInt
<1>1. ASSUME a.lower < b.lower
      PROVE  Below(a, b) = [lower |-> a.lower, upper |-> b.lower - 1]
  BY <1>1, WrapSame DEF Below
<1>2. ASSUME b.upper < a.upper
      PROVE  Above(a, b) = [lower |-> b.upper + 1, upper |-> a.upper]
  BY <1>2, WrapSame DEF Above
<1>3. CASE NoOverlap(a, b)
  BY <1>3 DEF NoOverlap, subtract, SubtractExact, ChunksOf, Chunks
<1>4. CASE ~NoOverlap(a, b) /\ TotalOverlap(a, b)
  BY <1>4 DEF TotalOverlap, subtract, SubtractExact, ChunksOf, Chunks
<1>5. CASE ~NoOverlap(a, b) /\ ~TotalOverlap(a, b) /\ StrictlyInside(a, b)
  BY <1>1, <1>2, <1>5
     DEF NoOverlap, TotalOverlap, StrictlyInside, subtract, SubtractExact, ChunksOf, Chunks
<1>6. CASE /\ ~NoOverlap(a, b) /\ ~TotalOverlap(a, b) /\ ~StrictlyInside(a, b)
           /\ a.lower < b.lower
  BY <1>1, <1>6
     DEF NoOverlap, TotalOverlap, StrictlyInside, subtract, SubtractExact, ChunksOf, Chunks
<1>7. CASE /\ ~NoOverlap(a, b) /\ ~TotalOverlap(a, b) /\ ~StrictlyInside(a, b)
           /\ ~(a.lower < b.lower)
  BY <1>2, <1>7
     DEF NoOverlap, TotalOverlap, StrictlyInside, subtract, SubtractExact, ChunksOf, Chunks
<1>. QED  BY <1>3, <1>4, <1>5, <1>6, <1>7
=============================================================================

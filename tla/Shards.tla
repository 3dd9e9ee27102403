------------------------------- MODULE Shards -------------------------------
(***************************************************************************)
(* Chunk ranges (struct SMShard of utils.h) and the arithmetic on them.    *)
(*                                                                         *)
(* A shard is a pair of `uint` bounds, both inclusive.  A list of shards   *)
(* is a set here: no code path depends on the order of a server's shards,  *)
(* nor on one appearing twice.                                             *)
(***************************************************************************)
EXTENDS Integers

CONSTANT UIntMax        \* largest value of a `uint`, 2^32 - 1 in the program

ASSUME UIntAssumption == UIntMax \in Nat

UInt == 0 .. UIntMax

\* Conversion of an arithmetic result to `uint`.
Wrap(n) == n % (UIntMax + 1)

Shard == [lower : UInt, upper : UInt]

\* The chunks a shard, and a set of shards, stands for.
Chunks(a) == a.lower .. a.upper
ChunksOf(shards) == UNION {Chunks(a) : a \in shards}

-----------------------------------------------------------------------------
(* SMShard::subtract, one operator per test of the function. *)

NoOverlap(a, b) == a.upper < b.lower \/ b.upper < a.lower

TotalOverlap(a, b) == a.lower >= b.lower /\ a.upper <= b.upper

StrictlyInside(a, b) == a.lower < b.lower /\ a.upper > b.upper

\* Mutant: the range below keeps the first chunk of b.
BelowInclusive(a, b) == [lower |-> a.lower, upper |-> b.lower]

\* What of `a` is left below and above `b`.
Below(a, b) == [lower |-> a.lower, upper |-> Wrap(b.lower - 1)]
Above(a, b) == [lower |-> Wrap(b.upper + 1), upper |-> a.upper]

subtract(a, b) ==
  IF NoOverlap(a, b) THEN {a}
  ELSE IF TotalOverlap(a, b) THEN {}
  ELSE IF StrictlyInside(a, b) THEN {Below(a, b), Above(a, b)}
  ELSE IF a.lower < b.lower THEN {Below(a, b)}
  ELSE {Above(a, b)}

\* The call falls through every test and meets assert(false).
ReachesAssert(a, b) ==
  /\ ~NoOverlap(a, b)
  /\ ~TotalOverlap(a, b)
  /\ ~StrictlyInside(a, b)
  /\ ~(a.lower < b.lower)
  /\ ~(b.upper < a.upper)

\* subtract(a, b) stands for the chunks of a that are not chunks of b.
SubtractExact(a, b) == ChunksOf(subtract(a, b)) = Chunks(a) \ Chunks(b)
=============================================================================

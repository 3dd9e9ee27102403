------------------------- MODULE ShardMasterProofs -------------------------
(* Theorems about ShardMaster, for any servers, threads and NUM_CHUNKS. *)
EXTENDS ShardMaster, ShardLemmas, SequenceTheorems

-----------------------------------------------------------------------------
(* The ranges of redistributeChunks *)

LEMMA Quotient ==
  ASSUME NEW n \in 1 .. NumChunks
  PROVE  /\ NumChunks \div n \in Nat
         /\ NumChunks \div n >= 1
         /\ (NumChunks \div n) * n <= NumChunks
  BY ChunkAssumption, Z3

LEMMA MulMonotone ==
  ASSUME NEW q \in Nat, NEW i \in Nat, NEW j \in Nat, i <= j
  PROVE  q * i <= q * j /\ q * i \in Nat /\ q * (i + 1) = q * i + q
  BY Z3

\* With at most NUM_CHUNKS servers, no bound wraps.
LEMMA EvenBounds ==
  ASSUME NEW n \in 1 .. NumChunks, NEW i \in 0 .. (n - 1)
  PROVE  LET q == NumChunks \div n IN
         /\ EvenShard(n, i) \in Shard
         /\ EvenShard(n, i).lower = q * i
         /\ EvenShard(n, i).upper =
              IF i = n - 1 THEN NumChunks ELSE q * (i + 1) - 1
         /\ EvenShard(n, i).upper <= NumChunks
<1>. DEFINE q == NumChunks \div n
<1>1. q \in Nat /\ q >= 1 /\ q * n <= NumChunks
  BY Quotient
<1>2. q * i \in Nat /\ q * i <= q * n /\ q * (i + 1) = q * i + q
  BY <1>1, MulMonotone, ChunkAssumption
<1>3. q * (i + 1) <= q * n
  BY <1>1, MulMonotone, ChunkAssumption
<1>. HIDE DEF q
<1>4. q * i \in UInt
  BY <1>1, <1>2, ChunkAssumption, UIntAssumption DEF UInt
<1>5. q * (i + 1) - 1 \in UInt /\ q * (i + 1) - 1 <= NumChunks
  BY <1>1, <1>2, <1>3, ChunkAssumption, UIntAssumption DEF UInt
<1>6. NumChunks \in UInt
  BY ChunkAssumption, UIntAssumption DEF UInt
<1>7. Wrap(q * i) = q * i /\ Wrap(q * (i + 1) - 1) = q * (i + 1) - 1
  BY <1>4, <1>5, WrapSame
<1>8. EvenShard(n, i) =
        [lower |-> q * i, upper |-> IF i = n - 1 THEN NumChunks ELSE q * (i + 1) - 1]
  BY <1>7 DEF EvenShard, q
<1>. QED
  BY <1>4, <1>5, <1>6, <1>8, ChunkAssumption DEF Shard, q

\* They do not overlap.
LEMMA EvenDisjoint ==
  ASSUME NEW n \in 1 .. NumChunks, NEW i \in 0 .. (n - 1), NEW j \in 0 .. (n - 1),
         i < j
  PROVE  Chunks(EvenShard(n, i)) \cap Chunks(EvenShard(n, j)) = {}
<1>. DEFINE q == NumChunks \div n
<1>1. q \in Nat /\ q >= 1
  BY Quotient
<1>2. q * (i + 1) <= q * j /\ q * j \in Nat /\ q * (i + 1) \in Nat
  BY <1>1, MulMonotone, ChunkAssumption
<1>3. EvenShard(n, i).upper = q * (i + 1) - 1
  BY EvenBounds, ChunkAssumption
<1>4. EvenShard(n, j).lower = q * j
  BY EvenBounds
<1>5. EvenShard(n, i) \in Shard /\ EvenShard(n, j) \in Shard
  BY EvenBounds
<1>. HIDE DEF q
<1>. QED
  BY <1>1, <1>2, <1>3, <1>4, <1>5 DEF Chunks, Shard, UInt

-----------------------------------------------------------------------------
(* Types *)

\* What erasing an entry leaves: the entries before it and those after it.
LEMMA EraseEntry ==
  ASSUME NEW S, NEW seq \in Seq(S), NEW i \in 1 .. Len(seq)
  PROVE  /\ RemoveAt(seq, i) \in Seq(S)
         /\ Len(RemoveAt(seq, i)) = Len(seq) - 1
         /\ \A j \in 1 .. (Len(seq) - 1) :
              RemoveAt(seq, i)[j] = IF j < i THEN seq[j] ELSE seq[j + 1]
<1>. DEFINE pre == SubSeq(seq, 1, i - 1)
            post == SubSeq(seq, i + 1, Len(seq))
<1>1. pre \in Seq(S) /\ Len(pre) = i - 1 /\ \A j \in 1 .. (i - 1) : pre[j] = seq[j]
  OBVIOUS
<1>2. /\ post \in Seq(S) /\ Len(post) = Len(seq) - i
      /\ \A j \in 1 .. (Len(seq) - i) : post[j] = seq[i + j]
  OBVIOUS
<1>3. RemoveAt(seq, i) = pre \o post
  BY DEF RemoveAt
<1>. HIDE DEF pre, post
<1>4. /\ pre \o post \in Seq(S)
      /\ Len(pre \o post) = Len(pre) + Len(post)
      /\ \A j \in 1 .. (Len(pre) + Len(post)) :
           (pre \o post)[j] = IF j <= Len(pre) THEN pre[j] ELSE post[j - Len(pre)]
  BY <1>1, <1>2, ConcatProperties
<1>5. Len(pre) + Len(post) = Len(seq) - 1
  BY <1>1, <1>2
<1>6. \A j \in 1 .. (Len(seq) - 1) :
        (pre \o post)[j] = IF j < i THEN seq[j] ELSE seq[j + 1]
  BY <1>1, <1>2, <1>4, <1>5
<1>. QED  BY <1>3, <1>4, <1>5, <1>6

\* Move leaves every entry with proper shards: the chunks it had without those
\* of the range, and all of the range if the entry is the target's.
LEMMA AfterMoveChunks ==
  ASSUME NEW e \in ConfigEntry, NEW s \in Server, NEW m \in MoveShard
  PROVE  /\ AfterMove(e, s, m) \subseteq Shard
         /\ ChunksOf(AfterMove(e, s, m)) =
              (ChunksOf(e.shards) \ Chunks(m))
                \cup (IF e.vs_addr = s THEN Chunks(m) ELSE {})
<1>1. m \in Shard /\ e.shards \subseteq Shard
  BY MoveAssumption DEF ConfigEntry
<1>2. \A a \in e.shards : /\ subtract(a, m) \subseteq Shard
                          /\ ChunksOf(subtract(a, m)) = Chunks(a) \ Chunks(m)
  BY <1>1, SubtractDifference DEF SubtractExact
<1>3. ChunksOf(UNION {subtract(a, m) : a \in e.shards}) = ChunksOf(e.shards) \ Chunks(m)
  BY <1>2 DEF ChunksOf
<1>. QED
  BY <1>1, <1>2, <1>3 DEF AfterMove, ChunksOf

\* A function on the domain of a sequence is a sequence of the same length.
LEMMA SameLengthSeq ==
  ASSUME NEW S, NEW seq \in Seq(S), NEW new,
         new = [i \in DOMAIN seq |-> new[i]], \A i \in DOMAIN seq : new[i] \in S
  PROVE  new \in Seq(S) /\ Len(new) = Len(seq) /\ DOMAIN new = DOMAIN seq
<1>1. Len(seq) \in Nat /\ DOMAIN seq = 1 .. Len(seq)
  BY LenProperties
<1>2. new \in [1 .. Len(seq) -> S]
  BY <1>1
<1>3. new \in Seq(S)
  BY <1>1, <1>2, SeqDef
<1>4. Len(new) \in Nat /\ DOMAIN new = 1 .. Len(new)
  BY <1>3, LenProperties
<1>. QED
  BY <1>1, <1>2, <1>3, <1>4

LEMMA EntryType ==
  ASSUME sm_config \in Seq(ConfigEntry), NEW i \in DOMAIN sm_config
  PROVE  /\ sm_config[i] \in ConfigEntry
         /\ sm_config[i].vs_addr \in Server /\ sm_config[i].shards \in SUBSET Shard
<1>1. sm_config[i] \in ConfigEntry
  BY ElementOfSeq, LenProperties
<1>. QED
  BY <1>1 DEF ConfigEntry

LEMMA UnderScansType ==
  ASSUME glimpse \in [Thread -> SUBSET {"found", "missing"}], MoveUnderScans
  PROVE  glimpse' \in [Thread -> SUBSET {"found", "missing"}]
  BY DEF MoveUnderScans, MemberLookup

LEMMA TypeInit == SMInit => SMTypeOK
<1>. SUFFICES ASSUME SMInit PROVE SMTypeOK
  OBVIOUS
<1>1. sm_config \in Seq(ConfigEntry) /\ Len(sm_config) <= MaxEntries /\ config_num \in Nat
  BY BoundAssumption DEF SMInit
<1>2. call \in [Thread -> Call]
  BY DEF SMInit, Call
<1>3. glimpse \in [Thread -> SUBSET {"found", "missing"}] /\ \A t \in Thread : glimpse[t] = {}
  BY DEF SMInit
<1>. QED  BY <1>1, <1>2, <1>3 DEF SMTypeOK, Scanning

LEMMA TypeStep == SMTypeOK /\ [SMNext]_smVars => SMTypeOK'
<1>. SUFFICES ASSUME SMTypeOK, [SMNext]_smVars PROVE SMTypeOK'
  OBVIOUS
<1>. USE DEF SMTypeOK
<1>1. CASE UNCHANGED smVars
  BY <1>1 DEF smVars, Scanning
<1>2. ASSUME NEW t \in Thread, NEW s \in Server, Join(t, s)
      PROVE  SMTypeOK'
  BY <1>2 DEF Join, Call, Idle, Scanning
<1>3. ASSUME NEW t \in Thread, JoinScan(t)
      PROVE  SMTypeOK'
  BY <1>3 DEF JoinScan, EndScan, ScanFinds, MemberLookup, Call, Idle, Scanning
<1>4. ASSUME NEW t \in Thread, JoinPush(t)
      PROVE  SMTypeOK'
  <2>1. call[t].server \in Server
    BY <1>4 DEF JoinPush, Call, Idle
  <2>2. sm_config' \in Seq(ConfigEntry) /\ Len(sm_config') = Len(sm_config) + 1
    <3>. DEFINE e == [vs_addr |-> call[t].server, shards |-> {}]
    <3>1. e \in ConfigEntry
      BY <2>1 DEF ConfigEntry
    <3>2. sm_config' = Append(sm_config, e)
      BY <1>4 DEF JoinPush
    <3>. HIDE DEF e
    <3>. QED  BY <3>1, <3>2, AppendProperties
  <2>3. call' \in [Thread -> Call]
    BY <1>4, <2>1 DEF JoinPush, Call
  <2>4. glimpse' \in [Thread -> SUBSET {"found", "missing"}]
    BY <1>4, UnderScansType DEF JoinPush
  <2>5. \A u \in Thread \ Scanning' : glimpse'[u] = {}
    BY <1>4 DEF JoinPush, MoveUnderScans, Scanning
  <2>. QED
    BY <1>4, <2>2, <2>3, <2>4, <2>5, BoundAssumption DEF JoinPush
<1>5. ASSUME NEW t \in Thread, NEW s \in Server, Leave(t, s)
      PROVE  SMTypeOK'
  <2>1. sm_config' \in Seq(ConfigEntry) /\ Len(sm_config') = Len(sm_config) - 1
    <3>1. PICK i \in DOMAIN sm_config : sm_config' = RemoveAt(sm_config, i)
      BY <1>5 DEF Leave
    <3>2. i \in 1 .. Len(sm_config)
      BY <3>1, LenProperties
    <3>. QED  BY <3>1, <3>2, EraseEntry
  <2>2. call' \in [Thread -> Call]
    BY <1>5 DEF Leave, Call
  <2>3. glimpse' \in [Thread -> SUBSET {"found", "missing"}]
    BY <1>5, UnderScansType DEF Leave
  <2>4. \A u \in Thread \ Scanning' : glimpse'[u] = {}
    BY <1>5 DEF Leave, MoveUnderScans, Scanning, Idle
  <2>. QED
    BY <1>5, <2>1, <2>2, <2>3, <2>4, BoundAssumption DEF Leave
<1>6. ASSUME NEW t \in Thread, NEW s \in Server, NEW m \in MoveShard, Move(t, s, m)
      PROVE  SMTypeOK'
  BY <1>6 DEF Move, Call, Idle, Scanning
<1>7. ASSUME NEW t \in Thread, MoveScan(t)
      PROVE  SMTypeOK'
  BY <1>7 DEF MoveScan, EndScan, ScanFinds, MemberLookup, Call, Idle, Scanning
<1>8. ASSUME NEW t \in Thread, MoveApply(t)
      PROVE  SMTypeOK'
  <2>1. call[t].server \in Server /\ call[t].shard \in MoveShard
    BY <1>8 DEF MoveApply, Call, Idle
  <2>2. sm_config' \in Seq(ConfigEntry) /\ Len(sm_config') = Len(sm_config)
    <3>. DEFINE e(i) == [vs_addr |-> sm_config[i].vs_addr,
                         shards |-> AfterMove(sm_config[i], call[t].server, call[t].shard)]
    <3>1. \A i \in DOMAIN sm_config : e(i) \in ConfigEntry
      BY <2>1, EntryType, AfterMoveChunks DEF ConfigEntry
    <3>2. sm_config' = [i \in DOMAIN sm_config |-> e(i)]
      BY <1>8 DEF MoveApply
    <3>. HIDE DEF e
    <3>. QED  BY <3>1, <3>2, SameLengthSeq
  <2>3. call' \in [Thread -> Call] /\ \A u \in Thread \ Scanning' : glimpse'[u] = {}
    BY <1>8 DEF MoveApply, Return, Call, Idle, Scanning
  <2>. QED
    BY <1>8, <2>2, <2>3 DEF MoveApply
<1>9. ASSUME NEW t \in Thread, redistributeChunks(t)
      PROVE  SMTypeOK'
  <2>1. sm_config' \in Seq(ConfigEntry) /\ Len(sm_config') = Len(sm_config)
    <3>. DEFINE e(i) == [vs_addr |-> sm_config[i].vs_addr,
                         shards |-> {EvenShard(Len(sm_config), i - 1)}]
    <3>1. \A i \in DOMAIN sm_config : EvenShard(Len(sm_config), i - 1) \in Shard
      BY LenProperties, EvenBounds, BoundAssumption, ChunkAssumption
    <3>2. \A i \in DOMAIN sm_config : e(i) \in ConfigEntry
      BY <3>1, EntryType DEF ConfigEntry
    <3>3. sm_config' = [i \in DOMAIN sm_config |-> e(i)]
      BY <1>9 DEF redistributeChunks
    <3>. HIDE DEF e
    <3>. QED  BY <3>2, <3>3, SameLengthSeq
  <2>2. call' \in [Thread -> Call] /\ \A u \in Thread \ Scanning' : glimpse'[u] = {}
    BY <1>9 DEF redistributeChunks, Return, Call, Idle, Scanning
  <2>. QED
    BY <1>9, <2>1, <2>2 DEF redistributeChunks
<1>. QED
  BY <1>1, <1>2, <1>3, <1>4, <1>5, <1>6, <1>7, <1>8, <1>9 DEF SMNext

\* The shard master's variables have their types, in every reachable state.
THEOREM TypeCorrect == SMSpec => []SMTypeOK
  BY TypeInit, TypeStep, PTL DEF SMSpec

-----------------------------------------------------------------------------
(* What the two kinds of changes under the old number leave of the entries *)

LEMMA PushEntries ==
  ASSUME SMTypeOK, NEW t \in Thread, JoinPush(t)
  PROVE  \A j \in DOMAIN sm_config' :
           \/ ChunksOf(sm_config'[j].shards) = {}
           \/ \E k \in DOMAIN sm_config : sm_config'[j] = sm_config[k]
<1>. DEFINE e == [vs_addr |-> call[t].server, shards |-> {}]
<1>0. sm_config \in Seq(ConfigEntry) /\ DOMAIN sm_config = 1 .. Len(sm_config)
        /\ Len(sm_config) \in Nat
  BY LenProperties DEF SMTypeOK
<1>1. sm_config' = Append(sm_config, e)
  BY DEF JoinPush
<1>2. call[t].server \in Server
  BY DEF JoinPush, SMTypeOK, Call, Idle
<1>3. e \in ConfigEntry /\ ChunksOf(e.shards) = {}
  BY <1>2 DEF ConfigEntry, ChunksOf
<1>. HIDE DEF e
<1>4. /\ DOMAIN sm_config' = 1 .. (Len(sm_config) + 1)
      /\ \A i \in 1 .. Len(sm_config) : sm_config'[i] = sm_config[i]
      /\ sm_config'[Len(sm_config) + 1] = e
  BY <1>0, <1>1, <1>3, AppendProperties, LenProperties
<1>5. \A j \in DOMAIN sm_config' :
        (j \in DOMAIN sm_config /\ sm_config'[j] = sm_config[j]) \/ sm_config'[j] = e
  BY <1>0, <1>4
<1>. QED
  BY <1>3, <1>5

LEMMA LeaveEntries ==
  ASSUME SMTypeOK, NEW t \in Thread, NEW s \in Server, Leave(t, s)
  PROVE  \A j \in DOMAIN sm_config' : \E k \in DOMAIN sm_config : sm_config'[j] = sm_config[k]
<1>0. sm_config \in Seq(ConfigEntry) /\ DOMAIN sm_config = 1 .. Len(sm_config)
        /\ Len(sm_config) \in Nat
  BY LenProperties DEF SMTypeOK
<1>1. PICK i \in DOMAIN sm_config : sm_config' = RemoveAt(sm_config, i)
  BY DEF Leave
<1>2. /\ sm_config' \in Seq(ConfigEntry) /\ Len(sm_config') = Len(sm_config) - 1
      /\ \A j \in 1 .. (Len(sm_config) - 1) :
           sm_config'[j] = IF j < i THEN sm_config[j] ELSE sm_config[j + 1]
  BY <1>0, <1>1, EraseEntry
<1>3. DOMAIN sm_config' = 1 .. (Len(sm_config) - 1)
  BY <1>2, LenProperties
<1>. SUFFICES ASSUME NEW j \in 1 .. (Len(sm_config) - 1)
              PROVE  \E k \in DOMAIN sm_config : sm_config'[j] = sm_config[k]
  BY <1>3
<1>4. j \in DOMAIN sm_config /\ j + 1 \in DOMAIN sm_config
  BY <1>0
<1>5. sm_config'[j] = sm_config[j] \/ sm_config'[j] = sm_config[j + 1]
  BY <1>2
<1>. QED
  BY <1>4, <1>5

-----------------------------------------------------------------------------
(* Exclusive ownership *)

LEMMA ExclusiveStep ==
  SMTypeOK /\ ExclusiveOwnership /\ [SMNext]_smVars => ExclusiveOwnership'
<1>. SUFFICES ASSUME SMTypeOK, ExclusiveOwnership, [SMNext]_smVars
              PROVE  ExclusiveOwnership'
  OBVIOUS
<1>0. sm_config \in Seq(ConfigEntry) /\ DOMAIN sm_config = 1 .. Len(sm_config)
        /\ Len(sm_config) \in Nat
  BY LenProperties DEF SMTypeOK
<1>1. CASE UNCHANGED sm_config
  BY <1>1 DEF ExclusiveOwnership
<1>2. ASSUME NEW t \in Thread, JoinPush(t)
      PROVE  ExclusiveOwnership'
  BY <1>2, PushEntries DEF ExclusiveOwnership
<1>3. ASSUME NEW t \in Thread, NEW s \in Server, Leave(t, s)
      PROVE  ExclusiveOwnership'
  BY <1>3, LeaveEntries DEF ExclusiveOwnership
<1>4. ASSUME NEW t \in Thread, MoveApply(t)
      PROVE  ExclusiveOwnership'
  <2>. DEFINE s == call[t].server
              m == call[t].shard
  <2>1. s \in Server /\ m \in MoveShard
    BY <1>4 DEF MoveApply, SMTypeOK, Call, Idle
  <2>2. /\ DOMAIN sm_config' = DOMAIN sm_config
        /\ \A i \in DOMAIN sm_config :
             /\ sm_config'[i].vs_addr = sm_config[i].vs_addr
             /\ sm_config'[i].shards = AfterMove(sm_config[i], s, m)
    BY <1>4 DEF MoveApply
  <2>. HIDE DEF s, m
  <2>3. \A i \in DOMAIN sm_config :
          ChunksOf(sm_config'[i].shards) =
            (ChunksOf(sm_config[i].shards) \ Chunks(m))
              \cup (IF sm_config[i].vs_addr = s THEN Chunks(m) ELSE {})
    BY <1>0, <2>1, <2>2, EntryType, AfterMoveChunks
  <2>. QED
    BY <2>2, <2>3 DEF ExclusiveOwnership
<1>5. ASSUME NEW t \in Thread, redistributeChunks(t)
      PROVE  ExclusiveOwnership'
  <2>1. /\ DOMAIN sm_config' = DOMAIN sm_config
        /\ \A i \in DOMAIN sm_config :
             sm_config'[i].shards = {EvenShard(Len(sm_config), i - 1)}
    BY <1>5 DEF redistributeChunks
  <2>2. \A i \in DOMAIN sm_config :
          ChunksOf(sm_config'[i].shards) = Chunks(EvenShard(Len(sm_config), i - 1))
    BY <2>1 DEF ChunksOf
  <2>3. \A i, j \in DOMAIN sm_config : i < j =>
          ChunksOf(sm_config'[i].shards) \cap ChunksOf(sm_config'[j].shards) = {}
    BY <1>0, <2>2, EvenDisjoint, BoundAssumption, ChunkAssumption DEF SMTypeOK
  <2>4. \A i, j \in DOMAIN sm_config : i = j \/ i < j \/ j < i
    BY <1>0
  <2>. QED
    BY <2>1, <2>3, <2>4 DEF ExclusiveOwnership
<1>. QED
  BY <1>1, <1>2, <1>3, <1>4, <1>5
     DEF SMNext, smVars, Join, JoinScan, Move, MoveScan

\* No chunk is ever owned by two servers, whatever requests overlap: the ranges
\* of redistributeChunks are disjoint, and Move takes its range from everybody
\* before it gives it to one.
THEOREM Exclusive == SMSpec => []ExclusiveOwnership
<1>1. SMInit => ExclusiveOwnership
  BY DEF SMInit, ExclusiveOwnership
<1>. QED
  BY <1>1, TypeCorrect, ExclusiveStep, PTL DEF SMSpec

-----------------------------------------------------------------------------
(* Gains are numbered *)

\* A step that leaves every chunk in an entry of the server that had it gives
\* nobody a chunk.
LEMMA NoGain ==
  ASSUME \A j \in DOMAIN sm_config' :
           \/ ChunksOf(sm_config'[j].shards) = {}
           \/ \E k \in DOMAIN sm_config : sm_config'[j] = sm_config[k]
  PROVE  \A s \in Server : Owned(s)' \subseteq Owned(s)
  BY DEF Owned

LEMMA GainStep ==
  ASSUME SMTypeOK, [SMNext]_smVars
  PROVE  /\ config_num' \in {config_num, config_num + 1}
         /\ \A s \in Server : Owned(s)' \subseteq Owned(s) \/ config_num' = config_num + 1
<1>1. CASE UNCHANGED <<sm_config, config_num>>
  BY <1>1 DEF Owned
<1>2. ASSUME NEW t \in Thread, JoinPush(t)
      PROVE  config_num' = config_num /\ \A s \in Server : Owned(s)' \subseteq Owned(s)
  <2>1. \A s \in Server : Owned(s)' \subseteq Owned(s)
    BY <1>2, PushEntries, NoGain
  <2>. QED
    BY <1>2, <2>1 DEF JoinPush
<1>3. ASSUME NEW t \in Thread, NEW u \in Server, Leave(t, u)
      PROVE  config_num' = config_num /\ \A s \in Server : Owned(s)' \subseteq Owned(s)
  <2>1. \A j \in DOMAIN sm_config' : \E k \in DOMAIN sm_config : sm_config'[j] = sm_config[k]
    BY <1>3, LeaveEntries
  <2>2. \A s \in Server : Owned(s)' \subseteq Owned(s)
    BY <2>1, NoGain
  <2>. QED
    BY <1>3, <2>2 DEF Leave
<1>4. ASSUME NEW t \in Thread, MoveApply(t) \/ redistributeChunks(t)
      PROVE  config_num' = config_num + 1
  BY <1>4 DEF MoveApply, redistributeChunks
<1>. QED
  BY <1>1, <1>2, <1>3, <1>4 DEF SMNext, smVars, Join, JoinScan, Move, MoveScan

\* No server gains a chunk under an old number: Join and Leave, which change
\* sm_config before config_num, only add an empty entry or drop one.
THEOREM Numbered == SMSpec => GainIsNumbered
<1>1. SMTypeOK /\ [SMNext]_smVars =>
        [/\ config_num' \in {config_num, config_num + 1}
         /\ \A s \in Server : Owned(s)' \subseteq Owned(s) \/ config_num' = config_num + 1
        ]_smVars
  BY GainStep
<1>. QED
  BY <1>1, TypeCorrect, PTL DEF SMSpec, GainIsNumbered
=============================================================================

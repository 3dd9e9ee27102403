----------------------------- MODULE ShardMaster -----------------------------
(***************************************************************************)
(* The shard master: gRPC handlers that run concurrently on the server's   *)
(* threads and share sm_config and config_num, guarded by mtx.             *)
(*                                                                         *)
(* A step is one critical section, or one access made outside mtx:         *)
(*                                                                         *)
(*   Join   scan for the address (no lock) | push_back | redistribute      *)
(*   Leave  find and erase                 | redistribute                  *)
(*   Move   scan for the address (no lock) | subtract, push, config_num++  *)
(*                                                                         *)
(* Query copies sm_config under mtx and QueryConfigNum reads config_num    *)
(* without it: their replies are the variables themselves, read in one     *)
(* step by the modules that poll the shard master.  A handler that returns *)
(* NOT_FOUND or ALREADY_EXISTS just becomes idle again.                    *)
(***************************************************************************)
EXTENDS Shards, Sequences, SequencesExt

CONSTANTS
  Server,         \* addresses of volume servers
  Thread,         \* handler threads of the gRPC server
  NumChunks,      \* NUM_CHUNKS; chunk ids are 0 .. NUM_CHUNKS
  Nobody,         \* the owner of a chunk that has none
  MoveShard,      \* ranges that Move requests ask for; any pair of uints
  MaxEntries,     \* bound: entries of sm_config
  MaxConfigNum    \* bound: configurations ever made

ASSUME ChunkAssumption ==
  NumChunks \in Nat \ {0} /\ NumChunks <= UIntMax

ASSUME MoveAssumption == MoveShard \subseteq Shard

ASSUME NobodyAssumption == Nobody \notin Server

\* With more entries than chunks the bounds of redistributeChunks wrap.
ASSUME BoundAssumption ==
  MaxEntries \in Nat /\ MaxEntries <= NumChunks /\ MaxConfigNum \in Nat

VARIABLES
  sm_config,      \* the configuration, in the order of joining
  config_num,     \* its number
  call,           \* what each handler thread is about to do
  glimpse         \* answers that a scan may give since sm_config moved under it

smVars == <<sm_config, config_num, call, glimpse>>

Chunk == 0 .. NumChunks

ConfigEntry == [vs_addr : Server, shards : SUBSET Shard]

Idle == [at |-> "idle"]

Call ==
  {Idle}
    \cup [at : {"joinScan", "push", "redistribute"}, server : Server]
    \cup [at : {"moveScan", "apply"}, server : Server, shard : MoveShard]

SMInit ==
  /\ sm_config = <<>>
  /\ config_num = 0
  /\ call = [t \in Thread |-> Idle]
  /\ glimpse = [t \in Thread |-> {}]

-----------------------------------------------------------------------------

Members == {sm_config[i].vs_addr : i \in DOMAIN sm_config}

\* Room for the configuration this request would make.
BelowBound ==
  config_num + Cardinality({t \in Thread : call[t].at # "idle"}) < MaxConfigNum

Scanning == {t \in Thread : call[t].at \in {"joinScan", "moveScan"}}

MemberLookup(s) == IF s \in Members THEN "found" ELSE "missing"

\* A push_back or an erase moves the entries under the loops over sm_config
\* that run outside mtx.  Such a loop finds what was there before, or misses
\* it (moved-from and shifted entries compare unequal).
MoveUnderScans ==
  glimpse' = [t \in Thread |->
                IF t \in Scanning
                  THEN glimpse[t] \cup {"missing", MemberLookup(call[t].server)}
                  ELSE glimpse[t]]

\* What the loop outside mtx finds when it ends.
ScanFinds(t) == glimpse[t] \cup {MemberLookup(call[t].server)}

EndScan(t) == glimpse' = [glimpse EXCEPT ![t] = {}]

Return(t) == call' = [call EXCEPT ![t] = Idle]

-----------------------------------------------------------------------------
(* redistributeChunks, the last step of Join and of Leave. *)

\* Mutant: the ranges of neighbours share a chunk.
EvenShardShared(num_vs, i) ==
  [lower |-> Wrap((NumChunks \div num_vs) * i),
   upper |-> IF i = num_vs - 1 THEN NumChunks
             ELSE Wrap((NumChunks \div num_vs) * (i + 1))]

\* Mutant: the last server does not get the remainder.
EvenShardNoRemainder(num_vs, i) ==
  [lower |-> Wrap((NumChunks \div num_vs) * i),
   upper |-> Wrap((NumChunks \div num_vs) * (i + 1) - 1)]

EvenShard(num_vs, i) ==
  [lower |-> Wrap((NumChunks \div num_vs) * i),
   upper |-> IF i = num_vs - 1
               THEN NumChunks
               ELSE Wrap((NumChunks \div num_vs) * (i + 1) - 1)]

\* Mutant: config_num++ is missing.
redistributeUnnumbered(t) ==
  /\ call[t].at = "redistribute"
  /\ sm_config' = [i \in DOMAIN sm_config |->
                     [vs_addr |-> sm_config[i].vs_addr,
                      shards |-> {EvenShard(Len(sm_config), i - 1)}]]
  /\ Return(t)
  /\ UNCHANGED <<config_num, glimpse>>

redistributeChunks(t) ==
  /\ call[t].at = "redistribute"
  /\ config_num' = config_num + 1
  /\ sm_config' = [i \in DOMAIN sm_config |->
                     [vs_addr |-> sm_config[i].vs_addr,
                      shards |-> {EvenShard(Len(sm_config), i - 1)}]]
  /\ Return(t)
  /\ UNCHANGED glimpse

-----------------------------------------------------------------------------
(* Join *)

Join(t, s) ==
  /\ call[t] = Idle
  /\ BelowBound
  /\ call' = [call EXCEPT ![t] = [at |-> "joinScan", server |-> s]]
  /\ UNCHANGED <<sm_config, config_num, glimpse>>

JoinScan(t) ==
  /\ call[t].at = "joinScan"
  /\ \E r \in ScanFinds(t) :
       call' = [call EXCEPT ![t] = IF r = "found" THEN Idle
                                   ELSE [@ EXCEPT !.at = "push"]]
  /\ EndScan(t)
  /\ UNCHANGED <<sm_config, config_num>>

\* Mutant: the new entry's vs_addr is not set.
JoinPushUnnamed(t) ==
  /\ call[t].at = "push"
  /\ Len(sm_config) < MaxEntries
  /\ sm_config' = Append(sm_config, [vs_addr |-> Nobody, shards |-> {}])
  /\ call' = [call EXCEPT ![t] = [at |-> "redistribute", server |-> call[t].server]]
  /\ MoveUnderScans
  /\ UNCHANGED config_num

JoinPush(t) ==
  /\ call[t].at = "push"
  /\ Len(sm_config) < MaxEntries
  /\ sm_config' = Append(sm_config, [vs_addr |-> call[t].server, shards |-> {}])
  /\ call' = [call EXCEPT ![t] = [at |-> "redistribute", server |-> call[t].server]]
  /\ MoveUnderScans
  /\ UNCHANGED config_num

-----------------------------------------------------------------------------
(* Leave *)

\* The first entry of s is the i-th.
FirstEntry(s, i) ==
  /\ sm_config[i].vs_addr = s
  /\ \A j \in 1 .. (i - 1) : sm_config[j].vs_addr # s

Leave(t, s) ==
  /\ call[t] = Idle
  /\ BelowBound
  /\ \E i \in DOMAIN sm_config :
       /\ FirstEntry(s, i)
       /\ sm_config' = RemoveAt(sm_config, i)
  /\ call' = [call EXCEPT ![t] = [at |-> "redistribute", server |-> s]]
  /\ MoveUnderScans
  /\ UNCHANGED config_num

-----------------------------------------------------------------------------
(* Move *)

Move(t, s, m) ==
  /\ call[t] = Idle
  /\ BelowBound
  /\ call' = [call EXCEPT ![t] = [at |-> "moveScan", server |-> s, shard |-> m]]
  /\ UNCHANGED <<sm_config, config_num, glimpse>>

MoveScan(t) ==
  /\ call[t].at = "moveScan"
  /\ \E r \in ScanFinds(t) :
       call' = [call EXCEPT ![t] = IF r = "found" THEN [@ EXCEPT !.at = "apply"]
                                   ELSE Idle]
  /\ EndScan(t)
  /\ UNCHANGED <<sm_config, config_num>>

\* The shards of an entry once range m has gone to server s.
AfterMove(entry, s, m) ==
  (UNION {subtract(a, m) : a \in entry.shards})
    \cup (IF entry.vs_addr = s THEN {m} ELSE {})

\* Mutant: config_num++ is missing.
MoveApplyUnnumbered(t) ==
  /\ call[t].at = "apply"
  /\ sm_config' = [i \in DOMAIN sm_config |->
                     [vs_addr |-> sm_config[i].vs_addr,
                      shards |-> AfterMove(sm_config[i], call[t].server, call[t].shard)]]
  /\ Return(t)
  /\ UNCHANGED <<config_num, glimpse>>

MoveApply(t) ==
  /\ call[t].at = "apply"
  /\ sm_config' = [i \in DOMAIN sm_config |->
                     [vs_addr |-> sm_config[i].vs_addr,
                      shards |-> AfterMove(sm_config[i], call[t].server, call[t].shard)]]
  /\ config_num' = config_num + 1
  /\ Return(t)
  /\ UNCHANGED glimpse

-----------------------------------------------------------------------------

SMNext ==
  \E t \in Thread :
    \/ \E s \in Server : Join(t, s)
    \/ JoinScan(t)
    \/ JoinPush(t)
    \/ \E s \in Server : Leave(t, s)
    \/ \E s \in Server, m \in MoveShard : Move(t, s, m)
    \/ MoveScan(t)
    \/ MoveApply(t)
    \/ redistributeChunks(t)

SMSpec == SMInit /\ [][SMNext]_smVars

-----------------------------------------------------------------------------
(* Properties *)

SMTypeOK ==
  /\ sm_config \in Seq(ConfigEntry)
  /\ Len(sm_config) <= MaxEntries
  /\ config_num \in Nat
  /\ call \in [Thread -> Call]
  /\ glimpse \in [Thread -> SUBSET {"found", "missing"}]
  /\ \A t \in Thread \ Scanning : glimpse[t] = {}

\* The chunks the configuration gives to server s.
Owned(s) ==
  UNION {ChunksOf(sm_config[i].shards) :
           i \in {j \in DOMAIN sm_config : sm_config[j].vs_addr = s}}

\* No chunk is ever given to two servers at once: not by overlapping
\* requests, not between the critical sections of a Join or a Leave, and
\* whatever ranges (inverted or too large) Move is asked for.
ExclusiveOwnership ==
  \A i, j \in DOMAIN sm_config :
    sm_config[i].vs_addr # sm_config[j].vs_addr =>
      ChunksOf(sm_config[i].shards) \cap ChunksOf(sm_config[j].shards) = {}

\* A server gains chunks only in a step that gives the configuration the next
\* number, so whoever polls QueryConfigNum learns of every hand-over.
GainIsNumbered ==
  [][/\ config_num' \in {config_num, config_num + 1}
     /\ \A s \in Server : Owned(s)' \subseteq Owned(s) \/ config_num' = config_num + 1
    ]_smVars

\* A chunk loses its last owner only when Leave erases an entry, or when Move
\* applies to a server that has left since it was looked up.
OnlyLeaveUncovers ==
  [][\A c \in Chunk :
       (\E s \in Server : c \in Owned(s)) /\ ~(\E s \in Server : c \in Owned(s)')
         => \/ Len(sm_config') < Len(sm_config)
            \/ \E t \in Thread :
                 /\ call[t].at = "apply" /\ call'[t] = Idle
                 /\ call[t].server \notin Members
    ]_smVars

Quiet == \A t \in Thread : call[t] = Idle

\* Once all requests have returned, every chunk has an owner (if there is any
\* server).  redistributeChunks gives the last server the remainder for this.
NoUnassignedChunks ==
  Quiet /\ sm_config # <<>> => Chunk \subseteq UNION {Owned(s) : s \in Server}

\* A server has one entry: a duplicate Join fails.
NoDuplicateEntries ==
  \A i, j \in DOMAIN sm_config :
    sm_config[i].vs_addr = sm_config[j].vs_addr => i = j

-----------------------------------------------------------------------------
(* The configuration as an assignment of chunks. *)

OwnerOf(c) ==
  IF \E s \in Server : c \in Owned(s)
    THEN CHOOSE s \in Server : c \in Owned(s)
    ELSE Nobody

A == INSTANCE Assignment
       WITH owner <- [c \in Chunk |-> OwnerOf(c)], version <- config_num

\* The shard master implements the abstract assignment service.
ImplementsAssignment == A!Spec
=============================================================================

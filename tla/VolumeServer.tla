---------------------------- MODULE VolumeServer ----------------------------
(***************************************************************************)
(* The volume servers: the Put and Delete handlers, the thread that polls  *)
(* the shard master, the thread that reads the move queue, and the pool    *)
(* whose tasks send keys to their new owners.  All servers run this code,  *)
(* so each variable is a function of the server.                           *)
(*                                                                         *)
(* A step is one access to state that another thread can see: leveldb      *)
(* (each call is atomic), mod_map (under the mutex of the chunk), my_config*)
(* (not locked), to_move (under to_move_mtx), the move queue.              *)
(***************************************************************************)
EXTENDS ShardMaster

CONSTANTS
  Key, Value,
  ChunkOf,        \* hash of a key, % NUM_CHUNKS
  NoValue,        \* leveldb has no value for the key
  Client,         \* callers of Put and Delete
  PoolThread      \* threads of each server's pool

ASSUME ChunkOfAssumption == ChunkOf \in [Key -> 0 .. (NumChunks - 1)]

ASSUME ValueAssumption == NoValue \notin Value

\* to_move and mod_map have NUM_CHUNKS + 1 elements and are not range-checked.
ASSUME MoveRangeAssumption == \A m \in MoveShard : m.upper <= NumChunks

Worker == Server \X PoolThread
Caller == Client \cup Worker

VARIABLES
  up,             \* the process has run its constructor
  db,             \* leveldb
  mod_map,        \* the keys it knows of (the set of a chunk: KeysOf)
  my_config,      \* shards of my_config
  vs_num,         \* config_num of the server
  tick,           \* progress of fetchSMConfig
  to_move,        \* for each chunk given away: to whom, under which number
  move_queue,     \* how often each key is queued: the queue keeps no order
                  \* between producers
  mover,          \* key and value that moveKeys has in hand
  tasks,          \* tasks waiting for a pool thread
  rpc             \* the Put or Delete each caller has under way

dataVars == <<db, mod_map>>
configVars == <<my_config, vs_num, tick>>
moveVars == <<to_move, move_queue, mover, tasks>>
vsVars == <<up, dataVars, configVars, moveVars, rpc>>

VSInit ==
  /\ up = [s \in Server |-> FALSE]
  /\ db = [s \in Server |-> [k \in Key |-> NoValue]]
  /\ mod_map = [s \in Server |-> {}]
  /\ my_config = [s \in Server |-> {}]
  /\ vs_num = [s \in Server |-> 0]
  /\ tick = [s \in Server |-> Idle]
  /\ to_move = [s \in Server |-> [c \in Chunk |-> [vs_addr |-> Nobody, num |-> 0]]]
  /\ move_queue = [s \in Server |-> [k \in Key |-> 0]]
  /\ mover = [s \in Server |-> Idle]
  /\ tasks = [s \in Server |-> <<>>]
  /\ rpc = [x \in Caller |-> Idle]

KeysOf(c) == {k \in Key : ChunkOf[k] = c}

Stored(s) == {k \in Key : db[s][k] # NoValue}

-----------------------------------------------------------------------------

\* Mutant: mod_map is not formed.
BootEmpty(s) ==
  /\ ~up[s]
  /\ s \in Members
  /\ \A t \in Thread :
       call[t].at \in {"joinScan", "push", "redistribute"} => call[t].server # s
  /\ up' = [up EXCEPT ![s] = TRUE]
  /\ UNCHANGED <<dataVars, configVars, moveVars, rpc>>

\* The rest of the constructor once requestJoin has returned OK: mod_map is
\* formed from leveldb, the threads start, and then the gRPC server listens.
\* (formModMap clears the vector it is about to index.  The storage and its
\* empty sets are still there, so this has the intended effect.)
Boot(s) ==
  /\ ~up[s]
  /\ s \in Members
  /\ \A t \in Thread :
       call[t].at \in {"joinScan", "push", "redistribute"} => call[t].server # s
  /\ up' = [up EXCEPT ![s] = TRUE]
  /\ mod_map' = [mod_map EXCEPT ![s] = Stored(s)]
  /\ UNCHANGED <<db, configVars, moveVars, rpc>>

-----------------------------------------------------------------------------
(* fetchSMConfig, every TICK_INTERVAL *)

\* The number is newer than ours.  (If not, the tick does nothing.)
TickPoll(s) ==
  /\ up[s]
  /\ tick[s] = Idle
  /\ vs_num[s] < config_num
  /\ tick' = [tick EXCEPT ![s] = [at |-> "query", num |-> config_num]]
  /\ UNCHANGED <<up, dataVars, my_config, vs_num, moveVars, rpc>>

\* Mutant: the server's own entry is not skipped.
calcNegativeDiffWithOwn(s, config, prev) ==
  UNION {{<<c, config[i].vs_addr>> :
            c \in ChunksOf(config[i].shards) \cap ChunksOf(prev)} :
         i \in DOMAIN config}

\* The chunks of `prev` that `config` gives to other servers than s.
calcNegativeDiff(s, config, prev) ==
  UNION {{<<c, config[i].vs_addr>> :
            c \in ChunksOf(config[i].shards) \cap ChunksOf(prev)} :
         i \in {j \in DOMAIN config : config[j].vs_addr # s}}

\* The entries of s in a configuration; the last one is assigned last.
EntriesOf(s, config) == {i \in DOMAIN config : config[i].vs_addr = s}

StartUpdate(s, removed) ==
  tick' = [tick EXCEPT ![s] = IF removed = {} THEN Idle
                              ELSE [at |-> "update", removed |-> removed]]

\* Mutant: config_num is not set.
TickQueryNoNum(s) ==
  /\ tick[s].at = "query"
  /\ IF EntriesOf(s, sm_config) # {}
       THEN tick' = [tick EXCEPT ![s] = [at |-> "assign", config |-> sm_config]]
       ELSE StartUpdate(s, calcNegativeDiff(s, sm_config, my_config[s]))
  /\ UNCHANGED <<up, dataVars, my_config, vs_num, moveVars, rpc>>

\* Query returns, config_num is set.  A server that the configuration does not
\* mention keeps its my_config.
TickQuery(s) ==
  /\ tick[s].at = "query"
  /\ vs_num' = [vs_num EXCEPT ![s] = tick[s].num]
  /\ IF EntriesOf(s, sm_config) # {}
       THEN tick' = [tick EXCEPT ![s] = [at |-> "assign", config |-> sm_config]]
       ELSE StartUpdate(s, calcNegativeDiff(s, sm_config, my_config[s]))
  /\ UNCHANGED <<up, dataVars, my_config, moveVars, rpc>>

\* Mutant: my_config is assigned once only.
TickAssignOnce(s) ==
  /\ tick[s].at = "assign"
  /\ LET config == tick[s].config IN
       /\ my_config' = IF my_config[s] # {} THEN my_config
                       ELSE [my_config EXCEPT ![s] = config[Max(EntriesOf(s, config))].shards]
       /\ StartUpdate(s, calcNegativeDiff(s, config, my_config[s]))
  /\ UNCHANGED <<up, dataVars, vs_num, moveVars, rpc>>

\* The assignment of my_config is over (until now handlers read it torn).
TickAssign(s) ==
  /\ tick[s].at = "assign"
  /\ LET config == tick[s].config IN
       /\ my_config' = [my_config EXCEPT ![s] = config[Max(EntriesOf(s, config))].shards]
       /\ StartUpdate(s, calcNegativeDiff(s, config, my_config[s]))
  /\ UNCHANGED <<up, dataVars, vs_num, moveVars, rpc>>

\* Mutant: the keys of the chunk are not queued.
updateToMoveNoQueue(s) ==
  /\ tick[s].at = "update"
  /\ \E r \in tick[s].removed :
       /\ to_move' = IF vs_num[s] > to_move[s][r[1]].num
                       THEN [to_move EXCEPT ![s][r[1]] =
                               [vs_addr |-> r[2], num |-> vs_num[s]]]
                       ELSE to_move
       /\ StartUpdate(s, tick[s].removed \ {r})
  /\ UNCHANGED <<up, dataVars, my_config, vs_num, move_queue, mover, tasks, rpc>>

\* updateToMove for one removed chunk.  to_move_mtx is held until the last.
updateToMove(s) ==
  /\ tick[s].at = "update"
  /\ \E r \in tick[s].removed :
       /\ IF vs_num[s] > to_move[s][r[1]].num
            THEN /\ to_move' = [to_move EXCEPT ![s][r[1]] =
                                  [vs_addr |-> r[2], num |-> vs_num[s]]]
                 /\ move_queue' = [move_queue EXCEPT ![s] =
                      [k \in Key |-> IF k \in mod_map[s] \cap KeysOf(r[1])
                                       THEN @[k] + 1 ELSE @[k]]]
            ELSE UNCHANGED <<to_move, move_queue>>
       /\ StartUpdate(s, tick[s].removed \ {r})
  /\ UNCHANGED <<up, dataVars, my_config, vs_num, mover, tasks, rpc>>

-----------------------------------------------------------------------------
(* The Put and Delete handlers, step by step, for the request of caller x. *)

\* isMyKey: what the loop over my_config.shards, outside any lock, may say.
isMyKey(s, k) ==
  IF tick[s].at = "assign" THEN BOOLEAN
  ELSE {ChunkOf[k] \in ChunksOf(my_config[s])}

\* The handler goes on to step `at`.
Goto(x, at) == rpc' = [rpc EXCEPT ![x].at = at]

\* The handler returns.  A client is done; a pool task looks at the status.
Answer(x, status) ==
  IF x \in Client THEN rpc' = [rpc EXCEPT ![x] = Idle] ELSE Goto(x, status)

Claim(x) ==
  /\ rpc[x].at = "claim"
  /\ IF up[rpc[x].server]
       THEN \E mine \in isMyKey(rpc[x].server, rpc[x].key) :
              IF mine THEN Goto(x, "lookup") ELSE Answer(x, "failed")
       ELSE Answer(x, "failed")
  /\ UNCHANGED <<up, dataVars, configVars, moveVars>>

\* Put goes on if the key is absent, Delete if it is present.
Lookup(x) ==
  /\ rpc[x].at = "lookup"
  /\ IF (rpc[x].op = "Put") = (rpc[x].key \notin Stored(rpc[x].server))
       THEN Goto(x, "write")
       ELSE Answer(x, "failed")
  /\ UNCHANGED <<up, dataVars, configVars, moveVars>>

Write(x) ==
  /\ rpc[x].at = "write"
  /\ db' = [db EXCEPT ![rpc[x].server][rpc[x].key] =
              IF rpc[x].op = "Put" THEN rpc[x].value ELSE NoValue]
  /\ Goto(x, "index")
  /\ UNCHANGED <<up, mod_map, configVars, moveVars>>

\* Mutant: Delete leaves the key in mod_map.
IndexNoErase(x) ==
  /\ rpc[x].at = "index"
  /\ mod_map' = [mod_map EXCEPT ![rpc[x].server] =
                   IF rpc[x].op = "Put" THEN @ \cup {rpc[x].key} ELSE @]
  /\ Answer(x, "ok")
  /\ UNCHANGED <<up, db, configVars, moveVars>>

Index(x) ==
  /\ rpc[x].at = "index"
  /\ mod_map' = [mod_map EXCEPT ![rpc[x].server] =
                   IF rpc[x].op = "Put" THEN @ \cup {rpc[x].key}
                                        ELSE @ \ {rpc[x].key}]
  /\ Answer(x, "ok")
  /\ UNCHANGED <<up, db, configVars, moveVars>>

\* A client calls server s, the right one or not.
Request(x, name, s, k, v) ==
  /\ rpc[x] = Idle
  /\ rpc' = [rpc EXCEPT ![x] =
               [at |-> "claim", op |-> name, server |-> s, key |-> k, value |-> v]]
  /\ UNCHANGED <<up, dataVars, configVars, moveVars>>

-----------------------------------------------------------------------------
(* moveKeys and the tasks it pushes *)

\* Mutant: the result of try_dequeue is ignored.
DequeueUnchecked(s, k) ==
  /\ mover[s] = Idle
  /\ k \in Stored(s)
  /\ move_queue' = [move_queue EXCEPT ![s][k] = @ - 1]
  /\ mover' = [mover EXCEPT ![s] = [at |-> "push", key |-> k, value |-> db[s][k]]]
  /\ UNCHANGED <<up, dataVars, configVars, to_move, tasks, rpc>>

\* A key is dequeued and its value read.  (A key that leveldb does not have
\* goes back to the queue.)
Dequeue(s, k) ==
  /\ mover[s] = Idle
  /\ move_queue[s][k] > 0
  /\ k \in Stored(s)
  /\ move_queue' = [move_queue EXCEPT ![s][k] = @ - 1]
  /\ mover' = [mover EXCEPT ![s] = [at |-> "push", key |-> k, value |-> db[s][k]]]
  /\ UNCHANGED <<up, dataVars, configVars, to_move, tasks, rpc>>

\* The target is read under to_move_mtx and captured by the task.
PushTask(s) ==
  /\ mover[s].at = "push"
  /\ tick[s].at # "update"
  /\ tasks' = [tasks EXCEPT ![s] = Append(@,
                 [server |-> to_move[s][ChunkOf[mover[s].key]].vs_addr,
                  key |-> mover[s].key, value |-> mover[s].value])]
  /\ mover' = [mover EXCEPT ![s] = Idle]
  /\ UNCHANGED <<up, dataVars, configVars, to_move, move_queue, rpc>>

\* A pool thread takes the first task and calls Put at the target.
TakeTask(w) ==
  /\ rpc[w] = Idle
  /\ tasks[w[1]] # <<>>
  /\ LET task == Head(tasks[w[1]]) IN
       rpc' = [rpc EXCEPT ![w] =
                 [at |-> "claim", op |-> "Put", server |-> task.server,
                  key |-> task.key, value |-> task.value]]
  /\ tasks' = [tasks EXCEPT ![w[1]] = Tail(@)]
  /\ UNCHANGED <<up, dataVars, configVars, to_move, move_queue, mover>>

\* Mutant: the key is not deleted from leveldb.
MoveDropKeep(w) ==
  /\ rpc[w].at = "ok"
  /\ Goto(w, "forget")
  /\ UNCHANGED <<up, dataVars, configVars, moveVars>>

\* Mutant: the status of Put is not checked.
MoveDropUnchecked(w) ==
  /\ rpc[w].at \in {"ok", "failed"}
  /\ db' = [db EXCEPT ![w[1]][rpc[w].key] = NoValue]
  /\ Goto(w, "forget")
  /\ UNCHANGED <<up, mod_map, configVars, moveVars>>

\* Put returned OK: the key is deleted here, then forgotten.
MoveDrop(w) ==
  /\ rpc[w].at = "ok"
  /\ db' = [db EXCEPT ![w[1]][rpc[w].key] = NoValue]
  /\ Goto(w, "forget")
  /\ UNCHANGED <<up, mod_map, configVars, moveVars>>

MoveForget(w) ==
  /\ rpc[w].at = "forget"
  /\ mod_map' = [mod_map EXCEPT ![w[1]] = @ \ {rpc[w].key}]
  /\ rpc' = [rpc EXCEPT ![w] = Idle]
  /\ UNCHANGED <<up, db, configVars, moveVars>>

\* Put failed: the key is queued again.
MoveRetry(w) ==
  /\ rpc[w].at = "failed"
  /\ move_queue' = [move_queue EXCEPT ![w[1]][rpc[w].key] = @ + 1]
  /\ rpc' = [rpc EXCEPT ![w] = Idle]
  /\ UNCHANGED <<up, dataVars, configVars, to_move, mover, tasks>>

=============================================================================

------------------------------ MODULE DKVStore ------------------------------
(***************************************************************************)
(* The store: the shard master and the volume servers it configures, with  *)
(* clients that put and delete keys while servers join and leave and       *)
(* chunks move.  A client may address any server, as one with an old       *)
(* configuration does.                                                     *)
(***************************************************************************)
EXTENDS VolumeServer

(***************************************************************************)
(* History, which no action reads: the keys whose Put was acknowledged to  *)
(* a client and that nobody has asked to delete since; those whose Delete  *)
(* was acknowledged and that no client has put since; and the places       *)
(* <<server, key>> at which two writers were ever at work at once.         *)
(***************************************************************************)
VARIABLES acked, deleted, overlap

history == <<acked, deleted, overlap>>
vars == <<smVars, vsVars, history>>

Requested(name, k) == \E x \in Client : rpc[x] # Idle /\ rpc[x].op = name /\ rpc[x].key = k

\* Callers that are writing key k at server s, or are about to.
WritersAt(s, k) ==
  {x \in Caller : rpc[x] # Idle /\ rpc[x].key = k
                    /\ rpc[x].server = s /\ rpc[x].at \in {"lookup", "write", "index"}}
    \cup
  {w \in Worker : rpc[w] # Idle /\ rpc[w].key = k
                    /\ w[1] = s /\ rpc[w].at \in {"ok", "forget"}}

RecordOverlap ==
  overlap' = overlap \cup
    {p \in Server \X Key :
       \E x, y \in WritersAt(p[1], p[2])' : x # y}

-----------------------------------------------------------------------------

Init == SMInit /\ VSInit /\ acked = {} /\ deleted = {} /\ overlap = {}

\* The threads of a server: the main thread, the tick and moveKeys.
TickStep(s) ==
  /\ Boot(s) \/ TickPoll(s) \/ TickQuery(s) \/ TickAssign(s) \/ updateToMove(s)
  /\ UNCHANGED <<smVars, history>>

MoveKeysStep(s) ==
  /\ PushTask(s) \/ \E k \in Key : Dequeue(s, k)
  /\ UNCHANGED <<smVars, history>>

PoolStep(w) ==
  /\ TakeTask(w) \/ MoveDrop(w) \/ MoveForget(w) \/ MoveRetry(w)
  /\ UNCHANGED <<smVars, history>>

\* A client learns that its request is done.
Acknowledge(x) ==
  LET done(name, other) ==
        IF x \in Client /\ rpc[x].op = name /\ ~Requested(other, rpc[x].key) THEN {rpc[x].key} ELSE {}
  IN  acked' = acked \cup done("Put", "Delete") /\ deleted' = deleted \cup done("Delete", "Put")

\* The handler that serves caller x.  Its last step acknowledges the request.
HandlerStep(x) ==
  /\ \/ Claim(x) /\ RecordOverlap /\ UNCHANGED <<acked, deleted>>
     \/ (Lookup(x) \/ Write(x)) /\ UNCHANGED history
     \/ Index(x) /\ RecordOverlap /\ Acknowledge(x)
  /\ UNCHANGED smVars

ClientPut(x, s, k, v) ==
  /\ Request(x, "Put", s, k, v)
  /\ deleted' = deleted \ {k}
  /\ UNCHANGED <<smVars, acked, overlap>>

ClientDelete(x, s, k) ==
  /\ Request(x, "Delete", s, k, NoValue)
  /\ acked' = acked \ {k}
  /\ UNCHANGED <<smVars, deleted, overlap>>

Next ==
  \/ SMNext /\ UNCHANGED <<vsVars, history>>
  \/ \E s \in Server : TickStep(s) \/ MoveKeysStep(s)
  \/ \E w \in Worker : PoolStep(w)
  \/ \E x \in Caller : HandlerStep(x)
  \/ \E x \in Client, s \in Server, k \in Key, v \in Value : ClientPut(x, s, k, v)
  \/ \E x \in Client, s \in Server, k \in Key : ClientDelete(x, s, k)

Spec == Init /\ [][Next]_vars

-----------------------------------------------------------------------------
(***************************************************************************)
(* The discipline of the integration tests: reconfigure, then sleep until  *)
(* the keys have moved; send a request to the server that owns its key.    *)
(***************************************************************************)

UpToDate(s) == up[s] /\ tick[s] = Idle /\ vs_num[s] = config_num

\* Nothing is left to do: no request, no configuration to fetch, no key to move.
Settled ==
  /\ Quiet
  /\ \A x \in Caller : rpc[x] = Idle
  /\ \A s \in Server :
       up[s] \/ s \in Members =>
         /\ UpToDate(s)
         /\ mover[s] = Idle /\ tasks[s] = <<>>
         /\ \A k \in Key : move_queue[s][k] = 0

Owns(s, k) == ChunkOf[k] \in Owned(s)

\* A request of an operator or of a client begins.
Begins ==
  \/ \E t \in Thread : call[t] = Idle /\ call'[t] # Idle
  \/ \E x \in Client : rpc[x] = Idle /\ rpc'[x] # Idle

WellRouted ==
  \A x \in Client :
    rpc[x] = Idle /\ rpc'[x] # Idle => Owns(rpc'[x].server, rpc'[x].key)

SpacedNext == Next /\ (Begins => Settled /\ WellRouted)

\* Less patience: all have the configuration, but keys may still be moving.
Informed ==
  /\ Quiet
  /\ \A x \in Client : rpc[x] = Idle
  /\ \A s \in Server : up[s] \/ s \in Members => UpToDate(s)

InformedSpec == Init /\ [][Next /\ (Begins => Informed /\ WellRouted)]_vars

\* Every thread that has something to do gets to run: the gRPC handlers, the
\* tick thread, moveKeys and the pool.  Operators and clients need do nothing.
Fairness ==
  /\ \A t \in Thread :
       WF_vars(/\ \/ JoinScan(t) \/ JoinPush(t) \/ MoveScan(t) \/ MoveApply(t)
                  \/ redistributeChunks(t)
               /\ UNCHANGED <<vsVars, history>>)
  /\ \A s \in Server : WF_vars(TickStep(s)) /\ WF_vars(MoveKeysStep(s))
  /\ \A w \in Worker : WF_vars(PoolStep(w))
  /\ \A x \in Caller : WF_vars(HandlerStep(x))

SpacedSpec == Init /\ [][SpacedNext]_vars /\ Fairness

-----------------------------------------------------------------------------
(* Properties *)

Tick ==
  {Idle}
    \cup [at : {"query"}, num : Nat]
    \cup [at : {"assign"}, config : Seq(ConfigEntry)]
    \cup [at : {"update"}, removed : SUBSET (Chunk \X Server)]

Rpc ==
  {Idle}
    \cup [at : {"claim", "lookup", "write", "index", "ok", "failed", "forget"},
          op : {"Put", "Delete"}, server : Server, key : Key,
          value : Value \cup {NoValue}]

TypeOK ==
  /\ SMTypeOK
  /\ up \in [Server -> BOOLEAN]
  /\ db \in [Server -> [Key -> Value \cup {NoValue}]]
  /\ mod_map \in [Server -> SUBSET Key]
  /\ my_config \in [Server -> SUBSET Shard]
  /\ vs_num \in [Server -> Nat]
  /\ tick \in [Server -> Tick]
  /\ to_move \in [Server -> [Chunk -> [vs_addr : Server \cup {Nobody}, num : Nat]]]
  /\ move_queue \in [Server -> [Key -> Nat]]
  /\ mover \in [Server -> {Idle} \cup [at : {"push"}, key : Key, value : Value]]
  /\ tasks \in [Server -> Seq([server : Server, key : Key, value : Value])]
  /\ rpc \in [Caller -> Rpc]
  /\ acked \subseteq Key /\ deleted \subseteq Key
  /\ overlap \subseteq Server \X Key

\* Whoever is asked to move a key has a place to move it to, and it is another
\* server: a queued key's chunk was given away, under a number the server knows.
MovesHaveTargets ==
  \A s \in Server :
    /\ \A k \in Key :
         move_queue[s][k] > 0 \/ (mover[s] # Idle /\ mover[s].key = k)
           => LET target == to_move[s][ChunkOf[k]] IN
                /\ target.vs_addr \in Server \ {s}
                /\ target.num \in 1 .. vs_num[s]
    /\ \A i \in DOMAIN tasks[s] : tasks[s][i].server \in Server \ {s}

\* mod_map and leveldb agree on every key that no one is writing, unless two
\* writers of the key once overlapped there.
ModMapMatchesDb ==
  \A s \in Server, k \in Key :
    up[s] /\ <<s, k>> \notin overlap /\ WritersAt(s, k) = {}
      => (k \in mod_map[s] <=> k \in Stored(s))

\* Moving does not lose keys: an acknowledged key that nobody asked to delete
\* is in some server's leveldb, whatever the moves under way, unless two
\* writers of the key once overlapped at some server.
NoKeyLost ==
  \A k \in acked :
    (\A s \in Server : <<s, k>> \notin overlap)
      => \E s \in Server : k \in Stored(s)

\* An acknowledged key that nobody asked to delete is somewhere.
AckedKeyExists == \A k \in acked : \E s \in Server : k \in Stored(s)

\* What was deleted stays deleted: after an acknowledged Delete the owner does not
\* have the key until a client puts it again.
DeletedStaysDeleted ==
  \A k \in deleted : \A s \in Server : Owns(s, k) => k \notin Stored(s)

\* mod_map is consistent with leveldb whenever no one is at work on it.
ModMapConsistent ==
  \A s \in Server :
    up[s] /\ (\A k \in Key : WritersAt(s, k) = {}) => mod_map[s] = Stored(s)

\* When all is settled, a server that is up claims exactly its own chunks.
ClaimsMatchConfig ==
  Settled => \A s \in Server : up[s] => ChunksOf(my_config[s]) = Owned(s)

\* When all is settled, every acknowledged key is at the owner of its chunk.
AckedAtOwner ==
  Settled =>
    \A k \in acked : \A s \in Server : Owns(s, k) => k \in Stored(s)

\* When all is settled, no other server has a copy.
NoStrayCopies ==
  Settled => \A s \in Server, k \in Key : k \in Stored(s) /\ Members # {} => Owns(s, k)

\* After an update, the target of a chunk the server gave away is the owner it
\* has in the configuration the server holds.
ToMoveFollowsConfig ==
  Quiet => \A s \in Server : UpToDate(s) =>
    \A c \in Chunk : to_move[s][c].num > 0 /\ c \notin Owned(s)
      => c \in Owned(to_move[s][c].vs_addr)

\* Every reconfiguration and every request settles.
EventuallySettled == []<>Settled
=============================================================================

------------------------------- MODULE Client -------------------------------
(***************************************************************************)
(* The client library (class Client of client.cc) next to a live shard     *)
(* master.  Get, Put and Delete share one shape:                           *)
(*                                                                         *)
(*   Query():  QueryConfigNum RPC | if newer, clear mappings, Query RPC    *)
(*   getVSAddr(key), then the RPC to that volume server                    *)
(*                                                                         *)
(* and ignore what Query() returns.  Any RPC to the shard master may fail. *)
(* A Client is used by one thread, so its calls do not overlap.  A key is  *)
(* represented by its chunk, hash % num_chunks.                            *)
(***************************************************************************)
EXTENDS ShardMaster

VARIABLES
  mappings,       \* last configuration received
  my_num,         \* the client's config_num
  op              \* progress of the operation in hand

clientVars == <<mappings, my_num, op>>

\* polled: the number the shard master returned to this operation, if it did.
NoNum == -1

Op ==
  {Idle}
    \cup [at : {"fetch"}, polled : Nat]
    \cup [at : {"route"}, polled : Nat \cup {NoNum}]
    \cup [at : {"rpc"}, polled : Nat \cup {NoNum}, chunk : Chunk,
          vs_addr : Server]

ClientInit ==
  /\ mappings = <<>>
  /\ my_num = 0
  /\ op = Idle

-----------------------------------------------------------------------------
(* Query() *)

\* The QueryConfigNum RPC fails: the operation goes on with what it has.
PollFails ==
  /\ op = Idle
  /\ op' = [at |-> "route", polled |-> NoNum]
  /\ UNCHANGED <<mappings, my_num>>

\* It returns the number; a larger one makes the client drop its mappings.
Poll ==
  /\ op = Idle
  /\ IF my_num < config_num
       THEN /\ mappings' = <<>>
            /\ op' = [at |-> "fetch", polled |-> config_num]
       ELSE /\ op' = [at |-> "route", polled |-> config_num]
            /\ UNCHANGED mappings
  /\ UNCHANGED my_num

Fetch ==
  /\ op.at = "fetch"
  /\ mappings' = sm_config
  /\ my_num' = op.polled
  /\ op' = [at |-> "route", polled |-> op.polled]

\* Mutant: the number is not reset.
FetchFailsNoReset ==
  /\ op.at = "fetch"
  /\ my_num' = op.polled
  /\ op' = [at |-> "route", polled |-> NoNum]
  /\ UNCHANGED mappings

\* The Query RPC fails: config_num is reset, so that the next call refetches.
FetchFails ==
  /\ op.at = "fetch"
  /\ my_num' = 0
  /\ op' = [at |-> "route", polled |-> NoNum]
  /\ UNCHANGED mappings

-----------------------------------------------------------------------------

\* Entry i of a configuration is the first one with chunk c.
FirstOwner(config, c, i) ==
  /\ c \in ChunksOf(config[i].shards)
  /\ \A j \in 1 .. (i - 1) : c \notin ChunksOf(config[j].shards)

\* getVSAddr: the address is found and the request goes there.  Keys hash to
\* chunks below num_chunks.
Route ==
  /\ op.at = "route"
  /\ \E c \in 0 .. (NumChunks - 1) : \E i \in DOMAIN mappings :
       /\ FirstOwner(mappings, c, i)
       /\ op' = [at |-> "rpc", polled |-> op.polled, chunk |-> c,
                 vs_addr |-> mappings[i].vs_addr]
  /\ UNCHANGED <<mappings, my_num>>

\* getVSAddr finds no server for the key: KEY_NOT_EXISTS.
RouteFails ==
  /\ op.at = "route"
  /\ \E c \in 0 .. (NumChunks - 1) :
       \A i \in DOMAIN mappings : c \notin ChunksOf(mappings[i].shards)
  /\ op' = Idle
  /\ UNCHANGED <<mappings, my_num>>

\* The volume server answers, or the RPC fails.
Reply ==
  /\ op.at = "rpc"
  /\ op' = Idle
  /\ UNCHANGED <<mappings, my_num>>

ClientNext ==
  PollFails \/ Poll \/ Fetch \/ FetchFails \/ Route \/ RouteFails \/ Reply

-----------------------------------------------------------------------------

vars == <<smVars, clientVars>>

Init == SMInit /\ ClientInit

Next ==
  \/ SMNext /\ UNCHANGED clientVars
  \/ ClientNext /\ UNCHANGED smVars

Spec == Init /\ [][Next]_vars

-----------------------------------------------------------------------------
(* Properties *)

ClientTypeOK ==
  /\ mappings \in Seq(ConfigEntry)
  /\ my_num \in Nat
  /\ op \in Op

\* A client that has the shard master's current number has its current
\* configuration, whatever RPCs failed and although the number and the
\* configuration are two RPCs; the exception is the time between the two
\* critical sections of a Join or a Leave.
CurrentNumberCurrentMappings ==
  (my_num = config_num /\ \A t \in Thread : call[t].at # "redistribute")
    => mappings = sm_config

\* A request goes to the owner of its chunk unless the assignment has been, or
\* is being, changed since the client polled the number.
RoutedToOwner ==
  (op.at = "rpc" /\ op.polled = config_num
     /\ \A t \in Thread : call[t].at # "redistribute")
    => op.chunk \in Owned(op.vs_addr)

\* What a client knows is what the shard master says, in all of these ways.
ClientInv == ClientTypeOK /\ CurrentNumberCurrentMappings /\ RoutedToOwner
=============================================================================

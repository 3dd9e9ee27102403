----------------------------- MODULE FaultyStore ----------------------------
(***************************************************************************)
(* The store when things fail: RPCs between the servers, replies, volume   *)
(* servers that crash and are started again, the shard master.             *)
(*                                                                         *)
(* leveldb outlives the process of a server; the shard master keeps        *)
(* nothing.  A server that starts sends Join and exits if that is refused. *)
(***************************************************************************)
EXTENDS DKVStore

CONSTANTS
  Fault,          \* the faults that occur: a subset of the names in FaultAssumption
  MaxFaults,      \* how many, at most
  MaxRestartNum   \* bound: the last config_num at which the shard master restarts

ASSUME FaultAssumption ==
  /\ Fault \subseteq {"query", "reply", "crash", "master"}
  /\ MaxFaults \in Nat /\ MaxRestartNum \in Nat

VARIABLES
  faults,         \* the faults so far, in their order
  down,           \* servers whose process has ended and has not joined again
  orphan          \* pool threads that died with a call under way, which its server still serves

faultVars == <<faults, down, orphan>>
allVars == <<vars, faultVars>>

FaultInit == Init /\ faults = <<>> /\ down = {} /\ orphan = {}

Fails(name) ==
  /\ name \in Fault /\ Len(faults) < MaxFaults
  /\ faults' = Append(faults, name)

-----------------------------------------------------------------------------

\* Query fails.  The assertion that follows is on the status of the other RPC,
\* so the server goes on with an empty response: it has the new number, and no
\* entry to assign or to compare with.
QueryFails(s) ==
  /\ tick[s].at = "query"
  /\ Fails("query")
  /\ vs_num' = [vs_num EXCEPT ![s] = tick[s].num]
  /\ StartUpdate(s, calcNegativeDiff(s, <<>>, my_config[s]))
  /\ UNCHANGED <<smVars, up, dataVars, my_config, moveVars, rpc, history, down, orphan>>

\* The last step of a handler whose reply does not arrive.
ReplyLost(x) ==
  /\ rpc[x].at = "index"
  /\ Fails("reply")
  /\ mod_map' = [mod_map EXCEPT ![rpc[x].server] =
                   IF rpc[x].op = "Put" THEN @ \cup {rpc[x].key} ELSE @ \ {rpc[x].key}]
  /\ Answer(x, "failed")
  /\ RecordOverlap
  /\ UNCHANGED <<smVars, up, db, configVars, moveVars, acked, deleted, down, orphan>>

InHandler(x) == rpc[x].at \in {"claim", "lookup", "write", "index"}

\* What becomes of the call of x when the process of s ends.
CallAfterCrash(x, s) ==
  CASE x \in Worker /\ x[1] = s /\ ~(InHandler(x) /\ rpc[x].server # s) -> Idle
    [] InHandler(x) /\ rpc[x].at # "claim" /\ rpc[x].server = s ->
         IF x \in Client THEN Idle ELSE [rpc[x] EXCEPT !.at = "failed"]
    [] OTHER -> rpc[x]

\* The process of s ends, by itself or in exit(-1) when QueryConfigNum fails.
\* Only leveldb stays.
Crash(s) ==
  /\ up[s]
  /\ Fails("crash")
  /\ up' = [up EXCEPT ![s] = FALSE]
  /\ down' = down \cup {s}
  /\ orphan' = orphan \cup {w \in Worker : w[1] = s /\ InHandler(w) /\ rpc[w].server # s}
  /\ rpc' = [x \in Caller |-> CallAfterCrash(x, s)]
  /\ mod_map' = [mod_map EXCEPT ![s] = {}]
  /\ my_config' = [my_config EXCEPT ![s] = {}]
  /\ vs_num' = [vs_num EXCEPT ![s] = 0]
  /\ tick' = [tick EXCEPT ![s] = Idle]
  /\ to_move' = [to_move EXCEPT ![s] = [c \in Chunk |-> [vs_addr |-> Nobody, num |-> 0]]]
  /\ move_queue' = [move_queue EXCEPT ![s] = [k \in Key |-> 0]]
  /\ mover' = [mover EXCEPT ![s] = Idle]
  /\ tasks' = [tasks EXCEPT ![s] = <<>>]
  /\ UNCHANGED <<smVars, db, history>>

\* Nobody waits for this reply any more.
OrphanReply(w) ==
  /\ w \in orphan /\ ~InHandler(w)
  /\ orphan' = orphan \ {w}
  /\ rpc' = [rpc EXCEPT ![w] = Idle]
  /\ UNCHANGED <<smVars, up, dataVars, configVars, moveVars, history, faults, down>>

\* The shard master is started again.
MasterRestart ==
  /\ Fails("master") /\ config_num <= MaxRestartNum
  /\ sm_config' = <<>> /\ config_num' = 0
  /\ call' = [t \in Thread |-> Idle] /\ glimpse' = [t \in Thread |-> {}]
  /\ UNCHANGED <<vsVars, history, down, orphan>>

-----------------------------------------------------------------------------

\* A request to the shard master; a Join that succeeds may be that of a server
\* that starts again.
MasterStep ==
  /\ SMNext
  /\ down' = {s \in down : EntriesOf(s, sm_config) # {} \/ EntriesOf(s, sm_config') = {}}
  /\ UNCHANGED <<vsVars, history, faults, orphan>>

Work(s) == (s \notin down /\ TickStep(s)) \/ MoveKeysStep(s)

FaultNext ==
  \/ MasterStep
  \/ /\ \/ \E s \in Server : Work(s)
        \/ \E w \in Worker \ orphan : PoolStep(w)
        \/ \E x \in Caller : HandlerStep(x)
        \/ \E x \in Client, s \in Server, k \in Key, v \in Value : ClientPut(x, s, k, v)
        \/ \E x \in Client, s \in Server, k \in Key : ClientDelete(x, s, k)
     /\ UNCHANGED faultVars
  \/ \E s \in Server : QueryFails(s) \/ Crash(s)
  \/ \E x \in Caller : ReplyLost(x)
  \/ \E w \in Worker : OrphanReply(w)
  \/ MasterRestart

\* A tick would do nothing.
Content(s) == tick[s] = Idle /\ vs_num[s] >= config_num

\* Nothing is left to do at the servers that are up.
SettledUp ==
  /\ Quiet
  /\ \A x \in Caller : rpc[x] = Idle
  /\ \A s \in Server :
       up[s] => Content(s) /\ mover[s] = Idle /\ tasks[s] = <<>> /\ \A k \in Key : move_queue[s][k] = 0

\* Operators and clients wait until the servers that are up have settled.
PatientNext == FaultNext /\ (Begins => SettledUp /\ WellRouted)

PatientSpec == FaultInit /\ [][PatientNext]_allVars

\* They wait until these have fetched the configuration; keys may be moving.
FaultyInformed ==
  /\ Quiet
  /\ \A x \in Client : rpc[x] = Idle
  /\ \A s \in Server : up[s] => Content(s)

FaultyInformedSpec == FaultInit /\ [][FaultNext /\ (Begins => FaultyInformed /\ WellRouted)]_allVars

\* All threads that can go on do so; faults need not occur.
PatientFairSpec ==
  /\ PatientSpec
  /\ WF_allVars(~Quiet /\ MasterStep /\ ~Begins)
  /\ \A s \in Server :
       /\ WF_allVars(s \notin down /\ TickStep(s) /\ UNCHANGED faultVars)
       /\ WF_allVars(MoveKeysStep(s) /\ UNCHANGED faultVars)
  /\ \A w \in Worker :
       WF_allVars(w \notin orphan /\ PoolStep(w) /\ UNCHANGED faultVars) /\ WF_allVars(OrphanReply(w))
  /\ \A x \in Caller : WF_allVars(HandlerStep(x) /\ UNCHANGED faultVars)

-----------------------------------------------------------------------------
(* Properties *)

\* A member that sees nothing to fetch has the current configuration.
MembersKnowConfig ==
  Quiet => \A s \in Members : up[s] /\ Content(s) => ChunksOf(my_config[s]) = Owned(s)

\* So it is through crashes and lost replies: only a failed Query or a shard
\* master that starts its numbers again can leave a member with another one.
CrashesKeepConfig ==
  {"query", "master"} \cap Range(faults) = {} => MembersKnowConfig

\* The servers that are up come to rest, again and again.
EventuallySettledUp == []<>SettledUp
=============================================================================

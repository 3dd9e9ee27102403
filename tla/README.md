# A TLA+ verification of DKV-Store

DKV-Store is a distributed key-value store. A **shard master** divides the chunks
`0 .. NUM_CHUNKS` among **volume servers**, each of which keeps its keys in a
leveldb. **Clients** ask the shard master who owns which chunk, and send `Get`,
`Put` and `Delete` to the owner of a key. Operators make servers join and leave,
and move ranges of chunks by hand. All parts talk gRPC. A volume server hands keys
over through two vendored libraries, a lock-free queue and a thread pool.

This directory models that system in TLA+, checks the models with TLC on small
instances, and proves the central facts with TLAPS for every instance.

## 1. The system

| Part | State | Operations | Concurrency |
|---|---|---|---|
| `SMShard::subtract` (`utils.h`) | none | difference of two `uint` ranges | pure |
| Shard master (`shard_master.cc`) | `sm_config`, `config_num` | `Join`, `Leave`, `Move`, `Query`, `QueryConfigNum`, `redistributeChunks` | handlers on many threads; one mutex `mtx`, which the scans of `Join` and `Move` do not take |
| Volume server (`volume_server.cc`) | leveldb, `mod_map`, `my_config`, `config_num`, `to_move`, `move_queue`, pool | `Get`, `Put`, `Delete`, `fetchSMConfig` every 100 ms, `moveKeys`, move tasks | handlers, tick thread, `moveKeys` thread and pool threads; `my_config` has no lock |
| Client (`client.cc`) | `mappings`, `config_num` | `Get`, `Put`, `Delete`, `Query`, `Move` | sequential, RPCs fail |
| Thread pool (`thread_pool.hpp`) | task queue, `tasks_total`, `paused`, `running` | `push_task`, `submit`, `parallelize_loop`, `wait_for_tasks`, `reset`, destructor | workers, callers, owner; one mutex, atomics |
| Move queue (`concurrentqueue.h`) | sub-queues, block pool, producers, hash of threads | enqueue and dequeue, single, bulk, with tokens | lock-free |
| Blocking queue and its semaphore (`blockingconcurrentqueue.h`, `lightweightsemaphore.h`) | a move queue, a counter, a POSIX semaphore | enqueue, dequeue, wait, timed wait, signal | lock-free, sleeping |
| Hash of a key (`md5.cc`, `utils.h`) | buffer, counter, registers | `update`, `finalize`, `get_hash_uint` | sequential |

How they interact: a reconfiguration bumps `config_num`. Clients and volume servers
poll the number, and fetch the configuration (a second RPC) when it has grown. A
volume server compares its old shards with the new configuration, notes for each
chunk it lost the new owner (`to_move`), and queues the chunk's keys (`mod_map`).
`moveKeys` reads the value of a queued key and hands it to the pool. A pool task
calls `Put` at the new owner and, if that succeeds, deletes the key locally; if
not, the key is queued again.

What is hard here, and what the properties are about (`PROJECT.json` lists each
hazard at its line):

* checks made outside a lock and used inside it (`Join`, `Move`, `isMyKey`);
* changes in two critical sections, or two RPCs, with others in between;
* leveldb and `mod_map` written one after the other by concurrent writers;
* moves that are refused, retried and overtaken by the next configuration;
* servers that leave, keep serving, and rejoin; that crash and start again;
* an RPC that fails or whose reply is lost;
* optimistic claims, block reuse and a growing index in a queue without locks;
* a timeout that races the signal meant for the waiter;
* `uint` bounds at 0 and at their maximum, and indices that wrap.

## 2. The modules

| Module | Models |
|---|---|
| `Shards` | ranges, `uint` arithmetic, `subtract` |
| `ShardMaster` | the shard master's handlers |
| `Assignment` | what the shard master promises (abstract) |
| `Client` | the client library beside a live shard master |
| `VolumeServer` | the threads of the volume servers |
| `DKVStore` | shard master, volume servers and clients composed |
| `FaultyStore` | the same when RPCs, replies and processes fail |
| `ThreadPool` | class `thread_pool` |
| `SubQueue` | what both kinds of sub-queue share: claims and indices |
| `ImplicitProducer`, `ExplicitProducer` | the sub-queue of a thread, and of a producer token |
| `ProducerBase` | a sub-queue of either kind |
| `FreeList` | the block pool of the queue |
| `Producers` | the list of producers, tokens, the hash of threads and its growth |
| `ConcurrentQueue` | the dequeue operations over all sub-queues |
| `BlockingQueue` | `BlockingConcurrentQueue`, over `ConcurrentQueue` and a semaphore |
| `CountingSemaphore` | what a semaphore promises (abstract) |
| `LightweightSemaphore` | the semaphore of the blocking queue |
| `MD5` | class `MD5` and `get_hash_uint` |
| `MCShardMaster`, `MCClient`, `MCDKVStore`, `MCFaulty`, `MCThreadPool`, `MCProducer`, `MCBlocking`, `MCParts`, `MCSemaphore` | instances for TLC |
| `ShardLemmas`, `ShardMasterProofs` | theorems and their proofs |

Definitions whose comment begins with "Mutant" are broken variants, each the way a
slip in the code would break it. No specification uses them. Putting one in the
place of the definition after it makes TLC report the property named in
`PROJECT.json`, which shows that the property depends on that piece of code.

### The store

**Shards.** A shard is a pair of bounds in `0 .. UIntMax`. The arithmetic wraps. A
list of shards is a set, because no code depends on the order of a server's shards
or on repetitions.

**ShardMaster.** `sm_config` is a sequence in the order of joining, because
`Leave` erases the first entry found and `redistributeChunks` counts entries.
`call[t]` is what handler thread `t` does next. A step is one critical section of
`mtx`, or one access outside it:

    Join   Join | JoinScan (no lock) | JoinPush | redistributeChunks
    Leave  Leave (find and erase)               | redistributeChunks
    Move   Move | MoveScan (no lock) | MoveApply

The scans read a vector that `push_back` and `erase` may change at the same time,
which is undefined behaviour. `glimpse[t]` collects the answers that a running scan
may give because of that: what an entry said before the change, or that the address
is missing. Crashes, which such a read can also cause, are left out. `Query` and
`QueryConfigNum` are reads of the variables, made by the modules that poll.

**Assignment.** Every chunk has at most one owner; a step either releases chunks of
one server under the old number, or reassigns chunks and increments the number.
`ShardMaster` implements it under the mapping `OwnerOf`.

**Client.** One operation is `Poll` (or `PollFails`), perhaps `Fetch` (or
`FetchFails`), `Route` (or `RouteFails`), `Reply`. `Get`, `Put` and `Delete` have
the same shape and ignore what `Query()` returns.

**VolumeServer.** Each variable is a function of the server. `tick[s]` is the
progress of `fetchSMConfig`: poll, query, assign `my_config`, update `to_move` chunk
by chunk. While `my_config` is being assigned, `isMyKey` may answer anything. A
handler goes through `claim`, `lookup`, `write`, `index`. Callers are clients and
pool threads, so that a move task uses the same handler as a client, then goes on
with `MoveDrop` and `MoveForget`, or `MoveRetry`. The move queue is a bag, because
moodycamel's queue keeps no order between producers. The pool's queue is a FIFO. A
tick with no newer number, and the dequeuing of a key that leveldb does not have,
change nothing and are stuttering steps. The chunks in `removed` are updated in any
order.

**DKVStore.** Clients call any server, as clients with old mappings do. Three history
variables, which no action reads: `acked`, the keys whose `Put` was acknowledged and
that nobody has asked to delete since; `deleted`, the keys whose `Delete` was
acknowledged and that no client has put since; and `overlap`, the places where two
writers of one key were at work at once. `Spec` lets everything interleave.
`InformedSpec` lets a request begin only when all servers have fetched the
configuration, though keys may still be moving. `SpacedSpec` is the discipline of the
integrated tests: an operator's or client's request begins only when the store has
settled, and goes to the owner.

**FaultyStore.** `DKVStore` with at most `MaxFaults` faults of the kinds in `Fault`:

| Fault | What the code does with it |
|---|---|
| `query` | `fetchSMConfig` asserts the status of the RPC before it, and goes on with an empty configuration under the new number |
| `reply` | a handler has done its work, the caller gets an error: a move task queues the key again |
| `crash` | the process of a volume server ends; leveldb stays, everything else is gone; it starts with `Join` |
| `master` | the shard master starts again with no configuration and number 0 |

A `QueryConfigNum` that fails makes the server call `exit(-1)`, which is `crash`. A
call that a crashed server had under way at another one is carried out there
(`orphan`). After a `crash` a server's `Join` is refused while its entry is still
there, so it comes back after a `Leave`. `FaultyInformedSpec` and `PatientSpec` space
the requests as `InformedSpec` and `SpacedSpec` do, for the servers that are up.

### The libraries

**ThreadPool.** A step is one access to an atomic or one critical section of
`queue_mutex`. A worker tests `running`, tests `paused`, pops, runs, and decrements
`tasks_total`; a caller of `parallelize_loop` computes the blocks, pushes them and
waits for its `blocks_running`. `get_tasks_running` is two reads, in either order. The
loop bodies and tasks are their effects on history variables. A submitted task may
throw, into its future.

**SubQueue, ImplicitProducer, ExplicitProducer, ProducerBase.** The indices are
`index_t`, which wraps at `IndexMod`; `circular_less_than` compares them. A dequeue is
the sequence of its atomic accesses: the test of the counts, the claim on
`dequeueOptimisticCount`, the check against `tailIndex`, the give-back on
`dequeueOvercommit`, the head, the lookup in the block index (index and tail are read
one after the other), the take, the flag or count that says the item is out of its
block. An enqueue reserves entries and blocks, may fail at each of them and undo what
it did, constructs, and publishes `tailIndex`. An item is the index it was enqueued
under, so that an item taken twice, or from the wrong slot, shows. `ProducerBase`
chooses the kind in the initial state and dispatches on it, as `isExplicit` does.

**FreeList.** `requisition_block` over the initial pool, the list and the heap, and
`FreeList::add`, `add_knowing_refcount_is_zero` and `try_get`. A thread holds what it got until it
gives it back.

**Producers.** `recycle_or_create_producer`, tokens made and destroyed, and
`get_or_add_implicit_producer`: probe all tables from the newest, count, become the
one that grows the hash or wait, insert. Allocations fail.

**ConcurrentQueue.** Of a sub-queue there is what `SubQueue` shows to matter outside:
how many items it holds and how many claims are still to be given back. `try_dequeue`
scores up to `ScoreLimit` producers and tries the best first; the other operations
walk the list; the ones with a token follow `update_current_producer_after_rotation`,
whose counters wrap at `OffsetMod`. `BlockingQueue` adds the permits: an enqueue
signals after its items are in, a dequeue takes permits and then repeats the inner
operation until it has its items.

**LightweightSemaphore.** `m_count`, the POSIX semaphore and what each thread is about
to do: spinning and partial spinning, `sem_wait` with and without limit, the
retraction of a registration after a timeout, bulk waits. It implements
`CountingSemaphore` with `permits` mapped to the counter plus the threads that took it
below zero and have no permit yet.

**MD5.** Words are pairs of 16-bit halves. `transform` is the four rounds of sixteen
steps. The state machine feeds one message to `update` in pieces of any order and
finalizes. `DigestOfMessage` compares with the compression of the padded message,
`HashesOfRFC` with digests from RFC 1321 and with the number `get_hash_uint` makes of
them.

### Memory and steps

Atomic accesses are sequentially consistent in the models: what weaker orderings
allow beyond interleaving is not covered. A load followed by a compare-exchange of the
loaded value is one step, because when the exchange fails the code loads again and
nothing has changed. A step that no other thread can see is merged with the one
before it.

### One run, several instances

Some questions need several instances: sub-queues of two kinds, with a limit or about
to wrap; queues with and without tokens. Their specifications choose among them in the
initial state (`isExplicit`, `setup`, `use`, `part`) and never change the choice, so one run
covers them all and its states are the sum of theirs. `MCParts` puts parts side by
side that do not call into each other while they work.

## 3. The runs

| Run | Checks | Result |
|---|---|---|
| `shard_master` | types, exclusive ownership, `subtract` is set difference and never reaches `assert(false)`, gains are numbered, what may leave a chunk without owner, refinement of `Assignment`; for the client: the current number implies the current mappings, requests go to the owner | hold |
| `spaced` | types, acknowledged keys at their owner and only there, no deleted key comes back, the store settles | hold |
| `reconfiguring` | moves have targets, `mod_map` matches leveldb, no key is lost | hold |
| `any_faults` | the last two under faults; crashes and lost replies leave no member with an old configuration | hold |
| `thread_pool` | the count of tasks, loops run their blocks once each, what the destructor leaves, tasks are executed, waits return | hold |
| `sub_queues` | claims are covered and add up, lookups succeed, items are taken once and by their claimant, the index follows the tail, blocks are neither lost nor reused too early, the destructor | hold |
| `queue` | a dequeue that returns nothing saw every sub-queue empty, tokens spread over producers, permits count items, a consumer with a permit gets its item | hold |
| `queue_parts_md5` | blocks are owned once and not lost, an operation on the free list is delayed only by progress of others; one implicit producer a thread, distinct tokens, a free slot in each table, right counts, nobody waits for a growth that is over; digests | hold |
| `semaphore` | refinement of `CountingSemaphore`, posts match sleepers, no sleep on a free permit, a waiter whose time is up returns | hold |
| `duplicate_join` | one entry per server | violated |
| `stranded_put` | acknowledged keys end at their owner | violated |
| `failed_query` | a member that sees nothing to fetch has the current configuration | violated |

The violated properties state what a comment, an assertion or a test of the repository
says. The `findings` of `PROJECT.json` quote it and describe the counterexample.

A property whose name ends in `Inv` is the conjunction of a module's type invariant with
the invariants defined before it, each with its own comment: `ClientInv`, `PoolInv`,
`ClaimsInv`, `TokensInv`, `FreeListInv`, `ProducersInv`, `SemInv`.

### Further counterexamples

These configurations are kept beside the runs. In each TLC reports the named property
as violated, and each marks a limit of what the passing runs show.

| Configuration | Module | Property | What happens |
|---|---|---|---|
| `NoUnassignedChunks.cfg` | `MCShardMaster` | `NoUnassignedChunks` | `Move` checks its target, the target leaves, `Move` takes the range from all others and gives it to nobody |
| `ModMapRace.cfg` | `MCDKVStore` | `ModMapConsistent` | a `Put` and a `Delete` of one key write leveldb in one order and `mod_map` in the other |
| `DepartedServer.cfg` | `MCDKVStore` | `ClaimsMatchConfig` | a server that left keeps its `my_config` and goes on answering |
| `StaleTarget.cfg` | `MCDKVStore` | `ToMoveFollowsConfig` | a chunk is given on to a third server before the first has moved it: `to_move` keeps the second |
| `LateDelete.cfg` | `MCDKVStore` | `AckedKeyExists` | a move task deletes a key that was put again after its value was read |
| `UndoneDelete.cfg` | `MCDKVStore` | `DeletedStaysDeleted` | a `Delete` is acknowledged while a move task carries the value to the new owner |
| `LostReply.cfg` | `MCFaulty` | `EventuallySettledUp` | the reply of a remote `Put` is lost, the target answers `ALREADY_EXISTS` for ever |
| `Restarted.cfg` | `MCFaulty` | `AckedAtOwner` | a restarted server has no previous configuration and never moves keys of chunks it lost |
| `MasterRestart.cfg` | `MCFaulty` | `MembersKnowConfig` | the numbers start at 0 again, servers with larger ones ignore them |

Read with the passing runs they delimit where the store works: with requests far enough
apart and no faults every key ends where it should (`spaced`); with anything
interleaved, keys are lost only if two writers of one key overlap at a server
(`reconfiguring`, `LateDelete`), but may be stranded (`stranded_put`); with faults no
key that nobody deleted disappears (`any_faults`), but keys may be stranded and servers
left behind.

### Bounds

* `shard_master`: 3 servers, 2 handler threads, chunks 0..3, `uint` 0..4, at most 3
  entries and 4 configurations, Move ranges that are proper, past the last chunk and
  inverted. Two threads are enough for each race of a scan or of two critical
  sections; with two entries 3 chunks leave a remainder. Four configurations let the
  shard master move on between the client's two RPCs and again after them. `subtract`
  is tried with every shard that occurs in a configuration and every pair of bounds.
* `spaced`: 2 servers, 2 keys in different chunks, 2 pool threads, 5 configurations:
  join, join, move, leave and rejoin fit in one behaviour.
* `reconfiguring`: 2 servers, 1 key, 1 client, 3 configurations, everything
  interleaved.
* `any_faults`: the same with two faults of any kind in any order; the shard master
  restarts while its number is at most `MaxRestartNum` = 1, so that numbers are used
  twice.
* `thread_pool`: 1 caller, 1 or 2 threads, 2 tasks, 1 reset, which may change the
  number of threads. Two tasks on two threads are enough for a count that is off by
  one and for a waiter that sees zero too early; the loops are uneven, smaller than the
  number of blocks, empty and reversed.
* `sub_queues`: one producer, 2 consumers, 3 blocks of 2 slots, indices that wrap at
  16 and begin at 0 or just before the wrap, 5 items, bulks that span three blocks, a
  block index of 2 entries that grows once, at most one overcommit outstanding when a
  dequeue begins. The index fills, grows, wraps, and blocks are used again.
* `queue`: 2 consumers, 2 producers, 2 or 3 items, offsets that wrap at 2.
* `queue_parts_md5`: 2 threads, a pool of one block and a heap of one for the free
  list: one block that is taken, put back and taken again between two accesses of the
  other thread is the ABA case. 3 threads, two with colliding hash codes, tables of 2,
  4 and 8 for the producers. For MD5 a message of up to 140 bytes in pieces of 1, 64
  and 119, with a counter whose low word holds 1024 bits: every buffer position, both
  padding cases, two full blocks and the carry occur.
* `semaphore`: 3 threads, requests of 1 or 2, 3 releases.
* The violation runs take the smallest instance that shows the behaviour.

`BelowBound` stops new requests when they could exceed `MaxConfigNum`; `MaxEntries`
bounds `sm_config`. Behaviours may stop there, a store to which nobody sends a request
may stop, a pool may be destroyed and a queue may have had all its items, so deadlock
is not checked in those runs. In `shard_master` the client can always poll again, and
in `queue_parts_md5` threads can always take and give back, make a token and destroy
it, or hash again: there deadlock is checked. Symmetry (servers, threads, clients,
blocks, consumers) is used where no liveness is checked.

### Fairness

Weak fairness of threads that are inside an operation, and of nothing else: of each
handler once it has a request, of each server's tick thread (it wakes every
`TICK_INTERVAL`), its `moveKeys` thread (a busy loop) and its pool threads (a polling
loop); of workers, callers and the waiting owner of a `ThreadPool`; of each thread in an
operation of a queue or a semaphore. All are OS threads that block on mutexes held for
a bounded time only. Operators, clients, callers and owners need not begin anything, a
paused pool need not be unpaused, and a timeout need not happen.

## 4. The theorems

For all finite or infinite sets of servers and threads, all `NumChunks >= 1`, all
`uint` widths that can hold it and all Move ranges:

* `SubtractDifference`, `AssertUnreachable` (`ShardLemmas`): `subtract` is the set
  difference, its results are proper shards, and the final assert is unreachable. By
  cases on the tests of the function. Where it computes `b.lower - 1`, `b.lower > 0`;
  where `b.upper + 1`, `b.upper < UIntMax`; so nothing wraps.
* `TypeCorrect` (`ShardMasterProofs`): `SMSpec => []SMTypeOK`. Inductive as it stands.
* `Exclusive`: `SMSpec => []ExclusiveOwnership`. Inductive with the type invariant.
  `MoveApply` takes the range from every entry before it adds it to those of one
  address (`AfterMoveChunks`, from `SubtractDifference`). `redistributeChunks` makes
  disjoint ranges (`EvenDisjoint`, from the monotonicity of multiplication). `Leave`
  only drops an entry (`LeaveEntries`), `JoinPush` adds an empty one (`PushEntries`).
* `Numbered`: `SMSpec => GainIsNumbered`, an action property, from the type invariant
  and the same two lemmas: the steps that do not increment `config_num` leave no
  server with a chunk it did not have (`NoGain`).

Assumptions, named in the modules and evaluated by TLC in the runs: `UIntAssumption`,
`ChunkAssumption`, `MoveAssumption` (ranges are pairs of uints), `NobodyAssumption`,
`BoundAssumption` (no more entries than chunks: beyond that the bounds of
`redistributeChunks` wrap).

Only model-checked: everything about `Client`, `DKVStore`, `FaultyStore`, the pool, the
queues, the semaphore and MD5 (whose module uses recursive operators and `Bitwise`), the
refinements of `Assignment` and `CountingSemaphore`, and liveness, which the prover does
not handle.

## 5. Not modelled

* `Get` of a volume server, which changes nothing.
* That `formModMap` indexes a vector it has just cleared: `mod_map` is modelled with
  the content this has while the cleared storage stays in place.
* Outcomes of data races other than those named above, such as a crash.
* More faults than the ones of `FaultyStore`: requests that arrive twice, and leveldb
  writes that fail or are not durable.
* A server that is asked to leave after its `Join` has returned and before its
  constructor is done.
* Move ranges past `NUM_CHUNKS` at volume servers, where `to_move` is indexed without
  a check (`MoveRangeAssumption`). The shard master is modelled with any range.
* More than `NUM_CHUNKS` servers (`BoundAssumption`).
* Explicit producers when an allocation fails, or an element's constructor throws,
  after the operation has reserved a block. The actions are there, behind the
  constants `BulkFails` and `BoundaryThrows`; with either `TRUE` the entries that were
  undone are not those of the blocks that were reserved. The store has no
  producer tokens and its elements do not throw, so the run takes both as `FALSE`.
* Of `concurrentqueue.h`: moving and swapping queues and tokens, which is not
  thread-safe; thread-exit listeners, which are compiled out; the debug and memory
  statistics code; the constructors' arithmetic for the number of blocks.
* `synced_stream` and `timer` of `thread_pool.hpp` (output and wall-clock time), the
  Windows and Mach semaphores.
* Formatting, logging, the sanity script in the client's `main`, generated protobuf
  code, and the test harness (`test_utils`), which starts processes and sends single
  RPCs; the order in which the tests use it is the premise of `SpacedSpec`.

## 6. Plan

Proofs are next: the refinement of `Assignment` (with a lemma that the even ranges
cover all chunks), `CurrentNumberCurrentMappings` (inductive: the client's number and
the polled number are at most `config_num`), the refinement of `CountingSemaphore` by
`LightweightSemaphore` (inductive: posts match sleepers), `TasksConserved` of
`ThreadPool`, the type invariant and `NoKeyLost` of `DKVStore` (inductive: an
acknowledged key has a copy at a server where no task is about to drop it).

----------------------------- MODULE ThreadPool -----------------------------
(***************************************************************************)
(* The thread_pool of src/utils/thread-pool.  Callers push and submit      *)
(* tasks and parallelize loops; the owner pauses, waits, resets and        *)
(* destroys the pool.  A step is one access to an atomic (tasks_total,     *)
(* paused, running, blocks_running) or one critical section of             *)
(* queue_mutex.                                                            *)
(***************************************************************************)
EXTENDS Integers, Sequences, FiniteSets, FiniteSetsExt, Functions, SequencesExt

CONSTANTS
  Caller,
  MaxThreads,     \* largest thread_count
  MaxTasks,       \* bound on the tasks ever pushed
  MaxResets,      \* bound on the calls of reset
  LoopCall,       \* calls of parallelize_loop: first, last, num_blocks
  UIntMod         \* 2 ^ width of ui32

ASSUME PoolAssumption ==
  /\ IsFiniteSet(Caller)
  /\ MaxThreads \in Nat \ {0} /\ MaxTasks \in Nat /\ MaxResets \in Nat
  /\ LoopCall \subseteq [first : Nat, last : Nat, num_blocks : Nat]
  /\ UIntMod \in Nat /\ UIntMod > MaxTasks

Idle == [at |-> "idle"]
OwnerIdle == [at |-> "idle", then |-> "nothing"]
NoLoop == [blocks |-> <<>>]
Id == 1 .. MaxTasks
Worker == 1 .. MaxThreads

VARIABLES
  tasks,          \* the queue
  tasks_total, paused, running, thread_count,
  worker,         \* progress of each thread of the pool
  caller,         \* progress of each caller
  blocks_running, \* the local of each caller's parallelize_loop
  owner,          \* progress of the owner
  future,         \* by task: the promise of a submit
  pushed, runs,   \* history: tasks created; how often each was executed
  iterated,       \* history: how often each index of the caller's loop was
  resets          \* history: calls of reset

queueVars == <<tasks, tasks_total>>
controlVars == <<paused, running, thread_count, owner, resets>>
callerVars == <<caller, pushed>>
effectVars == <<blocks_running, future, runs, iterated>>
vars == <<queueVars, controlVars, worker, callerVars, effectVars>>

Index == UNION {Min({l.first, l.last}) .. Max({l.first, l.last}) : l \in LoopCall}

Never == [i \in Index |-> 0]

\* Workers above thread_count do not exist.
create_threads(n) == [w \in Worker |-> [at |-> IF w <= n THEN "test" ELSE "none"]]

Init ==
  /\ tasks = <<>>
  /\ tasks_total = 0
  /\ paused = FALSE
  /\ running = TRUE
  /\ thread_count \in Worker
  /\ worker = create_threads(thread_count)
  /\ caller = [c \in Caller |-> Idle]
  /\ blocks_running = [c \in Caller |-> 0]
  /\ owner = OwnerIdle
  /\ future = [i \in Id |-> "none"]
  /\ pushed = 0
  /\ runs = [i \in Id |-> 0]
  /\ iterated = [c \in Caller |-> Never]
  /\ resets = 0

-----------------------------------------------------------------------------
(* push_task, submit *)

\* push_task counts the task first ...
StartPush(c, task, loop) ==
  /\ pushed < MaxTasks
  /\ pushed' = pushed + 1
  /\ tasks_total' = tasks_total + 1
  /\ caller' = [caller EXCEPT ![c] =
       [at |-> "push", task |-> [id |-> pushed + 1] @@ task, loop |-> loop]]
  /\ UNCHANGED tasks

\* No caller comes while the pool is being destroyed.
MayCall(c) == caller[c] = Idle /\ owner.then # "destroy"

push_task(c) ==
  /\ MayCall(c)
  /\ StartPush(c, [kind |-> "push", by |-> c], NoLoop)
  /\ UNCHANGED <<controlVars, worker, effectVars>>

submit(c) ==
  /\ MayCall(c)
  /\ StartPush(c, [kind |-> "submit", by |-> c], NoLoop)
  /\ future' = [future EXCEPT ![pushed + 1] = "pending"]
  /\ UNCHANGED <<controlVars, worker, blocks_running, runs, iterated>>

AfterPush(c) ==
  caller' = [caller EXCEPT ![c] =
    IF @.loop = NoLoop THEN Idle ELSE [at |-> "loop", loop |-> @.loop]]

\* ... and then puts it into the queue.
Push(c) ==
  /\ caller[c].at = "push"
  /\ tasks' = Append(tasks, caller[c].task)
  /\ AfterPush(c)
  /\ UNCHANGED <<tasks_total, controlVars, worker, pushed, effectVars>>

-----------------------------------------------------------------------------
(* parallelize_loop *)

\* Mutant: the last block ends like the others.
LoopBlocksNoRemainder(l, n) ==
  LET size == (Max({l.first, l.last}) - Min({l.first, l.last})) \div n
      blockSize == Max({size, 1})
  IN  [t \in 1 .. n |-> [start |-> Min({l.first, l.last}) + (t - 1) * blockSize,
                         end   |-> Min({l.first, l.last}) + t * blockSize]]

\* The half-open blocks for at most n of them; the bounds are swapped if they
\* are the wrong way round, and the last block takes the remainder.
LoopBlocks(l, n) ==
  LET low  == Min({l.first, l.last})
      high == Max({l.first, l.last})
      size == (high - low) \div n
      num_blocks == IF size = 0 THEN high - low ELSE n
      block_size == IF size = 0 THEN 1 ELSE size
  IN  [t \in 1 .. num_blocks |->
         [start |-> low + (t - 1) * block_size,
          end   |-> IF t = num_blocks THEN high ELSE low + t * block_size]]

parallelize_loop(c, l) ==
  /\ MayCall(c)
  /\ l.first # l.last
  /\ LET blocks == LoopBlocks(l, IF l.num_blocks = 0 THEN thread_count ELSE l.num_blocks) IN
       /\ pushed + Len(blocks) <= MaxTasks
       /\ caller' = [caller EXCEPT ![c] = [at |-> "loop", loop |-> [call |-> l, blocks |-> blocks]]]
  /\ iterated' = [iterated EXCEPT ![c] = Never]
  /\ UNCHANGED <<queueVars, controlVars, worker, pushed, blocks_running, future, runs>>

LoopPush(c) ==
  /\ caller[c].at = "loop"
  /\ caller[c].loop.blocks # <<>>
  /\ blocks_running' = [blocks_running EXCEPT ![c] = @ + 1]
  /\ StartPush(c, [kind |-> "block", by |-> c, block |-> Head(caller[c].loop.blocks)],
               [caller[c].loop EXCEPT !.blocks = Tail(@)])
  /\ UNCHANGED <<controlVars, worker, future, runs, iterated>>

\* The final loop has seen blocks_running = 0.
LoopReturn(c) ==
  /\ caller[c].at = "loop"
  /\ caller[c].loop.blocks = <<>>
  /\ blocks_running[c] = 0
  /\ caller' = [caller EXCEPT ![c] = Idle]
  /\ UNCHANGED <<queueVars, controlVars, worker, pushed, effectVars>>

-----------------------------------------------------------------------------
(* worker, pop_task *)

Goto(w, at) == worker' = [worker EXCEPT ![w] = [at |-> at]]

WorkerTest(w) ==
  /\ worker[w].at = "test"
  /\ Goto(w, IF running THEN "peek" ELSE "exited")
  /\ UNCHANGED <<queueVars, controlVars, callerVars, effectVars>>

\* `paused` is read before the queue is locked.
WorkerPeek(w) ==
  /\ worker[w].at = "peek"
  /\ Goto(w, IF paused THEN "test" ELSE "pop")
  /\ UNCHANGED <<queueVars, controlVars, callerVars, effectVars>>

\* Mutant: the task is copied and stays in the queue.
pop_taskCopy(w) ==
  /\ worker[w].at = "pop"
  /\ IF tasks = <<>>
       THEN Goto(w, "test")
       ELSE worker' = [worker EXCEPT ![w] = [at |-> "run", task |-> Head(tasks)]]
  /\ UNCHANGED <<tasks, tasks_total, controlVars, callerVars, effectVars>>

pop_task(w) ==
  /\ worker[w].at = "pop"
  /\ IF tasks = <<>>
       THEN Goto(w, "test") /\ UNCHANGED tasks
       ELSE /\ worker' = [worker EXCEPT ![w] = [at |-> "run", task |-> Head(tasks)]]
            /\ tasks' = Tail(tasks)
  /\ UNCHANGED <<tasks_total, controlVars, callerVars, effectVars>>

\* The task returns, or throws if it was submitted (the wrapper catches); a
\* pushed task that throws ends the process and is not modelled.
RunTask(w) ==
  /\ worker[w].at = "run"
  /\ LET task == worker[w].task IN
       /\ runs' = [runs EXCEPT ![task.id] = @ + 1]
       /\ \/ task.kind = "push" /\ UNCHANGED <<future, iterated>>
          \/ /\ task.kind = "submit"
             /\ \E outcome \in {"value", "exception"} :
                  future' = [future EXCEPT ![task.id] = outcome]
             /\ UNCHANGED iterated
          \/ /\ task.kind = "block"
             /\ iterated' = [iterated EXCEPT ![task.by] =
                  [i \in Index |-> IF i \in task.block.start .. (task.block.end - 1)
                                   THEN @[i] + 1 ELSE @[i]]]
             /\ UNCHANGED future
       /\ worker' = [worker EXCEPT ![w].at = IF task.kind = "block" THEN "unblock" ELSE "ran"]
  /\ UNCHANGED <<queueVars, controlVars, callerVars, blocks_running>>

\* The last act of a block's task.
Unblock(w) ==
  /\ worker[w].at = "unblock"
  /\ LET c == worker[w].task.by IN
       blocks_running' = [blocks_running EXCEPT ![c] = @ - 1]
  /\ worker' = [worker EXCEPT ![w].at = "ran"]
  /\ UNCHANGED <<queueVars, controlVars, callerVars, future, runs, iterated>>

\* Mutant: the counter is not decremented after an exception.
CountDownUnlessThrown(w) ==
  /\ worker[w].at = "ran"
  /\ tasks_total' = IF future[worker[w].task.id] = "exception" THEN tasks_total ELSE tasks_total - 1
  /\ Goto(w, "test")
  /\ UNCHANGED <<tasks, controlVars, callerVars, effectVars>>

CountDown(w) ==
  /\ worker[w].at = "ran"
  /\ tasks_total' = tasks_total - 1
  /\ Goto(w, "test")
  /\ UNCHANGED <<tasks, controlVars, callerVars, effectVars>>

WorkerStep(w) ==
  \/ WorkerTest(w) \/ WorkerPeek(w) \/ pop_task(w)
  \/ RunTask(w) \/ Unblock(w) \/ CountDown(w)

-----------------------------------------------------------------------------
(* The owner: paused, wait_for_tasks, reset, the destructor *)

\* The public member is set.
SetPaused(b) ==
  /\ owner = OwnerIdle
  /\ paused' = b
  /\ UNCHANGED <<queueVars, running, thread_count, owner, resets, worker, callerVars, effectVars>>

OwnerGoto(o) ==
  /\ owner' = o
  /\ UNCHANGED <<queueVars, running, thread_count, resets, worker, callerVars, effectVars>>

\* Mutant: the destructor does not wait.
StartWaitNot(then) ==
  /\ owner = OwnerIdle
  /\ then = "destroy" => \A c \in Caller : caller[c] = Idle
  /\ OwnerGoto([at |-> IF then = "destroy" THEN "stop" ELSE "wait",
                then |-> then, was_paused |-> paused])
  /\ UNCHANGED paused

\* The destructor waits too; nobody else may be using the pool by then.
StartWait(then) ==
  /\ owner = OwnerIdle
  /\ then = "destroy" => \A c \in Caller : caller[c] = Idle
  /\ OwnerGoto([at |-> "wait", then |-> then, was_paused |-> paused])
  /\ UNCHANGED paused

\* reset pauses the pool and waits.
reset ==
  /\ owner = OwnerIdle
  /\ resets < MaxResets
  /\ resets' = resets + 1
  /\ paused' = TRUE
  /\ owner' = [at |-> "wait", then |-> "reset", was_paused |-> paused]
  /\ UNCHANGED <<queueVars, running, thread_count, worker, callerVars, effectVars>>

\* What follows the wait.
WaitOver ==
  owner' = IF owner.then = "nothing" THEN OwnerIdle ELSE [owner EXCEPT !.at = "stop"]

\* One round of wait_for_tasks; in an unpaused pool it looks at tasks_total.
WaitPeek ==
  /\ owner.at = "wait"
  /\ OwnerGoto([owner EXCEPT !.at = IF paused THEN "count" ELSE "total"])
  /\ UNCHANGED paused

WaitTotal ==
  /\ owner.at = "total"
  /\ IF tasks_total = 0 THEN WaitOver
                        ELSE owner' = [owner EXCEPT !.at = "wait"]
  /\ UNCHANGED <<queueVars, paused, running, thread_count, resets, worker, callerVars, effectVars>>

\* get_tasks_running: tasks_total and the length of the queue are read one
\* after the other, in the order the compiler likes.
CountFirst ==
  /\ owner.at = "count"
  /\ \/ OwnerGoto([at |-> "minus", total |-> tasks_total] @@ owner)
     \/ OwnerGoto([at |-> "from", queued |-> Len(tasks)] @@ owner)
  /\ UNCHANGED paused

Judge(difference) ==
  OwnerGoto([at |-> "judge", then |-> owner.then, was_paused |-> owner.was_paused,
             count |-> difference % UIntMod])

CountSecond ==
  /\ \/ owner.at = "minus" /\ Judge(owner.total - Len(tasks))
     \/ owner.at = "from" /\ Judge(tasks_total - owner.queued)
  /\ UNCHANGED paused

WaitRunning ==
  /\ owner.at = "judge"
  /\ IF owner.count = 0
       THEN WaitOver
       ELSE owner' = [at |-> "wait", then |-> owner.then, was_paused |-> owner.was_paused]
  /\ UNCHANGED <<queueVars, paused, running, thread_count, resets, worker, callerVars, effectVars>>

\* running = false, in reset and in the destructor.
Stop ==
  /\ owner.at = "stop"
  /\ running' = FALSE
  /\ owner' = [owner EXCEPT !.at = "join"]
  /\ UNCHANGED <<queueVars, paused, thread_count, resets, worker, callerVars, effectVars>>

Joined == \A w \in 1 .. thread_count : worker[w].at = "exited"

\* Mutant: the new threads find running = false.
RestartStopped(n) ==
  /\ owner.at = "join" /\ owner.then = "reset"
  /\ Joined
  /\ thread_count' = n
  /\ paused' = owner.was_paused
  /\ worker' = create_threads(n)
  /\ owner' = OwnerIdle
  /\ UNCHANGED <<queueVars, running, resets, callerVars, effectVars>>

\* destroy_threads has joined every thread; reset starts new ones.
Restart(n) ==
  /\ owner.at = "join" /\ owner.then = "reset"
  /\ Joined
  /\ thread_count' = n
  /\ paused' = owner.was_paused
  /\ running' = TRUE
  /\ worker' = create_threads(n)
  /\ owner' = OwnerIdle
  /\ UNCHANGED <<queueVars, resets, callerVars, effectVars>>

Gone ==
  /\ owner.at = "join" /\ owner.then = "destroy"
  /\ Joined
  /\ owner' = [at |-> "gone", then |-> "destroy"]
  /\ UNCHANGED <<queueVars, paused, running, thread_count, resets, worker, callerVars, effectVars>>

-----------------------------------------------------------------------------

CallerStep(c) == Push(c) \/ LoopPush(c) \/ LoopReturn(c)

WaitStep == WaitPeek \/ WaitTotal \/ CountFirst \/ CountSecond \/ WaitRunning \/ Stop

Next ==
  \/ \E c \in Caller : push_task(c) \/ submit(c) \/ CallerStep(c)
  \/ \E c \in Caller, l \in LoopCall : parallelize_loop(c, l)
  \/ \E w \in Worker : WorkerStep(w)
  \/ \E b \in BOOLEAN : SetPaused(b)
  \/ StartWait("nothing") \/ StartWait("destroy") \/ reset \/ WaitStep
  \/ \E n \in Worker : Restart(n)
  \/ Gone

Spec == Init /\ [][Next]_vars

\* Threads are scheduled.  Nobody has to start a call or to unpause the pool.
FairSpec ==
  /\ Spec
  /\ \A c \in Caller : WF_vars(CallerStep(c))
  /\ \A w \in Worker : WF_vars(WorkerStep(w))
  /\ WF_vars(WaitStep) /\ WF_vars(Gone) /\ WF_vars(\E n \in Worker : Restart(n))

-----------------------------------------------------------------------------
(* Properties *)

Task == [id : Id, kind : {"push", "submit"}, by : Caller]
        \cup [id : Id, kind : {"block"}, by : Caller, block : [start : Index, end : Index]]

PoolTypeOK ==
  /\ tasks \in Seq(Task)
  /\ tasks_total \in 0 .. MaxTasks
  /\ <<paused, running>> \in BOOLEAN \X BOOLEAN
  /\ thread_count \in Worker
  /\ \A w \in Worker : \/ worker[w].at \in {"none", "test", "peek", "pop", "exited"}
                       \/ worker[w].at \in {"run", "unblock", "ran"} /\ worker[w].task \in Task
  /\ \A c \in Caller : \/ caller[c] = Idle
                       \/ caller[c].at = "push" /\ caller[c].task \in Task
                       \/ caller[c].at = "loop" /\ caller[c].loop.call \in LoopCall
  /\ blocks_running \in [Caller -> 0 .. MaxTasks]
  /\ future \in [Id -> {"none", "pending", "value", "exception"}]

\* Workers that have a task and have not counted it down.
Busy == {w \in Worker : worker[w].at \in {"run", "unblock", "ran"}}
Pushing == {c \in Caller : caller[c].at = "push"}

Unfinished ==
  {tasks[i].id : i \in DOMAIN tasks} \cup {caller[c].task.id : c \in Pushing}
  \cup {worker[w].task.id : w \in {v \in Worker : worker[v].at = "run"}}

\* Through pushes, pauses and resets every task is in one place: about to be
\* queued, queued, or with one worker, and it has been executed exactly once
\* after that.  tasks_total counts the tasks that are not finished.
TasksConserved ==
  /\ tasks_total = Cardinality(Pushing) + Len(tasks) + Cardinality(Busy)
  /\ \A i \in Id : runs[i] = IF i \in 1 .. pushed \ Unfinished THEN 1 ELSE 0

\* The variables are what they should be, and so is the count of tasks.
PoolInv == PoolTypeOK /\ TasksConserved

\* When parallelize_loop is free to return, each index of the range has been
\* visited once, and no block is left that would touch its local counter.
LoopComplete ==
  \A c \in Caller :
    caller[c].at = "loop" /\ caller[c].loop.blocks = <<>> /\ blocks_running[c] = 0 =>
      LET l == caller[c].loop.call IN
        /\ \A i \in Index :
             iterated[c][i] = IF i \in Min({l.first, l.last}) .. (Max({l.first, l.last}) - 1)
                              THEN 1 ELSE 0
        /\ \A w \in Busy : worker[w].task.by = c => worker[w].at # "unblock"

\* The destructor of a pool that was not paused returns only when every task
\* has been executed, and no thread is left.
DestroyedAfterTasks ==
  owner.at = "gone" =>
    /\ ~paused => \A i \in 1 .. pushed : runs[i] = 1 /\ future[i] # "pending"
    /\ Busy = {}

\* A task is executed if the pool is not paused for ever (reset must not lose
\* the queue), and so the future of a submitted one becomes ready.
TasksExecuted ==
  <>[](~paused /\ owner.at # "gone") =>
    \A i \in Id : i <= pushed ~> (runs[i] = 1 /\ future[i] # "pending")

\* wait_for_tasks, reset and the destructor return: the count of running tasks
\* reaches zero in a paused pool, all tasks finish in one that is not.
WaitReturns == owner.at = "wait" ~> owner.at \in {"idle", "gone"}
=============================================================================

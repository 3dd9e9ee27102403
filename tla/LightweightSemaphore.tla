------------------------ MODULE LightweightSemaphore ------------------------
(***************************************************************************)
(* moodycamel::LightweightSemaphore: a counter in user space, and a POSIX  *)
(* semaphore on which threads sleep when the counter has run out.          *)
(*                                                                         *)
(* A step is one access to m_count or m_sema.  A load followed by a        *)
(* compare-exchange of the loaded value is one step: when the exchange     *)
(* fails the code loads again, and nothing has changed.                    *)
(***************************************************************************)
EXTENDS Integers, FiniteSets, FiniteSetsExt

CONSTANTS
  Thread,
  MaxRequest,        \* permits that one call asks for or releases, at most
  MaxReleased        \* bound on all releases together

ASSUME SemaphoreAssumption ==
  IsFiniteSet(Thread) /\ MaxRequest \in Nat \ {0} /\ MaxReleased \in Nat /\ MaxRequest <= MaxReleased

\* What a caller is willing to do: tryWait, or wait with a timeout that is
\* zero, positive or negative (no limit).
Patience == {"try", "zero", "timed", "forever"}

Idle == [at |-> "idle"]

VARIABLES
  m_count,           \* permits, less the threads that registered to sleep
  m_sema,            \* value of the POSIX semaphore
  thread,            \* what each thread is doing
  released, acquired \* history: permits signalled, and handed to callers

vars == <<m_count, m_sema, thread, released, acquired>>

\* The constructor's initialCount, like a first signal.
Init ==
  /\ m_count \in 0 .. MaxRequest
  /\ m_sema = 0
  /\ thread = [t \in Thread |-> Idle]
  /\ released = m_count
  /\ acquired = 0

At(t, at) == thread[t].at = at

Goto(t, at) == thread' = [thread EXCEPT ![t].at = at]

Return(t) == thread' = [thread EXCEPT ![t] = Idle]

\* The counter gives n permits to the caller.
Grant(n) == m_count' = m_count - n /\ acquired' = acquired + n

\* What a request for max permits takes from m_count.
Greedy(max) == Min({max, m_count})

-----------------------------------------------------------------------------
(* signal *)

\* Mutant: every signal posts, sleepers or not.
signalAlways(t, n) ==
  /\ thread[t] = Idle
  /\ released + n <= MaxReleased
  /\ m_count' = m_count + n
  /\ released' = released + n
  /\ thread' = [thread EXCEPT ![t] = [at |-> "post", left |-> n]]
  /\ UNCHANGED <<m_sema, acquired>>

\* Mutant: one post, however many sleepers were counted.
signalOne(t, n) ==
  /\ thread[t] = Idle
  /\ released + n <= MaxReleased
  /\ m_count' = m_count + n
  /\ released' = released + n
  /\ thread' = [thread EXCEPT ![t] = IF m_count < 0 THEN [at |-> "post", left |-> 1] ELSE Idle]
  /\ UNCHANGED <<m_sema, acquired>>

\* fetch_add, and the number of sleepers it owes a post.
signal(t, n) ==
  /\ thread[t] = Idle
  /\ released + n <= MaxReleased
  /\ m_count' = m_count + n
  /\ released' = released + n
  /\ LET toRelease == Min({-m_count, n}) IN
       thread' = [thread EXCEPT ![t] =
                    IF toRelease > 0 THEN [at |-> "post", left |-> toRelease] ELSE Idle]
  /\ UNCHANGED <<m_sema, acquired>>

\* sem_post, one at a time.
Post(t) ==
  /\ At(t, "post")
  /\ m_sema' = m_sema + 1
  /\ IF thread[t].left = 1 THEN Return(t)
                           ELSE thread' = [thread EXCEPT ![t].left = @ - 1]
  /\ UNCHANGED <<m_count, released, acquired>>

-----------------------------------------------------------------------------
(* tryWait, tryWaitMany; wait, waitMany begin with them *)

\* A call for at most max permits.
Call(t, max, patience) ==
  /\ thread[t] = Idle
  /\ thread' = [thread EXCEPT ![t] = [at |-> "try", max |-> max, patience |-> patience]]
  /\ UNCHANGED <<m_count, m_sema, released, acquired>>

tryWaitMany(t) ==
  /\ At(t, "try")
  /\ IF m_count > 0
       THEN Grant(Greedy(thread[t].max)) /\ Return(t)
       ELSE /\ IF thread[t].patience = "try" THEN Return(t) ELSE Goto(t, "spin")
            /\ UNCHANGED <<m_count, acquired>>
  /\ UNCHANGED <<m_sema, released>>

-----------------------------------------------------------------------------
(* waitManyWithPartialSpinning; waitWithPartialSpinning is its max = 1 *)

\* A spin finds permits.
Spin(t) ==
  /\ At(t, "spin")
  /\ m_count > 0
  /\ Grant(Greedy(thread[t].max))
  /\ Return(t)
  /\ UNCHANGED <<m_sema, released>>

\* Out of spins (any number of them may have failed): fetch_sub.  If there was
\* a permit after all it is ours, else the thread is registered as a sleeper.
Register(t) ==
  /\ At(t, "spin")
  /\ m_count' = m_count - 1
  /\ IF m_count > 0
       THEN acquired' = acquired + 1 /\ Goto(t, "rest")
       ELSE /\ Goto(t, IF thread[t].patience = "zero" THEN "adjust" ELSE "asleep")
            /\ UNCHANGED acquired
  /\ UNCHANGED <<m_sema, released>>

\* sem_wait or sem_timedwait gets a post.
Wake(t) ==
  /\ At(t, "asleep")
  /\ m_sema > 0
  /\ m_sema' = m_sema - 1
  /\ acquired' = acquired + 1
  /\ Goto(t, "rest")
  /\ UNCHANGED <<m_count, released>>

\* sem_timedwait runs out of time, perhaps just as a post arrives.
TimeOut(t) ==
  /\ At(t, "asleep")
  /\ thread[t].patience = "timed"
  /\ Goto(t, "adjust")
  /\ UNCHANGED <<m_count, m_sema, released, acquired>>

\* Mutant: the count is put back although the sleeper was signalled.
RevertAlways(t) ==
  /\ At(t, "adjust")
  /\ m_count' = m_count + 1
  /\ Return(t)
  /\ UNCHANGED <<m_sema, released, acquired>>

\* Mutant: not put back when this is the only sleeper.
RevertIfOthers(t) ==
  /\ At(t, "adjust")
  /\ m_count < -1
  /\ m_count' = m_count + 1
  /\ Return(t)
  /\ UNCHANGED <<m_sema, released, acquired>>

\* After a timeout, the count is put back if it is still negative ...
Revert(t) ==
  /\ At(t, "adjust")
  /\ m_count < 0
  /\ m_count' = m_count + 1
  /\ Return(t)
  /\ UNCHANGED <<m_sema, released, acquired>>

\* ... and if not, a signal has counted this sleeper: its post must be taken.
SeeSignalled(t) ==
  /\ At(t, "adjust")
  /\ m_count >= 0
  /\ Goto(t, "grab")
  /\ UNCHANGED <<m_count, m_sema, released, acquired>>

\* try_wait: the post may not have been made yet, or another thread took it.
Grab(t) ==
  /\ At(t, "grab")
  /\ IF m_sema > 0
       THEN m_sema' = m_sema - 1 /\ acquired' = acquired + 1 /\ Goto(t, "rest")
       ELSE Goto(t, "adjust") /\ UNCHANGED <<m_sema, acquired>>
  /\ UNCHANGED <<m_count, released>>

\* With one permit in hand, tryWaitMany for the others.
TakeRest(t) ==
  /\ At(t, "rest")
  /\ LET more == thread[t].max - 1 IN
       IF more > 0 /\ m_count > 0 THEN Grant(Greedy(more))
                                  ELSE UNCHANGED <<m_count, acquired>>
  /\ Return(t)
  /\ UNCHANGED <<m_sema, released>>

waitWithPartialSpinning(t) ==
  \/ Spin(t) \/ Register(t) \/ Wake(t) \/ TimeOut(t)
  \/ Revert(t) \/ SeeSignalled(t) \/ Grab(t)

waitManyWithPartialSpinning(t) == waitWithPartialSpinning(t) \/ TakeRest(t)

Next ==
  \E t \in Thread :
    \/ Post(t) \/ tryWaitMany(t) \/ waitManyWithPartialSpinning(t)
    \/ \E n \in 1 .. MaxRequest : signal(t, n)
    \/ \E n \in 1 .. MaxRequest, p \in Patience : Call(t, n, p)

Spec == Init /\ [][Next]_vars

\* What a thread inside an operation does of itself.  At any time at most one of
\* these is possible for it; no timeout is ever forced.
ThreadStep(t) ==
  \/ Post(t) \/ tryWaitMany(t) \/ Register(t) \/ Wake(t)
  \/ Revert(t) \/ SeeSignalled(t) \/ Grab(t) \/ TakeRest(t)

\* Threads are scheduled, and sem_wait returns if posts keep being there.
Fairness == \A t \in Thread : WF_vars(ThreadStep(t))

FairSpec == Spec /\ Fairness

-----------------------------------------------------------------------------
(* Properties *)

InWait == {"try", "spin", "asleep", "adjust", "grab", "rest"}

SemTypeOK ==
  /\ m_count \in Int
  /\ m_sema \in Nat
  /\ thread \in [Thread ->
       {Idle} \cup [at : {"post"}, left : 1 .. MaxRequest]
              \cup [at : InWait, max : 1 .. MaxRequest, patience : Patience]]
  /\ released \in 0 .. MaxReleased
  /\ acquired \in Nat

\* Threads that took the counter below zero and have no permit yet.
Sleepers == {t \in Thread : thread[t].at \in {"asleep", "adjust", "grab"}}

\* Posts that signallers still owe.
PostsDue == MapThenSumSet(LAMBDA t : thread[t].left, {t \in Thread : At(t, "post")})

\* Every sleeper the counter no longer accounts for has exactly one post, made
\* or due, and no post is left over: lost, and a thread sleeps on a free permit;
\* one too many, and a later sleeper is woken without a permit.  It has to hold
\* through signal's two steps and the retraction of a timed-out wait.
PostsMatchSleepers ==
  /\ m_count = released - acquired - Cardinality(Sleepers)
  /\ m_sema + PostsDue = Cardinality(Sleepers) + Min({m_count, 0})

\* Permits a caller could be given: the counter without its sleepers.
Counting == INSTANCE CountingSemaphore WITH permits <- m_count + Cardinality(Sleepers)

\* The two counters together behave like one counting semaphore.
CountingSpec == Counting!Spec

\* No thread sleeps on while a permit stays free: a signal that finds a sleeper
\* registered reaches it even if it races with the sleeper's way into sem_wait,
\* and with other sleepers that time out.
NoSleepOnFreePermit ==
  \A t \in Thread : []<>(~ At(t, "asleep") \/ released = acquired)

\* A wait whose time is up ends: the loop that retracts it does not go round for
\* ever between a count that says "signalled" and a post that does not come.
RetractionEnds ==
  \A t \in Thread : At(t, "adjust") ~> thread[t].at \notin {"adjust", "grab"}

\* The counters agree with what the threads are about to do.
SemInv == SemTypeOK /\ PostsMatchSleepers
=============================================================================

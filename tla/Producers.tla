------------------------------ MODULE Producers -----------------------------
(***************************************************************************)
(* How a thread gets its sub-queue in moodycamel::ConcurrentQueue: the     *)
(* list of all producers, whose inactive explicit ones are given to new    *)
(* tokens, and the hash tables that map a thread to its implicit producer. *)
(* Tables grow under a flag, older ones stay in use.                       *)
(*                                                                         *)
(* Keys are never removed (thread-exit notification is disabled in the     *)
(* header), so a probe that finds a key or the first empty slot is one     *)
(* step, and so is the insertion there.  The list grows at its tail; next  *)
(* pointers lead to lower positions.                                       *)
(***************************************************************************)
EXTENDS Integers, Sequences, FiniteSets, TLC

CONSTANTS
  Thread,
  Use,                       \* what the threads may do with the queue: functions from
                             \* Thread to sets of ways to enqueue
  NoThread,                  \* invalid_thread_id
  hashed,                    \* hash_thread_id
  INITIAL_IMPLICIT_PRODUCER_HASH_SIZE,
  MaxTables, MaxProducers    \* bounds on what is ever allocated

ProducersAssumption ==
  /\ Use \subseteq [Thread -> SUBSET {"implicit", "token"}] /\ NoThread \notin Thread
  /\ hashed \in [Thread -> Nat]
  /\ INITIAL_IMPLICIT_PRODUCER_HASH_SIZE \in Nat \ {0, 1}

VARIABLES
  use,                       \* of the threads: one of Use
  table,                     \* hash tables, oldest first; implicitProducerHash is the last
  implicitProducerHashCount, implicitProducerHashResizeInProgress,
  list,                      \* the producers: isExplicit, inactive, who made them
  producerCount,
  token,                     \* the producer of each thread's token, 0 for none
  thread                     \* progress of each thread

vars == <<use, table, implicitProducerHashCount, implicitProducerHashResizeInProgress, list, producerCount,
          token, thread>>
hashVars == <<table, implicitProducerHashCount, implicitProducerHashResizeInProgress>>
listVars == <<list, producerCount>>

Idle == [at |-> "idle"]
At(t, at) == thread[t].at = at
Goto(t, r) == thread' = [thread EXCEPT ![t] = r]

NewTable(capacity) == [i \in 0 .. (capacity - 1) |-> [key |-> NoThread, value |-> 0]]
Capacity(k) == Cardinality(DOMAIN table[k])

Init ==
  /\ use \in Use
  /\ table = <<NewTable(INITIAL_IMPLICIT_PRODUCER_HASH_SIZE)>>
  /\ implicitProducerHashCount = 0
  /\ implicitProducerHashResizeInProgress = FALSE
  /\ list = <<>> /\ producerCount = 0
  /\ token = [t \in Thread |-> 0]
  /\ thread = [t \in Thread |-> Idle]

-----------------------------------------------------------------------------
(* recycle_or_create_producer, add_producer *)

\* The call, after which the caller goes on with the record then; the tail of
\* the list is loaded.
Recycle(isExplicit, then) == [at |-> "scan", isExplicit |-> isExplicit, ptr |-> Len(list), then |-> then]

\* One producer of the list: the CAS on its flag, or on to the next.
Scan(t) ==
  /\ At(t, "scan")
  /\ LET p == thread[t].ptr IN
       IF p = 0 THEN Goto(t, [thread[t] EXCEPT !.at = "create"]) /\ UNCHANGED list
       ELSE IF list[p].inactive /\ list[p].isExplicit = thread[t].isExplicit
       THEN /\ list' = [list EXCEPT ![p].inactive = FALSE]
            /\ Goto(t, [producer |-> p] @@ thread[t].then)
       ELSE Goto(t, [thread[t] EXCEPT !.ptr = p - 1]) /\ UNCHANGED list
  /\ UNCHANGED <<hashVars, producerCount, token>>

\* A producer is created and counted, or the allocation fails.
CreateProducer(t) ==
  /\ At(t, "create")
  /\ \/ /\ producerCount < MaxProducers
        /\ producerCount' = producerCount + 1
        /\ Goto(t, [thread[t] EXCEPT !.at = "push"])
     \/ Goto(t, [producer |-> 0] @@ thread[t].then) /\ UNCHANGED producerCount
  /\ UNCHANGED <<hashVars, list, token>>

add_producer(t) ==
  /\ At(t, "push")
  /\ list' = Append(list, [isExplicit |-> thread[t].isExplicit, inactive |-> FALSE, by |-> t])
  /\ Goto(t, [producer |-> Len(list) + 1] @@ thread[t].then)
  /\ UNCHANGED <<hashVars, producerCount, token>>

recycle_or_create_producer(t) == Scan(t) \/ CreateProducer(t) \/ add_producer(t)

-----------------------------------------------------------------------------
(* ProducerToken *)

ProducerToken(t) ==
  /\ At(t, "idle")
  /\ "token" \in use[t]
  /\ token[t] = 0
  /\ Goto(t, Recycle(TRUE, [at |-> "tokenmade"]))
  /\ UNCHANGED <<hashVars, listVars, token>>

TokenMade(t) ==
  /\ At(t, "tokenmade")
  /\ token' = [token EXCEPT ![t] = thread[t].producer]
  /\ Goto(t, Idle)
  /\ UNCHANGED <<hashVars, listVars>>

\* The destructor.
DropToken(t) ==
  /\ At(t, "idle")
  /\ token[t] # 0
  /\ list' = [list EXCEPT ![token[t]].inactive = TRUE]
  /\ token' = [token EXCEPT ![t] = 0]
  /\ UNCHANGED <<hashVars, producerCount, thread>>

-----------------------------------------------------------------------------
(* get_or_add_implicit_producer *)

\* The slots of a table in the order of a probe for t.
Slot(k, t, n) == (hashed[t] + n) % Capacity(k)
InTable(k, t) ==
  \E n \in 0 .. (Capacity(k) - 1) :
    /\ table[k][Slot(k, t, n)].key = t
    /\ \A m \in 0 .. (n - 1) : table[k][Slot(k, t, m)].key # NoThread
ValueIn(k, t) == table[k][CHOOSE i \in DOMAIN table[k] : table[k][i].key = t].value

\* The key and the value go to the first empty slot.
Insert(k, t, value) ==
  LET n == CHOOSE n \in 0 .. (Capacity(k) - 1) :
             /\ table[k][Slot(k, t, n)].key = NoThread
             /\ \A m \in 0 .. (n - 1) : table[k][Slot(k, t, m)].key # NoThread
  IN  table' = [table EXCEPT ![k][Slot(k, t, n)] = [key |-> t, value |-> value]]

get_or_add_implicit_producer(t) ==
  /\ At(t, "idle")
  /\ "implicit" \in use[t]
  /\ Goto(t, [at |-> "search", main |-> Len(table)])
  /\ UNCHANGED <<hashVars, listVars, token>>

\* Mutant: only the main table is searched.
SearchMain(t) ==
  /\ At(t, "search")
  /\ LET main == thread[t].main IN
       IF InTable(main, t) THEN Goto(t, Idle) /\ UNCHANGED table
       ELSE Goto(t, [at |-> "count", main |-> main]) /\ UNCHANGED table
  /\ UNCHANGED <<implicitProducerHashCount, implicitProducerHashResizeInProgress, listVars, token>>

\* From the main table to older ones; what is found in one of those is copied to
\* the main one.
Search(t) ==
  /\ At(t, "search")
  /\ LET main == thread[t].main
         found == {k \in 1 .. main : InTable(k, t)}
     IN  IF found = {} THEN Goto(t, [at |-> "count", main |-> main]) /\ UNCHANGED table
         ELSE /\ Goto(t, Idle)
              /\ IF main \in found THEN UNCHANGED table
                 ELSE Insert(main, t, ValueIn(CHOOSE k \in found : \A j \in found : j <= k, t))
  /\ UNCHANGED <<implicitProducerHashCount, implicitProducerHashResizeInProgress, listVars, token>>

CountUp(t) ==
  /\ At(t, "count")
  /\ implicitProducerHashCount' = implicitProducerHashCount + 1
  /\ Goto(t, [at |-> "grow", main |-> thread[t].main, newCount |-> implicitProducerHashCount + 1])
  /\ UNCHANGED <<table, implicitProducerHashResizeInProgress, listVars, token>>

HalfFull(t, k) == thread[t].newCount >= Capacity(k) \div 2

\* The flag is taken if the table is half full and nobody has the flag.
Lock(t) ==
  /\ At(t, "grow")
  /\ IF HalfFull(t, thread[t].main) /\ ~ implicitProducerHashResizeInProgress
       THEN /\ implicitProducerHashResizeInProgress' = TRUE
            /\ Goto(t, [thread[t] EXCEPT !.at = "locked", !.main = Len(table)])
       ELSE /\ Goto(t, [thread[t] EXCEPT !.at = "room"])
            /\ UNCHANGED implicitProducerHashResizeInProgress
  /\ UNCHANGED <<table, implicitProducerHashCount, listVars, token>>

\* The least power of two times the capacity that is less than half full.
RECURSIVE Grown(_, _)
Grown(capacity, n) == IF n >= capacity \div 2 THEN Grown(2 * capacity, n) ELSE capacity

\* Mutant: whoever fails keeps the flag.
ResizeKeepsFlag(t) ==
  /\ At(t, "locked")
  /\ IF ~ HalfFull(t, thread[t].main)
       THEN Goto(t, [thread[t] EXCEPT !.at = "unlock"]) /\ UNCHANGED <<table, implicitProducerHashCount>>
       ELSE \/ /\ Len(table) < MaxTables
               /\ table' = Append(table, NewTable(Grown(2 * Capacity(thread[t].main), thread[t].newCount)))
               /\ Goto(t, [thread[t] EXCEPT !.at = "unlock", !.main = Len(table) + 1])
               /\ UNCHANGED implicitProducerHashCount
            \/ /\ implicitProducerHashCount' = implicitProducerHashCount - 1
               /\ Goto(t, Idle)
               /\ UNCHANGED table
  /\ UNCHANGED <<implicitProducerHashResizeInProgress, listVars, token>>

\* A larger table is published, unless somebody has done so, or the allocation
\* fails and the thread gives up.
Resize(t) ==
  /\ At(t, "locked")
  /\ IF ~ HalfFull(t, thread[t].main)
       THEN Goto(t, [thread[t] EXCEPT !.at = "unlock"]) /\ UNCHANGED <<table, implicitProducerHashCount>>
       ELSE \/ /\ Len(table) < MaxTables
               /\ table' = Append(table, NewTable(Grown(2 * Capacity(thread[t].main), thread[t].newCount)))
               /\ Goto(t, [thread[t] EXCEPT !.at = "unlock", !.main = Len(table) + 1])
               /\ UNCHANGED implicitProducerHashCount
            \/ /\ implicitProducerHashCount' = implicitProducerHashCount - 1
               /\ Goto(t, [at |-> "giveup"])
               /\ UNCHANGED table
  /\ UNCHANGED <<implicitProducerHashResizeInProgress, listVars, token>>

Unlock(t) ==
  /\ At(t, "unlock") \/ At(t, "giveup")
  /\ implicitProducerHashResizeInProgress' = FALSE
  /\ Goto(t, IF At(t, "giveup") THEN Idle ELSE [thread[t] EXCEPT !.at = "room"])
  /\ UNCHANGED <<table, implicitProducerHashCount, listVars, token>>

\* Is the table less than three quarters full?
Room(t) ==
  LET capacity == Capacity(thread[t].main) IN
    thread[t].newCount < (capacity \div 2) + (capacity \div 4)

\* Then the thread makes its producer; otherwise it looks at the main table again.
MakeOrWait(t) ==
  /\ At(t, "room")
  /\ Goto(t, IF Room(t) THEN Recycle(FALSE, [at |-> "made", main |-> thread[t].main])
             ELSE [thread[t] EXCEPT !.at = "grow", !.main = Len(table)])
  /\ UNCHANGED <<hashVars, listVars, token>>

\* The producer is entered in the table; without one the count goes back.  (An
\* implicit producer is never inactive, so none is recycled.)
Enter(t) ==
  /\ At(t, "made")
  /\ IF thread[t].producer = 0
       THEN implicitProducerHashCount' = implicitProducerHashCount - 1 /\ UNCHANGED table
       ELSE Insert(thread[t].main, t, thread[t].producer) /\ UNCHANGED implicitProducerHashCount
  /\ Goto(t, Idle)
  /\ UNCHANGED <<implicitProducerHashResizeInProgress, listVars, token>>

ImplicitStep(t) ==
  Search(t) \/ CountUp(t) \/ Lock(t) \/ Resize(t) \/ Unlock(t) \/ MakeOrWait(t) \/ Enter(t)

ThreadStep(t) == recycle_or_create_producer(t) \/ TokenMade(t) \/ ImplicitStep(t)

Next == \E t \in Thread :
  /\ get_or_add_implicit_producer(t) \/ ProducerToken(t) \/ DropToken(t) \/ ThreadStep(t)
  /\ UNCHANGED use

Spec == Init /\ [][Next]_vars

\* Threads inside the queue keep running.
FairSpec == Spec /\ \A t \in Thread : WF_vars(ThreadStep(t) /\ UNCHANGED use)

-----------------------------------------------------------------------------
(* Properties *)

AllIdle == \A t \in Thread : thread[t] = Idle

ProducersTypeOK ==
  /\ \A k \in DOMAIN table : \A i \in DOMAIN table[k] :
       table[k][i].key \in Thread \cup {NoThread} /\ table[k][i].value \in 0 .. Len(list)
  /\ implicitProducerHashCount \in 0 .. Cardinality(Thread)
  /\ implicitProducerHashResizeInProgress \in BOOLEAN
  /\ producerCount \in 0 .. MaxProducers
  /\ token \in [Thread -> 0 .. Len(list)]

\* A thread never gets a second implicit producer, which would reorder its own
\* items: neither when the table in which it is entered has been superseded nor
\* when it entered itself in a table that was no longer the main one.
OneImplicitEach ==
  \A p, q \in DOMAIN list :
    p # q /\ ~ list[p].isExplicit /\ ~ list[q].isExplicit => list[p].by # list[q].by

\* No two live tokens share a producer: a sub-queue has one producer at a time.
TokensDistinct ==
  \A t, u \in Thread : t # u /\ token[t] # 0 => token[t] # token[u]

\* A probe ends ("at least one slot is free in the hash table"), also in a small
\* old table into which threads with a stale pointer to it still copy themselves.
SlotFree == \A k \in DOMAIN table : \E i \in DOMAIN table[k] : table[k][i].key = NoThread

\* Failed allocations and lost races leave the counts right: they decide when
\* tables grow and how far a consumer's rotation counts.
CountsRight ==
  /\ producerCount >= Len(list)
  /\ AllIdle => /\ implicitProducerHashCount = Cardinality({p \in DOMAIN list : ~ list[p].isExplicit})
                /\ producerCount = Len(list)
                /\ ~ implicitProducerHashResizeInProgress

\* A thread that finds the table full while another one allocates waits for that
\* allocation, whether it succeeds or not, and not for one that is over: it is
\* kept waiting for ever only by others that take and clear the flag for ever.
NoWaitForNobody ==
  \A t \in Thread :
    <>[](~ At(t, "idle")) =>
      []<>(implicitProducerHashResizeInProgress) /\ []<>(~ implicitProducerHashResizeInProgress)

\* A sub-queue has one producer, and it is found, whatever tables grow meanwhile.
ProducersInv == ProducersTypeOK /\ OneImplicitEach /\ TokensDistinct /\ SlotFree /\ CountsRight
=============================================================================

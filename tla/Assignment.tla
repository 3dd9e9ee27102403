----------------------------- MODULE Assignment -----------------------------
(***************************************************************************)
(* What the shard master promises to those who poll it: at any time every  *)
(* chunk has at most one owner, and no server gains a chunk unless the     *)
(* version number, which they poll, grows by one in the same step.         *)
(***************************************************************************)
EXTENDS Naturals

CONSTANTS Server, Chunk, Nobody

VARIABLES
  owner,      \* the owner of each chunk, or Nobody
  version     \* number of the assignment

vars == <<owner, version>>

Init ==
  /\ owner = [c \in Chunk |-> Nobody]
  /\ version = 0

\* A server that leaves gives up chunks, under the old number.
Release ==
  /\ \E s \in Server : \E C \in SUBSET Chunk :
       /\ \A c \in C : owner[c] = s
       /\ owner' = [c \in Chunk |-> IF c \in C THEN Nobody ELSE owner[c]]
  /\ UNCHANGED version

\* All chunks are dealt out anew to the servers there are.
Rebalance ==
  /\ \/ owner' \in [Chunk -> Server]
     \/ owner' = [c \in Chunk |-> Nobody]
  /\ version' = version + 1

\* One set of chunks goes to one server, or to nobody if it has left.
MoveTo ==
  /\ \E s \in Server \cup {Nobody} : \E C \in SUBSET Chunk :
       owner' = [c \in Chunk |-> IF c \in C THEN s ELSE owner[c]]
  /\ version' = version + 1

Next == Release \/ Rebalance \/ MoveTo

Spec == Init /\ [][Next]_vars
=============================================================================

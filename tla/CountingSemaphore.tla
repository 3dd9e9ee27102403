-------------------------- MODULE CountingSemaphore -------------------------
(***************************************************************************)
(* What a semaphore promises: a permit is taken at most once, and only     *)
(* after it was released.                                                  *)
(***************************************************************************)
EXTENDS Integers

CONSTANT MaxRequest      \* permits one call asks for or releases, at most

VARIABLE permits

Init == permits \in 0 .. MaxRequest

Release == \E n \in 1 .. MaxRequest : permits' = permits + n

Take == \E n \in 1 .. MaxRequest : n <= permits /\ permits' = permits - n

Spec == Init /\ [][Release \/ Take]_permits
=============================================================================

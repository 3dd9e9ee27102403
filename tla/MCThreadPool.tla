---------------------------- MODULE MCThreadPool ----------------------------
(* ThreadPool for TLC. *)
EXTENDS ThreadPool

\* Uneven blocks, fewer indices than blocks, an empty loop, bounds in the wrong
\* order, and one block per thread.
MCLoops == {[first |-> 0, last |-> 3, num_blocks |-> 2],
            [first |-> 1, last |-> 3, num_blocks |-> 4],
            [first |-> 2, last |-> 2, num_blocks |-> 0],
            [first |-> 3, last |-> 1, num_blocks |-> 0]}
=============================================================================

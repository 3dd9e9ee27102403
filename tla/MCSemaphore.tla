---------------------------- MODULE MCSemaphore -----------------------------
(* LightweightSemaphore for TLC. *)
EXTENDS LightweightSemaphore

CONSTANTS t1, t2, t3
=============================================================================

--------------------------- MODULE MCHeapPreempt ---------------------------
(* Instances of HeapPreempt for TLC. *)
EXTENDS HeapPreempt, TLC

CONSTANTS c1
=============================================================================

--------------------------- MODULE MCSchedPreempt --------------------------
(***************************************************************************)
(* An instance of SchedPreempt for TLC.                                    *)
(***************************************************************************)
EXTENDS SchedPreempt, TLC

TaskSymmetry == Permutations(Task)
=============================================================================

---------------------------- MODULE MCEventQueue ---------------------------
(* Instances of EventQueue for TLC. *)
EXTENDS EventQueue, TLC

BlockSymmetry == Permutations(Block)
EventSymmetry == Permutations(Block) \cup Permutations(Event)
=============================================================================

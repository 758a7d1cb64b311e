-------------------------- MODULE MCEventHandlers --------------------------
(* Instances of EventHandlers for TLC. *)
EXTENDS EventHandlers, TLC

RegSymmetry == Permutations(Reg)
=============================================================================

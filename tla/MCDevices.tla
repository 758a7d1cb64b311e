------------------------------ MODULE MCDevices ----------------------------
(* Instances of Devices for TLC. *)
EXTENDS Devices, FiniteSets, TLC

CallerSymmetry == Permutations(Caller)

\* Bound: the kinds of incident that come together.
FewIncidents == Cardinality(incidents) <= 2
=============================================================================

--------------------------- MODULE MCAppLifecycle --------------------------
(* Instances of AppLifecycle for TLC. *)
EXTENDS AppLifecycle, TLC

AppSymmetry == Permutations(App)
=============================================================================

----------------------------- MODULE MCTimerIsr ----------------------------
(* Instances of TimerIsr for TLC. *)
EXTENDS TimerIsr, TLC
=============================================================================

--------------------------- MODULE MCSerialConsole -------------------------
(* Instances of SerialConsole for TLC. *)
EXTENDS SerialConsole, TLC
=============================================================================

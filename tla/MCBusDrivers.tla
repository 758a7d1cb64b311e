---------------------------- MODULE MCBusDrivers ---------------------------
(* Instances of BusDrivers for TLC. *)
EXTENDS BusDrivers, TLC

MCEnabled == "uart" :> {0} @@ "i2c" :> {0} @@ "spi" :> {0}

BusSymmetry == Permutations(Caller) \cup Permutations(Registration)
=============================================================================

---------------------------- MODULE MCIBCWiring -----------------------------
(* The start-up wiring for TLC: an operator may leave SimulationGasLimit   *)
(* nil, set it to 0, or set it to a positive value.                        *)
EXTENDS IBCWiring

MCSimGasConfigs == {0, 1}
=============================================================================

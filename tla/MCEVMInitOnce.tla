--------------------------- MODULE MCEVMInitOnce ---------------------------
(* Three goroutines calling EVMAppOptions with chain ids chosen so that
   every outcome of initEVM is reachable.                                  *)
EXTENDS EVMInitOnce, TLC

CONSTANTS c1, c2, c3

MCCallers == {c1, c2, c3}
MCNumerals == {"12000", "9000", "1"}

(* "kudora_12000-1", "kudora_9000-1", "12000" (parses, but no coin info),
   and "kudora_12000-1_other" (coin info found by its base id, but no EVM
   chain id can be parsed from it).                                        *)
MCChainIDs ==
  { << "kudora", "_", "12000", "-", "1" >>,
    << "kudora", "_", "9000", "-", "1" >>,
    << "12000" >>,
    << "kudora", "_", "12000", "-", "1", "_", "other" >> }

MCSymmetry == Permutations(MCCallers)
=============================================================================

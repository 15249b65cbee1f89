--------------------------- MODULE MCAntePipeline ---------------------------
(* Small instances of the ante pipeline for TLC.                           *)
EXTENDS AntePipeline, TLC

CONSTANTS s1, s2

MCSigners == {s1, s2}

(* No option, the Ethereum option, the dynamic-fee option, an unknown one,
   and an Ethereum option behind a dynamic-fee one.                        *)
MCTxExts == { << >>, << "EthTx" >>, << "DynFee" >>, << "Unknown" >>,
              << "DynFee", "EthTx" >> }

MCTxMsgs == { {"Send"}, {"EthTx"}, {"ExecEthTx"}, {"Send", "EthTx"} }

MCSymmetry == Permutations(MCSigners)
=============================================================================

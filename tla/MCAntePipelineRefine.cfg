CONSTANTS
  s1 = s1
  s2 = s2
  Signers <- MCSigners
  TxExts <- MCTxExts
  TxMsgs <- MCTxMsgs
  MaxSeq = 1
  InitBal = 1
  Fee = 1
  MaxCalls = 3
  Disabled = {}
SYMMETRY MCSymmetry
SPECIFICATION Spec
PROPERTY
  AdmissionRefined

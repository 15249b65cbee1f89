CONSTANTS
  c1 = c1
  c2 = c2
  c3 = c3
  NoCaller = NoCaller
  Callers <- MCCallers
  ChainIDs <- MCChainIDs
  Numerals <- MCNumerals
SPECIFICATION Spec
SYMMETRY MCSymmetry
INVARIANTS
  InitRunsAtMostOnce
  CallersConverge
  NilMeansConfigured

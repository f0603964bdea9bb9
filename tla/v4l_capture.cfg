\* Three buffers per node, sessions of three frames.
CONSTANTS
  b1 = b1  b2 = b2  b3 = b3
  None = None
  Buffers = {b1, b2, b3}
  MaxSeq = 3
SPECIFICATION FairSpec
INVARIANT BuffersGoRound
PROPERTIES LossIsExplained PairsInOrder CloseReturns

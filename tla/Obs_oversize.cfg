SPECIFICATION Spec
CONSTANTS
  MaxObs = 14
  MaxOutput = 5
  MaxId = 2
  OutputBuf = 5
  FixedBytes = 4
  HashHex = 1
  NULL = NULL
  Seq0 = {0, 1, 2, 3}
  Inputs <- MCInputs
INVARIANT
  OversizeIsSizeError

CONSTANTS
  WIDTH = 2
  BYTE = 1
  LANES = 2
  DEFAULT_POLY_REV <- MCPoly
  DEFAULT_INIT <- AllOnes
  DEFAULT_XOROUT <- AllOnes
  StreamWord <- Words
  CpuWrite <- Counting
  BYTE_MOD = 8
  COUNT_MOD = 4
SPECIFICATION UnitSpec
INVARIANT CountersAddUp

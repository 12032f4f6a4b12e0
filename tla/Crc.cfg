CONSTANTS
  WIDTH = 2
  BYTE = 1
  LANES = 2
  DEFAULT_POLY_REV <- MCPoly
  DEFAULT_INIT <- AllOnes
  DEFAULT_XOROUT <- AllOnes
  StreamWord <- Words
  CpuWrite <- Steering
  BYTE_MOD = 3
  COUNT_MOD = 1
  MaxBytes = 5
SPECIFICATION CrcSpec
INVARIANTS UnitTypeOK ExpectedInForce IsChecksum
PROPERTIES VerdictRight IrqHeld

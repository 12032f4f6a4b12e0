SPECIFICATION JtagSpec
INVARIANTS JtagTypeOK JtagAgrees DmiAgrees LockStep
CONSTANTS
  AWIDTH = 1
  DWIDTH = 1
  IRLEN = 3
  IDLEN = 3
  HARD_BIT = 2
  MayReset = FALSE
  IDCODE <- MCIDCODE
  DTMCS <- MCDTMCS
  Uncore <- MCUncore

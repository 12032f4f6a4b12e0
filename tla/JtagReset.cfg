SPECIFICATION JtagSpec
INVARIANT JtagAgrees
CONSTANTS
  AWIDTH = 1
  DWIDTH = 1
  IRLEN = 3
  IDLEN = 3
  HARD_BIT = 2
  MayReset = TRUE
  IDCODE <- MCIDCODE
  DTMCS <- MCDTMCS
  Uncore <- MCUncore

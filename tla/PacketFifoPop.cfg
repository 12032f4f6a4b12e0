CONSTANTS
  w0 = w0
  w1 = w1
  PTR_WIDTH = 3
  Weight <- MCWeight
  SYNC_STAGES = 1
  Word = {w0, w1}
  ZeroWord = w0
  Surrounding <- PoppingOnly
SPECIFICATION PopSpec
INVARIANTS TypeOK FlagsNeverLate PopOnRead
PROPERTY IsQueue
VIEW PopView

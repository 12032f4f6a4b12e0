CONSTANTS
  W = 4
  DIV_TIMEOUT = 5
  MaxLatency = 3
  ICCM_NUM_BANKS = 4
  DCCM_NUM_BANKS = 4
  CcmRows = 2
  Data = {"x", "y"}
  WrongData = "bad"
  Group = {0, 1}
  Lane = {0, 1}
  Trigger = {0}
  PmpEntry = {0, 1}
  Channel = {0}
  AHB_TIMEOUT = 12
  DEPTH = 2
  MEM_BUSY <- OneCycle
  DBG_BUSY <- OneCycle
  BUSY_TIMEOUT = 6
  DONE_TIMEOUT = 5
  DMA_DRAIN = 4
  Irq = {1, 2}
  MaxPri = 3
SPECIFICATION MCSpec
INVARIANTS BenchTypeOK ReportedInOrder BenchVerdictRight DmaVerdictRight DebugInStep WriteIdsInFlight AhbOutcome ClaimAnswersRequest PulsesLand
PROPERTY BenchEnds
CHECK_DEADLOCK FALSE

CONSTANTS
  w0 = w0
  PTR_WIDTH = 3
  Weight <- MCWeight
  SYNC_STAGES = 2
  Word = {w0}
  ZeroWord = w0
  Surrounding <- AloneOnly
SPECIFICATION PacketFairSpec
INVARIANT StalePointers
PROPERTIES WordsGetOut FlagsCatchUp

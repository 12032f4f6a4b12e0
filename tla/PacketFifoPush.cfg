CONSTANTS
  w0 = w0
  PTR_WIDTH = 3
  Weight <- MCWeight
  SYNC_STAGES = 1
  Word = {w0}
  ZeroWord = w0
  Surrounding <- PushingOnly
SPECIFICATION PacketSpec
PROPERTY PushOnWrite

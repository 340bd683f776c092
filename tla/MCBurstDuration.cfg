SPECIFICATION Spec
CONSTANTS
  SeqLen <- MCSeqLen
  NumWindows = 3
  RespDelays = 2
  TempSize = 48
  UIntMax = 255
  CountSpan = 256
  LLongSpan = 128
  Packets <- MCPackets
  Configurations <- MCConfigurations
  MaxPackets = 5
  Second = 10
  BurstThreshold = 10
  ActiveIat = 10
  Interactive = 10
  BulkTransfer = 1
  ShortConn = 3
INVARIANT DurationsWithinFlow
CHECK_DEADLOCK FALSE

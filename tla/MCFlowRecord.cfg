SPECIFICATION Spec
CONSTANTS
  SeqLen <- MCSeqLen
  NumWindows = 1
  RespDelays = 1
  TempSize = 48
  UIntMax = 255
  FirstN = 2
  SmallPkt = 2
  LargePkt = 6
  FwdPort = 40000
  BwdPort = 443
  FirstBytes = 8
  ChunkGap = 10
  RateWindow = 10
  TimeSpan = 128
  CountSpan = 256
  Packets <- MCPackets
  Supplies <- MCSupplies
  MaxPackets = 5
INVARIANTS
  TcpCountersAgree
  StatisticsAgree
  LengthsExact
  SequencesAligned
  TopFrequencies
CHECK_DEADLOCK FALSE

SPECIFICATION FairSpec
CONSTANTS
  SeqLen <- MCSeqLen
  NumWindows = 2
  RespDelays = 3
  TempSize = 64
  UIntMax = 43
  Requests = {0, 12, 40, 64, 65}
  Alignments = {1, 8}
INVARIANTS
  PoolWellFormed
  RingsInRingArea
  RingsAligned
  TempsDisjoint
  UpgradeKeepsUp
PROPERTIES
  DenialIsRemembered
  ReachesLargest

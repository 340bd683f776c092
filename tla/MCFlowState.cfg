SPECIFICATION Spec
CONSTANTS
  SeqLen <- MCSeqLen
  NumWindows = 2
  RespDelays = 2
  TempSize = 64
  UIntMax = 100
  Value <- MCValue
  Junk = junk
  Rings = {"iat_seq", "payload_size_seq"}
  Wanted = {"iat_seq", "payload_size_seq", "first_n_lens",
            "fwd_pkt_lens", "bwd_pkt_lens", "fwd_iats", "bwd_iats",
            "fwd_payload_sizes", "bwd_payload_sizes"}
  Proto = "TCP"
  Packets <- MCPackets
  FirstN = 3
  MaxPackets = 8
INVARIANTS
  FlowWellFormed
  NoDanglingPointer
  NothingLeaks
  RingsShowNewest
  TieringIsTransparent
CHECK_DEADLOCK FALSE

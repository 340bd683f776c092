----------------------------- MODULE MemoryPool -----------------------------
(***************************************************************************)
(* The tiered memory pool of src/src/utils/memory_pool.h, as operators.    *)
(*                                                                         *)
(* A flow keeps everything that grows with its packets in ONE malloc'ed    *)
(* block: fourteen arrays, then the storage of thirteen ring buffers, then *)
(* a temporary area at the tail.  The first half of this module is that    *)
(* layout, in bytes, as a function of n, the sequence length of the level. *)
(* The second half are the pool's operations, on a record                  *)
(*   [live, level, seq_len, pkt_count, needs_upgrade, size, ring_size,     *)
(*    temp_offset]      with live standing for dynamic_mem # NULL.         *)
(***************************************************************************)
EXTENDS Integers

CONSTANTS
  SeqLen,       \* the sequence length of each level
  NumWindows,   \* pool_num_windows in ti_features.cpp
  RespDelays,   \* pool_resp_delay_capacity in ti_features.cpp
  TempSize,     \* bytes reserved for temporary buffers
  UIntMax       \* the largest unsigned int

(* FLOW_LEVEL_TINY, SMALL, MEDIUM, LARGE.                                  *)
Tiny == 0
Large == 3
Level == Tiny .. Large

ASSUME SeqLenGrows ==
  /\ SeqLen \in [Level -> Nat \ {0}]
  /\ \A l \in Level : l < Large => SeqLen[l] < SeqLen[l + 1]

ASSUME PoolSizes ==
  /\ NumWindows \in Nat
  /\ RespDelays \in Nat
  /\ TempSize \in Nat \ {0}
  /\ UIntMax \in Nat
  /\ \A l \in Level : SeqLen[l] < UIntMax
-----------------------------------------------------------------------------
(* sizeof the element types.                                               *)
UInt == 4
ULongLong == 8
Double == 8
SChar == 1

(* The offsets ALLOC_ARRAY (and UPGRADE_*_ARRAY, in the same order) hands  *)
(* out: each array starts where the one before it ends.                    *)
ArrayOffset(n) ==
  LET bwd_pkt_lens        == n * UInt
      fwd_iats            == bwd_pkt_lens + n * UInt
      bwd_iats            == fwd_iats + n * ULongLong
      fwd_payload_sizes   == bwd_iats + n * ULongLong
      bwd_payload_sizes   == fwd_payload_sizes + n * UInt
      window_pkt_counts   == bwd_payload_sizes + n * UInt
      window_byte_counts  == window_pkt_counts + NumWindows * UInt
      window_bitrate      == window_byte_counts + NumWindows * UInt
      burst_sizes         == window_bitrate + NumWindows * UInt
      burst_durations     == burst_sizes + n * UInt
      burst_intervals     == burst_durations + n * ULongLong
      burst_packet_counts == burst_intervals + n * ULongLong
      resp_delays         == burst_packet_counts + n * UInt
  IN  [ fwd_pkt_lens        |-> 0,
        bwd_pkt_lens        |-> bwd_pkt_lens,
        fwd_iats            |-> fwd_iats,
        bwd_iats            |-> bwd_iats,
        fwd_payload_sizes   |-> fwd_payload_sizes,
        bwd_payload_sizes   |-> bwd_payload_sizes,
        window_pkt_counts   |-> window_pkt_counts,
        window_byte_counts  |-> window_byte_counts,
        window_bitrate      |-> window_bitrate,
        burst_sizes         |-> burst_sizes,
        burst_durations     |-> burst_durations,
        burst_intervals     |-> burst_intervals,
        burst_packet_counts |-> burst_packet_counts,
        resp_delays         |-> resp_delays ]

(* The mutant of RingArea that takes response delays for floats.           *)
RingAreaOfFloats(n) == ArrayOffset(n).resp_delays + RespDelays * UInt

(* Where the arrays end and the ring storage begins.                       *)
RingArea(n) == ArrayOffset(n).resp_delays + RespDelays * Double

(* The element sizes of the thirteen rings, in the order they are bound.   *)
RingElem ==
  [ pkt_len_seq |-> UInt, iat_seq |-> ULongLong, dir_seq |-> SChar,
    ts_seq |-> ULongLong, tcp_window_seq |-> UInt, udp_len_seq |-> UInt,
    ip_ttl_seq |-> UInt, ip_tos_seq |-> UInt, payload_size_seq |-> UInt,
    payload_size_diff_seq |-> UInt, l3_len_seq |-> UInt, l4_len_seq |-> UInt,
    payload_len_seq |-> UInt ]

Ring == DOMAIN RingElem

(* The ring_offset at which INIT_RING_BUFFER and                           *)
(* ring_buffer_rebind_from_snapshot bind each ring, relative to the ring   *)
(* storage; it advances by capacity * elem_size.                           *)
RingOffset(n) ==
  LET iat_seq               == n * UInt
      dir_seq               == iat_seq + n * ULongLong
      ts_seq                == dir_seq + n * SChar
      tcp_window_seq        == ts_seq + n * ULongLong
      udp_len_seq           == tcp_window_seq + n * UInt
      ip_ttl_seq            == udp_len_seq + n * UInt
      ip_tos_seq            == ip_ttl_seq + n * UInt
      payload_size_seq      == ip_tos_seq + n * UInt
      payload_size_diff_seq == payload_size_seq + n * UInt
      l3_len_seq            == payload_size_diff_seq + n * UInt
      l4_len_seq            == l3_len_seq + n * UInt
      payload_len_seq       == l4_len_seq + n * UInt
  IN  [ pkt_len_seq           |-> 0,
        iat_seq               |-> iat_seq,
        dir_seq               |-> dir_seq,
        ts_seq                |-> ts_seq,
        tcp_window_seq        |-> tcp_window_seq,
        udp_len_seq           |-> udp_len_seq,
        ip_ttl_seq            |-> ip_ttl_seq,
        ip_tos_seq            |-> ip_tos_seq,
        payload_size_seq      |-> payload_size_seq,
        payload_size_diff_seq |-> payload_size_diff_seq,
        l3_len_seq            |-> l3_len_seq,
        l4_len_seq            |-> l4_len_seq,
        payload_len_seq       |-> payload_len_seq ]

(* The mutant of RingBudget that reserves six rings too few.               *)
ShortRingBudget(n) ==
  5 * n * UInt + 2 * n * ULongLong + 1 * n * SChar

(* Where the region a ring writes to ends.                                 *)
RingEnd(n, r) == RingOffset(n)[r] + n * RingElem[r]

(* The bytes calc_size_ex reserves for the rings: nine of four bytes, four *)
(* of eight and one of one, although the flow binds thirteen rings only.   *)
RingBudget(n) ==
  5 * n * UInt + 4 * n * ULongLong + 1 * n * SChar + 4 * n * UInt

(* flow_mem_pool_calc_size_ex, rounded up to a cache line.                 *)
BlockSize(n) ==
  LET directions == 4 * n * UInt + 2 * n * ULongLong
      windows    == 3 * NumWindows * UInt
      bursts     == 2 * n * UInt + 2 * n * ULongLong
      delays     == RespDelays * Double
      size       == directions + windows + bursts + delays
                      + RingBudget(n) + TempSize
  IN  ((size + 63) \div 64) * 64
-----------------------------------------------------------------------------
Pool ==
  [ live : BOOLEAN, level : Level, seq_len : Nat, pkt_count : 0 .. UIntMax,
    needs_upgrade : BOOLEAN, size : Nat, ring_size : Int,
    temp_offset : 0 .. TempSize ]

(* No pool: mem_pool is NULL, before flow_state_init, after a failed       *)
(* flow_mem_pool_init_ex and after flow_state_destroy.                     *)
NoPool ==
  [ live |-> FALSE, level |-> Tiny, seq_len |-> 0, pkt_count |-> 0,
    needs_upgrade |-> FALSE, size |-> 0, ring_size |-> 0, temp_offset |-> 0 ]

(* The pool over a new block of the given level: flow_mem_pool_init_ex,    *)
(* and what flow_mem_pool_upgrade leaves but for the packet count.         *)
PoolOfLevel(level, pkt_count) ==
  [ live          |-> TRUE,
    level         |-> level,
    seq_len       |-> SeqLen[level],
    pkt_count     |-> pkt_count,
    needs_upgrade |-> FALSE,
    size          |-> BlockSize(SeqLen[level]),
    ring_size     |-> BlockSize(SeqLen[level]) - RingArea(SeqLen[level]) - TempSize,
    temp_offset   |-> 0 ]

(* The mutant of Threshold that waits for 120% of the sequence length.     *)
HighThreshold(seq_len) == (seq_len * 12) \div 10

(* 80% of the sequence length, at least 1.                                 *)
Threshold(seq_len) ==
  IF (seq_len * 8) \div 10 = 0 THEN 1 ELSE (seq_len * 8) \div 10

(* The mutant of CountedPackets that wraps around.                         *)
WrappingCount(pool) ==
  IF pool.level < Large
    THEN (pool.pkt_count + 1) % (UIntMax + 1) ELSE pool.pkt_count

(* The packet count after flow_mem_pool_check_upgrade: not maintained at   *)
(* the largest level, saturating below it.                                 *)
CountedPackets(pool) ==
  IF pool.level < Large /\ pool.pkt_count < UIntMax
    THEN pool.pkt_count + 1 ELSE pool.pkt_count

(* The mutant of UpgradeDue that compares with ==.                         *)
DueOnce(pool) ==
  pool.level < Large /\ pool.pkt_count = Threshold(pool.seq_len)

(* flow_mem_pool_check_upgrade's answer, once the packet is counted.       *)
UpgradeDue(pool) ==
  pool.level < Large /\ pool.pkt_count >= Threshold(pool.seq_len)

(* flow_mem_pool_check_upgrade's effect on the pool.                       *)
CheckUpgrade(pool) ==
  LET counted == [pool EXCEPT !.pkt_count = CountedPackets(pool)]
  IN  [counted EXCEPT !.needs_upgrade =
         IF pool.level >= Large THEN FALSE
         ELSE UpgradeDue(counted) \/ pool.needs_upgrade]

(* flow_mem_pool_upgrade: a failed malloc leaves the pool as it was.       *)
Upgrade(pool, level, allocated) ==
  IF level > pool.level /\ allocated
    THEN PoolOfLevel(level, pool.pkt_count) ELSE pool

(* flow_mem_pool_get_ring_buffer # NULL.  Only the start of the region is  *)
(* compared with the size.                                                 *)
RingBindable(pool, r) == RingOffset(pool.seq_len)[r] < pool.ring_size

AlignUp(offset, alignment) ==
  ((offset + alignment - 1) \div alignment) * alignment

(* The mutant of TempStart that does not start over.                       *)
TempStartUnchecked(pool, size, alignment) ==
  AlignUp(pool.temp_offset, alignment)

(* flow_mem_pool_alloc_temp: the offset it hands out for a request of      *)
(* `size' bytes, starting over from 0 when the area is exhausted.          *)
TempStart(pool, size, alignment) ==
  LET offset == AlignUp(pool.temp_offset, alignment)
  IN  IF offset + size > TempSize THEN 0 ELSE offset

TempRefused(size) == size = 0 \/ size > TempSize

(* flow_state_bind_temp_buffers: how many doubles each of the two          *)
(* temporary arrays gets.                                                  *)
TempLen(seq_len) ==
  LET temp_cap == TempSize \div (2 * Double)
  IN  IF seq_len < temp_cap THEN seq_len ELSE temp_cap
=============================================================================

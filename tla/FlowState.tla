----------------------------- MODULE FlowState -----------------------------
(***************************************************************************)
(* The life of one flow's state in src/src/ti_features.cpp: the framework  *)
(* calls traffic_process for the PENDING, DATA and CLOSE events of the     *)
(* flow; the state is allocated on the first, fed by every packet, moved   *)
(* to a larger memory block whenever it is about to fill, and released on  *)
(* the last.  Any malloc on the way may fail.                              *)
(*                                                                         *)
(* What a packet leaves in a sequence is abstracted to the packet's number *)
(* in the flow, so that a reader of a sequence can tell which packets it   *)
(* holds.  A pointer into the dynamic block is abstracted to the level of  *)
(* the block it points into: a flow allocates one block per level.         *)
(***************************************************************************)
EXTENDS MemoryPool, CircularBuffer

CONSTANTS
  Rings,        \* the ring buffers followed (the code has all of Ring)
  Wanted,       \* the sequences the feature switches ask for
  Proto,        \* "TCP" or "UDP"
  Packets,      \* the packets that may arrive
  FirstN,       \* first_n_capacity
  MaxPackets    \* bound: the packets of the flow

(* The arrays that keep the first packets of a direction.                  *)
DirArray == { "fwd_pkt_lens", "bwd_pkt_lens", "fwd_iats", "bwd_iats",
              "fwd_payload_sizes", "bwd_payload_sizes" }

(* Everything flow_feature_state_t holds a pointer to in the block.        *)
Array == DirArray \cup
  { "window_pkt_counts", "window_byte_counts", "window_bitrate",
    "burst_sizes", "burst_durations", "burst_intervals",
    "burst_packet_counts", "resp_delays" }

(* A packet, as far as it decides which sequences it reaches: its          *)
(* direction, whether it has payload, and whether its raw bytes are given. *)
Packet == [dir : {"fwd", "bwd", "unknown"}, payload : BOOLEAN, raw : BOOLEAN]

ASSUME FlowConstants ==
  /\ Rings \subseteq Ring
  /\ Wanted \subseteq Ring \cup DirArray \cup {"first_n_lens"}
  /\ Proto \in {"TCP", "UDP"}
  /\ Packets \subseteq Packet
  /\ FirstN \in Nat \ {0}
  /\ MaxPackets \in Nat
  /\ MaxPackets <= UIntMax
  /\ 1 .. MaxPackets \subseteq Value

VARIABLES
  flow,      \* what *pme points to
  heap,      \* the fixed-size allocations held for the flow
  blocks,    \* the dynamic blocks held for the flow, by level
  verdict,   \* what traffic_process last returned
  fed,       \* history: everything ever pushed to a ring
  offered,   \* history: everything ever meant for a direction array
  starved    \* history: a malloc of an upgrade has failed

vars == << flow, heap, blocks, verdict, fed, offered, starved >>
-----------------------------------------------------------------------------
(* flow_state_bind_temp_buffers: the two temporary arrays, side by side.   *)
TempOf(pool) ==
  LET len  == TempLen(pool.seq_len)
      size == len * 2 * Double
  IN  IF TempRefused(size)
        THEN [in |-> pool.level, start |-> 0, len |-> 0]
        ELSE [in |-> pool.level, start |-> TempStart(pool, size, 8), len |-> len]

TempBound(pool) ==
  [pool EXCEPT !.temp_offset = TempOf(pool).start + TempOf(pool).len * 2 * Double]

(* What flow_state_init makes once every malloc has succeeded.             *)
NewFlow ==
  LET pool == PoolOfLevel(Tiny, 0)
  IN  [ pool     |-> TempBound(pool),
        ring     |-> [r \in Rings |-> Fresh(pool.seq_len)],
        ringIn   |-> [r \in Rings |-> Tiny],
        arrayIn  |-> [a \in Array |-> Tiny],
        capacity |-> [a \in DirArray |-> pool.seq_len],
        stored   |-> [a \in DirArray |-> << >>],
        first_n  |-> << >>,
        temp     |-> TempOf(pool),
        total_packets        |-> 0,
        seen                 |-> {},
        has_last_payload_len |-> FALSE ]

(* *pme == NULL.                                                           *)
NoFlow == [pool |-> NoPool]

HasState == flow.pool.live

(* The mutant of Refreshed that forgets the response delays.               *)
RefreshedButDelays == Array \ {"resp_delays"}

(* The array pointers traffic_process fetches anew after an upgrade.       *)
Refreshed == Array

(* The mutant of Widened that forgets bwd_pkt_len_capacity.                *)
WidenedButOne == DirArray \ {"bwd_pkt_lens"}

(* The capacities the upgrade refreshes.                                   *)
Widened == DirArray

(* A direction array after flow_mem_pool_upgrade: the first copy_seq_len   *)
(* elements come along.                                                    *)
Copied(s, copy_seq_len) ==
  SubSeq(s, 1, IF Len(s) < copy_seq_len THEN Len(s) ELSE copy_seq_len)

(* The flow after an upgrade whose new block was allocated; `counted' is   *)
(* its pool with the packet counted, `captured' are the rings whose        *)
(* snapshot could be allocated.  A ring that cannot be bound is left where *)
(* it was: the code ignores the return values.                             *)
Upgraded(f, counted, captured) ==
  LET pool == PoolOfLevel(counted.level + 1, counted.pkt_count)
      bind == {r \in Rings : RingBindable(pool, r)}
  IN  [ pool     |-> TempBound(pool),
        ring     |-> [r \in Rings |->
                        IF r \in bind
                          THEN Rebind(f.ring[r], pool.seq_len,
                                      Snapshot(f.ring[r], r \in captured))
                          ELSE f.ring[r]],
        ringIn   |-> [r \in Rings |->
                        IF r \in bind THEN pool.level ELSE f.ringIn[r]],
        arrayIn  |-> [a \in Array |->
                        IF a \in Refreshed THEN pool.level ELSE f.arrayIn[a]],
        capacity |-> [a \in DirArray |->
                        IF a \in Widened THEN pool.seq_len ELSE f.capacity[a]],
        stored   |-> [a \in DirArray |-> Copied(f.stored[a], f.pool.seq_len)],
        first_n  |-> f.first_n,
        temp     |-> TempOf(pool),
        total_packets        |-> f.total_packets,
        seen                 |-> f.seen,
        has_last_payload_len |-> f.has_last_payload_len ]
-----------------------------------------------------------------------------
(* The rings one packet is pushed to.  The interarrival ring misses the    *)
(* first packet, for calc_iat_update then only notes its time.             *)
Fed(f, pkt) ==
  Rings \cap Wanted \cap
    ( { "pkt_len_seq", "dir_seq", "ts_seq",
        "l3_len_seq", "l4_len_seq", "payload_len_seq" }
      \cup { r \in {"iat_seq"} : f.total_packets > 0 }
      \cup { r \in {"ip_ttl_seq", "ip_tos_seq"} : pkt.raw }
      \cup { r \in {"tcp_window_seq"} : Proto = "TCP" /\ pkt.raw }
      \cup { r \in {"udp_len_seq"} : Proto = "UDP" }
      \cup { r \in {"payload_size_seq"} : pkt.payload /\ pkt.raw }
      \cup { r \in {"payload_size_diff_seq"} :
               pkt.payload /\ pkt.raw /\ f.has_last_payload_len } )

Direction(a) ==
  IF a \in {"fwd_pkt_lens", "fwd_iats", "fwd_payload_sizes"} THEN "fwd" ELSE "bwd"

(* The direction arrays one packet is meant for.  last_fwd_us and          *)
(* last_bwd_us are not set by the flow's first packet.                     *)
Offered(f, pkt) ==
  { a \in DirArray \cap Wanted :
      /\ pkt.dir = Direction(a)
      /\ a \in {"fwd_iats", "bwd_iats"} =>
           f.total_packets > 0 /\ pkt.dir \in f.seen
      /\ a \in {"fwd_payload_sizes", "bwd_payload_sizes"} => pkt.payload }

(* The mutant of Stored that writes one element past the capacity.         *)
StoredPastEnd(s, capacity, v) == IF Len(s) <= capacity THEN Append(s, v) ELSE s

(* A direction array takes an element while its count is below capacity.   *)
Stored(s, capacity, v) == IF Len(s) < capacity THEN Append(s, v) ELSE s

(* The statistics part of the DATA branch.                                 *)
Processed(f, pool, pkt) ==
  LET n    == f.total_packets + 1
      iat  == f.total_packets > 0
      size == pkt.payload /\ pkt.raw /\ "payload_size_seq" \in Wanted
  IN  [ pool     |-> pool,
        ring     |-> [r \in Rings |->
                        IF r \in Fed(f, pkt) THEN Push(f.ring[r], n) ELSE f.ring[r]],
        ringIn   |-> f.ringIn,
        arrayIn  |-> f.arrayIn,
        capacity |-> f.capacity,
        stored   |-> [a \in DirArray |->
                        IF a \in Offered(f, pkt)
                          THEN Stored(f.stored[a], f.capacity[a], n)
                          ELSE f.stored[a]],
        first_n  |-> IF "first_n_lens" \in Wanted
                       THEN Stored(f.first_n, FirstN, n) ELSE f.first_n,
        temp     |-> f.temp,
        total_packets        |-> n,
        seen                 |-> IF iat THEN f.seen \cup {pkt.dir} ELSE f.seen,
        has_last_payload_len |-> f.has_last_payload_len \/ size ]

(* The mutant of BlocksAfterUpgrade that does not free the old block.      *)
BlocksWithoutFree(held, level) == held \cup {level + 1}

(* The blocks held once flow_mem_pool_upgrade is through.                  *)
BlocksAfterUpgrade(held, level) == (held \cup {level + 1}) \ {level}

(* The rings whose contents are gone when only `captured' have a snapshot. *)
RingsLost(f, captured) == {r \in Rings \ captured : f.ring[r].count > 0}

(* A packet of a flow with state f and blocks `held': check_upgrade, the   *)
(* upgrade when it is due and its memory can be had, then the statistics.  *)
Update(f, held, pkt) ==
  LET counted == CheckUpgrade(f.pool)
      due     == UpgradeDue(counted)
  IN  /\ f.total_packets < MaxPackets
      /\ \/ /\ flow' = Processed(f, counted, pkt)
            /\ blocks' = held
            /\ starved' = (starved \/ due)
         \/ /\ due
            /\ \E captured \in SUBSET Rings :
                 /\ LET up == Upgraded(f, counted, captured)
                    IN  flow' = Processed(up, up.pool, pkt)
                 /\ starved' = (starved \/ RingsLost(f, captured) # {})
            /\ blocks' = BlocksAfterUpgrade(held, f.pool.level)
      /\ fed' = [r \in Rings |->
                   IF r \in Fed(f, pkt) THEN Append(fed[r], f.total_packets + 1)
                                        ELSE fed[r]]
      /\ offered' = [a \in DirArray |->
                   IF a \in Offered(f, pkt)
                     THEN Append(offered[a], f.total_packets + 1)
                     ELSE offered[a]]
      /\ verdict' = "GIVEME"
-----------------------------------------------------------------------------
Init ==
  /\ flow = NoFlow
  /\ heap = {}
  /\ blocks = {}
  /\ verdict = "GIVEME"
  /\ fed = [r \in Rings |-> << >>]
  /\ offered = [a \in DirArray |-> << >>]
  /\ starved = FALSE

(* The mallocs of a new flow, in order; the block comes last.              *)
Mallocs == << "state", "first_n_lens", "mem_pool" >>

(* INIT_RING_BUFFER finds room for every ring.                             *)
RingsBind == \A r \in Rings : RingBindable(PoolOfLevel(Tiny, 0), r)

(* PENDING without a state: the state is made, and the call falls through  *)
(* to the statistics of its packet.                                        *)
Open(pkt) ==
  /\ verdict = "GIVEME"
  /\ ~HasState
  /\ RingsBind
  /\ heap' = heap \cup {Mallocs[i] : i \in 1 .. Len(Mallocs)}
  /\ Update(NewFlow, blocks \cup {Tiny}, pkt)

(* The mutant of CleanedUp without flow_state_destroy.                     *)
CleanedUpHastily == {"mem_pool", "state"}

(* What a failed start gives back: flow_mem_pool_init_ex's caller the pool *)
(* struct, flow_state_destroy the first-packets array, traffic_process the *)
(* state.                                                                  *)
CleanedUp == {"mem_pool", "first_n_lens", "state"}

(* PENDING when a malloc fails, or a ring cannot be bound: what was        *)
(* allocated so far is released, and the framework is told to drop us.     *)
OpenFails ==
  /\ verdict = "GIVEME"
  /\ ~HasState
  /\ \E got \in 0 .. Len(Mallocs) :
       heap' = heap \cup ({Mallocs[i] : i \in 1 .. got} \ CleanedUp)
  /\ verdict' = "DROPME"
  /\ UNCHANGED << flow, blocks, fed, offered, starved >>

(* DATA, or PENDING when there is a state already.                         *)
Data(pkt) ==
  /\ verdict = "GIVEME"
  /\ HasState
  /\ Update(flow, blocks, pkt)
  /\ UNCHANGED heap

(* DATA or CLOSE for a flow that has no state.                             *)
Unknown ==
  /\ verdict = "GIVEME"
  /\ ~HasState
  /\ UNCHANGED vars

(* What CLOSE releases: flow_state_destroy the array and the pool,         *)
(* dictator_free the state.                                                *)
Closed == {"first_n_lens", "mem_pool", "state"}

(* CLOSE: after the output everything goes, and *pme becomes NULL.         *)
Close ==
  /\ verdict = "GIVEME"
  /\ HasState
  /\ flow' = NoFlow
  /\ heap' = heap \ Closed
  /\ blocks' = blocks \ {flow.pool.level}
  /\ verdict' = "DROPME"
  /\ UNCHANGED << fed, offered, starved >>

Next ==
  \/ \E pkt \in Packets : Open(pkt) \/ Data(pkt)
  \/ OpenFails
  \/ Unknown
  \/ Close

Spec == Init /\ [][Next]_vars
-----------------------------------------------------------------------------
(* The last n elements of s, and its first n.                              *)
Newest(s, n) == IF Len(s) <= n THEN s ELSE SubSeq(s, Len(s) - n + 1, Len(s))
Oldest(s, n) == IF Len(s) <= n THEN s ELSE SubSeq(s, 1, n)

(* s ends with t.                                                          *)
EndsWith(s, t) ==
  /\ Len(t) <= Len(s)
  /\ \A i \in 1 .. Len(t) : t[i] = s[Len(s) - Len(t) + i]

(* What traffic_process and flow_state_compute_features take for granted   *)
(* of the state between two calls: the rings are well formed and as long   *)
(* as the pool says, the direction arrays are within their capacity, and   *)
(* their capacity within the block.                                        *)
FlowWellFormed ==
  HasState =>
    /\ flow.pool.level \in Level
    /\ flow.pool.seq_len = SeqLen[flow.pool.level]
    /\ flow.total_packets \in 0 .. MaxPackets
    /\ \A r \in Rings : /\ WellFormed(flow.ring[r])
                        /\ flow.ring[r].capacity = flow.pool.seq_len
    /\ \A a \in DirArray : /\ Len(flow.stored[a]) <= flow.capacity[a]
                           /\ flow.capacity[a] = flow.pool.seq_len
    /\ Len(flow.first_n) <= FirstN

(* Whatever fails, no pointer of the state is left in a block that has     *)
(* been freed: each of the fourteen arrays, of the rings and the temporary *)
(* buffers points into the pool's present block after every upgrade.       *)
NoDanglingPointer ==
  HasState =>
    /\ \A a \in Array : flow.arrayIn[a] \in blocks
    /\ \A r \in Rings : flow.ringIn[r] \in blocks
    /\ flow.temp.in \in blocks

(* The memory of a flow is exactly what its state needs: one block and the *)
(* three fixed allocations while *pme is set, nothing once it is NULL.  So *)
(* a failed start, a failed upgrade and CLOSE leak nothing, and the        *)
(* framework is never told to forget a flow that still holds memory.       *)
NothingLeaks ==
  /\ HasState =>
       /\ heap = {"state", "first_n_lens", "mem_pool"}
       /\ blocks = {flow.pool.level}
       /\ verdict = "GIVEME"
  /\ ~HasState => heap = {} /\ blocks = {}

(* Whatever fails, a ring shows the newest packets that reached it, with   *)
(* no gap and in order: a failed upgrade or a failed snapshot may shorten  *)
(* the history but not falsify it.                                         *)
RingsShowNewest ==
  HasState => \A r \in Rings : EndsWith(fed[r], Contents(flow.ring[r]))

(* Starting small and growing on demand costs nothing: as long as the      *)
(* upgrades get their memory, each ring and each direction array holds     *)
(* exactly what it would hold had it been allocated at the largest level   *)
(* in the first place.                                                     *)
TieringIsTransparent ==
  HasState /\ ~starved =>
    /\ \A r \in Rings : Contents(flow.ring[r]) = Newest(fed[r], SeqLen[Large])
    /\ \A a \in DirArray : flow.stored[a] = Oldest(offered[a], SeqLen[Large])
=============================================================================

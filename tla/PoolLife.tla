------------------------------ MODULE PoolLife ------------------------------
(***************************************************************************)
(* One memory pool through its life: set up at the smallest level, counted *)
(* into by every packet, upgraded when that is due and memory can be had,  *)
(* asked for temporary buffers, destroyed.                                 *)
(***************************************************************************)
EXTENDS MemoryPool

CONSTANTS
  Requests,     \* the sizes a caller may ask temporary buffers of
  Alignments    \* the alignments it may ask them with

ASSUME RequestSizes ==
  /\ Requests \subseteq Nat
  /\ Alignments \subseteq Nat \ {0}

VARIABLES
  pool,
  temps,     \* history: the buffers handed out since the area was last begun
  denied     \* history: an upgrade that was due got no memory

vars == << pool, temps, denied >>
-----------------------------------------------------------------------------
Init == pool = NoPool /\ temps = {} /\ denied = FALSE

(* flow_mem_pool_init_ex at FLOW_LEVEL_TINY; without its block the pool is *)
(* thrown away.                                                            *)
SetUp ==
  /\ ~pool.live
  /\ pool' \in {PoolOfLevel(Tiny, 0), NoPool}
  /\ UNCHANGED << temps, denied >>

(* A packet: flow_mem_pool_check_upgrade and, if it says so,               *)
(* flow_mem_pool_upgrade to the next level.                                *)
Packet(allocated) ==
  /\ pool.live
  /\ LET counted == CheckUpgrade(pool)
         due     == UpgradeDue(counted)
     IN  /\ pool' = IF due THEN Upgrade(counted, counted.level + 1, allocated)
                           ELSE counted
         /\ temps' = IF due /\ allocated THEN {} ELSE temps
         /\ denied' = (denied \/ (due /\ ~allocated))

(* flow_mem_pool_alloc_temp.                                               *)
AllocTemp(size, alignment) ==
  /\ pool.live
  /\ ~TempRefused(size)
  /\ LET start == TempStart(pool, size, alignment)
         fresh == [start |-> start, end |-> start + size]
     IN  /\ pool' = [pool EXCEPT !.temp_offset = start + size]
         /\ temps' = IF start = 0 THEN {fresh} ELSE temps \cup {fresh}
  /\ UNCHANGED denied

(* flow_mem_pool_reset_temp.                                               *)
ResetTemp ==
  /\ pool.live
  /\ pool' = [pool EXCEPT !.temp_offset = 0]
  /\ temps' = {}
  /\ UNCHANGED denied

(* flow_mem_pool_destroy, after which flow_state_destroy frees the pool.   *)
Destroy ==
  /\ pool.live
  /\ pool' = NoPool
  /\ temps' = {}
  /\ denied' = FALSE

Next ==
  \/ SetUp
  \/ \E allocated \in BOOLEAN : Packet(allocated)
  \/ \E size \in Requests, alignment \in Alignments : AllocTemp(size, alignment)
  \/ ResetTemp
  \/ Destroy

Spec == Init /\ [][Next]_vars

(* A flow that goes on: packets keep coming, and malloc does not fail for  *)
(* ever.                                                                   *)
FairSpec == Spec /\ SF_vars(Packet(TRUE))
-----------------------------------------------------------------------------
(* Type correctness: the fields of a live pool are those of its level, the *)
(* packet count is an unsigned int, and the next temporary buffer begins   *)
(* within the area.                                                        *)
PoolWellFormed ==
  /\ pool \in Pool
  /\ pool.live =>
       LET made == PoolOfLevel(pool.level, pool.pkt_count)
       IN  /\ pool.seq_len = made.seq_len
           /\ pool.size = made.size
           /\ pool.ring_size = made.ring_size
  /\ denied \in BOOLEAN

(* At every level all thirteen rings can be bound, and the region each one *)
(* writes to ends before the temporary area begins and does not meet that  *)
(* of another ring; flow_mem_pool_get_ring_buffer checks the start only.   *)
RingsInRingArea ==
  pool.live =>
    \A r \in Ring :
      /\ RingBindable(pool, r)
      /\ RingEnd(pool.seq_len, r) <= pool.ring_size
      /\ RingArea(pool.seq_len) + pool.ring_size + TempSize = pool.size
      /\ \A q \in Ring \ {r} :
           \/ RingEnd(pool.seq_len, r) <= RingOffset(pool.seq_len)[q]
           \/ RingEnd(pool.seq_len, q) <= RingOffset(pool.seq_len)[r]

(* The cells of a ring of 8-byte or 4-byte elements are aligned as such.   *)
RingsAligned ==
  pool.live =>
    \A r \in Ring :
      (RingArea(pool.seq_len) + RingOffset(pool.seq_len)[r]) % RingElem[r] = 0

(* Temporary buffers handed out since the area was last begun lie inside   *)
(* it and do not overlap: starting over invalidates them all, never some.  *)
TempsDisjoint ==
  \A t \in temps :
    /\ 0 <= t.start
    /\ t.end <= pool.temp_offset
    /\ pool.temp_offset <= TempSize
    /\ \A u \in temps \ {t} : t.end <= u.start \/ u.end <= t.start

(* While memory can be had the pool keeps ahead of the flow: before the    *)
(* largest level a flow never has as many packets as its level has room    *)
(* for, so no sequence of the flow is ever full.                           *)
UpgradeKeepsUp ==
  pool.live /\ ~denied /\ pool.level < Large => pool.pkt_count < pool.seq_len

(* An upgrade that was denied stays due until it succeeds, however long    *)
(* the flow goes on: the packet count does not wrap.                       *)
DenialIsRemembered ==
  [][ pool.live /\ UpgradeDue(pool) /\ pool'.live /\ pool'.level = pool.level
        => UpgradeDue(pool') ]_vars

(* Such a flow reaches the largest level, unless it ends before.           *)
ReachesLargest == pool.live ~> (~pool.live \/ pool.level = Large)
=============================================================================

--------------------------- MODULE PoolLifeProofs ---------------------------
(***************************************************************************)
(* What PoolLife promises, for all level lengths and area sizes.           *)
(***************************************************************************)
EXTENDS PoolLife, UtilsProofs

(* A packet leaves the pool counted, or made anew for the next level.      *)
LEMMA PacketCases ==
  ASSUME PoolWellFormed, NEW allocated \in BOOLEAN, Packet(allocated)
  PROVE  LET counted == CheckUpgrade(pool)
         IN  \/ /\ pool' = counted
                /\ temps' = temps
                /\ ~UpgradeDue(counted) \/ denied'
             \/ /\ UpgradeDue(counted)
                /\ pool.level + 1 \in Level
                /\ pool' = PoolOfLevel(pool.level + 1, CountedPackets(pool))
                /\ temps' = {}
                /\ denied' = denied
<1> DEFINE counted == CheckUpgrade(pool)
<1>1. /\ counted.pkt_count = CountedPackets(pool)
      /\ counted.level = pool.level /\ pool.level \in Level
  BY CountedPool DEF Packet, PoolWellFormed, Pool
<1>2. UpgradeDue(counted) => pool.level + 1 \in Level /\ pool.level < pool.level + 1
  BY <1>1 DEF UpgradeDue, Level, Large, Tiny
<1> QED
  BY <1>1, <1>2 DEF Packet, Upgrade, PoolWellFormed, Pool

(* The fields of a pool stay those of its level.                           *)
THEOREM PoolStaysWellFormed == Spec => []PoolWellFormed
<1>0. NoPool \in Pool /\ ~NoPool.live
  BY PoolSizes DEF NoPool, Pool, Level, Tiny, Large
<1>1. Init => PoolWellFormed
  BY <1>0 DEF Init, PoolWellFormed, Pool
<1>2. PoolWellFormed /\ [Next]_vars => PoolWellFormed'
  <2> SUFFICES ASSUME PoolWellFormed, [Next]_vars
               PROVE  PoolWellFormed'
    OBVIOUS
  <2>1. CASE SetUp
    <3>1. Tiny \in Level /\ 0 \in 0 .. UIntMax
      BY PoolSizes DEF Tiny, Level, Large
    <3>2. CASE pool' = PoolOfLevel(Tiny, 0)
      BY <2>1, <3>1, <3>2, MadePool DEF SetUp, PoolWellFormed, Pool
    <3>3. CASE pool' = NoPool
      BY <2>1, <3>3, <1>0 DEF SetUp, PoolWellFormed, Pool
    <3> QED
      BY <2>1, <3>2, <3>3 DEF SetUp
  <2>2. ASSUME NEW allocated \in BOOLEAN, Packet(allocated)
        PROVE  PoolWellFormed'
    <3>1. denied' \in BOOLEAN
      BY <2>2 DEF Packet, PoolWellFormed, Pool
    <3>2. CASE pool' = CheckUpgrade(pool)
      BY <2>2, <3>1, <3>2, CountedPool DEF Packet, PoolWellFormed, Pool, PoolOfLevel
    <3>3. CASE /\ pool.level + 1 \in Level
               /\ pool' = PoolOfLevel(pool.level + 1, CountedPackets(pool))
      <4>1. CountedPackets(pool) \in 0 .. UIntMax
        BY <2>2, CountedPool DEF Packet, PoolWellFormed, Pool
      <4> QED
        BY <3>1, <3>3, <4>1, MadePool DEF PoolWellFormed, Pool
    <3> QED
      BY <2>2, <3>2, <3>3, PacketCases
  <2>3. ASSUME NEW size \in Requests, NEW alignment \in Alignments,
               AllocTemp(size, alignment)
        PROVE  PoolWellFormed'
    <3>1. pool.temp_offset \in Nat /\ size \in Nat /\ alignment \in Nat \ {0}
      BY RequestSizes, PoolSizes DEF PoolWellFormed, Pool
    <3>2. TempStart(pool, size, alignment) + size \in 0 .. TempSize
      BY <2>3, <3>1, AlignUpGrows, PoolSizes DEF AllocTemp, TempStart, TempRefused
    <3> QED
      BY <2>3, <3>2 DEF AllocTemp, PoolWellFormed, Pool, PoolOfLevel
  <2>4. CASE ResetTemp
    BY <2>4, PoolSizes DEF ResetTemp, PoolWellFormed, Pool, PoolOfLevel
  <2>5. CASE Destroy
    BY <2>5, <1>0 DEF Destroy, PoolWellFormed, Pool
  <2>6. CASE UNCHANGED vars
    BY <2>6 DEF vars, PoolWellFormed, Pool
  <2> QED
    BY <2>1, <2>2, <2>3, <2>4, <2>5, <2>6 DEF Next
<1> QED
  BY <1>1, <1>2, PTL DEF Spec

(* The layout invariant, with the sizes the pool really has.               *)
LEMMA LayoutOfPool ==
  ASSUME PoolWellFormed, pool.live
  PROVE  /\ pool.level \in Level
         /\ pool.seq_len = SeqLen[pool.level] /\ pool.seq_len \in Nat \ {0}
         /\ \A r \in Ring :
              /\ RingBindable(pool, r)
              /\ RingEnd(pool.seq_len, r) <= pool.ring_size
              /\ RingArea(pool.seq_len) + pool.ring_size + TempSize = pool.size
<1> DEFINE made == PoolOfLevel(pool.level, pool.pkt_count)
<1>1. /\ pool.level \in Level /\ pool.pkt_count \in 0 .. UIntMax
      /\ pool.seq_len = made.seq_len
      /\ pool.size = made.size
      /\ pool.ring_size = made.ring_size
  BY DEF PoolWellFormed, Pool
<1>2. made.seq_len = SeqLen[pool.level] /\ SeqLen[pool.level] \in Nat \ {0}
  BY <1>1, MadePool, SeqLenGrows
<1>3. ASSUME NEW r \in Ring
      PROVE  /\ RingBindable(made, r)
             /\ RingEnd(made.seq_len, r) <= made.ring_size
             /\ RingArea(made.seq_len) + made.ring_size + TempSize = made.size
  BY <1>1, RingsFit
<1> HIDE DEF made
<1> QED
  BY <1>1, <1>2, <1>3 DEF RingBindable

(* At every level, and whatever failed before, all rings are bound inside  *)
(* the ring storage, apart from one another and before the temporary area. *)
THEOREM RingsStayInRingArea == Spec => []RingsInRingArea
<1>1. PoolWellFormed => RingsInRingArea
  <2> SUFFICES ASSUME PoolWellFormed, pool.live, NEW r \in Ring
               PROVE  /\ RingBindable(pool, r)
                      /\ RingEnd(pool.seq_len, r) <= pool.ring_size
                      /\ RingArea(pool.seq_len) + pool.ring_size + TempSize = pool.size
                      /\ \A q \in Ring \ {r} :
                           \/ RingEnd(pool.seq_len, r) <= RingOffset(pool.seq_len)[q]
                           \/ RingEnd(pool.seq_len, q) <= RingOffset(pool.seq_len)[r]
    BY DEF RingsInRingArea
  <2>1. \A q \in Ring \ {r} :
           \/ RingEnd(pool.seq_len, r) <= RingOffset(pool.seq_len)[q]
           \/ RingEnd(pool.seq_len, q) <= RingOffset(pool.seq_len)[r]
    BY LayoutOfPool, RingsDisjoint DEF Begin
  <2> QED
    BY <2>1, LayoutOfPool
<1> QED
  BY <1>1, PoolStaysWellFormed, PTL

(* With the level lengths of the code, multiples of eight, and its hundred *)
(* windows no ring is ever misaligned.                                     *)
THEOREM RingsStayAligned ==
  ASSUME \A l \in Level : SeqLen[l] % 8 = 0, NumWindows % 2 = 0
  PROVE  Spec => []RingsAligned
<1>1. PoolWellFormed => RingsAligned
  <2> SUFFICES ASSUME PoolWellFormed, pool.live, NEW r \in Ring
               PROVE  (RingArea(pool.seq_len) + RingOffset(pool.seq_len)[r])
                        % RingElem[r] = 0
    BY DEF RingsAligned
  <2> QED
    BY LayoutOfPool, RingIsAligned
<1> QED
  BY <1>1, PoolStaysWellFormed, PTL

(* While memory can be had no flow outgrows its level.                     *)
THEOREM PoolKeepsUp == Spec => []UpgradeKeepsUp
<1>1. Init => UpgradeKeepsUp
  BY DEF Init, NoPool, UpgradeKeepsUp
<1>2. PoolWellFormed /\ UpgradeKeepsUp /\ [Next]_vars => UpgradeKeepsUp'
  <2> SUFFICES ASSUME PoolWellFormed, UpgradeKeepsUp, [Next]_vars
               PROVE  UpgradeKeepsUp'
    OBVIOUS
  <2>1. CASE SetUp
    <3>1. Tiny \in Level /\ 0 \in 0 .. UIntMax /\ SeqLen[Tiny] > 0
      BY PoolSizes, SeqLenGrows DEF Tiny, Level, Large
    <3>2. CASE pool' = PoolOfLevel(Tiny, 0)
      BY <3>1, <3>2, MadePool DEF UpgradeKeepsUp
    <3>3. CASE pool' = NoPool
      BY <3>3 DEF UpgradeKeepsUp, NoPool
    <3> QED
      BY <2>1, <3>2, <3>3 DEF SetUp
  <2>2. ASSUME NEW allocated \in BOOLEAN, Packet(allocated)
        PROVE  UpgradeKeepsUp'
    <3> DEFINE counted == CheckUpgrade(pool)
    <3>1. /\ counted.pkt_count = CountedPackets(pool)
          /\ CountedPackets(pool) \in 0 .. UIntMax
          /\ counted.level = pool.level
          /\ counted.seq_len = pool.seq_len
      BY <2>2, CountedPool DEF Packet, PoolWellFormed, Pool
    <3>2. /\ pool.level \in Level
          /\ pool.seq_len = SeqLen[pool.level] /\ pool.seq_len \in Nat \ {0}
          /\ Threshold(pool.seq_len) \in Nat /\ Threshold(pool.seq_len) <= pool.seq_len
      BY <2>2, LayoutOfPool, ThresholdBound DEF Packet
    <3>3. CASE /\ pool' = counted
               /\ ~UpgradeDue(counted) \/ denied'
      <4> HIDE DEF counted
      <4> QED
        BY <3>1, <3>2, <3>3 DEF UpgradeKeepsUp, UpgradeDue
    <3>4. CASE /\ UpgradeDue(counted)
               /\ pool.level + 1 \in Level
               /\ pool' = PoolOfLevel(pool.level + 1, CountedPackets(pool))
               /\ denied' = denied
      <4>1. pool.level < Large /\ pool.live
        BY <2>2, <3>1, <3>4 DEF UpgradeDue, Packet
      <4>2. pool'.pkt_count = CountedPackets(pool)
            /\ pool'.seq_len = SeqLen[pool.level + 1]
        BY <3>1, <3>4, MadePool
      <4>3. SeqLen[pool.level] < SeqLen[pool.level + 1]
            /\ SeqLen[pool.level + 1] \in Nat
        BY <3>2, <3>4, <4>1, SeqLenGrows
      <4>4. pool.pkt_count \in Nat /\ CountedPackets(pool) <= pool.pkt_count + 1
        BY PoolSizes DEF PoolWellFormed, Pool, CountedPackets
      <4>5. denied' = denied /\ (~denied => pool.pkt_count < pool.seq_len)
        BY <3>4, <4>1 DEF UpgradeKeepsUp
      <4>6. ~denied => CountedPackets(pool) < SeqLen[pool.level + 1]
        BY <3>1, <3>2, <4>3, <4>4, <4>5
      <4> QED
        BY <4>2, <4>5, <4>6 DEF UpgradeKeepsUp
    <3> QED
      BY <2>2, <3>3, <3>4, PacketCases
  <2>3. ASSUME NEW size \in Requests, NEW alignment \in Alignments,
               AllocTemp(size, alignment)
        PROVE  UpgradeKeepsUp'
    BY <2>3 DEF AllocTemp, UpgradeKeepsUp, PoolWellFormed, Pool
  <2>4. CASE ResetTemp
    BY <2>4 DEF ResetTemp, UpgradeKeepsUp, PoolWellFormed, Pool
  <2>5. CASE Destroy
    BY <2>5 DEF Destroy, UpgradeKeepsUp, NoPool
  <2>6. CASE UNCHANGED vars
    BY <2>6 DEF vars, UpgradeKeepsUp
  <2> QED
    BY <2>1, <2>2, <2>3, <2>4, <2>5, <2>6 DEF Next
<1> QED
  BY <1>1, <1>2, PoolStaysWellFormed, PTL DEF Spec

(* An upgrade that could not be made stays due: the count saturates.       *)
THEOREM DenialStaysRemembered == Spec => DenialIsRemembered
<1> DEFINE Kept == pool.live /\ UpgradeDue(pool) /\ pool'.live
                     /\ pool'.level = pool.level => UpgradeDue(pool')
<1>1. PoolWellFormed /\ [Next]_vars => [Kept]_vars
  <2> SUFFICES ASSUME PoolWellFormed, [Next]_vars,
                      pool.live, UpgradeDue(pool), pool'.live,
                      pool'.level = pool.level
               PROVE  UpgradeDue(pool')
    OBVIOUS
  <2>1. CASE SetUp
    BY <2>1 DEF SetUp
  <2>2. ASSUME NEW allocated \in BOOLEAN, Packet(allocated)
        PROVE  UpgradeDue(pool')
    <3> DEFINE counted == CheckUpgrade(pool)
    <3>1. /\ counted.pkt_count = CountedPackets(pool)
          /\ counted.level = pool.level /\ pool.level \in Level
          /\ counted.seq_len = pool.seq_len
          /\ CountedPackets(pool) \in 0 .. UIntMax
      BY CountedPool DEF PoolWellFormed, Pool
    <3>2. CASE pool' = counted
      <4>1. CountedPackets(pool) >= pool.pkt_count /\ pool.pkt_count \in Nat
        BY PoolSizes DEF PoolWellFormed, Pool, CountedPackets
      <4>2. Threshold(pool.seq_len) \in Nat
        BY LayoutOfPool, ThresholdBound
      <4> HIDE DEF counted
      <4> QED
        BY <3>1, <3>2, <4>1, <4>2 DEF UpgradeDue
    <3>3. CASE /\ pool.level + 1 \in Level
               /\ pool' = PoolOfLevel(pool.level + 1, CountedPackets(pool))
      <4>1. pool'.level = pool.level + 1
        BY <3>1, <3>3, MadePool
      <4>2. pool.level \in Int
        BY <3>1 DEF Level, Tiny, Large
      <4> QED
        BY <4>1, <4>2
    <3> QED
      BY <2>2, <3>2, <3>3, PacketCases
  <2>3. ASSUME NEW size \in Requests, NEW alignment \in Alignments,
               AllocTemp(size, alignment)
        PROVE  UpgradeDue(pool')
    BY <2>3 DEF AllocTemp, UpgradeDue, PoolWellFormed, Pool
  <2>4. CASE ResetTemp
    BY <2>4 DEF ResetTemp, UpgradeDue, PoolWellFormed, Pool
  <2>5. CASE Destroy
    BY <2>5 DEF Destroy, NoPool
  <2>6. CASE UNCHANGED vars
    BY <2>6 DEF vars, UpgradeDue
  <2> QED
    BY <2>1, <2>2, <2>3, <2>4, <2>5, <2>6 DEF Next
<1> QED
  BY <1>1, PoolStaysWellFormed, PTL DEF Spec, DenialIsRemembered

(* Temporary buffers never overlap one another nor leave their area.       *)
TempsInv ==
  /\ temps \subseteq [start : Nat, end : Nat]
  /\ TempsDisjoint
  /\ ~pool.live => temps = {}

LEMMA TempStartBounds ==
  ASSUME PoolWellFormed, NEW size \in Requests, NEW alignment \in Alignments,
         AllocTemp(size, alignment)
  PROVE  LET start == TempStart(pool, size, alignment)
         IN  /\ start \in Nat /\ size \in Nat
             /\ start + size <= TempSize
             /\ start # 0 => pool.temp_offset <= start
             /\ pool'.temp_offset = start + size
<1>1. /\ pool.temp_offset \in Nat /\ size \in Nat /\ alignment \in Nat \ {0}
      /\ size <= TempSize /\ TempSize \in Nat
  BY RequestSizes, PoolSizes DEF PoolWellFormed, Pool, AllocTemp, TempRefused
<1>2. /\ AlignUp(pool.temp_offset, alignment) \in Nat
      /\ AlignUp(pool.temp_offset, alignment) >= pool.temp_offset
  BY <1>1, AlignUpGrows
<1>3. pool'.temp_offset = TempStart(pool, size, alignment) + size
  BY DEF AllocTemp, PoolWellFormed, Pool
<1> QED
  BY <1>1, <1>2, <1>3 DEF TempStart

THEOREM TempsStayDisjoint == Spec => []TempsDisjoint
<1>1. Init => TempsInv
  BY DEF Init, TempsInv, TempsDisjoint
<1>2. PoolWellFormed /\ TempsInv /\ [Next]_vars => TempsInv'
  <2> SUFFICES ASSUME PoolWellFormed, TempsInv, [Next]_vars
               PROVE  TempsInv'
    OBVIOUS
  <2>1. CASE SetUp
    BY <2>1 DEF SetUp, TempsInv, TempsDisjoint
  <2>2. ASSUME NEW allocated \in BOOLEAN, Packet(allocated)
        PROVE  TempsInv'
    <3>1. CASE pool' = CheckUpgrade(pool) /\ temps' = temps
      <4>1. /\ pool'.temp_offset = pool.temp_offset
            /\ pool'.live
        BY <2>2, <3>1, CountedPool DEF Packet, PoolWellFormed, Pool
      <4> QED
        BY <3>1, <4>1 DEF TempsInv, TempsDisjoint
    <3>2. CASE temps' = {}
      BY <3>2 DEF TempsInv, TempsDisjoint
    <3> QED
      BY <2>2, <3>1, <3>2, PacketCases
  <2>3. ASSUME NEW size \in Requests, NEW alignment \in Alignments,
               AllocTemp(size, alignment)
        PROVE  TempsInv'
    <3> DEFINE start == TempStart(pool, size, alignment)
               fresh == [start |-> start, end |-> start + size]
    <3>1. /\ start \in Nat /\ size \in Nat
          /\ start + size <= TempSize
          /\ start # 0 => pool.temp_offset <= start
          /\ pool'.temp_offset = start + size
          /\ pool.temp_offset \in Nat /\ TempSize \in Nat
      BY <2>3, TempStartBounds, PoolSizes DEF PoolWellFormed, Pool
    <3>2. fresh \in [start : Nat, end : Nat]
          /\ fresh.start = start /\ fresh.end = start + size
      BY <3>1
    <3>3. temps' = IF start = 0 THEN {fresh} ELSE temps \cup {fresh}
      BY <2>3 DEF AllocTemp
    <3>4. pool'.live /\ pool.live
      BY <2>3 DEF AllocTemp, PoolWellFormed, Pool
    <3> HIDE DEF start, fresh
    <3>5. CASE start = 0
      BY <3>1, <3>2, <3>3, <3>4, <3>5 DEF TempsInv, TempsDisjoint
    <3>6. CASE start # 0
      <4>1. temps' = temps \cup {fresh} /\ temps' \subseteq [start : Nat, end : Nat]
        BY <3>2, <3>3, <3>6 DEF TempsInv
      <4>2. ASSUME NEW t \in temps
            PROVE  /\ t.start \in Nat /\ t.end \in Nat
                   /\ t.end <= fresh.start
                   /\ t.end <= pool'.temp_offset
        BY <3>1, <3>2, <3>6 DEF TempsInv, TempsDisjoint
      <4>3. ASSUME NEW t \in temps'
            PROVE  /\ 0 <= t.start
                   /\ t.end <= pool'.temp_offset
                   /\ pool'.temp_offset <= TempSize
                   /\ \A u \in temps' \ {t} : t.end <= u.start \/ u.end <= t.start
        <5>1. CASE t = fresh
          BY <3>1, <3>2, <4>1, <4>2, <5>1
        <5>2. CASE t # fresh
          <6>1. t \in temps
            BY <4>1, <5>2
          <6>2. \A u \in temps \ {t} : t.end <= u.start \/ u.end <= t.start
            BY <6>1 DEF TempsInv, TempsDisjoint
          <6> QED
            BY <3>1, <4>1, <4>2, <6>1, <6>2
        <5> QED
          BY <5>1, <5>2
      <4> QED
        BY <3>4, <4>1, <4>3 DEF TempsInv, TempsDisjoint
    <3> QED
      BY <3>5, <3>6
  <2>4. CASE ResetTemp
    BY <2>4 DEF ResetTemp, TempsInv, TempsDisjoint
  <2>5. CASE Destroy
    BY <2>5 DEF Destroy, TempsInv, TempsDisjoint
  <2>6. CASE UNCHANGED vars
    BY <2>6 DEF vars, TempsInv, TempsDisjoint
  <2> QED
    BY <2>1, <2>2, <2>3, <2>4, <2>5, <2>6 DEF Next
<1>3. TempsInv => TempsDisjoint
  BY DEF TempsInv
<1> QED
  BY <1>1, <1>2, <1>3, PoolStaysWellFormed, PTL DEF Spec
=============================================================================

--------------------------- MODULE FlowStateProofs ---------------------------
(***************************************************************************)
(* The flow state keeps its promises for every level length, every set of  *)
(* rings and switches, every packet sequence and every malloc failure.     *)
(***************************************************************************)
EXTENDS FlowState, UtilsProofs

-----------------------------------------------------------------------------
(* Sequences: what appending does to the end and to the beginning.         *)
LEMMA AppendToBoth ==
  ASSUME NEW s \in Seq(Value), NEW t \in Seq(Value), NEW v \in Value, EndsWith(s, t)
  PROVE  EndsWith(Append(s, v), Append(t, v))
<1> DEFINE ss == Append(s, v)
           tt == Append(t, v)
<1>1. /\ Len(t) \in Nat /\ Len(s) \in Nat /\ Len(t) <= Len(s)
      /\ \A i \in 1 .. Len(t) : t[i] = s[Len(s) - Len(t) + i]
  BY DEF EndsWith
<1>2. /\ Len(ss) = Len(s) + 1 /\ Len(tt) = Len(t) + 1
      /\ ss[Len(s) + 1] = v /\ tt[Len(t) + 1] = v
      /\ \A i \in 1 .. Len(s) : ss[i] = s[i]
      /\ \A i \in 1 .. Len(t) : tt[i] = t[i]
  OBVIOUS
<1> HIDE DEF ss, tt
<1>3. ASSUME NEW i \in 1 .. Len(tt)
      PROVE  tt[i] = ss[Len(ss) - Len(tt) + i]
  <2>1. CASE i = Len(t) + 1
    BY <1>1, <1>2, <2>1
  <2>2. CASE i \in 1 .. Len(t)
    <3>1. Len(s) - Len(t) + i \in 1 .. Len(s) /\ Len(ss) - Len(tt) = Len(s) - Len(t)
      BY <1>1, <1>2, <2>2
    <3> QED
      BY <1>1, <1>2, <2>2, <3>1
  <2> QED
    BY <1>1, <1>2, <2>1, <2>2
<1>4. EndsWith(ss, tt)
  BY <1>1, <1>2, <1>3 DEF EndsWith
<1> QED
  BY <1>4 DEF ss, tt

LEMMA AppendAndDrop ==
  ASSUME NEW s \in Seq(Value), NEW t \in Seq(Value), NEW v \in Value,
         EndsWith(s, t), t # << >>
  PROVE  EndsWith(Append(s, v), Append(Tail(t), v))
<1>1. /\ Len(t) \in Nat \ {0} /\ Len(s) \in Nat /\ Len(t) <= Len(s)
      /\ \A i \in 1 .. Len(t) : t[i] = s[Len(s) - Len(t) + i]
  BY DEF EndsWith
<1>2. /\ Tail(t) \in Seq(Value) /\ Len(Tail(t)) = Len(t) - 1
      /\ \A i \in 1 .. Len(t) - 1 : Tail(t)[i] = t[i + 1]
  BY <1>1
<1>3. EndsWith(s, Tail(t))
  BY <1>1, <1>2 DEF EndsWith
<1> QED
  BY <1>2, <1>3, AppendToBoth

LEMMA NothingEnds ==
  ASSUME NEW s \in Seq(Value)
  PROVE  EndsWith(s, << >>)
  BY DEF EndsWith

(* The end of s that is as long as it can be, up to n, is its newest n.    *)
LEMMA LongestEnd ==
  ASSUME NEW s \in Seq(Value), NEW t \in Seq(Value), NEW n \in Nat \ {0},
         EndsWith(s, t), Len(t) = IF Len(s) <= n THEN Len(s) ELSE n
  PROVE  t = Newest(s, n)
<1>1. Len(s) \in Nat /\ Len(t) \in Nat
  OBVIOUS
<1>2. CASE Len(s) <= n
  <2>1. Len(t) = Len(s) /\ \A i \in 1 .. Len(t) : t[i] = s[i]
    BY <1>1, <1>2 DEF EndsWith
  <2>2. t = s
    BY <2>1
  <2> QED
    BY <1>2, <2>2 DEF Newest
<1>3. CASE ~(Len(s) <= n)
  <2> DEFINE u == SubSeq(s, Len(s) - n + 1, Len(s))
  <2>1. u \in Seq(Value) /\ Len(u) = n
        /\ \A i \in 1 .. n : u[i] = s[Len(s) - n + i]
    BY <1>1, <1>3
  <2>2. Len(t) = n /\ \A i \in 1 .. n : t[i] = s[Len(s) - n + i]
    BY <1>1, <1>3 DEF EndsWith
  <2>3. Newest(s, n) = u
    BY <1>3 DEF Newest
  <2> HIDE DEF u
  <2>4. t = u
    BY <2>1, <2>2
  <2> QED
    BY <2>3, <2>4
<1> QED
  BY <1>2, <1>3

(* Appending to an array that is cut at n keeps it the oldest n.           *)
LEMMA OldestGrows ==
  ASSUME NEW o \in Seq(Value), NEW n \in Nat \ {0}, NEW v \in Value
  PROVE  Stored(Oldest(o, n), n, v) = Oldest(Append(o, v), n)
<1>1. Len(o) \in Nat /\ Len(Append(o, v)) = Len(o) + 1
  OBVIOUS
<1>2. CASE Len(o) < n
  BY <1>1, <1>2 DEF Stored, Oldest
<1>3. CASE Len(o) = n
  <2> DEFINE u == SubSeq(Append(o, v), 1, n)
  <2>1. u \in Seq(Value) /\ Len(u) = n /\ \A i \in 1 .. n : u[i] = o[i]
    BY <1>1, <1>3
  <2>2. Oldest(o, n) = o /\ Oldest(Append(o, v), n) = u
    BY <1>1, <1>3 DEF Oldest
  <2> HIDE DEF u
  <2>3. u = o
    BY <1>3, <2>1
  <2> QED
    BY <1>3, <2>2, <2>3 DEF Stored
<1>4. CASE Len(o) > n
  <2> DEFINE u == SubSeq(Append(o, v), 1, n)
             w == SubSeq(o, 1, n)
  <2>1. u \in Seq(Value) /\ Len(u) = n /\ \A i \in 1 .. n : u[i] = o[i]
    BY <1>1, <1>4
  <2>2. w \in Seq(Value) /\ Len(w) = n /\ \A i \in 1 .. n : w[i] = o[i]
    BY <1>1, <1>4
  <2>3. Oldest(o, n) = w /\ Oldest(Append(o, v), n) = u
    BY <1>1, <1>4 DEF Oldest
  <2> HIDE DEF u, w
  <2>4. u = w
    BY <2>1, <2>2
  <2> QED
    BY <2>2, <2>3, <2>4 DEF Stored
<1> QED
  BY <1>1, <1>2, <1>3, <1>4

LEMMA CopiedWhole ==
  ASSUME NEW s \in Seq(Value), NEW n \in Nat, Len(s) <= n
  PROVE  Copied(s, n) = s
<1>1. Copied(s, n) = SubSeq(s, 1, Len(s))
  BY DEF Copied
<1> QED
  BY <1>1

LEMMA StoredInBounds ==
  ASSUME NEW s \in Seq(Value), NEW n \in Nat, Len(s) <= n, NEW v \in Value
  PROVE  Stored(s, n, v) \in Seq(Value) /\ Len(Stored(s, n, v)) <= n
  BY DEF Stored
-----------------------------------------------------------------------------
(* The inductive invariant.  Placed(f, pool) says that the parts of a flow *)
(* state fit the pool; Told(f, F, O), that its sequences hold what was     *)
(* pushed (F) and offered (O) and nothing else; Entire(f, n, F, O), that    *)
(* they hold as much of it as n elements can.                              *)
Placed(f, pool) ==
  /\ f.total_packets \in 0 .. MaxPackets
  /\ \A r \in Rings : /\ WellFormed(f.ring[r])
                      /\ f.ring[r].capacity = pool.seq_len
                      /\ f.ringIn[r] = pool.level
  /\ \A a \in Array : f.arrayIn[a] = pool.level
  /\ \A a \in DirArray : /\ f.stored[a] \in Seq(Value)
                         /\ Len(f.stored[a]) <= pool.seq_len
                         /\ f.capacity[a] = pool.seq_len
  /\ f.first_n \in Seq(Value)
  /\ Len(f.first_n) <= FirstN
  /\ f.temp.in = pool.level

Told(f, F, O) ==
  /\ \A r \in Rings : /\ F[r] \in Seq(Value)
                      /\ Len(F[r]) <= f.total_packets
                      /\ EndsWith(F[r], Contents(f.ring[r]))
  /\ \A a \in DirArray : /\ O[a] \in Seq(Value)
                         /\ Len(O[a]) <= f.total_packets

Longest(s, n) == IF Len(s) <= n THEN Len(s) ELSE n

Entire(f, n, F, O) ==
  /\ \A r \in Rings : Len(Contents(f.ring[r])) = Longest(F[r], n)
  /\ \A a \in DirArray : f.stored[a] = Oldest(O[a], n)

(* A pool made for its level, with temporary buffers or without.           *)
Sized(pool) ==
  /\ pool \in Pool
  /\ pool.live
  /\ pool.seq_len = SeqLen[pool.level]

(* Below the largest level the pool's packet count is the flow's, and with *)
(* memory for every upgrade the flow is smaller than its level.            *)
Ahead(f, S) ==
  f.pool.level < Large =>
    /\ f.pool.pkt_count = f.total_packets
    /\ ~S => f.total_packets < f.pool.seq_len

SoundFlow(f, held, F, O, S) ==
  /\ Sized(f.pool)
  /\ Placed(f, f.pool)
  /\ held = {f.pool.level}
  /\ Told(f, F, O)
  /\ S \in BOOLEAN
  /\ ~S => Entire(f, f.pool.seq_len, F, O)
  /\ Ahead(f, S)

FlowInv ==
  /\ HasState =>
       /\ SoundFlow(flow, blocks, fed, offered, starved)
       /\ heap = {"state", "first_n_lens", "mem_pool"}
       /\ verdict = "GIVEME"
  /\ ~HasState =>
       /\ heap = {} /\ blocks = {}
       /\ verdict = "GIVEME" =>
            /\ fed = [r \in Rings |-> << >>]
            /\ offered = [a \in DirArray |-> << >>]
            /\ starved = FALSE
-----------------------------------------------------------------------------
(* Fields of the states the operators of FlowState make.                   *)
LEMMA ProcessedFields ==
  ASSUME NEW f, NEW pool, NEW pkt, NEW g, g = Processed(f, pool, pkt)
  PROVE  /\ g.pool = pool
         /\ g.total_packets = f.total_packets + 1
         /\ g.ringIn = f.ringIn
         /\ g.arrayIn = f.arrayIn
         /\ g.capacity = f.capacity
         /\ g.temp = f.temp
         /\ \A r \in Rings :
              g.ring[r] = IF r \in Fed(f, pkt)
                            THEN Push(f.ring[r], f.total_packets + 1)
                            ELSE f.ring[r]
         /\ \A a \in DirArray :
              g.stored[a] = IF a \in Offered(f, pkt)
                              THEN Stored(f.stored[a], f.capacity[a], f.total_packets + 1)
                              ELSE f.stored[a]
         /\ g.first_n = IF "first_n_lens" \in Wanted
                          THEN Stored(f.first_n, FirstN, f.total_packets + 1)
                          ELSE f.first_n
  BY DEF Processed

(* Binding the temporary buffers does not change the pool but for the      *)
(* offset of the next one.                                                 *)
LEMMA BoundPool ==
  ASSUME NEW level \in Level, NEW count \in 0 .. UIntMax,
         NEW pool, pool = TempBound(PoolOfLevel(level, count))
  PROVE  /\ Sized(pool)
         /\ pool.level = level
         /\ pool.pkt_count = count
         /\ TempOf(PoolOfLevel(level, count)).in = level
<1> DEFINE made == PoolOfLevel(level, count)
           off == TempOf(made).start + TempOf(made).len * 2 * Double
<1>1. /\ made \in Pool /\ made.live /\ made.level = level
      /\ made.pkt_count = count /\ made.seq_len = SeqLen[level]
  BY MadePool
<1>2. made.temp_offset = 0
  BY DEF PoolOfLevel
<1> HIDE DEF made
<1>3. TempOf(made).in = level
  BY <1>1 DEF TempOf
<1>4. off \in 0 .. TempSize
  <2> DEFINE len == TempLen(made.seq_len)
             size == len * 2 * Double
  <2>1. len \in Nat
    BY <1>1, SeqLenGrows, PoolSizes DEF TempLen, Double
  <2>2. size = len * 16 /\ size \in Nat
    BY <2>1 DEF Double
  <2>3. AlignUp(made.temp_offset, 8) \in Nat
    BY <1>2, AlignUpGrows
  <2>4. CASE TempRefused(size)
    BY <2>4, PoolSizes DEF TempOf, Double
  <2>5. CASE ~TempRefused(size)
    <3>1. TempOf(made).start = TempStart(made, size, 8) /\ TempOf(made).len = len
      BY <2>5 DEF TempOf
    <3>2. size <= TempSize /\ TempSize \in Nat
      BY <2>2, <2>5, PoolSizes DEF TempRefused
    <3> HIDE DEF len, size
    <3>3. TempStart(made, size, 8) \in Nat /\ TempStart(made, size, 8) + size <= TempSize
      BY <2>2, <2>3, <3>2 DEF TempStart
    <3>4. off = TempStart(made, size, 8) + size
      BY <3>1 DEF len, size
    <3> QED
      BY <2>2, <3>2, <3>3, <3>4
  <2> QED
    BY <2>4, <2>5
<1>5. pool = [made EXCEPT !.temp_offset = off]
  BY DEF TempBound, made
<1> HIDE DEF off
<1>6. pool \in Pool /\ pool.live /\ pool.level = level
      /\ pool.pkt_count = count /\ pool.seq_len = SeqLen[level]
  BY <1>1, <1>4, <1>5 DEF Pool
<1> QED
  BY <1>3, <1>6 DEF Sized, made

(* What an upgrade moves.  Every ring finds its place in the new block.    *)
Moved(f, g, pool, captured) ==
  /\ g.pool = TempBound(pool)
  /\ g.total_packets = f.total_packets
  /\ g.seen = f.seen
  /\ g.has_last_payload_len = f.has_last_payload_len
  /\ g.first_n = f.first_n
  /\ g.temp = TempOf(pool)
  /\ \A r \in Rings :
       /\ g.ring[r] = Rebind(f.ring[r], pool.seq_len,
                             Snapshot(f.ring[r], r \in captured))
       /\ g.ringIn[r] = pool.level
  /\ \A a \in Array : g.arrayIn[a] = pool.level
  /\ \A a \in DirArray :
       /\ g.stored[a] = Copied(f.stored[a], f.pool.seq_len)
       /\ g.capacity[a] = pool.seq_len

LEMMA UpgradedFields ==
  ASSUME NEW f, NEW counted, counted.level + 1 \in Level, NEW captured,
         NEW g, g = Upgraded(f, counted, captured),
         NEW pool, pool = PoolOfLevel(counted.level + 1, counted.pkt_count)
  PROVE  Moved(f, g, pool, captured)
<1> DEFINE bind == {r \in Rings : RingBindable(pool, r)}
<1>1. \A r \in Rings : r \in bind
  BY RingsFit, FlowConstants
<1> HIDE DEF bind
<1>2. g = [ pool     |-> TempBound(pool),
            ring     |-> [r \in Rings |->
                            IF r \in bind
                              THEN Rebind(f.ring[r], pool.seq_len,
                                          Snapshot(f.ring[r], r \in captured))
                              ELSE f.ring[r]],
            ringIn   |-> [r \in Rings |->
                            IF r \in bind THEN pool.level ELSE f.ringIn[r]],
            arrayIn  |-> [a \in Array |->
                            IF a \in Refreshed THEN pool.level ELSE f.arrayIn[a]],
            capacity |-> [a \in DirArray |->
                            IF a \in Widened THEN pool.seq_len ELSE f.capacity[a]],
            stored   |-> [a \in DirArray |-> Copied(f.stored[a], f.pool.seq_len)],
            first_n  |-> f.first_n,
            temp     |-> TempOf(pool),
            total_packets        |-> f.total_packets,
            seen                 |-> f.seen,
            has_last_payload_len |-> f.has_last_payload_len ]
  BY Zenon DEF Upgraded, bind
<1> QED
  BY <1>1, <1>2 DEF Moved, Refreshed, Widened
-----------------------------------------------------------------------------
(* The statistics of one packet.  Grown says how the histories grow.       *)
Grown(f, pkt, F, O, F2, O2) ==
  /\ \A r \in Rings :
       F2[r] = IF r \in Fed(f, pkt) THEN Append(F[r], f.total_packets + 1) ELSE F[r]
  /\ \A a \in DirArray :
       O2[a] = IF a \in Offered(f, pkt)
                 THEN Append(O[a], f.total_packets + 1) ELSE O[a]

LEMMA ProcessedPlaced ==
  ASSUME NEW f, NEW pool, pool.seq_len \in Nat \ {0}, Placed(f, pool),
         f.total_packets < MaxPackets, NEW pkt,
         NEW p, p.level = pool.level, p.seq_len = pool.seq_len,
         NEW g, g = Processed(f, p, pkt)
  PROVE  /\ Placed(g, p)
         /\ g.total_packets = f.total_packets + 1
         /\ f.total_packets + 1 \in Value
<1> DEFINE v == f.total_packets + 1
<1>1. v \in Value /\ v \in 0 .. MaxPackets
  <2>1. v \in 1 .. MaxPackets
    BY FlowConstants DEF Placed
  <2> QED
    BY <2>1, FlowConstants
<1>2. /\ g.pool = p /\ g.total_packets = v /\ g.ringIn = f.ringIn
      /\ g.arrayIn = f.arrayIn /\ g.capacity = f.capacity /\ g.temp = f.temp
      /\ \A r \in Rings : g.ring[r] =
           IF r \in Fed(f, pkt) THEN Push(f.ring[r], v) ELSE f.ring[r]
      /\ \A a \in DirArray : g.stored[a] =
           IF a \in Offered(f, pkt) THEN Stored(f.stored[a], f.capacity[a], v)
                                     ELSE f.stored[a]
      /\ g.first_n = IF "first_n_lens" \in Wanted
                       THEN Stored(f.first_n, FirstN, v) ELSE f.first_n
  BY ProcessedFields
<1>3. f.total_packets + 1 = v
  OBVIOUS
<1> HIDE DEF v
<1>4. ASSUME NEW r \in Rings
      PROVE  WellFormed(g.ring[r]) /\ g.ring[r].capacity = p.seq_len
  BY <1>1, <1>2, PushIsWellFormed DEF Placed
<1>5. ASSUME NEW a \in DirArray
      PROVE  g.stored[a] \in Seq(Value) /\ Len(g.stored[a]) <= p.seq_len
  BY <1>1, <1>2, StoredInBounds, SMTT(30) DEF Placed
<1>6. g.first_n \in Seq(Value) /\ Len(g.first_n) <= FirstN
  BY <1>1, <1>2, StoredInBounds, FlowConstants DEF Placed
<1> QED
  BY <1>1, <1>2, <1>3, <1>4, <1>5, <1>6 DEF Placed

LEMMA AppendGrows ==
  ASSUME NEW s \in Seq(Value), NEW v \in Value, NEW n \in Nat, Len(s) <= n
  PROVE  /\ Append(s, v) \in Seq(Value) /\ Len(Append(s, v)) <= n + 1
         /\ s \in Seq(Value) /\ Len(s) <= n + 1
  OBVIOUS

LEMMA PushedOnto ==
  ASSUME NEW cb, WellFormed(cb), NEW n \in Nat \ {0}, cb.capacity = n,
         NEW v \in Value, NEW t, t = Contents(cb)
  PROVE  Contents(Push(cb, v)) =
           IF Len(t) = n THEN Append(Tail(t), v) ELSE Append(t, v)
<1>1. HasStorage(cb)
  BY DEF HasStorage
<1> QED
  BY <1>1, PushContents

LEMMA ProcessedTold ==
  ASSUME NEW f, NEW pool, pool.seq_len \in Nat \ {0}, Placed(f, pool),
         f.total_packets < MaxPackets, NEW pkt, NEW p,
         NEW g, g = Processed(f, p, pkt),
         NEW F, NEW O, NEW F2, NEW O2,
         Told(f, F, O), Grown(f, pkt, F, O, F2, O2)
  PROVE  Told(g, F2, O2)
<1> DEFINE v == f.total_packets + 1
<1>1. v \in Value /\ f.total_packets \in Nat /\ v = f.total_packets + 1
  <2>1. v \in 1 .. MaxPackets /\ f.total_packets \in Nat
    BY FlowConstants DEF Placed
  <2> QED
    BY <2>1, FlowConstants
<1>2. /\ g.total_packets = v
      /\ \A r \in Rings : g.ring[r] =
           IF r \in Fed(f, pkt) THEN Push(f.ring[r], v) ELSE f.ring[r]
  BY ProcessedFields
<1>3. /\ \A r \in Rings : F2[r] = IF r \in Fed(f, pkt) THEN Append(F[r], v) ELSE F[r]
      /\ \A a \in DirArray : O2[a] = IF a \in Offered(f, pkt) THEN Append(O[a], v) ELSE O[a]
  BY DEF Grown
<1> HIDE DEF v
<1>4. ASSUME NEW r \in Rings
      PROVE  /\ F2[r] \in Seq(Value) /\ Len(F2[r]) <= v
             /\ EndsWith(F2[r], Contents(g.ring[r]))
  <2>1. /\ F[r] \in Seq(Value) /\ Len(F[r]) <= f.total_packets
        /\ EndsWith(F[r], Contents(f.ring[r]))
    BY DEF Told
  <2>2. F2[r] \in Seq(Value) /\ Len(F2[r]) <= v
    BY <1>1, <1>3, <2>1, AppendGrows
  <2>3. CASE r \notin Fed(f, pkt)
    BY <1>2, <1>3, <2>1, <2>2, <2>3
  <2>4. CASE r \in Fed(f, pkt)
    <3> DEFINE s == F[r]
               t == Contents(f.ring[r])
    <3>1. WellFormed(f.ring[r]) /\ f.ring[r].capacity = pool.seq_len
      BY DEF Placed
    <3>2. t \in Seq(Value)
      BY <3>1, ContentsType
    <3>3. Contents(Push(f.ring[r], v)) =
            IF Len(t) = pool.seq_len THEN Append(Tail(t), v) ELSE Append(t, v)
      <4> DEFINE cb == f.ring[r]
                 n == pool.seq_len
      <4>1. WellFormed(cb) /\ n \in Nat \ {0} /\ cb.capacity = n
        BY <3>1
      <4>2. t = Contents(cb) /\ v \in Value
        BY <1>1
      <4> HIDE DEF cb, n, t
      <4>3. Contents(Push(cb, v)) =
              IF Len(t) = n THEN Append(Tail(t), v) ELSE Append(t, v)
        BY <4>1, <4>2, PushedOnto
      <4> QED
        BY <4>3 DEF cb, n, t
    <3>4. s \in Seq(Value) /\ EndsWith(s, t) /\ F2[r] = Append(s, v)
      BY <1>3, <2>1, <2>4
    <3> HIDE DEF s, t
    <3>5. CASE Len(t) = pool.seq_len
      <4>1. t # << >>
        BY <3>2, <3>5
      <4>2. EndsWith(Append(s, v), Append(Tail(t), v))
        BY <1>1, <3>2, <3>4, <4>1, AppendAndDrop
      <4> QED
        BY <1>2, <2>2, <2>4, <3>3, <3>4, <3>5, <4>2
    <3>6. CASE Len(t) # pool.seq_len
      <4>1. EndsWith(Append(s, v), Append(t, v))
        BY <1>1, <3>2, <3>4, AppendToBoth
      <4> QED
        BY <1>2, <2>2, <2>4, <3>3, <3>4, <3>6, <4>1
    <3> QED
      BY <3>5, <3>6
  <2> QED
    BY <2>3, <2>4
<1>5. ASSUME NEW a \in DirArray
      PROVE  O2[a] \in Seq(Value) /\ Len(O2[a]) <= v
  <2>1. O[a] \in Seq(Value) /\ Len(O[a]) <= f.total_packets
    BY DEF Told
  <2> QED
    BY <1>1, <1>3, <2>1, AppendGrows
<1> QED
  BY <1>2, <1>4, <1>5 DEF Told

LEMMA ProcessedWhole ==
  ASSUME NEW f, NEW pool, pool.seq_len \in Nat \ {0}, Placed(f, pool),
         f.total_packets < MaxPackets, NEW pkt, NEW p,
         NEW g, g = Processed(f, p, pkt),
         NEW F, NEW O, NEW F2, NEW O2,
         Told(f, F, O), Grown(f, pkt, F, O, F2, O2), Entire(f, pool.seq_len, F, O)
  PROVE  Entire(g, pool.seq_len, F2, O2)
<1> DEFINE v == f.total_packets + 1
           n == pool.seq_len
<1>1. v \in Value /\ n \in Nat \ {0}
  <2>1. v \in 1 .. MaxPackets
    BY FlowConstants DEF Placed
  <2> QED
    BY <2>1, FlowConstants
<1>2. /\ \A r \in Rings : g.ring[r] =
           IF r \in Fed(f, pkt) THEN Push(f.ring[r], v) ELSE f.ring[r]
      /\ \A a \in DirArray : g.stored[a] =
           IF a \in Offered(f, pkt) THEN Stored(f.stored[a], f.capacity[a], v)
                                     ELSE f.stored[a]
  BY ProcessedFields
<1>3. /\ \A r \in Rings : F2[r] = IF r \in Fed(f, pkt) THEN Append(F[r], v) ELSE F[r]
      /\ \A a \in DirArray : O2[a] = IF a \in Offered(f, pkt) THEN Append(O[a], v) ELSE O[a]
  BY DEF Grown
<1>4. /\ \A r \in Rings : /\ F[r] \in Seq(Value) /\ WellFormed(f.ring[r])
                           /\ f.ring[r].capacity = n
                           /\ Len(Contents(f.ring[r])) = Longest(F[r], n)
      /\ \A a \in DirArray : /\ O[a] \in Seq(Value) /\ f.capacity[a] = n
                              /\ f.stored[a] = Oldest(O[a], n)
  BY DEF Told, Entire, Placed
<1> HIDE DEF v, n
<1>5. ASSUME NEW r \in Rings
      PROVE  Len(Contents(g.ring[r])) = Longest(F2[r], n)
  <2>1. CASE r \notin Fed(f, pkt)
    BY <1>2, <1>3, <1>4, <2>1
  <2>2. CASE r \in Fed(f, pkt)
    <3> DEFINE s == F[r]
               t == Contents(f.ring[r])
    <3>1. t \in Seq(Value) /\ s \in Seq(Value)
      BY <1>4, ContentsType
    <3>2. Contents(g.ring[r]) =
            IF Len(t) = n THEN Append(Tail(t), v) ELSE Append(t, v)
      <4> DEFINE cb == f.ring[r]
      <4>1. WellFormed(cb) /\ cb.capacity = n /\ t = Contents(cb)
        BY <1>4
      <4> HIDE DEF cb, t
      <4>2. Contents(Push(cb, v)) =
              IF Len(t) = n THEN Append(Tail(t), v) ELSE Append(t, v)
        BY <1>1, <4>1, PushedOnto
      <4> QED
        BY <1>2, <2>2, <4>2 DEF cb
    <3>3. F2[r] = Append(s, v) /\ Len(t) = IF Len(s) <= n THEN Len(s) ELSE n
      BY <1>3, <1>4, <2>2 DEF Longest
    <3> HIDE DEF s, t
    <3>4. Len(Append(s, v)) = Len(s) + 1 /\ Len(Append(t, v)) = Len(t) + 1
          /\ Len(s) \in Nat /\ Len(t) \in Nat
      BY <1>1, <3>1
    <3>5. CASE Len(t) = n
      <4>1. Len(Append(Tail(t), v)) = n
        BY <1>1, <3>1, <3>5
      <4> QED
        BY <1>1, <3>2, <3>3, <3>4, <3>5, <4>1 DEF Longest
    <3>6. CASE Len(t) # n
      BY <1>1, <3>2, <3>3, <3>4, <3>6 DEF Longest
    <3> QED
      BY <3>5, <3>6
  <2> QED
    BY <2>1, <2>2
<1>6. ASSUME NEW a \in DirArray
      PROVE  g.stored[a] = Oldest(O2[a], n)
  BY <1>1, <1>2, <1>3, <1>4, OldestGrows
<1> QED
  BY <1>5, <1>6 DEF Entire, n
-----------------------------------------------------------------------------
(* A new flow.                                                             *)
LEMMA NewFlowIsSound ==
  ASSUME NEW f, f = NewFlow,
         NEW F, \A r \in Rings : F[r] = << >>,
         NEW O, \A a \in DirArray : O[a] = << >>
  PROVE  SoundFlow(f, {Tiny}, F, O, FALSE)
<1> DEFINE pool == PoolOfLevel(Tiny, 0)
<1>1. Tiny \in Level /\ 0 \in 0 .. UIntMax /\ SeqLen[Tiny] \in Nat \ {0}
  BY SeqLenGrows, PoolSizes DEF Level, Tiny, Large
<1>2. /\ f.pool = TempBound(pool) /\ f.temp = TempOf(pool)
      /\ f.total_packets = 0 /\ f.first_n = << >>
      /\ \A r \in Rings : f.ring[r] = Fresh(pool.seq_len) /\ f.ringIn[r] = Tiny
      /\ \A a \in Array : f.arrayIn[a] = Tiny
      /\ \A a \in DirArray : f.capacity[a] = pool.seq_len /\ f.stored[a] = << >>
  BY DEF NewFlow
<1>3. pool.seq_len = SeqLen[Tiny]
  BY <1>1, MadePool
<1>4. /\ Sized(f.pool) /\ f.pool.level = Tiny /\ f.pool.pkt_count = 0
      /\ f.temp.in = Tiny
  BY <1>1, <1>2, BoundPool
<1>5. f.pool.seq_len = SeqLen[Tiny]
  BY <1>4 DEF Sized
<1> HIDE DEF pool
<1>6. ASSUME NEW r \in Rings
      PROVE  /\ WellFormed(f.ring[r]) /\ f.ring[r].capacity = SeqLen[Tiny]
             /\ Contents(f.ring[r]) = << >>
  BY <1>1, <1>2, <1>3, FreshIsWellFormed DEF Fresh
<1>11. /\ f.total_packets = 0
       /\ \A r \in Rings : f.ringIn[r] = Tiny
       /\ \A a \in Array : f.arrayIn[a] = Tiny
       /\ \A a \in DirArray : f.capacity[a] = SeqLen[Tiny]
  BY <1>2, <1>3
<1> DEFINE e == << >>
<1>7. /\ e \in Seq(Value) /\ Len(e) = 0
      /\ \A s \in Seq(Value) : EndsWith(s, e)
      /\ f.first_n = e
      /\ \A a \in DirArray : f.stored[a] = e /\ O[a] = e
      /\ \A r \in Rings : F[r] = e /\ Contents(f.ring[r]) = e
  BY <1>2, <1>6, NothingEnds
<1> HIDE DEF e
<1>8. Placed(f, f.pool) /\ Told(f, F, O)
  <2>1. 0 \in 0 .. MaxPackets /\ FirstN \in Nat
    BY FlowConstants
  <2>2. \A a \in Array : f.arrayIn[a] = f.pool.level
    BY <1>4, <1>11
  <2>3. \A r \in Rings : /\ WellFormed(f.ring[r])
                        /\ f.ring[r].capacity = f.pool.seq_len
                        /\ f.ringIn[r] = f.pool.level
    BY <1>2, <1>4, <1>5, <1>6
  <2>4. \A a \in DirArray : /\ f.stored[a] \in Seq(Value)
                            /\ Len(f.stored[a]) <= f.pool.seq_len
                            /\ f.capacity[a] = f.pool.seq_len
    <3>1. 0 <= f.pool.seq_len
      BY <1>1, <1>5
    <3>2. e \in Seq(Value) /\ Len(e) <= f.pool.seq_len
      BY <1>7, <3>1
    <3> QED
      BY <1>5, <1>7, <1>11, <3>2, Zenon
  <2>5. f.total_packets \in 0 .. MaxPackets /\ f.temp.in = f.pool.level
        /\ f.first_n \in Seq(Value) /\ Len(f.first_n) <= FirstN
    BY <1>2, <1>4, <1>7, <2>1
  <2>6. Placed(f, f.pool)
    BY <2>2, <2>3, <2>4, <2>5 DEF Placed
  <2>7. Told(f, F, O)
    <3>1. e \in Seq(Value) /\ Len(e) <= f.total_packets
      BY <1>7, <1>11
    <3> QED
      BY <1>7, <3>1, Zenon DEF Told
  <2> QED
    BY <2>6, <2>7
<1>9. Entire(f, f.pool.seq_len, F, O)
  <2>1. Longest(e, SeqLen[Tiny]) = 0 /\ Oldest(e, SeqLen[Tiny]) = e
    BY <1>1, <1>7 DEF Longest, Oldest
  <2> QED
    BY <1>5, <1>7, <2>1 DEF Entire
<1>10. Ahead(f, FALSE)
  BY <1>1, <1>2, <1>4, <1>5 DEF Ahead
<1> QED
  BY <1>4, <1>8, <1>9, <1>10 DEF SoundFlow
-----------------------------------------------------------------------------
(* An upgrade: a snapshot is all of a ring, or nothing.                    *)
LEMMA SnapshotIs ==
  ASSUME NEW cb, WellFormed(cb), NEW got \in BOOLEAN,
         NEW s \in Seq(Value), EndsWith(s, Contents(cb)),
         NEW t, t = Snapshot(cb, got)
  PROVE  /\ t \in Seq(Value)
         /\ Len(t) <= cb.capacity
         /\ EndsWith(s, t)
         /\ got \/ cb.count = 0 => Len(t) = Len(Contents(cb))
<1>1. Contents(cb) \in Seq(Value) /\ Len(Contents(cb)) = cb.count
  BY ContentsType
<1>2. cb.count \in 0 .. cb.capacity /\ cb.capacity \in Nat
  BY DEF WellFormed, IsBuffer
<1>3. CASE got
  BY <1>1, <1>2, <1>3 DEF Snapshot
<1>4. CASE ~got
  <2>1. t = << >>
    BY <1>4 DEF Snapshot
  <2>2. t \in Seq(Value) /\ Len(t) = 0 /\ EndsWith(s, t)
    BY <2>1, NothingEnds
  <2> QED
    BY <1>1, <1>2, <1>4, <2>2
<1> QED
  BY <1>3, <1>4

Taken(f, g, captured) ==
  \A r \in Rings : Contents(g.ring[r]) = Snapshot(f.ring[r], r \in captured)

LEMMA MovedIsSound ==
  ASSUME NEW f, NEW F, NEW O, Sized(f.pool), Placed(f, f.pool), Told(f, F, O),
         NEW level \in Level, f.pool.level + 1 = level,
         NEW count \in 0 .. UIntMax, NEW captured,
         NEW pool, pool = PoolOfLevel(level, count),
         NEW g, Moved(f, g, pool, captured)
  PROVE  /\ Sized(g.pool)
         /\ g.pool.level = level
         /\ g.pool.pkt_count = count
         /\ Placed(g, g.pool)
         /\ Told(g, F, O)
         /\ Taken(f, g, captured)
<1> DEFINE n == SeqLen[level]
           m == SeqLen[f.pool.level]
<1>1. /\ f.pool.level \in Level /\ f.pool.level < Large
      /\ f.pool.level + 1 = level /\ f.pool.seq_len = m
  BY DEF Sized, Pool, Level, Tiny, Large
<1>2. n \in Nat \ {0} /\ m \in Nat \ {0} /\ m < n
  BY <1>1, SeqLenGrows
<1>3. /\ Sized(g.pool) /\ g.pool.level = level /\ g.pool.pkt_count = count
      /\ g.temp.in = level
  BY BoundPool DEF Moved
<1>4. g.pool.seq_len = n
  BY <1>3 DEF Sized
<1>5. pool.level = level /\ pool.seq_len = n
  BY MadePool
<1> HIDE DEF n, m
<1>6. ASSUME NEW r \in Rings
      PROVE  /\ WellFormed(g.ring[r]) /\ g.ring[r].capacity = n
             /\ Contents(g.ring[r]) = Snapshot(f.ring[r], r \in captured)
             /\ EndsWith(F[r], Contents(g.ring[r]))
  <2> DEFINE cb == f.ring[r]
             got == r \in captured
             t == Snapshot(cb, got)
             s == F[r]
  <2>1. /\ WellFormed(cb) /\ cb.capacity = m
        /\ s \in Seq(Value) /\ EndsWith(s, Contents(cb))
        /\ got \in BOOLEAN
    BY <1>1 DEF Placed, Told
  <2>2. g.ring[r] = Rebind(cb, n, t)
    BY <1>5 DEF Moved
  <2>3. t = Snapshot(cb, got)
    OBVIOUS
  <2> HIDE DEF cb, got, t, s
  <2>4. t \in Seq(Value) /\ Len(t) <= m /\ EndsWith(s, t)
    BY <2>1, <2>3, SnapshotIs
  <2>5. Len(t) <= n
    BY <1>2, <2>4
  <2>6. /\ WellFormed(g.ring[r]) /\ g.ring[r].capacity = n
        /\ Contents(g.ring[r]) = t
    BY <1>2, <2>2, <2>4, <2>5, RebindIsWellFormed
  <2> QED
    BY <2>4, <2>6 DEF cb, got, t, s
<1>7. ASSUME NEW a \in DirArray
      PROVE  g.stored[a] \in Seq(Value) /\ Len(g.stored[a]) <= n
  <2> DEFINE s == f.stored[a]
  <2>1. s \in Seq(Value) /\ Len(s) <= m
    BY <1>1 DEF Placed
  <2>2. g.stored[a] = Copied(s, m)
    BY <1>1 DEF Moved
  <2> HIDE DEF s
  <2>3. Copied(s, m) = s
    BY <1>2, <2>1, CopiedWhole
  <2> QED
    BY <1>2, <2>1, <2>2, <2>3
<1>8. Placed(g, g.pool)
  <2>1. /\ \A r \in Rings : g.ringIn[r] = level
        /\ \A a \in Array : g.arrayIn[a] = level
        /\ \A a \in DirArray : g.capacity[a] = n
        /\ g.total_packets = f.total_packets /\ g.first_n = f.first_n
    BY <1>5 DEF Moved
  <2> QED
    BY <1>3, <1>4, <1>6, <1>7, <2>1 DEF Placed
<1>9. Told(g, F, O)
  BY <1>6 DEF Told, Moved
<1>10. Taken(f, g, captured)
  BY <1>6 DEF Taken
<1> QED
  BY <1>3, <1>8, <1>9, <1>10

(* An upgrade in time, with memory for every snapshot, loses nothing.      *)
LEMMA MovedIsWhole ==
  ASSUME NEW f, NEW F, NEW O, NEW m \in Nat \ {0}, NEW n \in Nat \ {0}, m <= n,
         f.pool.seq_len = m, Placed(f, f.pool), Told(f, F, O), Entire(f, m, F, O),
         f.total_packets <= m, NEW captured, RingsLost(f, captured) = {},
         NEW pool, NEW g, Moved(f, g, pool, captured), Taken(f, g, captured)
  PROVE  Entire(g, n, F, O)
<1>1. f.total_packets \in Nat
  BY FlowConstants DEF Placed
<1>2. ASSUME NEW r \in Rings
      PROVE  Len(Contents(g.ring[r])) = Longest(F[r], n)
  <2> DEFINE cb == f.ring[r]
             got == r \in captured
             t == Snapshot(cb, got)
             s == F[r]
  <2>1. /\ WellFormed(cb) /\ s \in Seq(Value) /\ EndsWith(s, Contents(cb))
        /\ got \in BOOLEAN /\ Contents(g.ring[r]) = t /\ t = Snapshot(cb, got)
        /\ Len(s) <= f.total_packets
        /\ Len(Contents(cb)) = Longest(s, m)
    BY DEF Placed, Told, Entire, Taken
  <2>2. got \/ cb.count = 0
    <3>1. cb.count \in Nat /\ ~(cb.count > 0) => cb.count = 0
      OBVIOUS
    <3>2. cb.count \in Nat
      BY <2>1 DEF WellFormed, IsBuffer
    <3> QED
      BY <3>1, <3>2 DEF RingsLost
  <2> HIDE DEF cb, got, t, s
  <2>3. Len(t) = Len(Contents(cb))
    BY <2>1, <2>2, SnapshotIs
  <2>4. Len(s) \in Nat /\ Len(s) <= m /\ Len(s) <= n
    BY <1>1, <2>1
  <2>5. Longest(s, m) = Len(s) /\ Longest(s, n) = Len(s)
    BY <2>4 DEF Longest
  <2> QED
    BY <2>1, <2>3, <2>5 DEF s
<1>3. ASSUME NEW a \in DirArray
      PROVE  g.stored[a] = Oldest(O[a], n)
  <2> DEFINE s == O[a]
  <2>1. /\ s \in Seq(Value) /\ Len(s) <= f.total_packets
        /\ f.stored[a] = Oldest(s, m)
        /\ g.stored[a] = Copied(f.stored[a], m)
    BY DEF Told, Entire, Moved
  <2> HIDE DEF s
  <2>2. Len(s) \in Nat /\ Len(s) <= m /\ Len(s) <= n
    BY <1>1, <2>1
  <2>3. Oldest(s, m) = s /\ Oldest(s, n) = s
    BY <2>2 DEF Oldest
  <2>4. Copied(s, m) = s
    BY <2>1, <2>2, CopiedWhole
  <2> QED
    BY <2>1, <2>3, <2>4 DEF s
<1> QED
  BY <1>2, <1>3 DEF Entire
-----------------------------------------------------------------------------
(* A packet keeps the state sound, whether the pool is upgraded or not.    *)
LEMMA SoundCounts ==
  ASSUME NEW f, NEW held, NEW F, NEW O, NEW S, SoundFlow(f, held, F, O, S)
  PROVE  /\ f.pool \in Pool /\ f.pool.live /\ f.pool.level \in Level
         /\ f.pool.level \in Nat /\ Large \in Nat
         /\ f.pool.seq_len = SeqLen[f.pool.level]
         /\ f.pool.seq_len \in Nat \ {0}
         /\ f.total_packets \in Nat
         /\ f.total_packets <= MaxPackets
         /\ MaxPackets \in Nat /\ MaxPackets <= UIntMax /\ UIntMax \in Nat
<1>1. f.pool.level \in Level
  BY DEF SoundFlow, Sized, Pool
<1>2. f.pool.level \in Nat /\ Large \in Nat
  BY <1>1 DEF Level, Tiny, Large
<1>3. f.total_packets \in 0 .. MaxPackets
  BY DEF SoundFlow, Placed
<1>4. f.pool \in Pool /\ f.pool.live /\ f.pool.seq_len = SeqLen[f.pool.level]
  BY DEF SoundFlow, Sized
<1> QED
  BY <1>1, <1>2, <1>3, <1>4, FlowConstants, SeqLenGrows, PoolSizes

LEMMA StayedIsSound ==
  ASSUME NEW f, NEW held, NEW F, NEW O, NEW S, SoundFlow(f, held, F, O, S),
         f.total_packets < MaxPackets, NEW pkt,
         NEW c, c = CheckUpgrade(f.pool),
         NEW g, g = Processed(f, c, pkt),
         NEW F2, NEW O2, Grown(f, pkt, F, O, F2, O2),
         NEW S2, S2 = (S \/ UpgradeDue(c))
  PROVE  SoundFlow(g, held, F2, O2, S2)
<1> DEFINE n == f.pool.seq_len
           total == f.total_packets
<1>1. /\ f.pool \in Pool /\ f.pool.live /\ f.pool.level \in Nat /\ Large \in Nat
      /\ n = SeqLen[f.pool.level] /\ n \in Nat \ {0}
      /\ total \in Nat /\ total < MaxPackets
      /\ MaxPackets \in Nat /\ MaxPackets <= UIntMax /\ UIntMax \in Nat
  BY SoundCounts
<1>2. /\ Placed(f, f.pool) /\ Told(f, F, O) /\ S \in BOOLEAN
      /\ ~S => Entire(f, n, F, O)
      /\ Ahead(f, S) /\ held = {f.pool.level}
  BY DEF SoundFlow
<1>3. /\ c \in Pool /\ c.live /\ c.level = f.pool.level /\ c.seq_len = n
      /\ f.pool.level < Large /\ f.pool.pkt_count < UIntMax =>
           c.pkt_count = f.pool.pkt_count + 1
  BY <1>1, CountedPool
<1>4. g.pool = c
  BY ProcessedFields
<1>5. Placed(g, c) /\ g.total_packets = total + 1
  BY <1>1, <1>2, <1>3, ProcessedPlaced
<1>6. Told(g, F2, O2)
  BY <1>1, <1>2, ProcessedTold
<1>7. S2 \in BOOLEAN /\ (~S2 => ~S /\ ~UpgradeDue(c))
  BY <1>2 DEF UpgradeDue
<1>8. ~S2 => Entire(g, n, F2, O2)
  BY <1>1, <1>2, <1>7, ProcessedWhole
<1>9. Ahead(g, S2)
  <2> SUFFICES ASSUME c.level < Large
               PROVE  /\ c.pkt_count = total + 1
                      /\ ~S2 => total + 1 < n
    BY <1>3, <1>4, <1>5 DEF Ahead
  <2>1. f.pool.pkt_count = total
    BY <1>2, <1>3 DEF Ahead
  <2> HIDE DEF n, total
  <2>2. c.pkt_count = total + 1
    BY <1>1, <1>3, <2>1
  <2>3. ASSUME ~S2
        PROVE  total + 1 < n
    <3>1. ~(c.pkt_count >= Threshold(n))
      BY <1>3, <1>7, <2>3 DEF UpgradeDue
    <3>2. Threshold(n) \in Nat /\ Threshold(n) <= n
      BY <1>1, ThresholdBound
    <3> QED
      BY <1>1, <2>2, <3>1, <3>2
  <2> QED
    BY <2>2, <2>3
<1>10. Sized(c)
  BY <1>1, <1>3 DEF Sized
<1> QED
  BY <1>2, <1>3, <1>4, <1>5, <1>6, <1>7, <1>8, <1>9, <1>10 DEF SoundFlow

LEMMA UpgradedIsSound ==
  ASSUME NEW f, NEW held, NEW F, NEW O, NEW S, SoundFlow(f, held, F, O, S),
         f.total_packets < MaxPackets, NEW pkt,
         NEW c, c = CheckUpgrade(f.pool), UpgradeDue(c),
         NEW captured,
         NEW u, u = Upgraded(f, c, captured),
         NEW g, g = Processed(u, u.pool, pkt),
         NEW F2, NEW O2, Grown(f, pkt, F, O, F2, O2),
         NEW S2, S2 = (S \/ RingsLost(f, captured) # {})
  PROVE  SoundFlow(g, BlocksAfterUpgrade(held, f.pool.level), F2, O2, S2)
<1> DEFINE n == f.pool.seq_len
           total == f.total_packets
           level == f.pool.level + 1
           count == c.pkt_count
           pool == PoolOfLevel(level, count)
           m == u.pool.seq_len
<1>1. /\ f.pool \in Pool /\ f.pool.live /\ f.pool.level \in Level
      /\ f.pool.level \in Nat /\ Large \in Nat
      /\ n = SeqLen[f.pool.level] /\ n \in Nat \ {0}
      /\ total \in Nat /\ total < MaxPackets
      /\ MaxPackets \in Nat /\ MaxPackets <= UIntMax /\ UIntMax \in Nat
  BY SoundCounts
<1>2. /\ Sized(f.pool) /\ Placed(f, f.pool) /\ Told(f, F, O) /\ S \in BOOLEAN
      /\ ~S => Entire(f, n, F, O)
      /\ Ahead(f, S) /\ held = {f.pool.level}
  BY DEF SoundFlow
<1>3. /\ c \in Pool /\ c.live /\ c.level = f.pool.level /\ c.seq_len = n
      /\ f.pool.level < Large /\ f.pool.pkt_count < UIntMax =>
           c.pkt_count = f.pool.pkt_count + 1
  BY <1>1, CountedPool
<1>4. c.level < Large /\ f.pool.level < Large /\ level \in Level
  BY <1>1, <1>3 DEF UpgradeDue, Level, Tiny
<1>5. f.pool.pkt_count = total /\ (~S => total < n)
  BY <1>2, <1>4 DEF Ahead
<1>6. count = total + 1 /\ count \in 0 .. UIntMax
  <2> HIDE DEF n, total
  <2> QED
    BY <1>1, <1>3, <1>4, <1>5
<1>7. Moved(f, u, pool, captured)
  <2>1. c.level + 1 = level
    BY <1>3
  <2> QED
    BY <1>4, <2>1, UpgradedFields
<1>8. /\ Sized(u.pool) /\ u.pool.level = level /\ u.pool.pkt_count = count
      /\ Placed(u, u.pool) /\ Told(u, F, O)
      /\ Taken(f, u, captured)
      /\ m \in Nat \ {0} /\ n < m
  <2> HIDE DEF level, count
  <2>1. f.pool.level + 1 = level
    BY DEF level
  <2> HIDE DEF pool
  <2>2. pool = PoolOfLevel(level, count)
    BY DEF pool
  <2>3. Sized(f.pool) /\ Placed(f, f.pool) /\ Told(f, F, O)
    BY <1>2
  <2>4. level \in Level /\ count \in 0 .. UIntMax
    BY <1>4, <1>6
  <2>5. /\ Sized(u.pool) /\ u.pool.level = level /\ u.pool.pkt_count = count
        /\ Placed(u, u.pool) /\ Told(u, F, O) /\ Taken(f, u, captured)
    BY <1>7, <2>1, <2>2, <2>3, <2>4, MovedIsSound
  <2>6. m = SeqLen[level]
    BY <2>5 DEF Sized
  <2> HIDE DEF n, m
  <2>7. m \in Nat \ {0} /\ n < m
    BY <1>1, <1>4, <2>1, <2>4, <2>6, SeqLenGrows
  <2> QED
    BY <2>5, <2>7
<1>9. /\ u.total_packets = total
      /\ \A r : r \in Fed(u, pkt) <=> r \in Fed(f, pkt)
      /\ \A a : a \in Offered(u, pkt) <=> a \in Offered(f, pkt)
  <2>1. /\ u.total_packets = f.total_packets /\ u.seen = f.seen
        /\ u.has_last_payload_len = f.has_last_payload_len
    BY <1>7 DEF Moved
  <2> QED
    BY <2>1 DEF Fed, Offered
<1> HIDE DEF n, total, level, count, pool, m
<1>10. Grown(u, pkt, F, O, F2, O2)
  BY <1>9 DEF Grown, total
<1>11. u.total_packets < MaxPackets /\ u.pool.seq_len \in Nat \ {0}
  BY <1>1, <1>8, <1>9 DEF m
<1>12. /\ Placed(g, u.pool) /\ g.total_packets = total + 1 /\ g.pool = u.pool
  BY <1>8, <1>9, <1>11, ProcessedPlaced, ProcessedFields
<1>13. Told(g, F2, O2)
  BY <1>8, <1>10, <1>11, ProcessedTold
<1>14. S2 \in BOOLEAN /\ (~S2 => ~S /\ RingsLost(f, captured) = {})
  BY <1>2
<1>15. ~S2 => Entire(g, m, F2, O2)
  <2> SUFFICES ASSUME ~S2 PROVE Entire(g, m, F2, O2)
    OBVIOUS
  <2>1. /\ Entire(f, n, F, O) /\ RingsLost(f, captured) = {}
        /\ f.total_packets <= n /\ n <= m /\ f.pool.seq_len = n
    BY <1>1, <1>2, <1>5, <1>8, <1>14 DEF n, total
  <2>2. Entire(u, m, F, O)
    BY <1>1, <1>2, <1>7, <1>8, <2>1, MovedIsWhole
  <2> QED
    BY <1>8, <1>10, <1>11, <2>2, ProcessedWhole DEF m
<1>16. Ahead(g, S2)
  <2>1. ~S2 => total + 1 < m
    BY <1>1, <1>5, <1>8, <1>14
  <2> QED
    BY <1>6, <1>8, <1>12, <2>1 DEF Ahead, m
<1>17. BlocksAfterUpgrade(held, f.pool.level) = {level}
  BY <1>1, <1>2 DEF BlocksAfterUpgrade, level
<1> QED
  BY <1>8, <1>12, <1>13, <1>14, <1>15, <1>16, <1>17 DEF SoundFlow, m

LEMMA UpdateIsSound ==
  ASSUME NEW f, NEW held, NEW pkt,
         SoundFlow(f, held, fed, offered, starved), Update(f, held, pkt)
  PROVE  SoundFlow(flow', blocks', fed', offered', starved') /\ verdict' = "GIVEME"
<1> DEFINE c == CheckUpgrade(f.pool)
<1>1. f.total_packets < MaxPackets
  BY DEF Update
<1>2. Grown(f, pkt, fed, offered, fed', offered')
  BY DEF Update, Grown
<1>3. verdict' = "GIVEME"
  BY DEF Update
<1>4. CASE /\ flow' = Processed(f, c, pkt)
           /\ blocks' = held
           /\ starved' = (starved \/ UpgradeDue(c))
  <2> HIDE DEF c
  <2>1. c = CheckUpgrade(f.pool)
    BY DEF c
  <2>2. SoundFlow(flow', held, fed', offered', starved')
    BY <1>1, <1>2, <1>4, <2>1, StayedIsSound
  <2> QED
    BY <1>3, <1>4, <2>2
<1>5. CASE /\ UpgradeDue(c)
           /\ \E captured \in SUBSET Rings :
                /\ LET up == Upgraded(f, c, captured)
                   IN  flow' = Processed(up, up.pool, pkt)
                /\ starved' = (starved \/ RingsLost(f, captured) # {})
           /\ blocks' = BlocksAfterUpgrade(held, f.pool.level)
  <2> HIDE DEF c
  <2>1. c = CheckUpgrade(f.pool)
    BY DEF c
  <2>2. PICK captured \in SUBSET Rings :
          /\ flow' = Processed(Upgraded(f, c, captured),
                               Upgraded(f, c, captured).pool, pkt)
          /\ starved' = (starved \/ RingsLost(f, captured) # {})
    BY <1>5
  <2> DEFINE u == Upgraded(f, c, captured)
  <2>3. u = Upgraded(f, c, captured) /\ flow' = Processed(u, u.pool, pkt)
    BY <2>2
  <2> HIDE DEF u
  <2>4. SoundFlow(flow', BlocksAfterUpgrade(held, f.pool.level), fed', offered', starved')
    <3>1. UpgradeDue(c)
      BY <1>5
    <3>2. starved' = (starved \/ RingsLost(f, captured) # {})
      BY <2>2
    <3> DEFINE s2 == starved'
    <3>3. s2 = (starved \/ RingsLost(f, captured) # {})
      BY <3>2
    <3> HIDE DEF s2
    <3>4. SoundFlow(flow', BlocksAfterUpgrade(held, f.pool.level), fed', offered', s2)
      BY <1>1, <1>2, <2>1, <2>3, <3>1, <3>3, UpgradedIsSound
    <3> QED
      BY <3>4 DEF s2
  <2> QED
    BY <1>3, <1>5, <2>4
<1> QED
  BY <1>4, <1>5 DEF Update
-----------------------------------------------------------------------------
(* The invariant is inductive.                                             *)
LEMMA InvInit == Init => FlowInv
<1> SUFFICES ASSUME Init PROVE FlowInv
  OBVIOUS
<1>1. ~HasState
  BY DEF Init, HasState, NoFlow, NoPool
<1> QED
  BY <1>1 DEF Init, FlowInv

LEMMA InvOpen ==
  ASSUME FlowInv, NEW pkt \in Packets, Open(pkt)
  PROVE  FlowInv'
<1>1. /\ ~HasState /\ verdict = "GIVEME"
      /\ Update(NewFlow, blocks \cup {Tiny}, pkt)
      /\ heap' = heap \cup {Mallocs[i] : i \in 1 .. Len(Mallocs)}
  BY DEF Open
<1>2. /\ heap = {} /\ blocks = {} /\ starved = FALSE
      /\ fed = [r \in Rings |-> << >>]
      /\ offered = [a \in DirArray |-> << >>]
  BY <1>1 DEF FlowInv
<1>3. heap' = {"state", "first_n_lens", "mem_pool"}
  <2>1. 1 .. Len(Mallocs) = {1, 2, 3}
    BY DEF Mallocs
  <2>2. Mallocs[1] = "state" /\ Mallocs[2] = "first_n_lens" /\ Mallocs[3] = "mem_pool"
    BY DEF Mallocs
  <2> QED
    BY <1>1, <1>2, <2>1, <2>2
<1>4. SoundFlow(NewFlow, {Tiny}, fed, offered, FALSE)
  BY <1>2, NewFlowIsSound
<1>5. blocks \cup {Tiny} = {Tiny}
  BY <1>2
<1>6. SoundFlow(flow', blocks', fed', offered', starved') /\ verdict' = "GIVEME"
  BY <1>1, <1>2, <1>4, <1>5, UpdateIsSound
<1>7. HasState'
  BY <1>6 DEF HasState, SoundFlow, Sized
<1> QED
  BY <1>3, <1>6, <1>7 DEF FlowInv

LEMMA InvData ==
  ASSUME FlowInv, NEW pkt \in Packets, Data(pkt)
  PROVE  FlowInv'
<1>1. HasState /\ Update(flow, blocks, pkt) /\ heap' = heap
  BY DEF Data
<1>2. /\ SoundFlow(flow, blocks, fed, offered, starved)
      /\ heap = {"state", "first_n_lens", "mem_pool"}
  BY <1>1 DEF FlowInv
<1>3. SoundFlow(flow', blocks', fed', offered', starved') /\ verdict' = "GIVEME"
  BY <1>1, <1>2, UpdateIsSound
<1>4. HasState'
  BY <1>3 DEF HasState, SoundFlow, Sized
<1> QED
  BY <1>1, <1>2, <1>3, <1>4 DEF FlowInv

LEMMA InvOpenFails ==
  ASSUME FlowInv, OpenFails
  PROVE  FlowInv'
<1>1. /\ ~HasState /\ verdict' = "DROPME"
      /\ flow' = flow /\ blocks' = blocks
  BY DEF OpenFails
<1>2. heap = {} /\ blocks = {}
  BY <1>1 DEF FlowInv
<1>3. heap' = {}
  <2>1. PICK got \in 0 .. Len(Mallocs) :
          heap' = heap \cup ({Mallocs[i] : i \in 1 .. got} \ CleanedUp)
    BY DEF OpenFails
  <2>2. got \in 0 .. 3
    BY DEF Mallocs
  <2>3. \A i \in 1 .. got : i = 1 \/ i = 2 \/ i = 3
    BY <2>2
  <2>4. Mallocs[1] = "state" /\ Mallocs[2] = "first_n_lens" /\ Mallocs[3] = "mem_pool"
    BY DEF Mallocs
  <2>5. \A i \in 1 .. got : Mallocs[i] \in CleanedUp
    BY <2>3, <2>4 DEF CleanedUp
  <2> QED
    BY <1>2, <2>1, <2>5
<1>4. ~HasState'
  BY <1>1 DEF HasState
<1> QED
  BY <1>1, <1>2, <1>3, <1>4 DEF FlowInv

LEMMA InvClose ==
  ASSUME FlowInv, Close
  PROVE  FlowInv'
<1>1. /\ HasState /\ flow' = NoFlow /\ heap' = heap \ Closed
      /\ blocks' = blocks \ {flow.pool.level} /\ verdict' = "DROPME"
  BY DEF Close
<1>2. /\ blocks = {flow.pool.level}
      /\ heap = {"state", "first_n_lens", "mem_pool"}
  BY <1>1 DEF FlowInv, SoundFlow
<1>3. heap' = {} /\ blocks' = {}
  BY <1>1, <1>2 DEF Closed
<1>4. ~HasState'
  BY <1>1 DEF HasState, NoFlow, NoPool
<1> QED
  BY <1>1, <1>3, <1>4 DEF FlowInv

LEMMA InvNext == FlowInv /\ [Next]_vars => FlowInv'
<1> SUFFICES ASSUME FlowInv, [Next]_vars
             PROVE  FlowInv'
  OBVIOUS
<1>1. ASSUME NEW pkt \in Packets, Open(pkt)
      PROVE  FlowInv'
  BY <1>1, InvOpen
<1>2. ASSUME NEW pkt \in Packets, Data(pkt)
      PROVE  FlowInv'
  BY <1>2, InvData
<1>3. CASE OpenFails
  BY <1>3, InvOpenFails
<1>4. CASE Unknown
  BY <1>4 DEF Unknown, vars, FlowInv, HasState
<1>5. CASE Close
  BY <1>5, InvClose
<1>6. CASE UNCHANGED vars
  BY <1>6 DEF vars, FlowInv, HasState
<1> QED
  BY <1>1, <1>2, <1>3, <1>4, <1>5, <1>6 DEF Next

LEMMA SpecInv == Spec => []FlowInv
  BY InvInit, InvNext, PTL DEF Spec
-----------------------------------------------------------------------------
(* Between two calls the rings are well formed and as long as the pool     *)
(* says, and the direction arrays within their capacity and their block:   *)
(* what traffic_process and flow_state_compute_features index by.          *)
THEOREM FlowStaysWellFormed == Spec => []FlowWellFormed
<1>1. FlowInv => FlowWellFormed
  BY DEF FlowInv, SoundFlow, Sized, Pool, Placed, FlowWellFormed
<1> QED
  BY <1>1, SpecInv, PTL

(* Whatever mallocs fail, no array, ring or temporary pointer of a flow    *)
(* is left in a block flow_mem_pool_upgrade has freed.                     *)
THEOREM NoPointerDangles == Spec => []NoDanglingPointer
<1>1. FlowInv => NoDanglingPointer
  BY DEF FlowInv, SoundFlow, Placed, NoDanglingPointer
<1> QED
  BY <1>1, SpecInv, PTL

(* Failed starts, failed upgrades and CLOSE leak nothing, and a flow that  *)
(* has a state is never dropped by traffic_process before CLOSE.           *)
THEOREM NoMemoryLeaks == Spec => []NothingLeaks
<1>1. FlowInv => NothingLeaks
  BY DEF FlowInv, SoundFlow, NothingLeaks
<1> QED
  BY <1>1, SpecInv, PTL

(* Through any number of wraps, upgrades, failed upgrades and lost         *)
(* snapshots, a ring shows the newest packets pushed to it, gapless and    *)
(* in order.                                                               *)
THEOREM RingsStayNewest == Spec => []RingsShowNewest
<1>1. FlowInv => RingsShowNewest
  BY DEF FlowInv, SoundFlow, Told, RingsShowNewest
<1> QED
  BY <1>1, SpecInv, PTL

(* Growing a flow's block on demand shows in none of its sequences: while  *)
(* no upgrade has been denied memory they hold what sequences of the       *)
(* largest level would hold.                                               *)
THEOREM TiersAreTransparent == Spec => []TieringIsTransparent
<1>1. FlowInv => TieringIsTransparent
  <2> SUFFICES ASSUME FlowInv, HasState, ~starved
               PROVE  /\ \A r \in Rings :
                           Contents(flow.ring[r]) = Newest(fed[r], SeqLen[Large])
                      /\ \A a \in DirArray :
                           flow.stored[a] = Oldest(offered[a], SeqLen[Large])
    BY DEF TieringIsTransparent
  <2> DEFINE n == flow.pool.seq_len
             large == SeqLen[Large]
             total == flow.total_packets
  <2>1. SoundFlow(flow, blocks, fed, offered, starved)
    BY DEF FlowInv
  <2>2. /\ flow.pool.level \in Level /\ n = SeqLen[flow.pool.level]
        /\ n \in Nat \ {0} /\ total \in Nat
    BY <2>1, SoundCounts
  <2>3. /\ Placed(flow, flow.pool) /\ Told(flow, fed, offered)
        /\ Entire(flow, n, fed, offered) /\ Ahead(flow, starved)
    BY <2>1 DEF SoundFlow
  <2>4. large \in Nat \ {0} /\ n <= large
    <3>1. SeqLen[0] < SeqLen[1] /\ SeqLen[1] < SeqLen[2] /\ SeqLen[2] < SeqLen[3]
      BY SeqLenGrows DEF Level, Tiny, Large
    <3>2. flow.pool.level \in {0, 1, 2, 3} /\ large = SeqLen[3]
      BY <2>2 DEF Level, Tiny, Large
    <3>3. /\ SeqLen[0] \in Nat \ {0} /\ SeqLen[1] \in Nat \ {0}
          /\ SeqLen[2] \in Nat \ {0} /\ SeqLen[3] \in Nat \ {0}
      BY SeqLenGrows DEF Level, Tiny, Large
    <3> QED
      BY <2>2, <3>1, <3>2, <3>3
  <2>5. n = large \/ total < n
    <3>1. CASE flow.pool.level < Large
      BY <2>3, <3>1 DEF Ahead
    <3>2. CASE ~(flow.pool.level < Large)
      <4>1. flow.pool.level = Large
        BY <2>2, <3>2 DEF Level, Tiny, Large
      <4> QED
        BY <2>2, <4>1
    <3> QED
      BY <3>1, <3>2
  <2>6. ASSUME NEW s \in Seq(Value), Len(s) <= total
        PROVE  Longest(s, n) = Longest(s, large) /\ Oldest(s, n) = Oldest(s, large)
    <3> HIDE DEF n, large, total
    <3>1. Len(s) \in Nat
      OBVIOUS
    <3>2. CASE n = large
      BY <3>2
    <3>3. CASE total < n
      <4>1. Len(s) <= n /\ Len(s) <= large
        BY <2>2, <2>4, <2>6, <3>1, <3>3
      <4> QED
        BY <4>1 DEF Longest, Oldest
    <3> QED
      BY <2>5, <3>2, <3>3
  <2>7. ASSUME NEW r \in Rings
        PROVE  Contents(flow.ring[r]) = Newest(fed[r], large)
    <3> DEFINE cb == flow.ring[r]
               s == fed[r]
               t == Contents(cb)
    <3>1. /\ WellFormed(cb) /\ s \in Seq(Value) /\ Len(s) <= total
          /\ EndsWith(s, t) /\ Len(t) = Longest(s, n)
      BY <2>3 DEF Placed, Told, Entire
    <3>2. t \in Seq(Value)
      BY <3>1, ContentsType
    <3> HIDE DEF cb, s, t, n, large, total
    <3>3. Len(t) = IF Len(s) <= large THEN Len(s) ELSE large
      BY <2>6, <3>1 DEF Longest
    <3>4. t = Newest(s, large)
      BY <2>4, <3>1, <3>2, <3>3, LongestEnd
    <3> QED
      BY <3>4 DEF cb, s, t
  <2>8. ASSUME NEW a \in DirArray
        PROVE  flow.stored[a] = Oldest(offered[a], large)
    BY <2>3, <2>6 DEF Told, Entire
  <2> QED
    BY <2>7, <2>8
<1> QED
  BY <1>1, SpecInv, PTL
=============================================================================

----------------------------- MODULE UtilsProofs -----------------------------
(***************************************************************************)
(* Facts about the operators of the two modules of src/src/utils: the ring *)
(* buffer's, for every element type, every capacity and every well-formed  *)
(* buffer; and the memory pool's layout, which is sound at every level,    *)
(* for every length of a level, number of windows and of response delays.  *)
(* Then what the proofs share about sums, ranks and folds; the ranking of  *)
(* frequencies and their magnitudes; exact fractions; sorting, quartiles   *)
(* and running moments; bags; and means between the extremes of a sample.  *)
(***************************************************************************)
EXTENDS CircularBuffer, MemoryPool, Spectrum, SequenceTheorems, FiniteSetTheorems,
        WellFoundedInduction, TLAPS

(* Advancing a cursor by one slot, and reading past the end of the storage *)
(* (tail + i) % capacity, wrap at most once.                               *)
LEMMA Wrap ==
  ASSUME NEW c \in Nat \ {0}, NEW a \in Nat, a < c + c
  PROVE  /\ a < c => a % c = a
         /\ a >= c => a % c = a - c
         /\ a % c \in 0 .. c - 1
<1>1. ASSUME a < c PROVE a % c = a
  BY <1>1
<1>2. ASSUME a >= c PROVE a % c = a - c
  BY <1>2
<1>3. a % c \in 0 .. c - 1
  OBVIOUS
<1> QED
  BY <1>1, <1>2, <1>3

(* The slot of a readable element exists.                                  *)
LEMMA SlotInRange ==
  ASSUME NEW cb, WellFormed(cb), NEW i \in 0 .. cb.count - 1
  PROVE  SlotOf(cb, i) \in Slots(cb.capacity)
<1>1. cb.capacity \in Nat \ {0} /\ cb.tail \in Nat /\ cb.count \in 0 .. cb.capacity
  BY DEF WellFormed, IsBuffer
<1>2. CASE cb.is_full
  <2>1. cb.tail + i \in Nat /\ cb.tail + i < cb.capacity + cb.capacity
    BY <1>1 DEF WellFormed, HasStorage
  <2> QED
    BY <1>1, <1>2, <2>1, Wrap DEF SlotOf, Slots
<1>3. CASE ~cb.is_full
  BY <1>1, <1>3 DEF SlotOf, Slots
<1> QED
  BY <1>2, <1>3

(* The contents are a sequence of values, as long as count says.           *)
LEMMA ContentsType ==
  ASSUME NEW cb, WellFormed(cb)
  PROVE  /\ Contents(cb) \in Seq(Value)
         /\ Len(Contents(cb)) = cb.count
         /\ \A i \in 1 .. cb.count :
              Contents(cb)[i] = cb.data[SlotOf(cb, i - 1)]
<1>1. cb.count \in Nat
  BY DEF WellFormed, IsBuffer
<1>2. \A i \in 1 .. cb.count : cb.data[SlotOf(cb, i - 1)] \in Value
  BY DEF WellFormed, Contents
<1>3. Contents(cb) \in [1 .. cb.count -> Value]
  BY <1>2 DEF Contents
<1>4. Contents(cb) \in Seq(Value)
  BY <1>1, <1>3, SeqDef
<1>5. Len(Contents(cb)) = cb.count
  BY <1>1, <1>4, LenProperties DEF Contents
<1> QED
  BY <1>4, <1>5 DEF Contents

(* A buffer bound to fresh storage is well formed and empty.               *)
LEMMA FreshIsWellFormed ==
  ASSUME NEW n \in Nat
  PROVE  WellFormed(Fresh(n)) /\ Contents(Fresh(n)) = << >>
<1>1. IsBuffer(Fresh(n))
  BY DEF IsBuffer, Fresh, Slots
<1>2. Fresh(n).count = 0
  BY DEF Fresh
<1>3. WellFormed(Fresh(n))
  BY <1>1, <1>2 DEF WellFormed, Fresh, HasStorage
<1>4. Contents(Fresh(n)) \in Seq(Value) /\ Len(Contents(Fresh(n))) = 0
  BY <1>2, <1>3, ContentsType
<1> QED
  BY <1>3, <1>4, EmptySeq

(* Clearing a well-formed buffer.                                          *)
LEMMA ClearIsWellFormed ==
  ASSUME NEW cb, WellFormed(cb)
  PROVE  WellFormed(Clear(cb)) /\ Contents(Clear(cb)) = << >>
                               /\ Clear(cb).capacity = cb.capacity
<1>1. IsBuffer(Clear(cb))
  BY DEF WellFormed, IsBuffer, Clear
<1>2. WellFormed(Clear(cb))
  BY <1>1 DEF WellFormed, HasStorage, IsBuffer, Clear
<1>3. Contents(Clear(cb)) \in Seq(Value) /\ Len(Contents(Clear(cb))) = 0
  BY <1>2, ContentsType DEF Clear
<1> QED
  BY <1>2, <1>3, EmptySeq DEF Clear
LEMMA WrapSum ==
  ASSUME NEW c \in Nat \ {0}, NEW a \in 0 .. c - 1, NEW b \in 0 .. c - 1
  PROVE  /\ a + b < c => (a + b) % c = a + b
         /\ a + b >= c => (a + b) % c = a + b - c
<1>1. ASSUME a + b < c PROVE (a + b) % c = a + b
  BY <1>1
<1>2. ASSUME a + b >= c PROVE (a + b) % c = a + b - c
  BY <1>2
<1> QED
  BY <1>1, <1>2

(* Advancing a cursor by one slot.                                         *)
LEMMA Advance ==
  ASSUME NEW c \in Nat \ {0}, NEW a \in 0 .. c - 1
  PROVE  /\ a + 1 = c => (a + 1) % c = 0
         /\ a + 1 # c => (a + 1) % c = a + 1
<1>1. ASSUME a + 1 = c PROVE (a + 1) % c = 0
  BY <1>1
<1>2. ASSUME a + 1 # c PROVE (a + 1) % c = a + 1
  BY <1>2
<1> QED
  BY <1>1, <1>2

(* The cursors after a push.                                               *)
LEMMA PushCursors ==
  ASSUME NEW cb, WellFormed(cb), HasStorage(cb), NEW v \in Value,
         NEW p, p = Pushed(cb, v)
  PROVE  /\ IsBuffer(p)
         /\ HasStorage(p)
         /\ p.head < p.capacity
         /\ p.tail < p.capacity
         /\ p.is_full <=> p.count = p.capacity
         /\ p.is_full => p.head = p.tail
         /\ ~p.is_full => p.head = p.count /\ p.tail = 0
<1>1. /\ cb.capacity \in Nat \ {0}
      /\ cb.count \in 0 .. cb.capacity
      /\ cb.head \in 0 .. cb.capacity - 1
      /\ cb.tail \in 0 .. cb.capacity - 1
      /\ cb.is_full \in BOOLEAN
      /\ cb.is_full <=> cb.count = cb.capacity
      /\ cb.is_full => cb.head = cb.tail
      /\ ~cb.is_full => cb.head = cb.count /\ cb.tail = 0
      /\ cb.data \in [Slots(cb.capacity) -> Value \cup {Junk}]
  BY DEF WellFormed, IsBuffer, HasStorage
<1>2. /\ p.capacity = cb.capacity
      /\ p.data = [cb.data EXCEPT ![cb.head] = v]
      /\ p.count = IF cb.is_full THEN cb.count ELSE cb.count + 1
      /\ p.head = (cb.head + 1) % cb.capacity
      /\ p.tail = IF cb.is_full THEN (cb.tail + 1) % cb.capacity ELSE cb.tail
      /\ p.is_full = (cb.is_full \/ p.count = cb.capacity)
      /\ p = [ capacity |-> p.capacity, data |-> p.data, count |-> p.count,
               head |-> p.head, tail |-> p.tail, is_full |-> p.is_full ]
  BY DEF Pushed
<1>3. p.data \in [Slots(p.capacity) -> Value \cup {Junk}]
  BY <1>1, <1>2
<1>4. /\ p.is_full \in BOOLEAN
      /\ p.is_full <=> (cb.is_full \/ p.count = cb.capacity)
  BY <1>2
<1>5. /\ cb.head + 1 = cb.capacity => (cb.head + 1) % cb.capacity = 0
      /\ cb.head + 1 # cb.capacity => (cb.head + 1) % cb.capacity = cb.head + 1
      /\ cb.tail + 1 = cb.capacity => (cb.tail + 1) % cb.capacity = 0
      /\ cb.tail + 1 # cb.capacity => (cb.tail + 1) % cb.capacity = cb.tail + 1
  BY <1>1, Advance
<1>6. CASE cb.is_full
  <2>1. p.count = cb.capacity /\ p.is_full
    BY <1>1, <1>2, <1>4, <1>6
  <2>2. p.head = p.tail /\ p.head \in 0 .. cb.capacity - 1
    BY <1>1, <1>2, <1>5, <1>6
  <2> QED
    BY <1>1, <1>2, <1>3, <2>1, <2>2 DEF IsBuffer, HasStorage
<1>7. CASE ~cb.is_full
  <2>1. /\ p.count = cb.count + 1
        /\ p.count \in 0 .. cb.capacity
        /\ p.is_full <=> p.count = cb.capacity
    BY <1>1, <1>2, <1>4, <1>7
  <2>2. p.tail = 0 /\ p.head \in 0 .. cb.capacity - 1
    BY <1>1, <1>2, <1>5, <1>7
  <2>3. /\ p.is_full => p.head = p.tail
        /\ ~p.is_full => p.head = p.count
    BY <1>1, <1>2, <1>5, <1>7, <2>1, <2>2
  <2> QED
    BY <1>1, <1>2, <1>3, <1>4, <2>1, <2>2, <2>3 DEF IsBuffer, HasStorage
<1> QED
  BY <1>1, <1>6, <1>7

(* The slot of each readable element after a push.                         *)
LEMMA PushSlots ==
  ASSUME NEW cb, WellFormed(cb), HasStorage(cb), NEW v \in Value,
         NEW p, p = Pushed(cb, v), NEW i \in 0 .. p.count - 1
  PROVE  /\ i = p.count - 1 => SlotOf(p, i) = cb.head
         /\ i # p.count - 1 /\ cb.is_full =>
              SlotOf(p, i) = SlotOf(cb, i + 1) /\ SlotOf(p, i) # cb.head
         /\ i # p.count - 1 /\ ~cb.is_full =>
              SlotOf(p, i) = SlotOf(cb, i) /\ SlotOf(p, i) # cb.head
<1>1. /\ cb.capacity \in Nat \ {0}
      /\ cb.count \in 0 .. cb.capacity
      /\ cb.tail \in 0 .. cb.capacity - 1
      /\ cb.is_full \in BOOLEAN
      /\ cb.is_full <=> cb.count = cb.capacity
      /\ cb.is_full => cb.head = cb.tail
      /\ ~cb.is_full => cb.head = cb.count /\ cb.tail = 0
  BY DEF WellFormed, IsBuffer, HasStorage
<1>2. /\ p.capacity = cb.capacity
      /\ p.count = IF cb.is_full THEN cb.count ELSE cb.count + 1
      /\ p.tail = IF cb.is_full THEN (cb.tail + 1) % cb.capacity ELSE cb.tail
      /\ p.is_full = (cb.is_full \/ p.count = cb.capacity)
  BY DEF Pushed
<1>3. p.is_full <=> (cb.is_full \/ p.count = cb.capacity)
  BY <1>2
<1> DEFINE c == cb.capacity
           pt == p.tail
           ct == cb.tail
           j == i + 1
<1>4. CASE cb.is_full
  <2>1. /\ p.is_full
        /\ p.count = cb.capacity
        /\ i \in 0 .. cb.capacity - 1
        /\ p.tail = IF cb.tail + 1 = cb.capacity THEN 0 ELSE cb.tail + 1
    BY <1>1, <1>2, <1>3, <1>4, Advance
  <2>2. /\ SlotOf(p, i) = (pt + i) % c
        /\ SlotOf(cb, i + 1) = (ct + j) % c
    BY <1>2, <1>4, <2>1 DEF SlotOf
  <2>3. /\ c \in Nat \ {0}
        /\ pt \in 0 .. c - 1
        /\ ct \in 0 .. c - 1
        /\ i \in 0 .. c - 1
        /\ j = i + 1
        /\ pt = IF ct + 1 = c THEN 0 ELSE ct + 1
    BY <1>1, <2>1
  <2>4. cb.head = ct /\ p.count = c
    BY <1>1, <1>4, <2>1
  <2> HIDE DEF c, pt, ct, j
  <2>5. /\ pt + i < c => (pt + i) % c = pt + i
        /\ pt + i >= c => (pt + i) % c = pt + i - c
    BY <2>3, WrapSum
  <2>6. ASSUME j < c
        PROVE  /\ ct + j < c => (ct + j) % c = ct + j
               /\ ct + j >= c => (ct + j) % c = ct + j - c
    <3>1. j \in 0 .. c - 1
      BY <2>3, <2>6
    <3> QED
      BY <2>3, <3>1, WrapSum
  <2>7. i = c - 1 => SlotOf(p, i) = ct
    BY <2>2, <2>3, <2>5
  <2>8. i # c - 1 => SlotOf(p, i) = SlotOf(cb, i + 1) /\ SlotOf(p, i) # ct
    BY <2>2, <2>3, <2>5, <2>6
  <2> QED
    BY <1>4, <2>4, <2>7, <2>8
<1>5. CASE ~cb.is_full
  <2>1. /\ pt = 0
        /\ p.count = cb.count + 1
        /\ i \in 0 .. cb.count
        /\ cb.count + 1 <= c
        /\ c \in Nat \ {0}
    BY <1>1, <1>2, <1>5
  <2>2. SlotOf(p, i) = IF p.is_full THEN (pt + i) % c ELSE i
    BY <1>2 DEF SlotOf
  <2>3. i \in 0 .. c - 1 /\ pt \in 0 .. c - 1 /\ pt + i < c
    BY <1>1, <2>1
  <2>4. (pt + i) % c = i
    <3> HIDE DEF c, pt
    <3>1. (pt + i) % c = pt + i
      BY <2>1, <2>3, WrapSum
    <3> QED
      BY <2>1, <2>3, <3>1
  <2>5. SlotOf(p, i) = i
    BY <2>2, <2>4
  <2> QED
    BY <1>1, <1>5, <2>1, <2>5 DEF SlotOf
<1> QED
  BY <1>1, <1>4, <1>5
(* What a push does to the sequence a reader sees, slot by slot.           *)
LEMMA PushElements ==
  ASSUME NEW cb, WellFormed(cb), HasStorage(cb), NEW v \in Value,
         NEW p, p = Pushed(cb, v), NEW k \in 1 .. p.count
  PROVE  p.data[SlotOf(p, k - 1)] =
           IF k = p.count THEN v
           ELSE IF cb.is_full THEN Contents(cb)[k + 1] ELSE Contents(cb)[k]
<1>1. /\ cb.capacity \in Nat \ {0}
      /\ cb.count \in 0 .. cb.capacity
      /\ cb.is_full <=> cb.count = cb.capacity
      /\ cb.head \in Slots(cb.capacity)
      /\ cb.data \in [Slots(cb.capacity) -> Value \cup {Junk}]
  BY DEF WellFormed, IsBuffer, HasStorage, Slots
<1>2. /\ p.data = [cb.data EXCEPT ![cb.head] = v]
      /\ p.count = IF cb.is_full THEN cb.count ELSE cb.count + 1
  BY DEF Pushed
<1> DEFINE i == k - 1
<1>3. i \in 0 .. p.count - 1 /\ p.count \in Nat /\ k = i + 1
  BY <1>1, <1>2
<1>4. CASE k = p.count
  <2>1. SlotOf(p, i) = cb.head
    <3>1. i = p.count - 1
      BY <1>3, <1>4
    <3> HIDE DEF i
    <3> QED
      BY <1>3, <3>1, PushSlots
  <2> QED
    BY <1>1, <1>2, <1>4, <2>1
<1>5. CASE k # p.count /\ cb.is_full
  <2>1. k + 1 \in 1 .. cb.count /\ i # p.count - 1
    BY <1>1, <1>2, <1>3, <1>5
  <2>2. SlotOf(p, i) = SlotOf(cb, i + 1) /\ SlotOf(p, i) # cb.head
    <3> HIDE DEF i
    <3> QED
      BY <1>3, <1>5, <2>1, PushSlots
  <2>3. SlotOf(cb, k) \in Slots(cb.capacity)
    <3>1. k \in 0 .. cb.count - 1
      BY <1>1, <1>2, <1>3, <1>5
    <3> QED
      BY <3>1, SlotInRange
  <2>4. Contents(cb)[k + 1] = cb.data[SlotOf(cb, k)]
    <3>1. Contents(cb)[k + 1] = cb.data[SlotOf(cb, (k + 1) - 1)]
      BY <2>1, ContentsType
    <3>2. (k + 1) - 1 = k
      BY <1>3
    <3> QED
      BY <3>1, <3>2
  <2>5. p.data[SlotOf(p, i)] = cb.data[SlotOf(cb, k)]
    BY <1>1, <1>2, <1>3, <2>2, <2>3
  <2> QED
    BY <1>5, <2>4, <2>5
<1>6. CASE k # p.count /\ ~cb.is_full
  <2>1. k \in 1 .. cb.count /\ i # p.count - 1 /\ i \in 0 .. cb.count - 1
    BY <1>1, <1>2, <1>3, <1>6
  <2>2. SlotOf(p, i) = SlotOf(cb, i) /\ SlotOf(p, i) # cb.head
    <3> HIDE DEF i
    <3> QED
      BY <1>3, <1>6, <2>1, PushSlots
  <2>3. SlotOf(cb, i) \in Slots(cb.capacity)
    <3> HIDE DEF i
    <3> QED
      BY <2>1, SlotInRange
  <2>4. Contents(cb)[k] = cb.data[SlotOf(cb, i)]
    BY <2>1, ContentsType
  <2>5. p.data[SlotOf(p, i)] = cb.data[SlotOf(cb, i)]
    BY <1>1, <1>2, <2>2, <2>3
  <2> QED
    BY <1>6, <2>4, <2>5
<1> QED
  BY <1>4, <1>5, <1>6

(* A push keeps a buffer well formed.                                      *)
LEMMA PushIsWellFormed ==
  ASSUME NEW cb, WellFormed(cb), NEW v \in Value
  PROVE  WellFormed(Push(cb, v)) /\ Push(cb, v).capacity = cb.capacity
<1>1. CASE ~HasStorage(cb)
  BY <1>1 DEF Push
<1>2. CASE HasStorage(cb)
  <2> DEFINE p == Pushed(cb, v)
  <2>1. Push(cb, v) = p
    BY <1>2 DEF Push, WellFormed, IsBuffer
  <2>2. p.capacity = cb.capacity /\ p.count \in Nat
    BY DEF Pushed, WellFormed, IsBuffer
  <2>3. p = Pushed(cb, v)
    OBVIOUS
  <2> HIDE DEF p
  <2>4. /\ IsBuffer(p)
        /\ HasStorage(p)
        /\ p.head < p.capacity
        /\ p.tail < p.capacity
        /\ p.is_full <=> p.count = p.capacity
        /\ p.is_full => p.head = p.tail
        /\ ~p.is_full => p.head = p.count /\ p.tail = 0
    BY <1>2, <2>3, PushCursors
  <2>5. \A k \in 1 .. p.count : Contents(p)[k] \in Value
    <3> SUFFICES ASSUME NEW k \in 1 .. p.count
                 PROVE  Contents(p)[k] \in Value
      OBVIOUS
    <3>1. Contents(p)[k] = p.data[SlotOf(p, k - 1)]
      BY DEF Contents
    <3>2. Contents(p)[k] =
            IF k = p.count THEN v
            ELSE IF cb.is_full THEN Contents(cb)[k + 1] ELSE Contents(cb)[k]
      BY <1>2, <2>3, <3>1, PushElements
    <3>3. /\ k # p.count /\ cb.is_full => k + 1 \in 1 .. cb.count
          /\ k # p.count /\ ~cb.is_full => k \in 1 .. cb.count
      BY <2>2, <2>3 DEF Pushed, WellFormed, IsBuffer
    <3> QED
      BY <3>2, <3>3 DEF WellFormed
  <2> QED
    BY <2>1, <2>2, <2>4, <2>5 DEF WellFormed
<1> QED
  BY <1>1, <1>2

(* A push on a full buffer drops exactly the oldest element; on any other  *)
(* it only appends.                                                        *)
LEMMA PushContents ==
  ASSUME NEW cb, WellFormed(cb), HasStorage(cb), NEW v \in Value
  PROVE  Contents(Push(cb, v)) =
           IF Len(Contents(cb)) = cb.capacity
             THEN Append(Tail(Contents(cb)), v)
             ELSE Append(Contents(cb), v)
<1> DEFINE p == Pushed(cb, v)
           s == Contents(cb)
<1>1. Push(cb, v) = p
  BY DEF Push, WellFormed, IsBuffer
<1>2. p = Pushed(cb, v) /\ WellFormed(p)
  BY <1>1, PushIsWellFormed
<1>3. /\ cb.capacity \in Nat \ {0}
      /\ cb.count \in 0 .. cb.capacity
      /\ cb.is_full <=> cb.count = cb.capacity
      /\ p.count = IF cb.is_full THEN cb.count ELSE cb.count + 1
  BY DEF Pushed, WellFormed, IsBuffer, HasStorage
<1> HIDE DEF p
<1>4. s \in Seq(Value) /\ Len(s) = cb.count
  BY ContentsType
<1>5. /\ Contents(p) \in Seq(Value)
      /\ Len(Contents(p)) = p.count
      /\ \A k \in 1 .. p.count : Contents(p)[k] =
            IF k = p.count THEN v
            ELSE IF cb.is_full THEN s[k + 1] ELSE s[k]
  <2>1. /\ Contents(p) \in Seq(Value) /\ Len(Contents(p)) = p.count
        /\ \A k \in 1 .. p.count : Contents(p)[k] = p.data[SlotOf(p, k - 1)]
    BY <1>2, ContentsType
  <2>2. \A k \in 1 .. p.count :
          p.data[SlotOf(p, k - 1)] =
            IF k = p.count THEN v
            ELSE IF cb.is_full THEN Contents(cb)[k + 1] ELSE Contents(cb)[k]
    BY <1>2, PushElements
  <2> QED BY <2>1, <2>2, Zenon
<1> HIDE DEF s
<1>6. CASE cb.is_full
  <2>1. /\ Tail(s) \in Seq(Value)
        /\ Len(Tail(s)) = Len(s) - 1
        /\ \A i \in 1 .. Len(Tail(s)) : Tail(s)[i] = s[i + 1]
    BY <1>3, <1>4, <1>6, EmptySeq, HeadTailProperties
  <2> DEFINE t == Append(Tail(s), v)
  <2>2. /\ t \in Seq(Value)
        /\ Len(t) = p.count
        /\ \A k \in 1 .. p.count : t[k] = IF k = p.count THEN v ELSE s[k + 1]
    BY <1>3, <1>4, <1>6, <2>1
  <2> HIDE DEF t
  <2>3. Contents(p) = t
    BY <1>5, <1>6, <2>2, SeqEqual
  <2> QED
    BY <1>1, <1>3, <1>4, <1>6, <2>3 DEF s, t
<1>7. CASE ~cb.is_full
  <2> DEFINE t == Append(s, v)
  <2>1. /\ t \in Seq(Value)
        /\ Len(t) = p.count
        /\ \A k \in 1 .. p.count : t[k] = IF k = p.count THEN v ELSE s[k]
    BY <1>3, <1>4, <1>7
  <2> HIDE DEF t
  <2>2. Contents(p) = t
    BY <1>5, <1>7, <2>1, SeqEqual
  <2> QED
    BY <1>1, <1>3, <1>4, <1>7, <2>2 DEF s, t
<1> QED
  BY <1>6, <1>7

(* A rebind keeps the whole snapshot, in order, when it fits.              *)
LEMMA RebindIsWellFormed ==
  ASSUME NEW cb, NEW n \in Nat \ {0}, NEW s \in Seq(Value), Len(s) <= n
  PROVE  /\ WellFormed(Rebind(cb, n, s))
         /\ Contents(Rebind(cb, n, s)) = s
         /\ Rebind(cb, n, s).capacity = n
<1> DEFINE r == Rebind(cb, n, s)
<1>1. Len(s) \in 0 .. n /\ \A i \in 1 .. Len(s) : s[i] \in Value
  BY ElementOfSeq
<1>2. Len(s) % n = IF Len(s) = n THEN 0 ELSE Len(s)
  <2> DEFINE m == Len(s)
  <2>1. m \in 0 .. n
    BY <1>1
  <2> HIDE DEF m
  <2>2. ASSUME m = n PROVE m % n = 0
    BY <2>1, <2>2
  <2>3. ASSUME m # n PROVE m % n = m
    BY <2>1, <2>3
  <2> QED
    BY <2>2, <2>3 DEF m
<1>3. /\ r.capacity = n
      /\ r.data = [i \in Slots(n) |-> IF i < Len(s) THEN s[i + 1] ELSE Junk]
      /\ r.count = Len(s)
      /\ r.head = Len(s) % n
      /\ r.tail = 0
      /\ r.is_full = (Len(s) = n)
      /\ r = [ capacity |-> r.capacity, data |-> r.data, count |-> r.count,
               head |-> r.head, tail |-> r.tail, is_full |-> r.is_full ]
  <2>1. (IF Len(s) < n THEN Len(s) ELSE n) = Len(s)
    BY <1>1
  <2>2. r = [ capacity |-> n,
              data     |-> [i \in Slots(n) |->
                              IF i < Len(s) THEN s[i + 1] ELSE Junk],
              count    |-> Len(s),
              head     |-> Len(s) % n,
              tail     |-> 0,
              is_full  |-> Len(s) = n ]
    BY <2>1, Zenon DEF Rebind
  <2> HIDE DEF r
  <2> QED
    BY <2>2
<1> HIDE DEF r
<1>4. r.is_full \in BOOLEAN /\ (r.is_full <=> Len(s) = n)
  BY <1>3
<1>5. r.data \in [Slots(n) -> Value \cup {Junk}]
  BY <1>1, <1>3 DEF Slots
<1>6. r.head \in 0 .. n - 1
  BY <1>1, <1>2, <1>3
<1>7. IsBuffer(r)
  BY <1>1, <1>3, <1>4, <1>5, <1>6 DEF IsBuffer
<1>8. \A i \in 1 .. r.count : SlotOf(r, i - 1) = i - 1
  <2> SUFFICES ASSUME NEW i \in 1 .. r.count
               PROVE  SlotOf(r, i - 1) = i - 1
    OBVIOUS
  <2> DEFINE j == i - 1
  <2>1. j \in 0 .. n - 1 /\ 0 \in 0 .. n - 1 /\ 0 + j = j
    BY <1>1, <1>3
  <2> HIDE DEF j
  <2>2. j % n = j
    BY <2>1
  <2> QED
    BY <1>3, <2>1, <2>2 DEF SlotOf, j
<1>9. \A i \in 1 .. r.count : Contents(r)[i] = s[i]
  BY <1>1, <1>3, <1>8 DEF Contents, Slots
<1>10. WellFormed(r)
  BY <1>1, <1>2, <1>3, <1>4, <1>6, <1>7, <1>9 DEF WellFormed, HasStorage
<1>11. Contents(r) = s
  BY <1>3, <1>9, <1>10, ContentsType, SeqEqual
<1> QED
  BY <1>3, <1>10, <1>11 DEF r
------------------------------------------------------------------------------
LEMMA RingNames ==
  Ring = { "pkt_len_seq", "iat_seq", "dir_seq", "ts_seq", "tcp_window_seq",
           "udp_len_seq", "ip_ttl_seq", "ip_tos_seq", "payload_size_seq",
           "payload_size_diff_seq", "l3_len_seq", "l4_len_seq",
           "payload_len_seq" }
  BY DEF Ring, RingElem

(* Where a ring's region begins, from the start of the ring storage.       *)
Begin(n, r) == RingOffset(n)[r]

(* Where the rings lie, in multiples of the level's length.                *)
Spans(n) ==
  /\ Begin(n, "pkt_len_seq") = 0 /\ RingEnd(n, "pkt_len_seq") = 4 * n
  /\ Begin(n, "iat_seq") = 4 * n /\ RingEnd(n, "iat_seq") = 12 * n
  /\ Begin(n, "dir_seq") = 12 * n /\ RingEnd(n, "dir_seq") = 13 * n
  /\ Begin(n, "ts_seq") = 13 * n /\ RingEnd(n, "ts_seq") = 21 * n
  /\ Begin(n, "tcp_window_seq") = 21 * n /\ RingEnd(n, "tcp_window_seq") = 25 * n
  /\ Begin(n, "udp_len_seq") = 25 * n /\ RingEnd(n, "udp_len_seq") = 29 * n
  /\ Begin(n, "ip_ttl_seq") = 29 * n /\ RingEnd(n, "ip_ttl_seq") = 33 * n
  /\ Begin(n, "ip_tos_seq") = 33 * n /\ RingEnd(n, "ip_tos_seq") = 37 * n
  /\ Begin(n, "payload_size_seq") = 37 * n /\ RingEnd(n, "payload_size_seq") = 41 * n
  /\ Begin(n, "payload_size_diff_seq") = 41 * n /\ RingEnd(n, "payload_size_diff_seq") = 45 * n
  /\ Begin(n, "l3_len_seq") = 45 * n /\ RingEnd(n, "l3_len_seq") = 49 * n
  /\ Begin(n, "l4_len_seq") = 49 * n /\ RingEnd(n, "l4_len_seq") = 53 * n
  /\ Begin(n, "payload_len_seq") = 53 * n /\ RingEnd(n, "payload_len_seq") = 57 * n

LEMMA RingSpans ==
  ASSUME NEW n \in Nat
  PROVE  Spans(n)
<1>1. /\ Begin(n, "pkt_len_seq") = 0 /\ Begin(n, "iat_seq") = 4 * n
      /\ Begin(n, "dir_seq") = 12 * n /\ Begin(n, "ts_seq") = 13 * n
      /\ Begin(n, "tcp_window_seq") = 21 * n /\ Begin(n, "udp_len_seq") = 25 * n
      /\ Begin(n, "ip_ttl_seq") = 29 * n
  BY DEF Begin, RingOffset, UInt, ULongLong, SChar
<1>2. /\ Begin(n, "ip_tos_seq") = 33 * n /\ Begin(n, "payload_size_seq") = 37 * n
      /\ Begin(n, "payload_size_diff_seq") = 41 * n /\ Begin(n, "l3_len_seq") = 45 * n
      /\ Begin(n, "l4_len_seq") = 49 * n /\ Begin(n, "payload_len_seq") = 53 * n
  BY DEF Begin, RingOffset, UInt, ULongLong, SChar
<1>3. /\ RingElem["iat_seq"] = 8 /\ RingElem["dir_seq"] = 1 /\ RingElem["ts_seq"] = 8
      /\ \A r \in Ring \ {"iat_seq", "dir_seq", "ts_seq"} : RingElem[r] = 4
  BY RingNames DEF RingElem, UInt, ULongLong, SChar
<1>4. \A r \in Ring : RingEnd(n, r) = Begin(n, r) + n * RingElem[r]
  BY DEF Begin, RingEnd
<1>5. /\ RingEnd(n, "iat_seq") = Begin(n, "iat_seq") + n * 8
      /\ RingEnd(n, "dir_seq") = Begin(n, "dir_seq") + n * 1
      /\ RingEnd(n, "ts_seq") = Begin(n, "ts_seq") + n * 8
      /\ \A r \in Ring \ {"iat_seq", "dir_seq", "ts_seq"} :
           RingEnd(n, r) = Begin(n, r) + n * 4
  BY <1>3, <1>4, RingNames, Zenon
<1> QED BY <1>1, <1>2, <1>5, RingNames DEF Spans

LEMMA RingElems == \A r \in Ring : RingElem[r] \in {1, 4, 8}
  BY RingNames DEF RingElem, UInt, ULongLong, SChar

(* The arrays take 56 bytes per packet and a fixed part.                   *)
LEMMA RingAreaIs ==
  ASSUME NEW n \in Nat
  PROVE  /\ RingArea(n) = 56 * n + 12 * NumWindows + 8 * RespDelays
         /\ RingArea(n) \in Nat
  BY PoolSizes DEF RingArea, ArrayOffset, UInt, ULongLong, Double

(* The block holds the arrays, 69 bytes of rings per packet, and the       *)
(* temporary area.                                                         *)
LEMMA BlockIsLargeEnough ==
  ASSUME NEW n \in Nat
  PROVE  /\ BlockSize(n) \in Nat
         /\ BlockSize(n) >= RingArea(n) + 69 * n + TempSize
<1> DEFINE size == 125 * n + 12 * NumWindows + 8 * RespDelays + TempSize
<1>1. size \in Nat
  BY PoolSizes
<1>2. BlockSize(n) = ((size + 63) \div 64) * 64
  BY PoolSizes DEF BlockSize, RingBudget, UInt, ULongLong, Double, SChar
<1>3. size = RingArea(n) + 69 * n + TempSize
  BY RingAreaIs, PoolSizes
<1> HIDE DEF size
<1>4. ((size + 63) \div 64) * 64 \in Nat /\ ((size + 63) \div 64) * 64 >= size
  BY <1>1
<1> QED
  BY <1>2, <1>3, <1>4

(* A ring's region ends within the 57 bytes per packet that thirteen rings *)
(* take.                                                                   *)
LEMMA RingEndsInBudget ==
  ASSUME NEW n \in Nat, NEW r \in Ring
  PROVE  /\ Begin(n, r) \in Nat /\ Begin(n, r) <= 56 * n
         /\ RingEnd(n, r) \in Nat /\ RingEnd(n, r) <= 57 * n
<1>1. Spans(n)
  BY RingSpans
<1> QED
  BY <1>1, RingNames DEF Spans

(* Two rings do not share a byte.                                          *)
LEMMA RingsDisjoint ==
  ASSUME NEW n \in Nat, NEW r \in Ring, NEW q \in Ring \ {r}
  PROVE  RingEnd(n, r) <= Begin(n, q) \/ RingEnd(n, q) <= Begin(n, r)
<1> USE RingNames DEF Spans
<1>0. Spans(n)
  BY RingSpans
<1>1. CASE r = "pkt_len_seq"
  BY <1>0, <1>1
<1>2. CASE r = "iat_seq"
  BY <1>0, <1>2
<1>3. CASE r = "dir_seq"
  BY <1>0, <1>3
<1>4. CASE r = "ts_seq"
  BY <1>0, <1>4
<1>5. CASE r = "tcp_window_seq"
  BY <1>0, <1>5
<1>6. CASE r = "udp_len_seq"
  BY <1>0, <1>6
<1>7. CASE r = "ip_ttl_seq"
  BY <1>0, <1>7
<1>8. CASE r = "ip_tos_seq"
  BY <1>0, <1>8
<1>9. CASE r = "payload_size_seq"
  BY <1>0, <1>9
<1>10. CASE r = "payload_size_diff_seq"
  BY <1>0, <1>10
<1>11. CASE r = "l3_len_seq"
  BY <1>0, <1>11
<1>12. CASE r = "l4_len_seq"
  BY <1>0, <1>12
<1>13. CASE r = "payload_len_seq"
  BY <1>0, <1>13
<1> QED
  BY <1>1, <1>2, <1>3, <1>4, <1>5, <1>6, <1>7, <1>8, <1>9, <1>10, <1>11, <1>12, <1>13

(* Every ring can be bound in the block of any level, and stays in the     *)
(* ring storage.                                                           *)
LEMMA RingsFit ==
  ASSUME NEW level \in Level, NEW count, NEW r \in Ring
  PROVE  LET pool == PoolOfLevel(level, count)
         IN  /\ RingBindable(pool, r)
             /\ RingEnd(pool.seq_len, r) <= pool.ring_size
             /\ RingArea(pool.seq_len) + pool.ring_size + TempSize = pool.size
<1> DEFINE n == SeqLen[level]
           pool == PoolOfLevel(level, count)
<1>1. n \in Nat /\ n > 0
  BY SeqLenGrows
<1>2. /\ pool.seq_len = n
      /\ pool.size = BlockSize(n)
      /\ pool.ring_size = BlockSize(n) - RingArea(n) - TempSize
  BY DEF PoolOfLevel
<1> HIDE DEF n, pool
<1>3. RingArea(n) \in Nat /\ TempSize \in Nat
  BY <1>1, RingAreaIs, PoolSizes
<1>4. pool.ring_size \in Nat /\ pool.ring_size >= 69 * n
  BY <1>1, <1>2, <1>3, BlockIsLargeEnough
<1>5. RingEnd(n, r) <= pool.ring_size /\ Begin(n, r) < pool.ring_size
  BY <1>1, <1>4, RingEndsInBudget
<1>6. RingBindable(pool, r)
  BY <1>2, <1>5 DEF RingBindable, Begin
<1>7. RingArea(n) + pool.ring_size + TempSize = pool.size
  BY <1>1, <1>2, <1>3, BlockIsLargeEnough
<1> QED
  BY <1>2, <1>5, <1>6, <1>7 DEF pool

(* With levels that are multiples of eight and an even number of windows   *)
(* the rings are aligned to their elements.                                *)
LEMMA RingIsAligned ==
  ASSUME NEW n \in Nat, n % 8 = 0, NumWindows % 2 = 0, NEW r \in Ring
  PROVE  (RingArea(n) + RingOffset(n)[r]) % RingElem[r] = 0
<1>1. RingArea(n) \in Nat /\ RingArea(n) % 8 = 0
  <2>1. RingArea(n) = 56 * n + 12 * NumWindows + 8 * RespDelays
    BY RingAreaIs
  <2> QED
    BY <2>1, PoolSizes
<1>2. Begin(n, r) \in Nat /\ Begin(n, r) % 8 = 0
  <2>1. Spans(n)
    BY RingSpans
  <2> QED
    BY <2>1, RingNames DEF Spans
<1>3. (RingArea(n) + Begin(n, r)) % 8 = 0
  BY <1>1, <1>2
<1>4. RingElem[r] \in {1, 4, 8}
  BY RingElems
<1> QED
  BY <1>1, <1>2, <1>3, <1>4 DEF Begin

LEMMA AlignUpGrows ==
  ASSUME NEW offset \in Nat, NEW alignment \in Nat \ {0}
  PROVE  AlignUp(offset, alignment) \in Nat /\ AlignUp(offset, alignment) >= offset
<1> DEFINE x == offset + alignment - 1
           q == x \div alignment
<1>1. x \in Nat
  OBVIOUS
<1>2. q \in Nat /\ q * alignment + alignment > x
  <2> HIDE DEF x
  <2> QED
    BY <1>1
<1>3. AlignUp(offset, alignment) = q * alignment
  BY DEF AlignUp
<1> HIDE DEF q
<1>4. q * alignment \in Nat
  BY <1>2
<1> QED
  BY <1>2, <1>3, <1>4

(* The threshold comes before the level is full, and at a packet.          *)
LEMMA ThresholdBound ==
  ASSUME NEW n \in Nat \ {0}
  PROVE  Threshold(n) \in Nat /\ Threshold(n) >= 1 /\ Threshold(n) <= n
  BY DEF Threshold

(* A freshly made pool is well formed.                                     *)
LEMMA MadePool ==
  ASSUME NEW level \in Level, NEW count \in 0 .. UIntMax
  PROVE  LET made == PoolOfLevel(level, count)
         IN  /\ made \in Pool
             /\ made.live
             /\ made.level = level
             /\ made.pkt_count = count
             /\ made.seq_len = SeqLen[level]
<1>1. SeqLen[level] \in Nat /\ 0 \in 0 .. TempSize
  BY SeqLenGrows, PoolSizes
<1>2. BlockSize(SeqLen[level]) \in Nat /\ RingArea(SeqLen[level]) \in Nat
  BY <1>1, BlockIsLargeEnough, RingAreaIs
<1>3. BlockSize(SeqLen[level]) - RingArea(SeqLen[level]) - TempSize \in Int
  BY <1>2, PoolSizes
<1> DEFINE n == SeqLen[level]
           size == BlockSize(n)
           ring_size == BlockSize(n) - RingArea(n) - TempSize
<1>4. PoolOfLevel(level, count) =
        [ live |-> TRUE, level |-> level, seq_len |-> n, pkt_count |-> count,
          needs_upgrade |-> FALSE, size |-> size, ring_size |-> ring_size,
          temp_offset |-> 0 ]
  BY DEF PoolOfLevel
<1>5. n \in Nat /\ size \in Nat /\ ring_size \in Int
  BY <1>1, <1>2, <1>3
<1> HIDE DEF n, size, ring_size
<1>6. SeqLen[level] = n
  BY DEF n
<1> QED
  BY <1>1, <1>4, <1>5, <1>6 DEF Pool

(* Counting a packet touches the count and the flag only.                  *)
LEMMA CountedPool ==
  ASSUME NEW p \in Pool
  PROVE  /\ CheckUpgrade(p) \in Pool
         /\ CheckUpgrade(p).live = p.live
         /\ CheckUpgrade(p).level = p.level
         /\ CheckUpgrade(p).seq_len = p.seq_len
         /\ CheckUpgrade(p).size = p.size
         /\ CheckUpgrade(p).ring_size = p.ring_size
         /\ CheckUpgrade(p).temp_offset = p.temp_offset
         /\ CheckUpgrade(p).pkt_count = CountedPackets(p)
         /\ CountedPackets(p) \in 0 .. UIntMax
         /\ p.pkt_count \in 0 .. UIntMax
         /\ p.pkt_count <= CountedPackets(p)
         /\ CountedPackets(p) <= p.pkt_count + 1
         /\ p.level < Large /\ p.pkt_count < UIntMax =>
              CountedPackets(p) = p.pkt_count + 1
<1> DEFINE counted == CheckUpgrade(p)
<1>1. /\ p.pkt_count \in 0 .. UIntMax
      /\ CountedPackets(p) \in 0 .. UIntMax
      /\ p.pkt_count <= CountedPackets(p)
      /\ CountedPackets(p) <= p.pkt_count + 1
      /\ p.level < Large /\ p.pkt_count < UIntMax =>
           CountedPackets(p) = p.pkt_count + 1
  BY PoolSizes DEF Pool, CountedPackets
<1>2. counted.needs_upgrade \in BOOLEAN
  BY DEF CheckUpgrade, Pool, UpgradeDue
<1>3. counted = [p EXCEPT !.pkt_count = CountedPackets(p),
                          !.needs_upgrade = counted.needs_upgrade]
  BY DEF CheckUpgrade, Pool
<1> HIDE DEF counted
<1>4. /\ counted \in Pool
      /\ counted.live = p.live /\ counted.level = p.level
      /\ counted.seq_len = p.seq_len /\ counted.size = p.size
      /\ counted.ring_size = p.ring_size
      /\ counted.temp_offset = p.temp_offset
      /\ counted.pkt_count = CountedPackets(p)
  BY <1>1, <1>2, <1>3 DEF Pool
<1> QED
  BY <1>1, <1>4 DEF counted
-----------------------------------------------------------------------------
LEMMA MinOfNaturals ==
  ASSUME NEW S \in SUBSET Nat, S # {}
  PROVE  Min(S) \in S /\ \A y \in S : Min(S) <= y
<1>1. \E x \in S : \A y \in S : ~(<< y, x >> \in OpToRel(<, Nat))
  BY NatLessThanWellFounded, WFMin
<1>2. PICK x \in S : \A y \in S : ~(<< y, x >> \in OpToRel(<, Nat))
  BY <1>1
<1>3. ASSUME NEW y \in S PROVE x <= y
  <2>1. ~(y < x)
    BY <1>2 DEF OpToRel
  <2> QED BY <2>1
<1> QED BY <1>3, Zenon DEF Min

(* A set of naturals with 0 and every successor of its elements.           *)
LEMMA InductiveSet ==
  ASSUME NEW S \in SUBSET Nat, 0 \in S, \A n \in Nat : n \in S => n + 1 \in S
  PROVE  \A n \in Nat : n \in S
<1> DEFINE Others == Nat \ S
<1> SUFFICES ASSUME Others # {} PROVE FALSE
  OBVIOUS
<1>1. Others \in SUBSET Nat
  OBVIOUS
<1> HIDE DEF Others
<1>2. Min(Others) \in Others /\ \A y \in Others : Min(Others) <= y
  BY <1>1, MinOfNaturals
<1>3. PICK m \in Others : \A y \in Others : m <= y
  BY <1>2
<1>4. m \in Nat /\ m \notin S /\ m # 0
  BY <1>3 DEF Others
<1>5. m - 1 \in Nat /\ m - 1 \in S /\ (m - 1) + 1 = m
  BY <1>3, <1>4 DEF Others
<1> QED BY <1>4, <1>5

LEMMA MinOf ==
  ASSUME NEW S \in SUBSET Int, NEW x \in S, \A y \in S : x <= y
  PROVE  Min(S) = x
<1>1. \A z \in S : (\A y \in S : z <= y) => z = x
  OBVIOUS
<1> QED BY <1>1, Zenon DEF Min

LEMMA MaxOf ==
  ASSUME NEW S \in SUBSET Int, NEW x \in S, \A y \in S : y <= x
  PROVE  Max(S) = x
<1>1. \A y \in S : x >= y
  OBVIOUS
<1>2. \A z \in S : (\A y \in S : z >= y) => z = x
  OBVIOUS
<1> QED BY <1>1, <1>2, Zenon DEF Max

(* The sums FoldLeft computes of the elements of s at each set of the      *)
(* positions 1 to m.                                                       *)
SumsTo(s, m, it) ==
  it = [S \in SUBSET (1 .. m) |-> IF S = {} THEN 0 ELSE it[S \ {Max(S)}] + s[Max(S)]]

LEMMA TotalUnfolds ==
  ASSUME NEW s
  PROVE  Total(s) = (CHOOSE it : it = [S \in SUBSET (DOMAIN s) |->
                        IF S = {} THEN 0 ELSE it[S \ {Max(S)}] + s[Max(S)]])[DOMAIN s]
BY DEF Total, SumOf, FoldLeft, MapThenFoldSet

LEMMA SumsExist ==
  ASSUME NEW s \in Seq(Int)
  PROVE  \A m \in Nat : m <= Len(s) => \E it : SumsTo(s, m, it)
<1> DEFINE P == {m \in Nat : m <= Len(s) => \E it : SumsTo(s, m, it)}
<1>1. P \in SUBSET Nat
  OBVIOUS
<1>2. 0 \in P
  <2> DEFINE it == [S \in SUBSET (1 .. 0) |-> 0]
  <2>1. \A S \in SUBSET (1 .. 0) : S = {}
    OBVIOUS
  <2>2. it = [S \in SUBSET (1 .. 0) |-> IF S = {} THEN 0 ELSE it[S \ {Max(S)}] + s[Max(S)]]
    BY <2>1, Zenon
  <2> HIDE DEF it
  <2>3. SumsTo(s, 0, it)
    BY <2>2, Zenon DEF SumsTo
  <2> QED BY <2>3
<1>3. ASSUME NEW n \in Nat, n \in P PROVE n + 1 \in P
  <2> SUFFICES ASSUME n + 1 <= Len(s) PROVE \E it : SumsTo(s, n + 1, it)
    OBVIOUS
  <2>1. PICK old : SumsTo(s, n, old)
    BY <1>3
  <2> DEFINE it == [S \in SUBSET (1 .. n + 1) |->
                      IF n + 1 \in S THEN old[S \ {n + 1}] + s[n + 1] ELSE old[S]]
  <2>2. ASSUME NEW S \in SUBSET (1 .. n + 1)
        PROVE  it[S] = IF S = {} THEN 0 ELSE it[S \ {Max(S)}] + s[Max(S)]
    <3>1. CASE n + 1 \in S
      <4>1. Max(S) = n + 1
        BY <3>1, MaxOf
      <4>2. S \ {n + 1} \in SUBSET (1 .. n + 1) /\ n + 1 \notin S \ {n + 1}
        OBVIOUS
      <4>3. it[S \ {n + 1}] = old[S \ {n + 1}]
        BY <4>2, Zenon
      <4>4. it[S] = old[S \ {n + 1}] + s[n + 1]
        BY <3>1, Zenon
      <4> QED BY <3>1, <4>1, <4>3, <4>4, Zenon
    <3>2. CASE n + 1 \notin S
      <4>1. S \in SUBSET (1 .. n)
        BY <3>2
      <4>2. S \ {Max(S)} \in SUBSET (1 .. n + 1) /\ n + 1 \notin S \ {Max(S)}
        BY <3>2
      <4>3. it[S \ {Max(S)}] = old[S \ {Max(S)}]
        BY <4>2, Zenon
      <4>4. it[S] = old[S]
        BY <3>2, Zenon
      <4>5. old[S] = IF S = {} THEN 0 ELSE old[S \ {Max(S)}] + s[Max(S)]
        BY <2>1, <4>1, Zenon DEF SumsTo
      <4> QED BY <4>3, <4>4, <4>5, Zenon
    <3> QED BY <3>1, <3>2
  <2>3. it = [S \in SUBSET (1 .. n + 1) |-> it[S]]
    BY Zenon
  <2> HIDE DEF it
  <2>4. it = [S \in SUBSET (1 .. n + 1) |->
                IF S = {} THEN 0 ELSE it[S \ {Max(S)}] + s[Max(S)]]
    BY <2>2, <2>3, Zenon
  <2> QED BY <2>4, Zenon DEF SumsTo
<1> HIDE DEF P
<1>4. \A n \in Nat : n \in P
  BY <1>1, <1>2, <1>3, InductiveSet
<1> QED BY <1>4 DEF P

(* The sums of the prefixes, each from the one before it.                  *)
StepsBy(s, m, it) ==
  /\ it[1 .. 0] = 0
  /\ \A j \in Nat : j + 1 <= m => it[1 .. j + 1] = it[1 .. j] + s[j + 1]

LEMMA SumsAt ==
  ASSUME NEW s, NEW m \in Nat, NEW it, SumsTo(s, m, it)
  PROVE  StepsBy(s, m, it)
<1>1. ASSUME NEW S \in SUBSET (1 .. m)
      PROVE  it[S] = IF S = {} THEN 0 ELSE it[S \ {Max(S)}] + s[Max(S)]
  BY Zenon DEF SumsTo
<1>2. it[1 .. 0] = 0
  <2>1. 1 .. 0 = {} /\ 1 .. 0 \in SUBSET (1 .. m)
    OBVIOUS
  <2> QED BY <1>1, <2>1, Zenon
<1>3. ASSUME NEW j \in Nat, j + 1 <= m PROVE it[1 .. j + 1] = it[1 .. j] + s[j + 1]
  <2> DEFINE S == 1 .. j + 1
  <2>1. S \in SUBSET (1 .. m) /\ S \in SUBSET Int /\ j + 1 \in S /\ \A y \in S : y <= j + 1
    BY <1>3
  <2>2. S \ {j + 1} = 1 .. j
    BY <1>3
  <2> HIDE DEF S
  <2>3. Max(S) = j + 1
    BY <2>1, MaxOf
  <2>4. it[S] = IF S = {} THEN 0 ELSE it[S \ {Max(S)}] + s[Max(S)]
    BY <1>1, <2>1, Zenon
  <2>5. S # {}
    BY <2>1
  <2>6. it[S] = it[1 .. j] + s[j + 1]
    BY <2>2, <2>3, <2>4, <2>5, Zenon
  <2> QED BY <2>6 DEF S
<1> QED BY <1>2, <1>3, Zenon DEF StepsBy

(* Equal prefixes have equal sums.                                         *)
SumsOf(s, m, it) == s \in Seq(Int) /\ m <= Len(s) /\ SumsTo(s, m, it)
AgreeTo(s, t, k) == \A i \in 1 .. k : s[i] = t[i]

LEMMA SumsOfPrefix ==
  ASSUME NEW s, NEW t, NEW m \in Nat, NEW n \in Nat, NEW k \in Nat, k <= m, k <= n,
         NEW is, NEW it, SumsOf(s, m, is), SumsOf(t, n, it), AgreeTo(s, t, k)
  PROVE  is[1 .. k] = it[1 .. k] /\ is[1 .. k] \in Int
<1>s. /\ s \in Seq(Int) /\ t \in Seq(Int) /\ m <= Len(s) /\ n <= Len(t)
      /\ \A i \in 1 .. k : s[i] = t[i]
  BY Zenon DEF SumsOf, AgreeTo
<1>0. StepsBy(s, m, is) /\ StepsBy(t, n, it)
  BY SumsAt, Zenon DEF SumsOf
<1> DEFINE P == {j \in Nat : j <= k => is[1 .. j] = it[1 .. j] /\ is[1 .. j] \in Int}
<1>1. P \in SUBSET Nat
  OBVIOUS
<1>2. 0 \in P
  <2>1. is[1 .. 0] = 0 /\ it[1 .. 0] = 0
    BY <1>0, Zenon DEF StepsBy
  <2> QED BY <2>1
<1>3. ASSUME NEW j \in Nat, j \in P PROVE j + 1 \in P
  <2> SUFFICES ASSUME j + 1 <= k
               PROVE  is[1 .. j + 1] = it[1 .. j + 1] /\ is[1 .. j + 1] \in Int
    OBVIOUS
  <2>1. is[1 .. j] = it[1 .. j] /\ is[1 .. j] \in Int
    BY <1>3
  <2>2. j + 1 <= m /\ j + 1 <= n /\ j + 1 \in 1 .. k /\ j + 1 \in 1 .. Len(s)
    BY <1>s
  <2>4. is[1 .. j + 1] = is[1 .. j] + s[j + 1] /\ it[1 .. j + 1] = it[1 .. j] + t[j + 1]
    <3>1. is[1 .. j + 1] = is[1 .. j] + s[j + 1]
      BY <1>0, <2>2, Zenon DEF StepsBy
    <3>2. it[1 .. j + 1] = it[1 .. j] + t[j + 1]
      BY <1>0, <2>2, Zenon DEF StepsBy
    <3> QED BY <3>1, <3>2, Zenon
  <2>5. s[j + 1] \in Int /\ s[j + 1] = t[j + 1]
    BY <1>s, <2>2
  <2> QED BY <2>1, <2>4, <2>5
<1> HIDE DEF P
<1>4. \A j \in Nat : j \in P
  BY <1>1, <1>2, <1>3, InductiveSet
<1> QED BY <1>4 DEF P

(* The sum of a sequence is the value of its sums at all its positions.    *)
LEMMA TotalIsSum ==
  ASSUME NEW s \in Seq(Int)
  PROVE  \E it : SumsTo(s, Len(s), it) /\ Total(s) = it[1 .. Len(s)]
<1> DEFINE it == CHOOSE it : it = [S \in SUBSET (DOMAIN s) |->
                        IF S = {} THEN 0 ELSE it[S \ {Max(S)}] + s[Max(S)]]
<1>1. DOMAIN s = 1 .. Len(s) /\ Len(s) \in Nat /\ Len(s) <= Len(s)
  OBVIOUS
<1>2. \E i : SumsTo(s, Len(s), i)
  BY <1>1, SumsExist, Zenon
<1>3. \E i : i = [S \in SUBSET (DOMAIN s) |->
                    IF S = {} THEN 0 ELSE i[S \ {Max(S)}] + s[Max(S)]]
  BY <1>1, <1>2, Zenon DEF SumsTo
<1>4. it = [S \in SUBSET (DOMAIN s) |->
               IF S = {} THEN 0 ELSE it[S \ {Max(S)}] + s[Max(S)]]
  BY <1>3, Zenon
<1>5. Total(s) = it[DOMAIN s]
  BY TotalUnfolds, Zenon
<1> HIDE DEF it
<1> QED BY <1>1, <1>4, <1>5, Zenon DEF SumsTo

(* The sum of no element, and of one element more.                         *)
LEMMA TotalOfNone == Total(<< >>) = 0
<1>1. << >> \in Seq(Int) /\ Len(<< >>) = 0
  OBVIOUS
<1>2. PICK it : SumsTo(<< >>, 0, it) /\ Total(<< >>) = it[1 .. 0]
  BY <1>1, TotalIsSum, Zenon
<1>3. 0 \in Nat
  OBVIOUS
<1>4. StepsBy(<< >>, 0, it)
  BY <1>2, <1>3, SumsAt, Zenon
<1>5. it[1 .. 0] = 0
  BY <1>4, Zenon DEF StepsBy
<1> QED BY <1>2, <1>5, Zenon

LEMMA TotalOfAppend ==
  ASSUME NEW s \in Seq(Int), NEW x \in Int
  PROVE  Total(s) \in Int /\ Total(Append(s, x)) = Total(s) + x
<1>1. PICK t : t = Append(s, x)
  OBVIOUS
<1>2. PICK n \in Nat : n = Len(s)
  OBVIOUS
<1>3. PICK m \in Nat : m = n + 1
  OBVIOUS
<1>4. t \in Seq(Int) /\ Len(t) = m /\ t[m] = x /\ n <= n /\ n <= m /\ n + 1 <= m /\ m <= m
  BY <1>1, <1>2, <1>3
<1>5. AgreeTo(s, t, n)
  BY <1>1, <1>2 DEF AgreeTo
<1>6. PICK is : SumsTo(s, n, is) /\ Total(s) = is[1 .. n]
  BY <1>2, TotalIsSum, Zenon
<1>7. PICK it : SumsTo(t, m, it) /\ Total(t) = it[1 .. m]
  BY <1>4, TotalIsSum, Zenon
<1>8. is[1 .. n] = it[1 .. n] /\ is[1 .. n] \in Int
  <2>1. SumsOf(s, n, is) /\ SumsOf(t, m, it)
    BY <1>2, <1>4, <1>6, <1>7, Zenon DEF SumsOf
  <2> QED BY <1>4, <1>5, <2>1, SumsOfPrefix, Zenon
<1>9. it[1 .. m] = it[1 .. n] + x
  <2>1. StepsBy(t, m, it)
    BY <1>7, SumsAt, Zenon
  <2>2. it[1 .. n + 1] = it[1 .. n] + t[n + 1]
    BY <1>4, <2>1, Zenon DEF StepsBy
  <2> QED BY <1>3, <1>4, <2>2, Zenon
<1> QED BY <1>1, <1>6, <1>7, <1>8, <1>9, Zenon

LEMMA MinOfTwo ==
  ASSUME NEW a \in Int, NEW b \in Int PROVE Min({a, b}) = IF a <= b THEN a ELSE b
<1> DEFINE S == {a, b}
           c == IF a <= b THEN a ELSE b
<1>1. c \in S /\ \A y \in S : c <= y
  OBVIOUS
<1>2. \A x \in S : (\A y \in S : x <= y) => x = c
  OBVIOUS
<1> HIDE DEF S, c
<1>3. Min(S) = c
  BY <1>1, <1>2, Zenon DEF Min
<1> QED BY <1>3 DEF S, c

LEMMA MaxOfTwo ==
  ASSUME NEW a \in Int, NEW b \in Int PROVE Max({a, b}) = IF a >= b THEN a ELSE b
<1> DEFINE c == IF a >= b THEN a ELSE b
<1>1. {a, b} \in SUBSET Int /\ c \in {a, b} /\ \A y \in {a, b} : y <= c
  OBVIOUS
<1> HIDE DEF c
<1>2. Max({a, b}) = c
  BY <1>1, MaxOf
<1> QED BY <1>2 DEF c

(* Ranks among the positions up to n, and with n + 1 added.                *)
LEMMA RanksIn ==
  ASSUME NEW n \in Nat, NEW S \in SUBSET (1 .. n)
  PROVE  /\ IsFiniteSet(S) /\ Cardinality(S) \in Nat
         /\ Cardinality(S) = 0 <=> S = {}
         /\ \A i \in S : Rank(S, i) \in Nat /\ 1 <= Rank(S, i) /\ Rank(S, i) <= Cardinality(S)
         /\ \A i, j \in S : i < j => Rank(S, i) <= Cardinality(S) - 1
         /\ \A g \in S : (\A k \in S : k <= g) => Rank(S, g) = Cardinality(S)
<1>1. IsFiniteSet(1 .. n)
  BY FS_Interval
<1>2. IsFiniteSet(S) /\ Cardinality(S) \in Nat /\ (Cardinality(S) = 0 <=> S = {})
  BY <1>1, FS_Subset, FS_CardinalityType, FS_EmptySet
<1>3. ASSUME NEW i \in S
      PROVE  Rank(S, i) \in Nat /\ 1 <= Rank(S, i) /\ Rank(S, i) <= Cardinality(S)
  <2> DEFINE T == {j \in S : j <= i}
  <2>1. i \in T /\ T \in SUBSET S
    OBVIOUS
  <2> HIDE DEF T
  <2>2. IsFiniteSet(T) /\ Cardinality(T) \in Nat /\ Cardinality(T) <= Cardinality(S)
    BY <1>2, <2>1, FS_Subset, FS_CardinalityType
  <2>3. Cardinality(T) # 0
    BY <2>1, <2>2, FS_EmptySet
  <2> QED BY <2>2, <2>3 DEF Rank, T
<1>4. ASSUME NEW i \in S, NEW j \in S, i < j PROVE Rank(S, i) <= Cardinality(S) - 1
  <2> DEFINE T == {k \in S : k <= i}
             U == S \ {j}
  <2>1. T \in SUBSET U
    BY <1>4
  <2>2. IsFiniteSet(U) /\ Cardinality(U) = Cardinality(S) - 1
    BY <1>2, FS_RemoveElement
  <2> HIDE DEF T, U
  <2>3. Cardinality(T) <= Cardinality(U)
    BY <2>1, <2>2, FS_Subset
  <2> QED BY <2>2, <2>3 DEF Rank, T
<1>5. ASSUME NEW g \in S, \A k \in S : k <= g PROVE Rank(S, g) = Cardinality(S)
  <2>1. {k \in S : k <= g} = S
    BY <1>5, Zenon
  <2> QED BY <2>1, Zenon DEF Rank
<1> QED BY <1>2, <1>3, <1>4, <1>5

(* There are no more of them than positions.                               *)
LEMMA CountOfPositions ==
  ASSUME NEW n \in Nat, NEW S \in SUBSET (1 .. n) PROVE Cardinality(S) <= n
<1>1. IsFiniteSet(1 .. n) /\ Cardinality(1 .. n) = IF 1 > n THEN 0 ELSE n - 1 + 1
  <2>1. 1 \in Int /\ n \in Int
    OBVIOUS
  <2> QED BY <2>1, FS_Interval, Zenon
<1>2. Cardinality(1 .. n) = n
  BY <1>1
<1>3. Cardinality(S) <= Cardinality(1 .. n)
  BY <1>1, FS_Subset, Zenon
<1> QED BY <1>2, <1>3

LEMMA RanksKept ==
  ASSUME NEW n \in Nat, NEW S \in SUBSET (1 .. n)
  PROVE  /\ Cardinality(S \cup {n + 1}) = Cardinality(S) + 1
         /\ \A i \in S : Rank(S \cup {n + 1}, i) = Rank(S, i)
<1>1. IsFiniteSet(S)
  BY RanksIn
<1>2. n + 1 \notin S
  OBVIOUS
<1>3. Cardinality(S \cup {n + 1}) = Cardinality(S) + 1
  BY <1>1, <1>2, FS_AddElement
<1>4. ASSUME NEW i \in S PROVE Rank(S \cup {n + 1}, i) = Rank(S, i)
  <2>1. ~(n + 1 <= i)
    BY <1>4
  <2>2. {j \in S \cup {n + 1} : j <= i} = {j \in S : j <= i}
    BY <2>1, Zenon
  <2> QED BY <2>2, Zenon DEF Rank
<1> QED BY <1>3, <1>4

LEMMA SmallestLevel == \A l \in Level : SeqLen[Tiny] \in Nat /\ SeqLen[Tiny] <= SeqLen[l]
<1>1. /\ SeqLen[0] < SeqLen[1] /\ SeqLen[1] < SeqLen[2] /\ SeqLen[2] < SeqLen[3]
      /\ SeqLen[0] \in Nat /\ SeqLen[1] \in Nat /\ SeqLen[2] \in Nat /\ SeqLen[3] \in Nat
  <2>1. 0 \in Level /\ 1 \in Level /\ 2 \in Level /\ 3 \in Level
    BY DEF Level, Tiny, Large
  <2>2. SeqLen[0] < SeqLen[0 + 1] /\ SeqLen[1] < SeqLen[1 + 1] /\ SeqLen[2] < SeqLen[2 + 1]
    <3>1. 0 < Large /\ 1 < Large /\ 2 < Large
      BY DEF Large
    <3> QED BY <2>1, <3>1, SeqLenGrows, Zenon
  <2>3. 0 + 1 = 1 /\ 1 + 1 = 2 /\ 2 + 1 = 3
    OBVIOUS
  <2>4. SeqLen[0] \in Nat /\ SeqLen[1] \in Nat /\ SeqLen[2] \in Nat /\ SeqLen[3] \in Nat
    BY <2>1, SeqLenGrows
  <2> QED BY <2>2, <2>3, <2>4, Zenon
<1>2. \A l \in Level : l = 0 \/ l = 1 \/ l = 2 \/ l = 3
  BY DEF Level, Tiny, Large
<1> QED BY <1>1, <1>2 DEF Tiny
-----------------------------------------------------------------------------
(* The prefix sums of a sequence: their type, and what changes with one    *)
(* element.                                                                *)
LEMMA SumsType ==
  ASSUME NEW s \in Seq(Int), NEW it, SumsTo(s, Len(s), it)
  PROVE  \A j \in Nat : j <= Len(s) => it[1 .. j] \in Int
<1>1. Len(s) \in Nat /\ Len(s) <= Len(s)
  OBVIOUS
<1>2. ASSUME NEW j \in Nat, j <= Len(s) PROVE it[1 .. j] \in Int
  <2>1. AgreeTo(s, s, j)
    BY Zenon DEF AgreeTo
  <2>2. SumsOf(s, Len(s), it)
    BY <1>1, Zenon DEF SumsOf
  <2> QED BY <1>1, <1>2, <2>1, <2>2, SumsOfPrefix, Zenon
<1> QED BY <1>2

LEMMA TotalType == ASSUME NEW s \in Seq(Int) PROVE Total(s) \in Int
<1>1. PICK it : SumsTo(s, Len(s), it) /\ Total(s) = it[1 .. Len(s)]
  BY TotalIsSum, Zenon
<1>2. Len(s) \in Nat /\ Len(s) <= Len(s)
  OBVIOUS
<1> QED BY <1>1, <1>2, SumsType, Zenon

LEMMA TotalOfBump ==
  ASSUME NEW s \in Seq(Int), NEW t \in Seq(Int), NEW n \in Nat, Len(s) = n, Len(t) = n,
         NEW k \in 1 .. n, NEW x \in Int, t[k] = s[k] + x,
         \A i \in 1 .. n : i # k => t[i] = s[i]
  PROVE  Total(t) = Total(s) + x
<1>1. PICK is : SumsTo(s, n, is) /\ Total(s) = is[1 .. n]
  BY TotalIsSum, Zenon
<1>2. PICK it : SumsTo(t, n, it) /\ Total(t) = it[1 .. n]
  BY TotalIsSum, Zenon
<1>3. \A j \in Nat : j <= n => is[1 .. j] \in Int
  BY <1>1, SumsType, Zenon
<1>0. StepsBy(s, n, is) /\ StepsBy(t, n, it)
  BY <1>1, <1>2, SumsAt, Zenon
<1> DEFINE P == {j \in Nat : j <= n => it[1 .. j] = is[1 .. j] + (IF k <= j THEN x ELSE 0)}
<1>4. 0 \in P
  <2>1. it[1 .. 0] = 0 /\ is[1 .. 0] = 0
    BY <1>0, Zenon DEF StepsBy
  <2> QED BY <2>1
<1>5. ASSUME NEW j \in Nat, j \in P PROVE j + 1 \in P
  <2> SUFFICES ASSUME j + 1 <= n
               PROVE  it[1 .. j + 1] = is[1 .. j + 1] + (IF k <= j + 1 THEN x ELSE 0)
    OBVIOUS
  <2>1. it[1 .. j] = is[1 .. j] + (IF k <= j THEN x ELSE 0) /\ is[1 .. j] \in Int
    BY <1>3, <1>5
  <2>2. is[1 .. j + 1] = is[1 .. j] + s[j + 1]
    BY <1>0, Zenon DEF StepsBy
  <2>3. it[1 .. j + 1] = it[1 .. j] + t[j + 1]
    BY <1>0, Zenon DEF StepsBy
  <2>4. s[j + 1] \in Int /\ t[j + 1] = IF k = j + 1 THEN s[j + 1] + x ELSE s[j + 1]
    <3>1. j + 1 \in 1 .. n
      OBVIOUS
    <3> QED BY <3>1
  <2>5. PICK a \in Int, b \in Int, c \in Int, e \in Int :
          /\ a = it[1 .. j] /\ b = is[1 .. j] /\ c = s[j + 1] /\ e = t[j + 1]
    <3>1. \A u \in Int : u + (IF k <= j THEN x ELSE 0) \in Int
      OBVIOUS
    <3>2. it[1 .. j] \in Int
      BY <2>1, <3>1, Zenon
    <3>3. \A u \in Int : (IF k = j + 1 THEN u + x ELSE u) \in Int
      OBVIOUS
    <3>4. t[j + 1] \in Int
      BY <2>4, <3>3, Zenon
    <3> QED BY <2>1, <2>4, <3>2, <3>4, Zenon
  <2>6. /\ it[1 .. j + 1] = a + e /\ is[1 .. j + 1] = b + c /\ b \in Int
        /\ a = b + (IF k <= j THEN x ELSE 0) /\ e = IF k = j + 1 THEN c + x ELSE c
    BY <2>1, <2>2, <2>3, <2>4, <2>5, Zenon
  <2>7. a + e = b + c + (IF k <= j + 1 THEN x ELSE 0)
    <3>1. CASE k <= j
      <4>1. a = b + x /\ e = c /\ k <= j + 1
        BY <2>6, <3>1
      <4> QED BY <4>1
    <3>2. CASE k = j + 1
      <4>1. a = b /\ e = c + x /\ k <= j + 1
        BY <2>6, <3>2
      <4> QED BY <2>6, <4>1
    <3>3. CASE k > j + 1
      <4>1. a = b /\ e = c /\ ~(k <= j + 1)
        BY <2>6, <3>3
      <4> QED BY <2>6, <4>1
    <3> QED BY <3>1, <3>2, <3>3
  <2> QED BY <2>6, <2>7, Zenon
<1> HIDE DEF P
<1>6. P \in SUBSET Nat
  BY DEF P
<1>7. \A j \in Nat : j \in P
  BY <1>4, <1>5, <1>6, InductiveSet
<1>8. it[1 .. n] = is[1 .. n] + x
  BY <1>7 DEF P
<1> QED BY <1>1, <1>2, <1>8

LEMMA TotalOfZeros ==
  ASSUME NEW s \in Seq(Int), \A i \in 1 .. Len(s) : s[i] = 0 PROVE Total(s) = 0
<1>1. PICK n \in Nat : n = Len(s)
  OBVIOUS
<1>2. PICK it : SumsTo(s, n, it) /\ Total(s) = it[1 .. n]
  BY <1>1, TotalIsSum, Zenon
<1>3. StepsBy(s, n, it)
  BY <1>2, SumsAt, Zenon
<1> DEFINE P == {j \in Nat : j <= n => it[1 .. j] = 0}
<1>4. 0 \in P
  BY <1>3 DEF StepsBy
<1>5. ASSUME NEW j \in Nat, j \in P PROVE j + 1 \in P
  <2> SUFFICES ASSUME j + 1 <= n PROVE  it[1 .. j + 1] = 0
    OBVIOUS
  <2>1. it[1 .. j] = 0
    BY <1>5
  <2>2. it[1 .. j + 1] = it[1 .. j] + s[j + 1]
    BY <1>3, Zenon DEF StepsBy
  <2>3. s[j + 1] = 0
    BY <1>1
  <2> QED BY <2>1, <2>2, <2>3
<1> HIDE DEF P
<1>6. P \in SUBSET Nat
  BY DEF P
<1>7. \A j \in Nat : j \in P
  BY <1>4, <1>5, <1>6, InductiveSet
<1> QED BY <1>2, <1>7 DEF P

(* Sorting the elements into classes and adding up class by class counts   *)
(* each of them once.                                                      *)
LEMMA TotalByClass ==
  ASSUME NEW n \in Nat, NEW W \in Nat, NEW x \in [1 .. n -> Int], NEW at \in [1 .. n -> 1 .. W]
  PROVE  Total([w \in 1 .. W |-> Total([i \in 1 .. n |-> IF at[i] = w THEN x[i] ELSE 0])])
           = Total(x)
<1> DEFINE Row(k, w) == [i \in 1 .. k |-> IF at[i] = w THEN x[i] ELSE 0]
           Rows(k) == [w \in 1 .. W |-> Total(Row(k, w))]
           First(k) == [i \in 1 .. k |-> x[i]]
           P == {k \in Nat : k <= n => Total(Rows(k)) = Total(First(k))}
<1>1. ASSUME NEW k \in Nat, k <= n
      PROVE  /\ \A w : Row(k, w) \in Seq(Int)
             /\ Rows(k) \in Seq(Int) /\ Len(Rows(k)) = W
             /\ First(k) \in Seq(Int)
  <2>1. \A w : Row(k, w) \in Seq(Int)
    BY <1>1
  <2>2. \A w : Total(Row(k, w)) \in Int
    BY <2>1, TotalType
  <2> HIDE DEF Row
  <2> QED BY <1>1, <2>1, <2>2
<1>2. 0 \in P
  <2>1. \A w : Row(0, w) = << >>
    OBVIOUS
  <2>2. First(0) = << >>
    OBVIOUS
  <2>3. Rows(0) \in Seq(Int) /\ Len(Rows(0)) = W
    <3>1. 0 \in Nat /\ 0 <= n
      OBVIOUS
    <3> HIDE DEF Row, Rows, First
    <3> QED BY <1>1, <3>1
  <2>4. \A w \in 1 .. W : Rows(0)[w] = 0
    <3>1. \A w : Total(Row(0, w)) = 0
      BY <2>1, TotalOfNone, Zenon
    <3> HIDE DEF Row
    <3> QED BY <3>1
  <2> HIDE DEF Rows, First
  <2>5. Total(Rows(0)) = 0
    BY <2>3, <2>4, TotalOfZeros
  <2> QED BY <2>2, <2>5, TotalOfNone
<1>3. ASSUME NEW k \in Nat, k \in P PROVE k + 1 \in P
  <2> SUFFICES ASSUME k + 1 <= n PROVE Total(Rows(k + 1)) = Total(First(k + 1))
    OBVIOUS
  <2>0. k <= n /\ k + 1 \in Nat /\ k + 1 \in 1 .. n /\ x[k + 1] \in Int /\ at[k + 1] \in 1 .. W
    OBVIOUS
  <2>1. Total(Rows(k)) = Total(First(k))
    BY <1>3, <2>0
  <2>2. /\ \A w : Row(k, w) \in Seq(Int)
        /\ Rows(k) \in Seq(Int) /\ Len(Rows(k)) = W
        /\ Rows(k + 1) \in Seq(Int) /\ Len(Rows(k + 1)) = W
        /\ First(k) \in Seq(Int)
    BY <1>1, <2>0
  <2>3. First(k + 1) = Append(First(k), x[k + 1])
    BY <2>0
  <2>4. \A w : Row(k + 1, w) = Append(Row(k, w), IF at[k + 1] = w THEN x[k + 1] ELSE 0)
    BY <2>0
  <2> HIDE DEF Row, First
  <2>5. \A w : Total(Row(k + 1, w)) = Total(Row(k, w)) + (IF at[k + 1] = w THEN x[k + 1] ELSE 0)
    <3> TAKE w
    <3>1. (IF at[k + 1] = w THEN x[k + 1] ELSE 0) \in Int
      BY <2>0
    <3> QED BY <2>2, <2>4, <3>1, TotalOfAppend
  <2>6. \A w : Total(Row(k, w)) \in Int
    BY <2>2, TotalType
  <2>7. /\ Rows(k + 1)[at[k + 1]] = Rows(k)[at[k + 1]] + x[k + 1]
        /\ \A w \in 1 .. W : w # at[k + 1] => Rows(k + 1)[w] = Rows(k)[w]
    BY <2>0, <2>5, <2>6
  <2> HIDE DEF Rows
  <2>8. Total(Rows(k + 1)) = Total(Rows(k)) + x[k + 1]
    BY <2>0, <2>2, <2>7, TotalOfBump
  <2>9. Total(First(k + 1)) = Total(First(k)) + x[k + 1]
    BY <2>0, <2>2, <2>3, TotalOfAppend
  <2> QED BY <2>1, <2>8, <2>9
<1>4. \A k \in Nat : k \in P
  <2>1. P \in SUBSET Nat
    OBVIOUS
  <2> HIDE DEF P
  <2> QED BY <1>2, <1>3, <2>1, InductiveSet
<1>5. Total(Rows(n)) = Total(First(n))
  <2>1. n \in P
    BY <1>4
  <2> HIDE DEF Rows, First
  <2> QED BY <2>1
<1>6. First(n) = x
  OBVIOUS
<1> QED BY <1>5, <1>6

(* The values FoldLeft comes to at each set of the positions 1 to m, when  *)
(* step[<<state, i>>] is what the i-th element makes of a state.               *)
FoldsTo(step, base, m, it) ==
  it = [S \in SUBSET (1 .. m) |-> IF S = {} THEN base ELSE step[<<it[S \ {Max(S)}], Max(S)>>]]

LEMMA FoldsExist ==
  ASSUME NEW State, NEW base \in State, NEW m \in Nat, NEW step \in [State \X (1 .. m) -> State]
  PROVE  \E it \in [SUBSET (1 .. m) -> State] : FoldsTo(step, base, m, it)
<1> DEFINE P == {n \in Nat : n <= m =>
                   \E it \in [SUBSET (1 .. n) -> State] : FoldsTo(step, base, n, it)}
<1>1. P \in SUBSET Nat
  OBVIOUS
<1>2. 0 \in P
  <2> DEFINE it == [S \in SUBSET (1 .. 0) |-> base]
  <2>1. \A S \in SUBSET (1 .. 0) : S = {}
    OBVIOUS
  <2>2. it = [S \in SUBSET (1 .. 0) |-> IF S = {} THEN base ELSE step[<<it[S \ {Max(S)}], Max(S)>>]]
    BY <2>1, Zenon
  <2>3. it \in [SUBSET (1 .. 0) -> State]
    OBVIOUS
  <2> HIDE DEF it
  <2>4. FoldsTo(step, base, 0, it)
    BY <2>2, Zenon DEF FoldsTo
  <2> QED BY <2>3, <2>4
<1>3. ASSUME NEW n \in Nat, n \in P PROVE n + 1 \in P
  <2>6. n + 1 \in Nat
    OBVIOUS
  <2> SUFFICES ASSUME n + 1 <= m
               PROVE  \E it \in [SUBSET (1 .. n + 1) -> State] : FoldsTo(step, base, n + 1, it)
    BY <2>6, Zenon
  <2>0. n <= m
    OBVIOUS
  <2>1. PICK old \in [SUBSET (1 .. n) -> State] : FoldsTo(step, base, n, old)
    BY <1>3, <2>0, Zenon
  <2> DEFINE it == [S \in SUBSET (1 .. n + 1) |->
                      IF n + 1 \in S THEN step[<<old[S \ {n + 1}], n + 1>>] ELSE old[S]]
  <2>2. ASSUME NEW S \in SUBSET (1 .. n + 1)
        PROVE  /\ it[S] = IF S = {} THEN base ELSE step[<<it[S \ {Max(S)}], Max(S)>>]
               /\ it[S] \in State
    <3>1. CASE n + 1 \in S
      <4>1. Max(S) = n + 1
        BY <3>1, MaxOf
      <4>2. /\ S \ {n + 1} \in SUBSET (1 .. n + 1) /\ n + 1 \notin S \ {n + 1}
            /\ S \ {n + 1} \in SUBSET (1 .. n)
        OBVIOUS
      <4>3. it[S \ {n + 1}] = old[S \ {n + 1}]
        BY <4>2, Zenon
      <4>4. it[S] = step[<<old[S \ {n + 1}], n + 1>>]
        BY <3>1, Zenon
      <4>5. n + 1 \in 1 .. m /\ old[S \ {n + 1}] \in State
        BY <4>2
      <4>6. it[S] \in State
        BY <4>4, <4>5
      <4> QED BY <3>1, <4>1, <4>3, <4>4, <4>6, Zenon
    <3>2. CASE n + 1 \notin S
      <4>1. S \in SUBSET (1 .. n)
        BY <3>2
      <4>2. S \ {Max(S)} \in SUBSET (1 .. n + 1) /\ n + 1 \notin S \ {Max(S)}
        BY <3>2
      <4>3. it[S \ {Max(S)}] = old[S \ {Max(S)}]
        BY <4>2, Zenon
      <4>4. it[S] = old[S]
        BY <3>2, Zenon
      <4>5. old[S] = IF S = {} THEN base ELSE step[<<old[S \ {Max(S)}], Max(S)>>]
        BY <2>1, <4>1, Zenon DEF FoldsTo
      <4>6. old[S] \in State
        BY <4>1
      <4> QED BY <4>3, <4>4, <4>5, <4>6, Zenon
    <3> QED BY <3>1, <3>2
  <2>3. it = [S \in SUBSET (1 .. n + 1) |-> it[S]]
    BY Zenon
  <2> HIDE DEF it
  <2>4. it = [S \in SUBSET (1 .. n + 1) |->
                IF S = {} THEN base ELSE step[<<it[S \ {Max(S)}], Max(S)>>]]
    BY <2>2, <2>3, Zenon
  <2>5. it \in [SUBSET (1 .. n + 1) -> State]
    BY <2>2, <2>3, Zenon
  <2> QED BY <2>4, <2>5, Zenon DEF FoldsTo
<1> HIDE DEF P
<1>4. \A n \in Nat : n \in P
  BY <1>1, <1>2, <1>3, InductiveSet
<1>5. m \in P /\ m <= m
  BY <1>4
<1> QED BY <1>5, Zenon DEF P

(* The largest of some positions; the positions before the last.           *)
LEMMA MaxOfPositions ==
  /\ \A m \in Nat : \A S \in SUBSET (1 .. m) : S # {} => Max(S) \in S
  /\ \A j \in Nat : Max(1 .. j + 1) = j + 1 /\ (1 .. j + 1) \ {j + 1} = 1 .. j
<1>1. ASSUME NEW m \in Nat, NEW S \in SUBSET (1 .. m), S # {} PROVE Max(S) \in S
  <2> DEFINE T == {k \in 0 .. m : m - k \in S}
  <2>1. T \in SUBSET Nat /\ T # {}
    <3>1. PICK y \in S : TRUE
      BY <1>1
    <3>2. m - y \in 0 .. m /\ m - (m - y) = y
      OBVIOUS
    <3>3. m - y \in T
      BY <3>2
    <3>4. T \in SUBSET Nat
      OBVIOUS
    <3> HIDE DEF T
    <3> QED BY <3>3, <3>4
  <2> HIDE DEF T
  <2>2. PICK k \in T : \A z \in T : k <= z
    BY <2>1, MinOfNaturals
  <2>3. m - k \in S /\ \A y \in S : y <= m - k
    <3>1. k \in 0 .. m /\ m - k \in S
      BY <2>2 DEF T
    <3>2. ASSUME NEW y \in S PROVE y <= m - k
      <4>1. m - y \in 0 .. m /\ m - (m - y) = y
        OBVIOUS
      <4>2. m - y \in T
        BY <4>1 DEF T
      <4>3. k <= m - y
        BY <2>2, <4>2
      <4> QED BY <3>1, <4>1, <4>3
    <3> QED BY <3>1, <3>2
  <2>4. S \in SUBSET Int
    OBVIOUS
  <2> QED BY <2>3, <2>4, MaxOf
<1>2. ASSUME NEW j \in Nat PROVE Max(1 .. j + 1) = j + 1 /\ (1 .. j + 1) \ {j + 1} = 1 .. j
  <2> DEFINE S == 1 .. j + 1
  <2>1. S \in SUBSET Int /\ j + 1 \in S /\ \A y \in S : y <= j + 1
    OBVIOUS
  <2>2. S \ {j + 1} = 1 .. j
    OBVIOUS
  <2> HIDE DEF S
  <2>3. Max(S) = j + 1
    BY <2>1, MaxOf
  <2> QED BY <2>2, <2>3 DEF S
<1> QED BY <1>1, <1>2
-----------------------------------------------------------------------------
(* The order of a + b*sqrt(2).  AtMostRoot(p, q) says that p is at most    *)
(* q*sqrt(2), AtLeastRoot that it is at least that, for natural numbers.   *)
AtMostRoot(p, q) == p * p <= 2 * (q * q)
AtLeastRoot(p, q) == p * p >= 2 * (q * q)

(* Squares keep the order of natural numbers, and tell it.                 *)
LEMMA SquaresTell ==
  ASSUME NEW a \in Nat, NEW b \in Nat
  PROVE  /\ a * a <= b * b => a <= b
         /\ a <= b => a * a <= b * b
         /\ a < b => a * a < b * b
<1>1. ASSUME a <= b PROVE a * a <= b * b
  <2>1. a * a <= a * b
    BY <1>1, SMT
  <2>2. a * b <= b * b
    BY <1>1, SMT
  <2> QED BY <2>1, <2>2, SMT
<1>2. ASSUME NEW c \in Nat, NEW d \in Nat, c < d PROVE c * c < d * d
  <2>1. c * c <= c * d
    BY <1>2, SMT
  <2>2. c * d < d * d
    BY <1>2, SMT
  <2> QED BY <2>1, <2>2, SMT
<1> QED BY <1>1, <1>2, SMT

LEMMA RootsAdd ==
  ASSUME NEW p \in Nat, NEW q \in Nat, NEW r \in Nat, NEW s \in Nat
  PROVE  /\ AtMostRoot(p, q) /\ AtMostRoot(r, s) => AtMostRoot(p + r, q + s)
         /\ AtLeastRoot(p, q) /\ AtLeastRoot(r, s) => AtLeastRoot(p + r, q + s)
<1> DEFINE pp == p * p
           qq == q * q
           rr == r * r
           ss == s * s
           pr == p * r
           qs == q * s
<1>1. pp \in Nat /\ qq \in Nat /\ rr \in Nat /\ ss \in Nat /\ pr \in Nat /\ qs \in Nat
  BY SMT
<1>2. /\ (p + r) * (p + r) = pp + 2 * pr + rr
      /\ (q + s) * (q + s) = qq + 2 * qs + ss
  BY SMT
<1>3. pr * pr = pp * rr /\ (2 * qs) * (2 * qs) = (2 * qq) * (2 * ss)
  BY SMT
<1>4. ASSUME AtMostRoot(p, q), AtMostRoot(r, s) PROVE AtMostRoot(p + r, q + s)
  <2>1. pp <= 2 * qq /\ rr <= 2 * ss
    BY <1>4 DEF AtMostRoot
  <2> HIDE DEF pp, qq, rr, ss, pr, qs
  <2>2. pp * rr <= (2 * qq) * rr
    BY <1>1, <2>1, SMT
  <2>3. (2 * qq) * rr <= (2 * qq) * (2 * ss)
    BY <1>1, <2>1, SMT
  <2>4. pr * pr <= (2 * qs) * (2 * qs)
    BY <1>1, <1>3, <2>2, <2>3, SMT
  <2>5. pr <= 2 * qs
    BY <1>1, <2>4, SquaresTell
  <2>6. pp + 2 * pr + rr <= 2 * (qq + 2 * qs + ss)
    BY <1>1, <2>1, <2>5, SMT
  <2> QED BY <1>2, <2>6 DEF AtMostRoot
<1>5. ASSUME AtLeastRoot(p, q), AtLeastRoot(r, s) PROVE AtLeastRoot(p + r, q + s)
  <2>1. pp >= 2 * qq /\ rr >= 2 * ss
    BY <1>5 DEF AtLeastRoot
  <2> HIDE DEF pp, qq, rr, ss, pr, qs
  <2>2. pp * rr >= (2 * qq) * rr
    BY <1>1, <2>1, SMT
  <2>3. (2 * qq) * rr >= (2 * qq) * (2 * ss)
    BY <1>1, <2>1, SMT
  <2>4. pr * pr >= (2 * qs) * (2 * qs)
    BY <1>1, <1>3, <2>2, <2>3, SMT
  <2>5. 2 * qs <= pr
    BY <1>1, <2>4, SquaresTell
  <2>6. pp + 2 * pr + rr >= 2 * (qq + 2 * qs + ss)
    BY <1>1, <2>1, <2>5, SMT
  <2> QED BY <1>2, <2>6 DEF AtLeastRoot
<1> QED BY <1>4, <1>5

(* What is at most the root of two, for one part strictly, stays so.       *)
LEMMA RootsDiffer ==
  ASSUME NEW p \in Nat, NEW q \in Nat, NEW r \in Nat, NEW s \in Nat,
         AtMostRoot(p, q), AtLeastRoot(r, s)
  PROVE  /\ p >= r /\ q >= s => AtMostRoot(p - r, q - s)
         /\ r >= p /\ s >= q => AtLeastRoot(r - p, s - q)
         /\ ~(p > r /\ s > q)
<1>1. ASSUME p >= r, q >= s PROVE AtMostRoot(p - r, q - s)
  <2> DEFINE u == p - r
             v == q - s
  <2>1. u \in Nat /\ v \in Nat /\ u + r = p /\ v + s = q
    BY <1>1, SMT
  <2> SUFFICES ASSUME ~AtMostRoot(u, v) PROVE FALSE
    BY Zenon
  <2> HIDE DEF u, v
  <2> DEFINE uu == u * u
             vv == v * v
             rr == r * r
             ss == s * s
             ur == u * r
             vs == v * s
  <2>2. uu \in Nat /\ vv \in Nat /\ rr \in Nat /\ ss \in Nat /\ ur \in Nat /\ vs \in Nat
    BY <2>1, SMT
  <2>3. p * p = uu + 2 * ur + rr /\ q * q = vv + 2 * vs + ss
    BY <2>1, SMT
  <2>4. uu > 2 * vv /\ rr >= 2 * ss /\ p * p <= 2 * (q * q)
    BY <2>2 DEF AtMostRoot, AtLeastRoot
  <2>5. ur * ur = uu * rr /\ (2 * vs) * (2 * vs) = (2 * vv) * (2 * ss)
    BY <2>1, SMT
  <2> HIDE DEF uu, vv, rr, ss, ur, vs
  <2>6. uu * rr >= (2 * vv) * rr
    BY <2>2, <2>4, SMT
  <2>7. (2 * vv) * rr >= (2 * vv) * (2 * ss)
    BY <2>2, <2>4, SMT
  <2>8. (2 * vs) * (2 * vs) <= ur * ur
    BY <2>2, <2>5, <2>6, <2>7, SMT
  <2>9. 2 * vs <= ur
    BY <2>2, <2>8, SquaresTell
  <2> QED BY <2>2, <2>3, <2>4, <2>9, SMT
<1>2. ASSUME r >= p, s >= q PROVE AtLeastRoot(r - p, s - q)
  <2> DEFINE u == r - p
             v == s - q
  <2>1. u \in Nat /\ v \in Nat /\ u + p = r /\ v + q = s
    BY <1>2, SMT
  <2> SUFFICES ASSUME ~AtLeastRoot(u, v) PROVE FALSE
    BY Zenon
  <2> HIDE DEF u, v
  <2> DEFINE uu == u * u
             vv == v * v
             pp == p * p
             qq == q * q
             up == u * p
             vq == v * q
  <2>2. uu \in Nat /\ vv \in Nat /\ pp \in Nat /\ qq \in Nat /\ up \in Nat /\ vq \in Nat
    BY <2>1, SMT
  <2>3. r * r = uu + 2 * up + pp /\ s * s = vv + 2 * vq + qq
    BY <2>1, SMT
  <2>4. uu < 2 * vv /\ pp <= 2 * qq /\ r * r >= 2 * (s * s)
    BY <2>2 DEF AtMostRoot, AtLeastRoot
  <2>5. up * up = uu * pp /\ (2 * vq) * (2 * vq) = (2 * vv) * (2 * qq)
    BY <2>1, SMT
  <2> HIDE DEF uu, vv, pp, qq, up, vq
  <2>6. uu * pp <= (2 * vv) * pp
    BY <2>2, <2>4, SMT
  <2>7. (2 * vv) * pp <= (2 * vv) * (2 * qq)
    BY <2>2, <2>4, SMT
  <2>8. up * up <= (2 * vq) * (2 * vq)
    BY <2>2, <2>5, <2>6, <2>7, SMT
  <2>9. up <= 2 * vq
    BY <2>2, <2>8, SquaresTell
  <2> QED BY <2>2, <2>3, <2>4, <2>9, SMT
<1>3. ASSUME p > r, s > q PROVE FALSE
  <2> DEFINE pp == p * p
             qq == q * q
             rr == r * r
             ss == s * s
  <2>1. pp \in Nat /\ qq \in Nat /\ rr \in Nat /\ ss \in Nat
    BY SMT
  <2>2. rr < pp /\ qq < ss
    BY <1>3, SquaresTell
  <2>3. pp <= 2 * qq /\ rr >= 2 * ss
    BY DEF AtMostRoot, AtLeastRoot
  <2> HIDE DEF pp, qq, rr, ss
  <2> QED BY <2>1, <2>2, <2>3, SMT
<1> QED BY <1>1, <1>2, <1>3

(* What is not positive, by the signs of its parts.                        *)
LEMMA NotPositive ==
  ASSUME NEW a \in Int, NEW b \in Int
  PROVE  ~Positive(<<a, b>>) <=>
           \/ a <= 0 /\ b <= 0
           \/ a >= 0 /\ b <= 0 /\ AtMostRoot(a, -b)
           \/ a <= 0 /\ b >= 0 /\ AtLeastRoot(-a, b)
<1>0. <<a, b>>[1] = a /\ <<a, b>>[2] = b /\ (<<a, b>> # <<0, 0>> <=> (a # 0 \/ b # 0))
  OBVIOUS
<1>1. (-a) * (-a) = a * a /\ (-b) * (-b) = b * b
  BY SMT
<1>2. 2 * b * b = 2 * (b * b)
  BY SMT
<1>3. Positive(<<a, b>>) <=>
        \/ a >= 0 /\ b >= 0 /\ (a # 0 \/ b # 0)
        \/ a > 0 /\ b < 0 /\ a * a > 2 * (b * b)
        \/ a < 0 /\ b > 0 /\ a * a < 2 * (b * b)
  BY <1>0, <1>2, Zenon DEF Positive
<1> DEFINE aa == a * a
           bb == b * b
<1>4. aa \in Nat /\ bb \in Nat /\ (aa = 0 <=> a = 0) /\ (bb = 0 <=> b = 0)
  BY SMT
<1>5. (AtMostRoot(a, -b) <=> aa <= 2 * bb) /\ (AtLeastRoot(-a, b) <=> aa >= 2 * bb)
  BY <1>1, Zenon DEF AtMostRoot, AtLeastRoot
<1>6. Positive(<<a, b>>) <=>
        \/ a >= 0 /\ b >= 0 /\ (a # 0 \/ b # 0)
        \/ a > 0 /\ b < 0 /\ aa > 2 * bb
        \/ a < 0 /\ b > 0 /\ aa < 2 * bb
  BY <1>3, Zenon
<1> HIDE DEF aa, bb
<1> QED BY <1>4, <1>5, <1>6, SMT

(* Numbers that are not positive add up to one that is not, and of a       *)
(* number and its negative one is not.                                     *)
LEMMA NotPositiveAdds ==
  ASSUME NEW a \in Int, NEW b \in Int, NEW c \in Int, NEW d \in Int,
         ~Positive(<<a, b>>), ~Positive(<<c, d>>)
  PROVE  ~Positive(<<a + c, b + d>>)
<1> DEFINE Low(x, y) == x <= 0 /\ y <= 0
           Right(x, y) == x >= 0 /\ y <= 0 /\ AtMostRoot(x, -y)
           Left(x, y) == x <= 0 /\ y >= 0 /\ AtLeastRoot(-x, y)
<1>1. ASSUME NEW x \in Int, NEW y \in Int
      PROVE  ~Positive(<<x, y>>) <=> Low(x, y) \/ Right(x, y) \/ Left(x, y)
  BY NotPositive
<1>2. ASSUME NEW x \in Int, NEW y \in Int, NEW z \in Int, NEW w \in Int
      PROVE  /\ Right(x, y) /\ Right(z, w) => Right(x + z, y + w)
             /\ Left(x, y) /\ Left(z, w) => Left(x + z, y + w)
  <2>1. ASSUME Right(x, y), Right(z, w) PROVE Right(x + z, y + w)
    <3>1. x \in Nat /\ -y \in Nat /\ z \in Nat /\ -w \in Nat
      BY <2>1
    <3>2. AtMostRoot(x + z, (-y) + (-w))
      BY <2>1, <3>1, RootsAdd
    <3>3. (-y) + (-w) = -(y + w)
      OBVIOUS
    <3>4. AtMostRoot(x + z, -(y + w))
      BY <3>2, <3>3, Zenon
    <3> QED BY <3>1, <3>4
  <2>2. ASSUME Left(x, y), Left(z, w) PROVE Left(x + z, y + w)
    <3>1. -x \in Nat /\ y \in Nat /\ -z \in Nat /\ w \in Nat
      BY <2>2
    <3>2. AtLeastRoot((-x) + (-z), y + w)
      BY <2>2, <3>1, RootsAdd
    <3>3. (-x) + (-z) = -(x + z)
      OBVIOUS
    <3>4. AtLeastRoot(-(x + z), y + w)
      BY <3>2, <3>3, Zenon
    <3> QED BY <3>1, <3>4
  <2> QED BY <2>1, <2>2
<1>3. ASSUME NEW x \in Int, NEW y \in Int, NEW z \in Int, NEW w \in Int, Low(x, y)
      PROVE  /\ Right(z, w) => Low(x + z, y + w) \/ Right(x + z, y + w)
             /\ Left(z, w) => Low(x + z, y + w) \/ Left(x + z, y + w)
  <2>1. ASSUME Right(z, w) PROVE Low(x + z, y + w) \/ Right(x + z, y + w)
    <3>1. CASE x + z <= 0
      BY <1>3, <2>1, <3>1
    <3>2. CASE x + z > 0
      <4> DEFINE u == x + z
                 v == -(y + w)
      <4>1. u \in Nat /\ v \in Nat /\ z \in Nat /\ -w \in Nat /\ u <= z /\ -w <= v
        BY <1>3, <2>1, <3>2
      <4> HIDE DEF u, v
      <4>2. u * u <= z * z /\ (-w) * (-w) <= v * v
        BY <4>1, SquaresTell
      <4>3. z * z <= 2 * ((-w) * (-w))
        BY <2>1 DEF AtMostRoot
      <4>4. u * u \in Int /\ z * z \in Int /\ (-w) * (-w) \in Int /\ v * v \in Int
        BY <4>1, SMT
      <4>5. AtMostRoot(u, v)
        BY <4>2, <4>3, <4>4 DEF AtMostRoot
      <4>6. u >= 0 /\ y + w <= 0
        BY <4>1 DEF v
      <4> QED BY <4>5, <4>6 DEF u, v
    <3> QED BY <3>1, <3>2
  <2>2. ASSUME Left(z, w) PROVE Low(x + z, y + w) \/ Left(x + z, y + w)
    <3>1. CASE y + w <= 0
      BY <1>3, <2>2, <3>1
    <3>2. CASE y + w > 0
      <4> DEFINE u == -(x + z)
                 v == y + w
      <4>1. u \in Nat /\ v \in Nat /\ -z \in Nat /\ w \in Nat /\ -z <= u /\ v <= w
        BY <1>3, <2>2, <3>2
      <4> HIDE DEF u, v
      <4>2. (-z) * (-z) <= u * u /\ v * v <= w * w
        BY <4>1, SquaresTell
      <4>3. (-z) * (-z) >= 2 * (w * w)
        BY <2>2 DEF AtLeastRoot
      <4>4. u * u \in Int /\ (-z) * (-z) \in Int /\ w * w \in Int /\ v * v \in Int
        BY <4>1, SMT
      <4>5. AtLeastRoot(u, v)
        BY <4>2, <4>3, <4>4 DEF AtLeastRoot
      <4>6. v >= 0 /\ x + z <= 0
        BY <4>1 DEF u
      <4> QED BY <4>5, <4>6 DEF u, v
    <3> QED BY <3>1, <3>2
  <2> QED BY <2>1, <2>2
<1>4. ASSUME NEW x \in Int, NEW y \in Int, NEW z \in Int, NEW w \in Int, Right(x, y), Left(z, w)
      PROVE  Low(x + z, y + w) \/ Right(x + z, y + w) \/ Left(x + z, y + w)
  <2> DEFINE q == -y
             r == -z
  <2>1. x \in Nat /\ q \in Nat /\ r \in Nat /\ w \in Nat
    BY <1>4
  <2>2. AtMostRoot(x, q) /\ AtLeastRoot(r, w)
    BY <1>4
  <2>3. x + z = x - r /\ y + w = w - q /\ -(x + z) = r - x /\ -(y + w) = q - w
    OBVIOUS
  <2> HIDE DEF q, r
  <2>4. /\ x >= r /\ q >= w => AtMostRoot(x - r, q - w)
        /\ r >= x /\ w >= q => AtLeastRoot(r - x, w - q)
        /\ ~(x > r /\ w > q)
    BY <2>1, <2>2, RootsDiffer
  <2>5. CASE x >= r /\ q >= w
    <3>1. AtMostRoot(x + z, -(y + w))
      BY <2>3, <2>4, <2>5, Zenon
    <3>2. x + z >= 0 /\ y + w <= 0
      BY <2>1, <2>3, <2>5
    <3> QED BY <3>1, <3>2
  <2>6. CASE r >= x /\ w >= q
    <3>1. AtLeastRoot(-(x + z), y + w)
      <4>1. AtLeastRoot(r - x, w - q)
        BY <2>4, <2>6
      <4>2. r - x = -(x + z) /\ w - q = y + w
        BY <2>3
      <4> QED BY <4>1, <4>2, Zenon
    <3>2. x + z <= 0 /\ y + w >= 0
      BY <2>1, <2>3, <2>6
    <3> QED BY <3>1, <3>2
  <2>7. CASE r >= x /\ q >= w
    BY <2>1, <2>3, <2>7
  <2>8. (x >= r /\ q >= w) \/ (r >= x /\ w >= q) \/ (r >= x /\ q >= w)
    BY <2>1, <2>4
  <2> QED BY <2>5, <2>6, <2>7, <2>8
<1> HIDE DEF Low, Right, Left
<1>5. Low(a, b) \/ Right(a, b) \/ Left(a, b)
  BY <1>1, Zenon
<1>6. Low(c, d) \/ Right(c, d) \/ Left(c, d)
  BY <1>1, Zenon
<1>7. a + c \in Int /\ b + d \in Int /\ c + a = a + c /\ d + b = b + d
  OBVIOUS
<1>8. ASSUME Low(a, b), Low(c, d) PROVE Low(a + c, b + d)
  BY <1>8 DEF Low
<1>9. Low(a + c, b + d) \/ Right(a + c, b + d) \/ Left(a + c, b + d)
  <2>1. CASE Low(a, b)
    BY <1>3, <1>6, <1>8, <2>1, Zenon
  <2>2. CASE Low(c, d)
    <3>1. Low(c + a, d + b) \/ Right(c + a, d + b) \/ Left(c + a, d + b)
      BY <1>3, <1>5, <1>8, <2>1, <2>2, <1>7, Zenon
    <3> QED BY <1>7, <3>1, Zenon
  <2>3. CASE Right(a, b) /\ Left(c, d)
    BY <1>4, <2>3, Zenon
  <2>4. CASE Left(a, b) /\ Right(c, d)
    <3>1. Low(c + a, d + b) \/ Right(c + a, d + b) \/ Left(c + a, d + b)
      BY <1>4, <2>4, Zenon
    <3> QED BY <1>7, <3>1, Zenon
  <2>5. CASE (Right(a, b) /\ Right(c, d)) \/ (Left(a, b) /\ Left(c, d))
    BY <1>2, <2>5, Zenon
  <2> QED BY <1>5, <1>6, <2>1, <2>2, <2>3, <2>4, <2>5, Zenon
<1> QED BY <1>1, <1>7, <1>9, Zenon

(* Greater orders the numbers a + b*sqrt(2): it is asymmetric, and what is *)
(* not above a number that is not above another is not above that other.   *)
Surd == Int \X Int

LEMMA GreaterOrders ==
  ASSUME NEW x \in Surd, NEW y \in Surd, NEW z \in Surd
  PROVE  /\ Greater(x, y) => ~Greater(y, x)
         /\ ~Greater(x, y) /\ ~Greater(y, z) => ~Greater(x, z)
<1> DEFINE a == x[1] - y[1]
           b == x[2] - y[2]
           c == y[1] - z[1]
           d == y[2] - z[2]
<1>1. /\ a \in Int /\ b \in Int /\ c \in Int /\ d \in Int
      /\ x[1] - z[1] = a + c /\ x[2] - z[2] = b + d
      /\ y[1] - x[1] = -a /\ y[2] - x[2] = -b
  BY DEF Surd
<1>2. /\ Greater(x, y) <=> Positive(<<a, b>>)
      /\ Greater(y, x) <=> Positive(<<-a, -b>>)
      /\ Greater(y, z) <=> Positive(<<c, d>>)
      /\ Greater(x, z) <=> Positive(<<a + c, b + d>>)
  BY <1>1, Zenon DEF Greater
<1> HIDE DEF a, b, c, d
<1>3. ~Positive(<<a, b>>) /\ ~Positive(<<c, d>>) => ~Positive(<<a + c, b + d>>)
  BY <1>1, NotPositiveAdds
<1>4. Positive(<<a, b>>) => ~Positive(<<-a, -b>>)
  <2>1. -a \in Int /\ -b \in Int /\ -(-a) = a /\ -(-b) = b
    BY <1>1
  <2>2. ~Positive(<<-a, -b>>) <=>
           \/ -a <= 0 /\ -b <= 0
           \/ -a >= 0 /\ -b <= 0 /\ AtMostRoot(-a, b)
           \/ -a <= 0 /\ -b >= 0 /\ AtLeastRoot(a, -b)
    <3>1. \A u, v \in Int : ~Positive(<<u, v>>) <=>
           \/ u <= 0 /\ v <= 0
           \/ u >= 0 /\ v <= 0 /\ AtMostRoot(u, -v)
           \/ u <= 0 /\ v >= 0 /\ AtLeastRoot(-u, v)
      BY NotPositive
    <3> QED BY <2>1, <3>1, Zenon
  <2> DEFINE aa == a * a
             bb == b * b
  <2>3. (-a) * (-a) = aa /\ (-b) * (-b) = bb /\ aa \in Nat /\ bb \in Nat
    BY <1>1, SMT
  <2>4. <<a, b>>[1] = a /\ <<a, b>>[2] = b /\ 2 * b * b = 2 * bb
    BY <1>1, SMT
  <2>5. /\ AtMostRoot(-a, b) <=> aa <= 2 * bb
        /\ AtLeastRoot(a, -b) <=> aa >= 2 * bb
    BY <2>3, Zenon DEF AtMostRoot, AtLeastRoot
  <2>6. Positive(<<a, b>>) =>
           \/ a >= 0 /\ b >= 0
           \/ a > 0 /\ b < 0 /\ aa > 2 * bb
           \/ a < 0 /\ b > 0 /\ aa < 2 * bb
    BY <2>4, Zenon DEF Positive
  <2> HIDE DEF aa, bb
  <2> QED BY <1>1, <2>2, <2>3, <2>5, <2>6, SMT
<1> QED BY <1>2, <1>3, <1>4, Zenon

(* What a fold comes to after each of the first positions.                 *)
Folded(State, step, base, m, scan) ==
  /\ scan[1 .. 0] = base
  /\ \A j \in Nat : j <= m => scan[1 .. j] \in State
  /\ \A j \in Nat : j + 1 <= m => scan[1 .. j + 1] = step[<<scan[1 .. j], j + 1>>]

(* A fold takes one step by position, in their order, and keeps the type   *)
(* of the state.                                                           *)
LEMMA FoldSteps ==
  ASSUME NEW State, NEW base \in State, NEW m \in Nat, NEW step \in [State \X (1 .. m) -> State],
         NEW scan, NEW after,
         scan = [S \in SUBSET (1 .. m) |-> IF S = {} THEN base ELSE after[S]],
         \A S \in SUBSET (1 .. m) : S # {} /\ scan[S \ {Max(S)}] \in State
            => after[S] = step[<<scan[S \ {Max(S)}], Max(S)>>]
  PROVE  Folded(State, step, base, m, scan)
<1>1. scan[1 .. 0] = base
  <2>1. 1 .. 0 = {} /\ 1 .. 0 \in SUBSET (1 .. m)
    OBVIOUS
  <2> QED BY <2>1, Zenon
<1>2. ASSUME NEW j \in Nat, j + 1 <= m, scan[1 .. j] \in State
      PROVE  scan[1 .. j + 1] = step[<<scan[1 .. j], j + 1>>]
  <2>1. 1 .. j + 1 \in SUBSET (1 .. m) /\ j + 1 \in 1 .. j + 1
    BY <1>2
  <2>2. Max(1 .. j + 1) = j + 1 /\ (1 .. j + 1) \ {j + 1} = 1 .. j
    BY MaxOfPositions, Zenon
  <2> DEFINE S == 1 .. j + 1
  <2>3. S \in SUBSET (1 .. m) /\ S # {} /\ Max(S) = j + 1 /\ S \ {j + 1} = 1 .. j
    BY <2>1, <2>2, Zenon
  <2> HIDE DEF S
  <2>4. scan[S] = after[S]
    BY <2>3, Zenon
  <2>5. after[S] = step[<<scan[1 .. j], j + 1>>]
    BY <1>2, <2>3, ZenonT(60)
  <2> QED BY <2>4, <2>5 DEF S
<1> DEFINE P == {j \in Nat : j <= m => scan[1 .. j] \in State}
<1>3. 0 \in P
  BY <1>1
<1>4. ASSUME NEW j \in Nat, j \in P PROVE j + 1 \in P
  <2>1. SUFFICES ASSUME j + 1 <= m PROVE scan[1 .. j + 1] \in State
    OBVIOUS
  <2>2. scan[1 .. j] \in State /\ j + 1 \in 1 .. m
    BY <1>4, <2>1
  <2>3. scan[1 .. j + 1] = step[<<scan[1 .. j], j + 1>>]
    BY <1>2, <2>1, <2>2, Zenon
  <2> QED BY <2>2, <2>3
<1> HIDE DEF P
<1>5. P \in SUBSET Nat
  BY DEF P
<1>6. \A j \in Nat : j \in P
  BY <1>3, <1>4, <1>5, InductiveSet
<1>7. \A j \in Nat : j <= m => scan[1 .. j] \in State
  BY <1>6, Zenon DEF P
<1>8. \A j \in Nat : j + 1 <= m => scan[1 .. j + 1] = step[<<scan[1 .. j], j + 1>>]
  <2>1. \A j \in Nat : j + 1 <= m => j <= m
    OBVIOUS
  <2> QED BY <1>2, <1>7, <2>1, Zenon
<1> QED BY <1>1, <1>7, <1>8, Zenon DEF Folded

-----------------------------------------------------------------------------
(* What fft_get_top_k makes of the first m frequencies: the K strongest,   *)
(* strongest first, each once.                                             *)
RankedFirst(mags, top, m) ==
  /\ top \in [1 .. K -> Int]
  /\ \A j \in 1 .. K : IF j <= m THEN top[j] \in 1 .. m ELSE top[j] = -1
  /\ \A i, j \in 1 .. K : i < j /\ j <= m =>
       top[i] # top[j] /\ ~Greater(mags[top[j]], mags[top[i]])
  /\ \A k \in 1 .. m :
       \/ \E j \in 1 .. K : top[j] = k
       \/ m > K /\ \A j \in 1 .. K : ~Greater(mags[k], mags[top[j]])

(* What is put in front of the i-th entry.                                 *)
LEMMA PutInFront ==
  ASSUME NEW top \in [1 .. K -> Int], NEW i \in 1 .. K, NEW k \in Int
  PROVE  SubSeq(InsertAt(top, i, k), 1, K)
           = [j \in 1 .. K |-> IF j < i THEN top[j] ELSE IF j = i THEN k ELSE top[j - 1]]
<1>1. K = 5
  BY DEF K
<1>2. top \in Seq(Int) /\ Len(top) = 5
  <2>1. top \in [1 .. 5 -> Int]
    BY <1>1
  <2>2. top \in Seq(Int)
    <3>1. 5 \in Nat
      OBVIOUS
    <3> QED BY <2>1, <3>1, SeqDef, ZenonT(60)
  <2>3. 1 .. Len(top) = 1 .. 5 /\ Len(top) \in Nat
    <3>1. Len(top) \in Nat /\ top \in [1 .. Len(top) -> Int]
      BY <2>2, LenProperties
    <3> QED BY <2>1, <3>1, Zenon
  <2>4. \A l \in Nat : 1 .. l = 1 .. 5 => l = 5
    <3> TAKE l \in Nat
    <3> HAVE 1 .. l = 1 .. 5
    <3>1. \A x : x \in 1 .. l <=> x \in 1 .. 5
      BY Zenon
    <3>2. (5 \in 1 .. l <=> 5 \in 1 .. 5) /\ (l \in 1 .. l <=> l \in 1 .. 5)
      BY <3>1, Zenon
    <3>3. (5 \in 1 .. l => 5 <= l) /\ 5 \in 1 .. 5 /\ (l # 0 => l \in 1 .. l)
      OBVIOUS
    <3>4. l \in 1 .. 5 => l <= 5
      OBVIOUS
    <3>5. 5 <= l /\ (l # 0 => l <= 5)
      BY <3>2, <3>3, <3>4, Zenon
    <3> QED BY <3>5
  <2> QED BY <2>2, <2>3, <2>4, Zenon
<1> DEFINE head == SubSeq(top, 1, i - 1)
           tail == SubSeq(top, i, 5)
           all == head \o <<k>> \o tail
<1>3. /\ head \in Seq(Int) /\ Len(head) = i - 1
      /\ \A j \in 1 .. i - 1 : head[j] = top[j]
  BY <1>1, <1>2
<1>4. /\ tail \in Seq(Int) /\ Len(tail) = 6 - i
      /\ \A j \in 1 .. 6 - i : tail[j] = top[i + j - 1]
  BY <1>1, <1>2
<1> HIDE DEF head, tail
<1>5. /\ all \in Seq(Int) /\ Len(all) = 6
      /\ \A j \in 1 .. 6 : all[j] = IF j < i THEN head[j] ELSE IF j = i THEN k ELSE tail[j - i]
  <2> DEFINE front == head \o <<k>>
  <2>1. /\ front \in Seq(Int) /\ Len(front) = i
        /\ \A j \in 1 .. i : front[j] = IF j < i THEN head[j] ELSE k
    BY <1>1, <1>3
  <2> HIDE DEF front
  <2>2. /\ front \o tail \in Seq(Int) /\ Len(front \o tail) = 6
        /\ \A j \in 1 .. 6 : (front \o tail)[j] = IF j <= i THEN front[j] ELSE tail[j - i]
    <3>1. front \o tail \in Seq(Int) /\ Len(front \o tail) = i + (6 - i)
      BY <1>4, <2>1, ConcatProperties
    <3>2. \A j \in 1 .. i + (6 - i) :
            (front \o tail)[j] = IF j <= i THEN front[j] ELSE tail[j - i]
      BY <1>4, <2>1, ConcatProperties
    <3>3. i + (6 - i) = 6
      BY <1>1
    <3> QED BY <3>1, <3>2, <3>3
  <2>3. all = front \o tail
    BY DEF front
  <2>4. ASSUME NEW j \in 1 .. 6
        PROVE  (front \o tail)[j] = IF j < i THEN head[j] ELSE IF j = i THEN k ELSE tail[j - i]
    <3>1. CASE j <= i
      <4>0. j \in 1 .. i
        BY <1>1, <3>1
      <4>1. j \in 1 .. i /\ (front \o tail)[j] = front[j]
        BY <2>2, <3>1, <4>0, Zenon
      <4>2. front[j] = IF j < i THEN head[j] ELSE k
        BY <2>1, <4>1, Zenon
      <4>3. j < i \/ j = i
        BY <1>1, <3>1
      <4> QED BY <4>1, <4>2, <4>3
    <3>2. CASE j > i
      <4>1. ~(j <= i) /\ ~(j < i) /\ j # i
        BY <1>1, <3>2
      <4> QED BY <2>2, <4>1, Zenon
    <3>3. j <= i \/ j > i
      BY <1>1
    <3> QED BY <3>1, <3>2, <3>3, Zenon
  <2> HIDE DEF all
  <2> QED BY <2>2, <2>3, <2>4, Zenon
<1>6. InsertAt(top, i, k) = all
  BY <1>2 DEF InsertAt, head, tail
<1> HIDE DEF all
<1>7. \A j \in 1 .. 5 : all[j] = IF j < i THEN top[j] ELSE IF j = i THEN k ELSE top[j - 1]
  <2> TAKE j \in 1 .. 5
  <2>0. j \in 1 .. 6
    OBVIOUS
  <2>1. CASE j < i
    <3>1. j \in 1 .. i - 1
      BY <1>1, <2>1
    <3> QED BY <1>3, <1>5, <2>0, <2>1, <3>1, Zenon
  <2>2. CASE j = i
    <3>1. ~(j < i)
      BY <1>1, <2>2
    <3> QED BY <1>5, <2>0, <2>2, <3>1, Zenon
  <2>3. CASE j > i
    <3>1. j - i \in 1 .. 6 - i /\ i + (j - i) - 1 = j - 1 /\ ~(j < i) /\ j # i
      BY <1>1, <2>3
    <3>2. tail[j - i] = top[i + (j - i) - 1]
      BY <1>4, <3>1, Zenon
    <3>3. tail[j - i] = top[j - 1]
      BY <3>1, <3>2
    <3> QED BY <1>5, <2>0, <3>1, <3>3, Zenon
  <2> QED BY <1>1, <2>1, <2>2, <2>3
<1>8. SubSeq(all, 1, 5) = [j \in 1 .. 5 |-> all[j]]
  BY <1>5
<1>9. [j \in 1 .. 5 |-> all[j]]
        = [j \in 1 .. 5 |-> IF j < i THEN top[j] ELSE IF j = i THEN k ELSE top[j - 1]]
  BY <1>7, Zenon
<1> QED BY <1>1, <1>6, <1>8, <1>9, Zenon

(* One more frequency keeps the ranking.                                   *)
LEMMA RankingGrows ==
  ASSUME NEW n \in Nat, NEW mags \in [0 .. n -> Surd], NEW m \in Nat, m + 1 <= n,
         NEW top, RankedFirst(mags, top, m)
  PROVE  RankedFirst(mags, Inserted(mags, top, m + 1), m + 1)
<1> DEFINE k == m + 1
           places == {j \in 1 .. K : Exceeds(mags, k, top[j])}
           G(x, y) == Greater(mags[x], mags[y])
<1>0. K = 5 /\ top \in [1 .. K -> Int]
  BY DEF K, RankedFirst
<1>1. /\ \A j \in 1 .. K : j <= m => top[j] \in 1 .. m
      /\ \A j \in 1 .. K : j > m => top[j] = -1
      /\ \A i, j \in 1 .. K : i < j /\ j <= m => top[i] # top[j] /\ ~G(top[j], top[i])
      /\ \A l \in 1 .. m : \/ \E j \in 1 .. K : top[j] = l
                           \/ m > K /\ \A j \in 1 .. K : ~G(l, top[j])
  <2>1. \A j \in 1 .. K : j > m => ~(j <= m)
    BY <1>0
  <2> QED BY <2>1, Zenon DEF RankedFirst
<1>2. \A x, y, z \in 1 .. n :
        /\ G(x, y) => ~G(y, x)
        /\ ~G(x, y) /\ ~G(y, z) => ~G(x, z)
  <2> TAKE x, y, z \in 1 .. n
  <2>1. mags[x] \in Surd /\ mags[y] \in Surd /\ mags[z] \in Surd
    OBVIOUS
  <2> QED BY <2>1, GreaterOrders
<1>3. k \in 1 .. n /\ \A l \in 1 .. m : l \in 1 .. n /\ l # k
  OBVIOUS
<1>4. \A j \in 1 .. K : j \in places <=> (j > m \/ G(k, top[j]))
  <2> TAKE j \in 1 .. K
  <2>1. top[j] = -1 <=> j > m
    BY <1>0, <1>1
  <2> QED BY <2>1, Zenon DEF Exceeds
<1> DEFINE new == Inserted(mags, top, k)
<1>5. CASE places = {}
  <2>1. new = top
    BY <1>5, Zenon DEF Inserted
  <2>2. m >= K /\ \A j \in 1 .. K : ~G(k, top[j])
    BY <1>0, <1>4, <1>5
  <2> HIDE DEF new, places, G
  <2>3. \A j \in 1 .. K : j <= m /\ top[j] \in 1 .. m /\ j <= k /\ top[j] \in 1 .. k
    BY <1>0, <1>1, <2>2
  <2>4. \A i, j \in 1 .. K : i < j /\ j <= k => top[i] # top[j] /\ ~G(top[j], top[i])
    BY <1>1, <2>3, Zenon
  <2>5. \A l \in 1 .. k : (\E j \in 1 .. K : top[j] = l) \/ (k > K /\ \A j \in 1 .. K : ~G(l, top[j]))
    <3>1. k > K
      BY <1>0, <2>2
    <3>2. \A l \in 1 .. k : l \in 1 .. m \/ l = k
      OBVIOUS
    <3> QED BY <1>1, <2>2, <3>1, <3>2, Zenon
  <2>6. RankedFirst(mags, top, k)
    BY <1>0, <2>3, <2>4, <2>5, Zenon DEF RankedFirst, G
  <2> QED BY <2>1, <2>6, Zenon DEF new
<1>6. CASE places # {}
  <2> DEFINE i == Min(places)
  <2>1. i \in places /\ \A j \in places : i <= j
    <3>1. places \in SUBSET Nat
      BY <1>0
    <3> HIDE DEF places
    <3> QED BY <1>6, <3>1, MinOfNaturals
  <2>2. i \in 1 .. K
    BY <2>1
  <2>3. new = [j \in 1 .. K |-> IF j < i THEN top[j] ELSE IF j = i THEN k ELSE top[j - 1]]
    <3>1. new = SubSeq(InsertAt(top, i, k), 1, K)
      BY <1>6, Zenon DEF Inserted
    <3> HIDE DEF new, i, places
    <3> QED BY <1>0, <2>2, <3>1, PutInFront, SMTT(40)
  <2>4. i > m \/ G(k, top[i])
    BY <1>4, <2>1, <2>2, Zenon
  <2>5. \A j \in 1 .. K : j < i => j <= m /\ ~G(k, top[j])
    <3> TAKE j \in 1 .. K
    <3> HAVE j < i
    <3>1. j \notin places
      <4> HIDE DEF places, G
      <4> QED BY <2>1, <2>2
    <3> QED BY <1>0, <1>4, <3>1
  <2>6. i <= k
    <3> SUFFICES ASSUME i > k PROVE FALSE
      BY <2>2, <1>0
    <3>1. k \in 1 .. K /\ k < i
      BY <1>0, <2>2
    <3> QED BY <2>5, <3>1
  <2> HIDE DEF new, i, places, G, k
  <2>7. k \in Nat /\ k = m + 1
    BY DEF k
  <2>8. /\ new \in [1 .. K -> Int]
        /\ \A j \in 1 .. K : j < i => new[j] = top[j]
        /\ new[i] = k
        /\ \A j \in 1 .. K : j > i => j - 1 \in 1 .. K /\ new[j] = top[j - 1]
    BY <1>0, <2>2, <2>3, <2>7
  (* The place of a frequency before, at and after the i-th entry.         *)
  <2>16. /\ i \in 1 .. K /\ i <= k
         /\ \A j \in 1 .. K : j < i => j <= m /\ j <= k /\ j < K
         /\ \A j \in 1 .. K : j > i => j - 1 \in 1 .. K /\ i <= j - 1 /\ j - 1 < K
         /\ \A j \in 1 .. K : j > i => (j - 1 <= m <=> j <= k) /\ (j - 1 > m <=> j > k)
         /\ \A j \in 1 .. K : j > k <=> ~(j <= k)
         /\ \A j \in 1 .. K : j < i \/ j = i \/ j > i
         /\ \A a, b \in 1 .. K : a < b => (a < i \/ b > i)
         /\ \A a, b \in 1 .. K : a < b /\ b <= i => a < i
         /\ \A a, b \in 1 .. K : a < b /\ a > i => a - 1 < b - 1 /\ b > i
         /\ \A a, b \in 1 .. K : a < i /\ b > i => a < b - 1
         /\ \A a \in 1 .. m : a \in 1 .. k
         /\ k \in 1 .. k
    <3>1. \A j \in 1 .. K : j < i => j <= m
      BY <2>5, Zenon
    <3> QED BY <1>0, <2>2, <2>6, <2>7, <3>1
  <2>9. \A j \in 1 .. K : IF j <= k THEN new[j] \in 1 .. k ELSE new[j] = -1
    <3> TAKE j \in 1 .. K
    <3>1. CASE j < i
      BY <1>1, <2>8, <2>16, <3>1, Zenon
    <3>2. CASE j = i
      BY <2>8, <2>16, <3>2, Zenon
    <3>3. CASE j > i
      <4>1. CASE j <= k
        BY <1>1, <2>8, <2>16, <3>3, <4>1, Zenon
      <4>2. CASE j > k
        BY <1>1, <2>8, <2>16, <3>3, <4>2, Zenon
      <4> QED BY <2>16, <4>1, <4>2, Zenon
    <3> QED BY <2>16, <3>1, <3>2, <3>3, Zenon
  (* What was ranked is not above k after its place, and k not above what  *)
  (* is before it.                                                         *)
  <2>10. \A j \in 1 .. K : i <= j /\ j <= m => ~G(top[j], k)
    <3> TAKE j \in 1 .. K
    <3> HAVE i <= j /\ j <= m
    <3>1. i <= m /\ top[i] \in 1 .. n /\ top[j] \in 1 .. n
      BY <1>0, <1>1, <1>3, <2>2, SMTT(40)
    <3>2. G(k, top[i])
      BY <2>2, <2>4, <1>0, <3>1
    <3>3. ~G(top[i], k)
      BY <1>2, <1>3, <3>1, <3>2, Zenon
    <3>4. j = i \/ ~G(top[j], top[i])
      BY <1>0, <1>1, <2>2
    <3> QED BY <1>2, <1>3, <3>1, <3>3, <3>4, Zenon
  <2>11. \A a, b \in 1 .. K : a < b /\ b <= k => new[a] # new[b] /\ ~G(new[b], new[a])
    <3> TAKE a, b \in 1 .. K
    <3> HAVE a < b /\ b <= k
    <3>1. CASE b < i
      <4>0. b <= i
        BY <1>0, <2>2, <3>1
      <4>1. a < i /\ b <= m /\ new[a] = top[a] /\ new[b] = top[b]
        BY <2>8, <2>16, <3>1, <4>0, Zenon
      <4> QED BY <1>1, <4>1, Zenon
    <3>2. CASE b = i
      <4>0. b <= i
        BY <1>0, <2>2, <3>2
      <4>1. a < i /\ a <= m /\ new[a] = top[a] /\ new[b] = k
        BY <2>8, <2>16, <3>2, <4>0, Zenon
      <4>2. top[a] \in 1 .. m /\ ~G(k, top[a])
        BY <1>1, <2>5, <4>1
      <4> QED BY <1>3, <4>1, <4>2, Zenon
    <3>3. CASE b > i /\ a = i
      <4>1. new[a] = k /\ b - 1 \in 1 .. K /\ new[b] = top[b - 1] /\ i <= b - 1 /\ b - 1 <= m
        BY <2>8, <2>16, <3>3, Zenon
      <4>2. ~G(top[b - 1], k) /\ top[b - 1] \in 1 .. m
        BY <1>1, <2>10, <4>1
      <4> QED BY <1>3, <4>1, <4>2, Zenon
    <3>4. CASE b > i /\ a < i
      <4>1. new[a] = top[a] /\ b - 1 \in 1 .. K /\ new[b] = top[b - 1] /\ a < b - 1 /\ b - 1 <= m
        BY <2>8, <2>16, <3>4, Zenon
      <4> QED BY <1>1, <4>1, Zenon
    <3>5. CASE b > i /\ a > i
      <4>1. /\ a - 1 \in 1 .. K /\ new[a] = top[a - 1]
            /\ b - 1 \in 1 .. K /\ new[b] = top[b - 1] /\ a - 1 < b - 1 /\ b - 1 <= m
        BY <2>8, <2>16, <3>5, Zenon
      <4> QED BY <1>1, <4>1, Zenon
    <3> QED BY <1>0, <2>2, <3>1, <3>2, <3>3, <3>4, <3>5
  (* Each entry stays, but for the last, which makes room when all are     *)
  (* taken.                                                                *)
  <2>12. \A j \in 1 .. K : (j < K \/ j < i) => \E h \in 1 .. K : new[h] = top[j]
    <3> TAKE j \in 1 .. K
    <3> HAVE j < K \/ j < i
    <3>1. CASE j < i
      BY <2>8, <3>1
    <3>2. CASE j >= i
      <4>1. j + 1 \in 1 .. K /\ j + 1 > i /\ (j + 1) - 1 = j
        BY <1>0, <2>2, <3>2
      <4> QED BY <2>8, <4>1
    <3> QED BY <1>0, <2>2, <3>1, <3>2
  <2>13. ASSUME NEW l \in 1 .. m, i <= m, \A j \in 1 .. K : j <= m /\ (l # top[K] \/ j < K) => ~G(l, top[j]),
                K <= m, l # top[K] \/ i <= K
         PROVE  \A j \in 1 .. K : ~G(l, new[j])
    <3>1. i \in 1 .. K /\ top[i] \in 1 .. m /\ top[K] \in 1 .. m /\ K \in 1 .. K
      BY <1>0, <1>1, <2>2, <2>13
    <3>2. ~G(top[i], k)
      BY <2>10, <2>13, <3>1, <1>0
    <3>3. ~G(l, k)
      <4>1. CASE l = top[K]
        BY <1>0, <2>2, <2>10, <2>13, <3>1, <4>1
      <4>2. CASE l # top[K]
        <5>1. ~G(l, top[i])
          BY <2>13, <3>1, <4>2, Zenon
        <5> QED BY <1>2, <1>3, <3>1, <3>2, <5>1, Zenon
      <4> QED BY <4>1, <4>2
    <3> TAKE j \in 1 .. K
    <3>4. CASE j < i
      <4>1. j <= m /\ j < K /\ new[j] = top[j]
        BY <2>8, <2>16, <3>4, Zenon
      <4> QED BY <2>13, <4>1, Zenon
    <3>5. CASE j = i
      BY <2>8, <3>3, <3>5
    <3>6. CASE j > i
      <4>0. j <= k
        BY <1>0, <2>7, <2>13
      <4>1. j - 1 \in 1 .. K /\ j - 1 <= m /\ j - 1 < K /\ new[j] = top[j - 1]
        BY <2>8, <2>16, <3>6, <4>0, Zenon
      <4> QED BY <2>13, <4>1, Zenon
    <3> QED BY <1>0, <2>2, <3>4, <3>5, <3>6
  <2>14. \A l \in 1 .. k : (\E j \in 1 .. K : new[j] = l) \/ (k > K /\ \A j \in 1 .. K : ~G(l, new[j]))
    <3> TAKE l \in 1 .. k
    <3>1. CASE l = k
      BY <2>2, <2>8, <3>1
    <3>2. CASE l # k /\ \E j \in 1 .. K : top[j] = l /\ (j < K \/ j < i)
      BY <2>12, <3>2, Zenon
    <3>3. CASE l # k /\ top[K] = l /\ i <= K /\ m >= K
      <4>0. l \in 1 .. m /\ K \in 1 .. K /\ i <= m
        BY <1>0, <2>2, <2>7, <3>3
      <4>1. \A j \in 1 .. K : j <= m /\ (l # top[K] \/ j < K) => ~G(l, top[j])
        <5> TAKE j \in 1 .. K
        <5> HAVE j <= m /\ (l # top[K] \/ j < K)
        <5>1. j < K /\ K <= m
          BY <3>3
        <5>2. ~G(top[K], top[j])
          BY <1>1, <4>0, <5>1, Zenon
        <5> QED BY <3>3, <5>2, Zenon
      <4>2. \A j \in 1 .. K : ~G(l, new[j])
        BY <2>13, <3>3, <4>0, <4>1, Zenon
      <4>3. k > K
        BY <1>0, <2>7, <3>3
      <4> QED BY <4>2, <4>3, Zenon
    <3>4. CASE l # k /\ ~\E j \in 1 .. K : top[j] = l
      <4>1. l \in 1 .. m
        BY <2>7, <3>4
      <4>2. m > K /\ \A j \in 1 .. K : ~G(l, top[j])
        BY <1>1, <3>4, <4>1, Zenon
      <4>3. i <= m /\ K <= m /\ k > K /\ K \in 1 .. K
        BY <1>0, <2>2, <2>7, <4>2
      <4>4. l # top[K]
        BY <3>4, <4>3, Zenon
      <4>5. \A j \in 1 .. K : ~G(l, new[j])
        BY <2>13, <4>1, <4>2, <4>3, <4>4, Zenon
      <4> QED BY <4>3, <4>5, Zenon
    <3>5. ASSUME NEW j \in 1 .. K, top[j] = l, l # k, ~(j < K \/ j < i)
          PROVE  top[K] = l /\ i <= K /\ m >= K
      <4>1. j = K /\ i <= K
        BY <1>0, <2>2, <3>5
      <4>2. m >= K
        BY <1>0, <1>1, <3>5, <4>1
      <4> QED BY <3>5, <4>1, <4>2
    <3> QED BY <3>1, <3>2, <3>3, <3>4, <3>5, Zenon
  <2>15. RankedFirst(mags, new, k)
    BY <2>8, <2>9, <2>11, <2>14, Zenon DEF RankedFirst, G
  <2> QED BY <2>15, Zenon DEF new, k
<1> QED BY <1>5, <1>6, Zenon

(* What fft_get_top_k comes to, by the definition of FoldLeft.             *)
LEMMA TopKUnfolds ==
  ASSUME NEW mags, ~(Cardinality(DOMAIN mags) <= 1)
  PROVE  LET at == [k \in 1 .. Cardinality(DOMAIN mags) - 1 |-> k]
             D == DOMAIN at
         IN  TopK(mags) = (CHOOSE it : it = [S \in SUBSET D |->
                             IF S = {} THEN [j \in 1 .. K |-> -1]
                             ELSE Inserted(mags, it[S \ {Max(S)}], at[Max(S)])])[D]
BY DEF TopK, FoldLeft, MapThenFoldSet

(* fft_get_top_k ranks the frequencies from 1 to m.                        *)
LEMMA TopKRanks ==
  ASSUME NEW m \in Nat, m >= 1, NEW mags \in [0 .. m -> Surd], Cardinality(DOMAIN mags) = m + 1
  PROVE  RankedFirst(mags, TopK(mags), m)
<1> DEFINE State == [1 .. K -> Int]
           base == [j \in 1 .. K |-> -1]
           at == [k \in 1 .. m |-> k]
           next(top, k) == Inserted(mags, top, k)
           step == [q \in State \X (1 .. m) |-> next(q[1], q[2])]
<1>1. base \in State
  OBVIOUS
<1>2. step \in [State \X (1 .. m) -> State]
  <2>1. ASSUME NEW top \in State, NEW k \in 1 .. m PROVE next(top, k) \in State
    <3> DEFINE places == {j \in 1 .. K : Exceeds(mags, k, top[j])}
    <3>1. CASE places = {}
      BY <3>1, Zenon DEF Inserted
    <3>2. CASE places # {}
      <4>1. Min(places) \in 1 .. K
        <5>1. places \in SUBSET Nat /\ places \in SUBSET (1 .. K)
          BY DEF K
        <5> HIDE DEF places
        <5> QED BY <3>2, <5>1, MinOfNaturals
      <4>2. next(top, k) = SubSeq(InsertAt(top, Min(places), k), 1, K)
        BY <3>2, Zenon DEF Inserted
      <4> HIDE DEF places, next
      <4>3. next(top, k) = [j \in 1 .. K |-> IF j < Min(places) THEN top[j]
                               ELSE IF j = Min(places) THEN k ELSE top[j - 1]]
        <5>1. top \in [1 .. K -> Int] /\ k \in Int
          OBVIOUS
        <5> HIDE DEF State
        <5> QED BY <4>1, <4>2, <5>1, PutInFront, Zenon
      <4>4. K = 5
        BY DEF K
      <4> QED BY <4>1, <4>3, <4>4
    <3> QED BY <3>1, <3>2
  <2> HIDE DEF State, next
  <2> QED BY <2>1
<1>3. PICK it \in [SUBSET (1 .. m) -> State] : FoldsTo(step, base, m, it)
  <2> HIDE DEF step, base, State
  <2> QED BY <1>1, <1>2, FoldsExist
<1> DEFINE After(f, S) == next(f[S \ {Max(S)}], at[Max(S)])
<1>4. \A f : \A S \in SUBSET (1 .. m) : S # {} /\ f[S \ {Max(S)}] \in State
         => After(f, S) = step[<<f[S \ {Max(S)}], Max(S)>>]
  <2> TAKE f
  <2> TAKE S \in SUBSET (1 .. m)
  <2> HAVE S # {} /\ f[S \ {Max(S)}] \in State
  <2>1. Max(S) \in 1 .. m
    BY MaxOfPositions
  <2>2. at[Max(S)] = Max(S)
    BY <2>1
  <2> HIDE DEF next, State
  <2>3. step[<<f[S \ {Max(S)}], Max(S)>>] = next(f[S \ {Max(S)}], Max(S))
    BY <2>1
  <2> QED BY <2>2, <2>3, Zenon
<1>5. it = [S \in SUBSET (1 .. m) |-> IF S = {} THEN base ELSE After(it, S)]
  <2>1. \A S \in SUBSET (1 .. m) : S # {} => it[S \ {Max(S)}] \in State
    BY <1>3
  <2> HIDE DEF step, After, base, State
  <2> QED BY <1>3, <1>4, <2>1, Zenon DEF FoldsTo
<1> DEFINE scan == CHOOSE f : f = [S \in SUBSET (1 .. m) |-> IF S = {} THEN base ELSE After(f, S)]
<1>6. scan = [S \in SUBSET (1 .. m) |-> IF S = {} THEN base ELSE After(scan, S)]
  <2> HIDE DEF After, base
  <2> QED BY <1>5, Zenon
<1>7. TopK(mags) = scan[1 .. m]
  <2> DEFINE all == [k \in 1 .. Cardinality(DOMAIN mags) - 1 |-> k]
  <2>1. ~(Cardinality(DOMAIN mags) <= 1) /\ all = at /\ DOMAIN all = 1 .. m
    OBVIOUS
  <2>2. TopK(mags) = (CHOOSE f : f = [S \in SUBSET DOMAIN all |->
                        IF S = {} THEN base ELSE next(f[S \ {Max(S)}], all[Max(S)])])[DOMAIN all]
    BY <2>1, TopKUnfolds, Zenon
  <2> HIDE DEF all, at, base, next
  <2> QED BY <2>1, <2>2, ZenonT(60)
<1>8. Folded(State, step, base, m, scan)
  <2> DEFINE after == [S \in SUBSET (1 .. m) |-> After(scan, S)]
  <2> HIDE DEF scan, After, base, step, State
  <2>1. scan = [S \in SUBSET (1 .. m) |-> IF S = {} THEN base ELSE after[S]]
    BY <1>6, Zenon
  <2>2. \A S \in SUBSET (1 .. m) : S # {} /\ scan[S \ {Max(S)}] \in State
            => after[S] = step[<<scan[S \ {Max(S)}], Max(S)>>]
    BY <1>4, Zenon
  <2> HIDE DEF after
  <2> QED BY <1>1, <1>2, <2>1, <2>2, FoldSteps, Zenon
<1> HIDE DEF scan
<1> DEFINE P == {j \in Nat : j <= m => RankedFirst(mags, scan[1 .. j], j)}
<1>9. 0 \in P
  <2>1. scan[1 .. 0] = base
    BY <1>8, Zenon DEF Folded
  <2>2. RankedFirst(mags, base, 0)
    BY DEF RankedFirst, K
  <2> HIDE DEF base
  <2> QED BY <2>1, <2>2
<1>10. ASSUME NEW j \in Nat, j \in P PROVE j + 1 \in P
  <2>1. SUFFICES ASSUME j + 1 <= m PROVE RankedFirst(mags, scan[1 .. j + 1], j + 1)
    OBVIOUS
  <2>2. RankedFirst(mags, scan[1 .. j], j) /\ j <= m /\ j + 1 \in 1 .. m
    BY <1>10, <2>1
  <2>3. scan[1 .. j] \in State /\ scan[1 .. j + 1] = step[<<scan[1 .. j], j + 1>>]
    BY <1>8, <2>1, <2>2, Zenon DEF Folded
  <2>4. step[<<scan[1 .. j], j + 1>>] = Inserted(mags, scan[1 .. j], j + 1)
    <3> HIDE DEF State
    <3>1. <<scan[1 .. j], j + 1>> \in State \X (1 .. m)
      BY <2>2, <2>3
    <3> QED BY <3>1
  <2>5. RankedFirst(mags, Inserted(mags, scan[1 .. j], j + 1), j + 1)
    <3>1. m \in Nat /\ mags \in [0 .. m -> Surd]
      OBVIOUS
    <3> QED BY <2>1, <2>2, <3>1, RankingGrows
  <2> HIDE DEF step
  <2> QED BY <2>3, <2>4, <2>5, Zenon
<1> HIDE DEF P
<1>11. P \in SUBSET Nat
  BY DEF P
<1>12. m \in P /\ m <= m
  BY <1>9, <1>10, <1>11, InductiveSet
<1> QED BY <1>7, <1>12, Zenon DEF P

-----------------------------------------------------------------------------
(* No square is twice another but 0.                                       *)
LEMMA NoRootOfTwo ==
  ASSUME NEW a \in Nat, NEW b \in Nat, a * a = 2 * (b * b) PROVE a = 0 /\ b = 0
<1> DEFINE Roots == {y \in Nat : y # 0 /\ \E x \in Nat : x * x = 2 * (y * y)}
<1>1. Roots = {}
  <2> SUFFICES ASSUME Roots # {} PROVE FALSE
    BY Zenon
  <2>0. Roots \in SUBSET Nat
    OBVIOUS
  <2>1. PICK y \in Roots : \A z \in Roots : y <= z
    <3> HIDE DEF Roots
    <3> QED BY <2>0, MinOfNaturals
  <2>2. y \in Nat /\ y # 0
    BY <2>1
  <2>3. PICK x \in Nat : x * x = 2 * (y * y)
    BY <2>1
  <2>4. PICK h \in Nat : x = 2 * h \/ x = 2 * h + 1
    <3>1. x \div 2 \in Nat /\ (x = 2 * (x \div 2) \/ x = 2 * (x \div 2) + 1)
      OBVIOUS
    <3> QED BY <3>1
  <2> DEFINE hh == h * h
             yy == y * y
  <2>5. hh \in Nat /\ yy \in Nat
    BY <2>2, SMT
  <2>6. (2 * h) * (2 * h) = 4 * hh /\ (2 * h + 1) * (2 * h + 1) = 4 * hh + 4 * h + 1
    BY SMT
  <2>7. x = 2 * h /\ yy = 2 * hh
    <3>1. x # 2 * h + 1
      <4> SUFFICES ASSUME x = 2 * h + 1 PROVE FALSE
        OBVIOUS
      <4>1. 4 * hh + 4 * h + 1 = 2 * yy
        BY <2>3, <2>6, Zenon
      <4> HIDE DEF hh, yy
      <4> QED BY <2>5, <4>1
    <3>2. x = 2 * h
      BY <2>4, <3>1
    <3>3. 4 * hh = 2 * yy
      BY <2>3, <2>6, <3>2, Zenon
    <3> HIDE DEF hh, yy
    <3> QED BY <2>5, <3>2, <3>3
  <2>8. h # 0
    <3> SUFFICES ASSUME h = 0 PROVE FALSE
      OBVIOUS
    <3>1. hh = 0 /\ yy # 0
      BY <2>2, SMT
    <3> QED BY <2>7, <3>1
  <2>9. h \in Roots
    BY <2>2, <2>7, <2>8
  <2>10. y <= h
    BY <2>1, <2>9, Zenon
  <2>11. yy <= hh
    BY <2>2, <2>10, SquaresTell
  <2>12. hh # 0
    BY <2>8, SMT
  <2> HIDE DEF hh, yy
  <2> QED BY <2>5, <2>7, <2>11, <2>12
<1>2. b = 0
  BY <1>1
<1>3. a * a = 0
  BY <1>2
<1> QED BY <1>2, <1>3, SMT

(* Two numbers of which none is above the other are one.                   *)
LEMMA SurdsEqual ==
  ASSUME NEW x \in Surd, NEW y \in Surd, ~Greater(x, y), ~Greater(y, x) PROVE x = y
<1> DEFINE a == x[1] - y[1]
           b == x[2] - y[2]
<1>1. a \in Int /\ b \in Int
  BY DEF Surd
<1>2. y[1] - x[1] = -a /\ y[2] - x[2] = -b
  BY DEF Surd
<1>3. ~Positive(<<a, b>>) /\ ~Positive(<<-a, -b>>)
  BY <1>2, Zenon DEF Greater
<1>12. a = 0 /\ b = 0 => x = y
  BY DEF Surd
<1> HIDE DEF a, b
<1>4. \A u, v \in Int : ~Positive(<<u, v>>) <=>
           \/ u <= 0 /\ v <= 0
           \/ u >= 0 /\ v <= 0 /\ AtMostRoot(u, -v)
           \/ u <= 0 /\ v >= 0 /\ AtLeastRoot(-u, v)
  BY NotPositive
<1>5. -a \in Int /\ -b \in Int /\ -(-a) = a /\ -(-b) = b
  BY <1>1
<1> DEFINE aa == a * a
           bb == b * b
<1>6. (-a) * (-a) = aa /\ (-b) * (-b) = bb /\ aa \in Nat /\ bb \in Nat
  BY <1>1, SMT
<1>7. \/ a <= 0 /\ b <= 0
      \/ a >= 0 /\ b <= 0 /\ aa <= 2 * bb
      \/ a <= 0 /\ b >= 0 /\ aa >= 2 * bb
  <2>1. (AtMostRoot(a, -b) => aa <= 2 * bb) /\ (AtLeastRoot(-a, b) => aa >= 2 * bb)
    BY <1>6, Zenon DEF AtMostRoot, AtLeastRoot
  <2> QED BY <1>1, <1>3, <1>4, <2>1, Zenon
<1>8. \/ -a <= 0 /\ -b <= 0
      \/ -a >= 0 /\ -b <= 0 /\ aa <= 2 * bb
      \/ -a <= 0 /\ -b >= 0 /\ aa >= 2 * bb
  <2>1. (AtMostRoot(-a, b) => aa <= 2 * bb) /\ (AtLeastRoot(a, -b) => aa >= 2 * bb)
    BY <1>6, Zenon DEF AtMostRoot, AtLeastRoot
  <2> QED BY <1>3, <1>4, <1>5, <2>1, Zenon
<1>9. (a = 0 => aa = 0) /\ (b = 0 => bb = 0) /\ (a # 0 => aa > 0) /\ (b # 0 => bb > 0)
  BY <1>1, SMT
<1>10. aa = 2 * bb
  <2> HIDE DEF aa, bb
  <2> QED BY <1>1, <1>6, <1>7, <1>8, <1>9, SMT
<1>11. a = 0 /\ b = 0
  <2> DEFINE c == IF a < 0 THEN -a ELSE a
             d == IF b < 0 THEN -b ELSE b
  <2>1. c \in Nat /\ d \in Nat /\ c * c = aa /\ d * d = bb
    BY <1>1, <1>6
  <2>2. (c = 0 => a = 0) /\ (d = 0 => b = 0)
    BY <1>1
  <2> HIDE DEF c, d, aa, bb
  <2>3. c * c = 2 * (d * d)
    BY <1>10, <2>1, Zenon
  <2>4. c = 0 /\ d = 0
    BY <2>1, <2>3, NoRootOfTwo
  <2> QED BY <2>2, <2>4
<1> QED BY <1>11, <1>12

(* The number 0, the peak before there is any.                             *)
Nought == <<0, 0>>

(* What fft_compute_psd_peak makes of the first j frequencies.             *)
PeakUpTo(mags, peak, j) ==
  /\ peak = Nought \/ \E k \in 1 .. j : peak = mags[k]
  /\ \A k \in 1 .. j : ~Greater(mags[k], peak)

LEMMA PsdPeakUnfolds ==
  ASSUME NEW mags
  PROVE  LET at == [k \in 1 .. Cardinality(DOMAIN mags) - 1 |-> k]
             D == DOMAIN at
         IN  PsdPeak(mags) = (CHOOSE it : it = [S \in SUBSET D |->
               IF S = {} THEN <<0, 0>>
               ELSE IF Greater(mags[at[Max(S)]], it[S \ {Max(S)}])
                      THEN mags[at[Max(S)]] ELSE it[S \ {Max(S)}]])[D]
BY DEF PsdPeak, FoldLeft, MapThenFoldSet

LEMMA PeakIsHighest ==
  ASSUME NEW m \in Nat, NEW mags \in [0 .. m -> Surd], Cardinality(DOMAIN mags) = m + 1
  PROVE  PsdPeak(mags) \in Surd /\ PeakUpTo(mags, PsdPeak(mags), m)
<1> DEFINE base == <<0, 0>>
           at == [k \in 1 .. m |-> k]
           next(peak, k) == IF Greater(mags[k], peak) THEN mags[k] ELSE peak
           step == [q \in Surd \X (1 .. m) |-> next(q[1], q[2])]
<1>1. base \in Surd
  BY DEF Surd
<1>2. step \in [Surd \X (1 .. m) -> Surd]
  <2>1. ASSUME NEW peak \in Surd, NEW k \in 1 .. m PROVE next(peak, k) \in Surd
    <3>1. mags[k] \in Surd
      OBVIOUS
    <3> QED BY <3>1, Zenon
  <2> HIDE DEF next
  <2> QED BY <2>1
<1>3. PICK it \in [SUBSET (1 .. m) -> Surd] : FoldsTo(step, base, m, it)
  <2> HIDE DEF step, base
  <2> QED BY <1>1, <1>2, FoldsExist
<1> DEFINE After(f, S) == next(f[S \ {Max(S)}], at[Max(S)])
<1>4. \A f : \A S \in SUBSET (1 .. m) : S # {} /\ f[S \ {Max(S)}] \in Surd
         => After(f, S) = step[<<f[S \ {Max(S)}], Max(S)>>]
  <2> TAKE f
  <2> TAKE S \in SUBSET (1 .. m)
  <2> HAVE S # {} /\ f[S \ {Max(S)}] \in Surd
  <2>1. Max(S) \in 1 .. m
    BY MaxOfPositions
  <2>2. at[Max(S)] = Max(S)
    BY <2>1
  <2> HIDE DEF next
  <2>3. step[<<f[S \ {Max(S)}], Max(S)>>] = next(f[S \ {Max(S)}], Max(S))
    BY <2>1
  <2> QED BY <2>2, <2>3, Zenon
<1>5. it = [S \in SUBSET (1 .. m) |-> IF S = {} THEN base ELSE After(it, S)]
  <2>1. \A S \in SUBSET (1 .. m) : S # {} => it[S \ {Max(S)}] \in Surd
    BY <1>3
  <2> HIDE DEF step, After, base
  <2> QED BY <1>3, <1>4, <2>1, Zenon DEF FoldsTo
<1> DEFINE scan == CHOOSE f : f = [S \in SUBSET (1 .. m) |-> IF S = {} THEN base ELSE After(f, S)]
<1>6. scan = [S \in SUBSET (1 .. m) |-> IF S = {} THEN base ELSE After(scan, S)]
  <2> HIDE DEF After, base
  <2> QED BY <1>5, Zenon
<1>7. PsdPeak(mags) = scan[1 .. m]
  <2> DEFINE all == [k \in 1 .. Cardinality(DOMAIN mags) - 1 |-> k]
  <2>1. all = at /\ DOMAIN all = 1 .. m
    OBVIOUS
  <2>2. PsdPeak(mags) = (CHOOSE f : f = [S \in SUBSET DOMAIN all |->
                        IF S = {} THEN base ELSE next(f[S \ {Max(S)}], all[Max(S)])])[DOMAIN all]
    BY PsdPeakUnfolds, Zenon
  <2> HIDE DEF all, at, base, next
  <2> QED BY <2>1, <2>2, ZenonT(60)
<1>8. Folded(Surd, step, base, m, scan)
  <2> DEFINE after == [S \in SUBSET (1 .. m) |-> After(scan, S)]
  <2> HIDE DEF scan, After, base, step
  <2>1. scan = [S \in SUBSET (1 .. m) |-> IF S = {} THEN base ELSE after[S]]
    BY <1>6, Zenon
  <2>2. \A S \in SUBSET (1 .. m) : S # {} /\ scan[S \ {Max(S)}] \in Surd
            => after[S] = step[<<scan[S \ {Max(S)}], Max(S)>>]
    BY <1>4, Zenon
  <2> HIDE DEF after
  <2> QED BY <1>1, <1>2, <2>1, <2>2, FoldSteps, Zenon
<1> HIDE DEF scan
<1> DEFINE P == {j \in Nat : j <= m => PeakUpTo(mags, scan[1 .. j], j)}
<1>9. 0 \in P
  <2>1. scan[1 .. 0] = Nought
    BY <1>8, Zenon DEF Folded, Nought
  <2>2. \A k \in 1 .. 0 : FALSE
    OBVIOUS
  <2>3. PeakUpTo(mags, scan[1 .. 0], 0)
    BY <2>1, <2>2, Zenon DEF PeakUpTo
  <2> QED BY <2>3
<1>10. ASSUME NEW j \in Nat, j \in P PROVE j + 1 \in P
  <2>1. SUFFICES ASSUME j + 1 <= m PROVE PeakUpTo(mags, scan[1 .. j + 1], j + 1)
    OBVIOUS
  <2> DEFINE old == scan[1 .. j]
             new == scan[1 .. j + 1]
             k == j + 1
  <2>2. PeakUpTo(mags, old, j) /\ j <= m /\ k \in 1 .. m
    BY <1>10, <2>1
  <2>3. old \in Surd /\ new = step[<<old, k>>]
    BY <1>8, <2>1, <2>2, Zenon DEF Folded
  <2>4. new = next(old, k)
    <3> HIDE DEF next, old, k, new
    <3> QED BY <2>2, <2>3
  <2>5. \A l \in 1 .. k : l \in 1 .. j \/ l = k
    OBVIOUS
  <2>6. (\A l \in 1 .. j : l \in 1 .. k /\ mags[l] \in Surd) /\ k \in 1 .. k /\ mags[k] \in Surd
    BY <2>1
  <2> HIDE DEF old, new, k
  <2>7. CASE Greater(mags[k], old)
    <3>1. new = mags[k]
      BY <2>4, <2>7, Zenon
    <3>2. ~Greater(old, mags[k]) /\ ~Greater(mags[k], mags[k])
      BY <2>3, <2>6, <2>7, GreaterOrders, Zenon
    <3>3. \A l \in 1 .. j : ~Greater(mags[l], mags[k])
      BY <2>2, <2>3, <2>6, <3>2, GreaterOrders, Zenon DEF PeakUpTo
    <3>4. PeakUpTo(mags, new, k)
      BY <2>5, <2>6, <3>1, <3>2, <3>3, Zenon DEF PeakUpTo
    <3> QED BY <3>4 DEF new, k
  <2>8. CASE ~Greater(mags[k], old)
    <3>1. new = old
      BY <2>4, <2>8, Zenon
    <3>2. PeakUpTo(mags, new, k)
      BY <2>2, <2>5, <2>6, <2>8, <3>1, Zenon DEF PeakUpTo
    <3> QED BY <3>2 DEF new, k
  <2> QED BY <2>7, <2>8, Zenon
<1> HIDE DEF P
<1>11. P \in SUBSET Nat
  BY DEF P
<1>12. m \in P /\ m <= m
  BY <1>9, <1>10, <1>11, InductiveSet
<1>13. scan[1 .. m] \in Surd
  BY <1>8, <1>12, Zenon DEF Folded
<1> QED BY <1>7, <1>12, <1>13, Zenon DEF P

(* The peak is the magnitude of the frequency ranked first.                *)
LEMMA PeakIsRankedFirst ==
  ASSUME NEW m \in Nat, m >= 1, NEW mags \in [0 .. m -> Surd], Cardinality(DOMAIN mags) = m + 1,
         \A k \in 0 .. m : ~Greater(Nought, mags[k])
  PROVE  PsdPeak(mags) = mags[TopK(mags)[1]]
<1> DEFINE top == TopK(mags)
           peak == PsdPeak(mags)
           first == mags[top[1]]
<1>1. RankedFirst(mags, top, m)
  BY TopKRanks
<1>2. peak \in Surd /\ PeakUpTo(mags, peak, m)
  BY PeakIsHighest
<1> HIDE DEF peak, top
<1>3. 1 \in 1 .. K /\ top[1] \in 1 .. m
  BY <1>1 DEF RankedFirst, K
<1>4. first \in Surd
  BY <1>3
<1>5. Nought \in Surd
  BY DEF Nought, Surd
<1>6. ~Greater(first, peak)
  BY <1>2, <1>3, Zenon DEF PeakUpTo
<1>7. \A k \in 1 .. m : ~Greater(mags[k], first)
  <2> TAKE k \in 1 .. m
  <2>1. CASE \E j \in 1 .. K : top[j] = k
    <3>1. PICK j \in 1 .. K : top[j] = k
      BY <2>1
    <3>2. j <= m
      BY <1>1, <3>1 DEF RankedFirst, K
    <3>3. CASE j = 1
      <4>1. mags[k] = first
        BY <3>1, <3>3
      <4> QED BY <1>4, <4>1, GreaterOrders, Zenon
    <3>4. CASE j # 1
      <4>1. 1 < j
        BY <3>4 DEF K
      <4> QED BY <1>1, <1>3, <3>1, <3>2, <4>1, Zenon DEF RankedFirst
    <3> QED BY <3>3, <3>4
  <2>2. CASE ~\E j \in 1 .. K : top[j] = k
    BY <1>1, <1>3, <2>2, Zenon DEF RankedFirst
  <2> QED BY <2>1, <2>2
<1>8. ~Greater(peak, first)
  <2>1. CASE peak = Nought
    <3>1. top[1] \in 0 .. m
      BY <1>3
    <3> QED BY <2>1, <3>1, Zenon
  <2>2. CASE \E k \in 1 .. m : peak = mags[k]
    BY <1>7, <2>2, Zenon
  <2> QED BY <1>2, <2>1, <2>2, Zenon DEF PeakUpTo
<1> HIDE DEF first
<1>9. peak = first
  BY <1>2, <1>4, <1>6, <1>8, SurdsEqual
<1> QED BY <1>9 DEF peak, first, top

LEMMA CountFrom0 == \A m \in Nat : IsFiniteSet(0 .. m) /\ Cardinality(0 .. m) = m + 1
<1> TAKE m \in Nat
<1>1. IsFiniteSet(0 .. m) /\ Cardinality(0 .. m) = IF 0 > m THEN 0 ELSE m - 0 + 1
  <2>1. 0 \in Int /\ m \in Int
    OBVIOUS
  <2> QED BY <2>1, FS_Interval, Zenon
<1> QED BY <1>1

LEMMA CountFrom1 == \A m \in Nat : IsFiniteSet(1 .. m) /\ Cardinality(1 .. m) = m
<1> TAKE m \in Nat
<1>1. IsFiniteSet(1 .. m) /\ Cardinality(1 .. m) = IF 1 > m THEN 0 ELSE m - 1 + 1
  <2>1. 1 \in Int /\ m \in Int
    OBVIOUS
  <2> QED BY <2>1, FS_Interval, Zenon
<1> QED BY <1>1

(* As many values as positions, when none comes twice.                     *)
LEMMA CountOfValues ==
  ASSUME NEW m \in Nat, NEW f, \A i, j \in 1 .. m : i < j => f[i] # f[j]
  PROVE  Cardinality({f[j] : j \in 1 .. m}) = m
<1> DEFINE Values(n) == {f[j] : j \in 1 .. n}
           P == {n \in Nat : n <= m => IsFiniteSet(Values(n)) /\ Cardinality(Values(n)) = n}
<1>1. 0 \in P
  <2>1. Values(0) = {}
    OBVIOUS
  <2>2. IsFiniteSet(Values(0)) /\ Cardinality(Values(0)) = 0
    BY <2>1, FS_EmptySet, Zenon
  <2> HIDE DEF Values
  <2> QED BY <2>2
<1>2. ASSUME NEW n \in Nat, n \in P PROVE n + 1 \in P
  <2> SUFFICES ASSUME n + 1 <= m
               PROVE  IsFiniteSet(Values(n + 1)) /\ Cardinality(Values(n + 1)) = n + 1
    BY <1>2
  <2>1. IsFiniteSet(Values(n)) /\ Cardinality(Values(n)) = n
    BY <1>2
  <2>2. Values(n + 1) = Values(n) \cup {f[n + 1]}
    <3>1. \A j : j \in 1 .. n + 1 <=> (j \in 1 .. n \/ j = n + 1)
      OBVIOUS
    <3> QED BY <3>1, Zenon
  <2>3. f[n + 1] \notin Values(n)
    <3>1. \A j \in 1 .. n : j \in 1 .. m /\ n + 1 \in 1 .. m /\ j < n + 1
      OBVIOUS
    <3> QED BY <3>1, Zenon
  <2> HIDE DEF Values
  <2>4. IsFiniteSet(Values(n) \cup {f[n + 1]}) /\ Cardinality(Values(n) \cup {f[n + 1]}) = Cardinality(Values(n)) + 1
    BY <2>1, <2>3, FS_AddElement
  <2> QED BY <2>1, <2>2, <2>4
<1> HIDE DEF P
<1>3. P \in SUBSET Nat
  BY DEF P
<1>4. m \in P
  BY <1>1, <1>2, <1>3, InductiveSet
<1>5. Cardinality(Values(m)) = m
  BY <1>4 DEF P
<1> QED BY <1>5

LEMMA CountOfFive ==
  ASSUME NEW f, \A i, j \in 1 .. 5 : i < j => f[i] # f[j]
  PROVE  Cardinality({f[k] : k \in 1 .. 5}) = 5
<1>m. PICK m \in Nat : m = 5
  OBVIOUS
<1>1. \A i, j \in 1 .. m : i < j => f[i] # f[j]
  BY <1>m
<1>2. Cardinality({f[k] : k \in 1 .. m}) = m
  BY <1>1, CountOfValues, SMT
<1> QED BY <1>m, <1>2

LEMMA MinOfInts == \A a, b \in Int : Min({a, b}) = IF a <= b THEN a ELSE b
<1> TAKE a, b \in Int
<1> DEFINE m == IF a <= b THEN a ELSE b
<1>1. {a, b} \in SUBSET Int /\ m \in {a, b} /\ \A y \in {a, b} : m <= y
  OBVIOUS
<1> HIDE DEF m
<1>2. Min({a, b}) = m
  BY <1>1, MinOf
<1> QED BY <1>2 DEF m

(* What TopFrequencies says of a ranking.                                  *)
TopIsRanked(mags, top, n) ==
  LET used  == {j \in 1 .. K : top[j] # -1}
      freqs == {top[j] : j \in used}
  IN  /\ Cardinality(freqs) = Cardinality(used)
      /\ used = 1 .. Min({K, n - 1})
      /\ \A i, j \in used : i < j => ~Greater(mags[top[j]], mags[top[i]])
      /\ \A k \in DOMAIN mags \ (freqs \cup {0}), j \in used : ~Greater(mags[k], mags[top[j]])

LEMMA RankingTold ==
  ASSUME NEW m \in Nat, NEW mags \in [0 .. m -> Surd], NEW top, RankedFirst(mags, top, m)
  PROVE  TopIsRanked(mags, top, m + 1)
<1> DEFINE used == {j \in 1 .. K : top[j] # -1}
           freqs == {top[j] : j \in used}
           u == Min({K, m})
<1>0. K = 5
  BY DEF K
<1>1. /\ \A j \in 1 .. K : IF j <= m THEN top[j] \in 1 .. m ELSE top[j] = -1
      /\ \A i, j \in 1 .. K : i < j /\ j <= m =>
           top[i] # top[j] /\ ~Greater(mags[top[j]], mags[top[i]])
      /\ \A k \in 1 .. m :
           \/ \E j \in 1 .. K : top[j] = k
           \/ m > K /\ \A j \in 1 .. K : ~Greater(mags[k], mags[top[j]])
  BY Zenon DEF RankedFirst
<1>2. u = (IF K <= m THEN K ELSE m) /\ u \in Nat /\ u <= K /\ u <= m
  <2>1. K \in Int /\ m \in Int
    BY <1>0
  <2>2. u = IF K <= m THEN K ELSE m
    BY <2>1, MinOfInts, Zenon
  <2> HIDE DEF u
  <2> QED BY <1>0, <2>2
<1> HIDE DEF u
<1>3. \A j \in 1 .. K : (j \in used <=> j <= m) /\ (j <= m <=> j \in 1 .. u)
  <2> TAKE j \in 1 .. K
  <2>1. (top[j] # -1) <=> j <= m
    BY <1>0, <1>1
  <2>2. j <= m <=> j \in 1 .. u
    BY <1>0, <1>2
  <2> QED BY <2>1, <2>2
<1>4. used = 1 .. u
  <2>1. 1 .. u \in SUBSET (1 .. K)
    BY <1>0, <1>2
  <2> QED BY <1>3, <2>1, Zenon
<1>5. \A i, j \in 1 .. u : i < j => top[i] # top[j] /\ ~Greater(mags[top[j]], mags[top[i]])
  <2>1. \A j \in 1 .. u : j \in 1 .. K /\ j <= m
    BY <1>0, <1>2
  <2> QED BY <1>1, <2>1, Zenon
<1>6. Cardinality(freqs) = Cardinality(used)
  <2>1. freqs = {top[j] : j \in 1 .. u}
    BY <1>4, Zenon
  <2>2. Cardinality({top[j] : j \in 1 .. u}) = u
    <3>1. \A i, j \in 1 .. u : i < j => top[i] # top[j]
      BY <1>5, Zenon
    <3>2. u \in Nat
      BY <1>2
    <3>3. ASSUME NEW f, \A i, j \in 1 .. u : i < j => f[i] # f[j]
          PROVE  Cardinality({f[j] : j \in 1 .. u}) = u
      BY <3>2, <3>3, CountOfValues, SMTT(40)
    <3> QED BY <3>1, <3>3, Zenon
  <2>3. Cardinality(1 .. u) = u
    BY <1>2, CountFrom1
  <2> HIDE DEF freqs, used
  <2> QED BY <1>4, <2>1, <2>2, <2>3, Zenon
<1>7. \A k \in DOMAIN mags \ (freqs \cup {0}), j \in used : ~Greater(mags[k], mags[top[j]])
  <2> TAKE k \in DOMAIN mags \ (freqs \cup {0}), j \in used
  <2>1. k \in 1 .. m
    OBVIOUS
  <2>2. ~\E i \in 1 .. K : top[i] = k
    <3> SUFFICES ASSUME NEW i \in 1 .. K, top[i] = k PROVE FALSE
      BY Zenon
    <3>1. top[i] # -1
      BY <2>1
    <3>2. i \in used
      BY <3>1
    <3> QED BY <3>2
  <2> QED BY <1>1, <2>1, <2>2, Zenon
<1>8. (m + 1) - 1 = m
  OBVIOUS
<1>9. used = 1 .. Min({K, (m + 1) - 1})
  <2> HIDE DEF used
  <2> QED BY <1>4, <1>8, Zenon DEF u
<1>10. \A i, j \in used : i < j => ~Greater(mags[top[j]], mags[top[i]])
  <2> HIDE DEF used
  <2> QED BY <1>4, <1>5, Zenon
<1> HIDE DEF u
<1> QED BY <1>6, <1>7, <1>9, <1>10, Zenon DEF TopIsRanked
-----------------------------------------------------------------------------
(* The values of the transform are numbers a + b*sqrt(2), and no magnitude *)
(* is below 0.                                                             *)
LEMMA WaveType == \A j \in 0 .. 7 : Cosine[j] \in Surd /\ Sine[j] \in Surd
<1>1. \A j \in 0 .. 7 : Cosine[j] \in Surd
  <2> TAKE j \in 0 .. 7
  <2>1. j = 0 \/ j = 1 \/ j = 2 \/ j = 3 \/ j = 4 \/ j = 5 \/ j = 6 \/ j = 7
    OBVIOUS
  <2>2. CASE j = 0
    BY <2>2 DEF Cosine, Surd
  <2>3. CASE j = 1
    BY <2>3 DEF Cosine, Surd
  <2>4. CASE j = 2
    BY <2>4 DEF Cosine, Surd
  <2>5. CASE j = 3
    BY <2>5 DEF Cosine, Surd
  <2>6. CASE j = 4
    BY <2>6 DEF Cosine, Surd
  <2>7. CASE j = 5
    BY <2>7 DEF Cosine, Surd
  <2>8. CASE j = 6
    BY <2>8 DEF Cosine, Surd
  <2>9. CASE j = 7
    BY <2>9 DEF Cosine, Surd
  <2> QED BY <2>1, <2>2, <2>3, <2>4, <2>5, <2>6, <2>7, <2>8, <2>9
<1>2. ASSUME NEW j \in 0 .. 7 PROVE Sine[j] \in Surd
  <2>1. (j + 6) % 8 \in 0 .. 7
    OBVIOUS
  <2>2. Sine[j] = Cosine[(j + 6) % 8]
    BY DEF Sine
  <2> QED BY <1>1, <2>1, <2>2
<1> QED BY <1>1, <1>2

LEMMA ComponentUnfolds ==
  ASSUME NEW wave, NEW samples, NEW size, NEW k
  PROVE  LET at == [i \in DOMAIN samples |-> i]
             D == DOMAIN at
         IN  Component(wave, samples, size, k) = (CHOOSE it : it = [S \in SUBSET D |->
               IF S = {} THEN <<0, 0>>
               ELSE Add(it[S \ {Max(S)}], [c \in 1 .. 2 |->
                      samples[at[Max(S)]] * wave[(k * (at[Max(S)] - 1) * (8 \div size)) % 8][c]])])[D]
BY DEF Component, FoldLeftDomain, FoldLeft, MapThenFoldSet

LEMMA ComponentType ==
  ASSUME NEW wave, \A j \in 0 .. 7 : wave[j] \in Surd,
         NEW samples \in Seq(Nat), NEW size \in {1, 2, 4, 8}, NEW k \in Nat
  PROVE  Component(wave, samples, size, k) \in Surd
<1>0. PICK m \in Nat : m = Len(samples) /\ DOMAIN samples = 1 .. m
  <2>1. Len(samples) \in Nat /\ DOMAIN samples = 1 .. Len(samples)
    OBVIOUS
  <2> QED BY <2>1
<1> DEFINE base == <<0, 0>>
           at == [i \in 1 .. m |-> i]
           next(sum, t) == Add(sum, [c \in 1 .. 2 |->
                             samples[t] * wave[(k * (t - 1) * (8 \div size)) % 8][c]])
           step == [q \in Surd \X (1 .. m) |-> next(q[1], q[2])]
<1>1. base \in Surd
  BY DEF Surd
<1>2. ASSUME NEW sum \in Surd, NEW t \in 1 .. m PROVE next(sum, t) \in Surd
  <2> DEFINE p == (k * (t - 1) * (8 \div size)) % 8
  <2>1. 8 \div size \in Int
    OBVIOUS
  <2>2. k * (t - 1) \in Int
    BY SMT
  <2>3. k * (t - 1) * (8 \div size) \in Int
    BY <2>1, <2>2, SMT
  <2>4. p \in 0 .. 7
    <3> DEFINE x == k * (t - 1) * (8 \div size)
    <3>1. x \in Int
      BY <2>3
    <3> HIDE DEF x
    <3>2. x % 8 \in 0 .. 7
      BY <3>1
    <3> QED BY <3>2 DEF x
  <2> HIDE DEF p
  <2>5. wave[p] \in Surd
    BY <2>4
  <2>6. wave[p][1] \in Int /\ wave[p][2] \in Int /\ samples[t] \in Nat /\ sum[1] \in Int /\ sum[2] \in Int
    <3>1. samples[t] \in Nat
      BY <1>0, ElementOfSeq
    <3>2. \A x \in Surd : x[1] \in Int /\ x[2] \in Int
      BY DEF Surd
    <3> QED BY <2>5, <3>1, <3>2, Zenon
  <2>7. samples[t] * wave[p][1] \in Int /\ samples[t] * wave[p][2] \in Int
    <3>1. \A x \in Nat : \A z \in Int : x * z \in Int
      BY SMT
    <3> QED BY <2>6, <3>1, Zenon
  <2> DEFINE y == [c \in 1 .. 2 |-> samples[t] * wave[p][c]]
  <2>8. y[1] \in Int /\ y[2] \in Int
    BY <2>7
  <2>9. next(sum, t) = Add(sum, y)
    BY Zenon DEF p
  <2> HIDE DEF y, next
  <2>10. <<sum[1] + y[1], sum[2] + y[2]>> \in Surd
    <3>1. \A u, v \in Int : u + v \in Int
      OBVIOUS
    <3>2. \A u, v \in Int : <<u, v>> \in Surd
      BY Zenon DEF Surd
    <3> QED BY <2>6, <2>8, <3>1, <3>2, Zenon
  <2> QED BY <2>9, <2>10, Zenon DEF Add
<1>3. step \in [Surd \X (1 .. m) -> Surd]
  <2> HIDE DEF next
  <2> QED BY <1>2
<1>4. PICK it \in [SUBSET (1 .. m) -> Surd] : FoldsTo(step, base, m, it)
  <2> HIDE DEF step, base
  <2> QED BY <1>0, <1>1, <1>3, FoldsExist
<1> DEFINE After(f, S) == next(f[S \ {Max(S)}], at[Max(S)])
<1>5. \A f : \A S \in SUBSET (1 .. m) : S # {} /\ f[S \ {Max(S)}] \in Surd
         => After(f, S) = step[<<f[S \ {Max(S)}], Max(S)>>]
  <2> TAKE f
  <2> TAKE S \in SUBSET (1 .. m)
  <2> HAVE S # {} /\ f[S \ {Max(S)}] \in Surd
  <2> HIDE DEF next
  <2>1. Max(S) \in 1 .. m
    BY <1>0, MaxOfPositions
  <2>2. at[Max(S)] = Max(S)
    BY <2>1
  <2>3. step[<<f[S \ {Max(S)}], Max(S)>>] = next(f[S \ {Max(S)}], Max(S))
    BY <2>1
  <2> QED BY <2>2, <2>3, Zenon
<1>6. it = [S \in SUBSET (1 .. m) |-> IF S = {} THEN base ELSE After(it, S)]
  <2>1. \A S \in SUBSET (1 .. m) : S # {} => it[S \ {Max(S)}] \in Surd
    BY <1>4
  <2> HIDE DEF step, After, base
  <2> QED BY <1>4, <1>5, <2>1, ZenonT(60) DEF FoldsTo
<1> DEFINE scan == CHOOSE f : f = [S \in SUBSET (1 .. m) |-> IF S = {} THEN base ELSE After(f, S)]
<1>7. scan = [S \in SUBSET (1 .. m) |-> IF S = {} THEN base ELSE After(scan, S)]
  <2> HIDE DEF After, base
  <2> QED BY <1>6, Zenon
<1>8. Component(wave, samples, size, k) = scan[1 .. m]
  <2> DEFINE all == [i \in DOMAIN samples |-> i]
  <2>1. all = at /\ DOMAIN all = 1 .. m
    BY <1>0
  <2>2. Component(wave, samples, size, k) = (CHOOSE f : f = [S \in SUBSET DOMAIN all |->
                        IF S = {} THEN base ELSE next(f[S \ {Max(S)}], all[Max(S)])])[DOMAIN all]
    BY ComponentUnfolds, Zenon
  <2> HIDE DEF all, at, base, next
  <2>3. (CHOOSE f : f = [S \in SUBSET DOMAIN all |->
                        IF S = {} THEN base ELSE next(f[S \ {Max(S)}], all[Max(S)])]) = scan
    BY <2>1, Zenon
  <2> HIDE DEF scan
  <2> QED BY <2>1, <2>2, <2>3, Zenon
<1>9. Folded(Surd, step, base, m, scan)
  <2> DEFINE after == [S \in SUBSET (1 .. m) |-> After(scan, S)]
  <2> HIDE DEF scan, After, base, step
  <2>1. scan = [S \in SUBSET (1 .. m) |-> IF S = {} THEN base ELSE after[S]]
    BY <1>7, Zenon
  <2>2. \A S \in SUBSET (1 .. m) : S # {} /\ scan[S \ {Max(S)}] \in Surd
            => after[S] = step[<<scan[S \ {Max(S)}], Max(S)>>]
    BY <1>5, Zenon
  <2> HIDE DEF after
  <2> QED BY <1>0, <1>1, <1>3, <2>1, <2>2, FoldSteps, ZenonT(60)
<1> HIDE DEF scan
<1>10. scan[1 .. m] \in Surd
  <2>1. m <= m
    BY <1>0
  <2> QED BY <1>0, <1>9, <2>1, Zenon DEF Folded
<1> QED BY <1>8, <1>10

(* A square is not below 0.                                                *)
LEMMA SquareNotBelow ==
  ASSUME NEW x \in Surd
  PROVE  Square(x) \in Surd /\ ~Positive(<<-Square(x)[1], -Square(x)[2]>>)
<1> DEFINE p == x[1]
           q == x[2]
           pp == p * p
           qq == q * q
           pq == p * q
           a == -(pp + 2 * qq)
           b == -(2 * pq)
<1>1. p \in Int /\ q \in Int
  BY DEF Surd
<1>2. pp \in Nat /\ qq \in Nat /\ pq \in Int /\ pq * pq = pp * qq
  BY <1>1, SMT
<1>3. 2 * p * q = 2 * pq /\ 2 * q * q = 2 * qq
  BY <1>1, SMT
<1>4. Square(x) = <<pp + 2 * qq, 2 * pq>>
  BY <1>3, Zenon DEF Square
<1> HIDE DEF p, q, pp, qq, pq
<1>5. Square(x) \in Surd
  <2>1. pp + 2 * qq \in Int /\ 2 * pq \in Int
    BY <1>2
  <2> QED BY <1>4, <2>1 DEF Surd
<1>6. a \in Int /\ b \in Int /\ a <= 0
  BY <1>2
<1>7. b >= 0 => AtLeastRoot(-a, b)
  <2> DEFINE s == pp + 2 * qq
             d == pp - 2 * qq
  <2>1. -a = s
    BY <1>2
  <2>2. s * s = d * d + 8 * (pp * qq)
    BY <1>2, SMT
  <2>3. b * b = 4 * (pp * qq)
    <3>1. b * b = 4 * (pq * pq)
      BY <1>2, SMT
    <3> QED BY <1>2, <3>1
  <2>4. d * d >= 0 /\ d * d \in Int /\ pp * qq \in Int
    BY <1>2, SMT
  <2>5. (-a) * (-a) >= 2 * (b * b)
    <3> DEFINE dd == d * d
               w == pp * qq
               ss == s * s
               bb == b * b
    <3>1. ss = dd + 8 * w /\ bb = 4 * w /\ dd >= 0 /\ dd \in Int /\ w \in Int
      BY <2>2, <2>3, <2>4
    <3> HIDE DEF dd, w, ss, bb
    <3>2. ss >= 2 * bb
      BY <3>1
    <3>3. (-a) * (-a) = ss
      BY <2>1, Zenon DEF ss
    <3> QED BY <3>2, <3>3, Zenon DEF bb
  <2> QED BY <2>5, Zenon DEF AtLeastRoot
<1>8. ~Positive(<<a, b>>)
  <2> HIDE DEF a, b
  <2>1. b <= 0 \/ b >= 0
    BY <1>6
  <2> QED BY <1>6, <1>7, <2>1, NotPositive, Zenon
<1>9. -Square(x)[1] = a /\ -Square(x)[2] = b
  BY <1>4
<1> QED BY <1>5, <1>8, <1>9, Zenon

LEMMA SizesAre ==
  ASSUME NEW size \in Sizes
  PROVE  size \in Nat /\ (size <= 8 => size \in {1, 2, 4, 8})
<1>1. 0 .. 30 = {0, 1, 2, 3, 4, 5, 6, 7, 8, 9, 10, 11, 12, 13, 14, 15, 16, 17, 18, 19, 20, 21, 22,
                 23, 24, 25, 26, 27, 28, 29, 30}
  OBVIOUS
<1>2. \/ size = 2 ^ 0 \/ size = 2 ^ 1 \/ size = 2 ^ 2 \/ size = 2 ^ 3 \/ size = 2 ^ 4
      \/ size = 2 ^ 5 \/ size = 2 ^ 6 \/ size = 2 ^ 7 \/ size = 2 ^ 8 \/ size = 2 ^ 9
      \/ size = 2 ^ 10 \/ size = 2 ^ 11 \/ size = 2 ^ 12 \/ size = 2 ^ 13 \/ size = 2 ^ 14
      \/ size = 2 ^ 15 \/ size = 2 ^ 16 \/ size = 2 ^ 17 \/ size = 2 ^ 18 \/ size = 2 ^ 19
      \/ size = 2 ^ 20 \/ size = 2 ^ 21 \/ size = 2 ^ 22 \/ size = 2 ^ 23 \/ size = 2 ^ 24
      \/ size = 2 ^ 25 \/ size = 2 ^ 26 \/ size = 2 ^ 27 \/ size = 2 ^ 28 \/ size = 2 ^ 29
      \/ size = 2 ^ 30
  BY <1>1, Zenon DEF Sizes
<1> QED BY <1>2

LEMMA MinusOfSum ==
  ASSUME NEW a \in Int, NEW b \in Int PROVE 0 - (a + b) = -a + -b
OBVIOUS

LEMMA MagnitudeNotBelow ==
  ASSUME NEW samples \in Seq(Nat), NEW size \in Sizes, NEW k \in Nat
  PROVE  /\ SquaredMagnitude(samples, size, k) \in Surd
         /\ ~Greater(Nought, SquaredMagnitude(samples, size, k))
<1> DEFINE c == Square(Component(Cosine, samples, size, k))
           s == Square(Component(Sine, samples, size, k))
<1>0. CASE ~(size <= 8)
  <2> DEFINE M == Seq(Nat) \X Nat \X Nat
             x == <<samples, size, k>>
  <2>1. <<0, 0>> \in Int \X Int /\ ~Greater(<<0, 0>>, <<0, 0>>)
    BY DEF Greater, Positive
  <2>2. [y \in M |-> <<0, 0>>] \in [M -> NotNegative]
    <3>1. <<0, 0>> \in NotNegative
      BY <2>1, Zenon DEF NotNegative
    <3> HIDE DEF M
    <3> QED BY <3>1
  <2>3. SomeMagnitude \in [M -> NotNegative]
    BY <2>2, Zenon DEF SomeMagnitude
  <2>4. x \in M
    BY SizesAre
  <2>5. SquaredMagnitude(samples, size, k) = SomeMagnitude[x]
    BY <1>0, Zenon DEF SquaredMagnitude
  <2> HIDE DEF M, x
  <2>6. SquaredMagnitude(samples, size, k) \in NotNegative
    BY <2>3, <2>4, <2>5, Zenon
  <2> QED BY <2>6, Zenon DEF NotNegative, Surd, Nought
<1> SUFFICES ASSUME size <= 8
             PROVE  /\ SquaredMagnitude(samples, size, k) \in Surd
                    /\ ~Greater(Nought, SquaredMagnitude(samples, size, k))
  BY <1>0, Zenon
<1>14. size \in {1, 2, 4, 8}
  BY SizesAre
<1>1. Component(Cosine, samples, size, k) \in Surd
  <2>1. \A j \in 0 .. 7 : Cosine[j] \in Surd
    BY WaveType
  <2> QED BY <1>14, <2>1, ComponentType
<1>2. Component(Sine, samples, size, k) \in Surd
  <2>1. \A j \in 0 .. 7 : Sine[j] \in Surd
    BY WaveType
  <2> QED BY <1>14, <2>1, ComponentType
<1>3. c \in Surd /\ ~Positive(<<-c[1], -c[2]>>)
  BY <1>1, SquareNotBelow
<1>4. s \in Surd /\ ~Positive(<<-s[1], -s[2]>>)
  BY <1>2, SquareNotBelow
<1>5. SquaredMagnitude(samples, size, k) = <<c[1] + s[1], c[2] + s[2]>>
  BY Zenon DEF SquaredMagnitude, Add
<1> HIDE DEF c, s
<1>6. c[1] \in Int /\ c[2] \in Int /\ s[1] \in Int /\ s[2] \in Int
  BY <1>3, <1>4 DEF Surd
<1>7. -c[1] \in Int /\ -c[2] \in Int /\ -s[1] \in Int /\ -s[2] \in Int
  BY <1>6, SMTT(40)
<1>8. ~Positive(<<-c[1] + -s[1], -c[2] + -s[2]>>)
  BY <1>3, <1>4, <1>7, NotPositiveAdds, Zenon
<1>9. /\ 0 - (c[1] + s[1]) = -c[1] + -s[1]
      /\ 0 - (c[2] + s[2]) = -c[2] + -s[2]
  BY <1>6, MinusOfSum, Zenon
<1> DEFINE y == <<c[1] + s[1], c[2] + s[2]>>
<1>10. y \in Surd /\ y[1] = c[1] + s[1] /\ y[2] = c[2] + s[2]
  BY <1>6 DEF Surd
<1>11. Nought[1] = 0 /\ Nought[2] = 0
  BY DEF Nought
<1> HIDE DEF y
<1>12. Nought[1] - y[1] = -c[1] + -s[1] /\ Nought[2] - y[2] = -c[2] + -s[2]
  BY <1>9, <1>10, <1>11
<1>13. ~Greater(Nought, y)
  BY <1>8, <1>12, Zenon DEF Greater
<1> QED BY <1>5, <1>10, <1>13 DEF y

LEMMA PaddedSizes ==
  ASSUME NEW n \in Nat, n <= 2 ^ 30 PROVE PaddedSize(n) \in Sizes /\ PaddedSize(n) >= n
<1> DEFINE sizes == {s \in Sizes : s >= n}
<1>1. sizes \in SUBSET Nat /\ sizes # {}
  <2>1. 2 ^ 30 \in Sizes
    <3>1. 30 \in 0 .. 30
      OBVIOUS
    <3> QED BY <3>1, Zenon DEF Sizes
  <2>2. sizes \in SUBSET Nat
    BY SizesAre
  <2>3. 2 ^ 30 >= n
    OBVIOUS
  <2> QED BY <2>1, <2>2, <2>3
<1>2. PaddedSize(n) = Min(sizes)
  BY Zenon DEF PaddedSize
<1> HIDE DEF sizes
<1>3. Min(sizes) \in sizes
  BY <1>1, MinOfNaturals
<1> QED BY <1>2, <1>3 DEF sizes

(* Whatever the samples, the frequencies that are reported first are the   *)
(* strongest, and the peak is that of the first.                           *)
LEMMA SpectrumRanked ==
  ASSUME NEW samples \in Seq(Nat), FrequencySection(samples) # << >>,
         NEW s, s = FrequencySection(samples)[1], Cardinality(DOMAIN s.mags) > 1
  PROVE  /\ TopIsRanked(s.mags, s.top, Cardinality(DOMAIN s.mags))
         /\ s.psd_peak = s.mags[s.top[1]]
<1> DEFINE mags == Magnitudes(samples)
           size == PaddedSize(Len(samples))
           m == size \div 2 - 1
<1>0. PICK n \in Nat : n = Len(samples)
  OBVIOUS
<1>10. ~(n < 2 \/ n > 2 ^ 30)
  BY <1>0, Zenon DEF FrequencySection
<1>1. size \in Sizes /\ size \in Nat /\ size >= 2
  <2>1. n >= 2 /\ n <= 2 ^ 30
    BY <1>10
  <2>2. PaddedSize(n) \in Sizes /\ PaddedSize(n) >= n
    BY <2>1, PaddedSizes
  <2>3. PaddedSize(n) \in Nat
    BY <2>2, SizesAre
  <2>4. PaddedSize(n) >= 2
    BY <2>1, <2>2, <2>3
  <2> QED BY <1>0, <2>2, <2>3, <2>4, Zenon
<1>2. mags = [k \in 0 .. m |-> SquaredMagnitude(samples, size, k)]
  BY Zenon DEF Magnitudes
<1>3. s.mags = mags /\ s.top = TopK(mags) /\ s.psd_peak = PsdPeak(mags)
  <2>1. ~(Len(samples) < 2 \/ Len(samples) > 2 ^ 30)
    BY <1>0, <1>10, Zenon
  <2> DEFINE section == [mags |-> mags, ranks |-> MagnitudeRanks(mags), top |-> TopK(mags),
                         psd_peak |-> PsdPeak(mags)]
  <2>2. FrequencySection(samples) = <<section>>
    BY <2>1, Zenon DEF FrequencySection
  <2>3. section.mags = mags /\ section.top = TopK(mags) /\ section.psd_peak = PsdPeak(mags)
    BY Zenon
  <2> HIDE DEF section
  <2>4. s = section
    BY <2>2
  <2> QED BY <2>3, <2>4, Zenon
<1> HIDE DEF mags, size
<1>4. m \in Nat
  BY <1>1
<1> HIDE DEF m
<1>5. /\ mags \in [0 .. m -> Surd]
      /\ \A k \in 0 .. m : ~Greater(Nought, mags[k])
  <2>1. ASSUME NEW k \in 0 .. m
        PROVE  /\ SquaredMagnitude(samples, size, k) \in Surd
               /\ ~Greater(Nought, SquaredMagnitude(samples, size, k))
    <3>1. k \in Nat
      BY <1>4
    <3> QED BY <1>1, <3>1, MagnitudeNotBelow
  <2>2. mags \in [0 .. m -> Surd]
    BY <1>2, <2>1, Zenon
  <2>3. \A k \in 0 .. m : mags[k] = SquaredMagnitude(samples, size, k)
    BY <1>2, Zenon
  <2> QED BY <2>1, <2>2, <2>3, Zenon
<1>6. Cardinality(DOMAIN mags) = m + 1
  <2>1. DOMAIN mags = 0 .. m
    BY <1>5
  <2> QED BY <1>4, <2>1, CountFrom0, Zenon
<1>7. m >= 1
  <2>1. Cardinality(DOMAIN mags) > 1
    BY <1>3, Zenon
  <2>2. m + 1 > 1
    BY <1>6, <2>1, Zenon
  <2> QED BY <1>4, <2>2
<1>8. TopIsRanked(mags, TopK(mags), m + 1)
  <2>1. RankedFirst(mags, TopK(mags), m)
    BY <1>4, <1>5, <1>6, <1>7, TopKRanks, Zenon
  <2> QED BY <1>4, <1>5, <2>1, RankingTold, Zenon
<1>9. PsdPeak(mags) = mags[TopK(mags)[1]]
  BY <1>4, <1>5, <1>6, <1>7, PeakIsRankedFirst, Zenon
<1> QED BY <1>3, <1>6, <1>8, <1>9, Zenon
-----------------------------------------------------------------------------
(* g is the greatest common divisor of a and b.                            *)
Divides(g, a) == \E q \in Int : a = g * q

IsGcd(g, a, b) ==
  /\ g \in Nat /\ Divides(g, a) /\ Divides(g, b)
  /\ \E x, y \in Int : x * a + y * b = g

LEMMA DivisorsAgree ==
  ASSUME NEW g \in Nat, NEW h \in Nat, Divides(g, h), Divides(h, g) PROVE g = h
<1>1. PICK p \in Int : h = g * p
  BY DEF Divides
<1>2. PICK q \in Int : g = h * q
  BY DEF Divides
<1>3. ASSUME NEW u \in Nat, NEW v \in Nat, NEW z \in Int, v = u * z PROVE v = 0 \/ u <= v
  <2>1. CASE z <= 0
    <3>1. u * z <= 0
      BY <2>1, SMT
    <3> QED BY <1>3, <3>1
  <2>2. CASE z >= 1
    <3>1. u * z >= u
      BY <2>2, SMT
    <3> QED BY <1>3, <3>1
  <2> QED BY <2>1, <2>2
<1>4. (h = 0 \/ g <= h) /\ (g = 0 \/ h <= g)
  BY <1>1, <1>2, <1>3, Zenon
<1>5. (h = 0 => g = 0) /\ (g = 0 => h = 0)
  <2>1. \A z \in Int : 0 * z = 0
    BY SMT
  <2> QED BY <1>1, <1>2, <2>1, Zenon
<1> QED BY <1>4, <1>5

(* What divides two numbers divides their combinations.                    *)
LEMMA DividesCombination ==
  ASSUME NEW g \in Int, NEW a \in Int, NEW b \in Int, NEW x \in Int, NEW y \in Int,
         Divides(g, a), Divides(g, b)
  PROVE  Divides(g, x * a + y * b)
<1>1. PICK p \in Int : a = g * p
  BY DEF Divides
<1>2. PICK q \in Int : b = g * q
  BY DEF Divides
<1>3. x * (g * p) + y * (g * q) = g * (x * p + y * q)
  BY SMT
<1>4. x * p + y * q \in Int
  BY SMT
<1>5. x * a + y * b = g * (x * p + y * q)
  BY <1>1, <1>2, <1>3, Zenon
<1> QED BY <1>4, <1>5, Zenon DEF Divides

LEMMA GcdUnique ==
  ASSUME NEW a \in Int, NEW b \in Int, NEW g, NEW h, IsGcd(g, a, b), IsGcd(h, a, b)
  PROVE  g = h
<1>1. g \in Nat /\ h \in Nat /\ g \in Int /\ h \in Int
  BY DEF IsGcd
<1>2. PICK x \in Int, y \in Int : x * a + y * b = g
  BY Zenon DEF IsGcd
<1>3. PICK z \in Int, w \in Int : z * a + w * b = h
  BY Zenon DEF IsGcd
<1>4. Divides(h, x * a + y * b)
  BY <1>1, DividesCombination, Zenon DEF IsGcd
<1>5. Divides(g, z * a + w * b)
  BY <1>1, DividesCombination, Zenon DEF IsGcd
<1>6. Divides(h, g) /\ Divides(g, h)
  BY <1>2, <1>3, <1>4, <1>5, Zenon
<1> QED BY <1>1, <1>6, DivisorsAgree, Zenon

LEMMA DivisorOfItself == \A a \in Int : Divides(a, a) /\ Divides(a, 0)
<1> TAKE a \in Int
<1>1. a = a * 1 /\ 0 = a * 0 /\ 1 \in Int /\ 0 \in Int
  OBVIOUS
<1> QED BY <1>1, Zenon DEF Divides

(* The step of Euclid's algorithm.                                         *)
LEMMA GcdStep ==
  ASSUME NEW a \in Nat, NEW b \in Nat, b # 0, NEW g, IsGcd(g, b, a % b)
  PROVE  IsGcd(g, a, b)
<1> DEFINE q == a \div b
           r == a % b
<1>1. q \in Int /\ r \in Int /\ a = b * q + r
  BY SMT
<1>2. PICK x \in Int, y \in Int : x * b + y * r = g
  BY Zenon DEF IsGcd
<1>3. g \in Nat /\ g \in Int /\ Divides(g, b) /\ Divides(g, r)
  BY DEF IsGcd
<1> HIDE DEF q, r
<1>4. Divides(g, q * b + 1 * r)
  <2>1. b \in Int /\ 1 \in Int
    OBVIOUS
  <2> QED BY <1>1, <1>3, <2>1, DividesCombination, Zenon
<1>5. q * b + 1 * r = a
  BY <1>1, SMT
<1>6. y * a + (x - y * q) * b = g
  <2>1. y * (b * q + r) + (x - y * q) * b = x * b + y * r
    BY <1>1, SMT
  <2> QED BY <1>1, <1>2, <2>1, Zenon
<1>7. x - y * q \in Int
  BY <1>1, SMT
<1>8. \E u, v \in Int : u * a + v * b = g
  BY <1>6, <1>7, Zenon
<1> QED BY <1>3, <1>4, <1>5, <1>8, Zenon DEF IsGcd

LEMMA GcdOfZero == \A a \in Nat : IsGcd(a, a, 0)
<1> TAKE a \in Nat
<1>1. 1 * a + 0 * 0 = a /\ 1 \in Int /\ 0 \in Int /\ a \in Int
  OBVIOUS
<1>2. Divides(a, a) /\ Divides(a, 0)
  BY DivisorOfItself
<1>3. \E x, y \in Int : x * a + y * 0 = a
  BY <1>1, Zenon
<1> QED BY <1>2, <1>3, Zenon DEF IsGcd

LEMMA GcdExists == \A a, b \in Nat : \E g : IsGcd(g, a, b)
<1> DEFINE P == {n \in Nat : \A b \in 0 .. n : \A a \in Nat : \E g : IsGcd(g, a, b)}
<1>1. 0 \in P
  <2>1. \A b \in 0 .. 0 : b = 0
    OBVIOUS
  <2>2. \A b \in 0 .. 0 : \A a \in Nat : \E g : IsGcd(g, a, b)
    BY <2>1, GcdOfZero, Zenon
  <2> QED BY <2>2
<1>2. ASSUME NEW n \in Nat, n \in P PROVE n + 1 \in P
  <2>1. ASSUME NEW b \in 0 .. n + 1, NEW a \in Nat PROVE \E g : IsGcd(g, a, b)
    <3>1. CASE b = 0
      BY <3>1, GcdOfZero
    <3>2. CASE b # 0
      <4>1. b \in Nat /\ a % b \in 0 .. n
        BY <3>2, SMT
      <4>2. PICK g : IsGcd(g, b, a % b)
        BY <1>2, <4>1
      <4>3. IsGcd(g, a, b)
        BY <3>2, <4>1, <4>2, GcdStep
      <4> QED BY <4>3
    <3> QED BY <3>1, <3>2
  <2> QED BY <2>1
<1> HIDE DEF P
<1>3. P \in SUBSET Nat
  BY DEF P
<1>4. \A n \in Nat : n \in P
  BY <1>1, <1>2, <1>3, InductiveSet
<1>5. \A b \in Nat : b \in 0 .. b
  OBVIOUS
<1> QED BY <1>4, <1>5, Zenon DEF P

(* The recursion of gcd has a solution, which is therefore gcd; and gcd is *)
(* the greatest common divisor.                                            *)
LEMMA GcdUnfolds ==
  ASSUME NEW a \in Nat, NEW b \in Nat
  PROVE  gcd[<<a, b>>] = IF b = 0 THEN a ELSE gcd[<<b, a % b>>]
<1> DEFINE G == [p \in Nat \X Nat |-> CHOOSE g : IsGcd(g, p[1], p[2])]
<1>1. ASSUME NEW x \in Nat, NEW y \in Nat PROVE IsGcd(G[<<x, y>>], x, y)
  <2>1. \E g : IsGcd(g, x, y)
    BY GcdExists
  <2>2. <<x, y>> \in Nat \X Nat /\ <<x, y>>[1] = x /\ <<x, y>>[2] = y
    OBVIOUS
  <2>3. G[<<x, y>>] = CHOOSE g : IsGcd(g, <<x, y>>[1], <<x, y>>[2])
    BY <2>2, Zenon
  <2>4. G[<<x, y>>] = CHOOSE g : IsGcd(g, x, y)
    BY <2>2, <2>3
  <2> QED BY <2>1, <2>4, Zenon
<1>2. ASSUME NEW p \in Nat \X Nat
      PROVE  G[p] = IF p[2] = 0 THEN p[1] ELSE G[<<p[2], p[1] % p[2]>>]
  <2>1. PICK x \in Nat, y \in Nat : p = <<x, y>>
    OBVIOUS
  <2>2. p[1] = x /\ p[2] = y /\ x \in Int /\ y \in Int
    BY <2>1
  <2>3. IsGcd(G[p], x, y)
    BY <1>1, <2>1, Zenon
  <2> HIDE DEF G
  <2>4. CASE y = 0
    <3>1. IsGcd(x, x, 0)
      BY GcdOfZero
    <3>2. G[p] = x
      BY <2>2, <2>3, <2>4, <3>1, GcdUnique
    <3> QED BY <2>2, <2>4, <3>2, Zenon
  <2>5. CASE y # 0
    <3>1. x % y \in Nat
      BY <2>5
    <3>2. IsGcd(G[<<y, x % y>>], y, x % y)
      BY <1>1, <3>1
    <3>3. IsGcd(G[<<y, x % y>>], x, y)
      BY <2>5, <3>2, GcdStep
    <3>4. G[p] = G[<<y, x % y>>]
      BY <2>2, <2>3, <3>3, GcdUnique
    <3> QED BY <2>2, <2>5, <3>4, Zenon
  <2> QED BY <2>4, <2>5
<1>3. G = [p \in Nat \X Nat |-> IF p[2] = 0 THEN p[1] ELSE G[<<p[2], p[1] % p[2]>>]]
  <2>1. G = [p \in Nat \X Nat |-> G[p]]
    <3> DEFINE choice(p) == CHOOSE g : IsGcd(g, p[1], p[2])
    <3> HIDE DEF choice
    <3>1. [p \in Nat \X Nat |-> choice(p)] = [p \in Nat \X Nat |-> [r \in Nat \X Nat |-> choice(r)][p]]
      OBVIOUS
    <3> QED BY <3>1, Zenon DEF choice
  <2> HIDE DEF G
  <2> QED BY <1>2, <2>1, Zenon
<1>4. gcd = CHOOSE f : f = [p \in Nat \X Nat |-> IF p[2] = 0 THEN p[1] ELSE f[<<p[2], p[1] % p[2]>>]]
  BY Zenon DEF gcd
<1>5. gcd = [p \in Nat \X Nat |-> IF p[2] = 0 THEN p[1] ELSE gcd[<<p[2], p[1] % p[2]>>]]
  <2> HIDE DEF G
  <2> QED BY <1>3, <1>4, Zenon
<1> DEFINE q == <<a, b>>
<1>6. q \in Nat \X Nat /\ q[1] = a /\ q[2] = b
  OBVIOUS
<1> HIDE DEF q
<1>7. gcd[q] = IF q[2] = 0 THEN q[1] ELSE gcd[<<q[2], q[1] % q[2]>>]
  BY <1>5, <1>6, Zenon
<1> QED BY <1>6, <1>7, Zenon DEF q

LEMMA GcdIs == \A a, b \in Nat : IsGcd(gcd[<<a, b>>], a, b)
<1> DEFINE P == {n \in Nat : \A b \in 0 .. n : \A a \in Nat : IsGcd(gcd[<<a, b>>], a, b)}
<1>1. 0 \in P
  <2>1. ASSUME NEW b \in 0 .. 0, NEW a \in Nat PROVE IsGcd(gcd[<<a, b>>], a, b)
    <3>1. b = 0 /\ b \in Nat
      OBVIOUS
    <3>2. gcd[<<a, b>>] = a
      BY <3>1, GcdUnfolds, Zenon
    <3> QED BY <3>1, <3>2, GcdOfZero, Zenon
  <2> QED BY <2>1
<1>2. ASSUME NEW n \in Nat, n \in P PROVE n + 1 \in P
  <2>1. ASSUME NEW b \in 0 .. n + 1, NEW a \in Nat PROVE IsGcd(gcd[<<a, b>>], a, b)
    <3>0. b \in Nat
      OBVIOUS
    <3>1. CASE b = 0
      <4>1. gcd[<<a, b>>] = a
        BY <3>0, <3>1, GcdUnfolds, Zenon
      <4> QED BY <3>1, <4>1, GcdOfZero, Zenon
    <3>2. CASE b # 0
      <4>1. a % b \in Nat /\ a % b \in 0 .. n
        BY <3>0, <3>2, SMT
      <4>2. IsGcd(gcd[<<b, a % b>>], b, a % b)
        BY <1>2, <3>0, <4>1
      <4>3. gcd[<<a, b>>] = gcd[<<b, a % b>>]
        BY <3>0, <3>2, GcdUnfolds, Zenon
      <4> QED BY <3>0, <3>2, <4>2, <4>3, GcdStep, Zenon
    <3> QED BY <3>1, <3>2
  <2> QED BY <2>1
<1> HIDE DEF P
<1>3. P \in SUBSET Nat
  BY DEF P
<1>4. \A n \in Nat : n \in P
  BY <1>1, <1>2, <1>3, InductiveSet
<1>5. \A b \in Nat : b \in 0 .. b
  OBVIOUS
<1> QED BY <1>4, <1>5, Zenon DEF P

(* f is the fraction n / d in lowest terms.                                *)
Coprime(a, b) == \E x, y \in Int : x * a + y * b = 1

Lowest == {f \in Int \X (Nat \ {0}) : Coprime(f[1], f[2])}

IsValue(f, n, d) == f \in Lowest /\ f[1] * d = n * f[2]

LEMMA LowestParts ==
  ASSUME NEW f \in Lowest
  PROVE  /\ f[1] \in Int /\ f[2] \in Nat /\ f[2] # 0 /\ f[2] \in Int
         /\ f = <<f[1], f[2]>> /\ Coprime(f[1], f[2])
<1>1. f \in Int \X (Nat \ {0}) /\ Coprime(f[1], f[2])
  BY Zenon DEF Lowest
<1>2. f[1] \in Int /\ f[2] \in Nat /\ f[2] # 0 /\ f[2] \in Int /\ f = <<f[1], f[2]>>
  BY <1>1
<1> QED BY <1>1, <1>2

LEMMA LowestPair ==
  ASSUME NEW a \in Int, NEW b \in Nat, b # 0, Coprime(a, b)
  PROVE  <<a, b>> \in Lowest /\ <<a, b>>[1] = a /\ <<a, b>>[2] = b
<1>1. <<a, b>> \in Int \X (Nat \ {0}) /\ <<a, b>>[1] = a /\ <<a, b>>[2] = b
  OBVIOUS
<1> QED BY <1>1, Zenon DEF Lowest

(* Products that are not 0, and factors that cancel.                       *)
LEMMA Products ==
  /\ \A a, b \in Nat : a # 0 /\ b # 0 => a * b \in Nat /\ a * b # 0
  /\ \A a, b \in Int : a * b \in Int
  /\ \A a, b, c \in Int : a # 0 /\ a * b = a * c => b = c
<1>1. \A a, b \in Nat : a # 0 /\ b # 0 => a * b \in Nat /\ a * b # 0
  BY SMT
<1>2. \A a, b \in Int : a * b \in Int
  BY SMT
<1>3. ASSUME NEW a \in Int, NEW b \in Int, NEW c \in Int, a # 0, a * b = a * c PROVE b = c
  <2>1. a * (b - c) = 0
    BY <1>3, SMT
  <2>2. b - c \in Int
    OBVIOUS
  <2>3. \A z \in Int : a * z = 0 => z = 0
    BY <1>3, SMT
  <2>4. b - c = 0
    BY <2>1, <2>2, <2>3
  <2> QED BY <2>4
<1> QED BY <1>1, <1>2, <1>3

(* Fractions in lowest terms of one value are one.                         *)
LEMMA ValuesAgree ==
  ASSUME NEW n \in Int, NEW d \in Nat, NEW m \in Int, NEW e \in Nat, d # 0, e # 0,
         n * e = m * d, NEW f, NEW h, IsValue(f, n, d), IsValue(h, m, e)
  PROVE  f = h
<1>1. f \in Lowest /\ h \in Lowest /\ f[1] * d = n * f[2] /\ h[1] * e = m * h[2]
  BY Zenon DEF IsValue
<1> DEFINE a == f[1]
           b == f[2]
           c == h[1]
           g == h[2]
<1>2. a \in Int /\ b \in Nat /\ b # 0 /\ f = <<a, b>> /\ Coprime(a, b) /\ b \in Int
  BY <1>1, LowestParts
<1>3. c \in Int /\ g \in Nat /\ g # 0 /\ h = <<c, g>> /\ Coprime(c, g) /\ g \in Int
  BY <1>1, LowestParts
<1>4. a * d = n * b /\ c * e = m * g
  BY <1>1
<1> HIDE DEF a, b, c, g
<1>5. a * g = c * b
  <2>1. (d * e) * (a * g) = (a * d) * (e * g)
    BY <1>2, <1>3, SMT
  <2>2. (n * b) * (e * g) = (n * e) * (b * g)
    BY <1>2, <1>3, SMT
  <2>3. (m * d) * (b * g) = (m * g) * (d * b)
    BY <1>2, <1>3, SMT
  <2>4. (c * e) * (d * b) = (d * e) * (c * b)
    BY <1>2, <1>3, SMT
  <2>5. (d * e) * (a * g) = (d * e) * (c * b)
    BY <1>4, <2>1, <2>2, <2>3, <2>4, Zenon
  <2>6. d * e \in Int /\ d * e # 0 /\ a * g \in Int /\ c * b \in Int
    BY <1>2, <1>3, Products
  <2> QED BY <2>5, <2>6, Products
(* What is prime to its own numerator divides what it has to.              *)
<1>6. ASSUME NEW p \in Int, NEW q \in Int, NEW r \in Int, NEW s \in Int,
             Coprime(p, q), p * s = r * q
      PROVE  Divides(q, s)
  <2>1. PICK x \in Int, y \in Int : x * p + y * q = 1
    BY <1>6, Zenon DEF Coprime
  <2>2. s = (x * p + y * q) * s
    BY <2>1
  <2>3. (x * p + y * q) * s = x * (p * s) + y * q * s
    BY SMT
  <2>4. x * (r * q) + y * q * s = q * (x * r + y * s)
    BY SMT
  <2>5. s = q * (x * r + y * s)
    BY <1>6, <2>2, <2>3, <2>4, Zenon
  <2>6. x * r + y * s \in Int
    BY SMT
  <2> QED BY <2>5, <2>6, Zenon DEF Divides
<1>7. Divides(b, g)
  BY <1>2, <1>3, <1>5, <1>6, Zenon
<1>8. Divides(g, b)
  <2>1. c * b = a * g
    BY <1>5
  <2> QED BY <1>2, <1>3, <1>6, <2>1, Zenon
<1>9. b = g
  BY <1>2, <1>3, <1>7, <1>8, DivisorsAgree
<1>10. a = c
  <2>1. b * a = a * g /\ b * c = c * b
    BY <1>2, <1>3, <1>9
  <2>2. b * a = b * c
    BY <1>5, <2>1
  <2> QED BY <1>2, <1>3, <2>2, Products
<1> QED BY <1>2, <1>3, <1>9, <1>10

(* Fraction has the value it is named for, and cancels a common factor.    *)
LEMMA FractionCancels ==
  ASSUME NEW n \in Int, NEW d \in Nat, d # 0
  PROVE  \E g \in Nat \ {0} : /\ n = g * Fraction(n, d)[1] /\ d = g * Fraction(n, d)[2]
                              /\ Fraction(n, d) \in Lowest
<1> DEFINE g == gcd[<<Abs(n), d>>]
<1>1. Abs(n) \in Nat /\ (Abs(n) = n \/ Abs(n) = -n)
  BY DEF Abs
<1>2. IsGcd(g, Abs(n), d)
  BY <1>1, GcdIs, Zenon
<1>3. Fraction(n, d) = <<n \div g, d \div g>>
  BY Zenon DEF Fraction
<1> HIDE DEF g
<1>4. g \in Nat /\ g \in Int /\ Divides(g, Abs(n)) /\ Divides(g, d)
  BY <1>2 DEF IsGcd
<1>5. PICK q \in Int : d = g * q
  BY <1>4 DEF Divides
<1>6. g # 0
  <2>1. \A z \in Int : 0 * z = 0
    BY SMT
  <2> QED BY <1>5, <2>1
<1>7. q \in Nat /\ q # 0
  <2>1. q >= 1
    <3> SUFFICES ASSUME q <= 0 PROVE FALSE
      OBVIOUS
    <3>1. g * q <= 0
      BY <1>4, SMT
    <3> QED BY <1>5, <3>1
  <2> QED BY <2>1
<1>8. PICK p \in Int : n = g * p
  <2>1. PICK z \in Int : Abs(n) = g * z
    BY <1>4 DEF Divides
  <2>2. CASE Abs(n) = n
    BY <2>1, <2>2
  <2>3. CASE Abs(n) = -n
    <3>1. g * (-z) = -(g * z)
      BY <1>4, SMT
    <3>2. n = g * (-z)
      BY <2>1, <2>3, <3>1
    <3> QED BY <3>2
  <2> QED BY <1>1, <2>2, <2>3
<1>9. n \div g = p /\ d \div g = q
  <2>1. \A z \in Int : (g * z) \div g = z
    BY <1>4, <1>6, SMT
  <2> QED BY <1>5, <1>8, <2>1
<1>10. Coprime(p, q)
  <2>1. PICK x \in Int, y \in Int : x * Abs(n) + y * d = g
    BY <1>2, Zenon DEF IsGcd
  <2>2. PICK w \in Int : w * n + y * d = g
    <3>1. CASE Abs(n) = n
      BY <2>1, <3>1
    <3>2. CASE Abs(n) = -n
      <4>1. (-x) * n = x * (-n)
        BY SMT
      <4>2. (-x) * n + y * d = g
        BY <2>1, <3>2, <4>1
      <4>3. -x \in Int
        OBVIOUS
      <4> QED BY <4>2, <4>3, Zenon
    <3> QED BY <1>1, <3>1, <3>2
  <2>3. w * (g * p) + y * (g * q) = g * (w * p + y * q)
    BY <1>4, SMT
  <2>4. g * (w * p + y * q) = g * 1
    BY <1>4, <1>5, <1>8, <2>2, <2>3
  <2>5. w * p + y * q \in Int /\ 1 \in Int
    BY SMT
  <2>6. w * p + y * q = 1
    BY <1>4, <1>6, <2>4, <2>5, Products, Zenon
  <2> QED BY <2>6, Zenon DEF Coprime
<1>11. <<p, q>> \in Lowest /\ <<p, q>>[1] = p /\ <<p, q>>[2] = q
  BY <1>7, <1>10, LowestPair
<1>12. Fraction(n, d) = <<p, q>>
  BY <1>3, <1>9, Zenon
<1>13. g \in Nat \ {0}
  BY <1>4, <1>6
<1> QED BY <1>5, <1>8, <1>11, <1>12, <1>13, Zenon

LEMMA FractionValue ==
  ASSUME NEW n \in Int, NEW d \in Nat, d # 0 PROVE IsValue(Fraction(n, d), n, d)
<1> DEFINE f == Fraction(n, d)
<1>1. PICK g \in Nat \ {0} : n = g * f[1] /\ d = g * f[2] /\ f \in Lowest
  BY FractionCancels, Zenon
<1> HIDE DEF f
<1>2. f[1] \in Int /\ f[2] \in Int /\ g \in Int
  BY <1>1, LowestParts
<1>3. f[1] * (g * f[2]) = (g * f[1]) * f[2]
  BY <1>2, SMT
<1>4. f[1] * d = n * f[2]
  BY <1>1, <1>3, Zenon
<1> QED BY <1>1, <1>4, Zenon DEF IsValue, f

(* A value is that of every equal fraction.                                *)
LEMMA ValueOfEqual ==
  ASSUME NEW n \in Int, NEW d \in Nat, NEW m \in Int, NEW e \in Nat, d # 0,
         n * e = m * d, NEW f, IsValue(f, n, d)
  PROVE  IsValue(f, m, e)
<1>1. f \in Lowest /\ f[1] * d = n * f[2]
  BY Zenon DEF IsValue
<1> DEFINE a == f[1]
           b == f[2]
<1>2. a \in Int /\ b \in Int
  BY <1>1, LowestParts
<1>3. a * d = n * b
  BY <1>1
<1> HIDE DEF a, b
<1>4. d * (a * e) = (a * d) * e
  BY <1>2, SMT
<1>5. (n * b) * e = (n * e) * b
  BY <1>2, SMT
<1>6. (m * d) * b = d * (m * b)
  BY <1>2, SMT
<1>7. d * (a * e) = d * (m * b)
  BY <1>3, <1>4, <1>5, <1>6, Zenon
<1>8. d \in Int /\ a * e \in Int /\ m * b \in Int
  BY <1>2, Products
<1>9. a * e = m * b
  BY <1>7, <1>8, Products
<1> QED BY <1>1, <1>9, Zenon DEF IsValue, a, b

LEMMA WholeValue ==
  ASSUME NEW n \in Int
  PROVE  /\ IsValue(Whole(n), n, 1)
         /\ Whole(n) \in Lowest /\ Whole(n)[1] = n /\ Whole(n)[2] = 1
<1>1. 0 * n + 1 * 1 = 1
  OBVIOUS
<1>2. Coprime(n, 1)
  <2>1. 0 \in Int /\ 1 \in Int
    OBVIOUS
  <2> QED BY <1>1, <2>1, Zenon DEF Coprime
<1>3. <<n, 1>> \in Lowest /\ <<n, 1>>[1] = n /\ <<n, 1>>[2] = 1
  <2>1. 1 \in Nat /\ 1 # 0
    OBVIOUS
  <2> QED BY <1>2, <2>1, LowestPair
<1> QED BY <1>3, Zenon DEF IsValue, Whole

LEMMA PartValue ==
  ASSUME NEW m \in Int, m \in {1}, NEW n \in Nat, n # 0 PROVE IsValue(<<m, n>>, m, n)
<1>1. 1 * m + 0 * n = 1
  OBVIOUS
<1>2. Coprime(m, n)
  <2>1. 0 \in Int /\ 1 \in Int
    OBVIOUS
  <2> QED BY <1>1, <2>1, Zenon DEF Coprime
<1>3. <<m, n>> \in Lowest /\ <<m, n>>[1] = m /\ <<m, n>>[2] = n
  BY <1>2, LowestPair
<1> QED BY <1>3, Zenon DEF IsValue

LEMMA CoprimeSwaps ==
  ASSUME NEW a \in Int, NEW b \in Int, Coprime(a, b) PROVE Coprime(b, a)
<1>1. PICK x \in Int, y \in Int : x * a + y * b = 1
  BY Zenon DEF Coprime
<1>2. y * b + x * a = 1
  <2>1. x * a \in Int /\ y * b \in Int
    BY Products
  <2> QED BY <1>1, <2>1
<1> QED BY <1>2, Zenon DEF Coprime

(* What is prime to a multiple is prime to the factor; what is prime to    *)
(* two numbers is prime to their product.                                  *)
LEMMA CoprimeFactor ==
  ASSUME NEW g \in Int, NEW a \in Int, NEW h \in Int, NEW b \in Int, Coprime(g * a, h * b)
  PROVE  Coprime(a, b)
<1>1. PICK x \in Int, y \in Int : x * (g * a) + y * (h * b) = 1
  BY Zenon DEF Coprime
<1>2. x * (g * a) = (x * g) * a /\ y * (h * b) = (y * h) * b
  BY SMT
<1>3. x * g \in Int /\ y * h \in Int
  BY Products
<1>4. (x * g) * a + (y * h) * b = 1
  BY <1>1, <1>2, Zenon
<1> QED BY <1>3, <1>4, Zenon DEF Coprime

LEMMA CoprimeProduct ==
  ASSUME NEW p \in Int, NEW q \in Int, NEW r \in Int, Coprime(p, r), Coprime(q, r)
  PROVE  Coprime(p * q, r)
<1>1. PICK x \in Int, y \in Int : x * p + y * r = 1
  BY Zenon DEF Coprime
<1>2. PICK z \in Int, w \in Int : z * q + w * r = 1
  BY Zenon DEF Coprime
<1> DEFINE v == x * p * w + y * z * q + y * w * r
<1>3. (x * p + y * r) * (z * q + w * r) = (x * z) * (p * q) + v * r
  BY SMT
<1>4. (x * z) * (p * q) + v * r = 1
  BY <1>1, <1>2, <1>3
<1>5. x * z \in Int /\ v \in Int
  BY SMT
<1> HIDE DEF v
<1> QED BY <1>4, <1>5, Zenon DEF Coprime

(* Times, of fractions in lowest terms, needs no cancelling after it.      *)
LEMMA TimesLowest ==
  ASSUME NEW a \in Lowest, NEW b \in Lowest
  PROVE  IsValue(Times(a, b), a[1] * b[1], a[2] * b[2])
<1> DEFINE x == Fraction(a[1], b[2])
           y == Fraction(b[1], a[2])
<1>1. /\ a[1] \in Int /\ a[2] \in Nat /\ a[2] # 0 /\ Coprime(a[1], a[2])
      /\ b[1] \in Int /\ b[2] \in Nat /\ b[2] # 0 /\ Coprime(b[1], b[2])
  BY LowestParts
<1>2. PICK g \in Nat \ {0} : a[1] = g * x[1] /\ b[2] = g * x[2] /\ x \in Lowest
  BY <1>1, FractionCancels, Zenon
<1>3. PICK h \in Nat \ {0} : b[1] = h * y[1] /\ a[2] = h * y[2] /\ y \in Lowest
  BY <1>1, FractionCancels, Zenon
<1>4. Times(a, b) = <<x[1] * y[1], x[2] * y[2]>>
  BY Zenon DEF Times
<1> DEFINE p == x[1]
           q == x[2]
           r == y[1]
           s == y[2]
<1>5. p \in Int /\ q \in Nat /\ q \in Int /\ q # 0 /\ Coprime(p, q)
  BY <1>2, LowestParts
<1>6. r \in Int /\ s \in Nat /\ s \in Int /\ s # 0 /\ Coprime(r, s)
  BY <1>3, LowestParts
<1>7. a[1] = g * p /\ b[2] = g * q /\ b[1] = h * r /\ a[2] = h * s /\ g \in Int /\ h \in Int
  BY <1>2, <1>3
<1> HIDE DEF x, y, p, q, r, s
<1>8. Coprime(p, s) /\ Coprime(r, q)
  <2>1. Coprime(g * p, h * s) /\ Coprime(h * r, g * q)
    BY <1>1, <1>7
  <2> QED BY <1>5, <1>6, <1>7, <2>1, CoprimeFactor
<1>9. Coprime(p * r, q) /\ Coprime(p * r, s) /\ p * r \in Int /\ q * s \in Int
  BY <1>5, <1>6, <1>8, CoprimeProduct, Products
<1>10. Coprime(q * s, p * r)
  <2>1. Coprime(q, p * r) /\ Coprime(s, p * r)
    BY <1>5, <1>6, <1>9, CoprimeSwaps
  <2> QED BY <1>5, <1>6, <1>9, <2>1, CoprimeProduct
<1>11. Coprime(p * r, q * s)
  BY <1>9, <1>10, CoprimeSwaps
<1>12. q * s \in Nat /\ q * s # 0
  BY <1>5, <1>6, Products
<1> DEFINE t == Times(a, b)
<1>13. t \in Lowest /\ t[1] = p * r /\ t[2] = q * s
  BY <1>4, <1>9, <1>11, <1>12, LowestPair DEF p, q, r, s
<1> HIDE DEF t
<1>14. (p * r) * ((h * s) * (g * q)) = ((g * p) * (h * r)) * (q * s)
  BY <1>5, <1>6, <1>7, SMT
<1>15. t[1] * (a[2] * b[2]) = (a[1] * b[1]) * t[2]
  BY <1>7, <1>13, <1>14, Zenon
<1> QED BY <1>13, <1>15, Zenon DEF IsValue, t

LEMMA TimesValue ==
  ASSUME NEW n \in Int, NEW d \in Nat, d # 0, NEW m \in Int, NEW e \in Nat, e # 0,
         NEW a, NEW b, IsValue(a, n, d), IsValue(b, m, e)
  PROVE  IsValue(Times(a, b), n * m, d * e)
<1>1. a \in Lowest /\ b \in Lowest /\ a[1] * d = n * a[2] /\ b[1] * e = m * b[2]
  BY Zenon DEF IsValue
<1> DEFINE p == a[1]
           q == a[2]
           r == b[1]
           s == b[2]
<1>2. /\ p \in Int /\ q \in Nat /\ q # 0 /\ q \in Int
      /\ r \in Int /\ s \in Nat /\ s # 0 /\ s \in Int
  BY <1>1, LowestParts
<1>3. p * d = n * q /\ r * e = m * s
  BY <1>1
<1>4. IsValue(Times(a, b), p * r, q * s)
  BY <1>1, TimesLowest
<1> HIDE DEF p, q, r, s
<1>5. (p * r) * (d * e) = (p * d) * (r * e) /\ (n * q) * (m * s) = (n * m) * (q * s)
  BY <1>2, SMT
<1>6. (p * r) * (d * e) = (n * m) * (q * s)
  BY <1>3, <1>5, Zenon
<1>7. p * r \in Int /\ q * s \in Nat /\ q * s # 0 /\ n * m \in Int /\ d * e \in Nat
  BY <1>2, Products
<1> QED BY <1>4, <1>6, <1>7, ValueOfEqual, Zenon

(* What is left of two numbers that their greatest divisor divides.        *)
LEMMA GcdQuotients ==
  ASSUME NEW a \in Nat, NEW b \in Nat, a # 0, b # 0, NEW g, g = gcd[<<a, b>>]
  PROVE  /\ g \in Nat /\ g # 0
         /\ a \div g \in Nat /\ a \div g # 0 /\ a = g * (a \div g)
         /\ b \div g \in Nat /\ b \div g # 0 /\ b = g * (b \div g)
<1>1. IsGcd(g, a, b)
  BY GcdIs, Zenon
<1>2. g \in Nat /\ Divides(g, a) /\ Divides(g, b)
  BY <1>1 DEF IsGcd
<1>3. ASSUME NEW c \in Nat, c # 0, Divides(g, c)
      PROVE  g # 0 /\ c \div g \in Nat /\ c \div g # 0 /\ c = g * (c \div g)
  <2>1. PICK q \in Int : c = g * q
    BY <1>3 DEF Divides
  <2>2. g # 0
    <3>1. \A z \in Int : 0 * z = 0
      BY SMT
    <3> QED BY <1>3, <2>1, <3>1
  <2>3. q >= 1
    <3> SUFFICES ASSUME q <= 0 PROVE FALSE
      OBVIOUS
    <3>1. g * q <= 0
      BY <1>2, SMT
    <3> QED BY <1>3, <2>1, <3>1
  <2>4. c \div g = q
    <3>1. \A z \in Int : (g * z) \div g = z
      BY <1>2, <2>2, SMT
    <3> QED BY <2>1, <3>1
  <2> QED BY <2>1, <2>2, <2>3, <2>4
<1> QED BY <1>2, <1>3

LEMMA PlusLowest ==
  ASSUME NEW a, NEW b, NEW p \in Int, NEW q \in Nat, q # 0, NEW r \in Int, NEW s \in Nat, s # 0,
         a[1] = p, a[2] = q, b[1] = r, b[2] = s
  PROVE  IsValue(Plus(a, b), p * s + r * q, q * s)
<1> DEFINE g == gcd[<<q, s>>]
           u == q \div g
           v == s \div g
<1>1. /\ g \in Nat /\ g # 0 /\ g \in Int
      /\ u \in Nat /\ u # 0 /\ q = g * u /\ u \in Int
      /\ v \in Nat /\ v # 0 /\ s = g * v /\ v \in Int
  <2>1. /\ g \in Nat /\ g # 0
        /\ u \in Nat /\ u # 0 /\ q = g * u
        /\ v \in Nat /\ v # 0 /\ s = g * v
    <3>1. \A z \in {gcd[<<q, s>>]} : /\ z \in Nat /\ z # 0
                                     /\ q \div z \in Nat /\ q \div z # 0 /\ q = z * (q \div z)
                                     /\ s \div z \in Nat /\ s \div z # 0 /\ s = z * (s \div z)
      <4> TAKE z \in {gcd[<<q, s>>]}
      <4>1. z = gcd[<<q, s>>]
        BY Zenon
      <4> HIDE DEF g, u, v
      <4> QED BY <4>1, GcdQuotients
    <3> QED BY <3>1, Zenon
  <2> HIDE DEF g, u, v
  <2> QED BY <2>1
<1>2. Plus(a, b) = Fraction(p * v + r * u, u * s)
  BY Zenon DEF Plus
<1> HIDE DEF g, u, v
<1>3. p * v + r * u \in Int /\ u * s \in Nat /\ u * s # 0
  <2>1. p * v \in Int /\ r * u \in Int
    BY <1>1, Products
  <2> QED BY <1>1, <2>1, Products
<1>4. IsValue(Plus(a, b), p * v + r * u, u * s)
  BY <1>2, <1>3, FractionValue
<1>5. (p * v + r * u) * ((g * u) * s) = (p * (g * v) + r * (g * u)) * (u * s)
  BY <1>1, SMT
<1>6. (p * v + r * u) * (q * s) = (p * s + r * q) * (u * s)
  <2> DEFINE s2 == s
  <2>1. (p * v + r * u) * (q * s2) = (p * (g * v) + r * q) * (u * s2)
    BY <1>1, <1>5, Zenon
  <2> HIDE DEF s2
  <2>2. (p * v + r * u) * (q * s2) = (p * s + r * q) * (u * s2)
    BY <1>1, <2>1, Zenon
  <2> QED BY <2>2 DEF s2
<1>7. p * s + r * q \in Int /\ q * s \in Nat
  <2>1. p * s \in Int /\ r * q \in Int
    BY Products
  <2> QED BY <2>1, Products
<1> DEFINE x == p * v + r * u
           y == u * s
           z == p * s + r * q
           w == q * s
           f == Plus(a, b)
<1>8. IsValue(f, x, y) /\ x * w = z * y /\ x \in Int /\ y \in Nat /\ y # 0 /\ z \in Int /\ w \in Nat
  BY <1>3, <1>4, <1>6, <1>7, Zenon
<1> HIDE DEF x, y, z, w, f
<1>9. IsValue(f, z, w)
  BY <1>8, ValueOfEqual, Zenon
<1> QED BY <1>9, Zenon DEF f, z, w

LEMMA PlusValue ==
  ASSUME NEW n \in Int, NEW d \in Nat, d # 0, NEW m \in Int, NEW e \in Nat, e # 0,
         NEW a, NEW b, IsValue(a, n, d), IsValue(b, m, e)
  PROVE  IsValue(Plus(a, b), n * e + m * d, d * e)
<1>1. a \in Lowest /\ b \in Lowest /\ a[1] * d = n * a[2] /\ b[1] * e = m * b[2]
  BY Zenon DEF IsValue
<1> DEFINE p == a[1]
           q == a[2]
           r == b[1]
           s == b[2]
<1>2. /\ p \in Int /\ q \in Nat /\ q # 0 /\ q \in Int
      /\ r \in Int /\ s \in Nat /\ s # 0 /\ s \in Int
  BY <1>1, LowestParts
<1>3. p * d = n * q /\ r * e = m * s
  BY <1>1
<1>4. IsValue(Plus(a, b), p * s + r * q, q * s)
  BY <1>2, PlusLowest
<1> HIDE DEF p, q, r, s
<1>5. /\ (p * s + r * q) * (d * e) = (p * d) * (s * e) + (r * e) * (q * d)
      /\ (n * q) * (s * e) + (m * s) * (q * d) = (n * e + m * d) * (q * s)
  BY <1>2, SMT
<1>6. (p * s + r * q) * (d * e) = (n * e + m * d) * (q * s)
  BY <1>3, <1>5, Zenon
<1>7. /\ p * s + r * q \in Int /\ q * s \in Nat /\ q * s # 0
      /\ n * e + m * d \in Int /\ d * e \in Nat
  <2>1. p * s \in Int /\ r * q \in Int /\ n * e \in Int /\ m * d \in Int
    BY <1>2, Products
  <2> QED BY <1>2, <2>1, Products
<1> DEFINE x == p * s + r * q
           y == q * s
           z == n * e + m * d
           w == d * e
           f == Plus(a, b)
<1>8. IsValue(f, x, y) /\ x * w = z * y /\ x \in Int /\ y \in Nat /\ y # 0 /\ z \in Int /\ w \in Nat
  BY <1>4, <1>6, <1>7, Zenon
<1> HIDE DEF x, y, z, w, f
<1>9. IsValue(f, z, w)
  BY <1>8, ValueOfEqual, Zenon
<1> QED BY <1>9, Zenon DEF f, z, w

LEMMA MinusValue ==
  ASSUME NEW n \in Int, NEW d \in Nat, d # 0, NEW m \in Int, NEW e \in Nat, e # 0,
         NEW a, NEW b, IsValue(a, n, d), IsValue(b, m, e)
  PROVE  IsValue(Minus(a, b), n * e - m * d, d * e)
<1>1. b \in Lowest /\ b[1] * e = m * b[2]
  BY Zenon DEF IsValue
<1> DEFINE r == b[1]
           s == b[2]
           c == <<-r, s>>
<1>2. r \in Int /\ -r \in Int /\ s \in Nat /\ s # 0 /\ s \in Int /\ Coprime(r, s)
  BY <1>1, LowestParts
<1>3. r * e = m * s
  BY <1>1
<1>4. Minus(a, b) = Plus(a, c)
  BY Zenon DEF Minus
<1> HIDE DEF r, s
<1>5. Coprime(-r, s)
  <2>1. PICK x \in Int, y \in Int : x * r + y * s = 1
    BY <1>2, Zenon DEF Coprime
  <2>2. (-x) * (-r) = x * r /\ -x \in Int
    BY <1>2, SMT
  <2>3. (-x) * (-r) + y * s = 1
    BY <2>1, <2>2
  <2> QED BY <2>2, <2>3, Zenon DEF Coprime
<1>6. c \in Lowest /\ c[1] = -r /\ c[2] = s
  BY <1>2, <1>5, LowestPair
<1>7. (-r) * e = (-m) * s /\ -m \in Int
  BY <1>2, <1>3, SMT
<1> HIDE DEF c
<1>8. IsValue(c, -m, e)
  BY <1>6, <1>7, Zenon DEF IsValue
<1>9. IsValue(Plus(a, c), n * e + (-m) * d, d * e)
  BY <1>7, <1>8, PlusValue
<1>10. n * e + (-m) * d = n * e - m * d
  <2>1. (-m) * d = -(m * d) /\ m * d \in Int /\ n * e \in Int
    BY SMT
  <2> QED BY <2>1
<1> QED BY <1>4, <1>9, <1>10, Zenon

(* The order of values is that of their fractions.                         *)
LEMMA AtMostValue ==
  ASSUME NEW n \in Int, NEW d \in Nat, d # 0, NEW m \in Int, NEW e \in Nat, e # 0,
         NEW a, NEW b, IsValue(a, n, d), IsValue(b, m, e)
  PROVE  AtMost(a, b) <=> n * e <= m * d
<1>1. a \in Lowest /\ b \in Lowest /\ a[1] * d = n * a[2] /\ b[1] * e = m * b[2]
  BY Zenon DEF IsValue
<1> DEFINE p == a[1]
           q == a[2]
           r == b[1]
           s == b[2]
<1>2. /\ p \in Int /\ q \in Nat /\ q # 0 /\ q \in Int
      /\ r \in Int /\ s \in Nat /\ s # 0 /\ s \in Int
  BY <1>1, LowestParts
<1>3. p * d = n * q /\ r * e = m * s
  BY <1>1
<1>4. AtMost(a, b) <=> p * s <= r * q
  BY Zenon DEF AtMost
<1> HIDE DEF p, q, r, s
<1> DEFINE x == p * s
           y == r * q
           z == n * e
           w == m * d
           f == d * e
           g == q * s
<1>5. x \in Int /\ y \in Int /\ z \in Int /\ w \in Int
  BY <1>2, Products
<1>6. f \in Nat /\ f # 0 /\ g \in Nat /\ g # 0
  BY <1>2, Products
<1>7. f * x = g * z /\ f * y = g * w
  <2>1. (d * e) * (p * s) = (p * d) * (e * s) /\ (n * q) * (e * s) = (q * s) * (n * e)
    BY <1>2, SMT
  <2>2. (d * e) * (r * q) = (r * e) * (d * q) /\ (m * s) * (d * q) = (q * s) * (m * d)
    BY <1>2, SMT
  <2> QED BY <1>3, <2>1, <2>2, Zenon
<1> HIDE DEF x, y, z, w, f, g
<1>8. \A c \in Nat \ {0} : \A u, v \in Int : (c * u <= c * v) <=> (u <= v)
  <2> TAKE c \in Nat \ {0}
  <2> TAKE u, v \in Int
  <2>1. CASE u <= v
    BY <2>1, SMT
  <2>2. CASE u > v
    <3>1. c * u > c * v
      BY <2>2, SMT
    <3>2. c * u \in Int /\ c * v \in Int
      BY SMT
    <3> QED BY <2>2, <3>1, <3>2
  <2> QED BY <2>1, <2>2
<1>9. (f * x <= f * y <=> x <= y) /\ (g * z <= g * w <=> z <= w)
  BY <1>5, <1>6, <1>8
<1>10. x <= y <=> z <= w
  BY <1>7, <1>9, Zenon
<1> QED BY <1>4, <1>10 DEF x, y, z, w
-----------------------------------------------------------------------------
(* How many of the first j elements of a sequence are at most y.           *)
AtMostIn(seq, j, y) == Cardinality({i \in 1 .. j : seq[i] <= y})

LEMMA CountsAtMost ==
  ASSUME NEW n \in Nat, NEW seq, \A i \in 1 .. n + 1 : seq[i] \in Int, NEW y \in Int
  PROVE  /\ AtMostIn(seq, n, y) \in Nat /\ AtMostIn(seq, n, y) <= n
         /\ AtMostIn(seq, n + 1, y) = AtMostIn(seq, n, y) + (IF seq[n + 1] <= y THEN 1 ELSE 0)
         /\ \A z \in Int : y <= z => AtMostIn(seq, n, y) <= AtMostIn(seq, n, z)
<1> DEFINE T(v) == {i \in 1 .. n : seq[i] <= v}
<1>1. \A v : T(v) \in SUBSET (1 .. n)
  OBVIOUS
<1>2. T(y) \in SUBSET (1 .. n)
  BY <1>1, Zenon
<1>3. Cardinality(T(y)) \in Nat /\ Cardinality(T(y)) <= n
  <2> HIDE DEF T
  <2> QED BY <1>2, RanksIn, CountOfPositions
<1>4. AtMostIn(seq, n + 1, y) = Cardinality(T(y)) + (IF seq[n + 1] <= y THEN 1 ELSE 0)
  <2> DEFINE U == {i \in 1 .. n + 1 : seq[i] <= y}
  <2>1. \A i : i \in 1 .. n + 1 <=> (i \in 1 .. n \/ i = n + 1)
    OBVIOUS
  <2>2. CASE seq[n + 1] <= y
    <3>1. U = T(y) \cup {n + 1}
      BY <2>1, <2>2, Zenon
    <3> HIDE DEF T, U
    <3>2. Cardinality(U) = Cardinality(T(y)) + 1
      BY <1>2, <3>1, RanksKept
    <3> QED BY <2>2, <3>2, Zenon DEF AtMostIn, U
  <2>3. CASE ~(seq[n + 1] <= y)
    <3>1. U = T(y)
      BY <2>1, <2>3, Zenon
    <3> HIDE DEF T
    <3> QED BY <1>3, <2>3, <3>1 DEF AtMostIn, U
  <2> QED BY <2>2, <2>3
<1>5. ASSUME NEW z \in Int, y <= z PROVE Cardinality(T(y)) <= Cardinality(T(z))
  <2>1. T(y) \in SUBSET T(z)
    <3>1. \A i \in 1 .. n : seq[i] \in Int
      OBVIOUS
    <3> QED BY <1>5, <3>1
  <2>2. IsFiniteSet(T(z))
    <3>1. T(z) \in SUBSET (1 .. n)
      BY <1>1, Zenon
    <3> HIDE DEF T
    <3> QED BY <3>1, RanksIn
  <2> HIDE DEF T
  <2> QED BY <2>1, <2>2, FS_Subset
<1> QED BY <1>3, <1>4, <1>5, Zenon DEF AtMostIn

(* s has the first j elements of seq in ascending order: its i-th is at    *)
(* most y when i of them are.                                              *)
Orders(s, seq, j) ==
  /\ s \in Seq(Int) /\ Len(s) = j
  /\ \A i \in 1 .. j : \A y \in Int : s[i] <= y <=> i <= AtMostIn(seq, j, y)

LEMMA PartOfInts ==
  ASSUME NEW s \in Seq(Int), NEW low \in Nat, 1 <= low, NEW high \in Nat, high <= Len(s),
         low <= high + 1
  PROVE  /\ SubSeq(s, low, high) \in Seq(Int) /\ Len(SubSeq(s, low, high)) = high - low + 1
         /\ \A i \in 1 .. high - low + 1 : SubSeq(s, low, high)[i] = s[low + i - 1]
<1>1. \A i \in low .. high : s[i] \in Int
  OBVIOUS
<1>2. low \in Int /\ high \in Int
  OBVIOUS
<1>3. /\ SubSeq(s, low, high) \in Seq(Int)
      /\ Len(SubSeq(s, low, high)) = IF low <= high THEN high - low + 1 ELSE 0
      /\ \A i \in 1 .. high - low + 1 : SubSeq(s, low, high)[i] = s[low + i - 1]
  BY <1>1, <1>2, SubSeqProperties, SMT
<1>4. (IF low <= high THEN high - low + 1 ELSE 0) = high - low + 1
  OBVIOUS
<1> QED BY <1>3, <1>4, Zenon

LEMMA TwoPartsOfInts ==
  ASSUME NEW s \in Seq(Int), NEW t \in Seq(Int)
  PROVE  /\ s \o t \in Seq(Int) /\ Len(s \o t) = Len(s) + Len(t)
         /\ \A i \in 1 .. Len(s) + Len(t) :
              (s \o t)[i] = IF i <= Len(s) THEN s[i] ELSE t[i - Len(s)]
BY ConcatProperties, Zenon

(* t is s with x before what was its element at.                           *)
IsInserted(t, s, n, at, x) ==
  /\ t \in Seq(Int) /\ Len(t) = n + 1 /\ t[at] = x
  /\ \A i \in 1 .. n + 1 : i < at => t[i] = s[i]
  /\ \A i \in 1 .. n + 1 : at < i => t[i] = s[i - 1]

LEMMA InsertedAt ==
  ASSUME NEW s \in Seq(Int), NEW n \in Nat, n = Len(s), NEW at \in 1 .. n + 1, NEW x \in Int
  PROVE  IsInserted(InsertAt(s, at, x), s, n, at, x)
<1> DEFINE a == SubSeq(s, 1, at - 1)
           b == SubSeq(s, at, n)
           t == InsertAt(s, at, x)
<1>1. /\ a \in Seq(Int) /\ Len(a) = at - 1 /\ \A i \in 1 .. at - 1 : a[i] = s[i]
      /\ b \in Seq(Int) /\ Len(b) = n - at + 1 /\ \A i \in 1 .. n - at + 1 : b[i] = s[at + i - 1]
  <2>1. /\ 1 \in Nat /\ 1 <= 1 /\ at - 1 \in Nat /\ at - 1 <= Len(s) /\ 1 <= at - 1 + 1
        /\ at \in Nat /\ 1 <= at /\ n <= Len(s) /\ at <= n + 1
    OBVIOUS
  <2>2. /\ a \in Seq(Int) /\ Len(a) = at - 1 - 1 + 1
        /\ \A i \in 1 .. at - 1 - 1 + 1 : a[i] = s[1 + i - 1]
    BY <2>1, PartOfInts, Zenon
  <2>3. /\ b \in Seq(Int) /\ Len(b) = n - at + 1
        /\ \A i \in 1 .. n - at + 1 : b[i] = s[at + i - 1]
    BY <2>1, PartOfInts, Zenon
  <2> HIDE DEF a, b
  <2>4. at - 1 - 1 + 1 = at - 1 /\ \A i \in 1 .. at - 1 : 1 + i - 1 = i
    OBVIOUS
  <2> QED BY <2>2, <2>3, <2>4, Zenon
<1>2. t = (a \o <<x>>) \o b
  BY Zenon DEF InsertAt
<1> HIDE DEF a, b, t
<1> DEFINE e == <<x>>
           c == a \o e
<1>e. e \in Seq(Int) /\ Len(e) = 1 /\ e[1] = x
  OBVIOUS
<1> HIDE DEF e
<1>4. c \in Seq(Int) /\ Len(c) = at /\ c[at] = x /\ \A i \in 1 .. at - 1 : c[i] = s[i]
  <2>2. /\ c \in Seq(Int) /\ Len(c) = Len(a) + Len(e)
        /\ \A i \in 1 .. Len(a) + Len(e) : c[i] = IF i <= Len(a) THEN a[i] ELSE e[i - Len(a)]
    BY <1>1, <1>e, TwoPartsOfInts, Zenon
  <2> HIDE DEF c
  <2>3. Len(c) = at /\ at \in 1 .. Len(a) + Len(e) /\ ~(at <= Len(a)) /\ at - Len(a) = 1
    BY <1>1, <1>e, <2>2
  <2>4. \A i \in 1 .. at - 1 : i \in 1 .. Len(a) + Len(e) /\ i <= Len(a)
    BY <1>1, <1>e
  <2> QED BY <1>1, <1>e, <2>2, <2>3, <2>4, Zenon
<1>c. /\ t \in Seq(Int) /\ Len(t) = Len(c) + Len(b)
      /\ \A i \in 1 .. Len(c) + Len(b) : t[i] = IF i <= Len(c) THEN c[i] ELSE b[i - Len(c)]
  <2>1. t = c \o b
    BY <1>2 DEF e
  <2> HIDE DEF c
  <2> QED BY <1>1, <1>4, <2>1, TwoPartsOfInts, Zenon
<1> HIDE DEF c
<1>5. t \in Seq(Int) /\ Len(t) = n + 1
  BY <1>1, <1>4, <1>c
<1>6. t[at] = x
  BY <1>1, <1>4, <1>c
<1>7. ASSUME NEW i \in 1 .. n + 1, i < at PROVE t[i] = s[i]
  BY <1>1, <1>4, <1>7, <1>c
<1>8. ASSUME NEW i \in 1 .. n + 1, at < i PROVE t[i] = s[i - 1]
  <2>1. t[i] = b[i - at]
    BY <1>1, <1>4, <1>8, <1>c
  <2>2. i - at \in 1 .. n - at + 1 /\ at + (i - at) - 1 = i - 1
    BY <1>8
  <2> QED BY <1>1, <2>1, <2>2
<1> QED BY <1>5, <1>6, <1>7, <1>8, Zenon DEF t, IsInserted

LEMMA SortedInOrders ==
  ASSUME NEW seq \in Seq(Int), NEW j \in Nat, j + 1 <= Len(seq), NEW s, Orders(s, seq, j)
  PROVE  Orders(SortedIn(s, seq[j + 1]), seq, j + 1)
<1> DEFINE x == seq[j + 1]
           at == AtMostIn(seq, j, x) + 1
           c(y) == AtMostIn(seq, j, y)
<1>0. \A y : AtMostIn(seq, j, y) = c(y)
  OBVIOUS
<1>1. /\ s \in Seq(Int) /\ Len(s) = j
      /\ \A i \in 1 .. j : \A y \in Int : s[i] <= y <=> i <= c(y)
  BY Zenon DEF Orders
<1>2. x \in Int /\ \A i \in 1 .. j + 1 : seq[i] \in Int
  OBVIOUS
<1>3. ASSUME NEW y \in Int
      PROVE  /\ c(y) \in Nat /\ c(y) <= j
             /\ AtMostIn(seq, j + 1, y) = c(y) + (IF x <= y THEN 1 ELSE 0)
             /\ \A z \in Int : y <= z => c(y) <= c(z)
  BY <1>2, CountsAtMost
<1> HIDE DEF c, x
<1>4. {i \in DOMAIN s : s[i] <= x} = 1 .. c(x)
  <2>1. DOMAIN s = 1 .. j
    BY <1>1
  <2>2. \A i \in 1 .. j : s[i] <= x <=> i <= c(x)
    BY <1>1, <1>2, Zenon
  <2>3. {i \in DOMAIN s : s[i] <= x} = {i \in 1 .. j : i <= c(x)}
    BY <2>1, <2>2, Zenon
  <2>4. {i \in 1 .. j : i <= c(x)} = 1 .. c(x)
    <3>1. c(x) \in Nat /\ c(x) <= j
      BY <1>2, <1>3, Zenon
    <3> QED BY <3>1
  <2> QED BY <2>3, <2>4
<1>5. Cardinality({i \in DOMAIN s : s[i] <= x}) = c(x)
  <2>1. c(x) \in Nat
    BY <1>2, <1>3, Zenon
  <2> QED BY <1>4, <2>1, CountFrom1, Zenon
<1>6. at = c(x) + 1 /\ at \in 1 .. j + 1
  <2>1. c(x) \in Nat /\ c(x) <= j
    BY <1>2, <1>3, Zenon
  <2>2. at = c(x) + 1
    BY <1>0, Zenon
  <2> HIDE DEF at
  <2> QED BY <2>1, <2>2
<1> HIDE DEF at
<1> DEFINE t == SortedIn(s, x)
<1>7. t = InsertAt(s, at, x)
  BY <1>5, <1>6, Zenon DEF SortedIn
<1>8. /\ t \in Seq(Int) /\ Len(t) = j + 1 /\ t[at] = x
      /\ \A i \in 1 .. j + 1 : i < at => t[i] = s[i]
      /\ \A i \in 1 .. j + 1 : at < i => t[i] = s[i - 1]
  <2> HIDE DEF t
  <2>1. at \in 1 .. j + 1 /\ j = Len(s)
    BY <1>1, <1>6
  <2>2. IsInserted(t, s, j, at, x)
    BY <1>1, <1>2, <1>7, <2>1, InsertedAt, Zenon
  <2> QED BY <2>2, Zenon DEF IsInserted
<1> HIDE DEF t
<1>9. ASSUME NEW i \in 1 .. j + 1, NEW y \in Int
      PROVE  t[i] <= y <=> i <= AtMostIn(seq, j + 1, y)
  <2>1. /\ c(y) \in Nat /\ c(x) \in Nat /\ c(y) <= j /\ c(x) <= j
        /\ AtMostIn(seq, j + 1, y) = c(y) + (IF x <= y THEN 1 ELSE 0)
        /\ x <= y => c(x) <= c(y)
        /\ y <= x => c(y) <= c(x)
    BY <1>2, <1>3
  <2>2. CASE i < at
    <3>1. t[i] = s[i] /\ i \in 1 .. j
      BY <1>6, <1>8, <2>2
    <3>2. s[i] <= y <=> i <= c(y)
      BY <1>1, <3>1, Zenon
    <3> QED BY <1>2, <1>6, <2>1, <2>2, <3>1, <3>2, SMTT(40)
  <2>3. CASE i = at
    <3>1. t[i] = x
      BY <1>8, <2>3
    <3> QED BY <1>2, <1>6, <2>1, <2>3, <3>1
  <2>4. CASE at < i
    <3>1. t[i] = s[i - 1] /\ i - 1 \in 1 .. j
      BY <1>6, <1>8, <2>4
    <3>2. s[i - 1] <= y <=> i - 1 <= c(y)
      BY <1>1, <3>1, Zenon
    <3> QED BY <1>2, <1>6, <2>1, <2>4, <3>1, <3>2, SMTT(40)
  <2> QED BY <1>6, <2>2, <2>3, <2>4
<1> QED BY <1>8, <1>9 DEF Orders, t, x

LEMMA SortedUnfolds ==
  ASSUME NEW seq
  PROVE  Sorted(seq) = (CHOOSE it : it = [S \in SUBSET DOMAIN seq |->
            IF S = {} THEN << >> ELSE SortedIn(it[S \ {Max(S)}], seq[Max(S)])])[DOMAIN seq]
BY DEF Sorted, FoldLeft, MapThenFoldSet

(* A sequence is sorted by inserting its elements.                         *)
LEMMA SortedOrders ==
  ASSUME NEW seq \in Seq(Int) PROVE Orders(Sorted(seq), seq, Len(seq))
<1>m. PICK m \in Nat : m = Len(seq)
  OBVIOUS
<1> DEFINE State == Seq(Int)
           next(s, i) == SortedIn(s, seq[i])
           step == [q \in State \X (1 .. m) |-> next(q[1], q[2])]
<1>1. << >> \in State /\ DOMAIN seq = 1 .. m /\ \A i \in 1 .. m : seq[i] \in Int
  BY <1>m
<1>2. step \in [State \X (1 .. m) -> State]
  <2>1. ASSUME NEW s \in State, NEW i \in 1 .. m PROVE next(s, i) \in State
    <3>1. PICK n \in Nat : n = Len(s)
      OBVIOUS
    <3> DEFINE T == {k \in DOMAIN s : s[k] <= seq[i]}
    <3>2. T \in SUBSET (1 .. n)
      BY <3>1
    <3> HIDE DEF T
    <3>3. Cardinality(T) + 1 \in 1 .. n + 1
      <4>1. Cardinality(T) \in Nat /\ Cardinality(T) <= n
        BY <3>2, RanksIn, CountOfPositions
      <4> QED BY <4>1
    <3>4. InsertAt(s, Cardinality(T) + 1, seq[i]) \in Seq(Int)
      BY <1>1, <3>1, <3>3, InsertedAt, Zenon DEF IsInserted
    <3> QED BY <3>4, Zenon DEF SortedIn, T
  <2> HIDE DEF State, next
  <2> QED BY <2>1
<1> HIDE DEF State
<1>3. PICK it \in [SUBSET (1 .. m) -> State] : FoldsTo(step, << >>, m, it)
  <2> HIDE DEF step
  <2> QED BY <1>1, <1>2, FoldsExist
<1> DEFINE After(f, S) == next(f[S \ {Max(S)}], Max(S))
<1>4. \A f : \A S \in SUBSET (1 .. m) : S # {} /\ f[S \ {Max(S)}] \in State
         => After(f, S) = step[<<f[S \ {Max(S)}], Max(S)>>]
  <2> TAKE f
  <2> TAKE S \in SUBSET (1 .. m)
  <2> HAVE S # {} /\ f[S \ {Max(S)}] \in State
  <2>1. Max(S) \in 1 .. m
    BY MaxOfPositions
  <2> HIDE DEF next
  <2>3. step[<<f[S \ {Max(S)}], Max(S)>>] = next(f[S \ {Max(S)}], Max(S))
    BY <2>1
  <2> QED BY <2>3, Zenon
<1>5. it = [S \in SUBSET (1 .. m) |-> IF S = {} THEN << >> ELSE After(it, S)]
  <2>1. \A S \in SUBSET (1 .. m) : S # {} => it[S \ {Max(S)}] \in State
    BY <1>3
  <2> HIDE DEF step, After
  <2> QED BY <1>3, <1>4, <2>1, Zenon DEF FoldsTo
<1> DEFINE scan == CHOOSE f : f = [S \in SUBSET (1 .. m) |-> IF S = {} THEN << >> ELSE After(f, S)]
<1>6. scan = [S \in SUBSET (1 .. m) |-> IF S = {} THEN << >> ELSE After(scan, S)]
  <2> HIDE DEF After
  <2> QED BY <1>5, Zenon
<1>7. Sorted(seq) = scan[1 .. m]
  BY <1>1, SortedUnfolds, Zenon
<1>8. Folded(State, step, << >>, m, scan)
  <2> DEFINE after == [S \in SUBSET (1 .. m) |-> After(scan, S)]
  <2> HIDE DEF scan, After, step
  <2>1. scan = [S \in SUBSET (1 .. m) |-> IF S = {} THEN << >> ELSE after[S]]
    BY <1>6, Zenon
  <2>2. \A S \in SUBSET (1 .. m) : S # {} /\ scan[S \ {Max(S)}] \in State
            => after[S] = step[<<scan[S \ {Max(S)}], Max(S)>>]
    BY <1>4, Zenon
  <2> HIDE DEF after
  <2> QED BY <1>1, <1>2, <2>1, <2>2, FoldSteps, Zenon
<1> HIDE DEF scan
<1> DEFINE P == {j \in Nat : j <= m => Orders(scan[1 .. j], seq, j)}
<1>9. 0 \in P
  <2>1. scan[1 .. 0] = << >>
    BY <1>8, Zenon DEF Folded
  <2>2. Orders(<< >>, seq, 0)
    BY DEF Orders
  <2> QED BY <2>1, <2>2
<1>10. ASSUME NEW j \in Nat, j \in P PROVE j + 1 \in P
  <2>1. SUFFICES ASSUME j + 1 <= m PROVE Orders(scan[1 .. j + 1], seq, j + 1)
    OBVIOUS
  <2>2. j <= m /\ j + 1 \in 1 .. m
    BY <2>1
  <2>3. Orders(scan[1 .. j], seq, j)
    BY <1>10, <2>2, Zenon
  <2>4. scan[1 .. j] \in State /\ scan[1 .. j + 1] = step[<<scan[1 .. j], j + 1>>]
    BY <1>8, <2>1, <2>2, Zenon DEF Folded
  <2>5. step[<<scan[1 .. j], j + 1>>] = SortedIn(scan[1 .. j], seq[j + 1])
    <3>1. <<scan[1 .. j], j + 1>> \in State \X (1 .. m)
      BY <2>2, <2>4
    <3> QED BY <3>1
  <2>6. Orders(SortedIn(scan[1 .. j], seq[j + 1]), seq, j + 1)
    BY <1>m, <2>1, <2>3, SortedInOrders
  <2> HIDE DEF step
  <2> QED BY <2>4, <2>5, <2>6, Zenon
<1> HIDE DEF P
<1>11. P \in SUBSET Nat
  BY DEF P
<1>12. m \in P
  BY <1>9, <1>10, <1>11, InductiveSet
<1>13. Orders(scan[1 .. m], seq, m)
  <2>1. m <= m
    OBVIOUS
  <2> QED BY <1>12, <2>1, Zenon DEF P
<1> QED BY <1>m, <1>7, <1>13, Zenon

-----------------------------------------------------------------------------
(* An ascending sequence.                                                  *)
IsAscending(s, n) == s \in Seq(Int) /\ Len(s) = n /\ \A i, j \in 1 .. n : i <= j => s[i] <= s[j]

(* A sequence that has no other elements than another.                     *)
TakenFrom(s, seq, n) == \A k \in 1 .. n : \E i \in 1 .. n : s[k] = seq[i]

(* What is sorted ascends, and keeps the bounds of the elements.           *)
LEMMA OrderedAscends ==
  ASSUME NEW n \in Nat, NEW seq \in Seq(Int), n = Len(seq), NEW s, Orders(s, seq, n)
  PROVE  IsAscending(s, n) /\ TakenFrom(s, seq, n)
<1>1. /\ s \in Seq(Int) /\ Len(s) = n
      /\ \A i \in 1 .. n : \A y \in Int : s[i] <= y <=> i <= AtMostIn(seq, n, y)
  BY Zenon DEF Orders
<1>2. \A i \in 1 .. n : s[i] \in Int
  BY <1>1
<1>3. \A y \in Int : AtMostIn(seq, n, y) \in Nat
  <2>1. \A y : {i \in 1 .. n : seq[i] <= y} \in SUBSET (1 .. n)
    OBVIOUS
  <2> QED BY <2>1, RanksIn, Zenon DEF AtMostIn
<1>4. ASSUME NEW i \in 1 .. n, NEW j \in 1 .. n, i <= j PROVE s[i] <= s[j]
  <2>1. s[j] \in Int /\ s[j] <= s[j]
    BY <1>2
  <2>2. j <= AtMostIn(seq, n, s[j])
    BY <1>1, <2>1, Zenon
  <2>3. i <= AtMostIn(seq, n, s[j])
    <3> DEFINE c == AtMostIn(seq, n, s[j])
    <3>1. c \in Nat /\ j <= c
      BY <1>3, <2>1, <2>2, Zenon
    <3> HIDE DEF c
    <3>2. i <= c
      BY <1>4, <3>1
    <3> QED BY <3>2 DEF c
  <2> QED BY <1>1, <2>1, <2>3, Zenon
<1>5. ASSUME NEW k \in 1 .. n, \A i \in 1 .. n : s[k] # seq[i] PROVE FALSE
  <2> DEFINE v == s[k]
  <2>1. v \in Int /\ v - 1 \in Int /\ v <= v /\ ~(v <= v - 1)
    BY <1>2
  <2>2. \A i \in 1 .. n : seq[i] <= v <=> seq[i] <= v - 1
    <3>1. \A i \in 1 .. n : seq[i] \in Int /\ seq[i] # v
      BY <1>5
    <3> HIDE DEF v
    <3> QED BY <2>1, <3>1
  <2>3. AtMostIn(seq, n, v) = AtMostIn(seq, n, v - 1)
    <3>1. {i \in 1 .. n : seq[i] <= v} = {i \in 1 .. n : seq[i] <= v - 1}
      BY <2>2, Zenon
    <3> QED BY <3>1, Zenon DEF AtMostIn
  <2>4. k <= AtMostIn(seq, n, v)
    BY <1>1, <2>1, Zenon
  <2>5. v <= v - 1
    BY <1>1, <2>1, <2>3, <2>4, Zenon
  <2> QED BY <2>1, <2>5, Zenon
<1> QED BY <1>1, <1>4, <1>5, Zenon DEF IsAscending, TakenFrom

(* The order of fractions is one, and whole numbers keep theirs.           *)
LEMMA AtMostIsOrder ==
  /\ \A a, b, c \in Lowest : AtMost(a, b) /\ AtMost(b, c) => AtMost(a, c)
  /\ \A a \in Lowest : AtMost(a, a)
<1>1. ASSUME NEW a \in Lowest, NEW b \in Lowest, NEW c \in Lowest, AtMost(a, b), AtMost(b, c)
      PROVE  AtMost(a, c)
  <2> DEFINE p == a[1]
             q == a[2]
             r == b[1]
             s == b[2]
             u == c[1]
             v == c[2]
  <2>1. /\ p \in Int /\ q \in Nat /\ q # 0 /\ r \in Int /\ s \in Nat /\ s # 0
        /\ u \in Int /\ v \in Nat /\ v # 0
    BY LowestParts
  <2>2. p * s <= r * q /\ r * v <= u * s
    BY <1>1, Zenon DEF AtMost
  <2> HIDE DEF p, q, r, s, u, v
  <2>3. v * (p * s) <= v * (r * q) /\ q * (r * v) <= q * (u * s)
    <3>1. \A x, y \in Int : \A z \in Nat : x <= y => z * x <= z * y
      BY SMT
    <3>2. p * s \in Int /\ r * q \in Int /\ r * v \in Int /\ u * s \in Int
      BY <2>1, SMT
    <3> QED BY <2>1, <2>2, <3>1, <3>2, Zenon
  <2>4. /\ v * (p * s) = s * (p * v) /\ v * (r * q) = q * (r * v) /\ q * (u * s) = s * (u * q)
    BY <2>1, SMT
  <2>5. p * v \in Int /\ u * q \in Int
    BY <2>1, SMT
  <2>6. s * (p * v) <= s * (u * q)
    <3>1. s * (p * v) \in Int /\ q * (r * v) \in Int /\ s * (u * q) \in Int
      BY <2>1, SMT
    <3> QED BY <2>3, <2>4, <3>1
  <2>7. p * v <= u * q
    <3>1. \A x, y \in Int : \A z \in Nat \ {0} : z * x <= z * y => x <= y
      BY SMT
    <3> QED BY <2>1, <2>5, <2>6, <3>1
  <2> QED BY <2>7, Zenon DEF AtMost, p, q, u, v
<1>2. ASSUME NEW a \in Lowest PROVE AtMost(a, a)
  <2>1. a[1] \in Int /\ a[2] \in Nat
    BY LowestParts
  <2>2. a[1] * a[2] \in Int
    BY <2>1, SMT
  <2>3. a[1] * a[2] <= a[1] * a[2]
    BY <2>2
  <2> QED BY <2>3, Zenon DEF AtMost
<1> QED BY <1>1, <1>2

LEMMA WholesOrder ==
  /\ \A x, y \in Int : x <= y <=> AtMost(Whole(x), Whole(y))
  /\ \A x \in Int : Whole(x) \in Lowest
<1>1. ASSUME NEW x \in Int, NEW y \in Int PROVE x <= y <=> AtMost(Whole(x), Whole(y))
  <2>1. Whole(x)[1] = x /\ Whole(x)[2] = 1 /\ Whole(y)[1] = y /\ Whole(y)[2] = 1
    BY WholeValue
  <2>2. AtMost(Whole(x), Whole(y)) <=> x * 1 <= y * 1
    BY <2>1, Zenon DEF AtMost
  <2> QED BY <2>2
<1> QED BY <1>1, WholeValue

(* Floor keeps the order.                                                  *)
LEMMA FloorOrder ==
  ASSUME NEW a \in Lowest, NEW b \in Lowest, AtMost(a, b)
  PROVE  /\ AtMost(Floor(a), Floor(b))
         /\ a[1] \div a[2] \in Int /\ Floor(a) = Whole(a[1] \div a[2])
<1> DEFINE p == a[1]
           q == a[2]
           r == b[1]
           s == b[2]
           x == p \div q
           y == r \div s
<1>1. p \in Int /\ q \in Nat /\ q # 0 /\ r \in Int /\ s \in Nat /\ s # 0
  BY LowestParts
<1>2. p * s <= r * q
  BY Zenon DEF AtMost
<1>3. Floor(a) = Whole(x) /\ Floor(b) = Whole(y)
  BY Zenon DEF Floor
<1> HIDE DEF p, q, r, s
<1>4. x \in Int /\ y \in Int /\ q * x <= p /\ r < s * (y + 1)
  <2>1. \A i \in Int : \A k \in Nat \ {0} :
           i \div k \in Int /\ k * (i \div k) <= i /\ i < k * ((i \div k) + 1)
    BY SMT
  <2> QED BY <1>1, <2>1
<1> HIDE DEF x, y
<1>5. x <= y
  <2> SUFFICES ASSUME y + 1 <= x PROVE FALSE
    BY <1>4
  <2>1. \A i, j \in Int : \A k \in Nat \ {0} : (i <= j => k * i <= k * j) /\ (i < j => k * i < k * j)
    BY SMT
  <2>2. y + 1 \in Int /\ q * x \in Int /\ q * (y + 1) \in Int /\ s * (y + 1) \in Int
    BY <1>1, <1>4, SMT
  <2>3. q * (y + 1) <= q * x
    BY <1>1, <1>4, <2>1, <2>2
  <2>4. q * (y + 1) <= p
    BY <1>1, <1>4, <2>2, <2>3
  <2>5. s * (q * (y + 1)) <= s * p
    BY <1>1, <2>1, <2>2, <2>4
  <2>6. q * r < q * (s * (y + 1))
    BY <1>1, <1>4, <2>1, <2>2
  <2>7. s * (q * (y + 1)) = q * (s * (y + 1)) /\ s * p = p * s /\ q * r = r * q
    BY <1>1, <2>2, SMT
  <2>8. q * (s * (y + 1)) \in Int /\ p * s \in Int /\ r * q \in Int
    BY <1>1, <2>2, SMT
  <2> QED BY <1>2, <2>5, <2>6, <2>7, <2>8
<1> QED BY <1>3, <1>4, <1>5, WholesOrder, Zenon DEF x, p, q

(* A fraction between two numbers.                                         *)
Between(q, low, high) == q \in Lowest /\ AtMost(Whole(low), q) /\ AtMost(q, Whole(high))

LEMMA BetweenNeighbours ==
  ASSUME NEW x \in Int, NEW y \in Int, x <= y, NEW e \in Nat, e # 0, NEW u \in Nat, NEW w \in Nat,
         u + w = e
  PROVE  /\ x * u + y * w \in Int /\ IsValue(Fraction(x * u + y * w, e), x * u + y * w, e)
         /\ Between(Fraction(x * u + y * w, e), x, y)
<1> DEFINE z == x * u + y * w
           q == Fraction(z, e)
<1>1. x * u \in Int /\ y * w \in Int /\ x * w \in Int /\ y * u \in Int
  BY SMT
<1>2. z \in Int
  BY <1>1
<1>3. x * e <= z /\ z <= y * e
  <2>1. x * e = x * u + x * w /\ y * e = y * u + y * w
    <3>1. x * (u + w) = x * u + x * w /\ y * (u + w) = y * u + y * w
      BY SMT
    <3> QED BY <3>1
  <2>2. x * w <= y * w /\ x * u <= y * u
    BY SMT
  <2> QED BY <1>1, <2>1, <2>2
<1> HIDE DEF z
<1>4. IsValue(q, z, e)
  BY <1>2, FractionValue
<1>5. IsValue(Whole(x), x, 1) /\ IsValue(Whole(y), y, 1) /\ 1 \in Nat /\ 1 # 0
  BY WholeValue
<1> HIDE DEF q
<1>6. z * 1 = z
  BY <1>2
<1>7. AtMost(Whole(x), q) <=> x * e <= z * 1
  BY <1>2, <1>4, <1>5, AtMostValue, Zenon
<1>8. AtMost(q, Whole(y)) <=> z * 1 <= y * e
  BY <1>2, <1>4, <1>5, AtMostValue, Zenon
<1>9. Between(q, x, y)
  BY <1>3, <1>4, <1>6, <1>7, <1>8, Zenon DEF Between, IsValue
<1> QED BY <1>2, <1>4, <1>9 DEF q, z

(* calc_percentile_double lies between the two elements it interpolates.   *)
Interpolates(s, n, p) ==
  LET pos == p * (n - 1)
      at  == pos \div 100 + 1
  IN  /\ at \in 1 .. n - 1 /\ at + 1 \in 1 .. n /\ pos % 100 \in 0 .. 99
      /\ Percentile(s, p) = Fraction(s[at] * (100 - (pos % 100)) + s[at + 1] * (pos % 100), 100)
      /\ Between(Percentile(s, p), s[at], s[at + 1])

LEMMA PercentileBetween ==
  ASSUME NEW n \in Nat, n >= 2, NEW s, IsAscending(s, n), NEW p \in Nat, 0 < p, p < 100
  PROVE  Interpolates(s, n, p)
<1> DEFINE pos == p * (n - 1)
           at  == pos \div 100 + 1
           r   == pos % 100
<1>1. /\ s \in Seq(Int) /\ Len(s) = n /\ \A i, j \in 1 .. n : i <= j => s[i] <= s[j]
      /\ \A i \in 1 .. n : s[i] \in Int
  BY DEF IsAscending
<1>2. pos \in Nat /\ pos <= 100 * (n - 1) - (n - 1)
  <2>1. \A m \in Nat : p * m \in Nat /\ p * m <= 99 * m
    BY SMT
  <2>2. n - 1 \in Nat
    OBVIOUS
  <2>3. pos \in Nat /\ pos <= 99 * (n - 1)
    BY <2>1, <2>2
  <2> HIDE DEF pos
  <2> QED BY <2>2, <2>3
<1>3. Percentile(s, p) = Fraction(s[at] * (100 - r) + s[at + 1] * r, 100)
  <2>1. ~(n = 0) /\ ~(n = 1 \/ p <= 0) /\ ~(n > 1 /\ p >= 100)
    OBVIOUS
  <2>2. \A t : Len(t) = n => Percentile(t, p) =
           Fraction(t[(p * (n - 1)) \div 100 + 1] * (100 - ((p * (n - 1)) % 100))
                      + t[(p * (n - 1)) \div 100 + 1 + 1] * ((p * (n - 1)) % 100), 100)
    BY <2>1, ZenonT(60) DEF Percentile
  <2> QED BY <1>1, <2>2, ZenonT(60)
<1> HIDE DEF pos
<1>4. at \in 1 .. n - 1 /\ at + 1 \in 1 .. n /\ at \in 1 .. n /\ at <= at + 1
  BY <1>2
<1>5. r \in 0 .. 99 /\ r \in Nat /\ 100 - r \in Nat /\ (100 - r) + r = 100
  BY <1>2
<1> HIDE DEF at, r
<1>6. s[at] \in Int /\ s[at + 1] \in Int /\ s[at] <= s[at + 1]
  BY <1>1, <1>4, Zenon
<1>7. Between(Fraction(s[at] * (100 - r) + s[at + 1] * r, 100), s[at], s[at + 1])
  <2>1. 100 \in Nat /\ 100 # 0
    OBVIOUS
  <2> DEFINE x == s[at]
             y == s[at + 1]
             u == 100 - r
  <2>3. u \in Nat /\ u + r = 100 /\ x \in Int /\ y \in Int /\ x <= y /\ r \in Nat
    BY <1>5, <1>6
  <2> HIDE DEF x, y, u
  <2>2. Between(Fraction(x * u + y * r, 100), x, y)
    BY <2>1, <2>3, BetweenNeighbours, Zenon
  <2> QED BY <2>2 DEF x, y, u
<1> QED BY <1>3, <1>4, <1>5, <1>7, Zenon DEF at, r, pos, Interpolates

LEMMA MedianBetween ==
  ASSUME NEW n \in Nat, n >= 2, NEW s, IsAscending(s, n)
  PROVE  /\ n \div 2 \in 1 .. n /\ n \div 2 + 1 \in 1 .. n
         /\ n % 2 = 1 => Median(s) = Whole(s[n \div 2 + 1])
         /\ n % 2 # 1 => /\ Median(s) = Fraction(s[n \div 2] + s[n \div 2 + 1], 2)
                          /\ Between(Median(s), s[n \div 2], s[n \div 2 + 1])
<1> DEFINE h == n \div 2
<1>1. /\ s \in Seq(Int) /\ Len(s) = n /\ \A i, j \in 1 .. n : i <= j => s[i] <= s[j]
      /\ \A i \in 1 .. n : s[i] \in Int
  BY DEF IsAscending
<1>2. h \in 1 .. n /\ h + 1 \in 1 .. n /\ h <= h + 1
  OBVIOUS
<1>3. ~(n = 0)
  OBVIOUS
<1>4. n % 2 = 1 => Median(s) = Whole(s[h + 1])
  BY <1>1, <1>3, Zenon DEF Median
<1>5. n % 2 # 1 => Median(s) = Fraction(s[h] + s[h + 1], 2)
  BY <1>1, <1>3, Zenon DEF Median
<1> HIDE DEF h
<1>6. Between(Fraction(s[h] + s[h + 1], 2), s[h], s[h + 1])
  <2> DEFINE x == s[h]
             y == s[h + 1]
  <2>1. x \in Int /\ y \in Int /\ x <= y
    BY <1>1, <1>2, Zenon
  <2> HIDE DEF x, y
  <2>2. 2 \in Nat /\ 2 # 0 /\ 1 \in Nat /\ 1 + 1 = 2
    OBVIOUS
  <2>3. Between(Fraction(x * 1 + y * 1, 2), x, y)
    BY <2>1, <2>2, BetweenNeighbours, Zenon
  <2>4. x * 1 + y * 1 = x + y
    BY <2>1
  <2> QED BY <2>3, <2>4 DEF x, y
<1> QED BY <1>2, <1>4, <1>5, <1>6, Zenon DEF h

(* The three quartiles of an ascending sequence.                           *)
LEMMA QuartilesAscend ==
  ASSUME NEW n \in Nat, n >= 1, NEW s, IsAscending(s, n)
  PROVE  LET a == Percentile(s, 25)  b == Median(s)  c == Percentile(s, 75)
         IN  /\ a \in Lowest /\ b \in Lowest /\ c \in Lowest
             /\ AtMost(Whole(s[1]), a) /\ AtMost(a, b) /\ AtMost(b, c) /\ AtMost(c, Whole(s[n]))
<1> DEFINE a == Percentile(s, 25)
           b == Median(s)
           c == Percentile(s, 75)
<1>1. /\ s \in Seq(Int) /\ Len(s) = n /\ \A i, j \in 1 .. n : i <= j => s[i] <= s[j]
      /\ \A i \in 1 .. n : s[i] \in Int
  BY DEF IsAscending
<1>2. \A i, j \in 1 .. n : i <= j => AtMost(Whole(s[i]), Whole(s[j])) /\ Whole(s[i]) \in Lowest
  BY <1>1, WholesOrder, Zenon
<1>3. CASE n = 1
  <2>1. a = Whole(s[1]) /\ c = Whole(s[1])
    <3>1. ~(n = 0)
      BY <1>3
    <3> QED BY <1>1, <1>3, <3>1, Zenon DEF Percentile
  <2>2. b = Whole(s[1])
    <3>1. ~(n = 0) /\ n % 2 = 1 /\ n \div 2 + 1 = 1
      BY <1>3
    <3>2. b = Whole(s[n \div 2 + 1])
      BY <1>1, <3>1, Zenon DEF Median
    <3> QED BY <3>1, <3>2, Zenon
  <2>3. 1 \in 1 .. n /\ 1 <= 1
    BY <1>3
  <2> HIDE DEF a, b, c
  <2>4. a \in Lowest /\ AtMost(a, a)
    BY <1>2, <2>1, <2>3, Zenon
  <2> QED BY <1>3, <2>1, <2>2, <2>4, Zenon DEF a, b, c
<1>4. CASE n >= 2
  <2> DEFINE i == (25 * (n - 1)) \div 100 + 1
             k == (75 * (n - 1)) \div 100 + 1
             h == n \div 2
  <2>1. /\ i \in 1 .. n - 1 /\ i + 1 \in 1 .. n /\ Between(a, s[i], s[i + 1])
        /\ a = Fraction(s[i] * (100 - ((25 * (n - 1)) % 100)) + s[i + 1] * ((25 * (n - 1)) % 100), 100)
    <3>1. PICK p \in Nat : p = 25 /\ 0 < p /\ p < 100
      OBVIOUS
    <3>2. Interpolates(s, n, p)
      BY <1>4, <3>1, PercentileBetween, Zenon
    <3> QED BY <3>1, <3>2, Zenon DEF Interpolates
  <2>2. /\ k \in 1 .. n - 1 /\ k + 1 \in 1 .. n /\ Between(c, s[k], s[k + 1])
        /\ c = Fraction(s[k] * (100 - ((75 * (n - 1)) % 100)) + s[k + 1] * ((75 * (n - 1)) % 100), 100)
    <3>1. PICK p \in Nat : p = 75 /\ 0 < p /\ p < 100
      OBVIOUS
    <3>2. Interpolates(s, n, p)
      BY <1>4, <3>1, PercentileBetween, Zenon
    <3> QED BY <3>1, <3>2, Zenon DEF Interpolates
  <2>3. /\ h \in 1 .. n /\ h + 1 \in 1 .. n
        /\ n % 2 = 1 => b = Whole(s[h + 1])
        /\ n % 2 # 1 => b = Fraction(s[h] + s[h + 1], 2) /\ Between(b, s[h], s[h + 1])
    BY <1>4, MedianBetween, Zenon
  <2>4. i \in 1 .. n /\ k \in 1 .. n /\ 1 <= i /\ k + 1 <= n /\ 1 \in 1 .. n /\ n \in 1 .. n
    BY <2>1, <2>2
  <2>5. /\ a \in Lowest /\ AtMost(Whole(s[i]), a) /\ AtMost(a, Whole(s[i + 1]))
        /\ c \in Lowest /\ AtMost(Whole(s[k]), c) /\ AtMost(c, Whole(s[k + 1]))
    BY <2>1, <2>2, Zenon DEF Between
  <2> HIDE DEF a, b, c, i, k, h
  <2>6. AtMost(Whole(s[1]), a) /\ AtMost(c, Whole(s[n]))
    <3>1. /\ AtMost(Whole(s[1]), Whole(s[i])) /\ Whole(s[1]) \in Lowest /\ Whole(s[i]) \in Lowest
      <4>1. s[1] \in Int /\ s[i] \in Int /\ s[1] <= s[i]
        BY <1>1, <2>4
      <4> QED BY <4>1, WholesOrder, Zenon
    <3>2. n <= n
      OBVIOUS
    <3>3. /\ AtMost(Whole(s[k + 1]), Whole(s[n])) /\ Whole(s[k + 1]) \in Lowest
          /\ Whole(s[n]) \in Lowest
      BY <1>2, <2>2, <2>4, <3>2, Zenon
    <3> QED BY <2>5, <3>1, <3>3, AtMostIsOrder, Zenon
  <2>7. CASE n = 2
    <3>1. i = 1 /\ k = 1 /\ h = 1 /\ (25 * (n - 1)) % 100 = 25 /\ (75 * (n - 1)) % 100 = 75 /\ n % 2 # 1
      BY <2>7 DEF i, k, h
    <3> DEFINE x == s[1]
               y == s[2]
    <3>2. i + 1 = 2 /\ k + 1 = 2 /\ h + 1 = 2 /\ 100 - 25 = 75 /\ 100 - 75 = 25
      BY <3>1
    <3>3. /\ a = Fraction(s[i] * (100 - 25) + s[i + 1] * 25, 100)
          /\ c = Fraction(s[k] * (100 - 75) + s[k + 1] * 75, 100)
          /\ b = Fraction(s[h] + s[h + 1], 2)
      <4>1. /\ a = Fraction(s[i] * (100 - ((25 * (n - 1)) % 100)) + s[i + 1] * ((25 * (n - 1)) % 100), 100)
            /\ c = Fraction(s[k] * (100 - ((75 * (n - 1)) % 100)) + s[k + 1] * ((75 * (n - 1)) % 100), 100)
            /\ (n % 2 # 1 => b = Fraction(s[h] + s[h + 1], 2))
            /\ (25 * (n - 1)) % 100 = 25 /\ (75 * (n - 1)) % 100 = 75 /\ n % 2 # 1
        BY <2>1, <2>2, <2>3, <3>1, Zenon DEF i, k, h
      <4> DEFINE ra == (25 * (n - 1)) % 100
                 rc == (75 * (n - 1)) % 100
      <4>2. /\ a = Fraction(s[i] * (100 - ra) + s[i + 1] * ra, 100)
            /\ c = Fraction(s[k] * (100 - rc) + s[k + 1] * rc, 100)
            /\ b = Fraction(s[h] + s[h + 1], 2) /\ ra = 25 /\ rc = 75
        BY <4>1
      <4> HIDE DEF ra, rc
      <4> QED BY <4>2
    <3>4. /\ a = Fraction(x * 75 + y * 25, 100) /\ c = Fraction(x * 25 + y * 75, 100)
          /\ b = Fraction(x + y, 2)
      BY <3>1, <3>2, <3>3
    <3>5. x \in Int /\ y \in Int /\ x <= y
      <4>1. 1 \in 1 .. n /\ 2 \in 1 .. n /\ 1 <= 2
        BY <2>7
      <4> QED BY <1>1, <4>1, Zenon
    <3> HIDE DEF x, y
    <3> DEFINE u == x * 75 + y * 25
               v == x + y
               w == x * 25 + y * 75
    <3>6. u \in Int /\ v \in Int /\ w \in Int /\ u * 2 <= v * 100 /\ v * 100 <= w * 2
      BY <3>5
    <3>7. 100 \in Nat /\ 100 # 0 /\ 2 \in Nat /\ 2 # 0
      OBVIOUS
    <3>8. a = Fraction(u, 100) /\ b = Fraction(v, 2) /\ c = Fraction(w, 100)
      BY <3>4, Zenon
    <3> HIDE DEF u, v, w
    <3>9. IsValue(a, u, 100) /\ IsValue(b, v, 2) /\ IsValue(c, w, 100)
      BY <3>6, <3>7, <3>8, FractionValue
    <3>10. (AtMost(a, b) <=> u * 2 <= v * 100) /\ (AtMost(b, c) <=> v * 100 <= w * 2)
      BY <3>6, <3>7, <3>9, AtMostValue, Zenon
    <3> QED BY <2>5, <2>6, <3>6, <3>9, <3>10, Zenon DEF IsValue, a, b, c
  <2>8. CASE n # 2
    <3>1. /\ n % 2 = 1 => i + 1 <= h + 1 /\ h + 1 <= k
          /\ n % 2 # 1 => i + 1 <= h /\ h + 1 <= k
      BY <1>4, <2>8 DEF i, k, h
    <3>2. /\ b \in Lowest
          /\ n % 2 = 1 => AtMost(Whole(s[h + 1]), b) /\ AtMost(b, Whole(s[h + 1]))
          /\ n % 2 # 1 => AtMost(Whole(s[h]), b) /\ AtMost(b, Whole(s[h + 1]))
      <4>1. Whole(s[h + 1]) \in Lowest /\ AtMost(Whole(s[h + 1]), Whole(s[h + 1]))
        BY <1>1, <2>3, AtMostIsOrder, WholesOrder, Zenon
      <4> QED BY <2>3, <4>1, Zenon DEF Between
    <3>3. CASE n % 2 = 1
      <4>1. /\ AtMost(Whole(s[i + 1]), Whole(s[h + 1])) /\ AtMost(Whole(s[h + 1]), Whole(s[k]))
            /\ Whole(s[i + 1]) \in Lowest /\ Whole(s[h + 1]) \in Lowest
        BY <1>2, <2>1, <2>3, <2>4, <3>1, <3>3, Zenon
      <4>2. Whole(s[k]) \in Lowest
        BY <1>1, <2>4, WholesOrder, Zenon
      <4>5. AtMost(a, Whole(s[h + 1]))
        <5>1. a \in Lowest /\ AtMost(a, Whole(s[i + 1]))
          BY <2>5, Zenon
        <5>2. /\ AtMost(Whole(s[i + 1]), Whole(s[h + 1]))
              /\ Whole(s[i + 1]) \in Lowest /\ Whole(s[h + 1]) \in Lowest
          BY <4>1, Zenon
        <5> DEFINE u == Whole(s[i + 1])
                   v == Whole(s[h + 1])
        <5>3. u \in Lowest /\ v \in Lowest /\ AtMost(a, u) /\ AtMost(u, v)
          BY <5>1, <5>2, Zenon
        <5> HIDE DEF u, v
        <5>4. AtMost(a, v)
          BY <5>1, <5>3, AtMostIsOrder, Zenon
        <5> QED BY <5>4 DEF v
      <4>6. AtMost(Whole(s[h + 1]), c)
        BY <2>5, <4>1, <4>2, AtMostIsOrder, Zenon
      <4>3. AtMost(a, Whole(s[h + 1])) /\ AtMost(Whole(s[h + 1]), c)
        BY <4>5, <4>6, Zenon
      <4>4. AtMost(a, b) /\ AtMost(b, c)
        BY <2>5, <3>2, <3>3, <4>1, <4>3, AtMostIsOrder, Zenon
      <4> QED BY <2>5, <2>6, <3>2, <4>4, Zenon DEF a, b, c
    <3>4. CASE n % 2 # 1
      <4>1. /\ AtMost(Whole(s[i + 1]), Whole(s[h])) /\ AtMost(Whole(s[h + 1]), Whole(s[k]))
            /\ Whole(s[i + 1]) \in Lowest /\ Whole(s[h + 1]) \in Lowest
        BY <1>2, <2>1, <2>3, <2>4, <3>1, <3>4, Zenon
      <4>2. Whole(s[k]) \in Lowest /\ Whole(s[h]) \in Lowest
        BY <1>1, <2>3, <2>4, WholesOrder, Zenon
      <4>3. AtMost(a, Whole(s[h])) /\ AtMost(Whole(s[h + 1]), c)
        BY <2>5, <4>1, <4>2, AtMostIsOrder, Zenon
      <4>5. AtMost(Whole(s[h]), b) /\ AtMost(b, Whole(s[h + 1])) /\ b \in Lowest
        BY <3>2, <3>4, Zenon
      <4>6. AtMost(a, b)
        BY <2>5, <4>2, <4>3, <4>5, AtMostIsOrder, Zenon
      <4>7. AtMost(b, c)
        BY <2>5, <4>1, <4>3, <4>5, AtMostIsOrder, Zenon
      <4>4. AtMost(a, b) /\ AtMost(b, c)
        BY <4>6, <4>7, Zenon
      <4> QED BY <2>5, <2>6, <3>2, <4>4, Zenon DEF a, b, c
    <3> QED BY <3>3, <3>4, Zenon
  <2> QED BY <2>7, <2>8
<1> QED BY <1>3, <1>4

(* Half of a whole number, cut to a whole number, is its quotient by 2.    *)
LEMMA HalfFloors ==
  ASSUME NEW t \in Int, NEW p \in Int, NEW q \in Nat \ {0}, p * 2 = t * q
  PROVE  p \div q = t \div 2
<1> DEFINE x == p \div q
<1>1. x \in Int /\ q * x <= p /\ p < q * (x + 1)
  <2>1. \A i \in Int : \A k \in Nat \ {0} :
           i \div k \in Int /\ k * (i \div k) <= i /\ i < k * ((i \div k) + 1)
    BY SMT
  <2> QED BY <2>1
<1> HIDE DEF x
<1>2. /\ q * (2 * x) = 2 * (q * x) /\ q * (2 * x + 2) = 2 * (q * (x + 1)) /\ q * t = t * q
      /\ q * x \in Int /\ q * (x + 1) \in Int /\ q * t \in Int
  BY <1>1, SMT
<1>3. q * (2 * x) <= q * t /\ q * t < q * (2 * x + 2)
  BY <1>1, <1>2
<1>4. 2 * x <= t /\ t < 2 * x + 2
  <2>1. \A i, j \in Int : \A k \in Nat \ {0} : (k * i <= k * j => i <= j) /\ (k * i < k * j => i < j)
    BY SMT
  <2> QED BY <1>1, <1>3, <2>1
<1>5. t \div 2 = x
  BY <1>1, <1>4
<1> QED BY <1>5 DEF x

(* calc_median_uint is the median cut to a whole number, while the sum of  *)
(* two values does not wrap around.                                        *)
LEMMA UintMedianIs ==
  ASSUME NEW n \in Nat, n >= 1, NEW s, IsAscending(s, n), 0 <= s[1], 2 * s[n] < CountSpan
  PROVE  UintMedian(s) = Floor(Median(s))
<1>1. s \in Seq(Int) /\ Len(s) = n /\ \A i, j \in 1 .. n : i <= j => s[i] <= s[j]
  BY Zenon DEF IsAscending
<1>2. \A x \in Int : Floor(Whole(x)) = Whole(x)
  <2> TAKE x \in Int
  <2>1. Whole(x)[1] = x /\ Whole(x)[2] = 1
    BY WholeValue
  <2>2. Floor(Whole(x)) = Whole(x \div 1)
    BY <2>1, Zenon DEF Floor
  <2>3. x \div 1 = x
    BY SMT
  <2> QED BY <2>2, <2>3, Zenon
<1>3. CASE n % 2 = 1
  <2>1. UintMedian(s) = Median(s)
    BY <1>1, <1>3 DEF UintMedian
  <2>2. n # 0 /\ n \div 2 + 1 \in 1 .. n
    BY <1>3
  <2>3. Median(s) = Whole(s[n \div 2 + 1])
    BY <1>1, <1>3, <2>2, Zenon DEF Median
  <2>4. s[n \div 2 + 1] \in Int
    BY <1>1, <2>2
  <2> QED BY <1>2, <2>1, <2>3, <2>4, Zenon
<1>4. CASE n % 2 # 1
  <2> DEFINE h == n \div 2
             t == s[h] + s[h + 1]
  <2>1. n >= 2 /\ n > 0 /\ n % 2 = 0
    BY <1>4
  <2>2. h \in 1 .. n /\ h + 1 \in 1 .. n /\ Median(s) = Fraction(t, 2)
    BY <1>4, <2>1, MedianBetween, Zenon
  <2>3. UintMedian(s) = Whole((t % CountSpan) \div 2)
    BY <1>1, <2>1, Zenon DEF UintMedian
  <2>4. /\ s[h] \in Int /\ s[h + 1] \in Int /\ s[1] \in Int /\ s[n] \in Int
        /\ s[1] <= s[h] /\ s[h] <= s[n] /\ s[1] <= s[h + 1] /\ s[h + 1] <= s[n]
    <3>1. 1 \in 1 .. n /\ n \in 1 .. n /\ 1 <= h /\ h <= n /\ 1 <= h + 1 /\ h + 1 <= n
      BY <2>2
    <3>2. \A i \in 1 .. n : s[i] \in Int
      BY <1>1
    <3> HIDE DEF h
    <3> QED BY <1>1, <2>2, <3>1, <3>2, Zenon
  <2> HIDE DEF h
  <2>5. t \in Int /\ 0 <= t /\ t < CountSpan
    BY <2>4, CountSpanAssumption
  <2> HIDE DEF t
  <2>6. t % CountSpan = t
    BY <2>5, CountSpanAssumption
  <2>7. /\ Median(s) \in Lowest /\ Median(s)[1] * 2 = t * Median(s)[2]
    <3>1. 2 \in Nat /\ 2 # 0
      OBVIOUS
    <3>2. IsValue(Fraction(t, 2), t, 2)
      BY <2>5, <3>1, FractionValue
    <3> QED BY <2>2, <3>2, Zenon DEF IsValue
  <2>8. Median(s)[1] \in Int /\ Median(s)[2] \in Nat \ {0}
    BY <2>7, LowestParts
  <2>9. Median(s)[1] \div Median(s)[2] = t \div 2
    BY <2>5, <2>7, <2>8, HalfFloors, Zenon
  <2> QED BY <2>3, <2>6, <2>9, Zenon DEF Floor
<1> QED BY <1>3, <1>4

(* Those of integers, which are cut to whole numbers.                      *)
LEMMA UintQuartilesAscend ==
  ASSUME NEW n \in Nat, n >= 1, NEW s, IsAscending(s, n), NEW low \in Int, NEW high \in Int,
         low <= s[1], s[n] <= high, 0 <= s[1], 2 * s[n] < CountSpan
  PROVE  /\ AtMost(Whole(low), UintQuartiles(s)[1])
         /\ AtMost(UintQuartiles(s)[1], UintQuartiles(s)[2])
         /\ AtMost(UintQuartiles(s)[2], UintQuartiles(s)[3])
         /\ AtMost(UintQuartiles(s)[3], Whole(high))
<1> DEFINE a == Percentile(s, 25)
           b == Median(s)
           c == Percentile(s, 75)
<1>1. /\ a \in Lowest /\ b \in Lowest /\ c \in Lowest
      /\ AtMost(Whole(s[1]), a) /\ AtMost(a, b) /\ AtMost(b, c) /\ AtMost(c, Whole(s[n]))
  BY QuartilesAscend
<1>2. UintQuartiles(s) = <<Floor(a), Floor(b), Floor(c)>>
  BY UintMedianIs, Zenon DEF UintQuartiles
<1> HIDE DEF a, b, c
<1>3. /\ UintQuartiles(s)[1] = Floor(a) /\ UintQuartiles(s)[2] = Floor(b)
      /\ UintQuartiles(s)[3] = Floor(c)
  BY <1>2
<1>4. s[1] \in Int /\ s[n] \in Int
  BY DEF IsAscending
<1>5. /\ Whole(low) \in Lowest /\ Whole(high) \in Lowest
      /\ Whole(s[1]) \in Lowest /\ Whole(s[n]) \in Lowest
      /\ AtMost(Whole(low), Whole(s[1])) /\ AtMost(Whole(s[n]), Whole(high))
  BY <1>4, WholesOrder, Zenon
<1>6. AtMost(Whole(low), a) /\ AtMost(c, Whole(high))
  BY <1>1, <1>5, AtMostIsOrder, ZenonT(60)
<1>7. \A x \in Int : Floor(Whole(x)) = Whole(x)
  <2> TAKE x \in Int
  <2>1. Whole(x)[1] = x /\ Whole(x)[2] = 1
    BY WholeValue
  <2>2. Floor(Whole(x)) = Whole(x \div 1)
    BY <2>1, Zenon DEF Floor
  <2>3. x \div 1 = x
    BY SMT
  <2> QED BY <2>2, <2>3, Zenon
<1>8. AtMost(Whole(low), Floor(a)) /\ AtMost(Floor(c), Whole(high))
  <2>1. AtMost(Floor(Whole(low)), Floor(a)) /\ AtMost(Floor(c), Floor(Whole(high)))
    BY <1>1, <1>5, <1>6, FloorOrder, Zenon
  <2> QED BY <1>7, <2>1, Zenon
<1>9. AtMost(Floor(a), Floor(b)) /\ AtMost(Floor(b), Floor(c))
  BY <1>1, FloorOrder, Zenon
<1> QED BY <1>3, <1>8, <1>9, Zenon

-----------------------------------------------------------------------------
(* The running statistics of n samples that sum up to T, their squares     *)
(* to Q.                                                                   *)
HasMoments(s, n, T, Q) ==
  s.count = n /\ IF n = 0 THEN s.mean = Zero /\ s.M2 = Zero
                 ELSE IsValue(s.mean, T, n) /\ IsValue(s.M2, n * Q - T * T, n)

(* The two equations behind running_stats_update, without fractions.       *)
LEMMA MeanMoves ==
  ASSUME NEW n \in Int, NEW x \in Int, NEW T \in Int
  PROVE  (T * (n * (n + 1)) + (x * n - T) * n) * (n + 1) = (T + x) * (n * (n * (n + 1)))
<1> DEFINE m == n + 1
           p == n * m
<1>1. m \in Int /\ p \in Int /\ T * n \in Int /\ x * n \in Int
  OBVIOUS
<1>2. T * p + (x * n - T) * n = (T + x) * (n * n)
  BY SMT
<1> HIDE DEF p, m
<1>3. ((T + x) * (n * n)) * m = (T + x) * (n * (n * m))
  BY <1>1, SMT
<1> QED BY <1>2, <1>3 DEF p, m

LEMMA SquaresMove ==
  ASSUME NEW n \in Int, NEW x \in Int, NEW T \in Int, NEW Q \in Int
  PROVE  ((n * Q - T * T) * (n * (n + 1)) + ((x * n - T) * (x * n - T)) * n) * (n + 1)
           = ((n + 1) * (Q + x * x) - (T + x) * (T + x)) * (n * (n * (n + 1)))
<1> DEFINE m == n + 1
           y == x * n
<1>1. (n * Q - T * T) * m + (y - T) * (y - T)
         = (m * (Q + x * x) - (T + x) * (T + x)) * n
  BY SMT
<1>2. m \in Int /\ y \in Int
  OBVIOUS
<1> DEFINE a == n * Q - T * T
           b == (y - T) * (y - T)
           c == m * (Q + x * x) - (T + x) * (T + x)
<1>3. a \in Int /\ b \in Int /\ c \in Int
  BY <1>2, SMT
<1>4. a * m + b = c * n
  BY <1>1
<1> HIDE DEF a, b, c, m, y
<1>5. (a * (n * m) + b * n) * m = ((a * m + b) * n) * m
  BY <1>2, <1>3, SMT
<1>6. ((c * n) * n) * m = c * (n * (n * m))
  BY <1>2, <1>3, SMT
<1>7. (a * (n * m) + b * n) * m = c * (n * (n * m))
  BY <1>4, <1>5, <1>6
<1> QED BY <1>7 DEF a, b, c, m, y

(* What running_stats_update makes of the three of them.                   *)
LEMMA SampledIs ==
  ASSUME NEW s, NEW x
  PROVE  LET n == s.count + 1
             delta == Minus(Whole(x), s.mean)
             mean == Plus(s.mean, Times(delta, <<1, n>>))
             delta2 == Minus(Whole(x), mean)
         IN  /\ Sampled(s, x).count = n /\ Sampled(s, x).mean = mean
             /\ Sampled(s, x).M2 = Plus(s.M2, Times(delta, delta2))
             /\ Sampled(s, x).min = Min({s.min, x}) /\ Sampled(s, x).max = Max({s.max, x})
BY DEF Sampled

LEMMA SampledMoments ==
  ASSUME NEW s, NEW n \in Nat, n # 0, NEW T \in Int, NEW Q \in Int, HasMoments(s, n, T, Q), NEW x \in Int
  PROVE  HasMoments(Sampled(s, x), n + 1, T + x, Q + x * x)
<1> DEFINE m == n + 1
           delta == Minus(Whole(x), s.mean)
           part == Times(delta, <<1, m>>)
           mean == Plus(s.mean, part)
           delta2 == Minus(Whole(x), mean)
           delta3 == Times(delta, delta2)
           M2 == Plus(s.M2, delta3)
           t == Sampled(s, x)
           D == x * n - T
           V == n * Q - T * T
           U == T + x
           W == m * (Q + x * x) - U * U
           p == n * m
           q == n * p
<1>1. s.count = n /\ IsValue(s.mean, T, n) /\ IsValue(s.M2, V, n)
  BY Zenon DEF HasMoments
<1>2. t.count = m /\ t.mean = mean /\ t.M2 = M2
  BY <1>1, SampledIs, Zenon
<1>3. /\ m \in Nat /\ m # 0 /\ D \in Int /\ V \in Int /\ U \in Int /\ W \in Int
      /\ x * n \in Int /\ x * m \in Int /\ D * D \in Int
  <2>1. m \in Nat /\ m # 0 /\ U \in Int
    OBVIOUS
  <2>2. x * n \in Int /\ x * m \in Int /\ n * Q \in Int /\ T * T \in Int /\ x * x \in Int /\ U * U \in Int
    BY <2>1, Products
  <2>3. D \in Int /\ V \in Int /\ Q + x * x \in Int
    BY <2>2
  <2>4. m * (Q + x * x) \in Int /\ D * D \in Int
    BY <2>1, <2>3, Products
  <2>5. W \in Int
    BY <2>2, <2>4
  <2> QED BY <2>1, <2>2, <2>3, <2>4, <2>5
<1>4. p \in Nat /\ p # 0 /\ q \in Nat /\ q # 0
  BY <1>3, Products
<1>5. /\ (T * p + D * n) * m = U * q
      /\ (V * p + (D * D) * n) * m = W * q
  BY MeanMoves, SquaresMove
<1>6. IsValue(Whole(x), x, 1) /\ 1 \in Nat /\ 1 # 0 /\ 1 \in {1} /\ 1 \in Int
  BY WholeValue
<1>d. x * m - U = D
  BY <1>3
<1> HIDE DEF delta, part, mean, delta2, delta3, M2, t, D, V, U, W, m, p, q
<1>7. IsValue(delta, D, n)
  <2>1. IsValue(delta, x * n - T * 1, 1 * n)
    BY <1>1, <1>6, MinusValue, Zenon DEF delta
  <2>2. x * n - T * 1 = D /\ 1 * n = n
    BY <1>3 DEF D
  <2> QED BY <2>1, <2>2, Zenon
<1>8. IsValue(part, D, p)
  <2>1. IsValue(<<1, m>>, 1, m)
    BY <1>3, <1>6, PartValue, Zenon
  <2>2. IsValue(part, D * 1, n * m)
    BY <1>3, <1>6, <1>7, <2>1, TimesValue, Zenon DEF part
  <2>3. D * 1 = D
    BY <1>3
  <2> QED BY <2>2, <2>3, Zenon DEF p
<1>9. IsValue(mean, U, m)
  <2>1. IsValue(mean, T * p + D * n, n * p)
    BY <1>1, <1>3, <1>4, <1>8, PlusValue, Zenon DEF mean
  <2> DEFINE z == T * p + D * n
  <2>2. z \in Int
    <3>1. T * p \in Int /\ D * n \in Int
      BY <1>3, <1>4, Products
    <3> QED BY <3>1
  <2>3. IsValue(mean, z, q) /\ z * m = U * q
    BY <1>5, <2>1, Zenon DEF q
  <2> HIDE DEF z
  <2> QED BY <1>3, <1>4, <2>2, <2>3, ValueOfEqual, Zenon
<1>10. IsValue(delta2, D, m)
  <2>1. IsValue(delta2, x * m - U * 1, 1 * m)
    BY <1>3, <1>6, <1>9, MinusValue, Zenon DEF delta2
  <2>2. x * m - U * 1 = D /\ 1 * m = m
    BY <1>3, <1>d
  <2> QED BY <2>1, <2>2, Zenon
<1>11. IsValue(delta3, D * D, p)
  BY <1>3, <1>7, <1>10, TimesValue, Zenon DEF delta3, p
<1>12. IsValue(M2, W, m)
  <2> DEFINE E == D * D
             z == V * p + E * n
  <2>1. E \in Int /\ IsValue(delta3, E, p) /\ (V * p + E * n) * m = W * q
    BY <1>3, <1>5, <1>11, Zenon
  <2> HIDE DEF E
  <2>2. IsValue(M2, V * p + E * n, n * p)
    BY <1>1, <1>3, <1>4, <2>1, PlusValue, Zenon DEF M2
  <2>3. z \in Int
    <3>1. V * p \in Int /\ E * n \in Int
      BY <1>3, <1>4, <2>1, Products
    <3> QED BY <3>1
  <2>4. IsValue(M2, z, q) /\ z * m = W * q
    BY <2>1, <2>2, Zenon DEF q
  <2> HIDE DEF z
  <2> QED BY <1>3, <1>4, <2>3, <2>4, ValueOfEqual, Zenon
<1>13. n + 1 # 0
  OBVIOUS
<1> QED BY <1>2, <1>9, <1>12, <1>13, Zenon DEF HasMoments, t, U, W, m

(* The first sample.                                                       *)
LEMMA FirstMoments ==
  ASSUME NEW s, HasMoments(s, 0, 0, 0), NEW x \in Int
  PROVE  HasMoments(Sampled(s, x), 1, x, x * x)
<1> DEFINE delta == Minus(Whole(x), Zero)
           part == Times(delta, <<1, 1>>)
           mean == Plus(Zero, part)
           delta2 == Minus(Whole(x), mean)
           delta3 == Times(delta, delta2)
           M2 == Plus(Zero, delta3)
           t == Sampled(s, x)
<1>1. s.count = 0 /\ s.mean = Zero /\ s.M2 = Zero
  BY Zenon DEF HasMoments
<1>2. t.count = 1 /\ t.mean = mean /\ t.M2 = M2
  <2>1. PICK k : k = s.count + 1
    OBVIOUS
  <2> HIDE DEF delta
  <2>2. /\ t.count = k
        /\ t.mean = Plus(Zero, Times(delta, <<1, k>>))
        /\ t.M2 = Plus(Zero, Times(delta, Minus(Whole(x), Plus(Zero, Times(delta, <<1, k>>)))))
    BY <1>1, <2>1 DEF Sampled, delta
  <2>3. k = 1
    BY <1>1, <2>1
  <2> HIDE DEF t
  <2> QED BY <2>2, <2>3, Zenon
<1>3. PICK one \in Nat : one = 1
  OBVIOUS
<1>4. /\ IsValue(Whole(x), x, one) /\ IsValue(Zero, 0, one) /\ one # 0 /\ one \in {1} /\ one \in Int
      /\ one * one = one /\ x * one = x /\ 0 * one = 0 /\ 0 \in Int /\ x \in Int /\ one * x = x
  BY <1>3, WholeValue DEF Zero
<1> HIDE DEF delta, part, mean, delta2, delta3, M2, t
<1>5. IsValue(delta, x, one)
  <2>1. IsValue(delta, x * one - 0 * one, one * one)
    BY <1>4, MinusValue, Zenon DEF delta
  <2>2. x * one - 0 * one = x
    BY <1>4
  <2> QED BY <1>4, <2>1, <2>2, Zenon
<1>6. IsValue(part, x, one)
  <2>1. IsValue(<<one, one>>, one, one)
    BY <1>4, PartValue, Zenon
  <2>2. IsValue(part, x * one, one * one)
    BY <1>3, <1>4, <1>5, <2>1, TimesValue, Zenon DEF part
  <2> QED BY <1>4, <2>2, Zenon
<1>7. IsValue(mean, x, one)
  <2>1. IsValue(mean, 0 * one + x * one, one * one)
    BY <1>4, <1>6, PlusValue, Zenon DEF mean
  <2>2. 0 * one + x * one = x
    BY <1>4
  <2> QED BY <1>4, <2>1, <2>2, Zenon
<1>8. IsValue(delta2, 0, one)
  <2>1. IsValue(delta2, x * one - x * one, one * one)
    BY <1>4, <1>7, MinusValue, Zenon DEF delta2
  <2>2. x * one - x * one = 0
    BY <1>4
  <2> QED BY <1>4, <2>1, <2>2, Zenon
<1>9. IsValue(delta3, 0, one)
  <2>1. IsValue(delta3, x * 0, one * one)
    BY <1>4, <1>5, <1>8, TimesValue, Zenon DEF delta3
  <2>2. x * 0 = 0
    OBVIOUS
  <2> QED BY <1>4, <2>1, <2>2, Zenon
<1>10. IsValue(M2, 0, one)
  <2>1. IsValue(M2, 0 * one + 0 * one, one * one)
    BY <1>4, <1>9, PlusValue, Zenon DEF M2
  <2>2. 0 * one + 0 * one = 0
    BY <1>4
  <2> QED BY <1>4, <2>1, <2>2, Zenon
<1>11. one * (x * x) - x * x = 0 /\ one # 0
  BY <1>3, SMT
<1> QED BY <1>2, <1>3, <1>7, <1>10, <1>11 DEF HasMoments, t

(* The squares of a sequence, whose sum Variance takes.                    *)
Squares(seq) == [i \in 1 .. Len(seq) |-> seq[i] * seq[i]]

LEMMA SquaresUnfold ==
  ASSUME NEW seq
  PROVE  SumOf(LAMBDA x : x * x, seq) = (CHOOSE it : it = [S \in SUBSET DOMAIN seq |->
            IF S = {} THEN 0 ELSE it[S \ {Max(S)}] + seq[Max(S)] * seq[Max(S)]])[DOMAIN seq]
BY DEF SumOf, FoldLeft, MapThenFoldSet

LEMMA SquaresType ==
  ASSUME NEW seq \in Seq(Int)
  PROVE  /\ Squares(seq) \in Seq(Int) /\ Len(Squares(seq)) = Len(seq)
         /\ \A i \in 1 .. Len(seq) : Squares(seq)[i] = seq[i] * seq[i]
<1>1. \A i \in 1 .. Len(seq) : seq[i] * seq[i] \in Int
  <2>1. \A i \in 1 .. Len(seq) : seq[i] \in Int
    OBVIOUS
  <2> QED BY <2>1, Products, Zenon
<1> QED BY <1>1 DEF Squares

LEMMA SquaresTotal ==
  ASSUME NEW seq \in Seq(Int) PROVE SumOf(LAMBDA x : x * x, seq) = Total(Squares(seq))
<1> DEFINE sq == Squares(seq)
<1>1. PICK n \in Nat : n = Len(seq)
  OBVIOUS
<1>2. /\ sq \in Seq(Int) /\ Len(sq) = n /\ DOMAIN seq = 1 .. n
      /\ \A i \in 1 .. n : sq[i] = seq[i] * seq[i]
  BY <1>1, SquaresType
<1> HIDE DEF sq
<1> DEFINE After(f, S) == f[S \ {Max(S)}] + seq[Max(S)] * seq[Max(S)]
<1>3. ASSUME NEW f, NEW S \in SUBSET (1 .. n), S # {}
      PROVE  After(f, S) = f[S \ {Max(S)}] + sq[Max(S)]
  <2>1. Max(S) \in 1 .. n
    BY <1>3, MaxOfPositions
  <2> QED BY <1>2, <2>1, Zenon
<1> HIDE DEF After
<1>4. \E f : f = [S \in SUBSET (1 .. n) |-> IF S = {} THEN 0 ELSE After(f, S)]
  <2>1. PICK it : SumsTo(sq, n, it)
    BY <1>2, TotalIsSum, Zenon
  <2>2. it = [S \in SUBSET (1 .. n) |-> IF S = {} THEN 0 ELSE After(it, S)]
    BY <1>3, <2>1, Zenon DEF SumsTo
  <2> QED BY <2>2, Zenon
<1> DEFINE scan == CHOOSE f : f = [S \in SUBSET (1 .. n) |-> IF S = {} THEN 0 ELSE After(f, S)]
<1>5. scan = [S \in SUBSET (1 .. n) |-> IF S = {} THEN 0 ELSE After(scan, S)]
  BY <1>4, Zenon
<1>6. SumOf(LAMBDA x : x * x, seq) = scan[1 .. n]
  BY <1>2, SquaresUnfold, Zenon DEF After
<1> HIDE DEF scan
<1>7. SumsTo(sq, n, scan)
  BY <1>3, <1>5, Zenon DEF SumsTo
<1>8. PICK it : SumsTo(sq, n, it) /\ Total(sq) = it[1 .. n]
  BY <1>2, TotalIsSum, Zenon
<1>9. n <= n /\ AgreeTo(sq, sq, n)
  BY DEF AgreeTo
<1>10. scan[1 .. n] = it[1 .. n]
  <2>1. SumsOf(sq, n, scan) /\ SumsOf(sq, n, it)
    BY <1>2, <1>7, <1>8, <1>9, Zenon DEF SumsOf
  <2>2. \A is, ir : SumsOf(sq, n, is) /\ SumsOf(sq, n, ir) => is[1 .. n] = ir[1 .. n]
    BY <1>9, SumsOfPrefix, SMT
  <2> QED BY <2>1, <2>2, Zenon
<1> QED BY <1>6, <1>8, <1>10, Zenon DEF sq

(* The running statistics of a sequence.                                   *)
MomentsOf(s, seq) == HasMoments(s, Len(seq), Total(seq), Total(Squares(seq)))

LEMMA MomentsOfNone ==
  ASSUME NEW s, s.count = 0, s.mean = Zero, s.M2 = Zero PROVE MomentsOf(s, << >>)
<1>1. Len(<< >>) = 0
  OBVIOUS
<1> QED BY <1>1, Zenon DEF MomentsOf, HasMoments

LEMMA MomentsGrow ==
  ASSUME NEW seq \in Seq(Int), NEW x \in Int, NEW s, MomentsOf(s, seq)
  PROVE  MomentsOf(Sampled(s, x), Append(seq, x))
<1> DEFINE n == Len(seq)
           T == Total(seq)
           sq == Squares(seq)
           Q == Total(sq)
           longer == Append(seq, x)
<1>1. n \in Nat /\ longer \in Seq(Int) /\ Len(longer) = n + 1
  OBVIOUS
<1>2. /\ sq \in Seq(Int) /\ Len(sq) = n /\ \A i \in 1 .. n : sq[i] = seq[i] * seq[i]
      /\ Squares(longer) \in Seq(Int) /\ Len(Squares(longer)) = n + 1
      /\ \A i \in 1 .. n + 1 : Squares(longer)[i] = longer[i] * longer[i]
  BY <1>1, SquaresType
<1> DEFINE y == x * x
           lsq == Squares(longer)
<1>3. y \in Int
  BY Products
<1>4. lsq = Append(sq, y)
  <2>1. longer[n + 1] = x /\ \A i \in 1 .. n : longer[i] = seq[i]
    OBVIOUS
  <2>2. lsq[n + 1] = y
    BY <1>1, <1>2, <2>1
  <2>3. \A i \in 1 .. n : lsq[i] = sq[i]
    <3>1. \A i \in 1 .. n : i \in 1 .. n + 1
      OBVIOUS
    <3> HIDE DEF lsq, sq, longer, n
    <3> QED BY <1>2, <2>1, <3>1, Zenon DEF lsq
  <2> HIDE DEF y, longer, sq, n, lsq
  <2> QED BY <1>1, <1>2, <1>3, <2>2, <2>3 DEF lsq
<1>5. T \in Int /\ Total(longer) = T + x /\ Q \in Int /\ Total(lsq) = Q + y
  <2> HIDE DEF y, sq, lsq
  <2> QED BY <1>2, <1>3, <1>4, TotalOfAppend
<1>6. HasMoments(s, n, T, Q)
  BY Zenon DEF MomentsOf
<1>7. CASE n # 0
  <2> HIDE DEF n, T, Q, sq, longer
  <2>1. HasMoments(Sampled(s, x), n + 1, T + x, Q + x * x)
    BY <1>1, <1>5, <1>6, <1>7, SampledMoments, Zenon
  <2> QED BY <1>1, <1>5, <2>1, Zenon DEF MomentsOf, lsq, y, longer
<1>8. CASE n = 0
  <2>1. seq = << >> /\ sq = << >>
    BY <1>2, <1>8
  <2>2. T = 0 /\ Q = 0
    BY <2>1, TotalOfNone, Zenon
  <2> HIDE DEF n, T, Q, sq, longer
  <2>3. HasMoments(Sampled(s, x), 1, x, x * x)
    BY <1>6, <1>8, <2>2, FirstMoments, Zenon
  <2>4. n + 1 = 1 /\ T + x = x /\ Q + y = y
    BY <1>3, <1>8, <2>2
  <2> QED BY <1>1, <1>5, <2>3, <2>4, Zenon DEF MomentsOf, lsq, y, longer
<1> QED BY <1>7, <1>8

LEMMA MomentsTell ==
  ASSUME NEW seq \in Seq(Int), seq # << >>, NEW s, MomentsOf(s, seq)
  PROVE  s.mean = Mean(seq) /\ RunningVariance(s) = Variance(seq)
<1> DEFINE T == Total(seq)
           Q == Total(Squares(seq))
<1>1. PICK n \in Nat : n = Len(seq)
  OBVIOUS
<1>2. n # 0
  BY <1>1
<1>3. T \in Int /\ Q \in Int /\ SumOf(LAMBDA x : x * x, seq) = Q
  <2>1. Squares(seq) \in Seq(Int)
    BY SquaresType, Zenon
  <2> QED BY <2>1, TotalType, SquaresTotal, Zenon
<1>4. s.count = n /\ IsValue(s.mean, T, n) /\ IsValue(s.M2, n * Q - T * T, n)
  BY <1>1, <1>2, Zenon DEF MomentsOf, HasMoments
<1>5. s.mean = Mean(seq)
  <2> HIDE DEF T
  <2>1. IsValue(Fraction(T, n), T, n)
    BY <1>2, <1>3, FractionValue, Zenon
  <2>2. s.mean = Fraction(T, n)
    BY <1>2, <1>3, <1>4, <2>1, ValuesAgree, Zenon
  <2> QED BY <1>1, <2>2, Zenon DEF Mean, T
<1> DEFINE V == n * Q - T * T
<1>6. V \in Int
  <2> HIDE DEF T, Q
  <2>1. n \in Int
    OBVIOUS
  <2>2. n * Q \in Int /\ T * T \in Int
    BY <1>3, <2>1, Products, Zenon
  <2> QED BY <2>2
<1>7. n < 2 => Variance(seq) = Zero
  BY <1>1, Zenon DEF Variance
<1>8. ~(n < 2) => Variance(seq) = Fraction(V, n * (n - 1))
  BY <1>1, <1>3, Zenon DEF Variance
<1>9. RunningVariance(s) = IF n > 1 THEN Times(s.M2, <<1, n - 1>>) ELSE Zero
  BY <1>4, Zenon DEF RunningVariance
<1>10. CASE n > 1
  <2>1. PICK m \in Nat : m = n - 1
    BY <1>10
  <2>2. PICK one \in Nat : one = 1
    OBVIOUS
  <2>3. m # 0 /\ one \in {1} /\ one \in Int /\ ~(n < 2)
    BY <1>10, <2>1, <2>2
  <2> HIDE DEF V
  <2>4. IsValue(Times(s.M2, <<one, m>>), V * one, n * m)
    <3>1. IsValue(<<one, m>>, one, m)
      BY <2>3, PartValue, Zenon
    <3>2. IsValue(s.M2, V, n)
      BY <1>4, Zenon DEF V
    <3> QED BY <1>2, <1>6, <2>3, <3>1, <3>2, TimesValue, Zenon
  <2> DEFINE p == n * m
  <2>5. p \in Nat /\ p # 0 /\ V * one = V
    BY <1>2, <1>6, <2>2, <2>3, Products
  <2>6. IsValue(Times(s.M2, <<one, m>>), V, p)
    BY <2>4, <2>5, Zenon
  <2> HIDE DEF p
  <2>7. IsValue(Fraction(V, p), V, p)
    BY <1>6, <2>5, FractionValue, Zenon
  <2>8. Times(s.M2, <<one, m>>) = Fraction(V, p)
    BY <1>6, <2>5, <2>6, <2>7, ValuesAgree, Zenon
  <2>9. RunningVariance(s) = Times(s.M2, <<one, m>>)
    BY <1>9, <1>10, <2>1, <2>2, Zenon
  <2>10. Variance(seq) = Fraction(V, p)
    BY <1>8, <2>1, <2>3, Zenon DEF p
  <2> QED BY <1>5, <2>8, <2>9, <2>10, Zenon
<1>11. CASE ~(n > 1)
  <2>1. n < 2
    BY <1>11
  <2> QED BY <1>5, <1>7, <1>9, <1>11, <2>1, Zenon
<1> QED BY <1>10, <1>11

-----------------------------------------------------------------------------
(* How many of the first j elements of a sequence are x.                   *)
HowOften(seq, j, x) == Cardinality({i \in 1 .. j : seq[i] = x})

Counts(seq, n, x) ==
  /\ HowOften(seq, n, x) \in Nat /\ HowOften(seq, n, x) <= n
  /\ HowOften(seq, n + 1, x) = HowOften(seq, n, x) + (IF seq[n + 1] = x THEN 1 ELSE 0)
  /\ HowOften(seq, n, x) # 0 <=> \E i \in 1 .. n : seq[i] = x

LEMMA CountsEqual ==
  ASSUME NEW n \in Nat, NEW seq, NEW x PROVE Counts(seq, n, x)
<1> DEFINE T == {i \in 1 .. n : seq[i] = x}
           U == {i \in 1 .. n + 1 : seq[i] = x}
<1>1. T \in SUBSET (1 .. n)
  OBVIOUS
<1>2. \A i : i \in 1 .. n + 1 <=> (i \in 1 .. n \/ i = n + 1)
  OBVIOUS
<1>3. seq[n + 1] = x => U = T \cup {n + 1}
  BY <1>2, Zenon
<1>4. seq[n + 1] # x => U = T
  BY <1>2, Zenon
<1>5. T # {} <=> \E i \in 1 .. n : seq[i] = x
  OBVIOUS
<1>6. HowOften(seq, n, x) = Cardinality(T) /\ HowOften(seq, n + 1, x) = Cardinality(U)
  BY Zenon DEF HowOften
<1> HIDE DEF T, U
<1>7. Cardinality(T) \in Nat /\ Cardinality(T) <= n /\ IsFiniteSet(T)
  BY <1>1, RanksIn, CountOfPositions
<1>8. Cardinality(T \cup {n + 1}) = Cardinality(T) + 1
  BY <1>1, RanksKept
<1>9. Cardinality(T) # 0 <=> T # {}
  BY <1>7, FS_EmptySet
<1>10. /\ HowOften(seq, n, x) \in Nat /\ HowOften(seq, n, x) <= n
       /\ HowOften(seq, n + 1, x) = HowOften(seq, n, x) + (IF seq[n + 1] = x THEN 1 ELSE 0)
  <2>1. CASE seq[n + 1] = x
    <3>1. HowOften(seq, n + 1, x) = Cardinality(T) + 1
      BY <1>3, <1>6, <1>8, <2>1, Zenon
    <3> QED BY <1>6, <1>7, <2>1, <3>1
  <2>2. CASE seq[n + 1] # x
    <3>1. HowOften(seq, n + 1, x) = Cardinality(T)
      BY <1>4, <1>6, <2>2, Zenon
    <3> QED BY <1>6, <1>7, <2>2, <3>1
  <2> QED BY <2>1, <2>2
<1>11. HowOften(seq, n, x) # 0 <=> \E i \in 1 .. n : seq[i] = x
  BY <1>5, <1>6, <1>9, Zenon
<1> QED BY <1>10, <1>11, Zenon DEF Counts

LEMMA CountsOfPrefix ==
  ASSUME NEW s, NEW t, NEW j \in Nat, AgreeTo(s, t, j), NEW x
  PROVE  HowOften(s, j, x) = HowOften(t, j, x)
<1>1. {i \in 1 .. j : s[i] = x} = {i \in 1 .. j : t[i] = x}
  BY Zenon DEF AgreeTo
<1> QED BY <1>1, Zenon DEF HowOften

LEMMA BagOfIs ==
  ASSUME NEW n \in Nat, NEW seq \in Seq(Int), n = Len(seq)
  PROVE  /\ DOMAIN BagOf(seq) = ToSet(seq)
         /\ \A x : x \in ToSet(seq) <=> HowOften(seq, n, x) # 0
         /\ \A x : x \in ToSet(seq) <=> \E i \in 1 .. n : seq[i] = x
         /\ \A x \in ToSet(seq) : BagOf(seq)[x] = HowOften(seq, n, x)
<1>1. DOMAIN seq = 1 .. n
  OBVIOUS
<1>2. ToSet(seq) = {seq[i] : i \in 1 .. n}
  BY <1>1, Zenon DEF ToSet
<1>3. \A x : x \in ToSet(seq) <=> \E i \in 1 .. n : seq[i] = x
  BY <1>2, Zenon
<1>4. \A x : x \in ToSet(seq) <=> HowOften(seq, n, x) # 0
  <2> TAKE x
  <2>1. HowOften(seq, n, x) # 0 <=> \E i \in 1 .. n : seq[i] = x
    <3>1. Counts(seq, n, x)
      BY CountsEqual, Zenon
    <3> QED BY <3>1, Zenon DEF Counts
  <2> QED BY <1>3, <2>1, Zenon
<1>5. BagOf(seq) = [x \in ToSet(seq) |-> HowOften(seq, n, x)]
  BY <1>1, Zenon DEF BagOf, HowOften
<1> QED BY <1>3, <1>4, <1>5, Zenon

(* Counts of one sequence behind another add up.                           *)
LEMMA CountsOfBoth ==
  ASSUME NEW m \in Nat, NEW n \in Nat, NEW s \in Seq(Int), NEW t \in Seq(Int),
         m = Len(s), n = Len(t), NEW x
  PROVE  HowOften(s \o t, m + n, x) = HowOften(s, m, x) + HowOften(t, n, x)
<1> DEFINE u == s \o t
           P == {j \in Nat : j <= n => HowOften(u, m + j, x) = HowOften(s, m, x) + HowOften(t, j, x)}
<1>1. /\ u \in Seq(Int) /\ Len(u) = m + n
      /\ \A i \in 1 .. m + n : u[i] = IF i <= m THEN s[i] ELSE t[i - m]
  BY TwoPartsOfInts
<1> HIDE DEF u
<1>2. 0 \in P
  <2>1. AgreeTo(u, s, m)
    <3>1. \A i \in 1 .. m : i \in 1 .. m + n /\ i <= m
      OBVIOUS
    <3> QED BY <1>1, <3>1, Zenon DEF AgreeTo
  <2>2. HowOften(u, m, x) = HowOften(s, m, x)
    <3> HIDE DEF P
    <3> QED BY <2>1, CountsOfPrefix
  <2>3. HowOften(t, 0, x) \in Nat /\ HowOften(t, 0, x) <= 0 /\ HowOften(s, m, x) \in Nat
    <3>1. Counts(t, 0, x) /\ Counts(s, m, x)
      BY CountsEqual
    <3> QED BY <3>1, Zenon DEF Counts
  <2> QED BY <2>2, <2>3
<1>3. ASSUME NEW j \in Nat, j \in P PROVE j + 1 \in P
  <2> SUFFICES ASSUME j + 1 <= n
               PROVE  HowOften(u, m + (j + 1), x) = HowOften(s, m, x) + HowOften(t, j + 1, x)
    OBVIOUS
  <2> DEFINE k == m + j
  <2>1. HowOften(u, k, x) = HowOften(s, m, x) + HowOften(t, j, x)
    BY <1>3
  <2>2. k \in Nat /\ m + (j + 1) = k + 1
    OBVIOUS
  <2>3. u[k + 1] = t[j + 1]
    <3>1. k + 1 \in 1 .. m + n /\ ~(k + 1 <= m) /\ (k + 1) - m = j + 1
      OBVIOUS
    <3> HIDE DEF k, P
    <3>2. PICK i \in 1 .. m + n : i = k + 1 /\ ~(i <= m)
      BY <3>1, Zenon
    <3>3. u[i] = t[i - m]
      BY <1>1, <3>2, Zenon
    <3> QED BY <3>1, <3>2, <3>3, Zenon
  <2>4. /\ HowOften(u, k + 1, x) = HowOften(u, k, x) + (IF u[k + 1] = x THEN 1 ELSE 0)
        /\ HowOften(t, j + 1, x) = HowOften(t, j, x) + (IF t[j + 1] = x THEN 1 ELSE 0)
        /\ HowOften(s, m, x) \in Nat /\ HowOften(t, j, x) \in Nat
    <3> HIDE DEF k, P
    <3>1. Counts(u, k, x) /\ Counts(t, j, x) /\ Counts(s, m, x)
      BY <2>2, CountsEqual, Zenon
    <3> QED BY <3>1, Zenon DEF Counts
  <2> HIDE DEF k
  <2> QED BY <2>1, <2>2, <2>3, <2>4
<1> HIDE DEF P
<1>4. P \in SUBSET Nat
  BY DEF P
<1>5. n \in P
  BY <1>2, <1>3, <1>4, InductiveSet
<1> QED BY <1>5 DEF P, u

LEMMA BagOfBoth ==
  ASSUME NEW s \in Seq(Int), NEW t \in Seq(Int)
  PROVE  BagOf(s) (+) BagOf(t) = BagOf(s \o t)
<1> DEFINE u == s \o t
<1>1. PICK m \in Nat, n \in Nat : m = Len(s) /\ n = Len(t)
  OBVIOUS
<1>2. PICK k \in Nat : k = m + n
  OBVIOUS
<1>3. u \in Seq(Int) /\ k = Len(u)
  BY <1>1, <1>2, TwoPartsOfInts
<1>4. \A x : HowOften(u, k, x) = HowOften(s, m, x) + HowOften(t, n, x)
  BY <1>1, <1>2, CountsOfBoth
<1>5. \A x : HowOften(s, m, x) \in Nat /\ HowOften(t, n, x) \in Nat
  BY CountsEqual, Zenon DEF Counts
<1> DEFINE a == BagOf(s)
           b == BagOf(t)
           c == BagOf(u)
<1> HIDE DEF u
<1>6. /\ DOMAIN a = ToSet(s) /\ DOMAIN b = ToSet(t) /\ DOMAIN c = ToSet(u)
      /\ \A x : x \in ToSet(s) <=> HowOften(s, m, x) # 0
      /\ \A x : x \in ToSet(t) <=> HowOften(t, n, x) # 0
      /\ \A x : x \in ToSet(u) <=> HowOften(u, k, x) # 0
      /\ \A x \in ToSet(s) : a[x] = HowOften(s, m, x)
      /\ \A x \in ToSet(t) : b[x] = HowOften(t, n, x)
      /\ \A x \in ToSet(u) : c[x] = HowOften(u, k, x)
  BY <1>1, <1>3, BagOfIs
<1>7. c = [x \in ToSet(u) |-> c[x]]
  BY <1>1, <1>3 DEF BagOf
<1> HIDE DEF a, b, c
<1>8. ToSet(u) = ToSet(s) \cup ToSet(t)
  BY <1>4, <1>5, <1>6
<1>9. \A x \in ToSet(u) : c[x] = (IF x \in DOMAIN a THEN a[x] ELSE 0)
                                  + (IF x \in DOMAIN b THEN b[x] ELSE 0)
  BY <1>4, <1>5, <1>6
<1>10. a (+) b = [x \in ToSet(u) |-> (IF x \in DOMAIN a THEN a[x] ELSE 0)
                                  + (IF x \in DOMAIN b THEN b[x] ELSE 0)]
  BY <1>6, <1>8, Zenon DEF (+)
<1>11. a (+) b = c
  BY <1>7, <1>9, <1>10, Zenon
<1> QED BY <1>11 DEF a, b, c, u

(* A set of values, the positions of its elements, and one of them apart.  *)
Pick(S) == CHOOSE x \in S : TRUE
PlacesOf(seq, n, S) == {i \in 1 .. n : seq[i] \in S}

LEMMA PlacesSplit ==
  ASSUME NEW n \in Nat, NEW seq, NEW S, NEW x \in S
  PROVE  Cardinality(PlacesOf(seq, n, S))
           = HowOften(seq, n, x) + Cardinality(PlacesOf(seq, n, S \ {x}))
<1> DEFINE A == {i \in 1 .. n : seq[i] = x}
           B == PlacesOf(seq, n, S \ {x})
<1>1. A \in SUBSET (1 .. n) /\ B \in SUBSET (1 .. n)
  BY DEF PlacesOf
<1>2. PlacesOf(seq, n, S) = A \cup B /\ A \cap B = {}
  BY DEF PlacesOf
<1>3. HowOften(seq, n, x) = Cardinality(A)
  BY Zenon DEF HowOften
<1> HIDE DEF A, B
<1>4. /\ IsFiniteSet(A) /\ Cardinality(A) \in Nat
      /\ IsFiniteSet(B) /\ Cardinality(B) \in Nat
  BY <1>1, RanksIn
<1>5. Cardinality(A \cup B) = Cardinality(A) + Cardinality(B) - Cardinality(A \cap B)
  BY <1>4, FS_Union
<1>6. Cardinality(A \cap B) = 0
  BY <1>2, FS_EmptySet
<1> QED BY <1>2, <1>3, <1>4, <1>5, <1>6 DEF B

(* The sum of a function over a set, by the definition of MapThenSumSet.   *)
PickedSum(h, T) ==
  (CHOOSE it : it = [S \in SUBSET T |->
     IF S = {} THEN 0 ELSE h[Pick(S)] + it[S \ {Pick(S)}]])[T]

(* Counts summed up in any order are the number of those positions.        *)
LEMMA CountsAddUp ==
  ASSUME NEW n \in Nat, NEW seq, NEW T, IsFiniteSet(T), NEW h,
         \A x \in T : h[x] = HowOften(seq, n, x)
  PROVE  PickedSum(h, T) = Cardinality(PlacesOf(seq, n, T))
<1> DEFINE w == [S \in SUBSET T |-> Cardinality(PlacesOf(seq, n, S))]
           scan == CHOOSE it : it = [S \in SUBSET T |->
                      IF S = {} THEN 0 ELSE h[Pick(S)] + it[S \ {Pick(S)}]]
<1>1. ASSUME NEW S \in SUBSET T, S # {}
      PROVE  Pick(S) \in S /\ Pick(S) \in T /\ S \ {Pick(S)} \in SUBSET T
  <2>1. Pick(S) \in S
    BY <1>1, Zenon DEF Pick
  <2> QED BY <2>1
<1>2. ASSUME NEW S \in SUBSET T
      PROVE  w[S] = IF S = {} THEN 0 ELSE h[Pick(S)] + w[S \ {Pick(S)}]
  <2>1. CASE S = {}
    <3>1. PlacesOf(seq, n, S) = {}
      BY <2>1 DEF PlacesOf
    <3>2. w[S] = 0
      BY <3>1, FS_EmptySet, Zenon
    <3> QED BY <2>1, <3>2, Zenon
  <2>2. CASE S # {}
    <3>1. Pick(S) \in S /\ Pick(S) \in T /\ S \ {Pick(S)} \in SUBSET T
      BY <1>1, <2>2, Zenon
    <3>2. Cardinality(PlacesOf(seq, n, S))
            = HowOften(seq, n, Pick(S)) + Cardinality(PlacesOf(seq, n, S \ {Pick(S)}))
      <4>1. PICK x \in S : x = Pick(S)
        BY <3>1, Zenon
      <4>2. Cardinality(PlacesOf(seq, n, S))
              = HowOften(seq, n, x) + Cardinality(PlacesOf(seq, n, S \ {x}))
        BY PlacesSplit
      <4> QED BY <4>1, <4>2, Zenon
    <3>3. w[S] = h[Pick(S)] + w[S \ {Pick(S)}]
      BY <3>1, <3>2, Zenon
    <3> HIDE DEF w
    <3> QED BY <2>2, <3>3, Zenon
  <2> QED BY <2>1, <2>2, Zenon
<1>3. w = [S \in SUBSET T |-> w[S]]
  BY Zenon
<1>w. w[T] = Cardinality(PlacesOf(seq, n, T))
  <2>1. T \in SUBSET T
    OBVIOUS
  <2> QED BY <2>1, Zenon
<1> HIDE DEF w
<1>4. w = [S \in SUBSET T |-> IF S = {} THEN 0 ELSE h[Pick(S)] + w[S \ {Pick(S)}]]
  BY <1>2, <1>3, Zenon
<1>5. scan = [S \in SUBSET T |-> IF S = {} THEN 0 ELSE h[Pick(S)] + scan[S \ {Pick(S)}]]
  BY <1>4, Zenon
<1> HIDE DEF scan
<1>6. ASSUME NEW S \in SUBSET T
      PROVE  scan[S] = IF S = {} THEN 0 ELSE h[Pick(S)] + scan[S \ {Pick(S)}]
  BY <1>5, Zenon
<1>7. \A S \in SUBSET T : IsFiniteSet(S) /\ Cardinality(S) \in Nat
  BY FS_Subset, FS_CardinalityType
<1> DEFINE P == {k \in Nat : \A S \in SUBSET T : Cardinality(S) = k => scan[S] = w[S]}
<1>8. 0 \in P
  <2>1. ASSUME NEW S \in SUBSET T, Cardinality(S) = 0 PROVE scan[S] = w[S]
    <3>1. S = {}
      BY <1>7, <2>1, FS_EmptySet
    <3> QED BY <1>2, <1>6, <3>1, Zenon
  <2> QED BY <2>1
<1>9. ASSUME NEW k \in Nat, k \in P PROVE k + 1 \in P
  <2>1. ASSUME NEW S \in SUBSET T, Cardinality(S) = k + 1 PROVE scan[S] = w[S]
    <3>1. S # {}
      BY <2>1, FS_EmptySet
    <3>2. Pick(S) \in S /\ S \ {Pick(S)} \in SUBSET T
      BY <1>1, <3>1, Zenon
    <3>3. Cardinality(S \ {Pick(S)}) = k
      <4>1. PICK x \in S : x = Pick(S)
        BY <3>2, Zenon
      <4>2. Cardinality(S \ {x}) = Cardinality(S) - 1
        BY <1>7, FS_RemoveElement
      <4> HIDE DEF P
      <4> QED BY <2>1, <4>1, <4>2
    <3>4. scan[S \ {Pick(S)}] = w[S \ {Pick(S)}]
      BY <1>9, <3>2, <3>3, Zenon
    <3> QED BY <1>2, <1>6, <3>1, <3>4, Zenon
  <2>2. k + 1 \in Nat
    OBVIOUS
  <2> QED BY <2>1, <2>2, Zenon
<1> HIDE DEF P
<1>10. P \in SUBSET Nat
  BY DEF P
<1>11. \A k \in Nat : k \in P
  BY <1>8, <1>9, <1>10, InductiveSet
<1>12. scan[T] = w[T]
  <2>1. T \in SUBSET T
    OBVIOUS
  <2>2. Cardinality(T) \in P
    BY <1>7, <1>11, <2>1, Zenon
  <2> QED BY <2>1, <2>2, Zenon DEF P
<1> QED BY <1>w, <1>12, Zenon DEF scan, PickedSum

LEMMA ValuesFinite == ASSUME NEW seq \in Seq(Int) PROVE IsFiniteSet(ToSet(seq))
<1>1. PICK n \in Nat : n = Len(seq)
  OBVIOUS
<1>2. /\ seq \in [1 .. n -> ToSet(seq)]
      /\ \A t \in ToSet(seq) : \E i \in 1 .. n : seq[i] = t
  BY <1>1 DEF ToSet
<1>3. ExistsSurjection(1 .. n, ToSet(seq))
  BY <1>2, Zenon DEF ExistsSurjection, Surjection
<1> QED BY <1>3, FS_NatSurjection, Zenon

(* The k-th smallest element is the least of which, with the smaller ones, *)
(* there are k.                                                            *)
LEMMA LeastOfRank ==
  ASSUME NEW seq \in Seq(Int), NEW n \in Nat, n = Len(seq), NEW k \in 1 .. n
  PROVE  Min({b \in ToSet(seq) : AtMostIn(seq, n, b) >= k}) = Sorted(seq)[k]
<1> DEFINE s == Sorted(seq)
           S == {b \in ToSet(seq) : AtMostIn(seq, n, b) >= k}
<1>1. Orders(s, seq, n)
  BY SortedOrders, Zenon
<1> HIDE DEF s
<1>2. /\ s \in Seq(Int) /\ Len(s) = n
      /\ \A i \in 1 .. n : \A y \in Int : s[i] <= y <=> i <= AtMostIn(seq, n, y)
  BY <1>1, Zenon DEF Orders
<1>3. \A b : b \in ToSet(seq) <=> \E i \in 1 .. n : seq[i] = b
  BY BagOfIs, Zenon
<1>4. \A b \in ToSet(seq) : b \in Int
  BY <1>3
<1>5. s[k] \in Int /\ s[k] <= s[k]
  BY <1>2
<1>6. s[k] \in ToSet(seq)
  <2>a. TakenFrom(s, seq, n)
    BY <1>1, OrderedAscends, Zenon
  <2>1. PICK i \in 1 .. n : s[k] = seq[i]
    BY <2>a, Zenon DEF TakenFrom
  <2> QED BY <1>3, <2>1, Zenon
<1>c. \A y \in Int : AtMostIn(seq, n, y) \in Nat
  <2>1. \A y : {i \in 1 .. n : seq[i] <= y} \in SUBSET (1 .. n)
    OBVIOUS
  <2> QED BY <2>1, RanksIn, Zenon DEF AtMostIn
<1>7. s[k] \in S
  <2>1. k <= AtMostIn(seq, n, s[k])
    BY <1>2, <1>5, Zenon
  <2>2. AtMostIn(seq, n, s[k]) \in Nat
    BY <1>5, <1>c, Zenon
  <2>3. AtMostIn(seq, n, s[k]) >= k
    BY <2>1, <2>2
  <2> QED BY <1>6, <2>3, Zenon
<1>8. ASSUME NEW b \in S PROVE s[k] <= b /\ b \in Int
  <2>1. b \in Int /\ AtMostIn(seq, n, b) >= k
    BY <1>4
  <2>2. AtMostIn(seq, n, b) \in Nat
    BY <1>c, <2>1, Zenon
  <2>3. k <= AtMostIn(seq, n, b)
    BY <2>1, <2>2
  <2> QED BY <1>2, <2>1, <2>3, Zenon
<1> HIDE DEF S
<1>9. S \in SUBSET Int
  BY <1>8
<1>10. Min(S) = s[k]
  BY <1>7, <1>8, <1>9, MinOf
<1> QED BY <1>10 DEF S, s

(* One sequence has no element more often than the other.                  *)
CountsWithin(s, t) == \A x : HowOften(s, Len(s), x) <= HowOften(t, Len(t), x)

LEMMA WithinTells ==
  ASSUME NEW s \in Seq(Int), NEW t \in Seq(Int), CountsWithin(s, t)
  PROVE  BagOf(s) \sqsubseteq BagOf(t)
<1>1. PICK m \in Nat, n \in Nat : m = Len(s) /\ n = Len(t)
  OBVIOUS
<1>2. \A x : HowOften(s, m, x) <= HowOften(t, n, x)
  BY <1>1, Zenon DEF CountsWithin
<1>3. \A x : HowOften(s, m, x) \in Nat /\ HowOften(t, n, x) \in Nat
  BY CountsEqual, Zenon DEF Counts
<1>4. /\ DOMAIN BagOf(s) = ToSet(s) /\ \A x : x \in ToSet(s) <=> HowOften(s, m, x) # 0
      /\ \A x \in ToSet(s) : BagOf(s)[x] = HowOften(s, m, x)
  BY <1>1, BagOfIs, Zenon
<1>5. /\ DOMAIN BagOf(t) = ToSet(t) /\ \A x : x \in ToSet(t) <=> HowOften(t, n, x) # 0
      /\ \A x \in ToSet(t) : BagOf(t)[x] = HowOften(t, n, x)
  BY <1>1, BagOfIs, Zenon
<1>6. \A x : HowOften(s, m, x) # 0 => HowOften(t, n, x) # 0
  BY <1>2, <1>3
<1> QED BY <1>2, <1>4, <1>5, <1>6, Zenon DEF \sqsubseteq

LEMMA CountsOfAppend ==
  ASSUME NEW s \in Seq(Int), NEW v \in Int, NEW x
  PROVE  /\ HowOften(Append(s, v), Len(Append(s, v)), x)
              = HowOften(s, Len(s), x) + (IF v = x THEN 1 ELSE 0)
         /\ HowOften(s, Len(s), x) \in Nat
<1> DEFINE t == Append(s, v)
<1>1. PICK n \in Nat : n = Len(s)
  OBVIOUS
<1>2. Len(t) = n + 1 /\ t[n + 1] = v /\ AgreeTo(t, s, n)
  BY <1>1 DEF AgreeTo
<1> HIDE DEF t
<1>3. Counts(t, n, x) /\ Counts(s, n, x)
  BY CountsEqual, Zenon
<1>4. HowOften(t, n, x) = HowOften(s, n, x)
  <2>1. AgreeTo(t, s, n)
    BY <1>2, Zenon
  <2> QED BY <2>1, CountsOfPrefix
<1>5. HowOften(t, n + 1, x) = HowOften(s, n, x) + (IF v = x THEN 1 ELSE 0)
  BY <1>2, <1>3, <1>4, Zenon DEF Counts
<1> QED BY <1>1, <1>2, <1>3, <1>5, Zenon DEF Counts, t

LEMMA WithinGrows ==
  ASSUME NEW s \in Seq(Int), NEW t \in Seq(Int), CountsWithin(s, t), NEW v \in Int
  PROVE  CountsWithin(Append(s, v), Append(t, v)) /\ CountsWithin(s, Append(t, v))
<1>1. ASSUME NEW x
      PROVE  /\ HowOften(Append(s, v), Len(Append(s, v)), x)
                  <= HowOften(Append(t, v), Len(Append(t, v)), x)
             /\ HowOften(s, Len(s), x) <= HowOften(Append(t, v), Len(Append(t, v)), x)
  <2> DEFINE a == HowOften(s, Len(s), x)
             b == HowOften(t, Len(t), x)
             c == HowOften(Append(s, v), Len(Append(s, v)), x)
             d == HowOften(Append(t, v), Len(Append(t, v)), x)
  <2>1. /\ c = a + (IF v = x THEN 1 ELSE 0) /\ d = b + (IF v = x THEN 1 ELSE 0)
        /\ a \in Nat /\ b \in Nat
    BY CountsOfAppend, ZenonT(60)
  <2>2. a <= b
    BY Zenon DEF CountsWithin
  <2> HIDE DEF a, b, c, d
  <2>3. c <= d /\ a <= d
    BY <2>1, <2>2
  <2> QED BY <2>3, Zenon DEF a, b, c, d
<1> QED BY <1>1, Zenon DEF CountsWithin

(* The classes of sixteen that the coarse histogram counts.                *)
Bins(seq) == [i \in 1 .. Len(seq) |-> seq[i] \div 16]

LEMMA BinsType ==
  ASSUME NEW seq \in Seq(Int)
  PROVE  /\ Bins(seq) \in Seq(Int) /\ Len(Bins(seq)) = Len(seq)
         /\ \A i \in 1 .. Len(seq) : Bins(seq)[i] = seq[i] \div 16
<1>1. \A i \in 1 .. Len(seq) : seq[i] \div 16 \in Int
  <2>1. \A x \in Int : x \div 16 \in Int
    OBVIOUS
  <2>2. \A i \in 1 .. Len(seq) : seq[i] \in Int
    OBVIOUS
  <2> QED BY <2>1, <2>2, Zenon
<1> QED BY <1>1 DEF Bins

LEMMA BinsOfBoth ==
  ASSUME NEW s \in Seq(Int), NEW t \in Seq(Int) PROVE Bins(s \o t) = Bins(s) \o Bins(t)
<1> DEFINE a == Bins(s)
           b == Bins(t)
           u == s \o t
           c == Bins(u)
           d == a \o b
<1>1. PICK m \in Nat, n \in Nat : m = Len(s) /\ n = Len(t)
  OBVIOUS
<1>2. /\ u \in Seq(Int) /\ Len(u) = m + n
      /\ \A i \in 1 .. m + n : u[i] = IF i <= m THEN s[i] ELSE t[i - m]
  BY <1>1, TwoPartsOfInts, Zenon
<1> HIDE DEF u
<1>3. /\ a \in Seq(Int) /\ Len(a) = m /\ \A i \in 1 .. m : a[i] = s[i] \div 16
      /\ b \in Seq(Int) /\ Len(b) = n /\ \A i \in 1 .. n : b[i] = t[i] \div 16
      /\ c \in Seq(Int) /\ Len(c) = m + n /\ \A i \in 1 .. m + n : c[i] = u[i] \div 16
  BY <1>1, <1>2, BinsType, ZenonT(60)
<1> HIDE DEF a, b, c
<1>4. /\ d \in Seq(Int) /\ Len(d) = m + n
      /\ \A i \in 1 .. m + n : d[i] = IF i <= m THEN a[i] ELSE b[i - m]
  BY <1>3, TwoPartsOfInts, Zenon
<1> HIDE DEF d
<1>5. ASSUME NEW i \in 1 .. m + n PROVE c[i] = d[i]
  <2>1. CASE i <= m
    <3>1. i \in 1 .. m
      BY <2>1
    <3>2. d[i] = a[i]
      BY <1>4, <2>1, Zenon
    <3>3. u[i] = s[i]
      BY <1>2, <2>1, Zenon
    <3>4. a[i] = s[i] \div 16 /\ c[i] = u[i] \div 16
      BY <1>3, <3>1, Zenon
    <3> QED BY <3>2, <3>3, <3>4, Zenon
  <2>2. CASE ~(i <= m)
    <3>1. i - m \in 1 .. n
      BY <2>2
    <3> QED BY <1>2, <1>3, <1>4, <2>2, <3>1, ZenonT(60)
  <2> QED BY <2>1, <2>2
<1>6. c = d
  BY <1>3, <1>4, <1>5
<1> QED BY <1>6 DEF a, b, c, d, u

LEMMA BinsCountMore ==
  ASSUME NEW seq \in Seq(Int), NEW n \in Nat, n = Len(seq), NEW x
  PROVE  HowOften(seq, n, x) <= HowOften(Bins(seq), n, x \div 16)
<1> DEFINE A == {i \in 1 .. n : seq[i] = x}
           B == {i \in 1 .. n : Bins(seq)[i] = x \div 16}
<1>1. \A i \in 1 .. n : Bins(seq)[i] = seq[i] \div 16
  BY BinsType, Zenon
<1>2. A \in SUBSET B /\ B \in SUBSET (1 .. n)
  BY <1>1
<1>3. HowOften(seq, n, x) = Cardinality(A) /\ HowOften(Bins(seq), n, x \div 16) = Cardinality(B)
  BY Zenon DEF HowOften
<1> HIDE DEF A, B
<1>4. IsFiniteSet(B)
  BY <1>2, RanksIn
<1>5. Cardinality(A) <= Cardinality(B)
  BY <1>2, <1>4, FS_Subset
<1> QED BY <1>3, <1>5
-----------------------------------------------------------------------------
(* Sums that are compared element by element.                              *)
LEMMA TotalCompares ==
  ASSUME NEW s \in Seq(Int), NEW t \in Seq(Int), NEW n \in Nat, Len(s) = n, Len(t) = n,
         NEW a \in Int, NEW b \in Int, \A i \in 1 .. n : a * s[i] <= b * t[i]
  PROVE  /\ Total(s) \in Int /\ Total(t) \in Int
         /\ a * Total(s) <= b * Total(t)
<1>1. PICK is : SumsTo(s, n, is) /\ Total(s) = is[1 .. n]
  BY TotalIsSum, Zenon
<1>2. PICK it : SumsTo(t, n, it) /\ Total(t) = it[1 .. n]
  BY TotalIsSum, Zenon
<1>3. \A j \in Nat : j <= n => is[1 .. j] \in Int /\ it[1 .. j] \in Int
  BY <1>1, <1>2, SumsType, Zenon
<1>0. StepsBy(s, n, is) /\ StepsBy(t, n, it)
  BY <1>1, <1>2, SumsAt, Zenon
<1> DEFINE P == {j \in Nat : j <= n => a * is[1 .. j] <= b * it[1 .. j]}
<1>4. 0 \in P
  <2>1. is[1 .. 0] = 0 /\ it[1 .. 0] = 0
    BY <1>0, Zenon DEF StepsBy
  <2>2. a * 0 <= b * 0
    OBVIOUS
  <2> QED BY <2>1, <2>2
<1>5. ASSUME NEW j \in Nat, j \in P PROVE j + 1 \in P
  <2> SUFFICES ASSUME j + 1 <= n PROVE a * is[1 .. j + 1] <= b * it[1 .. j + 1]
    OBVIOUS
  <2>1. /\ a * is[1 .. j] <= b * it[1 .. j] /\ is[1 .. j] \in Int /\ it[1 .. j] \in Int
        /\ j + 1 \in 1 .. n
    BY <1>3, <1>5
  <2>2. is[1 .. j + 1] = is[1 .. j] + s[j + 1] /\ it[1 .. j + 1] = it[1 .. j] + t[j + 1]
    BY <1>0, Zenon DEF StepsBy
  <2>3. s[j + 1] \in Int /\ t[j + 1] \in Int /\ a * s[j + 1] <= b * t[j + 1]
    BY <2>1
  <2>4. \A w, x, y, z \in Int : a * w <= b * x /\ a * y <= b * z => a * (w + y) <= b * (x + z)
    <3> TAKE w, x, y, z \in Int
    <3>1. a * (w + y) = a * w + a * y /\ b * (x + z) = b * x + b * z
      BY SMT
    <3>2. a * w \in Int /\ a * y \in Int /\ b * x \in Int /\ b * z \in Int
      BY Products
    <3> QED BY <3>1, <3>2
  <2> QED BY <2>1, <2>2, <2>3, <2>4, Zenon
<1> HIDE DEF P
<1>6. P \in SUBSET Nat
  BY DEF P
<1>7. \A j \in Nat : j \in P
  BY <1>4, <1>5, <1>6, InductiveSet
<1>8. a * is[1 .. n] <= b * it[1 .. n]
  <2>1. n \in P
    BY <1>7, Zenon
  <2>2. n <= n
    OBVIOUS
  <2> QED BY <2>1, <2>2, Zenon DEF P
<1> QED BY <1>1, <1>2, <1>3, <1>8

(* A sum of as many elements between two bounds as S has, and of zeros.    *)
LEMMA TotalWithin ==
  ASSUME NEW s \in Seq(Int), NEW n \in Nat, Len(s) = n, NEW S \in SUBSET (1 .. n),
         NEW low \in Int, NEW high \in Int,
         \A i \in 1 .. n : IF i \in S THEN low <= s[i] /\ s[i] <= high ELSE s[i] = 0
  PROVE  low * Cardinality(S) <= Total(s) /\ Total(s) <= high * Cardinality(S)
<1>1. PICK it : SumsTo(s, n, it) /\ Total(s) = it[1 .. n]
  BY TotalIsSum, Zenon
<1>2. \A j \in Nat : j <= n => it[1 .. j] \in Int
  BY <1>1, SumsType, Zenon
<1>3. StepsBy(s, n, it)
  BY <1>1, SumsAt, Zenon
<1> DEFINE T(j) == S \cap (1 .. j)
           c(j) == Cardinality(T(j))
           P == {j \in Nat : j <= n => low * c(j) <= it[1 .. j] /\ it[1 .. j] <= high * c(j)}
<1>4. 0 \in P
  <2>1. it[1 .. 0] = 0
    BY <1>3, Zenon DEF StepsBy
  <2>2. T(0) = {}
    OBVIOUS
  <2>3. c(0) = 0
    BY <2>2, FS_EmptySet, Zenon
  <2>4. low * 0 <= 0 /\ 0 <= high * 0
    OBVIOUS
  <2> HIDE DEF c
  <2> QED BY <2>1, <2>3, <2>4
<1>5. ASSUME NEW j \in Nat, j \in P PROVE j + 1 \in P
  <2>0. SUFFICES ASSUME j + 1 <= n
                 PROVE  low * c(j + 1) <= it[1 .. j + 1] /\ it[1 .. j + 1] <= high * c(j + 1)
    OBVIOUS
  <2>1. /\ low * c(j) <= it[1 .. j] /\ it[1 .. j] <= high * c(j)
        /\ it[1 .. j] \in Int /\ j + 1 \in 1 .. n
    <3> HIDE DEF c
    <3> QED BY <1>2, <1>5, <2>0
  <2>2. it[1 .. j + 1] = it[1 .. j] + s[j + 1]
    BY <1>3, <2>0, Zenon DEF StepsBy
  <2>3. T(j) \in SUBSET (1 .. j) /\ c(j) \in Nat
    <3>1. T(j) \in SUBSET (1 .. j)
      OBVIOUS
    <3> HIDE DEF T
    <3> QED BY <3>1, RanksIn
  <2>4. s[j + 1] \in Int
    BY <2>1
  <2>5. CASE j + 1 \in S
    <3>1. T(j + 1) = T(j) \cup {j + 1}
      BY <2>5
    <3>2. c(j + 1) = c(j) + 1
      <4> HIDE DEF T
      <4> QED BY <2>3, <3>1, RanksKept
    <3>3. low <= s[j + 1] /\ s[j + 1] <= high
      BY <2>1, <2>5
    <3>4. \A x \in Nat : \A v \in Int : v * (x + 1) = v * x + v /\ v * x \in Int
      BY SMT
    <3> HIDE DEF c
    <3>5. /\ low * (c(j) + 1) = low * c(j) + low /\ low * c(j) \in Int
          /\ high * (c(j) + 1) = high * c(j) + high /\ high * c(j) \in Int
      BY <2>3, <3>4
    <3>6. \A l, h, x, y \in Int : l <= x /\ x <= h /\ low <= y /\ y <= high
             => l + low <= x + y /\ x + y <= h + high
      OBVIOUS
    <3>7. low * c(j + 1) = low * c(j) + low /\ high * c(j + 1) = high * c(j) + high
      BY <3>2, <3>5, Zenon
    <3>8. low * c(j) + low <= it[1 .. j] + s[j + 1] /\ it[1 .. j] + s[j + 1] <= high * c(j) + high
      BY <2>1, <2>4, <3>3, <3>5, <3>6, Zenon
    <3> QED BY <2>2, <3>7, <3>8, Zenon
  <2>6. CASE j + 1 \notin S
    <3>1. T(j + 1) = T(j)
      BY <2>6
    <3>2. s[j + 1] = 0
      BY <2>1, <2>6
    <3>3. it[1 .. j + 1] = it[1 .. j]
      BY <2>1, <2>2, <3>2
    <3> QED BY <2>1, <3>1, <3>3, Zenon
  <2> QED BY <2>5, <2>6
<1> HIDE DEF P
<1>6. P \in SUBSET Nat
  BY DEF P
<1>7. n \in P
  BY <1>4, <1>5, <1>6, InductiveSet
<1>8. T(n) = S /\ n <= n
  <2>1. \A i \in S : i \in 1 .. n
    OBVIOUS
  <2>2. T(n) = S
    BY <2>1, Zenon
  <2> QED BY <2>2
<1> QED BY <1>1, <1>7, <1>8, Zenon DEF P

(* A mean lies within the bounds of its elements.                          *)
LEMMA MeanWithin ==
  ASSUME NEW s \in Seq(Int), NEW n \in Nat, Len(s) = n, n # 0, NEW low \in Int, NEW high \in Int,
         \A i \in 1 .. n : low <= s[i] /\ s[i] <= high
  PROVE  Between(Mean(s), low, high)
<1>1. Cardinality(1 .. n) = n /\ 1 .. n \in SUBSET (1 .. n) /\ 1 \in Nat /\ 1 # 0
  BY CountFrom1
<1>2. Total(s) \in Int /\ low * n <= Total(s) /\ Total(s) <= high * n
  <2>1. \A i \in 1 .. n : IF i \in 1 .. n THEN low <= s[i] /\ s[i] <= high ELSE s[i] = 0
    OBVIOUS
  <2>2. low * Cardinality(1 .. n) <= Total(s) /\ Total(s) <= high * Cardinality(1 .. n)
    BY <1>1, <2>1, TotalWithin
  <2> QED BY <1>1, <2>2, TotalType, Zenon
<1>3. Mean(s) = Fraction(Total(s), n)
  BY Zenon DEF Mean
<1> DEFINE T == Total(s)
           q == Mean(s)
<1>4. IsValue(q, T, n)
  BY <1>2, <1>3, FractionValue, Zenon
<1>5. T * 1 = T
  BY <1>2
<1> HIDE DEF T, q
<1>6. AtMost(Whole(low), q) <=> low * n <= T * 1
  BY <1>1, <1>2, <1>4, WholeValue, AtMostValue, Zenon DEF T
<1>7. AtMost(q, Whole(high)) <=> T * 1 <= high * n
  BY <1>1, <1>2, <1>4, WholeValue, AtMostValue, Zenon DEF T
<1> QED BY <1>2, <1>4, <1>5, <1>6, <1>7, Zenon DEF Between, IsValue, T, q

(* The first and the last of what is sorted are the extremes.              *)
LEMMA SortedExtremes ==
  ASSUME NEW seq \in Seq(Int), NEW n \in Nat, n = Len(seq), n # 0, NEW s, s = Sorted(seq)
  PROVE  /\ IsAscending(s, n) /\ s[1] \in Int /\ s[n] \in Int /\ s \in Seq(Int) /\ Len(s) = n
         /\ \A i \in 1 .. n : s[1] <= seq[i] /\ seq[i] <= s[n]
         /\ Min(ToSet(seq)) = s[1] /\ Max(ToSet(seq)) = s[n]
         /\ s[1] \in ToSet(seq) /\ s[n] \in ToSet(seq) /\ ToSet(seq) \in SUBSET Int
<1>1. Orders(s, seq, n)
  BY SortedOrders
<1>2. IsAscending(s, n) /\ TakenFrom(s, seq, n)
  BY <1>1, OrderedAscends
<1>3. /\ s \in Seq(Int) /\ Len(s) = n /\ 1 \in 1 .. n /\ n \in 1 .. n
      /\ \A i \in 1 .. n : s[i] \in Int /\ seq[i] \in Int
  BY <1>2 DEF IsAscending
<1>4. \A i \in 1 .. n : \A y \in Int : s[i] <= y <=> i <= AtMostIn(seq, n, y)
  BY <1>1, Zenon DEF Orders
<1>5. ASSUME NEW i \in 1 .. n PROVE s[1] <= seq[i]
  <2> DEFINE T == {k \in 1 .. n : seq[k] <= seq[i]}
  <2>1. T \in SUBSET (1 .. n) /\ i \in T
    BY <1>3
  <2>2. AtMostIn(seq, n, seq[i]) = Cardinality(T)
    BY Zenon DEF AtMostIn
  <2> HIDE DEF T
  <2>3. Cardinality(T) \in Nat /\ Cardinality(T) # 0
    BY <2>1, RanksIn
  <2>4. 1 <= AtMostIn(seq, n, seq[i])
    BY <2>2, <2>3
  <2> QED BY <1>3, <1>4, <2>4, Zenon
<1>6. ASSUME NEW i \in 1 .. n PROVE seq[i] <= s[n]
  <2> SUFFICES ASSUME ~(seq[i] <= s[n]) PROVE FALSE
    OBVIOUS
  <2> DEFINE T == {k \in 1 .. n : seq[k] <= s[n]}
             U == (1 .. n) \ {i}
  <2>1. T \in SUBSET U
    OBVIOUS
  <2>2. AtMostIn(seq, n, s[n]) = Cardinality(T)
    BY Zenon DEF AtMostIn
  <2>3. IsFiniteSet(U) /\ Cardinality(U) = n - 1
    BY CountFrom1, FS_RemoveElement
  <2> HIDE DEF T, U
  <2>4. Cardinality(T) <= n - 1 /\ Cardinality(T) \in Nat
    BY <2>1, <2>3, FS_Subset, FS_CardinalityType
  <2>5. s[n] <= s[n]
    BY <1>3
  <2>6. n <= Cardinality(T)
    BY <1>3, <1>4, <2>2, <2>5, Zenon
  <2> QED BY <2>4, <2>6
<1>7. /\ ToSet(seq) = {seq[i] : i \in 1 .. n} /\ ToSet(seq) \in SUBSET Int
      /\ \A x : x \in ToSet(seq) <=> \E i \in 1 .. n : seq[i] = x
  <2>1. ToSet(seq) = {seq[i] : i \in 1 .. n}
    <3>1. DOMAIN seq = 1 .. n
      OBVIOUS
    <3> QED BY <3>1, Zenon DEF ToSet
  <2> QED BY <1>3, <2>1
<1>8. s[1] \in ToSet(seq) /\ s[n] \in ToSet(seq)
  BY <1>2, <1>3, <1>7, Zenon DEF TakenFrom
<1>9. \A x \in ToSet(seq) : s[1] <= x /\ x <= s[n]
  BY <1>5, <1>6, <1>7, Zenon
<1>10. Min(ToSet(seq)) = s[1]
  BY <1>7, <1>8, <1>9, MinOf
<1>11. Max(ToSet(seq)) = s[n]
  BY <1>7, <1>8, <1>9, MaxOf
<1> QED BY <1>2, <1>3, <1>5, <1>6, <1>7, <1>8, <1>10, <1>11

(* The elements of a sequence of integers.                                 *)
LEMMA ElementsAreInts == ASSUME NEW s \in Seq(Int) PROVE \A i \in 1 .. Len(s) : s[i] \in Int
OBVIOUS

(* The number of positions of a value as a sum over the positions.         *)
LEMMA CountIsSum ==
  ASSUME NEW n \in Nat, NEW seq, NEW x
  PROVE  Total([i \in 1 .. n |-> IF seq[i] = x THEN 1 ELSE 0]) = HowOften(seq, n, x)
<1> DEFINE Row(j) == [i \in 1 .. j |-> IF seq[i] = x THEN 1 ELSE 0]
           P == {j \in Nat : Total(Row(j)) = HowOften(seq, j, x)}
<1>1. 0 \in P
  <2>1. Row(0) = << >>
    OBVIOUS
  <2>2. HowOften(seq, 0, x) = 0
    <3>1. {i \in 1 .. 0 : seq[i] = x} = {}
      OBVIOUS
    <3> QED BY <3>1, FS_EmptySet, Zenon DEF HowOften
  <2> HIDE DEF Row
  <2> QED BY <2>1, <2>2, TotalOfNone
<1>2. ASSUME NEW j \in Nat, j \in P PROVE j + 1 \in P
  <2>1. Total(Row(j)) = HowOften(seq, j, x)
    BY <1>2
  <2> DEFINE v == IF seq[j + 1] = x THEN 1 ELSE 0
  <2>2. Row(j + 1) = Append(Row(j), v) /\ Row(j) \in Seq(Int) /\ v \in Int
    OBVIOUS
  <2>3. HowOften(seq, j + 1, x) = HowOften(seq, j, x) + v
    <3>1. Counts(seq, j, x)
      BY CountsEqual, Zenon
    <3> QED BY <3>1, Zenon DEF Counts
  <2> HIDE DEF Row, v
  <2>4. Total(Row(j + 1)) = Total(Row(j)) + v
    BY <2>2, TotalOfAppend, Zenon
  <2>5. Total(Row(j + 1)) = HowOften(seq, j + 1, x)
    BY <2>1, <2>3, <2>4, Zenon
  <2> QED BY <2>5
<1> HIDE DEF P
<1>3. P \in SUBSET Nat
  BY DEF P
<1>4. n \in P
  BY <1>1, <1>2, <1>3, InductiveSet
<1> QED BY <1>4 DEF P

(* As many ones add up to their number.                                    *)
LEMMA TotalOfOnes ==
  ASSUME NEW n \in Nat PROVE Total([i \in 1 .. n |-> 1]) = n
<1> DEFINE Row(j) == [i \in 1 .. j |-> 1]
           P == {j \in Nat : Total(Row(j)) = j}
<1>1. 0 \in P
  <2>1. Row(0) = << >>
    OBVIOUS
  <2> HIDE DEF Row
  <2> QED BY <2>1, TotalOfNone
<1>2. ASSUME NEW j \in Nat, j \in P PROVE j + 1 \in P
  <2>1. Total(Row(j)) = j
    BY <1>2
  <2>2. Row(j + 1) = Append(Row(j), 1) /\ Row(j) \in Seq(Int) /\ 1 \in Int
    OBVIOUS
  <2> HIDE DEF Row
  <2>3. Total(Row(j + 1)) = j + 1
    BY <2>1, <2>2, TotalOfAppend, Zenon
  <2> QED BY <2>3
<1> HIDE DEF P
<1>3. P \in SUBSET Nat
  BY DEF P
<1>4. n \in P
  BY <1>1, <1>2, <1>3, InductiveSet
<1> QED BY <1>4 DEF P

(* One element more.                                                       *)
LEMMA TotalExtends ==
  ASSUME NEW n \in Nat, NEW s \in [1 .. n -> Int], NEW t \in [1 .. n + 1 -> Int],
         \A i \in 1 .. n : t[i] = s[i]
  PROVE  Total(s) \in Int /\ Total(t) = Total(s) + t[n + 1]
<1>1. s \in Seq(Int) /\ t[n + 1] \in Int
  OBVIOUS
<1>2. t = Append(s, t[n + 1])
  <2> DEFINE x == t[n + 1]
             all == Append(s, x)
  <2>1. Len(s) = n /\ x \in Int
    OBVIOUS
  <2> HIDE DEF x
  <2>2. all \in Seq(Int) /\ Len(all) = n + 1 /\ \A i \in 1 .. n + 1 : all[i] = IF i = n + 1 THEN x ELSE s[i]
    BY <1>1, <2>1
  <2> HIDE DEF all
  <2>3. all \in [1 .. n + 1 -> Int]
    BY <2>2
  <2>4. \A i \in 1 .. n + 1 : all[i] = t[i]
    <3> TAKE i \in 1 .. n + 1
    <3>1. CASE i = n + 1
      BY <2>2, <3>1 DEF x
    <3>2. CASE i # n + 1
      <4>1. i \in 1 .. n
        BY <3>2
      <4> QED BY <2>2, <3>2, <4>1, Zenon
    <3> QED BY <3>1, <3>2
  <2>5. all = t
    BY <2>3, <2>4
  <2> QED BY <2>5 DEF all, x
<1> QED BY <1>1, <1>2, TotalOfAppend, Zenon

(* A running maximum that starts from 0.                                   *)
LEMMA MaxFromZero ==
  ASSUME NEW seq \in Seq(Int), NEW n \in Nat, n = Len(seq), n # 0
  PROVE  /\ Max({0} \cup ToSet(seq)) \in Int /\ Max({0} \cup ToSet(seq)) >= 0
         /\ \A i \in 1 .. n : seq[i] <= Max({0} \cup ToSet(seq))
         /\ Max({0} \cup ToSet(seq)) = 0 \/ Max({0} \cup ToSet(seq)) = Max(ToSet(seq))
<1> PICK s : s = Sorted(seq)
  OBVIOUS
<1>1. /\ s[n] \in Int /\ \A i \in 1 .. n : seq[i] <= s[n]
      /\ Max(ToSet(seq)) = s[n] /\ s[n] \in ToSet(seq) /\ ToSet(seq) \in SUBSET Int
      /\ s[1] \in Int /\ \A i \in 1 .. n : s[1] <= seq[i]
  BY SortedExtremes
<1>0. /\ \A x \in ToSet(seq) : x \in Int /\ x <= s[n]
      /\ \A i \in 1 .. n : seq[i] \in Int
  <2>1. DOMAIN seq = 1 .. n
    OBVIOUS
  <2>2. \A x \in ToSet(seq) : \E i \in 1 .. n : x = seq[i]
    BY <2>1, Zenon DEF ToSet
  <2> QED BY <1>1, <2>2, ElementsAreInts, Zenon
<1> DEFINE T == {0} \cup ToSet(seq)
<1>2. T \in SUBSET Int
  BY <1>1
<1>3. CASE s[n] >= 0
  <2>1. s[n] \in T /\ \A y \in T : y <= s[n]
    BY <1>0, <1>1, <1>3
  <2> HIDE DEF T
  <2>2. Max(T) = s[n]
    BY <1>2, <2>1, MaxOf
  <2> QED BY <1>1, <1>3, <2>2 DEF T
<1>4. CASE ~(s[n] >= 0)
  <2>1. 0 \in T /\ \A y \in T : y <= 0
    BY <1>0, <1>1, <1>4
  <2> HIDE DEF T
  <2>2. Max(T) = 0
    BY <1>2, <2>1, MaxOf
  <2>3. \A i \in 1 .. n : seq[i] <= 0
    BY <1>0, <1>1, <1>4
  <2>4. Max(T) \in Int /\ Max(T) >= 0 /\ \A i \in 1 .. n : seq[i] <= Max(T)
    BY <2>2, <2>3
  <2> QED BY <2>2, <2>4, Zenon DEF T
<1> QED BY <1>3, <1>4

(* What a whole bounds, a smaller or a larger one bounds as well.          *)
LEMMA WholesBound ==
  ASSUME NEW x \in Int, NEW y \in Int, x <= y, NEW q \in Lowest
  PROVE  /\ AtMost(Whole(y), q) => AtMost(Whole(x), q)
         /\ AtMost(q, Whole(x)) => AtMost(q, Whole(y))
<1>1. Whole(x) \in Lowest /\ Whole(y) \in Lowest /\ AtMost(Whole(x), Whole(y))
  BY WholesOrder, Zenon
<1> QED BY <1>1, AtMostIsOrder, Zenon
=============================================================================

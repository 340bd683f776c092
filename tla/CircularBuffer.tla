--------------------------- MODULE CircularBuffer ---------------------------
(***************************************************************************)
(* The ring buffer of src/src/utils/circular_buffer.{h,cpp}, as operators  *)
(* on a record, and the snapshot/rebind pair with which ti_features.cpp    *)
(* moves a ring into a larger block.  The thirteen per-packet sequences of *)
(* a flow (packet lengths, IATs, directions, ...) are such rings.          *)
(*                                                                         *)
(* A buffer is  [capacity, data, count, head, tail, is_full].  Slots are   *)
(* numbered from 0 as in C.  A buffer without storage (data == NULL) has   *)
(* capacity 0 and the empty function for data.  Junk stands for bytes no   *)
(* push has written: zeroes of a memset, or whatever a raw copy left there.*)
(***************************************************************************)
EXTENDS Integers, Sequences

CONSTANTS
  Value,   \* what a slot may hold
  Junk     \* the content of a slot that no push has written

ASSUME JunkIsNoValue == Junk \notin Value

Slots(capacity) == 0 .. capacity - 1

(* A buffer bound to fresh storage: circular_buffer_init after its malloc, *)
(* and INIT_RING_BUFFER over a region of the memory pool.                  *)
Fresh(capacity) ==
  [ capacity |-> capacity,
    data     |-> [i \in Slots(capacity) |-> Junk],
    count    |-> 0,
    head     |-> 0,
    tail     |-> 0,
    is_full  |-> FALSE ]

(* circular_buffer_destroy: every field is zeroed and data becomes NULL.   *)
Destroyed == Fresh(0)

HasStorage(cb) == cb.capacity > 0

(* Where element i (from 0, oldest first) lives.  A buffer that has never  *)
(* been full is read from slot 0, whatever its tail says.                  *)
SlotOf(cb, i) ==
  IF cb.is_full THEN (cb.tail + i) % cb.capacity ELSE i

(* The sequence a reader sees: circular_buffer_get_array, or get for each  *)
(* index in turn.                                                          *)
Contents(cb) == [i \in 1 .. cb.count |-> cb.data[SlotOf(cb, i - 1)]]

(* The mutant of Push that forgets to move tail when the buffer is full.   *)
PushKeepingTail(cb, v) ==
  LET count == IF cb.is_full THEN cb.count ELSE cb.count + 1
  IN  [ capacity |-> cb.capacity,
        data     |-> [cb.data EXCEPT ![cb.head] = v],
        count    |-> count,
        head     |-> (cb.head + 1) % cb.capacity,
        tail     |-> cb.tail,
        is_full  |-> cb.is_full \/ count = cb.capacity ]

(* circular_buffer_push on a buffer it accepts.  The new element goes to   *)
(* head; a full buffer drops its oldest element by moving tail, any other  *)
(* grows by one.                                                           *)
Pushed(cb, v) ==
  LET count == IF cb.is_full THEN cb.count ELSE cb.count + 1
  IN  [ capacity |-> cb.capacity,
        data     |-> [cb.data EXCEPT ![cb.head] = v],
        count    |-> count,
        head     |-> (cb.head + 1) % cb.capacity,
        tail     |-> IF cb.is_full THEN (cb.tail + 1) % cb.capacity ELSE cb.tail,
        is_full  |-> cb.is_full \/ count = cb.capacity ]

(* circular_buffer_push with its early returns.                            *)
Push(cb, v) ==
  IF HasStorage(cb) /\ cb.count <= cb.capacity THEN Pushed(cb, v) ELSE cb

(* circular_buffer_clear: the cursors are reset, the bytes stay.           *)
Clear(cb) ==
  [ capacity |-> cb.capacity,
    data     |-> cb.data,
    count    |-> 0,
    head     |-> 0,
    tail     |-> 0,
    is_full  |-> FALSE ]

(* The mutant of Rebind that leaves head where the old buffer had it.      *)
RebindKeepingHead(cb, capacity, snapshot) ==
  LET kept == IF Len(snapshot) < capacity THEN Len(snapshot) ELSE capacity
  IN  [ capacity |-> capacity,
        data     |-> [i \in Slots(capacity) |->
                        IF i < kept THEN snapshot[i + 1] ELSE Junk],
        count    |-> kept,
        head     |-> cb.head,
        tail     |-> 0,
        is_full  |-> kept = capacity ]

(* ring_buffer_rebind_from_snapshot: the buffer moves to a new region of   *)
(* `capacity' slots and takes over the linearised snapshot, from slot 0.   *)
(* An empty snapshot is a ring that was empty, or one whose copy could not *)
(* be allocated: then the history is gone.                                 *)
Rebind(cb, capacity, snapshot) ==
  LET kept == IF Len(snapshot) < capacity THEN Len(snapshot) ELSE capacity
  IN  [ capacity |-> capacity,
        data     |-> [i \in Slots(capacity) |->
                        IF i < kept THEN snapshot[i + 1] ELSE Junk],
        count    |-> kept,
        head     |-> kept % capacity,
        tail     |-> 0,
        is_full  |-> kept = capacity ]

(* ring_buffer_snapshot_capture: the contents, or nothing when the malloc  *)
(* in circular_buffer_get_array fails.                                     *)
Snapshot(cb, allocated) == IF allocated THEN Contents(cb) ELSE << >>
-----------------------------------------------------------------------------
(* The shape of a buffer.                                                  *)
IsBuffer(cb) ==
  /\ cb = [ capacity |-> cb.capacity, data |-> cb.data, count |-> cb.count,
            head |-> cb.head, tail |-> cb.tail, is_full |-> cb.is_full ]
  /\ cb.capacity \in Nat
  /\ cb.data \in [Slots(cb.capacity) -> Value \cup {Junk}]
  /\ cb.count \in 0 .. cb.capacity
  /\ cb.head \in Nat
  /\ cb.tail \in Nat
  /\ cb.is_full \in BOOLEAN

(* What push, get and rebind rely on.  The writer stands one slot past the *)
(* newest element; a full buffer is one whose writer has caught up with    *)
(* its oldest element; before that reading from slot 0 is right because    *)
(* tail has never moved.                                                   *)
WellFormed(cb) ==
  /\ IsBuffer(cb)
  /\ HasStorage(cb) => /\ cb.head < cb.capacity
                       /\ cb.tail < cb.capacity
                       /\ cb.is_full <=> cb.count = cb.capacity
                       /\ cb.is_full => cb.head = cb.tail
                       /\ ~cb.is_full => cb.head = cb.count /\ cb.tail = 0
  /\ ~HasStorage(cb) => cb.head = 0 /\ cb.tail = 0 /\ ~cb.is_full
  /\ \A i \in 1 .. cb.count : Contents(cb)[i] \in Value
=============================================================================

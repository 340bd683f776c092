---------------------------- MODULE SequenceRing ----------------------------
(***************************************************************************)
(* One sequence buffer through its life: created, pushed to, moved to a    *)
(* larger region, cleared, destroyed.  It implements NewestWindow.         *)
(***************************************************************************)
EXTENDS CircularBuffer

CONSTANT Capacities   \* the capacities a buffer may be given

ASSUME CapacitiesArePositive == Capacities \subseteq Nat \ {0}

VARIABLE cb

Init == cb = Destroyed

(* circular_buffer_init: a failed malloc leaves the buffer without storage.*)
Create(capacity) ==
  /\ ~HasStorage(cb)
  /\ \E allocated \in BOOLEAN :
       cb' = IF allocated THEN Fresh(capacity) ELSE Destroyed

PushValue(v) == cb' = Push(cb, v)

(* One ring's part of an upgrade of its flow: capture, then rebind in the  *)
(* new block.  The capacity only grows.                                    *)
Move(capacity) ==
  /\ HasStorage(cb)
  /\ capacity > cb.capacity
  /\ \E allocated \in BOOLEAN :
       cb' = Rebind(cb, capacity, Snapshot(cb, allocated))

ClearAll == cb' = Clear(cb)

Destroy == cb' = Destroyed

Next ==
  \/ \E capacity \in Capacities : Create(capacity) \/ Move(capacity)
  \/ \E v \in Value : PushValue(v)
  \/ ClearAll
  \/ Destroy

Spec == Init /\ [][Next]_cb
-----------------------------------------------------------------------------
(* Type correctness, with the relations between the cursors on which       *)
(* circular_buffer_push and circular_buffer_get rest: after any sequence   *)
(* of pushes, moves and clears the writer is one past the newest element,  *)
(* is_full says exactly count = capacity, and no reader is shown a slot    *)
(* that no push wrote.                                                     *)
RingWellFormed == WellFormed(cb)

(* The refinement mapping: readers see the contents, and nothing else.     *)
Abstract == INSTANCE NewestWindow
              WITH window <- Contents(cb), bound <- cb.capacity,
                   Bounds <- Capacities

(* The buffer implements the window: a push on a full ring drops exactly   *)
(* the oldest element, a move to a larger region keeps the whole sequence  *)
(* in order (also when the ring had wrapped) or loses all of it.           *)
KeepsNewest == Abstract!WSpec
=============================================================================

------------------------- MODULE SequenceRingProofs -------------------------
(***************************************************************************)
(* The sequence buffer stays well formed and implements NewestWindow, for  *)
(* every element type and every set of capacities.                         *)
(***************************************************************************)
EXTENDS SequenceRing, UtilsProofs

(* Moving a well-formed buffer to a larger region.                         *)
LEMMA MoveRefines ==
  ASSUME RingWellFormed, NEW n \in Capacities, Move(n)
  PROVE  /\ RingWellFormed'
         /\ (cb').capacity = n
         /\ Contents(cb') \in {Contents(cb), << >>}
<1>1. PICK allocated \in BOOLEAN : cb' = Rebind(cb, n, Snapshot(cb, allocated))
  BY DEF Move
<1>2. /\ n \in Nat \ {0} /\ cb.capacity \in Nat /\ cb.count \in Nat
      /\ cb.capacity < n /\ cb.count <= cb.capacity
  BY CapacitiesArePositive DEF Move, RingWellFormed, WellFormed, IsBuffer
<1> DEFINE s == Snapshot(cb, allocated)
<1>3. /\ s \in Seq(Value)
      /\ Len(s) <= n
      /\ s \in {Contents(cb), << >>}
  <2>1. Contents(cb) \in Seq(Value) /\ Len(Contents(cb)) = cb.count
    BY ContentsType DEF RingWellFormed
  <2>2. << >> \in Seq(Value) /\ Len(<< >>) = 0
    OBVIOUS
  <2>3. CASE allocated
    <3>1. s = Contents(cb)
      BY <2>3 DEF Snapshot
    <3> HIDE DEF s
    <3> QED
      BY <1>2, <2>1, <3>1
  <2>4. CASE ~allocated
    <3>1. s = << >>
      BY <2>4 DEF Snapshot
    <3> HIDE DEF s
    <3> QED
      BY <1>2, <2>2, <3>1
  <2> QED
    BY <2>3, <2>4
<1> HIDE DEF s
<1>4. cb' = Rebind(cb, n, s)
  BY <1>1 DEF s
<1>5. WellFormed(cb') /\ Contents(cb') = s /\ (cb').capacity = n
  BY <1>2, <1>3, <1>4, RebindIsWellFormed
<1> QED
  BY <1>3, <1>5 DEF RingWellFormed

(* The cursors keep their relations through every operation.               *)
THEOREM RingStaysWellFormed == Spec => []RingWellFormed
<1>1. Init => RingWellFormed
  BY FreshIsWellFormed DEF Init, Destroyed, RingWellFormed
<1>2. RingWellFormed /\ [Next]_cb => RingWellFormed'
  <2> SUFFICES ASSUME RingWellFormed, [Next]_cb
               PROVE  RingWellFormed'
    OBVIOUS
  <2>1. ASSUME NEW n \in Capacities, Create(n)
        PROVE  RingWellFormed'
    BY <2>1, CapacitiesArePositive, FreshIsWellFormed
    DEF Create, Destroyed, RingWellFormed
  <2>2. ASSUME NEW n \in Capacities, Move(n)
        PROVE  RingWellFormed'
    BY <2>2, MoveRefines
  <2>3. ASSUME NEW v \in Value, PushValue(v)
        PROVE  RingWellFormed'
    BY <2>3, PushIsWellFormed DEF PushValue, RingWellFormed
  <2>4. CASE ClearAll
    BY <2>4, ClearIsWellFormed DEF ClearAll, RingWellFormed
  <2>5. CASE Destroy
    BY <2>5, FreshIsWellFormed DEF Destroy, Destroyed, RingWellFormed
  <2>6. CASE UNCHANGED cb
    BY <2>6 DEF RingWellFormed
  <2> QED
    BY <2>1, <2>2, <2>3, <2>4, <2>5, <2>6 DEF Next
<1> QED
  BY <1>1, <1>2, PTL DEF Spec

(* The ring implements the window of the newest elements: every step of    *)
(* the buffer is a step of NewestWindow, or changes nothing a reader sees. *)
THEOREM RingImplementsWindow == Spec => KeepsNewest
<1>1. Init => Abstract!WInit
  <2> SUFFICES ASSUME Init PROVE Abstract!WInit
    OBVIOUS
  <2>1. cb = Fresh(0)
    BY DEF Init, Destroyed
  <2>2. Contents(cb) = << >>
    BY <2>1, FreshIsWellFormed
  <2>3. cb.capacity = 0
    BY <2>1 DEF Fresh
  <2> QED
    BY <2>2, <2>3 DEF Abstract!WInit
<1>2. RingWellFormed /\ [Next]_cb => [Abstract!WNext]_(Abstract!windowVars)
  <2> SUFFICES ASSUME RingWellFormed, [Next]_cb
               PROVE  Abstract!WNext \/ UNCHANGED Abstract!windowVars
    BY DEF Abstract!windowVars
  <2>1. ASSUME NEW n \in Capacities, Create(n)
        PROVE  Abstract!WNext \/ UNCHANGED Abstract!windowVars
    <3>1. cb.capacity = 0
      BY <2>1 DEF Create, HasStorage, RingWellFormed, WellFormed, IsBuffer
    <3>2. CASE cb' = Fresh(n)
      <4>1. Contents(cb') = << >> /\ (cb').capacity = n
        BY <3>2, CapacitiesArePositive, FreshIsWellFormed DEF Fresh
      <4> QED
        BY <3>1, <4>1 DEF Abstract!WNext, Abstract!WOpen
    <3>3. CASE cb' = Destroyed
      <4>1. Contents(cb') = << >> /\ (cb').capacity = 0
        BY <3>3, FreshIsWellFormed DEF Destroyed, Fresh
      <4> QED
        BY <4>1 DEF Abstract!WNext, Abstract!WClose
    <3> QED
      BY <2>1, <3>2, <3>3 DEF Create
  <2>2. ASSUME NEW n \in Capacities, Move(n)
        PROVE  Abstract!WNext \/ UNCHANGED Abstract!windowVars
    <3>1. /\ (cb').capacity = n
          /\ Contents(cb') = Contents(cb) \/ Contents(cb') = << >>
      BY <2>2, MoveRefines
    <3>2. n > cb.capacity /\ cb.capacity > 0
      BY <2>2 DEF Move, HasStorage
    <3> QED
      BY <3>1, <3>2 DEF Abstract!WNext, Abstract!WWiden
  <2>3. ASSUME NEW v \in Value, PushValue(v)
        PROVE  Abstract!WNext \/ UNCHANGED Abstract!windowVars
    <3>1. CASE ~HasStorage(cb)
      BY <2>3, <3>1 DEF PushValue, Push, Abstract!windowVars
    <3>2. CASE HasStorage(cb)
      <4>1. /\ (cb').capacity = cb.capacity
            /\ Contents(cb') =
                 IF Len(Contents(cb)) = cb.capacity
                   THEN Append(Tail(Contents(cb)), v)
                   ELSE Append(Contents(cb), v)
        BY <2>3, <3>2, PushIsWellFormed, PushContents DEF PushValue, RingWellFormed
      <4> QED
        BY <3>2, <4>1 DEF Abstract!WNext, Abstract!WAppend, HasStorage
    <3> QED
      BY <3>1, <3>2
  <2>4. CASE ClearAll
    <3>1. Contents(cb') = << >> /\ (cb').capacity = cb.capacity
      BY <2>4, ClearIsWellFormed DEF ClearAll, RingWellFormed
    <3> QED
      BY <3>1 DEF Abstract!WNext, Abstract!WReset
  <2>5. CASE Destroy
    <3>1. Contents(cb') = << >> /\ (cb').capacity = 0
      BY <2>5, FreshIsWellFormed DEF Destroy, Destroyed, Fresh
    <3> QED
      BY <3>1 DEF Abstract!WNext, Abstract!WClose
  <2>6. CASE UNCHANGED cb
    BY <2>6 DEF Abstract!windowVars
  <2> QED
    BY <2>1, <2>2, <2>3, <2>4, <2>5, <2>6 DEF Next
<1> QED
  BY <1>1, <1>2, RingStaysWellFormed, PTL
  DEF Spec, KeepsNewest, Abstract!WSpec
=============================================================================

-------------------------- MODULE FlowMetersProofs --------------------------
(***************************************************************************)
(* Proofs about FlowMeters, for every size and number of windows, every    *)
(* threshold and every flow: what it keeps stays well formed, active and   *)
(* idle time add up to the flow's; the windows count the packets that      *)
(* arrived in their time, the recorded bursts are the runs of the flow,    *)
(* every response delay is that of an answer to its request, and the gaps  *)
(* of a direction are those of its packets.  Last, what the reports of     *)
(* these parts say at the end of a flow agrees with what was kept and with *)
(* the flow.                                                               *)
(***************************************************************************)
EXTENDS DerivedMeters, UtilsProofs

(* Arithmetic of the widths: what a cast to unsigned int returns.          *)
LEMMA CastInRange == ASSUME NEW x \in Int PROVE x % (UIntMax + 1) \in 0 .. UIntMax
BY PoolSizes, SMT

LEMMA RateOfNothing ==
  ASSUME cfg.window_size_us \in Nat \ {0} PROVE Rate(0) = 0
<1>1. 0 * 8 * Second = 0
  BY SecondIsNat, SMT
<1>2. 0 \div cfg.window_size_us = 0
  BY SMT
<1>3. 0 % (UIntMax + 1) = 0
  BY PoolSizes, SMT
<1> QED BY <1>1, <1>2, <1>3, Zenon DEF Rate

(* What the loop of calc_window_update leaves: the windows not reached are *)
(* empty, and so a window is when its bitrate is computed, on reaching it. *)
MeasuredEmpty ==
  \A w \in Window :
    /\ w >= current_window => window_pkt_counts[w] = 0 /\ window_byte_counts[w] = 0
    /\ window_bitrate[w] = 0

(* Types and, beside what MeasuredEmpty says, that a flow without a first  *)
(* packet is still in its first window: that packet starts the loop there. *)
WindowInv ==
  /\ cfg \in Configuration
  /\ WindowsWellFormed
  /\ MeasuredEmpty
  /\ window_start_us = 0 => current_window = 0

LEMMA WindowInvInit == Init => WindowInv
<1> SUFFICES ASSUME Init PROVE WindowInv
  OBVIOUS
<1>1. cfg \in Configuration
  BY StreamConstants DEF Init, StreamInit
<1>2. 0 \in 0 .. UIntMax /\ 0 \in 0 .. NumWindows /\ 0 \in 0 .. LLongSpan - 1
  BY PoolSizes, StreamConstants, SMT
<1>3. WindowsWellFormed
  BY <1>2 DEF Init, WindowInit, WindowsWellFormed
<1>4. MeasuredEmpty
  BY DEF Init, WindowInit, MeasuredEmpty
<1> QED BY <1>1, <1>3, <1>4 DEF WindowInv, Init, WindowInit

LEMMA TargetIsNat ==
  ASSUME NEW start \in Int, NEW ts \in Int, cfg.window_size_us \in Nat \ {0}
  PROVE  Target(start, ts) \in Nat
<1> DEFINE d == Since(ts, start)
<1>1. d \in Nat
  BY StreamConstants, SMT DEF Since
<1> HIDE DEF d
<1>2. d \div cfg.window_size_us \in Int
  BY <1>1, SMT
<1>3. (d \div cfg.window_size_us) % (UIntMax + 1) \in 0 .. UIntMax
  BY <1>2, CastInRange
<1>4. Target(start, ts) = (d \div cfg.window_size_us) % (UIntMax + 1)
  BY Zenon DEF Target, d
<1> QED BY <1>3, <1>4, PoolSizes, SMT

LEMMA UpdateKeepsWindows ==
  ASSUME NEW p \in Packets, WindowInv, WindowsOn, WindowUpdate(p), UNCHANGED cfg
  PROVE  WindowInv'
<1> DEFINE start == IF window_start_us = 0 THEN p.ts ELSE window_start_us
           now == IF window_start_us = 0 THEN 0 ELSE current_window
           target == Target(start, p.ts)
<1>t. /\ cfg.window_size_us \in Nat \ {0}
      /\ window_start_us \in 0 .. LLongSpan - 1
      /\ current_window \in 0 .. NumWindows
      /\ window_pkt_counts \in [Window -> 0 .. UIntMax]
      /\ window_byte_counts \in [Window -> 0 .. UIntMax]
      /\ window_bitrate \in [Window -> 0 .. UIntMax]
  <2>1. cfg.window_size_us \in Nat /\ cfg.window_size_us > 0
    BY DEF WindowInv, Configuration, WindowsOn
  <2> QED BY <2>1 DEF WindowInv, WindowsWellFormed
<1>b. \A w \in Window : /\ w >= current_window =>
                             window_pkt_counts[w] = 0 /\ window_byte_counts[w] = 0
                        /\ window_bitrate[w] = 0
  BY Zenon DEF WindowInv, MeasuredEmpty
<1>1. /\ start \in 0 .. LLongSpan - 1 /\ start \in Int /\ start # 0
      /\ p.ts \in Int /\ p.len \in Int
  <2>1. p.ts \in 1 .. LLongSpan - 1 /\ p.len \in 0 .. UIntMax
    BY StreamConstants DEF Packet
  <2> QED BY <2>1, <1>t, StreamConstants, PoolSizes, SMT
<1>2. now = current_window
  BY Zenon DEF WindowInv
<1>3. target \in Nat
  BY <1>1, <1>t, TargetIsNat
<1>4. /\ window_start_us' = start
      /\ window_bitrate' = [w \in Window |-> IF w \in Measured(now, target)
                                               THEN Rate(window_byte_counts[w])
                                               ELSE window_bitrate[w]]
      /\ current_window' = Advanced(now, target)
      /\ IF target < NumWindows
           THEN /\ window_pkt_counts' = Added(window_pkt_counts, target, 1)
                /\ window_byte_counts' = Added(window_byte_counts, target, p.len)
           ELSE UNCHANGED << window_pkt_counts, window_byte_counts >>
  BY Zenon DEF WindowUpdate
<1> HIDE DEF start, now, target
<1>5. \A w \in Window : window_bitrate'[w] = 0
  <2> TAKE w \in Window
  <2>1. CASE w \in Measured(now, target)
    <3>1. w >= current_window
      BY <2>1, <1>2 DEF Measured
    <3>2. window_byte_counts[w] = 0
      BY <3>1, <1>b
    <3>3. Rate(window_byte_counts[w]) = 0
      BY <3>2, <1>t, RateOfNothing
    <3> QED BY <1>4, <2>1, <3>3, Zenon
  <2>2. CASE w \notin Measured(now, target)
    BY <1>4, <1>b, <2>2, Zenon
  <2> QED BY <2>1, <2>2
<1>6. /\ current_window' \in 0 .. NumWindows
      /\ \A w \in Window : w >= current_window' => w >= current_window /\ w # target
  <2>1. current_window' = Advanced(current_window, target)
    BY <1>2, <1>4, Zenon
  <2>2. current_window \in 0 .. NumWindows
    BY <1>t
  <2> QED BY <2>1, <2>2, <1>3, PoolSizes, SMT DEF Advanced, Window
<1>7. ASSUME NEW counts \in [Window -> 0 .. UIntMax], NEW amount \in Int
      PROVE  /\ Added(counts, target, amount) \in [Window -> 0 .. UIntMax]
             /\ \A w \in Window : w # target => Added(counts, target, amount)[w] = counts[w]
  <2>1. \A w \in Window : (counts[w] + amount) % (UIntMax + 1) \in 0 .. UIntMax
    <3> TAKE w \in Window
    <3>1. counts[w] + amount \in Int
      BY <1>7, PoolSizes, SMT
    <3> QED BY <3>1, CastInRange
  <2> DEFINE sum == (counts[target] + amount) % (UIntMax + 1)
  <2>2. target \in Window => sum \in 0 .. UIntMax
    BY <2>1
  <2>3. Added(counts, target, amount) = [counts EXCEPT ![target] = sum]
    BY Zenon DEF Added
  <2> HIDE DEF sum
  <2>4. CASE target \in Window
    BY <2>2, <2>3, <2>4, <1>7, Zenon
  <2>5. CASE target \notin Window
    BY <2>3, <2>5, <1>7, Zenon
  <2> QED BY <2>4, <2>5
<1>8. /\ window_pkt_counts' \in [Window -> 0 .. UIntMax]
      /\ window_byte_counts' \in [Window -> 0 .. UIntMax]
      /\ \A w \in Window : w # target => /\ window_pkt_counts'[w] = window_pkt_counts[w]
                                         /\ window_byte_counts'[w] = window_byte_counts[w]
  <2>1. 1 \in Int /\ p.len \in Int
    BY <1>1, SMT
  <2>2. CASE target < NumWindows
    <3>1. /\ window_pkt_counts' = Added(window_pkt_counts, target, 1)
          /\ window_byte_counts' = Added(window_byte_counts, target, p.len)
      BY <2>2, <1>4, Zenon
    <3>2. /\ Added(window_pkt_counts, target, 1) \in [Window -> 0 .. UIntMax]
          /\ \A w \in Window : w # target =>
               Added(window_pkt_counts, target, 1)[w] = window_pkt_counts[w]
      BY <2>1, <1>t, <1>7
    <3>3. /\ Added(window_byte_counts, target, p.len) \in [Window -> 0 .. UIntMax]
          /\ \A w \in Window : w # target =>
               Added(window_byte_counts, target, p.len)[w] = window_byte_counts[w]
      BY <2>1, <1>t, <1>7
    <3> QED BY <3>1, <3>2, <3>3, Zenon
  <2>3. CASE ~(target < NumWindows)
    BY <2>3, <1>4, <1>t, Zenon
  <2> QED BY <2>2, <2>3
<1>9. window_bitrate' \in [Window -> 0 .. UIntMax]
  <2>1. 0 \in 0 .. UIntMax
    BY PoolSizes, SMT
  <2>2. window_bitrate' = [w \in Window |-> window_bitrate'[w]]
    BY <1>4, Zenon
  <2> QED BY <2>1, <2>2, <1>5, Zenon
<1>10. MeasuredEmpty'
  BY <1>b, <1>5, <1>6, <1>8, Zenon DEF MeasuredEmpty, Window
<1>11. WindowsWellFormed'
  BY <1>1, <1>4, <1>6, <1>8, <1>9, Zenon DEF WindowsWellFormed, Window
<1>12. (window_start_us = 0 => current_window = 0)'
  BY <1>1, <1>4, Zenon
<1> QED BY <1>10, <1>11, <1>12 DEF WindowInv, WindowsOn

LEMMA WindowInvStep == WindowInv /\ [Next]_vars => WindowInv'
<1> SUFFICES ASSUME WindowInv, [Next]_vars PROVE WindowInv'
  OBVIOUS
<1>1. ASSUME UNCHANGED << cfg, windowVars >> PROVE WindowInv'
  BY <1>1, Zenon DEF windowVars, WindowInv, WindowsWellFormed, MeasuredEmpty, Window
<1>2. ASSUME NEW p \in Packets, NEW allocated \in BOOLEAN, Data(p, allocated)
      PROVE  WindowInv'
  <2>1. WindowPacket(p) /\ UNCHANGED cfg
    BY <1>2 DEF Data
  <2>2. CASE WindowsOn
    BY <2>1, <2>2, UpdateKeepsWindows DEF WindowPacket
  <2>3. CASE ~WindowsOn
    BY <2>1, <2>3, <1>1 DEF WindowPacket
  <2> QED BY <2>2, <2>3
<1>3. ASSUME UNCHANGED vars PROVE WindowInv'
  BY <1>1, <1>3 DEF vars, streamVars
<1> QED BY <1>2, <1>3 DEF Next

(* The counters of calc_window_update keep their types, and current_window *)
(* never goes beyond one past the last window.                             *)
THEOREM WindowsStayWellFormed == Spec => []WindowsWellFormed
<1>1. WindowInv => WindowsWellFormed
  BY DEF WindowInv
<1> QED BY WindowInvInit, WindowInvStep, <1>1, PTL DEF Spec

(* The extent of the fault BitratesAreMeasured shows: the bitrate is not   *)
(* missed in some flows but in all.                                        *)
THEOREM BitratesAreNeverMeasured == Spec => [](\A w \in Window : window_bitrate[w] = 0)
<1>1. WindowInv => \A w \in Window : window_bitrate[w] = 0
  BY DEF WindowInv, MeasuredEmpty
<1> QED BY WindowInvInit, WindowInvStep, <1>1, PTL DEF Spec
-----------------------------------------------------------------------------
(* A flow of fewer than 2^32 packets wraps no counter, so that its first   *)
(* window, the one its first packet opens, is never without packets.       *)
FirstWindowInv ==
  /\ WindowInv
  /\ Len(arrivals) \in Nat /\ arrivals \in Seq(Packet)
  /\ \A w \in Window : window_pkt_counts[w] <= Len(arrivals)
  /\ window_start_us = 0 => \A w \in Window : window_pkt_counts[w] = 0
  /\ window_start_us # 0 => \A w \in Window : w = 0 => window_pkt_counts[w] > 0

LEMMA FirstWindowInit == Init => FirstWindowInv
<1> SUFFICES ASSUME Init PROVE FirstWindowInv
  OBVIOUS
<1>1. WindowInv
  BY WindowInvInit
<1>2. /\ arrivals = << >> /\ window_start_us = 0
      /\ window_pkt_counts = [w \in Window |-> 0]
  BY DEF Init, StreamInit, WindowInit
<1> QED BY <1>1, <1>2 DEF FirstWindowInv

LEMMA FirstWindowStep ==
  ASSUME MaxPackets <= UIntMax
  PROVE  FirstWindowInv /\ [Next]_vars => FirstWindowInv'
<1> SUFFICES ASSUME FirstWindowInv, [Next]_vars PROVE FirstWindowInv'
  OBVIOUS
<1>0. WindowInv'
  BY WindowInvStep DEF FirstWindowInv
<1>1. CASE UNCHANGED vars
  BY <1>0, <1>1, Zenon DEF vars, streamVars, windowVars, FirstWindowInv
<1>2. ASSUME NEW p \in Packets, NEW allocated \in BOOLEAN, Data(p, allocated)
      PROVE  FirstWindowInv'
  <2>1. /\ arrivals' = Append(arrivals, p) /\ WindowPacket(p)
        /\ Len(arrivals) < MaxPackets
    BY <1>2 DEF Data
  <2>2. p \in Packet /\ p.ts \in Int /\ p.ts # 0
    BY StreamConstants DEF Packet
  <2>3. /\ Len(arrivals) \in Nat /\ Len(arrivals') \in Nat /\ arrivals' \in Seq(Packet)
        /\ Len(arrivals') = Len(arrivals) + 1 /\ Len(arrivals) + 1 <= UIntMax
    BY <2>1, <2>2, StreamConstants, PoolSizes DEF FirstWindowInv
  <2>4. /\ window_pkt_counts \in [Window -> 0 .. UIntMax]
        /\ \A w \in Window : window_pkt_counts[w] \in Nat /\ window_pkt_counts[w] <= Len(arrivals)
    BY PoolSizes DEF FirstWindowInv, WindowInv, WindowsWellFormed
  <2>5. CASE ~WindowsOn
    <3>1. UNCHANGED windowVars
      BY <2>1, <2>5 DEF WindowPacket
    <3>2. window_pkt_counts' = window_pkt_counts /\ window_start_us' = window_start_us
      BY <3>1 DEF windowVars
    <3>3. \A w \in Window : window_pkt_counts'[w] <= Len(arrivals')
      <4>1. \A w \in Window : window_pkt_counts[w] <= Len(arrivals) + 1
        BY <2>3, <2>4
      <4> QED BY <2>3, <3>2, <4>1, Zenon
    <3> QED BY <1>0, <2>3, <3>2, <3>3, Zenon DEF FirstWindowInv, Window
  <2>6. CASE WindowsOn
    <3> DEFINE start  == IF window_start_us = 0 THEN p.ts ELSE window_start_us
               target == Target(start, p.ts)
    <3>1. /\ window_start_us' = start
          /\ IF target < NumWindows
               THEN window_pkt_counts' = Added(window_pkt_counts, target, 1)
               ELSE window_pkt_counts' = window_pkt_counts
      BY <2>1, <2>6, Zenon DEF WindowPacket, WindowUpdate
    <3>2. start # 0
      BY <2>2
    <3>3. window_start_us = 0 => target = 0
      <4> SUFFICES ASSUME window_start_us = 0 PROVE target = 0
        OBVIOUS
      <4>1. Since(p.ts, p.ts) = 0
        BY <2>2, StreamConstants, SMT DEF Since
      <4>2. cfg.window_size_us \in Nat \ {0}
        BY <2>6 DEF FirstWindowInv, WindowInv, Configuration, WindowsOn
      <4>3. (0 \div cfg.window_size_us) % (UIntMax + 1) = 0
        BY <4>2, PoolSizes, SMT
      <4> QED BY <4>1, <4>3, Zenon DEF Target
    <3> HIDE DEF target, start
    <3>4. \A w \in Window :
            /\ window_pkt_counts'[w] <= Len(arrivals) + 1
            /\ window_pkt_counts[w] <= window_pkt_counts'[w]
            /\ w = target => window_pkt_counts'[w] > 0
      <4> TAKE w \in Window
      <4> DEFINE c == window_pkt_counts[w]
      <4>1. c \in Nat /\ c <= Len(arrivals) /\ c + 1 \in 0 .. UIntMax
        BY <2>3, <2>4, PoolSizes
      <4>2. (c + 1) % (UIntMax + 1) = c + 1
        <5> HIDE DEF c
        <5> QED BY <4>1, PoolSizes, SMT
      <4>3. CASE w # target \/ ~(target < NumWindows)
        <5>1. window_pkt_counts'[w] = c
          BY <2>4, <3>1, <4>3 DEF Added
        <5>2. ~(target < NumWindows) => w # target
          BY PoolSizes DEF Window
        <5> QED BY <2>3, <4>1, <4>3, <5>1, <5>2
      <4>4. CASE w = target /\ target < NumWindows
        <5>1. window_pkt_counts' = [window_pkt_counts EXCEPT ![w] = (c + 1) % (UIntMax + 1)]
          BY <3>1, <4>4, Zenon DEF Added
        <5>2. window_pkt_counts'[w] = c + 1
          BY <2>4, <4>2, <5>1, Zenon
        <5> QED BY <2>3, <4>1, <5>2
      <4> QED BY <4>3, <4>4
    <3>5. \A w \in Window : w = 0 => window_pkt_counts'[w] > 0
      <4> SUFFICES ASSUME NEW w \in Window, w = 0 PROVE window_pkt_counts'[w] > 0
        OBVIOUS
      <4>1. CASE window_start_us = 0
        BY <3>3, <3>4, <4>1, Zenon
      <4>2. CASE window_start_us # 0
        <5> DEFINE old == window_pkt_counts[w]
                   new == window_pkt_counts'[w]
        <5>1. old > 0 /\ old \in Nat
          BY <2>4, <4>2 DEF FirstWindowInv
        <5>2. new \in Nat
          <6>1. window_pkt_counts' \in [Window -> 0 .. UIntMax]
            BY <1>0, Zenon DEF WindowInv, WindowsWellFormed, Window
          <6> QED BY <6>1, PoolSizes
        <5>3. old <= new
          BY <3>4, Zenon
        <5> HIDE DEF old, new
        <5>4. new > 0
          BY <5>1, <5>2, <5>3
        <5> QED BY <5>4 DEF new
      <4> QED BY <4>1, <4>2
    <3> QED BY <1>0, <2>3, <3>1, <3>2, <3>4, <3>5, Zenon DEF FirstWindowInv, Window
  <2> QED BY <2>5, <2>6
<1> QED BY <1>1, <1>2 DEF Next

(* The first window is the least of the valid ones to look at.             *)
LEMMA FirstWindowReports == FirstWindowInv => MinIsOfAValidWindow
<1> SUFFICES ASSUME FirstWindowInv, ValidWindows # {}
             PROVE  /\ \E w \in ValidWindows :
                         ReportedMin(window_pkt_counts) = window_pkt_counts[w]
                    /\ \A w \in ValidWindows :
                         ReportedMin(window_pkt_counts) <= window_pkt_counts[w]
  BY Zenon DEF MinIsOfAValidWindow
<1> DEFINE counts == {window_pkt_counts[w] : w \in ValidWindows}
<1>1. \A w \in Window : window_pkt_counts[w] \in Nat
  BY PoolSizes DEF FirstWindowInv, WindowInv, WindowsWellFormed
<1>2. 0 \in ValidWindows
  <2>1. PICK w \in Window : window_pkt_counts[w] > 0
    BY DEF ValidWindows
  <2>2. 0 \in Window
    BY <2>1, PoolSizes DEF Window
  <2>3. window_start_us # 0
    BY <1>1, <2>1 DEF FirstWindowInv
  <2> QED BY <2>2, <2>3 DEF FirstWindowInv, ValidWindows
<1>3. {window_pkt_counts[0]} \cup counts = counts
  BY <1>2
<1>4. counts \in SUBSET Nat /\ counts # {}
  BY <1>1, <1>2 DEF ValidWindows
<1>5. ReportedMin(window_pkt_counts) = Min({window_pkt_counts[0]} \cup counts)
  BY Zenon DEF ReportedMin, ValidWindows
<1>6. \A w \in ValidWindows : window_pkt_counts[w] \in counts
  OBVIOUS
<1>7. \A c \in counts : \E w \in ValidWindows : c = window_pkt_counts[w]
  OBVIOUS
<1> HIDE DEF counts
<1>8. Min(counts) \in counts /\ \A c \in counts : Min(counts) <= c
  BY <1>4, MinOfNaturals
<1> QED BY <1>3, <1>5, <1>6, <1>7, <1>8, Zenon

(* window_packet_count_min starts from the first window's count without a  *)
(* look at whether that window is valid; in a flow of fewer than 2^32      *)
(* packets it is the smallest count of the valid windows all the same.     *)
THEOREM MinStaysOfAValidWindow ==
  ASSUME MaxPackets <= UIntMax
  PROVE  Spec => []MinIsOfAValidWindow
<1>1. FirstWindowInv /\ [Next]_vars => FirstWindowInv'
  BY FirstWindowStep
<1> QED BY FirstWindowInit, FirstWindowReports, <1>1, PTL DEF Spec
-----------------------------------------------------------------------------
(* The remainder is determined by its range.                               *)
LEMMA RestIsUnique ==
  ASSUME NEW m \in Nat \ {0}, NEW x \in Int, NEW q \in Int, NEW r \in Int,
         0 <= r, r < m, x = q * m + r
  PROVE  x % m = r
<1> DEFINE q2 == x \div m
           r2 == x % m
           d  == q - q2
<1>1. q2 \in Int /\ r2 \in Int /\ 0 <= r2 /\ r2 < m /\ x = q2 * m + r2
  BY SMT
<1> HIDE DEF q2, r2
<1>2. d \in Int /\ d * m = r2 - r
  BY <1>1, SMT
<1> HIDE DEF d
<1>3. ~(d >= 1)
  <2> SUFFICES ASSUME d >= 1 PROVE FALSE
    OBVIOUS
  <2>1. d * m >= m
    BY <1>2, SMT
  <2> QED BY <2>1, <1>1, <1>2, SMT
<1>4. ~(d <= -1)
  <2> SUFFICES ASSUME d <= -1 PROVE FALSE
    OBVIOUS
  <2>1. d * m <= -m
    BY <1>2, SMT
  <2> QED BY <2>1, <1>1, <1>2, SMT
<1>5. d = 0
  BY <1>2, <1>3, <1>4, SMT
<1>6. d * m = 0
  BY <1>5, SMT
<1> QED BY <1>1, <1>2, <1>6, SMT DEF r2

LEMMA RestOfSmall ==
  ASSUME NEW m \in Nat \ {0}, NEW r \in Int, 0 <= r, r < m
  PROVE  r % m = r
<1>1. 0 \in Int /\ r = 0 * m + r
  OBVIOUS
<1> QED BY <1>1, RestIsUnique, Zenon

(* Every number is its remainder up to a multiple.                         *)
LEMMA RestSplits ==
  ASSUME NEW m \in Nat \ {0}, NEW x \in Int
  PROVE  x % m \in 0 .. m - 1 /\ \E q \in Int : x = q * m + (x % m)
<1>1. x \div m \in Int /\ x = (x \div m) * m + (x % m) /\ x % m \in 0 .. m - 1
  BY SMT
<1> QED BY <1>1

(* Numbers a multiple apart have the same remainder.                       *)
LEMMA RestOfMultiple ==
  ASSUME NEW m \in Nat \ {0}, NEW x \in Int, NEW k \in Int
  PROVE  (x + k * m) % m = x % m
<1>1. PICK q \in Int : x = q * m + (x % m)
  BY RestSplits
<1>2. x % m \in 0 .. m - 1
  BY RestSplits
<1> DEFINE r == x % m
           y == x + k * m
<1>3. r \in Int /\ 0 <= r /\ r < m
  BY <1>2, SMT
<1>4. y \in Int /\ q + k \in Int /\ x = q * m + r
  BY <1>1, SMT
<1> HIDE DEF r
<1>5. y = (q + k) * m + r
  BY <1>3, <1>4, SMT
<1> HIDE DEF y
<1>6. y % m = r
  BY <1>3, <1>4, <1>5, RestIsUnique
<1> QED BY <1>6 DEF r, y

(* x and r differ by a multiple of m.                                      *)
Congruent(x, r, m) == \E q \in Int : x = q * m + r

LEMMA RestIsCongruent ==
  ASSUME NEW m \in Nat \ {0}, NEW x \in Int
  PROVE  x % m \in Int /\ Congruent(x, x % m, m)
<1>1. \A r \in 0 .. m - 1 : r \in Int
  OBVIOUS
<1> QED BY <1>1, RestSplits, Zenon DEF Congruent

(* What GapsCancel and GapAdds say, with a name that keeps a citation to   *)
(* the values it is about.                                                 *)
Cancels(m, a, b, c, d, r, i, s) ==
  Congruent(c, r, m) /\ Congruent(a + b, r, m) /\ Congruent(d, i, m) /\ Congruent(a + i, s, m)
    => (s + b) % m = (c + d) % m

AddsGap(m, a, b, c, d) ==
  (a + b) % m = c % m => (((a + (d % m)) % m) + b) % m = (c + d) % m

(* The multiples cancel.                                                   *)
LEMMA GapsCancel ==
  ASSUME NEW m \in Nat \ {0}, NEW a \in Int, NEW b \in Int,
         NEW c \in Int, NEW d \in Int,
         NEW r \in Int, NEW i \in Int, NEW s \in Int
  PROVE  Cancels(m, a, b, c, d, r, i, s)
<1> SUFFICES ASSUME Congruent(c, r, m), Congruent(a + b, r, m),
                    Congruent(d, i, m), Congruent(a + i, s, m)
             PROVE  (s + b) % m = (c + d) % m
  BY Zenon DEF Cancels
<1>1. PICK q1 \in Int : c = q1 * m + r
  BY DEF Congruent
<1>2. PICK q2 \in Int : a + b = q2 * m + r
  BY DEF Congruent
<1>3. PICK q3 \in Int : d = q3 * m + i
  BY DEF Congruent
<1>4. PICK q4 \in Int : a + i = q4 * m + s
  BY DEF Congruent
<1> DEFINE m1 == q1 * m
           m2 == q2 * m
           m3 == q3 * m
           m4 == q4 * m
           k  == q2 - q4 - q1 - q3
           n  == k * m
           e  == c + d
<1>5. m1 \in Int /\ m2 \in Int /\ m3 \in Int /\ m4 \in Int /\ k \in Int /\ e \in Int
  OBVIOUS
<1>6. n = m2 - m4 - m1 - m3
  BY SMT
<1>7. e = c + d /\ c = m1 + r /\ a + b = m2 + r /\ d = m3 + i /\ a + i = m4 + s
  BY <1>1, <1>2, <1>3, <1>4
<1> HIDE DEF m1, m2, m3, m4, n, e
<1>8. s + b = e + n
  BY <1>5, <1>6, <1>7, SMT
<1> HIDE DEF k
<1>9. (e + k * m) % m = e % m
  BY <1>5, RestOfMultiple, Zenon
<1>10. (e + n) % m = e % m
  BY <1>9 DEF n
<1> QED BY <1>8, <1>10, Zenon DEF e

(* One gap more: if a + b is the time c, up to a multiple, then with the   *)
(* gap d added to a it is the time c + d.                                  *)
LEMMA GapAdds ==
  ASSUME NEW m \in Nat \ {0}, NEW a \in Int, NEW b \in Int,
         NEW c \in Int, NEW d \in Int
  PROVE  AddsGap(m, a, b, c, d)
<1> SUFFICES ASSUME (a + b) % m = c % m
             PROVE  (((a + (d % m)) % m) + b) % m = (c + d) % m
  BY Zenon DEF AddsGap
<1> DEFINE i  == d % m
           ab == a + b
           ai == a + i
           r  == c % m
           s  == ai % m
<1>1. ab \in Int
  OBVIOUS
<1>2. i \in Int /\ Congruent(d, i, m)
  BY RestIsCongruent, Zenon
<1>3. r \in Int /\ Congruent(c, r, m)
  BY RestIsCongruent, Zenon
<1>4. ai \in Int
  <2> HIDE DEF i
  <2> QED BY <1>2
<1>5. s \in Int /\ Congruent(ai, s, m)
  <2> HIDE DEF ai
  <2> QED BY <1>4, RestIsCongruent, Zenon
<1>6. r = ab % m
  BY Zenon
<1>7. Congruent(ab, r, m)
  <2> HIDE DEF ab, r
  <2> QED BY <1>1, <1>6, RestIsCongruent, Zenon
<1> HIDE DEF i, r, s
<1>8. (s + b) % m = (c + d) % m
  <2>1. Cancels(m, a, b, c, d, r, i, s)
    BY <1>2, <1>3, <1>5, GapsCancel, Zenon
  <2> QED BY <1>2, <1>3, <1>5, <1>7, <2>1, Zenon DEF Cancels
<1> QED BY <1>8 DEF s, i

(* What a gap between two packets is about: last_arrival_us is the time of *)
(* the latest packet, and 0 before the first, when no time has been        *)
(* counted.                                                                *)
ActiveIdleInv ==
  /\ arrivals \in Seq(Packet)
  /\ active_time_us \in Int /\ idle_time_us \in Int
  /\ arrivals = << >> => last_arrival_us = 0 /\ active_time_us = 0 /\ idle_time_us = 0
  /\ arrivals # << >> => last_arrival_us = arrivals[Len(arrivals)].ts
  /\ ActiveIdleCoverFlow

LEMMA ActiveIdleInit == Init => ActiveIdleInv
<1> SUFFICES ASSUME Init PROVE ActiveIdleInv
  OBVIOUS
<1>1. arrivals = << >> /\ last_arrival_us = 0 /\ active_time_us = 0 /\ idle_time_us = 0
  BY Zenon DEF Init, StreamInit, IatInit
<1>2. << >> \in Seq(Packet) /\ 0 \in Int
  OBVIOUS
<1>3. ActiveIdleCoverFlow
  BY <1>1, Zenon DEF ActiveIdleCoverFlow
<1> QED BY <1>1, <1>2, <1>3, Zenon DEF ActiveIdleInv

LEMMA ActiveIdleStep == ActiveIdleInv /\ [Next]_vars => ActiveIdleInv'
<1> SUFFICES ASSUME ActiveIdleInv, [Next]_vars PROVE ActiveIdleInv'
  OBVIOUS
<1>1. CASE UNCHANGED vars
  BY <1>1, Zenon DEF vars, streamVars, iatVars, ActiveIdleInv, ActiveIdleCoverFlow
<1>2. ASSUME NEW p \in Packets, NEW allocated \in BOOLEAN, Data(p, allocated)
      PROVE  ActiveIdleInv'
  <2>1. /\ arrivals' = Append(arrivals, p) /\ cfg' = cfg
        /\ last_arrival_us' = p.ts
        /\ p \in Packet /\ p.ts \in Int /\ p.ts > 0
    BY <1>2, StreamConstants DEF Data, IatPacket, IatUpdate, Packet
  <2>2. /\ arrivals' \in Seq(Packet) /\ arrivals' # << >>
        /\ arrivals'[Len(arrivals')] = p
        /\ arrivals # << >> => arrivals'[1] = arrivals[1]
        /\ arrivals = << >> => arrivals'[1] = p
    BY <2>1 DEF ActiveIdleInv
  <2>3. CASE arrivals = << >>
    <3>1. last_arrival_us = 0 /\ active_time_us = 0 /\ idle_time_us = 0
      BY <2>3 DEF ActiveIdleInv
    <3>2. active_time_us' = 0 /\ idle_time_us' = 0
      BY <1>2, <3>1, Zenon DEF Data, IatPacket, IatUpdate
    <3>3. 0 + 0 = 0 /\ p.ts - p.ts = 0
      BY <2>1
    <3>4. ActiveIdleCoverFlow'
      BY <2>2, <2>3, <3>2, <3>3, Zenon DEF ActiveIdleCoverFlow, Since, Last
    <3> QED BY <2>1, <2>2, <3>2, <3>4 DEF ActiveIdleInv
  <2>4. CASE arrivals # << >>
    <3> DEFINE f == arrivals[1].ts
               l == arrivals[Len(arrivals)].ts
               iat == Since(p.ts, last_arrival_us)
    <3>1. f \in Int /\ l \in Int /\ l > 0 /\ last_arrival_us = l
      <4>1. Len(arrivals) \in 1 .. Len(arrivals) /\ 1 \in 1 .. Len(arrivals)
        BY <2>4 DEF ActiveIdleInv
      <4>2. arrivals[1] \in Packet /\ arrivals[Len(arrivals)] \in Packet
        BY <4>1 DEF ActiveIdleInv
      <4>3. \A x \in Packet : x.ts \in Int /\ x.ts > 0
        BY StreamConstants DEF Packet
      <4> QED BY <2>4, <4>2, <4>3 DEF ActiveIdleInv
    <3>2. ActiveIdle(iat) /\ last_arrival_us # 0
      <4>1. last_arrival_us # 0
        BY <3>1
      <4> QED BY <4>1, <1>2, Zenon DEF Data, IatPacket, IatUpdate
    <3> HIDE DEF iat
    <3>3. CASE "enable_iat_active" \notin cfg.on
      <4>1. active_time_us' = active_time_us /\ idle_time_us' = idle_time_us
        BY <3>2, <3>3, Zenon DEF ActiveIdle
      <4>2. ActiveIdleCoverFlow'
        BY <2>1, <3>3, Zenon DEF ActiveIdleCoverFlow
      <4> QED BY <2>1, <2>2, <4>1, <4>2, Zenon DEF ActiveIdleInv
    <3>4. CASE "enable_iat_active" \in cfg.on
      <4>1. LLongSpan \in Nat \ {0}
        BY StreamConstants
      <4>2. active_time_us \in Int /\ idle_time_us \in Int
        BY DEF ActiveIdleInv
      <4>3. iat = (p.ts - l) % LLongSpan /\ iat \in Int
        BY <2>1, <3>1, <4>1, SMT DEF iat, Since
      <4>4. (active_time_us + idle_time_us) % LLongSpan = (l - f) % LLongSpan
        BY <2>4, <3>4, Zenon DEF ActiveIdleInv, ActiveIdleCoverFlow, Since, Last
      <4> DEFINE c == l - f
                 d == p.ts - l
      <4>g. c \in Int /\ d \in Int /\ c + d = p.ts - f
        BY <2>1, <3>1
      <4>i. iat = d % LLongSpan /\ (active_time_us + idle_time_us) % LLongSpan = c % LLongSpan
        BY <4>3, <4>4, Zenon
      <4> HIDE DEF c, d
      <4>5. CASE iat <= ActiveIat
        <5>1. /\ active_time_us' = (active_time_us + iat) % LLongSpan
              /\ idle_time_us' = idle_time_us
          <6>1. ~(iat > ActiveIat)
            BY <4>3, <4>5, ActiveIatIsNat, SMT
          <6> QED BY <6>1, <3>2, <3>4, <4>5, Zenon DEF ActiveIdle
        <5>2. (active_time_us' + idle_time_us') % LLongSpan = (p.ts - f) % LLongSpan
          <6>1. (((active_time_us + (d % LLongSpan)) % LLongSpan) + idle_time_us) % LLongSpan
                  = (c + d) % LLongSpan
            <7>1. AddsGap(LLongSpan, active_time_us, idle_time_us, c, d)
              BY <4>1, <4>2, <4>g, GapAdds, Zenon
            <7> QED BY <7>1, <4>i, Zenon DEF AddsGap
          <6> QED BY <6>1, <4>g, <4>i, <5>1, Zenon
        <5>3. active_time_us' \in Int /\ idle_time_us' \in Int
          BY <4>1, <4>2, <4>3, <5>1, SMT
        <5>4. ActiveIdleCoverFlow'
          BY <2>2, <2>4, <5>2, Zenon DEF ActiveIdleCoverFlow, Since, Last
        <5> QED BY <2>1, <2>2, <5>3, <5>4 DEF ActiveIdleInv
      <4>6. CASE ~(iat <= ActiveIat)
        <5>1. /\ idle_time_us' = (idle_time_us + iat) % LLongSpan
              /\ active_time_us' = active_time_us
          <6>1. iat > ActiveIat
            BY <4>3, <4>6, ActiveIatIsNat, SMT
          <6> QED BY <6>1, <3>2, <3>4, <4>6, Zenon DEF ActiveIdle
        <5>2. (idle_time_us + active_time_us) % LLongSpan = c % LLongSpan
          <6>1. idle_time_us + active_time_us = active_time_us + idle_time_us
            BY <4>2
          <6> QED BY <6>1, <4>i, Zenon
        <5>3. (idle_time_us' + active_time_us') % LLongSpan = (p.ts - f) % LLongSpan
          <6>1. (((idle_time_us + (d % LLongSpan)) % LLongSpan) + active_time_us) % LLongSpan
                  = (c + d) % LLongSpan
            <7>1. AddsGap(LLongSpan, idle_time_us, active_time_us, c, d)
              BY <4>1, <4>2, <4>g, GapAdds, Zenon
            <7> QED BY <7>1, <5>2, Zenon DEF AddsGap
          <6> QED BY <6>1, <4>g, <4>i, <5>1, Zenon
        <5>4. active_time_us' \in Int /\ idle_time_us' \in Int
          BY <4>1, <4>2, <4>3, <5>1, SMT
        <5>5. active_time_us' + idle_time_us' = idle_time_us' + active_time_us'
          BY <5>4
        <5>6. ActiveIdleCoverFlow'
          BY <2>2, <2>4, <5>3, <5>5, Zenon DEF ActiveIdleCoverFlow, Since, Last
        <5> QED BY <2>1, <2>2, <5>4, <5>6 DEF ActiveIdleInv
      <4> QED BY <4>5, <4>6
    <3> QED BY <3>3, <3>4
  <2> QED BY <2>3, <2>4
<1> QED BY <1>1, <1>2 DEF Next

(* What calc_active_idle_time splits into active and idle time adds up, in *)
(* 64 bits, to the time between the flow's first and latest packet, for    *)
(* every order of times, every threshold and every mix of directions.      *)
THEOREM ActiveAndIdleAddUp == Spec => []ActiveIdleCoverFlow
<1>1. ActiveIdleInv => ActiveIdleCoverFlow
  BY DEF ActiveIdleInv
<1> QED BY ActiveIdleInit, ActiveIdleStep, <1>1, PTL DEF Spec
-----------------------------------------------------------------------------
(* The pool's length is that of its level, and no packet makes it smaller: *)
(* what an array has been given so far goes with it into the next block.   *)
PoolInv ==
  /\ pool \in Pool
  /\ pool.seq_len = SeqLen[pool.level]

LEMMA PoolInvInit == StreamInit => PoolInv /\ pool.seq_len \in Nat
<1>1. Tiny \in Level /\ 0 \in 0 .. UIntMax
  BY PoolSizes DEF Tiny, Level, Large
<1> QED BY <1>1, MadePool DEF StreamInit, PoolInv, Pool

LEMMA PoolNeverShrinks ==
  ASSUME PoolInv, NEW allocated \in BOOLEAN, pool' = PoolAfterPacket(allocated)
  PROVE  /\ PoolInv'
         /\ pool.seq_len \in Nat /\ pool'.seq_len \in Nat
         /\ pool.seq_len <= pool'.seq_len
<1> DEFINE counted == CheckUpgrade(pool)
<1>1. /\ counted \in Pool /\ counted.level = pool.level /\ counted.seq_len = pool.seq_len
      /\ pool.level \in Level /\ pool.seq_len \in Nat /\ counted.pkt_count \in 0 .. UIntMax
  BY CountedPool DEF PoolInv, Pool
<1> HIDE DEF counted
<1>2. CASE pool' = counted
  BY <1>1, <1>2 DEF PoolInv
<1>3. CASE UpgradeDue(counted) /\ pool' = PoolOfLevel(counted.level + 1, counted.pkt_count)
  <2>1. counted.level + 1 \in Level /\ SeqLen[pool.level] < SeqLen[counted.level + 1]
    BY <1>1, <1>3, SeqLenGrows DEF UpgradeDue, Level, Large, Tiny
  <2>2. /\ pool' \in Pool /\ pool'.level = counted.level + 1
        /\ pool'.seq_len = SeqLen[counted.level + 1]
    BY <1>1, <1>3, <2>1, MadePool
  <2>3. SeqLen[pool.level] \in Nat /\ SeqLen[counted.level + 1] \in Nat
    BY <1>1, <2>1, SeqLenGrows
  <2> QED BY <1>1, <2>1, <2>2, <2>3 DEF PoolInv
<1>4. pool' = counted \/ (UpgradeDue(counted)
                           /\ pool' = PoolOfLevel(counted.level + 1, counted.pkt_count))
  BY Zenon DEF PoolAfterPacket, Upgrade, counted
<1> QED BY <1>2, <1>3, <1>4

(* An upgrade copies an array whole when the array fits the old block.     *)
LEMMA CarriedWhole ==
  ASSUME NEW T, NEW array \in Seq(T), pool.seq_len \in Nat, Len(array) <= pool.seq_len
  PROVE  Carried(array) = array
<1> DEFINE n == Min({Len(array), pool.seq_len})
<1>1. n = Len(array)
  <2>1. \A y \in {Len(array), pool.seq_len} : Len(array) <= y
    OBVIOUS
  <2>2. \A x \in {Len(array), pool.seq_len} :
          (\A y \in {Len(array), pool.seq_len} : x <= y) => x = Len(array)
    OBVIOUS
  <2> QED BY <2>1, <2>2, Zenon DEF Min
<1> HIDE DEF n
<1>2. SubSeq(array, 1, n) = array
  BY <1>1
<1> QED BY <1>2, Zenon DEF Carried, n

(* An array that keeps what fits stays within a capacity that does not     *)
(* shrink.                                                                 *)
LEMMA KeptFits ==
  ASSUME NEW T, NEW seq \in Seq(T), NEW value \in T, NEW capacity \in Nat,
         Len(seq) <= capacity
  PROVE  Kept(seq, value, capacity) \in Seq(T) /\ Len(Kept(seq, value, capacity)) <= capacity
BY DEF Kept

(* Gaps and widths.                                                        *)
LEMMA SinceInRange ==
  ASSUME NEW a \in Int, NEW b \in Int
  PROVE  Since(a, b) \in 0 .. LLongSpan - 1 /\ Since(a, b) \in Int
<1> DEFINE d == a - b
<1>1. d \in Int /\ LLongSpan \in Nat \ {0}
  BY StreamConstants
<1> HIDE DEF d
<1>2. d % LLongSpan \in 0 .. LLongSpan - 1 /\ d % LLongSpan \in Int
  BY <1>1, SMT
<1> QED BY <1>2 DEF Since, d

LEMMA SpanInRange ==
  ASSUME NEW x \in Int PROVE x % LLongSpan \in 0 .. LLongSpan - 1
<1>1. LLongSpan \in Nat \ {0}
  BY StreamConstants
<1> QED BY <1>1, SMT

Burst == [size : Int, duration : Int, packets : Int]

BurstInv ==
  /\ PoolInv
  /\ last_arrival_us \in Int
  /\ bursts \in Seq(Burst)
  /\ burst_intervals \in Seq(Int)
  /\ BurstsWellFormed

LEMMA BurstInvInit == Init => BurstInv
<1> SUFFICES ASSUME Init PROVE BurstInv
  OBVIOUS
<1>1. PoolInv /\ pool.seq_len \in Nat
  BY PoolInvInit DEF Init
<1>2. /\ last_arrival_us = 0 /\ bursts = << >> /\ burst_intervals = << >>
      /\ burst_start_us = 0 /\ burst_byte_count = 0 /\ burst_pkt_count = 0
  BY DEF Init, StreamInit, BurstInit
<1>3. 0 \in 0 .. LLongSpan - 1 /\ 0 \in 0 .. UIntMax
  BY StreamConstants, PoolSizes
<1> QED BY <1>1, <1>2, <1>3 DEF BurstInv, BurstsWellFormed

LEMMA BurstInvStep == BurstInv /\ [Next]_vars => BurstInv'
<1> SUFFICES ASSUME BurstInv, [Next]_vars PROVE BurstInv'
  OBVIOUS
<1>1. CASE UNCHANGED vars
  BY <1>1, Zenon DEF vars, streamVars, burstVars, BurstInv, PoolInv, BurstsWellFormed
<1>2. ASSUME NEW p \in Packets, NEW allocated \in BOOLEAN, Data(p, allocated)
      PROVE  BurstInv'
  <2>1. /\ pool' = PoolAfterPacket(allocated)
        /\ BurstPacket(p, pool'.seq_len)
        /\ last_arrival_us' = p.ts
    BY <1>2, Zenon DEF Data, IatPacket, IatUpdate
  <2>2. /\ PoolInv' /\ pool.seq_len \in Nat /\ pool'.seq_len \in Nat
        /\ pool.seq_len <= pool'.seq_len
    BY <2>1, PoolNeverShrinks DEF BurstInv
  <2>3. p.ts \in 0 .. LLongSpan - 1 /\ p.ts \in Int /\ p.len \in 0 .. UIntMax /\ p.len \in Int
    BY StreamConstants, PoolSizes DEF Packet
  <2>4. /\ Carried(bursts) = bursts /\ Carried(burst_intervals) = burst_intervals
        /\ Len(bursts) <= pool'.seq_len
    <3>1. Len(bursts) <= pool.seq_len /\ Len(burst_intervals) <= pool.seq_len
      BY <2>2 DEF BurstInv, BurstsWellFormed
    <3>2. Carried(bursts) = bursts
      BY <2>2, <3>1, CarriedWhole DEF BurstInv
    <3>3. Carried(burst_intervals) = burst_intervals
      BY <2>2, <3>1, CarriedWhole DEF BurstInv
    <3>4. Len(bursts) <= pool'.seq_len
      BY <2>2, <3>1 DEF BurstInv
    <3> QED BY <3>2, <3>3, <3>4
  <2>5. CASE UNCHANGED burstVars
    BY <2>1, <2>2, <2>3, <2>4, <2>5, Zenon DEF burstVars, BurstInv, BurstsWellFormed
  <2>6. CASE BurstContinues(p)
    <3>1. /\ burst_byte_count' = (burst_byte_count + p.len) % (UIntMax + 1)
          /\ burst_pkt_count' = (burst_pkt_count + 1) % (UIntMax + 1)
          /\ bursts' = bursts /\ burst_intervals' = burst_intervals
          /\ burst_start_us' = burst_start_us
      BY <2>4, <2>6, Zenon DEF BurstContinues
    <3>2. burst_byte_count \in Int /\ burst_pkt_count \in Int
      BY PoolSizes DEF BurstInv, BurstsWellFormed
    <3>3. burst_byte_count + p.len \in Int /\ burst_pkt_count + 1 \in Int
      BY <2>3, <3>2
    <3>4. burst_byte_count' \in 0 .. UIntMax /\ burst_pkt_count' \in 0 .. UIntMax
      BY <3>1, <3>3, CastInRange
    <3> QED BY <2>1, <2>2, <2>3, <2>4, <3>1, <3>4, Zenon DEF BurstInv, BurstsWellFormed
  <2>7. CASE BurstRestarts(p, pool'.seq_len)
    <3> DEFINE kept   == burst_pkt_count > 1 /\ Room(Len(bursts), pool'.seq_len)
               closed == [ size     |-> burst_byte_count,
                           duration |-> Since(p.ts, burst_start_us),
                           packets  |-> burst_pkt_count ]
               iat    == BurstIat(p.ts)
    <3>1. /\ bursts' = IF kept THEN Append(bursts, closed) ELSE bursts
          /\ burst_intervals' = IF kept /\ bursts # << >>
                                  THEN Append(burst_intervals, iat) ELSE burst_intervals
          /\ burst_start_us' = p.ts
          /\ burst_byte_count' = p.len
          /\ burst_pkt_count' = 1
      BY <2>4, <2>7, Zenon DEF BurstRestarts, StartOfBurst
    <3>2. burst_byte_count \in Int /\ burst_pkt_count \in Int /\ burst_start_us \in Int
      BY PoolSizes, StreamConstants DEF BurstInv, BurstsWellFormed
    <3>3. Since(p.ts, burst_start_us) \in Int
      BY <2>3, <3>2, SinceInRange
    <3>4. closed \in Burst
      BY <3>2, <3>3 DEF Burst
    <3>5. iat \in Int
      <4>1. Since(p.ts, last_arrival_us) \in Int
        BY <2>3, SinceInRange DEF BurstInv
      <4> QED BY <4>1 DEF BurstIat
    <3>6. kept => Len(bursts) < pool'.seq_len
      BY DEF Room
    <3> HIDE DEF kept, closed, iat
    <3>7. /\ bursts \in Seq(Burst) /\ burst_intervals \in Seq(Int)
          /\ Len(burst_intervals) = IF bursts = << >> THEN 0 ELSE Len(bursts) - 1
      BY Zenon DEF BurstInv, BurstsWellFormed
    <3>8. /\ bursts' \in Seq(Burst) /\ Len(bursts') <= pool'.seq_len
          /\ burst_intervals' \in Seq(Int)
          /\ Len(burst_intervals') = IF bursts' = << >> THEN 0 ELSE Len(bursts') - 1
      <4>1. CASE ~kept
        BY <2>4, <3>1, <3>7, <4>1, Zenon
      <4>2. CASE kept /\ bursts = << >>
        <5>1. bursts' = Append(bursts, closed) /\ burst_intervals' = burst_intervals
          BY <3>1, <4>2, Zenon
        <5> QED BY <2>2, <3>4, <3>6, <3>7, <4>2, <5>1
      <4>3. CASE kept /\ bursts # << >>
        <5>1. bursts' = Append(bursts, closed) /\ burst_intervals' = Append(burst_intervals, iat)
          BY <3>1, <4>3, Zenon
        <5> QED BY <2>2, <3>4, <3>5, <3>6, <3>7, <4>3, <5>1, SMTT(30)
      <4> QED BY <4>1, <4>2, <4>3
    <3>9. 1 \in 0 .. UIntMax
      BY PoolSizes, SeqLenGrows DEF Level, Tiny, Large
    <3> QED BY <2>1, <2>2, <2>3, <3>1, <3>8, <3>9, Zenon DEF BurstInv, BurstsWellFormed
  <2> QED BY <2>1, <2>5, <2>6, <2>7, Zenon DEF BurstPacket
<1> QED BY <1>1, <1>2 DEF Next

(* The arrays of calc_burst_update stay within the pool's length through   *)
(* every upgrade and denial, and have one interval less than bursts.       *)
THEOREM BurstsStayWellFormed == Spec => []BurstsWellFormed
<1>1. BurstInv => BurstsWellFormed
  BY DEF BurstInv
<1> QED BY BurstInvInit, BurstInvStep, <1>1, PTL DEF Spec
-----------------------------------------------------------------------------
IatInv ==
  /\ PoolInv
  /\ dir_iats \in [Known -> Seq(Int)]
  /\ resp_delays \in Seq(Int)
  /\ IatWellFormed

LEMMA IatInvInit == Init => IatInv
<1> SUFFICES ASSUME Init PROVE IatInv
  OBVIOUS
<1>1. PoolInv /\ pool.seq_len \in Nat
  BY PoolInvInit DEF Init
<1>2. /\ last_arrival_us = 0 /\ last_us = [d \in Known |-> 0]
      /\ active_time_us = 0 /\ idle_time_us = 0 /\ last_req_ts = 0
      /\ dir_iats = [d \in Known |-> << >>] /\ resp_delays = << >>
  BY DEF Init, StreamInit, IatInit
<1>3. 0 \in 0 .. LLongSpan - 1 /\ RespDelays \in Nat
  BY StreamConstants, PoolSizes
<1>4. last_us \in [Known -> 0 .. LLongSpan - 1] /\ dir_iats \in [Known -> Seq(Int)]
  BY <1>2, <1>3
<1>5. \A d \in Known : Len(dir_iats[d]) <= pool.seq_len
  BY <1>1, <1>2
<1>6. resp_delays \in Seq(Int) /\ Len(resp_delays) <= RespDelays
  BY <1>2, <1>3
<1> QED BY <1>1, <1>2, <1>3, <1>4, <1>5, <1>6, Zenon DEF IatInv, IatWellFormed

(* What a packet leaves in the arrays of the two directions.               *)
LEMMA DirectionsFit ==
  ASSUME IatInv, NEW ts \in Int, NEW dir, NEW capacity \in Nat,
         pool.seq_len \in Nat, pool.seq_len <= capacity,
         DirectionUpdate(ts, dir, capacity)
  PROVE  /\ dir_iats' \in [Known -> Seq(Int)]
         /\ \A d \in Known : Len(dir_iats'[d]) <= capacity
<1> DEFINE iat == Since(ts, last_us[dir])
           sampled == "need_fwd_bwd_iats" \in cfg.on /\ dir \in Known /\ last_us[dir] > 0
           carried == [d \in Known |-> Carried(dir_iats[d])]
<1>1. carried = dir_iats
  <2>1. \A d \in Known : Carried(dir_iats[d]) = dir_iats[d]
    BY CarriedWhole DEF IatInv, IatWellFormed
  <2> QED BY <2>1 DEF IatInv
<1>2. dir_iats' = IF sampled THEN [carried EXCEPT ![dir] = Kept(@, iat, capacity)] ELSE carried
  BY Zenon DEF DirectionUpdate
<1>3. \A d \in Known : dir_iats[d] \in Seq(Int) /\ Len(dir_iats[d]) <= capacity
  BY DEF IatInv, IatWellFormed
<1>4. CASE ~sampled
  BY <1>1, <1>2, <1>3, <1>4, Zenon DEF IatInv
<1>5. CASE sampled
  <2>1. last_us[dir] \in Int
    BY <1>5, StreamConstants DEF IatInv, IatWellFormed
  <2>2. iat \in Int
    BY <2>1, SinceInRange
  <2> DEFINE new == Kept(dir_iats[dir], iat, capacity)
  <2>3. new \in Seq(Int) /\ Len(new) <= capacity
    <3> HIDE DEF iat
    <3> QED BY <1>3, <1>5, <2>2, KeptFits
  <2>4. dir_iats' = [dir_iats EXCEPT ![dir] = new]
    BY <1>1, <1>2, <1>5, Zenon
  <2> HIDE DEF new, carried, iat
  <2> QED BY <1>3, <1>5, <2>3, <2>4 DEF IatInv
<1> QED BY <1>4, <1>5

LEMMA IatInvStep == IatInv /\ [Next]_vars => IatInv'
<1> SUFFICES ASSUME IatInv, [Next]_vars PROVE IatInv'
  OBVIOUS
<1>1. CASE UNCHANGED vars
  BY <1>1, Zenon DEF vars, streamVars, iatVars, IatInv, PoolInv, IatWellFormed
<1>2. ASSUME NEW p \in Packets, NEW allocated \in BOOLEAN, Data(p, allocated)
      PROVE  IatInv'
  <2>1. /\ pool' = PoolAfterPacket(allocated)
        /\ IatUpdate(p, pool'.seq_len)
        /\ ResponseDelay(p.ts, p.dir)
    BY <1>2, Zenon DEF Data, IatPacket
  <2>2. /\ PoolInv' /\ pool.seq_len \in Nat /\ pool'.seq_len \in Nat
        /\ pool.seq_len <= pool'.seq_len
    BY <2>1, PoolNeverShrinks DEF IatInv
  <2>3. p.ts \in 0 .. LLongSpan - 1 /\ p.ts \in Int /\ 0 \in 0 .. LLongSpan - 1
    BY StreamConstants DEF Packet
  <2>4. /\ last_arrival_us \in 0 .. LLongSpan - 1 /\ last_arrival_us \in Int
        /\ last_us \in [Known -> 0 .. LLongSpan - 1]
        /\ active_time_us \in 0 .. LLongSpan - 1 /\ active_time_us \in Int
        /\ idle_time_us \in 0 .. LLongSpan - 1 /\ idle_time_us \in Int
        /\ last_req_ts \in 0 .. LLongSpan - 1 /\ last_req_ts \in Int
        /\ resp_delays \in Seq(Int) /\ Len(resp_delays) <= RespDelays
    BY StreamConstants DEF IatInv, IatWellFormed
  <2>5. last_arrival_us' \in 0 .. LLongSpan - 1
    BY <2>1, <2>3, Zenon DEF IatUpdate
  <2>6. /\ last_req_ts' \in 0 .. LLongSpan - 1
        /\ resp_delays' \in Seq(Int) /\ Len(resp_delays') <= RespDelays
    <3>1. /\ last_req_ts' = last_req_ts \/ last_req_ts' = Requested(p.ts, p.dir)
          /\ \/ resp_delays' = resp_delays
             \/ resp_delays' = Kept(resp_delays, Since(p.ts, last_req_ts), RespDelays)
      BY <2>1, Zenon DEF ResponseDelay
    <3>2. Requested(p.ts, p.dir) \in 0 .. LLongSpan - 1
      BY <2>3, <2>4 DEF Requested
    <3>3. Since(p.ts, last_req_ts) \in Int /\ RespDelays \in Nat
      BY <2>3, <2>4, SinceInRange, PoolSizes
    <3>4. LET new == Kept(resp_delays, Since(p.ts, last_req_ts), RespDelays)
          IN  new \in Seq(Int) /\ Len(new) <= RespDelays
      BY <2>4, <3>3, KeptFits
    <3> QED BY <2>4, <3>1, <3>2, <3>4, Zenon
  <2>7. /\ last_us' \in [Known -> 0 .. LLongSpan - 1]
        /\ active_time_us' \in 0 .. LLongSpan - 1
        /\ idle_time_us' \in 0 .. LLongSpan - 1
        /\ dir_iats' \in [Known -> Seq(Int)]
        /\ \A d \in Known : Len(dir_iats'[d]) <= pool'.seq_len
    <3>1. CASE last_arrival_us = 0
      <4>1. UNCHANGED << last_us, active_time_us, idle_time_us, dir_iats >>
        BY <2>1, <3>1, Zenon DEF IatUpdate
      <4>2. \A d \in Known : Len(dir_iats[d]) \in Nat /\ Len(dir_iats[d]) <= pool.seq_len
        BY DEF IatInv, IatWellFormed
      <4>3. \A d \in Known : Len(dir_iats[d]) <= pool'.seq_len
        BY <2>2, <4>2
      <4> QED BY <2>4, <4>1, <4>3, Zenon DEF IatInv
    <3>2. CASE last_arrival_us # 0
      <4> DEFINE iat == Since(p.ts, last_arrival_us)
      <4>1. /\ DirectionUpdate(p.ts, p.dir, pool'.seq_len)
            /\ ActiveIdle(iat)
            /\ last_us' = Seen(p.ts, p.dir)
        BY <2>1, <3>2, Zenon DEF IatUpdate
      <4>2. iat \in Int
        BY <2>3, <2>4, SinceInRange
      <4> HIDE DEF iat
      <4>3. last_us' \in [Known -> 0 .. LLongSpan - 1]
        BY <2>3, <2>4, <4>1 DEF Seen
      <4>4. /\ (active_time_us + iat) % LLongSpan \in 0 .. LLongSpan - 1
            /\ (idle_time_us + iat) % LLongSpan \in 0 .. LLongSpan - 1
        <5>1. active_time_us + iat \in Int /\ idle_time_us + iat \in Int
          BY <2>4, <4>2
        <5> QED BY <5>1, SpanInRange
      <4>5. active_time_us' \in 0 .. LLongSpan - 1 /\ idle_time_us' \in 0 .. LLongSpan - 1
        BY <2>4, <4>1, <4>4, Zenon DEF ActiveIdle
      <4>6. /\ dir_iats' \in [Known -> Seq(Int)]
            /\ \A d \in Known : Len(dir_iats'[d]) <= pool'.seq_len
        BY <2>2, <2>3, <4>1, DirectionsFit
      <4> QED BY <4>3, <4>5, <4>6
    <3> QED BY <3>1, <3>2
  <2> QED BY <2>2, <2>5, <2>6, <2>7, Zenon DEF IatInv, IatWellFormed
<1> QED BY <1>1, <1>2 DEF Next

(* Gaps and delays stay within their arrays through every upgrade and      *)
(* denial, and the times calc_iat_update keeps within their width.         *)
THEOREM IatsStayWellFormed == Spec => []IatWellFormed
<1>1. IatInv => IatWellFormed
  BY DEF IatInv
<1> QED BY IatInvInit, IatInvStep, <1>1, PTL DEF Spec
-----------------------------------------------------------------------------
LEMMA RestAdds ==
  ASSUME NEW m \in Nat \ {0}, NEW x \in Int, NEW y \in Int
  PROVE  ((x % m) + y) % m = (x + y) % m
<1>1. PICK q \in Int : x = q * m + (x % m)
  BY RestSplits
<1> DEFINE r == x % m
           k == q * m
<1>2. r \in Int /\ k \in Int
  BY RestIsCongruent
<1>3. x = k + r
  BY <1>1
<1> HIDE DEF r, k
<1>4. (r + y) + k = x + y /\ r + y \in Int
  BY <1>2, <1>3
<1> DEFINE z == r + y
<1>5. (z + q * m) % m = z % m
  <2> HIDE DEF z
  <2> QED BY <1>4, RestOfMultiple DEF z
<1> QED BY <1>4, <1>5, Zenon DEF k, z, r

(* A quotient is determined by its bounds.                                 *)
LEMMA QuotientIs ==
  ASSUME NEW m \in Nat \ {0}, NEW d \in Nat, NEW w \in Nat
  PROVE  d \div m = w <=> w * m <= d /\ d < (w + 1) * m
<1> DEFINE q == d \div m
           a == w * m
           b == q * m
           e == w - q
           c == e * m
<1>1. q \in Int /\ b <= d /\ d < b + m /\ b \in Int
  BY SMT
<1>2. a \in Int /\ e \in Int /\ c = a - b /\ (w + 1) * m = a + m
  <2> HIDE DEF q
  <2> QED BY <1>1, SMT
<1>3. q = w => a <= d /\ d < a + m
  BY <1>1, <1>2, Zenon
<1>4. a <= d /\ d < a + m => -m < c /\ c < m
  <2> HIDE DEF a, b, c, e, q
  <2> QED BY <1>1, <1>2, SMT
<1>5. c < m => ~(e >= 1)
  <2> SUFFICES ASSUME e >= 1 PROVE c >= m
    <3> HIDE DEF e
    <3>1. c \in Int
      BY <1>2
    <3> HIDE DEF c
    <3> QED BY <3>1, SMT
  <2> HIDE DEF e
  <2> QED BY <1>2, SMT
<1>6. -m < c => ~(e <= -1)
  <2> SUFFICES ASSUME e <= -1 PROVE c <= -m
    <3> HIDE DEF e
    <3>1. c \in Int
      BY <1>2
    <3> HIDE DEF c
    <3> QED BY <3>1, SMT
  <2> HIDE DEF e
  <2> QED BY <1>2, SMT
<1>7. a <= d /\ d < a + m => q = w
  <2> SUFFICES ASSUME a <= d /\ d < a + m PROVE q = w
    OBVIOUS
  <2>1. ~(e >= 1) /\ ~(e <= -1)
    BY <1>4, <1>5, <1>6, Zenon
  <2>2. e \in Int /\ q \in Int
    BY <1>1, <1>2
  <2> HIDE DEF q
  <2> QED BY <2>1, <2>2 DEF e
<1> QED BY <1>2, <1>3, <1>7, Zenon

(* What a packet adds to the number and the bytes of the packets at the    *)
(* positions of a set.                                                     *)
LEMMA CountGrows ==
  ASSUME NEW n \in Nat, NEW S \in SUBSET (1 .. n), NEW T \in SUBSET (1 .. n + 1),
         \A i \in 1 .. n : i \in T <=> i \in S
  PROVE  /\ Cardinality(S) \in Nat
         /\ Cardinality(T) = Cardinality(S) + (IF n + 1 \in T THEN 1 ELSE 0)
<1>1. IsFiniteSet(1 .. n)
  BY FS_Interval
<1>2. IsFiniteSet(S) /\ Cardinality(S) \in Nat
  BY <1>1, FS_Subset, FS_CardinalityType
<1>i. /\ \A i \in T : i = n + 1 \/ i \in 1 .. n
      /\ \A i \in S : i \in 1 .. n
      /\ n + 1 \notin 1 .. n
  OBVIOUS
<1>3. CASE n + 1 \in T
  <2>1. T = S \cup {n + 1} /\ n + 1 \notin S
    BY <1>i, <1>3, Zenon
  <2> QED BY <1>2, <1>3, <2>1, FS_AddElement
<1>4. CASE n + 1 \notin T
  <2>1. T = S
    BY <1>i, <1>4, Zenon
  <2> QED BY <1>2, <1>4, <2>1
<1> QED BY <1>3, <1>4

BytesAmong(seq, S) == Total([i \in 1 .. Len(seq) |-> IF i \in S THEN seq[i].len ELSE 0])

LEMMA BytesGrow ==
  ASSUME NEW seq \in Seq(Packet), NEW p \in Packet, NEW S, NEW T,
         \A i \in 1 .. Len(seq) : i \in T <=> i \in S
  PROVE  /\ BytesAmong(seq, S) \in Int
         /\ BytesAmong(Append(seq, p), T) = BytesAmong(seq, S) + (IF Len(seq) + 1 \in T THEN p.len ELSE 0)
<1> DEFINE n == Len(seq)
           more == Append(seq, p)
           old == [i \in 1 .. n |-> IF i \in S THEN seq[i].len ELSE 0]
           new == [i \in 1 .. Len(more) |-> IF i \in T THEN more[i].len ELSE 0]
           x == IF n + 1 \in T THEN p.len ELSE 0
<1>1. \A q \in Packet : q.len \in Int
  BY PoolSizes DEF Packet
<1>2. old \in Seq(Int) /\ x \in Int
  <2>1. \A i \in 1 .. n : seq[i].len \in Int
    BY <1>1
  <2>2. \A i \in 1 .. n : (IF i \in S THEN seq[i].len ELSE 0) \in Int
    BY <2>1
  <2> QED BY <1>1, <2>2
<1>3. new = Append(old, x)
  <2>1. Len(more) = n + 1 /\ more[n + 1] = p /\ \A i \in 1 .. n : more[i] = seq[i]
    OBVIOUS
  <2>2. Len(old) = n /\ n \in Nat
    OBVIOUS
  <2>3. \A i \in 1 .. n + 1 : new[i] = IF i = n + 1 THEN x ELSE old[i]
    BY <2>1, <2>2
  <2>4. Append(old, x) = [i \in 1 .. n + 1 |-> IF i = n + 1 THEN x ELSE old[i]]
    <3> DEFINE all == Append(old, x)
    <3> HIDE DEF old, x
    <3>1. /\ all \in Seq(Int) /\ Len(all) = n + 1
          /\ \A i \in 1 .. n + 1 : all[i] = IF i = n + 1 THEN x ELSE old[i]
      BY <1>2, <2>2
    <3> HIDE DEF all
    <3>2. all \in [1 .. n + 1 -> Int]
      BY <3>1
    <3> QED BY <3>1, <3>2 DEF all
  <2>5. new = [i \in 1 .. n + 1 |-> new[i]]
    BY <2>1
  <2> HIDE DEF new, old, x
  <2> QED BY <2>3, <2>4, <2>5
<1> HIDE DEF new, old, x
<1>4. Total(old) \in Int /\ Total(new) = Total(old) + x
  BY <1>2, <1>3, TotalOfAppend
<1> QED BY <1>4, Zenon DEF BytesAmong, new, old, x

LEMMA BytesOfNothing == ASSUME NEW S PROVE BytesAmong(<< >>, S) = 0
<1>1. [i \in 1 .. Len(<< >>) |-> IF i \in S THEN << >>[i].len ELSE 0] = << >>
  OBVIOUS
<1> QED BY <1>1, TotalOfNone, Zenon DEF BytesAmong
-----------------------------------------------------------------------------
(* What a packet leaves of the history.                                    *)
LEMMA Arrives ==
  ASSUME arrivals \in Seq(Packet), NEW p \in Packets, NEW allocated \in BOOLEAN,
         Data(p, allocated)
  PROVE  /\ p \in Packet /\ p.ts \in 1 .. LLongSpan - 1 /\ p.len \in 0 .. UIntMax
         /\ p.ts \in Int /\ p.ts > 0 /\ p.len \in Int
         /\ Len(arrivals) \in Nat /\ Len(arrivals) + 1 <= MaxPackets
         /\ arrivals' = Append(arrivals, p) /\ arrivals' \in Seq(Packet)
         /\ Len(arrivals') = Len(arrivals) + 1
         /\ arrivals'[Len(arrivals) + 1] = p
         /\ \A i \in 1 .. Len(arrivals) :
              arrivals'[i] = arrivals[i] /\ arrivals[i] \in Packet /\ arrivals[i].ts \in Int
         /\ cfg' = cfg
<1>1. arrivals' = Append(arrivals, p) /\ cfg' = cfg /\ Len(arrivals) < MaxPackets
  BY DEF Data
<1>2. \A q \in Packet : /\ q.ts \in 1 .. LLongSpan - 1 /\ q.len \in 0 .. UIntMax
                        /\ q.ts \in Int /\ q.ts > 0 /\ q.len \in Int
  BY StreamConstants, PoolSizes DEF Packet
<1>3. p \in Packet
  BY StreamConstants
<1>4. /\ Len(arrivals) \in Nat /\ Len(arrivals) + 1 <= MaxPackets
      /\ arrivals' \in Seq(Packet) /\ Len(arrivals') = Len(arrivals) + 1
      /\ arrivals'[Len(arrivals) + 1] = p
      /\ \A i \in 1 .. Len(arrivals) : arrivals'[i] = arrivals[i] /\ arrivals[i] \in Packet
  BY <1>1, <1>3, StreamConstants
<1> QED BY <1>1, <1>2, <1>3, <1>4

(* The clock does not wrap within the windows, and no packet comes so many *)
(* windows after the first that their number does not fit 32 bits: beyond  *)
(* that the cast to the window's number is what the code computes, and not *)
(* the window.                                                             *)
WindowsInReach ==
  \A i \in 1 .. Len(arrivals) :
    /\ arrivals[1].ts + NumWindows * cfg.window_size_us <= LLongSpan
    /\ Since(arrivals[i].ts, arrivals[1].ts) < (UIntMax + 1) * cfg.window_size_us

(* The window calc_window_update takes for a packet is the one its time    *)
(* is in.                                                                  *)
LEMMA TargetIsWindow ==
  ASSUME NEW f \in 1 .. LLongSpan - 1, NEW ts \in 1 .. LLongSpan - 1,
         cfg.window_size_us \in Nat \ {0},
         f + NumWindows * cfg.window_size_us <= LLongSpan,
         Since(ts, f) < (UIntMax + 1) * cfg.window_size_us,
         NEW w \in Window
  PROVE  Target(f, ts) = w <=> /\ ts >= f + w * cfg.window_size_us
                               /\ ts < f + (w + 1) * cfg.window_size_us
<1> DEFINE m == cfg.window_size_us
           d == Since(ts, f)
           a == w * m
           b == (w + 1) * m
           e == NumWindows * m
           q == d \div m
<1>1. /\ m \in Nat \ {0} /\ d \in Nat /\ w \in Nat /\ NumWindows \in Nat /\ w < NumWindows
      /\ f \in Int /\ ts \in Int /\ LLongSpan \in Nat \ {0} /\ UIntMax \in Nat
  <2>1. f \in Int /\ ts \in Int
    OBVIOUS
  <2>2. d \in Nat
    BY <2>1, SinceInRange, StreamConstants
  <2> QED BY <2>1, <2>2, PoolSizes, StreamConstants DEF Window
<1>2. a \in Int /\ b \in Int /\ e \in Int /\ 0 <= a /\ b <= e
  <2>1. b = a + m /\ a \in Int /\ 0 <= a /\ e \in Int
    <3> HIDE DEF m
    <3> QED BY <1>1, SMT
  <2>2. b <= e
    <3> DEFINE k == NumWindows - (w + 1)
               g == k * m
    <3>1. k \in Nat
      BY <1>1
    <3>2. g = e - b
      <4> HIDE DEF m
      <4> QED BY <1>1, SMT
    <3>3. g >= 0
      <4> HIDE DEF k, m
      <4> QED BY <1>1, <3>1, SMT
    <3> HIDE DEF g, b, e
    <3> QED BY <2>1, <3>2, <3>3
  <2> QED BY <2>1, <2>2
<1>3. d = IF ts >= f THEN ts - f ELSE ts - f + LLongSpan
  <2>1. ts >= f => (ts - f) % LLongSpan = ts - f
    BY <1>1, SMT
  <2>2. ~(ts >= f) => (ts - f) % LLongSpan = ts - f + LLongSpan
    <3> SUFFICES ASSUME ~(ts >= f) PROVE (ts - f) % LLongSpan = ts - f + LLongSpan
      OBVIOUS
    <3> DEFINE x == ts - f
               r == x + LLongSpan
    <3>1. x \in Int /\ r \in Int /\ 0 <= r /\ r < LLongSpan /\ x = (-1) * LLongSpan + r /\ -1 \in Int
      BY <1>1
    <3> HIDE DEF x, r
    <3>2. x % LLongSpan = r
      BY <1>1, <3>1, RestIsUnique
    <3> QED BY <3>2 DEF x, r
  <2> QED BY <2>1, <2>2 DEF Since
<1>4. q % (UIntMax + 1) = q
  <2>1. q \in Int /\ q >= 0 /\ q * m <= d
    <3> HIDE DEF d, m
    <3> QED BY <1>1, SMT
  <2>2. d < (UIntMax + 1) * m
    OBVIOUS
  <2> HIDE DEF d, m, q
  <2>3. q < UIntMax + 1
    <3> SUFFICES ASSUME q >= UIntMax + 1 PROVE FALSE
      BY <1>1, <2>1
    <3> DEFINE k == q - (UIntMax + 1)
               g == k * m
    <3>1. k \in Nat
      BY <1>1, <2>1
    <3>2. g = q * m - (UIntMax + 1) * m
      BY <1>1, <2>1, SMT
    <3>3. g >= 0
      <4> HIDE DEF k
      <4> QED BY <1>1, <3>1, SMT
    <3>4. q * m \in Int /\ (UIntMax + 1) * m \in Int
      BY <1>1, <2>1
    <3> HIDE DEF g, k
    <3> QED BY <1>1, <2>1, <2>2, <3>2, <3>3, <3>4
  <2> QED BY <1>1, <2>1, <2>3, SMT
<1>5. Target(f, ts) = q
  BY <1>4 DEF Target
<1>6. q = w <=> a <= d /\ d < b
  <2> HIDE DEF d, m
  <2> QED BY <1>1, QuotientIs
<1>7. a <= d /\ d < b <=> ts >= f + a /\ ts < f + b
  <2>1. f + e <= LLongSpan
    OBVIOUS
  <2> HIDE DEF a, b, d, e, m
  <2> QED BY <1>1, <1>2, <1>3, <2>1
<1> QED BY <1>5, <1>6, <1>7

(* The first packet opens the first window; from then on every counter is  *)
(* what the packets' times say, as long as the windows are in reach.       *)
WindowCountsInv ==
  /\ FirstWindowInv
  /\ window_start_us = IF arrivals = << >> \/ ~WindowsOn THEN 0 ELSE arrivals[1].ts
  /\ WindowsOn /\ WindowsInReach => \A w \in Window :
       /\ window_pkt_counts[w] = Cardinality(InWindow(w))
       /\ window_byte_counts[w] = BytesAmong(arrivals, InWindow(w)) % (UIntMax + 1)

LEMMA WindowCountsInit == Init => WindowCountsInv
<1> SUFFICES ASSUME Init PROVE WindowCountsInv
  OBVIOUS
<1>1. FirstWindowInv
  BY FirstWindowInit
<1>2. /\ arrivals = << >> /\ window_start_us = 0
      /\ window_pkt_counts = [w \in Window |-> 0]
      /\ window_byte_counts = [w \in Window |-> 0]
  BY DEF Init, StreamInit, WindowInit
<1>3. \A w \in Window : InWindow(w) = {}
  BY <1>2 DEF InWindow
<1>4. BytesAmong(arrivals, {}) = 0 /\ Cardinality({}) = 0 /\ 0 % (UIntMax + 1) = 0
  <2>1. 0 % (UIntMax + 1) = 0
    BY PoolSizes
  <2> QED BY <1>2, <2>1, BytesOfNothing, FS_EmptySet
<1>5. \A w \in Window : /\ window_pkt_counts[w] = Cardinality(InWindow(w))
                        /\ window_byte_counts[w] = BytesAmong(arrivals, InWindow(w)) % (UIntMax + 1)
  BY <1>2, <1>3, <1>4
<1> QED BY <1>1, <1>2, <1>5, Zenon DEF WindowCountsInv

LEMMA WindowCountsStep ==
  ASSUME MaxPackets <= UIntMax, WindowCountsInv, NEW p \in Packets, NEW allocated \in BOOLEAN,
         Data(p, allocated), WindowsOn, WindowsInReach'
  PROVE  \A w \in Window :
           /\ window_pkt_counts'[w] = Cardinality(InWindow(w)')
           /\ window_byte_counts'[w] = BytesAmong(arrivals', InWindow(w)') % (UIntMax + 1)
<1> DEFINE n == Len(arrivals)
           f == arrivals'[1].ts
           ws == cfg.window_size_us
           target == Target(f, p.ts)
           m == UIntMax + 1
<1>1. /\ p \in Packet /\ p.ts \in 1 .. LLongSpan - 1 /\ p.len \in 0 .. UIntMax
      /\ p.ts \in Int /\ p.ts > 0 /\ p.len \in Int
      /\ n \in Nat /\ n + 1 <= MaxPackets
      /\ arrivals' = Append(arrivals, p) /\ arrivals' \in Seq(Packet)
      /\ Len(arrivals') = n + 1
      /\ arrivals'[n + 1] = p
      /\ \A i \in 1 .. n :
           arrivals'[i] = arrivals[i] /\ arrivals[i] \in Packet /\ arrivals[i].ts \in Int
      /\ cfg' = cfg
      /\ arrivals \in Seq(Packet)
  <2>1. arrivals \in Seq(Packet)
    BY DEF WindowCountsInv, FirstWindowInv
  <2> QED BY <2>1, Arrives
<1>2. /\ ws \in Nat \ {0} /\ m \in Nat \ {0}
      /\ window_pkt_counts \in [Window -> 0 .. UIntMax]
      /\ window_byte_counts \in [Window -> 0 .. UIntMax]
      /\ \A w \in Window : window_pkt_counts[w] <= n
  BY PoolSizes DEF WindowCountsInv, FirstWindowInv, WindowInv, WindowsWellFormed,
                   Configuration, WindowsOn
<1>3. /\ f \in 1 .. LLongSpan - 1 /\ f \in Int
      /\ n > 0 => f = arrivals[1].ts
      /\ n = 0 => f = p.ts
  <2>1. \A q \in Packet : q.ts \in 1 .. LLongSpan - 1 /\ q.ts \in Int
    BY DEF Packet
  <2>2. arrivals'[1] \in Packet
    BY <1>1
  <2> QED BY <1>1, <2>1, <2>2
<1>4. /\ f + NumWindows * ws <= LLongSpan
      /\ Since(p.ts, f) < m * ws
  <2>1. n + 1 \in 1 .. Len(arrivals')
    BY <1>1
  <2> QED BY <1>1, <2>1, Zenon DEF WindowsInReach, Since
<1>5. WindowsInReach
  <2> SUFFICES ASSUME NEW i \in 1 .. n
               PROVE  /\ arrivals[1].ts + NumWindows * ws <= LLongSpan
                      /\ Since(arrivals[i].ts, arrivals[1].ts) < m * ws
    BY Zenon DEF WindowsInReach
  <2>1. i \in 1 .. Len(arrivals') /\ arrivals'[i] = arrivals[i] /\ f = arrivals[1].ts
    BY <1>1, <1>3
  <2> QED BY <1>1, <2>1, Zenon DEF WindowsInReach, Since
<1>6. /\ window_pkt_counts' = IF target < NumWindows
                                THEN Added(window_pkt_counts, target, 1) ELSE window_pkt_counts
      /\ window_byte_counts' = IF target < NumWindows
                                 THEN Added(window_byte_counts, target, p.len)
                                 ELSE window_byte_counts
  <2>1. WindowUpdate(p)
    BY Zenon DEF Data, WindowPacket
  <2>2. f = IF window_start_us = 0 THEN p.ts ELSE window_start_us
    <3>1. arrivals = << >> <=> n = 0
      BY <1>1
    <3>2. CASE n = 0
      BY <1>3, <3>1, <3>2, Zenon DEF WindowCountsInv
    <3>3. CASE n # 0
      <4>1. window_start_us = f
        BY <1>1, <1>3, <3>1, <3>3 DEF WindowCountsInv
      <4> QED BY <1>3, <4>1
    <3> QED BY <3>2, <3>3
  <2> HIDE DEF f
  <2> QED BY <2>1, <2>2, Zenon DEF WindowUpdate
<1> SUFFICES ASSUME NEW w \in Window
             PROVE  /\ window_pkt_counts'[w] = Cardinality(InWindow(w)')
                    /\ window_byte_counts'[w] = BytesAmong(arrivals', InWindow(w)') % m
  OBVIOUS
<1> DEFINE S == InWindow(w)
           T == InWindow(w)'
<1>7. /\ S \in SUBSET (1 .. n) /\ T \in SUBSET (1 .. n + 1)
      /\ \A i \in 1 .. n : i \in T <=> i \in S
      /\ n + 1 \in T <=> p.ts >= f + w * ws /\ p.ts < f + (w + 1) * ws
  <2> DEFINE lo == w * ws
             hi == (w + 1) * ws
  <2>1. S = {i \in 1 .. n : arrivals[i].ts >= arrivals[1].ts + lo
                              /\ arrivals[i].ts < arrivals[1].ts + hi}
    BY Zenon DEF InWindow
  <2>2. T = {i \in 1 .. n + 1 : arrivals'[i].ts >= f + lo /\ arrivals'[i].ts < f + hi}
    BY <1>1, Zenon DEF InWindow
  <2> HIDE DEF S, T, lo, hi, f
  <2>3. \A i \in 1 .. n : i \in T <=> i \in S
    BY <1>1, <1>3, <2>1, <2>2
  <2>4. n + 1 \in T <=> p.ts >= f + lo /\ p.ts < f + hi
    BY <1>1, <2>2
  <2>5. S \in SUBSET (1 .. n) /\ T \in SUBSET (1 .. n + 1)
    BY <2>1, <2>2
  <2> QED BY <2>3, <2>4, <2>5 DEF lo, hi
<1>8. target = w <=> n + 1 \in T
  <2> HIDE DEF T, f
  <2> QED BY <1>1, <1>2, <1>3, <1>4, <1>7, TargetIsWindow, Zenon
<1>9. /\ Cardinality(S) \in Nat
      /\ Cardinality(T) = Cardinality(S) + (IF n + 1 \in T THEN 1 ELSE 0)
  <2> HIDE DEF S, T, n
  <2> QED BY <1>1, <1>7, CountGrows, Zenon
<1>10. /\ BytesAmong(arrivals, S) \in Int
       /\ BytesAmong(arrivals', T) = BytesAmong(arrivals, S) + (IF n + 1 \in T THEN p.len ELSE 0)
  <2> HIDE DEF S, T
  <2> QED BY <1>1, <1>7, BytesGrow, Zenon
<1>11. /\ window_pkt_counts[w] = Cardinality(S)
       /\ window_byte_counts[w] = BytesAmong(arrivals, S) % m
  BY <1>5, Zenon DEF WindowCountsInv
<1>12. w < NumWindows
  BY PoolSizes DEF Window
<1> HIDE DEF target, S, T, f
<1>13. CASE target = w
  <2>1. /\ window_pkt_counts' = [window_pkt_counts EXCEPT ![w] = (@ + 1) % m]
        /\ window_byte_counts' = [window_byte_counts EXCEPT ![w] = (@ + p.len) % m]
    BY <1>6, <1>12, <1>13, Zenon DEF Added
  <2>2. /\ window_pkt_counts'[w] = (Cardinality(S) + 1) % m
        /\ window_byte_counts'[w] = ((BytesAmong(arrivals, S) % m) + p.len) % m
    BY <1>2, <1>11, <2>1, Zenon
  <2>3. (Cardinality(S) + 1) % m = Cardinality(S) + 1
    <3>1. Cardinality(S) + 1 \in 0 .. UIntMax
      BY <1>1, <1>2, <1>9, <1>11, StreamConstants, PoolSizes
    <3> DEFINE c == Cardinality(S) + 1
    <3> HIDE DEF c
    <3>2. c \in 0 .. UIntMax
      BY <3>1 DEF c
    <3>3. c % m = c
      BY <3>2, PoolSizes, SMT
    <3> QED BY <3>3 DEF c
  <2>4. ((BytesAmong(arrivals, S) % m) + p.len) % m = (BytesAmong(arrivals, S) + p.len) % m
    <3> HIDE DEF m
    <3> QED BY <1>1, <1>2, <1>10, RestAdds, Zenon
  <2> QED BY <1>8, <1>9, <1>10, <1>13, <2>2, <2>3, <2>4, Zenon DEF T
<1>14. CASE target # w
  <2>1. window_pkt_counts'[w] = window_pkt_counts[w] /\ window_byte_counts'[w] = window_byte_counts[w]
    BY <1>2, <1>6, <1>14, Zenon DEF Added
  <2>2. Cardinality(T) = Cardinality(S) /\ BytesAmong(arrivals', T) = BytesAmong(arrivals, S)
    BY <1>8, <1>9, <1>10, <1>14
  <2> QED BY <1>11, <2>1, <2>2, Zenon DEF T
<1> QED BY <1>13, <1>14

(* Each window, the last one too, counts the packets and bytes that        *)
(* arrived in its time and no others, as long as the clock does not wrap   *)
(* within the windows and the number of a packet's window fits the 32 bits *)
(* the code casts it to: a late packet is counted where it belongs, one    *)
(* beyond the last window nowhere.                                         *)
THEOREM WindowsCountArrivals ==
  ASSUME MaxPackets <= UIntMax
  PROVE  Spec => [](WindowsInReach => WindowsMatchArrivals)
<1>1. WindowCountsInv => (WindowsInReach => WindowsMatchArrivals)
  BY Zenon DEF WindowCountsInv, WindowsMatchArrivals, BytesAmong, BytesAt
<1>2. WindowCountsInv /\ [Next]_vars => WindowCountsInv'
  <2> SUFFICES ASSUME WindowCountsInv, [Next]_vars PROVE WindowCountsInv'
    OBVIOUS
  <2>1. FirstWindowInv'
    BY FirstWindowStep DEF WindowCountsInv
  <2>2. CASE UNCHANGED vars
    <3>1. UNCHANGED << cfg, arrivals, window_start_us, window_pkt_counts, window_byte_counts >>
      BY <2>2, Zenon DEF vars, streamVars, windowVars
    <3> QED BY <2>1, <3>1, Zenon DEF WindowCountsInv, WindowsOn, WindowsInReach, Since, InWindow,
                                     Window
  <2>3. ASSUME NEW p \in Packets, NEW allocated \in BOOLEAN, Data(p, allocated)
        PROVE  WindowCountsInv'
    <3>1. arrivals \in Seq(Packet)
      BY DEF WindowCountsInv, FirstWindowInv
    <3>2. cfg' = cfg
      BY <2>3 DEF Data
    <3>3. (WindowsOn /\ WindowsInReach)' => \A w \in Window :
            /\ window_pkt_counts'[w] = Cardinality(InWindow(w)')
            /\ window_byte_counts'[w] = BytesAmong(arrivals', InWindow(w)') % (UIntMax + 1)
      <4> SUFFICES ASSUME WindowsOn', WindowsInReach'
                   PROVE  \A w \in Window :
                            /\ window_pkt_counts'[w] = Cardinality(InWindow(w)')
                            /\ window_byte_counts'[w]
                                 = BytesAmong(arrivals', InWindow(w)') % (UIntMax + 1)
        OBVIOUS
      <4>1. WindowsOn
        BY <3>2 DEF WindowsOn
      <4> QED BY <2>3, <4>1, WindowCountsStep
    <3>4. window_start_us' = IF arrivals' = << >> \/ ~WindowsOn THEN 0 ELSE arrivals'[1].ts
      <4>1. /\ arrivals' # << >> /\ p.ts # 0
            /\ arrivals = << >> => arrivals'[1] = p
            /\ arrivals # << >> => arrivals'[1] = arrivals[1] /\ arrivals[1].ts # 0
        <5>1. /\ arrivals' = Append(arrivals, p) /\ p.ts > 0 /\ p.ts \in Int /\ Len(arrivals) \in Nat
              /\ arrivals'[Len(arrivals) + 1] = p
              /\ \A i \in 1 .. Len(arrivals) : arrivals'[i] = arrivals[i] /\ arrivals[i] \in Packet
          BY <2>3, <3>1, Arrives
        <5>2. \A q \in Packet : q.ts # 0
          BY DEF Packet
        <5> QED BY <3>1, <5>1, <5>2
      <4>2. CASE WindowsOn
        <5>1. window_start_us' = IF window_start_us = 0 THEN p.ts ELSE window_start_us
          BY <2>3, <4>2, Zenon DEF Data, WindowPacket, WindowUpdate
        <5> QED BY <4>1, <4>2, <5>1, Zenon DEF WindowCountsInv
      <4>3. CASE ~WindowsOn
        <5>1. window_start_us' = window_start_us
          BY <2>3, <4>3, Zenon DEF Data, WindowPacket, windowVars
        <5> QED BY <4>3, <5>1, Zenon DEF WindowCountsInv
      <4> QED BY <4>2, <4>3
    <3>5. WindowsOn' <=> WindowsOn
      BY <3>2 DEF WindowsOn
    <3> QED BY <2>1, <3>3, <3>4, <3>5, Zenon DEF WindowCountsInv, Window
  <2> QED BY <2>2, <2>3 DEF Next
<1> QED BY WindowCountsInit, <1>1, <1>2, PTL DEF Spec
-----------------------------------------------------------------------------
(* What calc_burst_update does once no array is cut short.                 *)
Closes(p, capacity) == burst_pkt_count > 1 /\ Room(Len(bursts), capacity)

Closed(p) == [ size     |-> burst_byte_count,
               duration |-> Since(p.ts, burst_start_us),
               packets  |-> burst_pkt_count ]

LEMMA BurstMoves ==
  ASSUME BurstInv, refused \in Nat, NEW p \in Packets, NEW allocated \in BOOLEAN, Data(p, allocated)
  PROVE  /\ last_arrival_us' = p.ts
         /\ "enable_burst" \notin cfg.on => UNCHANGED burstVars
         /\ "enable_burst" \in cfg.on /\ Continues(BurstIat(p.ts)) =>
              /\ burst_byte_count' = (burst_byte_count + p.len) % (UIntMax + 1)
              /\ burst_pkt_count' = (burst_pkt_count + 1) % (UIntMax + 1)
              /\ bursts' = bursts /\ burst_start_us' = burst_start_us /\ refused' = refused
         /\ "enable_burst" \in cfg.on /\ ~Continues(BurstIat(p.ts)) =>
              /\ burst_byte_count' = p.len /\ burst_pkt_count' = 1 /\ burst_start_us' = p.ts
              /\ IF Closes(p, pool'.seq_len)
                   THEN bursts' = Append(bursts, Closed(p)) /\ refused' = refused
                   ELSE /\ bursts' = bursts
                        /\ refused' = refused + (IF burst_pkt_count > 1 THEN 1 ELSE 0)
<1>1. BurstPacket(p, pool'.seq_len) /\ last_arrival_us' = p.ts
  BY Zenon DEF Data, IatPacket, IatUpdate
<1>2. refused + 0 = refused /\ Carried(bursts) = bursts
  <2>1. Len(bursts) <= pool.seq_len /\ pool.seq_len \in Nat
    BY DEF BurstInv, BurstsWellFormed, PoolInv, Pool
  <2>2. refused + 0 = refused
    OBVIOUS
  <2> QED BY <2>1, <2>2, CarriedWhole DEF BurstInv
<1>3. CASE "enable_burst" \notin cfg.on
  BY <1>1, <1>3, Zenon DEF BurstPacket
<1>4. CASE "enable_burst" \in cfg.on /\ Continues(BurstIat(p.ts))
  BY <1>1, <1>2, <1>4, Zenon DEF BurstPacket, BurstContinues, BurstRestarts
<1>5. CASE "enable_burst" \in cfg.on /\ ~Continues(BurstIat(p.ts))
  <2>1. BurstRestarts(p, pool'.seq_len)
    BY <1>1, <1>5, Zenon DEF BurstPacket, BurstContinues
  <2>2. /\ burst_byte_count' = p.len /\ burst_pkt_count' = 1 /\ burst_start_us' = p.ts
        /\ bursts' = IF Closes(p, pool'.seq_len) THEN Append(bursts, Closed(p)) ELSE bursts
        /\ refused' = refused + (IF burst_pkt_count > 1 /\ ~Closes(p, pool'.seq_len)
                                   THEN 1 ELSE 0)
    BY <2>1, <1>2, Zenon DEF BurstRestarts, StartOfBurst, Closes, Closed
  <2>3. refused' = (IF Closes(p, pool'.seq_len) THEN refused + 0
                   ELSE refused + (IF burst_pkt_count > 1 THEN 1 ELSE 0))
    BY <2>2, Zenon
  <2> QED BY <1>1, <1>2, <1>5, <2>2, <2>3, Zenon
<1> QED BY <1>3, <1>4, <1>5

(* The open run is the one that begins at s: no packet after it begins one.*)
OpenSince(s) ==
  /\ s \in 1 .. Len(arrivals)
  /\ Begins(s)
  /\ \A k \in s + 1 .. Len(arrivals) : ~Begins(k)

LEMMA BeginsKept ==
  ASSUME arrivals \in Seq(Packet), NEW n \in Nat, n = Len(arrivals), NEW p \in Packets, NEW allocated \in BOOLEAN,
         Data(p, allocated),
         last_arrival_us = IF arrivals = << >> THEN 0 ELSE arrivals[n].ts
  PROVE  /\ \A i \in 1 .. n : Begins(i)' <=> Begins(i)
         /\ arrivals = << >> => Continues(BurstIat(p.ts))
         /\ arrivals # << >> => (Begins(n + 1)' <=> ~Continues(BurstIat(p.ts)))
<1>1. /\ n \in Nat /\ arrivals'[n + 1] = p /\ p.ts \in Int
      /\ \A i \in 1 .. n : /\ arrivals'[i] = arrivals[i]
                           /\ arrivals[i] \in Packet /\ arrivals[i].ts \in Int
  BY Arrives
<1>2. ASSUME NEW i \in 1 .. n PROVE Begins(i)' <=> Begins(i)
  <2>1. i # 1 => i - 1 \in 1 .. n
    OBVIOUS
  <2>2. arrivals'[i] = arrivals[i] /\ (i # 1 => arrivals'[i - 1] = arrivals[i - 1])
    BY <1>1, <2>1
  <2> QED BY <2>2, Zenon DEF Begins, Since
<1>3. arrivals = << >> => Continues(BurstIat(p.ts))
  <2>1. 0 <= BurstThreshold /\ ~(0 > 0)
    BY BurstThresholdIsNat
  <2> QED BY <2>1, Zenon DEF Continues, BurstIat
<1>4. ASSUME arrivals # << >>
      PROVE  Begins(n + 1)' <=> ~Continues(BurstIat(p.ts))
  <2>1. n \in 1 .. n /\ n + 1 # 1 /\ (n + 1) - 1 = n
    BY <1>1, <1>4
  <2>2. /\ arrivals[n].ts \in Int /\ arrivals[n].ts > 0 /\ arrivals'[n] = arrivals[n]
    <3>1. \A q \in Packet : q.ts > 0
      BY DEF Packet
    <3> QED BY <1>1, <2>1, <3>1
  <2>3. BurstIat(p.ts) = Since(p.ts, arrivals[n].ts)
    BY <1>4, <2>2, Zenon DEF BurstIat
  <2>4. Begins(n + 1)' <=> Since(p.ts, arrivals[n].ts) > BurstThreshold
    <3> DEFINE j == n + 1
    <3>1. arrivals'[j - 1] = arrivals[n] /\ arrivals'[j] = p /\ j # 1
      BY <1>1, <2>1, <2>2
    <3> HIDE DEF j
    <3>2. Begins(j)' <=> Since(p.ts, arrivals[n].ts) > BurstThreshold
      <4>1. Since(arrivals'[j].ts, arrivals'[j - 1].ts) = Since(p.ts, arrivals[n].ts)
        BY <3>1, Zenon
      <4>2. Begins(j)' <=> j = 1 \/ Since(arrivals'[j].ts, arrivals'[j - 1].ts) > BurstThreshold
        BY Zenon DEF Begins, Since
      <4> QED BY <3>1, <4>1, <4>2
    <3> QED BY <3>2 DEF j
  <2>5. Since(p.ts, arrivals[n].ts) \in Int
    BY <1>1, <2>2, SinceInRange
  <2> QED BY <2>3, <2>4, <2>5, BurstThresholdIsNat DEF Continues
<1> QED BY <1>2, <1>3, <1>4

(* A run is closed by the packet that begins the next: the open one, when  *)
(* it has two packets; the closed runs all come before the open one.       *)
LEMMA RunsGrow ==
  ASSUME NEW n \in Nat, n = Len(arrivals), Len(arrivals') = n + 1,
         \A i \in 1 .. n : Begins(i)' <=> Begins(i),
         NEW s, OpenSince(s)
  PROVE  /\ \A r \in Runs : /\ r.first \in 1 .. n /\ r.last \in 1 .. n
                            /\ r.first < r.last /\ r.last < s
         /\ ~Begins(n + 1)' => Runs' = Runs /\ OpenSince(s)'
         /\ Begins(n + 1)' =>
              /\ Runs' = Runs \cup (IF s < n THEN {[first |-> s, last |-> n]} ELSE {})
              /\ OpenSince(n + 1)'
<1> DEFINE new == [first |-> s, last |-> n]
<1>1. /\ s \in 1 .. n /\ Begins(s) /\ \A k \in s + 1 .. n : ~Begins(k)
  BY DEF OpenSince
<1>2. ASSUME NEW r \in Runs
      PROVE  /\ r \in [first : 1 .. n, last : 1 .. n]
             /\ r.first \in 1 .. n /\ r.last \in 1 .. n
             /\ r.first < r.last /\ r.last < n /\ r.last + 1 \in 1 .. n
             /\ Begins(r.first) /\ Begins(r.last + 1)
             /\ \A k \in r.first + 1 .. r.last : ~Begins(k)
             /\ r.last < s
  <2>1. /\ r \in [first : 1 .. n, last : 1 .. n]
        /\ r.first < r.last /\ r.last < n
        /\ Begins(r.first) /\ Begins(r.last + 1)
        /\ \A k \in r.first + 1 .. r.last : ~Begins(k)
    BY <1>2, Zenon DEF Runs
  <2>2. r.first \in 1 .. n /\ r.last \in 1 .. n
    BY <2>1
  <2>3. r.last + 1 \in 1 .. n
    BY <2>1, <2>2
  <2>4. r.last + 1 \notin s + 1 .. n
    BY <1>1, <2>1, Zenon
  <2>5. r.last < s
    BY <1>1, <2>2, <2>3, <2>4
  <2> QED BY <2>1, <2>2, <2>3, <2>5
<1>3. ASSUME NEW r \in Runs' 
      PROVE  /\ r \in [first : 1 .. n + 1, last : 1 .. n + 1]
             /\ r.first < r.last /\ r.last < n + 1
             /\ Begins(r.first)' /\ Begins(r.last + 1)'
             /\ \A k \in r.first + 1 .. r.last : ~Begins(k)'
             /\ r.first \in 1 .. n /\ r.last \in 1 .. n
  <2>1. /\ r \in [first : 1 .. n + 1, last : 1 .. n + 1]
        /\ r.first < r.last /\ r.last < n + 1
        /\ Begins(r.first)' /\ Begins(r.last + 1)'
        /\ \A k \in r.first + 1 .. r.last : ~Begins(k)'
    BY <1>3, Zenon DEF Runs
  <2> QED BY <2>1
<1>4. ASSUME NEW r \in Runs PROVE r \in Runs'
  <2>1. /\ r \in [first : 1 .. n + 1, last : 1 .. n + 1] /\ r.last < n + 1
    BY <1>2
  <2>2. Begins(r.first)' /\ Begins(r.last + 1)'
    BY <1>2, Zenon
  <2>3. \A k \in r.first + 1 .. r.last : ~Begins(k)'
    <3>1. \A k \in r.first + 1 .. r.last : k \in 1 .. n
      BY <1>2
    <3> QED BY <1>2, <3>1, Zenon
  <2> QED BY <1>2, <2>1, <2>2, <2>3, Zenon DEF Runs
<1>5. ASSUME NEW r \in Runs', r.last < n PROVE r \in Runs
  <2>1. /\ r \in [first : 1 .. n, last : 1 .. n] /\ r.last + 1 \in 1 .. n
    BY <1>3, <1>5
  <2>2. Begins(r.first) /\ Begins(r.last + 1)
    BY <1>3, <2>1, Zenon
  <2>3. \A k \in r.first + 1 .. r.last : ~Begins(k)
    <3>1. \A k \in r.first + 1 .. r.last : k \in 1 .. n
      BY <1>3
    <3> QED BY <1>3, <3>1, Zenon
  <2> QED BY <1>3, <1>5, <2>1, <2>2, <2>3, Zenon DEF Runs
<1>6. ASSUME NEW r \in Runs', ~(r.last < n)
      PROVE  Begins(n + 1)' /\ s < n /\ r = new
  <2>1. r.last = n
    BY <1>3, <1>6
  <2>2. r.first \notin s + 1 .. n
    BY <1>1, <1>3, Zenon
  <2>3. s \notin r.first + 1 .. n
    BY <1>1, <1>3, <2>1, Zenon
  <2>4. r.first = s
    BY <1>1, <1>3, <2>1, <2>2, <2>3
  <2> QED BY <1>3, <2>1, <2>4
<1>7. ASSUME Begins(n + 1)', s < n PROVE new \in Runs'
  <2>1. new \in [first : 1 .. n + 1, last : 1 .. n + 1]
    BY <1>1
  <2>2. new.first = s /\ new.last = n
    OBVIOUS
  <2>3. \A k \in s + 1 .. n : ~Begins(k)'
    <3>1. \A k \in s + 1 .. n : k \in 1 .. n
      BY <1>1
    <3> QED BY <1>1, <3>1, Zenon
  <2>4. Begins(s)' /\ n < n + 1
    <3>1. n < n + 1
      OBVIOUS
    <3> QED BY <1>1, <3>1, Zenon
  <2> HIDE DEF new
  <2> QED BY <1>7, <2>1, <2>2, <2>3, <2>4, Zenon DEF Runs
<1>8. ~Begins(n + 1)' => Runs' = Runs
  BY <1>4, <1>5, <1>6, Zenon
<1>9. Begins(n + 1)' => Runs' = Runs \cup (IF s < n THEN {new} ELSE {})
  BY <1>4, <1>5, <1>6, <1>7, Zenon
<1>10. ~Begins(n + 1)' => OpenSince(s)'
  <2> SUFFICES ASSUME ~Begins(n + 1)' PROVE OpenSince(s)'
    OBVIOUS
  <2>1. s \in 1 .. n + 1 /\ \A k \in s + 1 .. n + 1 : (k \in 1 .. n /\ k \in s + 1 .. n) \/ k = n + 1
    BY <1>1
  <2>2. \A k \in s + 1 .. n + 1 : ~Begins(k)'
    BY <1>1, <2>1, Zenon
  <2> QED BY <1>1, <2>1, <2>2, Zenon DEF OpenSince
<1>11. Begins(n + 1)' => OpenSince(n + 1)'
  <2>1. n + 1 \in 1 .. n + 1 /\ \A k \in (n + 1) + 1 .. n + 1 : FALSE
    OBVIOUS
  <2> QED BY <2>1, Zenon DEF OpenSince
<1> QED BY <1>2, <1>8, <1>9, <1>10, <1>11, Zenon

(* The number of a run, and what one run more does to the numbers.         *)
LEMMA RunIsNumbered ==
  ASSUME IsFiniteSet(Runs), NEW r \in Runs
  PROVE  Number(r) \in Nat /\ 1 <= Number(r) /\ Number(r) <= Cardinality(Runs)
<1> DEFINE S == {q \in Runs : q.first <= r.first}
<1>1. r.first <= r.first
  <2>1. r.first \in Int
    BY DEF Runs
  <2> QED BY <2>1
<1>2. r \in S /\ S \in SUBSET Runs
  BY <1>1
<1> HIDE DEF S
<1>3. /\ IsFiniteSet(S) /\ Cardinality(S) \in Nat /\ Cardinality(Runs) \in Nat
      /\ Cardinality(S) <= Cardinality(Runs)
  BY <1>2, FS_Subset, FS_CardinalityType
<1>4. Cardinality(S) # 0
  BY <1>2, <1>3, FS_EmptySet
<1> QED BY <1>3, <1>4 DEF Number, S

LEMMA NumbersKept ==
  ASSUME IsFiniteSet(Runs), NEW s \in Int, NEW n \in Int, Runs' = Runs \cup {[first |-> s, last |-> n]},
         \A r \in Runs : r.first \in Int /\ r.first < s
  PROVE  /\ Cardinality(Runs) \in Nat
         /\ IsFiniteSet(Runs') /\ Cardinality(Runs') = Cardinality(Runs) + 1
         /\ \A r \in Runs : Number(r)' = Number(r)
         /\ Number([first |-> s, last |-> n])' = Cardinality(Runs) + 1
<1> DEFINE new == [first |-> s, last |-> n]
<1>1. new.first = s
  OBVIOUS
<1> HIDE DEF new
<1>2. new \notin Runs
  <2> SUFFICES ASSUME new \in Runs PROVE FALSE
    OBVIOUS
  <2>1. s < s
    BY <1>1
  <2> QED BY <2>1
<1>3. Runs' = Runs \cup {new}
  BY DEF new
<1>4. /\ Cardinality(Runs) \in Nat
      /\ IsFiniteSet(Runs') /\ Cardinality(Runs') = Cardinality(Runs) + 1
  <2>1. Cardinality(Runs) \in Nat
    BY FS_CardinalityType
  <2>2. /\ IsFiniteSet(Runs \cup {new})
        /\ Cardinality(Runs \cup {new})
             = IF new \in Runs THEN Cardinality(Runs) ELSE Cardinality(Runs) + 1
    BY FS_AddElement, Zenon
  <2> QED BY <1>2, <1>3, <2>1, <2>2, Zenon
<1>5. ASSUME NEW r \in Runs PROVE Number(r)' = Number(r)
  <2>1. ~(new.first <= r.first)
    BY <1>1
  <2>2. {q \in Runs' : q.first <= r.first} = {q \in Runs : q.first <= r.first}
    BY <1>3, <2>1, Zenon
  <2> QED BY <2>2, Zenon DEF Number
<1>6. Number(new)' = Cardinality(Runs')
  <2>1. \A q \in Runs' : q.first <= new.first
    BY <1>1, <1>3
  <2>2. {q \in Runs' : q.first <= new.first} = Runs'
    BY <2>1, Zenon
  <2> QED BY <2>2, Zenon DEF Number
<1> QED BY <1>4, <1>5, <1>6 DEF new

(* What BurstsAreRuns says of the bursts, whatever the configuration.      *)
RunsRecorded ==
  /\ Len(bursts) + refused = Cardinality(Runs)
  /\ refused = 0 => \A r \in Runs :
       /\ bursts[Number(r)].packets = r.last - r.first + 1
       /\ bursts[Number(r)].size = BytesAmong(arrivals, r.first .. r.last) % (UIntMax + 1)

LEMMA OldBytesKept ==
  ASSUME NEW seq \in Seq(Packet), NEW p \in Packet, NEW f, NEW l \in 0 .. Len(seq)
  PROVE  BytesAmong(Append(seq, p), f .. l) = BytesAmong(seq, f .. l)
<1> DEFINE S == f .. l
<1>1. Len(seq) + 1 \notin S
  OBVIOUS
<1>2. \A i \in 1 .. Len(seq) : i \in S <=> i \in S
  OBVIOUS
<1> HIDE DEF S
<1>3. /\ BytesAmong(seq, S) \in Int
      /\ BytesAmong(Append(seq, p), S)
           = BytesAmong(seq, S) + (IF Len(seq) + 1 \in S THEN p.len ELSE 0)
  BY <1>2, BytesGrow
<1> QED BY <1>1, <1>3 DEF S

LEMMA BytesOfNoPosition ==
  ASSUME NEW seq \in Seq(Packet), NEW f, f \in Int, NEW l \in Int, l < f
  PROVE  BytesAmong(seq, f .. l) = 0
<1> DEFINE s == [i \in 1 .. Len(seq) |-> IF i \in f .. l THEN seq[i].len ELSE 0]
           n == Len(seq)
<1>1. f .. l = {} /\ n \in Nat
  OBVIOUS
<1>2. s = [i \in 1 .. n |-> 0]
  BY <1>1, Zenon
<1>3. s \in Seq(Int) /\ Len(s) = n /\ \A i \in 1 .. n : s[i] = 0
  <2> HIDE DEF s
  <2> QED BY <1>1, <1>2
<1> HIDE DEF s
<1>4. Total(s) = 0
  BY <1>3, TotalOfZeros, Zenon
<1> QED BY <1>4, Zenon DEF BytesAmong, s, n

(* The bytes from position s on, with a packet more.                       *)
LEMMA BytesFrom ==
  ASSUME NEW seq \in Seq(Packet), NEW p \in Packet, NEW n \in Nat, n = Len(seq),
         NEW s \in 1 .. n
  PROVE  /\ BytesAmong(seq, s .. n) \in Int
         /\ BytesAmong(Append(seq, p), s .. n + 1) = BytesAmong(seq, s .. n) + p.len
<1> DEFINE S == s .. n
           T == s .. n + 1
<1>1. n + 1 \in T /\ \A i \in 1 .. Len(seq) : i \in T <=> i \in S
  OBVIOUS
<1> HIDE DEF S, T
<1>2. /\ BytesAmong(seq, S) \in Int
      /\ BytesAmong(Append(seq, p), T) = BytesAmong(seq, S) + (IF Len(seq) + 1 \in T THEN p.len ELSE 0)
  BY <1>1, BytesGrow
<1> QED BY <1>1, <1>2 DEF S, T

LEMMA BytesOfLast ==
  ASSUME NEW seq \in Seq(Packet), NEW p \in Packet, NEW n \in Nat, n = Len(seq) + 1
  PROVE  BytesAmong(Append(seq, p), n .. n) = p.len
<1> DEFINE S == n .. n - 1
           T == n .. n
<1>1. n \in T /\ \A i \in 1 .. Len(seq) : i \in T <=> i \in S
  OBVIOUS
<1>2. BytesAmong(seq, S) = 0
  <2>1. n \in Int /\ n - 1 \in Int /\ n - 1 < n
    OBVIOUS
  <2> QED BY <2>1, BytesOfNoPosition, Zenon
<1> HIDE DEF S, T
<1>3. BytesAmong(Append(seq, p), T) = BytesAmong(seq, S) + (IF Len(seq) + 1 \in T THEN p.len ELSE 0)
  BY <1>1, BytesGrow
<1>4. p.len \in Int
  BY PoolSizes DEF Packet
<1> QED BY <1>1, <1>2, <1>3, <1>4 DEF T

LEMMA RecordsKept ==
  ASSUME IsFiniteSet(Runs), RunsRecorded, arrivals \in Seq(Packet), NEW p \in Packet,
         arrivals' = Append(arrivals, p),
         \A r \in Runs : /\ r.first \in 1 .. Len(arrivals) /\ r.last \in 1 .. Len(arrivals),
         Runs' = Runs, bursts' = bursts, refused' = refused
  PROVE  RunsRecorded'
<1>1. \A r \in Runs : Number(r)' = Number(r)
  BY Zenon DEF Number
<1>2. ASSUME NEW r \in Runs
      PROVE  BytesAmong(arrivals', r.first .. r.last) = BytesAmong(arrivals, r.first .. r.last)
  <2>1. r.last \in 0 .. Len(arrivals)
    BY <1>2
  <2> QED BY <2>1, OldBytesKept, Zenon
<1> QED BY <1>1, <1>2, Zenon DEF RunsRecorded

LEMMA RecordAdded ==
  ASSUME IsFiniteSet(Runs), RunsRecorded, arrivals \in Seq(Packet), NEW p \in Packet,
         arrivals' = Append(arrivals, p), bursts \in Seq(Burst), refused \in Nat,
         NEW s \in Int, NEW n \in Nat, n = Len(arrivals), s \in 1 .. n,
         Runs' = Runs \cup {[first |-> s, last |-> n]},
         \A r \in Runs : /\ r.first \in 1 .. n /\ r.last \in 1 .. n /\ r.first < s,
         NEW closed \in Burst, closed.packets = n - s + 1,
         closed.size = BytesAmong(arrivals, s .. n) % (UIntMax + 1),
         IF refused' = refused THEN bursts' = Append(bursts, closed)
                               ELSE bursts' = bursts /\ refused' = refused + 1
  PROVE  RunsRecorded'
<1> DEFINE new == [first |-> s, last |-> n]
<1>0. new.first = s /\ new.last = n /\ Len(bursts) \in Nat
  OBVIOUS
<1>1. /\ Cardinality(Runs) \in Nat /\ Cardinality(Runs') = Cardinality(Runs) + 1
      /\ \A r \in Runs : Number(r)' = Number(r)
      /\ Number(new)' = Cardinality(Runs) + 1
  <2>1. n \in Int /\ \A r \in Runs : r.first \in Int /\ r.first < s
    OBVIOUS
  <2>2. IsFiniteSet(Runs) /\ Runs' = Runs \cup {[first |-> s, last |-> n]}
    OBVIOUS
  <2> QED BY ONLY <2>1, <2>2, NumbersKept, ZenonT(60)
<1> HIDE DEF new
<1>2. Len(bursts') + refused' = Cardinality(Runs')
  BY <1>0, <1>1 DEF RunsRecorded
<1>3. ASSUME NEW f \in 1 .. n, NEW l \in 1 .. n
      PROVE  BytesAmong(arrivals', f .. l) = BytesAmong(arrivals, f .. l)
  <2>1. l \in 0 .. Len(arrivals)
    BY <1>3
  <2> QED BY <2>1, OldBytesKept, ZenonT(40)
<1>4. ASSUME refused' = 0, NEW r \in Runs'
      PROVE  LET burst == bursts'[Number(r)']
             IN  /\ burst.packets = r.last - r.first + 1
                 /\ burst.size = BytesAmong(arrivals', r.first .. r.last) % (UIntMax + 1)
  <2>1. refused = 0 /\ bursts' = Append(bursts, closed) /\ Len(bursts) = Cardinality(Runs)
    BY <1>0, <1>1, <1>4 DEF RunsRecorded
  <2>2. CASE r \in Runs
    <3>1. Number(r) \in Nat /\ 1 <= Number(r) /\ Number(r) <= Len(bursts)
      BY <2>1, <2>2, RunIsNumbered
    <3>2. bursts'[Number(r)'] = bursts[Number(r)]
      <4>1. Append(bursts, closed)[Number(r)] = bursts[Number(r)]
        BY <3>1
      <4> QED BY <1>1, <2>1, <2>2, <4>1, Zenon
    <3>3. BytesAmong(arrivals', r.first .. r.last) = BytesAmong(arrivals, r.first .. r.last)
      BY <1>3, <2>2
    <3> QED BY <2>1, <2>2, <3>2, <3>3, Zenon DEF RunsRecorded
  <2>3. CASE r \notin Runs
    <3>1. r = new
      BY <2>3, Zenon DEF new
    <3>2. Append(bursts, closed)[Len(bursts) + 1] = closed
      OBVIOUS
    <3>3. bursts'[Number(r)'] = closed
      BY <1>1, <2>1, <3>1, <3>2, Zenon
    <3>4. BytesAmong(arrivals', s .. n) = BytesAmong(arrivals, s .. n)
      BY <1>3
    <3> QED BY <1>0, <3>1, <3>3, <3>4
  <2> QED BY <2>2, <2>3
<1> QED BY <1>2, <1>4, Zenon DEF RunsRecorded

(* The recorded runs, and the open one with what it has had so far.        *)
OpenRun ==
  \E s \in 1 .. Len(arrivals) :
    /\ OpenSince(s)
    /\ burst_pkt_count = Len(arrivals) - s + 1
    /\ burst_byte_count = BytesAmong(arrivals, s .. Len(arrivals)) % (UIntMax + 1)

BurstRunsInv ==
  /\ BurstInv
  /\ arrivals \in Seq(Packet)
  /\ last_arrival_us = IF arrivals = << >> THEN 0 ELSE arrivals[Len(arrivals)].ts
  /\ refused \in Nat
  /\ "enable_burst" \in cfg.on =>
       /\ IsFiniteSet(Runs)
       /\ RunsRecorded
       /\ IF arrivals = << >>
            THEN /\ bursts = << >> /\ refused = 0
                 /\ burst_pkt_count = 0 /\ burst_byte_count = 0
            ELSE OpenRun

LEMMA BurstRunsInit == Init => BurstRunsInv
<1> SUFFICES ASSUME Init PROVE BurstRunsInv
  OBVIOUS
<1>1. /\ arrivals = << >> /\ last_arrival_us = 0 /\ bursts = << >> /\ refused = 0
      /\ burst_pkt_count = 0 /\ burst_byte_count = 0
  BY DEF Init, StreamInit, BurstInit
<1>2. BurstInv
  BY BurstInvInit
<1>3. Runs = {}
  BY <1>1 DEF Runs
<1>4. IsFiniteSet(Runs) /\ Cardinality(Runs) = 0
  BY <1>3, FS_EmptySet
<1>5. RunsRecorded
  <2>1. Len(bursts) + refused = 0
    BY <1>1
  <2> QED BY <2>1, <1>3, <1>4, Zenon DEF RunsRecorded
<1> QED BY <1>1, <1>2, <1>4, <1>5 DEF BurstRunsInv

LEMMA FirstRunOpens ==
  ASSUME BurstRunsInv, NEW p \in Packets, NEW allocated \in BOOLEAN, Data(p, allocated),
         "enable_burst" \in cfg.on, arrivals = << >>
  PROVE  IsFiniteSet(Runs') /\ RunsRecorded' /\ OpenRun'
<1>1. /\ arrivals' = Append(arrivals, p) /\ p \in Packet /\ p.len \in 0 .. UIntMax
      /\ p.len \in Int /\ arrivals \in Seq(Packet)
  BY Arrives DEF BurstRunsInv
<1>2. /\ Len(arrivals) = 0 /\ Len(arrivals') = 1 /\ 0 \in Nat
  BY <1>1
<1>3. Continues(BurstIat(p.ts))
  BY <1>2, BeginsKept DEF BurstRunsInv
<1>4. /\ burst_byte_count' = (0 + p.len) % (UIntMax + 1)
      /\ burst_pkt_count' = (0 + 1) % (UIntMax + 1)
      /\ bursts' = << >> /\ refused' = 0
  BY <1>3, BurstMoves, Zenon DEF BurstRunsInv
<1>5. (0 + 1) % (UIntMax + 1) = 1 /\ 0 + p.len = p.len
  <2>1. UIntMax \in Nat /\ UIntMax > 0
    BY PoolSizes, SeqLenGrows DEF Level, Tiny, Large
  <2> QED BY <1>1, <2>1
<1>6. Runs' = {}
  BY <1>2 DEF Runs
<1>7. IsFiniteSet(Runs') /\ RunsRecorded'
  <2>1. IsFiniteSet(Runs') /\ Cardinality(Runs') = 0
    BY <1>6, FS_EmptySet
  <2>2. Len(bursts') + refused' = 0
    BY <1>4
  <2> QED BY <2>1, <2>2, <1>6, Zenon DEF RunsRecorded
<1>8. BytesAmong(arrivals', 1 .. 1) = p.len
  <2>1. 1 \in Nat /\ 1 = Len(arrivals) + 1
    BY <1>2
  <2> QED BY <1>1, <2>1, BytesOfLast, Zenon
<1>9. OpenRun'
  <2>1. 1 \in 1 .. Len(arrivals') /\ 1 = Len(arrivals') - 1 + 1
        /\ \A k \in 1 + 1 .. Len(arrivals') : FALSE
    BY <1>2
  <2>2. OpenSince(1)'
    BY <2>1, Zenon DEF OpenSince, Begins
  <2>3. burst_pkt_count' = Len(arrivals') - 1 + 1
    BY <1>4, <1>5, <2>1, Zenon
  <2>4. burst_byte_count' = BytesAmong(arrivals', 1 .. Len(arrivals')) % (UIntMax + 1)
    BY <1>2, <1>4, <1>5, <1>8, Zenon
  <2> QED BY <2>1, <2>2, <2>3, <2>4, Zenon DEF OpenRun
<1> QED BY <1>7, <1>9

LEMMA RunsStep ==
  ASSUME MaxPackets <= UIntMax, BurstRunsInv,
         NEW p \in Packets, NEW allocated \in BOOLEAN, Data(p, allocated),
         "enable_burst" \in cfg.on, arrivals # << >>
  PROVE  IsFiniteSet(Runs') /\ RunsRecorded' /\ OpenRun'
<1> PICK n \in Nat : n = Len(arrivals)
  BY DEF BurstRunsInv
<1> DEFINE m == UIntMax + 1
<1>1. /\ arrivals' = Append(arrivals, p) /\ p \in Packet /\ p.len \in 0 .. UIntMax
      /\ p.len \in Int /\ p.ts \in Int /\ arrivals \in Seq(Packet) /\ arrivals' \in Seq(Packet)
      /\ Len(arrivals') = n + 1 /\ n + 1 <= MaxPackets /\ n + 1 <= UIntMax
      /\ n \in 1 .. n /\ m \in Nat \ {0}
  <2>1. arrivals \in Seq(Packet)
    BY DEF BurstRunsInv
  <2> QED BY <2>1, Arrives, StreamConstants, PoolSizes
<1>2. /\ \A i \in 1 .. n : Begins(i)' <=> Begins(i)
      /\ Begins(n + 1)' <=> ~Continues(BurstIat(p.ts))
  BY <1>1, BeginsKept DEF BurstRunsInv
<1>3. /\ IsFiniteSet(Runs) /\ RunsRecorded /\ refused \in Nat /\ BurstInv
      /\ bursts \in Seq(Burst) /\ burst_start_us \in Int
  BY StreamConstants DEF BurstRunsInv, BurstInv, BurstsWellFormed
<1>4. PICK s \in 1 .. n :
        /\ OpenSince(s)
        /\ burst_pkt_count = n - s + 1
        /\ burst_byte_count = BytesAmong(arrivals, s .. n) % m
  BY Zenon DEF BurstRunsInv, OpenRun
<1>s. s \in Int
  OBVIOUS
<1>5. /\ \A r \in Runs : /\ r.first \in 1 .. n /\ r.last \in 1 .. n
                         /\ r.first < r.last /\ r.last < s
      /\ ~Begins(n + 1)' => Runs' = Runs /\ OpenSince(s)'
      /\ Begins(n + 1)' =>
           /\ Runs' = Runs \cup (IF s < n THEN {[first |-> s, last |-> n]} ELSE {})
           /\ OpenSince(n + 1)'
  <2>1. /\ n = Len(arrivals) /\ Len(arrivals') = n + 1
        /\ \A i \in 1 .. n : Begins(i)' <=> Begins(i)
    BY <1>1, <1>2
  <2> QED BY <1>4, <2>1, RunsGrow
<1>6. /\ BytesAmong(arrivals, s .. n) \in Int
      /\ BytesAmong(arrivals', s .. n + 1) = BytesAmong(arrivals, s .. n) + p.len
      /\ BytesAmong(arrivals', n + 1 .. n + 1) = p.len
  <2>1. n + 1 \in Nat /\ n + 1 = Len(arrivals) + 1
    OBVIOUS
  <2>2. /\ BytesAmong(arrivals, s .. n) \in Int
        /\ BytesAmong(arrivals', s .. n + 1) = BytesAmong(arrivals, s .. n) + p.len
    BY <1>1, <2>1, BytesFrom, SMT
  <2>3. BytesAmong(arrivals', n + 1 .. n + 1) = p.len
    BY <1>1, <2>1, BytesOfLast, Zenon
  <2> QED BY <1>1, <2>2, <2>3
<1>7. CASE Continues(BurstIat(p.ts))
  <2>1. /\ burst_byte_count' = (burst_byte_count + p.len) % m
        /\ burst_pkt_count' = (burst_pkt_count + 1) % m
        /\ bursts' = bursts /\ refused' = refused
    BY <1>3, <1>7, BurstMoves, Zenon
  <2>2. Runs' = Runs /\ OpenSince(s)'
    BY <1>2, <1>5, <1>7, Zenon
  <2>3. RunsRecorded'
    BY <1>1, <1>3, <1>5, <2>1, <2>2, RecordsKept, Zenon
  <2>4. burst_pkt_count' = (n + 1) - s + 1
    <3> DEFINE c == burst_pkt_count + 1
    <3>1. c \in 0 .. UIntMax /\ c = (n + 1) - s + 1
      BY <1>1, <1>4, PoolSizes
    <3> HIDE DEF c
    <3>2. c % m = c
      <4>1. m \in Nat \ {0} /\ c \in Int /\ 0 <= c /\ c < m
        BY <3>1, PoolSizes
      <4> HIDE DEF m
      <4> QED BY <4>1, RestOfSmall, Zenon
    <3> QED BY <2>1, <3>1, <3>2, Zenon DEF c
  <2>5. burst_byte_count' = BytesAmong(arrivals', s .. n + 1) % m
    <3> HIDE DEF m
    <3>1. ((BytesAmong(arrivals, s .. n) % m) + p.len) % m = (BytesAmong(arrivals, s .. n) + p.len) % m
      BY <1>1, <1>6, RestAdds, Zenon
    <3> QED BY <1>4, <1>6, <2>1, <3>1, Zenon
  <2>6. OpenRun'
    <3>1. s \in 1 .. n + 1
      OBVIOUS
    <3> QED BY <1>1, <2>2, <2>4, <2>5, <3>1, Zenon DEF OpenRun
  <2> QED BY <1>3, <2>2, <2>3, <2>6, Zenon
<1>8. CASE ~Continues(BurstIat(p.ts))
  <2>1. /\ burst_byte_count' = p.len /\ burst_pkt_count' = 1
        /\ IF Closes(p, pool'.seq_len)
             THEN bursts' = Append(bursts, Closed(p)) /\ refused' = refused
             ELSE /\ bursts' = bursts
                  /\ refused' = refused + (IF burst_pkt_count > 1 THEN 1 ELSE 0)
    BY <1>3, <1>8, BurstMoves, Zenon
  <2>2. /\ OpenSince(n + 1)'
        /\ Runs' = Runs \cup (IF s < n THEN {[first |-> s, last |-> n]} ELSE {})
    BY <1>2, <1>5, <1>8, Zenon
  <2>3. OpenRun'
    <3>1. n + 1 \in 1 .. n + 1 /\ 1 = (n + 1) - (n + 1) + 1 /\ p.len % m = p.len
      <4> DEFINE c == p.len
      <4>1. c \in 0 .. UIntMax
        BY <1>1
      <4> HIDE DEF c
      <4>2. c % m = c
        BY <4>1, PoolSizes, SMT
      <4>3. n + 1 \in 1 .. n + 1 /\ 1 = (n + 1) - (n + 1) + 1
        OBVIOUS
      <4> QED BY <4>2, <4>3 DEF c
    <3>2. burst_pkt_count' = (n + 1) - (n + 1) + 1
      BY <2>1, <3>1, Zenon
    <3>3. burst_byte_count' = BytesAmong(arrivals', n + 1 .. n + 1) % m
      BY <1>6, <2>1, <3>1, Zenon
    <3> QED BY <1>1, <2>2, <3>1, <3>2, <3>3, Zenon DEF OpenRun
  <2>4. CASE s < n
    <3>1. /\ burst_pkt_count > 1 /\ \A r \in Runs : r.first \in Int /\ r.first < s
          /\ n \in Int
      <4>1. burst_pkt_count = n - s + 1 /\ s \in 1 .. n
        BY <1>4
      <4>2. burst_pkt_count > 1 /\ n \in Int
        BY <2>4, <4>1
      <4>3. \A r \in Runs : r.first \in 1 .. n /\ r.last \in 1 .. n /\ r.first < r.last /\ r.last < s
        BY <1>5, Zenon
      <4>4. \A r \in Runs : r.first \in Int /\ r.first < s
        BY <4>1, <4>3
      <4> QED BY <4>2, <4>4
    <3>2. Closed(p) \in Burst
      <4>1. Since(p.ts, burst_start_us) \in Int
        BY <1>1, <1>3, SinceInRange
      <4>2. burst_byte_count \in Int /\ burst_pkt_count \in Int
        BY <1>3, PoolSizes DEF BurstInv, BurstsWellFormed
      <4> QED BY <4>1, <4>2 DEF Closed, Burst
    <3>3. /\ Closed(p).packets = n - s + 1
          /\ Closed(p).size = BytesAmong(arrivals, s .. n) % (UIntMax + 1)
      BY <1>4 DEF Closed
    <3>4. IF refused' = refused THEN bursts' = Append(bursts, Closed(p))
                                ELSE bursts' = bursts /\ refused' = refused + 1
      <4>1. refused + 1 # refused
        BY <1>3
      <4> QED BY <2>1, <3>1, <4>1, Zenon
    <3>5. Runs' = Runs \cup {[first |-> s, last |-> n]}
      BY <2>2, <2>4, Zenon
    <3>6. IsFiniteSet(Runs')
      BY <1>3, <1>s, <3>1, <3>5, NumbersKept, Zenon
    <3>7. \A r \in Runs : r.first \in 1 .. n /\ r.last \in 1 .. n /\ r.first < s
      BY <1>5, <3>1, Zenon
    <3> DEFINE closed == Closed(p)
    <3> HIDE DEF closed
    <3>8. RunsRecorded'
      BY <1>1, <1>3, <1>s, <3>2, <3>3, <3>4, <3>5, <3>7, RecordAdded, Zenon DEF closed
    <3> QED BY <2>3, <3>6, <3>8
  <2>5. CASE ~(s < n)
    <3>1. ~(burst_pkt_count > 1) /\ refused + 0 = refused
      BY <1>1, <1>3, <1>4, <2>5
    <3>2. Runs' = Runs /\ bursts' = bursts /\ refused' = refused
      BY <2>1, <2>2, <2>5, <3>1, Zenon DEF Closes
    <3>3. RunsRecorded'
      BY <1>1, <1>3, <1>5, <3>2, RecordsKept, Zenon
    <3> QED BY <1>3, <2>3, <3>2, <3>3, Zenon
  <2> QED BY <2>4, <2>5
<1> QED BY <1>7, <1>8

(* calc_burst_update records the maximal runs of packets no further apart  *)
(* than the threshold, in order and with their packets and bytes, however  *)
(* many upgrades and denials there are on the way, as long as a burst's    *)
(* packets can be counted in 32 bits.                                      *)
THEOREM BurstsRecordRuns ==
  ASSUME MaxPackets <= UIntMax
  PROVE  Spec => []BurstsAreRuns
<1>1. BurstRunsInv => BurstsAreRuns
  BY Zenon DEF BurstRunsInv, RunsRecorded, BurstsAreRuns, BytesAmong, BytesAt
<1>2. BurstRunsInv /\ [Next]_vars => BurstRunsInv'
  <2> SUFFICES ASSUME BurstRunsInv, [Next]_vars PROVE BurstRunsInv'
    OBVIOUS
  <2>1. BurstInv'
    BY BurstInvStep DEF BurstRunsInv
  <2>2. CASE UNCHANGED vars
    <3>1. UNCHANGED << cfg, arrivals, last_arrival_us, burstVars >>
      BY <2>2, Zenon DEF vars, streamVars
    <3>2. \A i : Begins(i)' <=> Begins(i)
      BY <3>1, Zenon DEF Begins, Since
    <3>3. Runs' = Runs
      BY <3>1, <3>2, Zenon DEF Runs
    <3>4. RunsRecorded' <=> RunsRecorded
      <4>1. \A r : Number(r)' = Number(r)
        BY <3>3, Zenon DEF Number
      <4> QED BY <3>1, <3>3, <4>1, Zenon DEF burstVars, RunsRecorded
    <3>5. OpenRun' <=> OpenRun
      <4>1. \A s : OpenSince(s)' <=> OpenSince(s)
        BY <3>1, <3>2, Zenon DEF OpenSince
      <4> QED BY <3>1, <4>1, Zenon DEF burstVars, OpenRun
    <3> QED BY <2>1, <3>1, <3>3, <3>4, <3>5, Zenon DEF burstVars, BurstRunsInv
  <2>3. ASSUME NEW p \in Packets, NEW allocated \in BOOLEAN, Data(p, allocated)
        PROVE  BurstRunsInv'
    <3>1. /\ arrivals' \in Seq(Packet) /\ arrivals' # << >>
          /\ last_arrival_us' = arrivals'[Len(arrivals')].ts
          /\ cfg' = cfg
      <4>1. /\ arrivals' \in Seq(Packet) /\ Len(arrivals') = Len(arrivals) + 1
            /\ arrivals'[Len(arrivals) + 1] = p /\ Len(arrivals) \in Nat /\ cfg' = cfg
        BY <2>3, Arrives DEF BurstRunsInv
      <4>2. last_arrival_us' = p.ts
        BY <2>3, BurstMoves DEF BurstRunsInv
      <4> QED BY <4>1, <4>2
    <3>2. refused' \in Nat
      <4>1. refused' \in {refused, refused + 1, refused + 0}
        BY <2>3, BurstMoves, Zenon DEF BurstRunsInv, burstVars
      <4> QED BY <4>1 DEF BurstRunsInv
    <3>3. "enable_burst" \in cfg.on => IsFiniteSet(Runs') /\ RunsRecorded' /\ OpenRun'
      BY <2>3, FirstRunOpens, RunsStep
    <3> QED BY <2>1, <3>1, <3>2, <3>3, Zenon DEF BurstRunsInv
  <2> QED BY <2>2, <2>3 DEF Next
<1> QED BY BurstRunsInit, <1>1, <1>2, PTL DEF Spec

-----------------------------------------------------------------------------
Durations == [i \in 1 .. Len(bursts) - 1 |-> bursts[i + 1].duration]

(* In a flow whose packets come in order, the durations recorded from the  *)
(* second burst on fit between the flow's start and the latest burst's.    *)
LaterDurationsInv ==
  /\ BurstInv
  /\ refused \in Nat
  /\ arrivals \in Seq(Packet)
  /\ IF arrivals = << >>
       THEN last_arrival_us = 0 /\ bursts = << >> /\ burst_start_us = 0
       ELSE /\ last_arrival_us = arrivals[Len(arrivals)].ts
            /\ InOrder =>
                 /\ burst_start_us <= last_arrival_us
                 /\ bursts # << >> =>
                      /\ arrivals[1].ts <= burst_start_us
                      /\ Total(Durations) \in Int
                      /\ Total(Durations) <= burst_start_us - arrivals[1].ts

LEMMA DurationsGrow ==
  ASSUME bursts \in Seq(Burst), NEW closed \in Burst, bursts' = Append(bursts, closed)
  PROVE  /\ bursts = << >> => Total(Durations') = 0
         /\ bursts # << >> => /\ Total(Durations) \in Int
                              /\ Total(Durations') = Total(Durations) + closed.duration
<1>1. CASE bursts = << >>
  <2>1. Len(bursts') - 1 = 0
    BY <1>1
  <2>2. Durations' = << >>
    BY <2>1 DEF Durations
  <2> QED BY <1>1, <2>2, TotalOfNone, Zenon
<1>2. CASE bursts # << >>
  <2> DEFINE n == Len(bursts) - 1
             x == closed.duration
  <2>1. /\ n \in Nat /\ Len(bursts') = n + 2 /\ bursts'[n + 2] = closed /\ x \in Int
        /\ \A i \in 1 .. n + 1 : bursts'[i] = bursts[i] /\ bursts[i].duration \in Int
    <3>1. \A b \in Burst : b.duration \in Int
      BY DEF Burst
    <3>2. n \in Nat /\ Len(bursts) = n + 1
      BY <1>2
    <3> HIDE DEF n
    <3>3. /\ Len(bursts') = n + 2 /\ bursts'[n + 2] = closed
          /\ \A i \in 1 .. n + 1 : bursts'[i] = bursts[i] /\ bursts[i] \in Burst
      BY <3>2
    <3> QED BY <3>1, <3>2, <3>3
  <2>2. /\ Durations \in Seq(Int) /\ Len(Durations) = n
        /\ \A i \in 1 .. n : Durations[i] = bursts[i + 1].duration
    <3>1. Durations = [i \in 1 .. n |-> bursts[i + 1].duration]
      BY Zenon DEF Durations
    <3>2. \A i \in 1 .. n : i + 1 \in 1 .. n + 1
      BY <2>1
    <3>3. \A i \in 1 .. n : bursts[i + 1].duration \in Int
      BY <2>1, <3>2
    <3> HIDE DEF n
    <3> QED BY <2>1, <3>1, <3>3
  <2>3. Durations' = [i \in 1 .. n + 1 |-> IF i = n + 1 THEN x ELSE Durations[i]]
    <3>1. Durations' = [i \in 1 .. n + 1 |-> bursts'[i + 1].duration]
      <4>1. Len(bursts') - 1 = n + 1
        BY <2>1
      <4> QED BY <4>1, Zenon DEF Durations
    <3>2. \A i \in 1 .. n + 1 :
            bursts'[i + 1].duration = IF i = n + 1 THEN x ELSE Durations[i]
      <4> TAKE i \in 1 .. n + 1
      <4>1. CASE i = n + 1
        BY <2>1, <4>1
      <4>2. CASE i # n + 1
        <5>1. i \in 1 .. n /\ i + 1 \in 1 .. n + 1
          BY <2>1, <4>2
        <5> QED BY <2>1, <2>2, <4>2, <5>1
      <4> QED BY <4>1, <4>2
    <3> QED BY <3>1, <3>2, Zenon
  <2>4. Append(Durations, x) = [i \in 1 .. n + 1 |-> IF i = n + 1 THEN x ELSE Durations[i]]
    <3> DEFINE all == Append(Durations, x)
    <3> HIDE DEF n, x
    <3>1. /\ all \in Seq(Int) /\ Len(all) = n + 1
          /\ \A i \in 1 .. n + 1 : all[i] = IF i = n + 1 THEN x ELSE Durations[i]
      BY <2>1, <2>2
    <3> HIDE DEF all
    <3>2. all \in [1 .. n + 1 -> Int]
      BY <3>1
    <3> QED BY <3>1, <3>2 DEF all
  <2>5. Durations' = Append(Durations, x)
    BY <2>3, <2>4, Zenon
  <2>6. Total(Durations) \in Int /\ Total(Durations') = Total(Durations) + x
    <3> HIDE DEF x
    <3> QED BY <2>1, <2>2, <2>5, TotalOfAppend, Zenon
  <2> QED BY <1>2, <2>6
<1> QED BY <1>1, <1>2

(* A packet that comes in order comes after the ones before it.            *)
LEMMA OrderKept ==
  ASSUME arrivals \in Seq(Packet), NEW p \in Packets, NEW allocated \in BOOLEAN,
         Data(p, allocated), InOrder'
  PROVE  /\ InOrder /\ arrivals'[1].ts \in Int /\ arrivals'[1].ts <= p.ts
         /\ arrivals # << >> => /\ arrivals[Len(arrivals)].ts <= p.ts
                                /\ arrivals[Len(arrivals)].ts \in Int
                                /\ arrivals'[1] = arrivals[1]
<1> DEFINE n == Len(arrivals)
<1>n. n \in Nat
  OBVIOUS
<1>1. /\ Len(arrivals') = n + 1 /\ arrivals'[n + 1] = p /\ p.ts \in Int
      /\ \A i \in 1 .. n : arrivals'[i] = arrivals[i] /\ arrivals[i].ts \in Int
  BY Arrives
<1>2. \A i, j \in 1 .. n + 1 : i < j => arrivals'[i].ts <= arrivals'[j].ts
  BY <1>1, Zenon DEF InOrder
<1>3. InOrder
  <2>1. \A i \in 1 .. n : i \in 1 .. n + 1
    OBVIOUS
  <2>2. \A i, j \in 1 .. n : i < j => arrivals[i].ts <= arrivals[j].ts
    BY <1>1, <1>2, <2>1, Zenon
  <2> QED BY <2>2, Zenon DEF InOrder
<1>4. CASE n = 0
  BY <1>n, <1>1, <1>3, <1>4
<1>5. CASE n # 0
  <2>1. /\ 1 \in 1 .. n + 1 /\ n \in 1 .. n /\ 1 \in 1 .. n /\ n \in 1 .. n + 1
        /\ n + 1 \in 1 .. n + 1 /\ 1 < n + 1 /\ n < n + 1
    BY <1>n, <1>5
  <2>2. arrivals'[1].ts <= arrivals'[n + 1].ts /\ arrivals'[n].ts <= arrivals'[n + 1].ts
    BY <1>2, <2>1
  <2> QED BY <1>1, <1>3, <2>1, <2>2
<1> QED BY <1>4, <1>5

LEMMA LaterDurationsStep ==
  ASSUME LaterDurationsInv, NEW p \in Packets, NEW allocated \in BOOLEAN, Data(p, allocated)
  PROVE  LaterDurationsInv'
<1> DEFINE n == Len(arrivals)
           f == arrivals'[1].ts
<1>1. /\ arrivals' \in Seq(Packet) /\ n \in Nat /\ Len(arrivals') = n + 1
      /\ arrivals'[n + 1] = p /\ p.ts \in Int /\ 0 < p.ts /\ p.ts \in 1 .. LLongSpan - 1
      /\ \A i \in 1 .. n : arrivals'[i] = arrivals[i] /\ arrivals[i].ts \in Int
      /\ arrivals' # << >> /\ arrivals \in Seq(Packet) /\ arrivals'[Len(arrivals')] = p
  <2>1. arrivals \in Seq(Packet)
    BY DEF LaterDurationsInv
  <2>2. /\ arrivals' \in Seq(Packet) /\ n \in Nat /\ Len(arrivals') = n + 1
        /\ arrivals'[n + 1] = p /\ p.ts \in Int /\ 0 < p.ts /\ p.ts \in 1 .. LLongSpan - 1
        /\ \A i \in 1 .. n : arrivals'[i] = arrivals[i] /\ arrivals[i].ts \in Int
    BY <2>1, Arrives
  <2> QED BY <2>1, <2>2
<1>2. /\ last_arrival_us' = p.ts /\ BurstInv' /\ refused' \in Nat
  <2>1. last_arrival_us' = p.ts /\ refused' \in {refused, refused + 1, refused + 0}
    BY BurstMoves, Zenon DEF LaterDurationsInv, burstVars
  <2>2. BurstInv'
    BY BurstInvStep DEF LaterDurationsInv, Next
  <2> QED BY <2>1, <2>2 DEF LaterDurationsInv
<1>3. /\ burst_start_us \in 0 .. LLongSpan - 1 /\ burst_start_us \in Int
      /\ bursts \in Seq(Burst) /\ burst_byte_count \in Int /\ burst_pkt_count \in Int
      /\ last_arrival_us \in Int /\ LLongSpan \in Nat \ {0} /\ refused \in Nat
  BY StreamConstants, PoolSizes DEF LaterDurationsInv, BurstInv, BurstsWellFormed
<1>4. SUFFICES ASSUME InOrder'
               PROVE  /\ burst_start_us' <= p.ts
                      /\ bursts' # << >> => /\ f <= burst_start_us'
                                            /\ Total(Durations') \in Int
                                            /\ Total(Durations') <= burst_start_us' - f
  BY <1>1, <1>2, Zenon DEF LaterDurationsInv
<1>5. /\ InOrder /\ f <= p.ts /\ f \in Int
      /\ arrivals # << >> => arrivals[n].ts <= p.ts /\ f = arrivals[1].ts
  BY <1>1, <1>4, OrderKept, Zenon
<1>6. /\ burst_start_us <= p.ts
      /\ bursts # << >> => /\ f <= burst_start_us
                           /\ Total(Durations) \in Int
                           /\ Total(Durations) <= burst_start_us - f
  <2>1. CASE arrivals = << >>
    <3>1. bursts = << >> /\ burst_start_us = 0
      BY <2>1, Zenon DEF LaterDurationsInv
    <3> QED BY <1>1, <3>1
  <2>2. CASE arrivals # << >>
    <3>1. /\ burst_start_us <= arrivals[n].ts
          /\ bursts # << >> => /\ f <= burst_start_us
                               /\ Total(Durations) \in Int
                               /\ Total(Durations) <= burst_start_us - f
      BY <2>2, <1>5, Zenon DEF LaterDurationsInv
    <3>2. n \in 1 .. n
      BY <1>1, <2>2
    <3>3. arrivals[n].ts \in Int
      BY <1>1, <3>2
    <3> QED BY <1>1, <1>3, <1>5, <2>2, <3>1, <3>3
  <2> QED BY <2>1, <2>2
<1>7. CASE bursts' = bursts /\ burst_start_us' = burst_start_us
  <2>1. Durations' = Durations
    BY <1>7, Zenon DEF Durations
  <2> QED BY <1>6, <1>7, <2>1, Zenon
<1>8. CASE bursts' = bursts /\ burst_start_us' = p.ts
  <2>1. Durations' = Durations
    BY <1>8, Zenon DEF Durations
  <2>2. bursts # << >> => Total(Durations) <= p.ts - f
    BY <1>1, <1>3, <1>5, <1>6
  <2>3. p.ts <= p.ts
    BY <1>1
  <2> QED BY <1>5, <1>6, <1>8, <2>1, <2>2, <2>3, Zenon
<1>9. CASE bursts' = Append(bursts, Closed(p)) /\ burst_start_us' = p.ts
  <2> DEFINE d == Since(p.ts, burst_start_us)
  <2>1. d = p.ts - burst_start_us /\ d \in Int
    <3> DEFINE x == p.ts - burst_start_us
    <3>1. x \in 0 .. LLongSpan - 1
      BY <1>1, <1>3, <1>6
    <3> HIDE DEF x
    <3>2. x % LLongSpan = x
      BY <1>3, <3>1, SMT
    <3> QED BY <3>1, <3>2 DEF Since, x
  <2>2. Closed(p) \in Burst /\ Closed(p).duration = d
    <3> HIDE DEF d
    <3>1. Closed(p) = [size |-> burst_byte_count, duration |-> d, packets |-> burst_pkt_count]
      BY Zenon DEF Closed, d
    <3> QED BY <1>3, <2>1, <3>1 DEF Burst
  <2> HIDE DEF d
  <2>3. /\ bursts = << >> => Total(Durations') = 0
        /\ bursts # << >> => Total(Durations') = Total(Durations) + d
    BY <1>3, <1>9, <2>2, DurationsGrow, Zenon
  <2>4. p.ts <= p.ts /\ 0 <= p.ts - f /\ 0 \in Int
    BY <1>1, <1>5
  <2>5. CASE bursts = << >>
    BY <1>5, <1>9, <2>3, <2>4, <2>5, Zenon
  <2>6. CASE bursts # << >>
    <3>1. Total(Durations') \in Int /\ Total(Durations') <= p.ts - f
      <4>1. /\ p.ts \in Int /\ burst_start_us \in Int /\ f \in Int /\ Total(Durations) \in Int
            /\ Total(Durations) <= burst_start_us - f
            /\ d = p.ts - burst_start_us
            /\ Total(Durations') = Total(Durations) + d
        BY <1>1, <1>3, <1>5, <1>6, <2>1, <2>3, <2>6, Zenon
      <4> HIDE DEF f
      <4> QED BY <4>1
    <3> QED BY <1>5, <1>9, <2>4, <3>1, Zenon
  <2> QED BY <2>5, <2>6
<1> QED BY <1>3, <1>7, <1>8, <1>9, BurstMoves, Zenon DEF LaterDurationsInv, burstVars

LEMMA LaterDurationsInit == Init => LaterDurationsInv
<1> SUFFICES ASSUME Init PROVE LaterDurationsInv
  OBVIOUS
<1>1. /\ arrivals = << >> /\ last_arrival_us = 0 /\ bursts = << >> /\ burst_start_us = 0
      /\ refused = 0
  BY DEF Init, StreamInit, BurstInit
<1> QED BY <1>1, BurstInvInit DEF LaterDurationsInv

LEMMA LaterDurationsNext == LaterDurationsInv /\ [Next]_vars => LaterDurationsInv'
<1> SUFFICES ASSUME LaterDurationsInv, [Next]_vars PROVE LaterDurationsInv'
  OBVIOUS
<1>1. CASE UNCHANGED vars
  <2>1. BurstInv'
    BY BurstInvStep DEF LaterDurationsInv
  <2>2. UNCHANGED << arrivals, last_arrival_us, burstVars >>
    BY <1>1, Zenon DEF vars, streamVars
  <2>3. Durations' = Durations /\ InOrder' = InOrder
    BY <2>2, Zenon DEF burstVars, Durations, InOrder
  <2> QED BY <2>1, <2>2, <2>3, Zenon DEF burstVars, LaterDurationsInv
<1> QED BY <1>1, LaterDurationsStep DEF Next

(* From the second recorded burst on, the durations calc_burst_update      *)
(* records are those of disjoint spans of a flow whose packets come in     *)
(* order: all of them together last no longer than the flow.               *)
THEOREM LaterBurstsFit == Spec => []LaterDurationsFit
<1>1. LaterDurationsInv => LaterDurationsFit
  <2> SUFFICES ASSUME LaterDurationsInv, InOrder, Len(bursts) > 1
               PROVE  Total(Durations) <= last_arrival_us - arrivals[1].ts
    BY Zenon DEF LaterDurationsFit, Durations
  <2>1. bursts # << >> /\ arrivals # << >>
    BY DEF LaterDurationsInv
  <2>2. /\ Total(Durations) \in Int /\ arrivals[1].ts \in Int
        /\ last_arrival_us \in Int /\ burst_start_us \in Int
    <3>1. arrivals[1] \in Packet
      BY <2>1 DEF LaterDurationsInv
    <3> QED BY <2>1, <3>1, StreamConstants
            DEF LaterDurationsInv, BurstInv, BurstsWellFormed, Packet
  <2>3. /\ burst_start_us <= last_arrival_us
        /\ Total(Durations) <= burst_start_us - arrivals[1].ts
    BY <2>1, Zenon DEF LaterDurationsInv
  <2> QED BY <2>2, <2>3
<1> QED BY LaterDurationsInit, LaterDurationsNext, <1>1, PTL DEF Spec
-----------------------------------------------------------------------------
(* The request a backward packet would answer: a forward packet with only  *)
(* packets of unknown direction after it.                                  *)
Pending(k) ==
  /\ k \in 1 .. Len(arrivals)
  /\ arrivals[k].dir = "fwd"
  /\ \A j \in k + 1 .. Len(arrivals) : arrivals[j].dir = "unknown"

AnswerNumber(a) == Cardinality({b \in Answers : b.at <= a.at})

ResponsesInv ==
  /\ IatInv
  /\ arrivals \in Seq(Packet)
  /\ "enable_iat_response" \in cfg.on =>
       /\ IsFiniteSet(Answers)
       /\ Len(resp_delays) = Min({Cardinality(Answers), RespDelays})
       /\ \A a \in Answers : AnswerNumber(a) <= RespDelays =>
            resp_delays[AnswerNumber(a)] = Since(arrivals[a.at].ts, arrivals[a.to].ts)
       /\ IF last_req_ts = 0
            THEN \A k : ~Pending(k)
            ELSE \E k : Pending(k) /\ last_req_ts = arrivals[k].ts

LEMMA OnePending == ASSUME arrivals \in Seq(Packet), NEW j, NEW k, Pending(j), Pending(k) PROVE j = k
<1>1. /\ j \in 1 .. Len(arrivals) /\ k \in 1 .. Len(arrivals)
      /\ arrivals[j].dir = "fwd" /\ arrivals[k].dir = "fwd"
      /\ \A i \in j + 1 .. Len(arrivals) : arrivals[i].dir = "unknown"
      /\ \A i \in k + 1 .. Len(arrivals) : arrivals[i].dir = "unknown"
  BY Zenon DEF Pending
<1>2. k \notin j + 1 .. Len(arrivals) /\ j \notin k + 1 .. Len(arrivals)
  BY <1>1
<1> QED BY <1>1, <1>2

(* A request stays pending until a packet of known direction comes, and a  *)
(* backward packet answers the one that is pending then.                   *)
LEMMA PendingStep ==
  ASSUME arrivals \in Seq(Packet), NEW n \in Nat, n = Len(arrivals), Len(arrivals') = n + 1,
         \A i \in 1 .. n : arrivals'[i] = arrivals[i],
         NEW dir \in Direction, arrivals'[n + 1].dir = dir
  PROVE  /\ dir = "fwd" => Pending(n + 1)'
         /\ dir = "bwd" => \A k : ~Pending(k)'
         /\ dir = "unknown" => \A k : Pending(k)' <=> Pending(k)
         /\ \A k : Pending(k) => k \in 1 .. n
<1>1. n + 1 \in 1 .. n + 1 /\ \A j \in (n + 1) + 1 .. n + 1 : FALSE
  OBVIOUS
<1>2. \A k \in 1 .. n : /\ n + 1 \in k + 1 .. n + 1
                        /\ \A j \in k + 1 .. n + 1 : j = n + 1 \/ j \in k + 1 .. n
                        /\ \A j \in k + 1 .. n : j \in 1 .. n /\ j \in k + 1 .. n + 1
  OBVIOUS
<1>3. \A k \in 1 .. n + 1 : k = n + 1 \/ k \in 1 .. n
  OBVIOUS
<1>4. "fwd" # "bwd" /\ "bwd" # "unknown" /\ "fwd" # "unknown"
  OBVIOUS
<1>5. dir = "fwd" => Pending(n + 1)'
  BY <1>1, Zenon DEF Pending
<1>6. ASSUME dir = "bwd", NEW k, Pending(k)' PROVE FALSE
  <2>1. /\ k \in 1 .. n + 1 /\ arrivals'[k].dir = "fwd"
        /\ \A j \in k + 1 .. n + 1 : arrivals'[j].dir = "unknown"
    BY <1>6, Zenon DEF Pending
  <2>2. CASE k = n + 1
    BY <1>4, <1>6, <2>1, <2>2, Zenon
  <2>3. CASE k \in 1 .. n
    BY <1>2, <1>4, <1>6, <2>1, <2>3, Zenon
  <2> QED BY <1>3, <2>1, <2>2, <2>3
<1>7. ASSUME dir = "unknown", NEW k PROVE Pending(k)' <=> Pending(k)
  <2>1. Pending(k)' <=> /\ k \in 1 .. n + 1 /\ arrivals'[k].dir = "fwd"
                        /\ \A j \in k + 1 .. n + 1 : arrivals'[j].dir = "unknown"
    BY Zenon DEF Pending
  <2>2. Pending(k) <=> /\ k \in 1 .. n /\ arrivals[k].dir = "fwd"
                       /\ \A j \in k + 1 .. n : arrivals[j].dir = "unknown"
    BY Zenon DEF Pending
  <2>3. CASE k \in 1 .. n
    <3>1. k \in 1 .. n + 1
      BY <2>3
    <3> QED BY <1>2, <1>7, <2>1, <2>2, <2>3, <3>1, Zenon
  <2>4. CASE k \notin 1 .. n
    BY <1>3, <1>4, <1>7, <2>1, <2>2, <2>4, Zenon
  <2> QED BY <2>3, <2>4
<1>8. \A k : Pending(k) => k \in 1 .. n
  BY Zenon DEF Pending
<1> QED BY <1>5, <1>6, <1>7, <1>8

LEMMA AnswersGrow ==
  ASSUME arrivals \in Seq(Packet), NEW n \in Nat, n = Len(arrivals), Len(arrivals') = n + 1,
         \A i \in 1 .. n : arrivals'[i] = arrivals[i],
         NEW dir \in Direction, arrivals'[n + 1].dir = dir
  PROVE  /\ \A a \in Answers : a.at \in 1 .. n /\ a.to \in 1 .. n
         /\ dir # "bwd" => Answers' = Answers
         /\ (\A k : ~Pending(k)) => Answers' = Answers
         /\ \A k : dir = "bwd" /\ Pending(k) => Answers' = Answers \cup {[at |-> n + 1, to |-> k]}
<1>1. ASSUME NEW a
      PROVE  a \in Answers <=> /\ a \in [at : 1 .. n, to : 1 .. n] /\ a.to < a.at
                               /\ arrivals[a.to].dir = "fwd" /\ arrivals[a.at].dir = "bwd"
                               /\ \A k \in a.to + 1 .. a.at - 1 : arrivals[k].dir = "unknown"
  BY Zenon DEF Answers
<1>2. ASSUME NEW a
      PROVE  a \in Answers' <=> /\ a \in [at : 1 .. n + 1, to : 1 .. n + 1] /\ a.to < a.at
                                /\ arrivals'[a.to].dir = "fwd" /\ arrivals'[a.at].dir = "bwd"
                                /\ \A k \in a.to + 1 .. a.at - 1 : arrivals'[k].dir = "unknown"
  BY Zenon DEF Answers
<1>3. ASSUME NEW a \in Answers PROVE a.at \in 1 .. n /\ a.to \in 1 .. n /\ a.to < a.at
  BY <1>1
<1>4. ASSUME NEW a \in Answers PROVE a \in Answers'
  <2>1. a \in [at : 1 .. n + 1, to : 1 .. n + 1]
    BY <1>1
  <2>2. \A k \in a.to + 1 .. a.at - 1 : k \in 1 .. n
    BY <1>3
  <2>3. \A k \in a.to + 1 .. a.at - 1 : arrivals'[k].dir = "unknown"
    BY <1>1, <2>2, Zenon
  <2>4. arrivals'[a.to].dir = "fwd" /\ arrivals'[a.at].dir = "bwd" /\ a.to < a.at
    BY <1>1, <1>3, Zenon
  <2> QED BY <1>2, <2>1, <2>3, <2>4, Zenon
<1>5. ASSUME NEW a \in Answers', a.at # n + 1 PROVE a \in Answers
  <2>1. a.at \in 1 .. n /\ a.to \in 1 .. n /\ a.to < a.at
    BY <1>2, <1>5
  <2>2. a \in [at : 1 .. n, to : 1 .. n]
    BY <1>2, <2>1
  <2>3. \A k \in a.to + 1 .. a.at - 1 : k \in 1 .. n
    BY <2>1
  <2>4. \A k \in a.to + 1 .. a.at - 1 : arrivals[k].dir = "unknown"
    BY <1>2, <2>3, Zenon
  <2>5. arrivals[a.to].dir = "fwd" /\ arrivals[a.at].dir = "bwd"
    BY <1>2, <2>1, Zenon
  <2> QED BY <1>1, <2>1, <2>2, <2>4, <2>5, Zenon
<1>6. ASSUME NEW a \in Answers', a.at = n + 1
      PROVE  dir = "bwd" /\ Pending(a.to) /\ a = [at |-> n + 1, to |-> a.to]
  <2>1. /\ dir = "bwd" /\ a.to \in 1 .. n /\ (n + 1) - 1 = n
    BY <1>2, <1>6
  <2>2. \A k \in a.to + 1 .. n : arrivals'[k].dir = "unknown" /\ k \in 1 .. n
    BY <1>2, <1>6, <2>1
  <2>3. Pending(a.to)
    BY <1>2, <2>1, <2>2, Zenon DEF Pending
  <2>4. a = [at |-> n + 1, to |-> a.to]
    BY <1>2, <1>6
  <2> QED BY <2>1, <2>3, <2>4
<1>7. ASSUME NEW k, dir = "bwd", Pending(k) PROVE [at |-> n + 1, to |-> k] \in Answers'
  <2> DEFINE a == [at |-> n + 1, to |-> k]
  <2>1. /\ k \in 1 .. n /\ arrivals[k].dir = "fwd"
        /\ \A j \in k + 1 .. n : arrivals[j].dir = "unknown"
    BY <1>7, Zenon DEF Pending
  <2>2. /\ a \in [at : 1 .. n + 1, to : 1 .. n + 1] /\ a.at = n + 1 /\ a.to = k /\ k < n + 1
        /\ (n + 1) - 1 = n /\ \A j \in k + 1 .. n : j \in 1 .. n
    BY <2>1
  <2> HIDE DEF a
  <2>3. \A j \in a.to + 1 .. a.at - 1 : arrivals'[j].dir = "unknown"
    BY <2>1, <2>2, ZenonT(40)
  <2>4. arrivals'[a.to].dir = "fwd" /\ arrivals'[a.at].dir = "bwd" /\ a.to < a.at
    BY <1>7, <2>1, <2>2, Zenon
  <2>5. a \in Answers'
    BY <1>2, <2>2, <2>3, <2>4, Zenon
  <2> QED BY <2>5 DEF a
<1>8. dir # "bwd" => Answers' = Answers
  BY <1>4, <1>5, <1>6, Zenon
<1>9. (\A k : ~Pending(k)) => Answers' = Answers
  BY <1>4, <1>5, <1>6, Zenon
<1>10. ASSUME NEW k, dir = "bwd", Pending(k)
       PROVE  Answers' = Answers \cup {[at |-> n + 1, to |-> k]}
  <2> DEFINE new == [at |-> n + 1, to |-> k]
  <2>1. ASSUME NEW a \in Answers', a.at = n + 1 PROVE a = new
    <3>1. a.to = k
      BY <1>6, <1>10, <2>1, OnePending
    <3> QED BY <1>6, <2>1, <3>1, Zenon
  <2>2. new \in Answers'
    BY <1>7, <1>10
  <2> HIDE DEF new
  <2>3. Answers' = Answers \cup {new}
    BY <1>4, <1>5, <2>1, <2>2, Zenon
  <2> QED BY <2>3 DEF new
<1> QED BY <1>3, <1>8, <1>9, <1>10

LEMMA AnswerIsNumbered ==
  ASSUME IsFiniteSet(Answers), NEW a \in Answers, a.at \in Int
  PROVE  AnswerNumber(a) \in Nat /\ 1 <= AnswerNumber(a) /\ AnswerNumber(a) <= Cardinality(Answers)
<1> DEFINE S == {b \in Answers : b.at <= a.at}
<1>1. a \in S /\ S \in SUBSET Answers
  OBVIOUS
<1> HIDE DEF S
<1>2. /\ IsFiniteSet(S) /\ Cardinality(S) \in Nat /\ Cardinality(Answers) \in Nat
      /\ Cardinality(S) <= Cardinality(Answers)
  BY <1>1, FS_Subset, FS_CardinalityType
<1>3. Cardinality(S) # 0
  BY <1>1, <1>2, FS_EmptySet
<1> QED BY <1>2, <1>3 DEF AnswerNumber, S

LEMMA AnswerNumbersKept ==
  ASSUME IsFiniteSet(Answers), NEW n \in Int, NEW k,
         Answers' = Answers \cup {[at |-> n, to |-> k]},
         \A a \in Answers : a.at \in Int /\ a.at < n
  PROVE  /\ Cardinality(Answers) \in Nat
         /\ IsFiniteSet(Answers') /\ Cardinality(Answers') = Cardinality(Answers) + 1
         /\ \A a \in Answers : AnswerNumber(a)' = AnswerNumber(a)
         /\ AnswerNumber([at |-> n, to |-> k])' = Cardinality(Answers) + 1
<1> DEFINE new == [at |-> n, to |-> k]
<1>1. new.at = n
  OBVIOUS
<1> HIDE DEF new
<1>2. new \notin Answers
  <2> SUFFICES ASSUME new \in Answers PROVE FALSE
    OBVIOUS
  <2>1. n < n
    BY <1>1
  <2> QED BY <2>1
<1>3. Answers' = Answers \cup {new}
  BY DEF new
<1>4. /\ Cardinality(Answers) \in Nat
      /\ IsFiniteSet(Answers') /\ Cardinality(Answers') = Cardinality(Answers) + 1
  <2>1. Cardinality(Answers) \in Nat
    BY FS_CardinalityType
  <2>2. /\ IsFiniteSet(Answers \cup {new})
        /\ Cardinality(Answers \cup {new})
             = IF new \in Answers THEN Cardinality(Answers) ELSE Cardinality(Answers) + 1
    BY FS_AddElement, Zenon
  <2> QED BY <1>2, <1>3, <2>1, <2>2, Zenon
<1>5. ASSUME NEW a \in Answers PROVE AnswerNumber(a)' = AnswerNumber(a)
  <2>1. ~(new.at <= a.at)
    BY <1>1
  <2>2. {b \in Answers' : b.at <= a.at} = {b \in Answers : b.at <= a.at}
    BY <1>3, <2>1, Zenon
  <2> QED BY <2>2, Zenon DEF AnswerNumber
<1>6. AnswerNumber(new)' = Cardinality(Answers')
  <2>1. \A b \in Answers' : b.at <= new.at
    BY <1>1, <1>3
  <2>2. {b \in Answers' : b.at <= new.at} = Answers'
    BY <2>1, Zenon
  <2> QED BY <2>2, Zenon DEF AnswerNumber
<1> QED BY <1>4, <1>5, <1>6 DEF new

LEMMA ResponsesStep ==
  ASSUME ResponsesInv, NEW p \in Packets, NEW allocated \in BOOLEAN, Data(p, allocated)
  PROVE  ResponsesInv'
<1> PICK n \in Nat : n = Len(arrivals)
  BY DEF ResponsesInv
<1> DEFINE dir == p.dir
           delay == Since(p.ts, last_req_ts)
           R == RespDelays
<1>1. /\ arrivals' \in Seq(Packet) /\ Len(arrivals') = n + 1 /\ arrivals'[n + 1] = p
      /\ \A i \in 1 .. n : arrivals'[i] = arrivals[i]
      /\ p.ts \in Int /\ p.ts > 0 /\ arrivals \in Seq(Packet) /\ cfg' = cfg
      /\ arrivals'[n + 1].dir = dir /\ dir \in Direction
      /\ \A i \in 1 .. n : arrivals[i].ts # 0
  <2>1. arrivals \in Seq(Packet)
    BY DEF ResponsesInv
  <2>2. /\ arrivals' \in Seq(Packet) /\ Len(arrivals') = n + 1 /\ arrivals'[n + 1] = p
        /\ \A i \in 1 .. n : arrivals'[i] = arrivals[i] /\ arrivals[i] \in Packet
        /\ p.ts \in Int /\ p.ts > 0 /\ cfg' = cfg /\ p \in Packet
    BY <2>1, Arrives
  <2>3. \A q \in Packet : q.dir \in Direction /\ q.ts # 0
    BY DEF Packet
  <2> QED BY <2>1, <2>2, <2>3
<1>2. IatInv' /\ RespDelays \in Nat
  BY IatInvStep, PoolSizes DEF ResponsesInv, Next
<1> SUFFICES ASSUME "enable_iat_response" \in cfg.on
             PROVE  /\ IsFiniteSet(Answers')
                    /\ Len(resp_delays') = Min({Cardinality(Answers'), R})
                    /\ \A a \in Answers' : AnswerNumber(a)' <= R =>
                         resp_delays'[AnswerNumber(a)']
                           = Since(arrivals'[a.at].ts, arrivals'[a.to].ts)
                    /\ IF last_req_ts' = 0
                         THEN \A k : ~Pending(k)'
                         ELSE \E k : Pending(k)' /\ last_req_ts' = arrivals'[k].ts
  BY <1>1, <1>2, Zenon DEF ResponsesInv
<1>3. /\ last_req_ts' = Requested(p.ts, dir)
      /\ resp_delays' = IF dir = "bwd" /\ last_req_ts > 0
                          THEN Kept(resp_delays, delay, R) ELSE resp_delays
  BY Zenon DEF Data, IatPacket, ResponseDelay
<1>4. /\ IsFiniteSet(Answers)
      /\ Len(resp_delays) = Min({Cardinality(Answers), R})
      /\ \A a \in Answers : AnswerNumber(a) <= R =>
           resp_delays[AnswerNumber(a)] = Since(arrivals[a.at].ts, arrivals[a.to].ts)
      /\ last_req_ts = 0 => \A k : ~Pending(k)
      /\ last_req_ts # 0 => \E k : Pending(k) /\ last_req_ts = arrivals[k].ts
  BY Zenon DEF ResponsesInv
<1>5. resp_delays \in Seq(Int) /\ last_req_ts \in Nat
  BY StreamConstants DEF ResponsesInv, IatInv, IatWellFormed
<1>6. /\ dir = "fwd" => Pending(n + 1)'
      /\ dir = "bwd" => \A k : ~Pending(k)'
      /\ dir = "unknown" => \A k : Pending(k)' <=> Pending(k)
      /\ \A k : Pending(k) => k \in 1 .. n
  <2> HIDE DEF dir
  <2> QED BY <1>1, PendingStep
<1>7. /\ \A a \in Answers : a.at \in 1 .. n /\ a.to \in 1 .. n
      /\ dir # "bwd" => Answers' = Answers
      /\ (\A k : ~Pending(k)) => Answers' = Answers
      /\ \A k : dir = "bwd" /\ Pending(k) => Answers' = Answers \cup {[at |-> n + 1, to |-> k]}
  <2> HIDE DEF dir
  <2> QED BY <1>1, AnswersGrow
<1>8. IF last_req_ts' = 0 THEN \A k : ~Pending(k)'
                          ELSE \E k : Pending(k)' /\ last_req_ts' = arrivals'[k].ts
  <2>0. "fwd" # "bwd" /\ "bwd" # "unknown" /\ "fwd" # "unknown"
    OBVIOUS
  <2>1. CASE dir = "fwd"
    <3>1. last_req_ts' = p.ts /\ p.ts # 0
      BY <1>1, <1>3, <2>1 DEF Requested
    <3> QED BY <1>1, <1>6, <2>1, <3>1, Zenon
  <2>2. CASE dir = "bwd"
    <3>1. last_req_ts' = 0
      BY <1>3, <2>2 DEF Requested
    <3> QED BY <1>6, <2>2, <3>1, Zenon
  <2>3. CASE dir = "unknown"
    <3>1. last_req_ts' = last_req_ts
      BY <1>3, <2>3 DEF Requested
    <3> QED BY <1>1, <1>4, <1>6, <2>3, <3>1, Zenon
  <2> QED BY <1>1, <2>1, <2>2, <2>3 DEF Direction
<1>9. CASE ~(dir = "bwd" /\ last_req_ts > 0)
  <2>1. resp_delays' = resp_delays
    BY <1>3, <1>9, Zenon
  <2>2. Answers' = Answers
    <3>1. dir # "bwd" \/ last_req_ts = 0
      BY <1>5, <1>9
    <3> QED BY <1>4, <1>7, <3>1, Zenon
  <2>3. \A a : AnswerNumber(a)' = AnswerNumber(a)
    BY <2>2, Zenon DEF AnswerNumber
  <2>4. \A a \in Answers : Since(arrivals'[a.at].ts, arrivals'[a.to].ts)
                             = Since(arrivals[a.at].ts, arrivals[a.to].ts)
    BY <1>1, <1>7, Zenon
  <2> QED BY <1>4, <1>8, <2>1, <2>2, <2>3, <2>4, Zenon
<1>10. CASE dir = "bwd" /\ last_req_ts > 0
  <2>1. PICK k : Pending(k) /\ last_req_ts = arrivals[k].ts
    BY <1>4, <1>5, <1>10
  <2> DEFINE new == [at |-> n + 1, to |-> k]
             c == Cardinality(Answers)
  <2>2. Answers' = Answers \cup {new}
    BY <1>7, <1>10, <2>1, Zenon
  <2>3. /\ c \in Nat /\ IsFiniteSet(Answers') /\ Cardinality(Answers') = c + 1
        /\ \A a \in Answers : AnswerNumber(a)' = AnswerNumber(a)
        /\ AnswerNumber(new)' = c + 1
    <3>1. n + 1 \in Int /\ \A a \in Answers : a.at \in Int /\ a.at < n + 1
      BY <1>7
    <3> QED BY <1>4, <2>2, <3>1, AnswerNumbersKept, Zenon
  <2>4. resp_delays' = IF Len(resp_delays) < R THEN Append(resp_delays, delay) ELSE resp_delays
    BY <1>3, <1>10, Zenon DEF Kept
  <2>5. Len(resp_delays) = IF c <= R THEN c ELSE R
    <3>1. c \in Int /\ R \in Int
      BY <1>2, <2>3
    <3> QED BY <1>4, <3>1, MinOfTwo, Zenon
  <2>6. delay \in Int
    <3>1. last_req_ts \in Int
      BY <1>5
    <3> QED BY <1>1, <3>1, SinceInRange, Zenon
  <2> HIDE DEF delay, c
  <2>7. /\ Len(resp_delays') = IF c + 1 <= R THEN c + 1 ELSE R
        /\ \A i \in 1 .. Len(resp_delays) : resp_delays'[i] = resp_delays[i]
        /\ c + 1 <= R => resp_delays'[c + 1] = delay
    <3>1. CASE c < R
      <4>1. Len(resp_delays) = c /\ resp_delays' = Append(resp_delays, delay)
        BY <1>2, <2>3, <2>4, <2>5, <3>1
      <4> QED BY <1>2, <1>5, <2>3, <2>6, <3>1, <4>1
    <3>2. CASE ~(c < R)
      <4>1. Len(resp_delays) = R /\ resp_delays' = resp_delays
        BY <1>2, <2>3, <2>4, <2>5, <3>2
      <4> QED BY <1>2, <2>3, <3>2, <4>1
    <3> QED BY <3>1, <3>2
  <2>8. Len(resp_delays') = Min({Cardinality(Answers'), R})
    <3>1. c + 1 \in Int /\ R \in Int
      BY <1>2, <2>3
    <3>2. Min({c + 1, R}) = IF c + 1 <= R THEN c + 1 ELSE R
      BY <3>1, MinOfTwo, Zenon
    <3> QED BY <2>3, <2>7, <3>2, Zenon
  <2>9. ASSUME NEW a \in Answers', AnswerNumber(a)' <= R
        PROVE  resp_delays'[AnswerNumber(a)'] = Since(arrivals'[a.at].ts, arrivals'[a.to].ts)
    <3>1. CASE a \in Answers
      <4>1. /\ AnswerNumber(a)' = AnswerNumber(a) /\ AnswerNumber(a) <= R
            /\ AnswerNumber(a) \in Nat /\ 1 <= AnswerNumber(a) /\ AnswerNumber(a) <= c
        <5>1. a.at \in Int
          BY <1>7, <3>1
        <5>2. AnswerNumber(a)' = AnswerNumber(a)
          BY <2>3, <3>1, Zenon
        <5> QED BY <1>4, <2>9, <3>1, <5>1, <5>2, AnswerIsNumbered, Zenon DEF c
      <4>2. AnswerNumber(a) \in 1 .. Len(resp_delays)
        BY <1>2, <2>3, <2>5, <4>1
      <4>3. Since(arrivals'[a.at].ts, arrivals'[a.to].ts) = Since(arrivals[a.at].ts, arrivals[a.to].ts)
        BY <1>1, <1>7, <3>1, Zenon
      <4> QED BY <1>4, <2>7, <3>1, <4>1, <4>2, <4>3, Zenon
    <3>2. CASE a \notin Answers
      <4>1. a = new
        BY <2>2, <3>2, Zenon
      <4>2. a.at = n + 1 /\ a.to = k
        BY <4>1
      <4>3. arrivals'[n + 1] = p /\ arrivals'[k] = arrivals[k]
        BY <1>1, <1>6, <2>1, Zenon
      <4>4. Since(arrivals'[a.at].ts, arrivals'[a.to].ts) = delay
        BY <2>1, <4>2, <4>3, Zenon DEF delay
      <4>5. AnswerNumber(a)' = c + 1
        BY <2>3, <4>1, Zenon
      <4> QED BY <2>7, <2>9, <4>4, <4>5, Zenon
    <3> QED BY <3>1, <3>2
  <2> QED BY <1>8, <2>3, <2>8, <2>9, Zenon
<1> QED BY <1>9, <1>10

(* calc_response_delay pairs every answer with the latest request before   *)
(* it, answers no request twice, and keeps the first delays in order.      *)
THEOREM ResponsesArePaired == Spec => []ResponsesPair
<1>1. Init => ResponsesInv
  <2> SUFFICES ASSUME Init PROVE ResponsesInv
    OBVIOUS
  <2>1. arrivals = << >> /\ resp_delays = << >> /\ last_req_ts = 0 /\ IatInv
    BY IatInvInit DEF Init, StreamInit, IatInit
  <2>2. Answers = {} /\ \A k : ~Pending(k)
    BY <2>1 DEF Answers, Pending
  <2>3. IsFiniteSet(Answers) /\ Cardinality(Answers) = 0
    BY <2>2, FS_EmptySet
  <2>4. Min({0, RespDelays}) = 0
    <3>1. 0 \in Int /\ RespDelays \in Int /\ 0 <= RespDelays
      BY PoolSizes
    <3> QED BY <3>1, MinOfTwo, Zenon
  <2>5. arrivals \in Seq(Packet) /\ Len(resp_delays) = 0
    BY <2>1
  <2> QED BY <2>1, <2>2, <2>3, <2>4, <2>5, Zenon DEF ResponsesInv
<1>2. ResponsesInv => ResponsesPair
  BY Zenon DEF ResponsesInv, ResponsesPair, AnswerNumber
<1>3. ResponsesInv /\ [Next]_vars => ResponsesInv'
  <2> SUFFICES ASSUME ResponsesInv, [Next]_vars PROVE ResponsesInv'
    OBVIOUS
  <2>1. CASE UNCHANGED vars
    <3>1. IatInv'
      BY IatInvStep DEF ResponsesInv
    <3>2. UNCHANGED << cfg, arrivals, resp_delays, last_req_ts >>
      BY <2>1, Zenon DEF vars, streamVars, iatVars
    <3>3. Answers' = Answers /\ \A k : Pending(k)' <=> Pending(k)
      BY <3>2, Zenon DEF Answers, Pending
    <3>4. \A a : AnswerNumber(a)' = AnswerNumber(a)
      BY <3>3, Zenon DEF AnswerNumber
    <3> QED BY <3>1, <3>2, <3>3, <3>4, Zenon DEF ResponsesInv, Since
  <2> QED BY <2>1, ResponsesStep DEF Next
<1> QED BY <1>1, <1>2, <1>3, PTL DEF Spec
-----------------------------------------------------------------------------
(* The latest packet of a direction, without the flow's first, is the one  *)
(* whose time calc_iat_update keeps.                                       *)
LatestOf(d) ==
  IF last_us[d] = 0
    THEN Followers(d) = {}
    ELSE \E g \in Followers(d) : (\A k \in Followers(d) : k <= g) /\ last_us[d] = arrivals[g].ts

(* What DirectionGaps says of a direction whose gaps are wanted.           *)
GapsOf(d) ==
  /\ Len(dir_stats[d]) = Max({Cardinality(Followers(d)) - 1, 0})
  /\ \A n \in Neighbours(d) :
       dir_stats[d][Rank(Followers(d), n[1])] = Since(arrivals[n[2]].ts, arrivals[n[1]].ts)

(* The array has the first of the gaps.                                    *)
ArrayOf(d) ==
  /\ Len(dir_iats[d]) <= Len(dir_stats[d])
  /\ \A i \in 1 .. Len(dir_stats[d]) : i <= SeqLen[Tiny] =>
       i <= Len(dir_iats[d]) /\ dir_iats[d][i] = dir_stats[d][i]

GapsInv ==
  /\ IatInv
  /\ arrivals \in Seq(Packet)
  /\ last_arrival_us = IF arrivals = << >> THEN 0 ELSE arrivals[Len(arrivals)].ts
  /\ dir_stats \in [Known -> Seq(Int)]
  /\ iat_stats = IF "enable_iat_stats" \in cfg.on
                   THEN [i \in 1 .. Max({Len(arrivals) - 1, 0}) |->
                           Since(arrivals[i + 1].ts, arrivals[i].ts)]
                   ELSE << >>
  /\ \A d \in Known :
       /\ LatestOf(d)
       /\ IF "need_fwd_bwd_iats" \in cfg.on THEN GapsOf(d) ELSE dir_stats[d] = << >>
       /\ ArrayOf(d)

LEMMA FollowersGrow ==
  ASSUME arrivals \in Seq(Packet), NEW n \in Nat, n = Len(arrivals), Len(arrivals') = n + 1,
         \A i \in 1 .. n : arrivals'[i] = arrivals[i],
         NEW d
  PROVE  /\ Followers(d) \in SUBSET (1 .. n)
         /\ Followers(d)' = Followers(d) \cup (IF n > 0 /\ arrivals'[n + 1].dir = d
                                                 THEN {n + 1} ELSE {})
<1>1. Followers(d) = {i \in 2 .. n : arrivals[i].dir = d}
  BY Zenon DEF Followers
<1>2. Followers(d)' = {i \in 2 .. n + 1 : arrivals'[i].dir = d}
  BY Zenon DEF Followers
<1>3. /\ \A i \in 2 .. n : i \in 1 .. n /\ i \in 2 .. n + 1
      /\ \A i \in 2 .. n + 1 : i \in 2 .. n \/ (n > 0 /\ i = n + 1)
      /\ n > 0 => n + 1 \in 2 .. n + 1
  OBVIOUS
<1>4. Followers(d) \in SUBSET (1 .. n)
  BY <1>1, <1>3
<1>5. CASE n > 0 /\ arrivals'[n + 1].dir = d
  <2>1. Followers(d)' = Followers(d) \cup {n + 1}
    BY <1>1, <1>2, <1>3, <1>5, Zenon
  <2> QED BY <1>4, <1>5, <2>1, Zenon
<1>6. CASE ~(n > 0 /\ arrivals'[n + 1].dir = d)
  <2>1. Followers(d)' = Followers(d)
    BY <1>1, <1>2, <1>3, <1>6, Zenon
  <2> QED BY <1>4, <1>6, <2>1, Zenon
<1> QED BY <1>5, <1>6

(* A direction the packet is not of.                                       *)
LEMMA DirectionSame ==
  ASSUME NEW d, NEW n \in Nat, Followers(d) \in SUBSET (1 .. n),
         \A i \in 1 .. n : arrivals'[i] = arrivals[i],
         Followers(d)' = Followers(d), last_us'[d] = last_us[d],
         dir_stats'[d] = dir_stats[d], dir_iats'[d] = dir_iats[d]
  PROVE  /\ LatestOf(d) => LatestOf(d)'
         /\ GapsOf(d) => GapsOf(d)'
         /\ ArrayOf(d) => ArrayOf(d)'
<1>1. \A i \in Followers(d) : arrivals'[i] = arrivals[i]
  OBVIOUS
<1>2. LatestOf(d) => LatestOf(d)'
  BY <1>1, Zenon DEF LatestOf
<1>3. Neighbours(d)' = Neighbours(d)
  BY Zenon DEF Neighbours
<1>4. \A m \in Neighbours(d) : m[1] \in Followers(d) /\ m[2] \in Followers(d)
  BY DEF Neighbours
<1>5. \A m \in Neighbours(d) :
        /\ Since(arrivals'[m[2]].ts, arrivals'[m[1]].ts) = Since(arrivals[m[2]].ts, arrivals[m[1]].ts)
        /\ Rank(Followers(d), m[1])' = Rank(Followers(d), m[1])
  BY <1>1, <1>4, Zenon DEF Rank
<1>6. GapsOf(d) => GapsOf(d)'
  BY <1>3, <1>5, Zenon DEF GapsOf, Since
<1>7. ArrayOf(d) => ArrayOf(d)'
  BY Zenon DEF ArrayOf
<1> QED BY <1>2, <1>6, <1>7

(* The last of some positions has the highest rank.                        *)
EndsWith(S, g) == g \in S /\ \A k \in S : k <= g
RankedUpTo(S, g) ==
  /\ Cardinality(S) \in Nat /\ Cardinality(S) # 0 /\ Cardinality(S) >= 1
  /\ Rank(S, g) = Cardinality(S)
  /\ \A i \in S : Rank(S, i) \in Nat /\ 1 <= Rank(S, i)
  /\ \A i, j \in S : i < j => Rank(S, i) <= Cardinality(S) - 1

LEMMA LastRanksHighest ==
  ASSUME NEW n \in Nat, NEW S \in SUBSET (1 .. n), NEW g, EndsWith(S, g)
  PROVE  RankedUpTo(S, g)
<1>1. /\ Cardinality(S) \in Nat /\ (Cardinality(S) = 0 <=> S = {})
      /\ \A i \in S : Rank(S, i) \in Nat /\ 1 <= Rank(S, i)
      /\ \A i, j \in S : i < j => Rank(S, i) <= Cardinality(S) - 1
      /\ \A k \in S : (\A i \in S : i <= k) => Rank(S, k) = Cardinality(S)
  BY RanksIn
<1>2. Cardinality(S) # 0 /\ Rank(S, g) = Cardinality(S)
  BY <1>1, Zenon DEF EndsWith
<1>3. Cardinality(S) >= 1
  BY <1>1, <1>2
<1> QED BY <1>1, <1>2, <1>3, Zenon DEF RankedUpTo

(* The gap to the latest packet of a direction is the direction's next.    *)
LEMMA GapIsNext ==
  ASSUME NEW d, NEW n \in Nat, Followers(d) \in SUBSET (1 .. n),
         \A i \in 1 .. n : arrivals'[i] = arrivals[i],
         Followers(d)' = Followers(d) \cup {n + 1},
         NEW g \in Followers(d), \A k \in Followers(d) : k <= g,
         dir_stats[d] \in Seq(Int), NEW gap \in Int,
         gap = Since(arrivals'[n + 1].ts, arrivals[g].ts),
         dir_stats'[d] = Append(dir_stats[d], gap), GapsOf(d)
  PROVE  GapsOf(d)'
<1> DEFINE S == Followers(d)
           T == Followers(d)'
           c == Cardinality(S)
           stats == dir_stats[d]
<1>1. /\ c \in Nat /\ c # 0 /\ Rank(S, g) = c /\ c >= 1
      /\ \A i \in S : Rank(S, i) \in Nat /\ 1 <= Rank(S, i)
      /\ \A i, j \in S : i < j => Rank(S, i) <= c - 1
  <2>1. EndsWith(S, g) /\ S \in SUBSET (1 .. n)
    BY Zenon DEF EndsWith
  <2> HIDE DEF S
  <2>2. RankedUpTo(S, g)
    BY <2>1, LastRanksHighest, Zenon
  <2> QED BY <2>2, Zenon DEF RankedUpTo
<1>2. /\ T = S \cup {n + 1} /\ Cardinality(T) = c + 1
      /\ \A i \in S : Rank(T, i) = Rank(S, i)
  <2>1. T = S \cup {n + 1} /\ S \in SUBSET (1 .. n)
    OBVIOUS
  <2> HIDE DEF S, T
  <2> QED BY <2>1, RanksKept, Zenon DEF c
<1>3. Len(stats) = c - 1
  <2>1. Max({c - 1, 0}) = IF c - 1 >= 0 THEN c - 1 ELSE 0
    <3>1. c - 1 \in Int /\ 0 \in Int
      BY <1>1
    <3> QED BY <3>1, MaxOfTwo, Zenon
  <2>2. c - 1 >= 0
    BY <1>1
  <2> QED BY <2>1, <2>2, Zenon DEF GapsOf
<1>4. /\ Len(dir_stats'[d]) = c /\ dir_stats'[d][c] = gap
      /\ \A i \in 1 .. c - 1 : dir_stats'[d][i] = stats[i]
  <2> HIDE DEF c
  <2> QED BY <1>1, <1>3
<1>5. Len(dir_stats'[d]) = Max({Cardinality(T) - 1, 0})
  <2>1. (c + 1) - 1 = c /\ c \in Int /\ 0 \in Int /\ c >= 0
    <3> HIDE DEF c
    <3> QED BY <1>1
  <2>2. Max({c, 0}) = c
    <3> HIDE DEF c
    <3>1. Max({c, 0}) = IF c >= 0 THEN c ELSE 0
      BY <2>1, MaxOfTwo, Zenon
    <3> QED BY <2>1, <3>1, Zenon
  <2> QED BY <1>2, <1>4, <2>1, <2>2, Zenon
<1>6. ASSUME NEW m \in Neighbours(d)'
      PROVE  dir_stats'[d][Rank(T, m[1])] = Since(arrivals'[m[2]].ts, arrivals'[m[1]].ts)
  <2>1. m \in T \X T /\ m[1] < m[2] /\ \A k \in T : k <= m[1] \/ m[2] <= k
    BY <1>6, Zenon DEF Neighbours
  <2>2. m[1] \in T /\ m[2] \in T
    BY <2>1
  <2>3. \A i \in S : i \in 1 .. n
    OBVIOUS
  <2>4. m[1] \in S
    <3>1. m[1] # n + 1
      <4> SUFFICES ASSUME m[1] = n + 1 PROVE FALSE
        OBVIOUS
      <4> HIDE DEF S, T
      <4>1. m[2] = n + 1 \/ m[2] \in 1 .. n
        BY <1>2, <2>2, <2>3
      <4> QED BY <2>1, <4>1
    <3> HIDE DEF S, T
    <3> QED BY <1>2, <2>2, <3>1
  <2>5. CASE m[2] = n + 1
    <3>1. m[1] = g
      <4>1. g \in T /\ g \in 1 .. n /\ m[1] \in 1 .. n /\ m[1] <= g
        BY <1>2, <2>3, <2>4
      <4>2. g <= m[1] \/ m[2] <= g
        BY <2>1, <4>1, Zenon
      <4> HIDE DEF T
      <4> QED BY <2>5, <4>1, <4>2
    <3>2. arrivals'[g] = arrivals[g]
      OBVIOUS
    <3>3. Rank(T, m[1]) = c
      BY <1>1, <1>2, <3>1, Zenon
    <3> QED BY <1>4, <2>5, <3>1, <3>2, <3>3, Zenon
  <2>6. CASE m[2] # n + 1
    <3>1. m[2] \in S
      <4> HIDE DEF S, T
      <4> QED BY <1>2, <2>2, <2>6
    <3>2. m \in Neighbours(d)
      <4>1. m \in S \X S
        <5> HIDE DEF S, T
        <5> QED BY <2>1, <2>4, <3>1
      <4>2. \A k \in S : k <= m[1] \/ m[2] <= k
        BY <1>2, <2>1, Zenon
      <4> QED BY <2>1, <4>1, <4>2, Zenon DEF Neighbours
    <3>3. dir_stats[d][Rank(S, m[1])] = Since(arrivals[m[2]].ts, arrivals[m[1]].ts)
      BY <3>2, Zenon DEF GapsOf
    <3>4. Rank(S, m[1]) \in 1 .. c - 1
      <4> HIDE DEF S, c
      <4>1. Rank(S, m[1]) \in Nat /\ 1 <= Rank(S, m[1]) /\ Rank(S, m[1]) <= c - 1
        BY <1>1, <2>1, <2>4, <3>1, Zenon
      <4> QED BY <1>1, <4>1
    <3>5. arrivals'[m[1]] = arrivals[m[1]] /\ arrivals'[m[2]] = arrivals[m[2]]
      BY <2>3, <2>4, <3>1, Zenon
    <3> QED BY <1>2, <1>4, <2>4, <3>3, <3>4, <3>5, Zenon
  <2> QED BY <2>5, <2>6
<1>7. /\ Cardinality(Followers(d))' = Cardinality(T)
      /\ \A i : Rank(Followers(d), i)' = Rank(T, i)
  BY Zenon DEF Rank
<1>8. \A m \in Neighbours(d)' :
        dir_stats'[d][Rank(Followers(d), m[1])'] = Since(arrivals'[m[2]].ts, arrivals'[m[1]].ts)
  BY <1>6, <1>7, Zenon
<1> HIDE DEF T
<1> QED BY <1>5, <1>7, <1>8, Zenon DEF GapsOf, T, Since

(* An array that keeps what fits holds the first of the samples, and all  *)
(* of them that fit the smallest block.                                    *)
LEMMA ArraysGrow ==
  \A stats, iats \in Seq(Int) : \A gap \in Int : \A capacity, least \in Nat :
    /\ least <= capacity /\ Len(iats) <= Len(stats)
    /\ \A i \in 1 .. Len(stats) : i <= least => i <= Len(iats) /\ iats[i] = stats[i]
    => /\ Len(Kept(iats, gap, capacity)) <= Len(Append(stats, gap))
       /\ \A i \in 1 .. Len(Append(stats, gap)) : i <= least =>
            /\ i <= Len(Kept(iats, gap, capacity))
            /\ Kept(iats, gap, capacity)[i] = Append(stats, gap)[i]
<1> TAKE stats, iats \in Seq(Int)
<1> TAKE gap \in Int
<1> TAKE capacity, least \in Nat
<1> HAVE /\ least <= capacity /\ Len(iats) <= Len(stats)
         /\ \A i \in 1 .. Len(stats) : i <= least => i <= Len(iats) /\ iats[i] = stats[i]
<1> DEFINE n == Len(stats)
           k == Len(iats)
           more == Append(stats, gap)
           kept == Kept(iats, gap, capacity)
<1>1. /\ n \in Nat /\ k \in Nat /\ Len(more) = n + 1 /\ more[n + 1] = gap
      /\ \A i \in 1 .. n : more[i] = stats[i]
  OBVIOUS
<1>2. n + 1 <= least => k = n
  <2> SUFFICES ASSUME n + 1 <= least PROVE k = n
    OBVIOUS
  <2>1. CASE n = 0
    BY <1>1, <2>1
  <2>2. CASE n # 0
    <3>1. n \in 1 .. Len(stats) /\ n <= least
      BY <1>1, <2>2
    <3>2. n <= k
      BY <3>1, Zenon
    <3> QED BY <1>1, <3>2
  <2> QED BY <2>1, <2>2
<1>3. /\ Len(kept) \in Nat /\ k <= Len(kept) /\ Len(kept) <= k + 1
      /\ \A i \in 1 .. k : kept[i] = iats[i]
      /\ k < capacity => Len(kept) = k + 1 /\ kept[k + 1] = gap
  <2>1. CASE k < capacity
    <3>1. kept = Append(iats, gap)
      BY <2>1, Zenon DEF Kept
    <3> HIDE DEF kept
    <3> QED BY <2>1, <3>1
  <2>2. CASE ~(k < capacity)
    <3>1. kept = iats
      BY <2>2, Zenon DEF Kept
    <3> HIDE DEF kept
    <3> QED BY <2>2, <3>1
  <2> QED BY <2>1, <2>2
<1> HIDE DEF kept, more
<1>4. Len(kept) <= Len(more)
  BY <1>1, <1>3
<1>5. ASSUME NEW i \in 1 .. Len(more), i <= least PROVE i <= Len(kept) /\ kept[i] = more[i]
  <2>1. CASE i = n + 1
    <3>1. k = n /\ k < capacity
      BY <1>1, <1>2, <1>5, <2>1
    <3> QED BY <1>1, <1>3, <2>1, <3>1
  <2>2. CASE i # n + 1
    <3>1. i \in 1 .. Len(stats)
      BY <1>1, <2>2
    <3>2. i <= Len(iats) /\ iats[i] = stats[i]
      BY <1>5, <3>1, Zenon
    <3> QED BY <1>1, <1>3, <3>1, <3>2, SMTT(30)
  <2> QED BY <2>1, <2>2
<1> QED BY <1>4, <1>5, Zenon DEF kept, more

(* What a packet after the first does to the two directions: the other     *)
(* one is left alone.                                                      *)
LEMMA DirectionMoves ==
  ASSUME GapsInv, NEW p \in Packets, NEW allocated \in BOOLEAN, Data(p, allocated),
         last_arrival_us # 0, NEW d \in Known
  PROVE  LET gap     == Since(p.ts, last_us[d])
             sampled == "need_fwd_bwd_iats" \in cfg.on /\ p.dir = d /\ last_us[d] > 0
         IN  /\ last_us'[d] = IF p.dir = d THEN p.ts ELSE last_us[d]
             /\ dir_stats'[d] = IF sampled THEN Append(dir_stats[d], gap) ELSE dir_stats[d]
             /\ dir_iats'[d] = IF sampled THEN Kept(dir_iats[d], gap, pool'.seq_len)
                                          ELSE dir_iats[d]
<1> DEFINE dir == p.dir
           gap == Since(p.ts, last_us[dir])
           S == "need_fwd_bwd_iats" \in cfg.on /\ dir \in Known /\ last_us[dir] > 0
           carried == [e \in Known |-> Carried(dir_iats[e])]
           capacity == pool'.seq_len
<1>1. DirectionUpdate(p.ts, dir, capacity) /\ last_us' = Seen(p.ts, dir)
  <2>1. pool' = PoolAfterPacket(allocated) /\ IatUpdate(p, pool'.seq_len)
    BY Zenon DEF Data, IatPacket
  <2> QED BY <2>1, Zenon DEF IatUpdate
<1>2. /\ dir_stats' = IF S THEN [dir_stats EXCEPT ![dir] = Append(@, gap)] ELSE dir_stats
      /\ dir_iats' = IF S THEN [carried EXCEPT ![dir] = Kept(@, gap, capacity)] ELSE carried
  BY <1>1, Zenon DEF DirectionUpdate
<1>3. carried = dir_iats
  <2>1. PoolInv /\ dir_iats \in [Known -> Seq(Int)] /\ \A e \in Known : Len(dir_iats[e]) <= pool.seq_len
    BY DEF GapsInv, IatInv, IatWellFormed
  <2>2. pool.seq_len \in Nat
    BY <2>1 DEF PoolInv, Pool
  <2>3. \A e \in Known : Carried(dir_iats[e]) = dir_iats[e]
    BY <2>1, <2>2, CarriedWhole
  <2> QED BY <2>1, <2>3
<1>4. last_us'[d] = IF dir = d THEN p.ts ELSE last_us[d]
  BY <1>1, Zenon DEF Seen
<1>5. dir_stats \in [Known -> Seq(Int)] /\ dir_iats \in [Known -> Seq(Int)]
  BY DEF GapsInv, IatInv
<1> HIDE DEF gap, carried, capacity
<1>6. CASE S /\ dir = d
  <2>1. dir_stats'[d] = Append(dir_stats[d], gap)
    BY <1>2, <1>5, <1>6
  <2>2. dir_iats'[d] = Kept(dir_iats[d], gap, capacity)
    BY <1>2, <1>3, <1>5, <1>6
  <2> QED BY <1>4, <1>6, <2>1, <2>2, Zenon DEF gap, capacity
<1>7. CASE S /\ dir # d
  <2>1. dir_stats'[d] = dir_stats[d] /\ dir_iats'[d] = dir_iats[d]
    BY <1>2, <1>3, <1>5, <1>7
  <2> QED BY <1>4, <1>7, <2>1, Zenon
<1>8. CASE ~S
  <2>1. dir_stats' = dir_stats /\ dir_iats' = dir_iats
    BY <1>2, <1>3, <1>8, Zenon
  <2> QED BY <1>4, <1>8, <2>1, Zenon
<1> QED BY <1>6, <1>7, <1>8

(* The statistics of the whole flow.                                       *)
AllGaps == [i \in 1 .. Max({Len(arrivals) - 1, 0}) |-> Since(arrivals[i + 1].ts, arrivals[i].ts)]

LEMMA AllGapsGrow ==
  ASSUME arrivals \in Seq(Packet), NEW n \in Nat, n = Len(arrivals), Len(arrivals') = n + 1,
         \A i \in 1 .. n : arrivals'[i] = arrivals[i], NEW ts \in Int,
         arrivals'[n + 1].ts = ts
  PROVE  /\ n = 0 => AllGaps = << >> /\ AllGaps' = << >>
         /\ n # 0 => AllGaps' = Append(AllGaps, Since(ts, arrivals[n].ts))
<1>1. CASE n = 0
  <2>1. Max({n - 1, 0}) = 0 /\ Max({n, 0}) = 0
    <3>1. Max({-1, 0}) = IF -1 >= 0 THEN -1 ELSE 0
      BY MaxOfTwo
    <3>2. Max({0, 0}) = IF 0 >= 0 THEN 0 ELSE 0
      BY MaxOfTwo
    <3>3. n - 1 = -1 /\ ~(-1 >= 0)
      BY <1>1
    <3> QED BY <1>1, <3>1, <3>2, <3>3, Zenon
  <2>2. (n + 1) - 1 = n
    OBVIOUS
  <2>3. AllGaps = [i \in 1 .. 0 |-> Since(arrivals[i + 1].ts, arrivals[i].ts)]
    BY <2>1, Zenon DEF AllGaps
  <2>4. AllGaps' = [i \in 1 .. 0 |-> Since(arrivals'[i + 1].ts, arrivals'[i].ts)]
    BY <2>1, <2>2, Zenon DEF AllGaps, Since
  <2>5. AllGaps = << >>
    BY <2>3
  <2>6. AllGaps' = << >>
    BY <2>4
  <2> QED BY <1>1, <2>5, <2>6
<1>2. CASE n # 0
  <2> DEFINE g == Since(ts, arrivals[n].ts)
             gaps == AllGaps
             all == Append(AllGaps, g)
  <2>1. Max({n - 1, 0}) = n - 1 /\ Max({(n + 1) - 1, 0}) = n
    <3>1. n - 1 \in Int /\ n \in Int /\ 0 \in Int /\ n - 1 >= 0 /\ n >= 0 /\ (n + 1) - 1 = n
      BY <1>2
    <3> DEFINE m == n - 1
    <3>2. m \in Int /\ m >= 0
      BY <3>1
    <3> HIDE DEF m
    <3>3. Max({m, 0}) = m
      BY <3>1, <3>2, MaxOfTwo, Zenon
    <3>4. Max({n, 0}) = n
      BY <3>1, MaxOfTwo, Zenon
    <3> QED BY <3>1, <3>3, <3>4, Zenon DEF m
  <2>2. gaps = [i \in 1 .. n - 1 |-> Since(arrivals[i + 1].ts, arrivals[i].ts)]
    BY <2>1, Zenon DEF AllGaps
  <2>3. AllGaps' = [i \in 1 .. n |-> Since(arrivals'[i + 1].ts, arrivals'[i].ts)]
    BY <2>1, Zenon DEF AllGaps, Since
  <2>4. \A i \in 1 .. n : arrivals[i].ts \in Int
    <3>1. \A i \in 1 .. n : arrivals[i] \in Packet
      OBVIOUS
    <3>2. \A q \in Packet : q.ts \in Int
      BY StreamConstants DEF Packet
    <3> QED BY <3>1, <3>2, Zenon
  <2>5. g \in Int
    <3>1. n \in 1 .. n
      BY <1>2
    <3> QED BY <2>4, <3>1, SinceInRange
  <2>6. \A i \in 1 .. n - 1 : /\ i \in 1 .. n /\ i + 1 \in 1 .. n
                              /\ Since(arrivals[i + 1].ts, arrivals[i].ts) \in Int
    <3> TAKE i \in 1 .. n - 1
    <3>1. i \in 1 .. n /\ i + 1 \in 1 .. n
      OBVIOUS
    <3> QED BY <2>4, <3>1, SinceInRange
  <2>7. /\ gaps \in Seq(Int) /\ Len(gaps) = n - 1
        /\ \A i \in 1 .. n - 1 : gaps[i] = Since(arrivals[i + 1].ts, arrivals[i].ts)
    <3>1. n - 1 \in Nat
      BY <1>2
    <3> DEFINE f(i) == Since(arrivals[i + 1].ts, arrivals[i].ts)
    <3>2. gaps = [i \in 1 .. n - 1 |-> f(i)] /\ \A i \in 1 .. n - 1 : f(i) \in Int
      BY <2>2, <2>6, Zenon
    <3> HIDE DEF f, gaps
    <3>3. gaps \in Seq(Int) /\ Len(gaps) = n - 1 /\ \A i \in 1 .. n - 1 : gaps[i] = f(i)
      BY <3>1, <3>2
    <3> QED BY <3>3, Zenon DEF f
  <2> HIDE DEF gaps, g
  <2>8. /\ all \in Seq(Int) /\ Len(all) = n /\ all[n] = g
        /\ \A i \in 1 .. n - 1 : all[i] = gaps[i]
    <3>1. all = Append(gaps, g)
      BY Zenon DEF gaps
    <3> HIDE DEF all
    <3> QED BY <1>2, <2>5, <2>7, <3>1
  <2> HIDE DEF all
  <2>9. \A i \in 1 .. n : all[i] = Since(arrivals'[i + 1].ts, arrivals'[i].ts)
    <3> TAKE i \in 1 .. n
    <3>1. CASE i = n
      <4>1. arrivals'[n] = arrivals[n]
        BY <1>2
      <4> QED BY <2>8, <3>1, <4>1, Zenon DEF g
    <3>2. CASE i # n
      <4>1. i \in 1 .. n - 1
        BY <3>2
      <4>2. arrivals'[i] = arrivals[i] /\ arrivals'[i + 1] = arrivals[i + 1]
        BY <2>6, <4>1, Zenon
      <4> QED BY <2>7, <2>8, <4>1, <4>2, Zenon
    <3> QED BY <3>1, <3>2
  <2>10. all = [i \in 1 .. n |-> all[i]]
    <3>1. all \in [1 .. n -> Int]
      BY <2>8
    <3> QED BY <3>1
  <2>11. AllGaps' = all
    BY <2>3, <2>9, <2>10, Zenon
  <2> QED BY <1>2, <2>11, Zenon DEF all, g
<1> QED BY <1>1, <1>2

(* What an own packet with a gap leaves of the array.                      *)
LEMMA ArrayStep ==
  ASSUME NEW d, NEW gap \in Int, NEW capacity \in Nat,
         SeqLen[Tiny] \in Nat, SeqLen[Tiny] <= capacity,
         dir_stats[d] \in Seq(Int), dir_iats[d] \in Seq(Int), ArrayOf(d),
         dir_stats'[d] = Append(dir_stats[d], gap),
         dir_iats'[d] = Kept(dir_iats[d], gap, capacity)
  PROVE  ArrayOf(d)'
<1>1. /\ Len(dir_iats[d]) <= Len(dir_stats[d])
      /\ \A i \in 1 .. Len(dir_stats[d]) : i <= SeqLen[Tiny] =>
           i <= Len(dir_iats[d]) /\ dir_iats[d][i] = dir_stats[d][i]
  BY Zenon DEF ArrayOf
<1>2. /\ Len(Kept(dir_iats[d], gap, capacity)) <= Len(Append(dir_stats[d], gap))
      /\ \A i \in 1 .. Len(Append(dir_stats[d], gap)) : i <= SeqLen[Tiny] =>
           /\ i <= Len(Kept(dir_iats[d], gap, capacity))
           /\ Kept(dir_iats[d], gap, capacity)[i] = Append(dir_stats[d], gap)[i]
  BY <1>1, ArraysGrow
<1> QED BY <1>2, Zenon DEF ArrayOf

(* What a packet after the flow's first leaves of its own direction.       *)
LEMMA OwnDirection ==
  ASSUME GapsInv, NEW p \in Packets, NEW allocated \in BOOLEAN, Data(p, allocated),
         NEW n \in Nat, n = Len(arrivals), n # 0, p.dir \in Known
  PROVE  LET d == p.dir
         IN  /\ LatestOf(d)'
             /\ IF "need_fwd_bwd_iats" \in cfg.on THEN GapsOf(d)' ELSE dir_stats'[d] = << >>
             /\ ArrayOf(d)'
<1> PICK d : d = p.dir
  OBVIOUS
<1>1. /\ arrivals' \in Seq(Packet) /\ Len(arrivals') = n + 1 /\ arrivals'[n + 1] = p
      /\ \A i \in 1 .. n : arrivals'[i] = arrivals[i] /\ arrivals[i].ts \in Int
      /\ p.ts \in Int /\ p.ts > 0 /\ arrivals \in Seq(Packet) /\ d \in Known
      /\ arrivals'[n + 1].dir = d /\ arrivals'[n + 1].ts = p.ts /\ n > 0
      /\ arrivals # << >> /\ \A i \in 1 .. n : arrivals[i].ts # 0
  <2>1. arrivals \in Seq(Packet)
    BY DEF GapsInv
  <2>2. /\ arrivals' \in Seq(Packet) /\ Len(arrivals') = n + 1 /\ arrivals'[n + 1] = p
        /\ \A i \in 1 .. n : arrivals'[i] = arrivals[i] /\ arrivals[i].ts \in Int
                             /\ arrivals[i] \in Packet
        /\ p.ts \in Int /\ p.ts > 0
    BY <2>1, Arrives
  <2>3. \A q \in Packet : q.ts # 0
    BY DEF Packet
  <2>4. n > 0
    OBVIOUS
  <2>5. \A i \in 1 .. n : arrivals[i].ts # 0
    BY <2>2, <2>3, Zenon
  <2>6. arrivals # << >>
    BY <2>4
  <2> QED BY <2>1, <2>2, <2>4, <2>5, <2>6, Zenon
<1>2. last_arrival_us # 0
  <2>1. last_arrival_us = arrivals[n].ts
    BY <1>1, Zenon DEF GapsInv
  <2>2. n \in 1 .. n
    BY <1>1
  <2> QED BY <1>1, <2>1, <2>2, Zenon
<1> DEFINE gap == Since(p.ts, last_us[d])
           capacity == pool'.seq_len
<1>3. LET sampled == "need_fwd_bwd_iats" \in cfg.on /\ last_us[d] > 0
      IN  /\ last_us'[d] = p.ts
          /\ dir_stats'[d] = IF sampled THEN Append(dir_stats[d], gap) ELSE dir_stats[d]
          /\ dir_iats'[d] = IF sampled THEN Kept(dir_iats[d], gap, capacity) ELSE dir_iats[d]
  BY <1>1, <1>2, DirectionMoves, ZenonT(40)
<1>4. /\ Followers(d) \in SUBSET (1 .. n)
      /\ Followers(d)' = Followers(d) \cup {n + 1}
  <2>1. /\ Followers(d) \in SUBSET (1 .. n)
        /\ Followers(d)' = Followers(d) \cup (IF n > 0 /\ arrivals'[n + 1].dir = d
                                                THEN {n + 1} ELSE {})
    BY <1>1, FollowersGrow
  <2> QED BY <1>1, <2>1, Zenon
<1>5. /\ LatestOf(d) /\ ArrayOf(d)
      /\ dir_stats[d] \in Seq(Int) /\ dir_iats[d] \in Seq(Int) /\ last_us[d] \in Int
      /\ last_us[d] >= 0 /\ last_us[d] \in 0 .. LLongSpan - 1
      /\ IF "need_fwd_bwd_iats" \in cfg.on THEN GapsOf(d) ELSE dir_stats[d] = << >>
  <2>1. last_us[d] \in 0 .. LLongSpan - 1
    BY <1>1 DEF GapsInv, IatInv, IatWellFormed
  <2>2. last_us[d] \in Int /\ last_us[d] >= 0
    BY <2>1, StreamConstants
  <2>3. dir_stats[d] \in Seq(Int) /\ dir_iats[d] \in Seq(Int)
    BY <1>1 DEF GapsInv, IatInv
  <2> QED BY <1>1, <2>1, <2>2, <2>3, Zenon DEF GapsInv
<1>6. LatestOf(d)'
  <2>1. /\ n + 1 \in Followers(d)'
        /\ \A k \in Followers(d)' : k <= n + 1
    <3>1. \A k \in 1 .. n : k <= n + 1
      OBVIOUS
    <3>2. n + 1 <= n + 1
      OBVIOUS
    <3> QED BY <1>4, <3>1, <3>2, Zenon
  <2>2. last_us'[d] = arrivals'[n + 1].ts /\ last_us'[d] # 0
    BY <1>1, <1>3
  <2> QED BY <2>1, <2>2, Zenon DEF LatestOf
<1>7. gap \in Int
  BY <1>1, <1>5, SinceInRange
<1>8. CASE "need_fwd_bwd_iats" \notin cfg.on
  <2>1. dir_stats'[d] = << >> /\ dir_iats'[d] = dir_iats[d] /\ dir_stats[d] = << >>
    BY <1>3, <1>5, <1>8, Zenon
  <2>2. ArrayOf(d)'
    BY <1>5, <2>1, ZenonT(40) DEF ArrayOf
  <2> QED BY <1>6, <1>8, <2>1, <2>2, Zenon
<1>9. CASE "need_fwd_bwd_iats" \in cfg.on /\ ~(last_us[d] > 0)
  <2>1. /\ dir_stats'[d] = dir_stats[d] /\ dir_iats'[d] = dir_iats[d] /\ GapsOf(d)
        /\ last_us[d] = 0
    BY <1>3, <1>5, <1>9
  <2>2. Followers(d) = {} /\ Followers(d)' = {n + 1}
    BY <1>4, <1>5, <2>1, Zenon DEF LatestOf
  <2>3. Len(dir_stats[d]) = 0
    <3>1. Cardinality({}) - 1 = -1
      BY FS_EmptySet
    <3>2. Max({-1, 0}) = 0
      <4>1. Max({-1, 0}) = IF -1 >= 0 THEN -1 ELSE 0
        BY MaxOfTwo
      <4> QED BY <4>1
    <3> QED BY <2>1, <2>2, <3>1, <3>2, Zenon DEF GapsOf
  <2>4. Max({Cardinality({n + 1}) - 1, 0}) = 0
    <3>1. Cardinality({n + 1}) = 1
      BY FS_Singleton
    <3>2. Max({0, 0}) = 0
      <4>1. Max({0, 0}) = IF 0 >= 0 THEN 0 ELSE 0
        BY MaxOfTwo
      <4> QED BY <4>1
    <3>3. 1 - 1 = 0
      OBVIOUS
    <3> QED BY <3>1, <3>2, <3>3, Zenon
  <2>5. Neighbours(d)' = {}
    <3>1. Neighbours(d)' = {m \in {n + 1} \X {n + 1} :
                              m[1] < m[2] /\ \A k \in {n + 1} : k <= m[1] \/ m[2] <= k}
      BY <2>2, Zenon DEF Neighbours
    <3> QED BY <3>1
  <2>6. GapsOf(d)'
    <3>1. Cardinality(Followers(d))' = Cardinality({n + 1})
      BY <2>2, Zenon
    <3> QED BY <2>1, <2>3, <2>4, <2>5, <3>1, Zenon DEF GapsOf
  <2>7. ArrayOf(d)'
    BY <1>5, <2>1, Zenon DEF ArrayOf
  <2> QED BY <1>6, <1>9, <2>6, <2>7, Zenon
<1>10. CASE "need_fwd_bwd_iats" \in cfg.on /\ last_us[d] > 0
  <2>1. /\ dir_stats'[d] = Append(dir_stats[d], gap)
        /\ dir_iats'[d] = Kept(dir_iats[d], gap, capacity)
        /\ GapsOf(d)
    BY <1>3, <1>5, <1>10, Zenon
  <2>2. last_us[d] # 0
    BY <1>10
  <2>3. PICK g \in Followers(d) : (\A k \in Followers(d) : k <= g) /\ last_us[d] = arrivals[g].ts
    BY <1>5, <2>2, Zenon DEF LatestOf
  <2>4. gap = Since(arrivals'[n + 1].ts, arrivals[g].ts)
    BY <1>1, <2>3, Zenon
  <2>5. GapsOf(d)'
    <3> HIDE DEF gap
    <3>1. \A i \in 1 .. n : arrivals'[i] = arrivals[i]
      BY <1>1
    <3> QED BY <1>4, <1>5, <1>7, <2>1, <2>3, <2>4, <3>1, GapIsNext, ZenonT(60)
  <2>6. ArrayOf(d)'
    <3>1. capacity \in Nat /\ SeqLen[Tiny] \in Nat /\ SeqLen[Tiny] <= capacity
      <4>1. PoolInv' /\ pool'.seq_len \in Nat
        <5>1. PoolInv /\ pool' = PoolAfterPacket(allocated)
          BY Zenon DEF GapsInv, IatInv, Data
        <5> QED BY <5>1, PoolNeverShrinks
      <4>2. pool'.level \in Level /\ pool'.seq_len = SeqLen[pool'.level]
        BY <4>1 DEF PoolInv, Pool
      <4> QED BY <4>1, <4>2, SmallestLevel
    <3> HIDE DEF gap, capacity
    <3> QED BY <1>5, <1>7, <2>1, <3>1, ArrayStep
  <2> QED BY <1>6, <1>10, <2>5, <2>6, Zenon
<1> QED BY <1>8, <1>9, <1>10

LEMMA GapsStep ==
  ASSUME GapsInv, NEW p \in Packets, NEW allocated \in BOOLEAN, Data(p, allocated)
  PROVE  GapsInv'
<1> PICK n \in Nat : n = Len(arrivals)
  BY DEF GapsInv
<1>1. /\ arrivals' \in Seq(Packet) /\ Len(arrivals') = n + 1 /\ arrivals'[n + 1] = p
      /\ \A i \in 1 .. n : arrivals'[i] = arrivals[i]
      /\ \A i \in 1 .. n : arrivals[i].ts \in Int /\ arrivals[i].ts # 0
      /\ p.ts \in Int /\ arrivals \in Seq(Packet) /\ cfg' = cfg
      /\ arrivals'[n + 1].dir = p.dir /\ arrivals'[n + 1].ts = p.ts
      /\ arrivals' # << >> /\ arrivals'[Len(arrivals')] = p
  <2>1. arrivals \in Seq(Packet)
    BY DEF GapsInv
  <2>2. /\ arrivals' \in Seq(Packet) /\ Len(arrivals') = n + 1 /\ arrivals'[n + 1] = p
        /\ \A i \in 1 .. n : arrivals'[i] = arrivals[i] /\ arrivals[i].ts \in Int
                             /\ arrivals[i] \in Packet
        /\ p.ts \in Int /\ cfg' = cfg
    BY <2>1, Arrives
  <2>3. \A q \in Packet : q.ts # 0
    BY DEF Packet
  <2>4. \A i \in 1 .. n : arrivals[i].ts # 0
    BY <2>2, <2>3, Zenon
  <2>5. arrivals' # << >>
    BY <2>2
  <2> QED BY <2>1, <2>2, <2>4, <2>5, Zenon
<1>2. IatInv'
  BY IatInvStep DEF GapsInv, Next
<1>3. last_arrival_us' = p.ts
  BY Zenon DEF Data, IatPacket, IatUpdate
<1>4. last_arrival_us' = IF arrivals' = << >> THEN 0 ELSE arrivals'[Len(arrivals')].ts
  BY <1>1, <1>3, Zenon
<1>5. last_arrival_us = 0 <=> n = 0
  <2>1. CASE n = 0
    <3>1. arrivals = << >>
      <4>1. Len(arrivals) = 0
        BY <2>1
      <4> QED BY <1>1, <4>1
    <3> QED BY <2>1, <3>1 DEF GapsInv
  <2>2. CASE n # 0
    <3>1. arrivals # << >> /\ n \in 1 .. n
      BY <1>1, <2>2
    <3>2. last_arrival_us = arrivals[n].ts
      BY <3>1, Zenon DEF GapsInv
    <3> QED BY <1>1, <2>2, <3>1, <3>2, Zenon
  <2> QED BY <2>1, <2>2
<1>6. iat_stats = IF "enable_iat_stats" \in cfg.on THEN AllGaps ELSE << >>
  BY Zenon DEF GapsInv, AllGaps
<1>7. iat_stats' = IF "enable_iat_stats" \in cfg.on THEN AllGaps' ELSE << >>
  <2>1. CASE n = 0
    <3>1. AllGaps' = AllGaps
      BY <1>1, <2>1, AllGapsGrow
    <3>2. iat_stats' = iat_stats
      BY <1>5, <2>1, Zenon DEF Data, IatPacket, IatUpdate
    <3> QED BY <1>6, <3>1, <3>2, Zenon
  <2>2. CASE n # 0
    <3>1. AllGaps' = Append(AllGaps, Since(p.ts, arrivals[n].ts))
      BY <1>1, <2>2, AllGapsGrow
    <3>2. iat_stats' = IF "enable_iat_stats" \in cfg.on
                         THEN Append(iat_stats, Since(p.ts, last_arrival_us)) ELSE iat_stats
      BY <1>5, <2>2, Zenon DEF Data, IatPacket, IatUpdate
    <3>3. last_arrival_us = arrivals[n].ts
      <4>1. arrivals # << >>
        BY <2>2
      <4> QED BY <4>1, Zenon DEF GapsInv
    <3> QED BY <1>6, <3>1, <3>2, <3>3, Zenon
  <2> QED BY <2>1, <2>2
<1>8. ASSUME NEW d \in Known
      PROVE  /\ dir_stats'[d] \in Seq(Int)
             /\ LatestOf(d)'
             /\ IF "need_fwd_bwd_iats" \in cfg.on THEN GapsOf(d)' ELSE dir_stats'[d] = << >>
             /\ ArrayOf(d)'
  <2>1. /\ LatestOf(d) /\ ArrayOf(d) /\ dir_stats[d] \in Seq(Int)
        /\ IF "need_fwd_bwd_iats" \in cfg.on THEN GapsOf(d) ELSE dir_stats[d] = << >>
    BY DEF GapsInv
  <2>2. /\ Followers(d) \in SUBSET (1 .. n)
        /\ Followers(d)' = Followers(d) \cup (IF n > 0 /\ p.dir = d THEN {n + 1} ELSE {})
    <3>1. Followers(d)' = Followers(d) \cup (IF n > 0 /\ arrivals'[n + 1].dir = d
                                               THEN {n + 1} ELSE {})
          /\ Followers(d) \in SUBSET (1 .. n)
      BY <1>1, FollowersGrow
    <3> QED BY <1>1, <3>1, Zenon
  <2>3. CASE n # 0 /\ p.dir = d
    <3>1. dir_stats'[d] \in Seq(Int)
      <4>1. last_us[d] \in Int
        BY StreamConstants DEF GapsInv, IatInv, IatWellFormed
      <4>2. Since(p.ts, last_us[d]) \in Int
        BY <1>1, <4>1, SinceInRange
      <4>3. \/ dir_stats'[d] = dir_stats[d]
            \/ dir_stats'[d] = Append(dir_stats[d], Since(p.ts, last_us[d]))
        <5>1. last_arrival_us # 0
          BY <1>5, <2>3, Zenon
        <5> QED BY <2>3, <5>1, DirectionMoves, Zenon
      <4> DEFINE stats == dir_stats[d]
                 gap == Since(p.ts, last_us[d])
      <4> HIDE DEF stats, gap
      <4>4. stats \in Seq(Int) /\ gap \in Int
        BY <2>1, <4>2, Zenon DEF stats, gap
      <4>5. Append(stats, gap) \in Seq(Int)
        BY <4>4
      <4> QED BY <2>1, <4>3, <4>5, Zenon DEF stats, gap
    <3> QED BY <2>3, <3>1, OwnDirection, Zenon
  <2>4. CASE ~(n # 0 /\ p.dir = d)
    <3>1. last_us'[d] = last_us[d] /\ dir_stats'[d] = dir_stats[d] /\ dir_iats'[d] = dir_iats[d]
      <4>1. CASE n = 0
        BY <1>5, <4>1, Zenon DEF Data, IatPacket, IatUpdate
      <4>2. CASE n # 0
        <5>1. p.dir # d /\ last_arrival_us # 0
          BY <1>5, <2>4, <4>2, Zenon
        <5> QED BY <5>1, DirectionMoves, Zenon
      <4> QED BY <4>1, <4>2
    <3>2. Followers(d)' = Followers(d)
      <4>1. ~(n > 0 /\ p.dir = d)
        BY <2>4
      <4> QED BY <2>2, <4>1, Zenon
    <3>3. /\ LatestOf(d) => LatestOf(d)'
          /\ GapsOf(d) => GapsOf(d)'
          /\ ArrayOf(d) => ArrayOf(d)'
      BY <1>1, <2>2, <3>1, <3>2, DirectionSame
    <3> QED BY <2>1, <3>1, <3>3, Zenon
  <2> QED BY <2>3, <2>4
<1>9. dir_stats' \in [Known -> Seq(Int)]
  <2>1. \E f : dir_stats' = [d \in Known |-> f[d]]
    <3>1. dir_stats \in [Known -> Seq(Int)] /\ dir_stats = [d \in Known |-> dir_stats[d]]
      BY DEF GapsInv
    <3>2. \/ dir_stats' = dir_stats
          \/ dir_stats' = [dir_stats EXCEPT ![p.dir] = Append(@, Since(p.ts, last_us[p.dir]))]
      BY Zenon DEF Data, IatPacket, IatUpdate, DirectionUpdate
    <3>3. dir_stats' = [d \in Known |-> dir_stats'[d]]
      BY <3>1, <3>2
    <3> QED BY <3>3, Zenon
  <2>2. dir_stats' = [d \in Known |-> dir_stats'[d]]
    BY <2>1
  <2>3. \A d \in Known : dir_stats'[d] \in Seq(Int)
    BY <1>8, Zenon
  <2> QED BY <2>2, <2>3
<1>10. iat_stats' = IF "enable_iat_stats" \in cfg'.on
                      THEN [i \in 1 .. Max({Len(arrivals') - 1, 0}) |->
                              Since(arrivals'[i + 1].ts, arrivals'[i].ts)]
                      ELSE << >>
  BY <1>1, <1>7, Zenon DEF AllGaps, Since
<1>11. \A d \in Known :
         /\ LatestOf(d)'
         /\ IF "need_fwd_bwd_iats" \in cfg'.on THEN GapsOf(d)' ELSE dir_stats'[d] = << >>
         /\ ArrayOf(d)'
  BY <1>1, <1>8, Zenon
<1> QED BY <1>1, <1>2, <1>4, <1>9, <1>10, <1>11, Zenon DEF GapsInv, Since

LEMMA GapsInit == Init => GapsInv
<1> SUFFICES ASSUME Init PROVE GapsInv
  OBVIOUS
<1>1. /\ arrivals = << >> /\ last_arrival_us = 0 /\ iat_stats = << >>
      /\ last_us = [d \in Known |-> 0] /\ dir_stats = [d \in Known |-> << >>]
      /\ dir_iats = [d \in Known |-> << >>] /\ IatInv
  BY IatInvInit DEF Init, StreamInit, IatInit
<1>2. Len(arrivals) - 1 = -1 /\ Max({-1, 0}) = 0
  <2>1. Max({-1, 0}) = IF -1 >= 0 THEN -1 ELSE 0
    BY MaxOfTwo
  <2> QED BY <1>1, <2>1
<1>3. iat_stats = [i \in 1 .. Max({Len(arrivals) - 1, 0}) |->
                     Since(arrivals[i + 1].ts, arrivals[i].ts)]
  <2>1. [i \in 1 .. 0 |-> Since(arrivals[i + 1].ts, arrivals[i].ts)] = << >>
    OBVIOUS
  <2> QED BY <1>1, <1>2, <2>1, Zenon
<1>4. \A d \in Known : Followers(d) = {}
  BY <1>1 DEF Followers
<1>5. \A d \in Known : LatestOf(d)
  BY <1>1, <1>4 DEF LatestOf
<1>6. \A d \in Known : dir_stats[d] = << >> /\ dir_iats[d] = << >>
  BY <1>1
<1>7. ASSUME NEW d \in Known PROVE GapsOf(d)
  <2>1. Cardinality({}) - 1 = -1 /\ Len(dir_stats[d]) = 0
    BY <1>6, FS_EmptySet
  <2>2. Neighbours(d) = {}
    BY <1>4 DEF Neighbours
  <2> QED BY <1>2, <1>4, <2>1, <2>2, Zenon DEF GapsOf
<1>8. ASSUME NEW d \in Known PROVE ArrayOf(d)
  <2>1. dir_stats[d] = << >> /\ dir_iats[d] = << >>
    BY <1>6
  <2> QED BY <2>1 DEF ArrayOf
<1>9. arrivals \in Seq(Packet) /\ dir_stats \in [Known -> Seq(Int)]
  BY <1>1
<1> QED BY <1>1, <1>3, <1>5, <1>6, <1>7, <1>8, <1>9, Zenon DEF GapsInv

LEMMA GapsNext == GapsInv /\ [Next]_vars => GapsInv'
<1> SUFFICES ASSUME GapsInv, [Next]_vars PROVE GapsInv'
  OBVIOUS
<1>1. CASE UNCHANGED vars
  <2>1. IatInv'
    BY IatInvStep DEF GapsInv
  <2>2. UNCHANGED << cfg, arrivals, last_arrival_us, iat_stats, last_us, dir_stats, dir_iats >>
    BY <1>1, Zenon DEF vars, streamVars, iatVars
  <2>3. \A d : Followers(d)' = Followers(d) /\ Neighbours(d)' = Neighbours(d)
               /\ \A i : Rank(Followers(d), i)' = Rank(Followers(d), i)
    BY <2>2, Zenon DEF Followers, Neighbours, Rank
  <2>4. \A d : /\ LatestOf(d)' <=> LatestOf(d)
               /\ GapsOf(d)' <=> GapsOf(d)
               /\ ArrayOf(d)' <=> ArrayOf(d)
    BY <2>2, <2>3, Zenon DEF LatestOf, GapsOf, ArrayOf, Since
  <2> QED BY <2>1, <2>2, <2>4, Zenon DEF GapsInv, Since
<1> QED BY <1>1, GapsStep DEF Next

(* calc_iat_update samples the gap between every two neighbours of a       *)
(* direction, in order and whatever the other direction does, and an array *)
(* misses none that fits the smallest block.                               *)
THEOREM GapsFollowDirections == Spec => []DirectionGaps
<1>1. GapsInv => DirectionGaps
  <2> SUFFICES ASSUME GapsInv PROVE DirectionGaps
    OBVIOUS
  <2>1. Len(<< >>) = 0
    OBVIOUS
  <2> QED BY <2>1, Zenon DEF GapsInv, DirectionGaps, GapsOf, ArrayOf
<1> QED BY GapsInit, GapsNext, <1>1, PTL DEF Spec
-----------------------------------------------------------------------------
(* The folds over fractions, as functions of the positions done.           *)
LEMMA PeakUnfolds ==
  ASSUME NEW fractions
  PROVE  PeakOf(fractions) = (CHOOSE it : it = [S \in SUBSET DOMAIN fractions |->
            IF S = {} THEN Zero
            ELSE IF AtMost(fractions[Max(S)], it[S \ {Max(S)}]) THEN it[S \ {Max(S)}]
                 ELSE fractions[Max(S)]])[DOMAIN fractions]
BY DEF PeakOf, FoldLeft, MapThenFoldSet

(* calc_burst_statistics: no rate exceeds the peak.                        *)
LEMMA PeakNotExceeded ==
  ASSUME NEW m \in Nat, NEW fractions \in [1 .. m -> Lowest]
  PROVE  /\ PeakOf(fractions) \in Lowest
         /\ \A i \in 1 .. m : AtMost(fractions[i], PeakOf(fractions))
<1> DEFINE State == Lowest
           next(s, i) == IF AtMost(fractions[i], s) THEN s ELSE fractions[i]
           step == [q \in State \X (1 .. m) |-> next(q[1], q[2])]
<1>1. Zero \in State /\ DOMAIN fractions = 1 .. m
  <2>1. Zero \in Lowest
    BY WholesOrder DEF Zero
  <2> QED BY <2>1
<1>2. step \in [State \X (1 .. m) -> State]
  <2>1. ASSUME NEW s \in State, NEW i \in 1 .. m PROVE next(s, i) \in State
    OBVIOUS
  <2> HIDE DEF State, next
  <2> QED BY <2>1
<1> HIDE DEF State
<1>3. PICK it \in [SUBSET (1 .. m) -> State] : FoldsTo(step, Zero, m, it)
  <2> HIDE DEF step
  <2> QED BY <1>1, <1>2, FoldsExist
<1> DEFINE After(f, S) == next(f[S \ {Max(S)}], Max(S))
<1>4. \A f : \A S \in SUBSET (1 .. m) : S # {} /\ f[S \ {Max(S)}] \in State
         => After(f, S) = step[<<f[S \ {Max(S)}], Max(S)>>]
  <2> TAKE f
  <2> TAKE S \in SUBSET (1 .. m)
  <2> HAVE S # {} /\ f[S \ {Max(S)}] \in State
  <2>1. Max(S) \in 1 .. m
    BY MaxOfPositions
  <2> HIDE DEF next
  <2>2. step[<<f[S \ {Max(S)}], Max(S)>>] = next(f[S \ {Max(S)}], Max(S))
    BY <2>1
  <2> QED BY <2>2, Zenon
<1>5. it = [S \in SUBSET (1 .. m) |-> IF S = {} THEN Zero ELSE After(it, S)]
  <2>1. \A S \in SUBSET (1 .. m) : S # {} => it[S \ {Max(S)}] \in State
    BY <1>3
  <2> HIDE DEF step, After
  <2> QED BY <1>3, <1>4, <2>1, Zenon DEF FoldsTo
<1> DEFINE scan == CHOOSE f : f = [S \in SUBSET (1 .. m) |-> IF S = {} THEN Zero ELSE After(f, S)]
<1>6. scan = [S \in SUBSET (1 .. m) |-> IF S = {} THEN Zero ELSE After(scan, S)]
  <2> HIDE DEF After
  <2> QED BY <1>5, Zenon
<1>7. PeakOf(fractions) = scan[1 .. m]
  BY <1>1, PeakUnfolds, Zenon
<1>8. Folded(State, step, Zero, m, scan)
  <2> DEFINE after == [S \in SUBSET (1 .. m) |-> After(scan, S)]
  <2> HIDE DEF scan, After, step
  <2>1. scan = [S \in SUBSET (1 .. m) |-> IF S = {} THEN Zero ELSE after[S]]
    BY <1>6, Zenon
  <2>2. \A S \in SUBSET (1 .. m) : S # {} /\ scan[S \ {Max(S)}] \in State
            => after[S] = step[<<scan[S \ {Max(S)}], Max(S)>>]
    BY <1>4, Zenon
  <2> HIDE DEF after
  <2> QED BY <1>1, <1>2, <2>1, <2>2, FoldSteps, Zenon
<1> HIDE DEF scan
<1>9. ASSUME NEW j \in Nat, j + 1 <= m
      PROVE  scan[1 .. j] \in State /\ scan[1 .. j + 1] = next(scan[1 .. j], j + 1)
  <2>1. j <= m /\ j + 1 \in 1 .. m
    BY <1>9
  <2>2. scan[1 .. j] \in State /\ scan[1 .. j + 1] = step[<<scan[1 .. j], j + 1>>]
    BY <1>8, <1>9, <2>1, Zenon DEF Folded
  <2>3. <<scan[1 .. j], j + 1>> \in State \X (1 .. m)
    BY <2>1, <2>2
  <2>4. step[<<scan[1 .. j], j + 1>>] = next(scan[1 .. j], j + 1)
    <3> HIDE DEF next
    <3> QED BY <2>3
  <2> QED BY <2>2, <2>4, Zenon
<1>10. scan[1 .. 0] = Zero
  BY <1>8, Zenon DEF Folded
<1> HIDE DEF step
<1>0. scan[1 .. m] \in State
  <2>1. m <= m
    OBVIOUS
  <2> QED BY <1>8, <2>1, Zenon DEF Folded
<1> DEFINE P == {j \in Nat : j <= m => \A i \in 1 .. j : AtMost(fractions[i], scan[1 .. j])}
<1>11. 0 \in P
  OBVIOUS
<1>12. ASSUME NEW j \in Nat, j \in P PROVE j + 1 \in P
  <2>1. SUFFICES ASSUME j + 1 <= m, NEW i \in 1 .. j + 1 PROVE AtMost(fractions[i], scan[1 .. j + 1])
    OBVIOUS
  <2>2. j <= m /\ j + 1 \in 1 .. m /\ i \in 1 .. m
    BY <2>1
  <2>3. \A k \in 1 .. j : AtMost(fractions[k], scan[1 .. j])
    BY <1>12, <2>2, Zenon
  <2>4. scan[1 .. j] \in Lowest /\ scan[1 .. j + 1] = next(scan[1 .. j], j + 1)
    BY <1>9, <2>1, Zenon DEF State
  <2>5. fractions[j + 1] \in Lowest /\ fractions[i] \in Lowest
    BY <2>2
  <2> DEFINE old == scan[1 .. j]
             new == scan[1 .. j + 1]
             f == fractions[j + 1]
  <2>6. \A k \in 1 .. j : AtMost(fractions[k], old)
    BY <2>3
  <2>7. new = IF AtMost(f, old) THEN old ELSE f
    BY <2>4, Zenon
  <2>8. old \in Lowest /\ f \in Lowest /\ (AtMost(f, old) \/ AtMost(old, f)) /\ AtMost(f, f)
    <3>1. old \in Lowest /\ f \in Lowest
      BY <2>4, <2>5
    <3> HIDE DEF old, f
    <3>2. /\ old[1] \in Int /\ old[2] \in Int /\ f[1] \in Int /\ f[2] \in Int
      BY <3>1, LowestParts
    <3>3. f[1] * old[2] \in Int /\ old[1] * f[2] \in Int
      BY <3>2, Products
    <3>4. AtMost(f, old) \/ AtMost(old, f)
      <4>1. f[1] * old[2] <= old[1] * f[2] \/ old[1] * f[2] <= f[1] * old[2]
        BY <3>3
      <4> QED BY <4>1, Zenon DEF AtMost
    <3> QED BY <3>1, <3>4, AtMostIsOrder
  <2>9. CASE i = j + 1
    <3> HIDE DEF old, new
    <3>1. AtMost(f, new)
      BY <2>7, <2>8, Zenon
    <3> QED BY <2>9, <3>1, Zenon DEF new
  <2>10. CASE i # j + 1
    <3>1. i \in 1 .. j
      BY <2>1, <2>10
    <3> HIDE DEF old, new, f
    <3>2. AtMost(fractions[i], old)
      BY <2>6, <3>1, Zenon
    <3>3. AtMost(fractions[i], new)
      BY <2>5, <2>7, <2>8, <3>2, AtMostIsOrder, Zenon
    <3> QED BY <3>3 DEF new
  <2> QED BY <2>9, <2>10
<1> HIDE DEF P
<1>13. P \in SUBSET Nat
  BY DEF P
<1>14. m \in P
  BY <1>11, <1>12, <1>13, InductiveSet
<1>15. \A i \in 1 .. m : AtMost(fractions[i], scan[1 .. m])
  <2>1. m <= m
    OBVIOUS
  <2> QED BY <1>14, <2>1, Zenon DEF P
<1> QED BY <1>0, <1>7, <1>15, Zenon DEF State

LEMMA SumUnfolds ==
  ASSUME NEW fractions
  PROVE  SumOfFractions(fractions) = (CHOOSE it : it = [S \in SUBSET DOMAIN fractions |->
            IF S = {} THEN Zero ELSE Plus(it[S \ {Max(S)}], fractions[Max(S)])])[DOMAIN fractions]
BY DEF SumOfFractions, FoldLeft, MapThenFoldSet

(* Fractions of one number add up to the fraction the sum is of it.        *)
LEMMA FractionsAddUp ==
  ASSUME NEW m \in Nat, NEW x \in Seq(Int), Len(x) = m, NEW d \in Nat, d # 0,
         NEW fractions \in [1 .. m -> Lowest],
         \A i \in 1 .. m : IsValue(fractions[i], x[i], d)
  PROVE  IsValue(SumOfFractions(fractions), Total(x), d)
<1> DEFINE State == Lowest
           next(s, i) == Plus(s, fractions[i])
           step == [q \in State \X (1 .. m) |-> next(q[1], q[2])]
<1>1. Zero \in State /\ DOMAIN fractions = 1 .. m
  <2>1. Zero \in Lowest
    BY WholesOrder DEF Zero
  <2> QED BY <2>1
<1>2. step \in [State \X (1 .. m) -> State]
  <2>1. ASSUME NEW s \in State, NEW i \in 1 .. m PROVE next(s, i) \in State
    <3>1. fractions[i] \in Lowest
      OBVIOUS
    <3>2. /\ s[1] \in Int /\ s[2] \in Nat /\ s[2] # 0
          /\ fractions[i][1] \in Int /\ fractions[i][2] \in Nat /\ fractions[i][2] # 0
      BY <3>1, LowestParts
    <3>3. IsValue(Plus(s, fractions[i]), s[1] * fractions[i][2] + fractions[i][1] * s[2],
                  s[2] * fractions[i][2])
      BY <3>2, PlusLowest
    <3> QED BY <3>3, Zenon DEF IsValue
  <2> HIDE DEF State, next
  <2> QED BY <2>1
<1> HIDE DEF State
<1>3. PICK it \in [SUBSET (1 .. m) -> State] : FoldsTo(step, Zero, m, it)
  <2> HIDE DEF step
  <2> QED BY <1>1, <1>2, FoldsExist
<1> DEFINE After(f, S) == next(f[S \ {Max(S)}], Max(S))
<1>4. \A f : \A S \in SUBSET (1 .. m) : S # {} /\ f[S \ {Max(S)}] \in State
         => After(f, S) = step[<<f[S \ {Max(S)}], Max(S)>>]
  <2> TAKE f
  <2> TAKE S \in SUBSET (1 .. m)
  <2> HAVE S # {} /\ f[S \ {Max(S)}] \in State
  <2>1. Max(S) \in 1 .. m
    BY MaxOfPositions
  <2> HIDE DEF next
  <2>2. step[<<f[S \ {Max(S)}], Max(S)>>] = next(f[S \ {Max(S)}], Max(S))
    BY <2>1
  <2> QED BY <2>2, Zenon
<1>5. it = [S \in SUBSET (1 .. m) |-> IF S = {} THEN Zero ELSE After(it, S)]
  <2>1. \A S \in SUBSET (1 .. m) : S # {} => it[S \ {Max(S)}] \in State
    BY <1>3
  <2> HIDE DEF step, After
  <2> QED BY <1>3, <1>4, <2>1, Zenon DEF FoldsTo
<1> DEFINE scan == CHOOSE f : f = [S \in SUBSET (1 .. m) |-> IF S = {} THEN Zero ELSE After(f, S)]
<1>6. scan = [S \in SUBSET (1 .. m) |-> IF S = {} THEN Zero ELSE After(scan, S)]
  <2> HIDE DEF After
  <2> QED BY <1>5, Zenon
<1>7. SumOfFractions(fractions) = scan[1 .. m]
  BY <1>1, SumUnfolds, Zenon
<1>8. Folded(State, step, Zero, m, scan)
  <2> DEFINE after == [S \in SUBSET (1 .. m) |-> After(scan, S)]
  <2> HIDE DEF scan, After, step
  <2>1. scan = [S \in SUBSET (1 .. m) |-> IF S = {} THEN Zero ELSE after[S]]
    BY <1>6, Zenon
  <2>2. \A S \in SUBSET (1 .. m) : S # {} /\ scan[S \ {Max(S)}] \in State
            => after[S] = step[<<scan[S \ {Max(S)}], Max(S)>>]
    BY <1>4, Zenon
  <2> HIDE DEF after
  <2> QED BY <1>1, <1>2, <2>1, <2>2, FoldSteps, ZenonT(60)
<1> HIDE DEF scan
<1>9. ASSUME NEW j \in Nat, j + 1 <= m
      PROVE  scan[1 .. j] \in State /\ scan[1 .. j + 1] = next(scan[1 .. j], j + 1)
  <2>1. j <= m /\ j + 1 \in 1 .. m
    BY <1>9
  <2>2. scan[1 .. j] \in State /\ scan[1 .. j + 1] = step[<<scan[1 .. j], j + 1>>]
    BY <1>8, <1>9, <2>1, Zenon DEF Folded
  <2>3. <<scan[1 .. j], j + 1>> \in State \X (1 .. m)
    BY <2>1, <2>2
  <2>4. step[<<scan[1 .. j], j + 1>>] = next(scan[1 .. j], j + 1)
    <3> HIDE DEF next
    <3> QED BY <2>3
  <2> QED BY <2>2, <2>4, Zenon
<1>10. scan[1 .. 0] = Zero
  BY <1>8, Zenon DEF Folded
<1> HIDE DEF step
<1>s. PICK is : SumsTo(x, m, is) /\ Total(x) = is[1 .. m]
  BY TotalIsSum, Zenon
<1>t. \A j \in Nat : j <= m => is[1 .. j] \in Int
  BY <1>s, SumsType, Zenon
<1>u. StepsBy(x, m, is)
  BY <1>s, SumsAt, Zenon
<1> DEFINE P == {j \in Nat : j <= m => IsValue(scan[1 .. j], is[1 .. j], d)}
<1>11. 0 \in P
  <2>1. is[1 .. 0] = 0
    BY <1>u, Zenon DEF StepsBy
  <2>2. IsValue(Zero, 0, 1) /\ 0 * d = 0 * 1 /\ 0 \in Int /\ 1 \in Nat /\ 1 # 0
    BY WholeValue DEF Zero
  <2>3. IsValue(Zero, 0, d)
    BY <2>2, ValueOfEqual, Zenon
  <2> QED BY <1>10, <2>1, <2>3
<1>12. ASSUME NEW j \in Nat, j \in P PROVE j + 1 \in P
  <2>1. SUFFICES ASSUME j + 1 <= m PROVE IsValue(scan[1 .. j + 1], is[1 .. j + 1], d)
    OBVIOUS
  <2>2. j <= m /\ j + 1 \in 1 .. m
    BY <2>1
  <2>3. IsValue(scan[1 .. j], is[1 .. j], d)
    BY <1>12, <2>2, Zenon
  <2>4. scan[1 .. j + 1] = Plus(scan[1 .. j], fractions[j + 1])
    BY <1>9, <2>1, Zenon
  <2>5. is[1 .. j + 1] = is[1 .. j] + x[j + 1]
    BY <1>u, <2>1, Zenon DEF StepsBy
  <2> DEFINE a == is[1 .. j]
             b == x[j + 1]
             f == scan[1 .. j]
             h == fractions[j + 1]
  <2>6. a \in Int /\ b \in Int /\ IsValue(f, a, d) /\ IsValue(h, b, d)
    BY <1>t, <2>2, <2>3
  <2> HIDE DEF a, b, f, h
  <2>7. IsValue(Plus(f, h), a * d + b * d, d * d)
    BY <2>6, PlusValue, Zenon
  <2>8. /\ (a * d + b * d) * d = (a + b) * (d * d) /\ a * d + b * d \in Int
        /\ d * d \in Nat /\ d * d # 0 /\ a + b \in Int
    <3>1. (a * d + b * d) * d = (a + b) * (d * d) /\ a * d + b * d \in Int
      BY <2>6, SMT
    <3> QED BY <2>6, <3>1, Products
  <2>9. IsValue(Plus(f, h), a + b, d)
    BY <2>7, <2>8, ValueOfEqual, Zenon
  <2> QED BY <2>4, <2>5, <2>9, Zenon DEF a, b, f, h
<1> HIDE DEF P
<1>13. P \in SUBSET Nat
  BY DEF P
<1>14. m \in P
  BY <1>11, <1>12, <1>13, InductiveSet
<1>15. IsValue(scan[1 .. m], is[1 .. m], d)
  <2>1. m <= m
    OBVIOUS
  <2> QED BY <1>14, <2>1, Zenon DEF P
<1> QED BY <1>7, <1>15, <1>s, Zenon

(* interval_ratio_mean of two gaps.                                        *)
LEMMA RatioOfTwo ==
  ASSUME NEW s \in Seq(Int), Len(s) = 2, s[1] \in Nat, s[1] > 0
  PROVE  IntervalRatio(s) = Fraction(s[2], s[1])
<1>0. \A i \in 1 .. Len(s) : s[i] \in Int
  BY ElementsAreInts, Zenon
<1> DEFINE d == s[1]
           z == s[2]
<1>1. d \in Nat /\ d # 0 /\ z \in Int /\ Len(s) - 1 = 1
  <2>1. 2 \in 1 .. Len(s) /\ Len(s) - 1 = 1
    OBVIOUS
  <2>2. s[2] \in Int
    BY <1>0, <2>1, Zenon
  <2> QED BY <2>1, <2>2
<1> DEFINE after == {i \in 1 .. Len(s) - 1 : s[i] > 0}
           ratios == [i \in 1 .. Len(s) - 1 |-> IF i \in after THEN Fraction(s[i + 1], s[i]) ELSE Zero]
<1>2. after = {1}
  OBVIOUS
<1>3. Cardinality(after) = 1 /\ after # {}
  BY <1>2, FS_Singleton
<1>4. /\ ratios = [i \in 1 .. 1 |-> Fraction(z, d)]
  <2>1. \A i \in 1 .. 1 : i \in after /\ i = 1
    BY <1>2
  <2>2. \A i \in 1 .. 1 : (IF i \in after THEN Fraction(s[i + 1], s[i]) ELSE Zero) = Fraction(z, d)
    <3>1. 1 + 1 = 2
      OBVIOUS
    <3> HIDE DEF after
    <3> QED BY <2>1, <3>1, Zenon
  <2> HIDE DEF after
  <2> QED BY <1>1, <2>2, Zenon
<1>5. IntervalRatio(s) = Times(SumOfFractions(ratios), <<1, 1>>)
  BY <1>3, Zenon DEF IntervalRatio
<1>6. IsValue(Fraction(z, d), z, d)
  BY <1>1, FractionValue, Zenon
<1> DEFINE x == <<z>>
<1>7. x \in Seq(Int) /\ Len(x) = 1 /\ x[1] = z /\ Total(x) = z
  <2>1. <<z>> = Append(<< >>, z) /\ << >> \in Seq(Int)
    BY <1>1
  <2>2. Total(Append(<< >>, z)) = Total(<< >>) + z
    BY <1>1, <2>1, TotalOfAppend, Zenon
  <2>3. 0 + z = z
    BY <1>1
  <2>4. Total(<<z>>) = z
    BY <2>1, <2>2, <2>3, TotalOfNone, Zenon
  <2> HIDE DEF z
  <2> QED BY <1>1, <2>4
<1> HIDE DEF after, ratios, d, z, x
<1>8. ratios \in [1 .. 1 -> Lowest]
  <2>1. Fraction(z, d) \in Lowest
    BY <1>6, Zenon DEF IsValue
  <2> QED BY <1>4, <2>1
<1>9. \A i \in 1 .. 1 : IsValue(ratios[i], x[i], d)
  <2> TAKE i \in 1 .. 1
  <2>1. i = 1 /\ ratios[i] = Fraction(z, d)
    BY <1>4
  <2> QED BY <1>6, <1>7, <2>1, Zenon
<1>10. IsValue(SumOfFractions(ratios), z, d)
  <2>1. 1 \in Nat
    OBVIOUS
  <2>2. IsValue(SumOfFractions(ratios), Total(x), d)
    BY <1>1, <1>7, <1>8, <1>9, <2>1, FractionsAddUp, Zenon
  <2> QED BY <1>7, <2>2, Zenon
<1>11. IsValue(<<1, 1>>, 1, 1) /\ 1 \in Int /\ 1 \in Nat /\ 1 # 0 /\ z * 1 = z /\ d * 1 = d
  BY <1>1, WholeValue DEF Whole
<1>12. IsValue(Times(SumOfFractions(ratios), <<1, 1>>), z * 1, d * 1)
  BY <1>1, <1>10, <1>11, TimesValue, Zenon
<1>13. IsValue(IntervalRatio(s), z, d)
  BY <1>5, <1>11, <1>12, Zenon
<1>14. IntervalRatio(s) = Fraction(z, d)
  BY <1>1, <1>6, <1>13, ValuesAgree, Zenon
<1> QED BY <1>14 DEF z, d

(* The elements of a finite set, one behind the other and each once.       *)
LEMMA SetToSeqIs ==
  ASSUME NEW S, IsFiniteSet(S), NEW m \in Nat, m = Cardinality(S)
  PROVE  /\ SetToSeq(S) \in [1 .. m -> S]
         /\ \A j, k \in 1 .. m : SetToSeq(S)[j] = SetToSeq(S)[k] => j = k
         /\ \A x \in S : \E k \in 1 .. m : SetToSeq(S)[k] = x
<1>1. PICK g : g \in Bijection(1 .. m, S)
  BY FS_CardinalityType, Zenon DEF ExistsBijection
<1>2. g \in [1 .. m -> S] /\ IsInjective(g)
  BY <1>1 DEF Bijection, Injection
<1> DEFINE f == SetToSeq(S)
<1>3. f \in [1 .. m -> S] /\ IsInjective(f)
  BY <1>2 DEF SetToSeq
<1> HIDE DEF f
<1>4. f \in Injection(1 .. m, S)
  BY <1>3, Zenon DEF Injection
<1>5. Cardinality(1 .. m) = Cardinality(S)
  <2>1. Cardinality(1 .. m) = m
    BY FS_Interval
  <2> QED BY <2>1, Zenon
<1>6. f \in Surjection(1 .. m, S)
  BY <1>4, <1>5, FS_Injection, Zenon
<1>7. \A x \in S : \E k \in 1 .. m : f[k] = x
  BY <1>6, Zenon DEF Surjection
<1>8. \A j, k \in 1 .. m : f[j] = f[k] => j = k
  <2>1. DOMAIN f = 1 .. m
    BY <1>3, Zenon
  <2> QED BY <1>3, <2>1, Zenon DEF IsInjective
<1> QED BY <1>3, <1>7, <1>8, Zenon DEF f

(* What a bag of a sequence has of each value is all of the sequence.      *)
LEMMA BagAddsUp ==
  ASSUME NEW n \in Nat, NEW bins \in [1 .. n -> Int]
  PROVE  Occurrences(BagOf(bins)) = n
<1> DEFINE S == ToSet(bins)
           m == Cardinality(S)
           values == SetToSeq(S)
           one == [i \in 1 .. n |-> 1]
           at == [i \in 1 .. n |-> CHOOSE k \in 1 .. m : values[k] = bins[i]]
           Row(w) == [i \in 1 .. n |-> IF at[i] = w THEN one[i] ELSE 0]
           Hit(w) == [i \in 1 .. n |-> IF bins[i] = values[w] THEN 1 ELSE 0]
<1>1. bins \in Seq(Int) /\ n = Len(bins)
  OBVIOUS
<1>2. /\ DOMAIN BagOf(bins) = S
      /\ \A x : x \in S <=> \E i \in 1 .. n : bins[i] = x
      /\ \A x \in S : BagOf(bins)[x] = HowOften(bins, n, x)
  BY <1>1, BagOfIs, Zenon
<1>3. IsFiniteSet(S) /\ m \in Nat
  <2>1. bins \in Surjection(1 .. n, S)
    <3>1. bins \in [1 .. n -> S]
      <4>1. \A i \in 1 .. n : bins[i] \in S
        BY <1>2, Zenon
      <4> HIDE DEF S
      <4> QED BY <4>1
    <3>2. \A x \in S : \E i \in 1 .. n : bins[i] = x
      BY <1>2, Zenon
    <3> HIDE DEF S
    <3> QED BY <3>1, <3>2, Zenon DEF Surjection
  <2>2. IsFiniteSet(1 .. n)
    BY FS_Interval
  <2>3. IsFiniteSet(S)
    BY <2>1, <2>2, FS_Surjection, Zenon
  <2> QED BY <2>3, FS_CardinalityType, Zenon
<1>4. /\ values \in [1 .. m -> S]
      /\ \A j, k \in 1 .. m : values[j] = values[k] => j = k
      /\ \A x \in S : \E k \in 1 .. m : values[k] = x
  <2> HIDE DEF S
  <2> QED BY <1>3, SetToSeqIs, Zenon
<1> HIDE DEF S, m, values
<1>5. \A i \in 1 .. n : at[i] \in 1 .. m /\ values[at[i]] = bins[i]
  <2> TAKE i \in 1 .. n
  <2>1. \E k \in 1 .. m : values[k] = bins[i]
    BY <1>2, <1>4, Zenon
  <2>2. at[i] = CHOOSE k \in 1 .. m : values[k] = bins[i]
    BY Zenon
  <2> HIDE DEF at
  <2> QED BY <2>1, <2>2, Zenon
<1>6. one \in [1 .. n -> Int] /\ at \in [1 .. n -> 1 .. m]
  <2>1. one \in [1 .. n -> Int]
    OBVIOUS
  <2>2. at \in [1 .. n -> 1 .. m]
    BY <1>5, Zenon
  <2> QED BY <2>1, <2>2
<1>7. Total([w \in 1 .. m |-> Total(Row(w))]) = Total(one)
  <2> HIDE DEF one, at
  <2> QED BY <1>3, <1>6, TotalByClass
<1>8. ASSUME NEW w \in 1 .. m PROVE BagOf(bins)[values[w]] = Total(Row(w))
  <2>1. Row(w) = Hit(w)
    <3>1. \A i \in 1 .. n : (at[i] = w <=> bins[i] = values[w]) /\ one[i] = 1
      <4>1. \A i \in 1 .. n : one[i] = 1
        OBVIOUS
      <4> HIDE DEF at, one
      <4> QED BY <1>4, <1>5, <4>1, ZenonT(60)
    <3> HIDE DEF at, one
    <3> QED BY <3>1
  <2>2. \E v : v = values[w]
    OBVIOUS
  <2> PICK v : v = values[w]
    BY <2>2
  <2>3. Hit(w) = [i \in 1 .. n |-> IF bins[i] = v THEN 1 ELSE 0]
    BY Zenon
  <2> HIDE DEF Row, Hit
  <2>4. Total([i \in 1 .. n |-> IF bins[i] = v THEN 1 ELSE 0]) = HowOften(bins, n, v)
    BY CountIsSum
  <2>5. BagOf(bins)[v] = HowOften(bins, n, v)
    BY <1>2, <1>4, Zenon
  <2> QED BY <2>1, <2>3, <2>4, <2>5, Zenon
<1> HIDE DEF Row, one
<1>9. Len(values) = m
  BY <1>3, <1>4
<1>10. Occurrences(BagOf(bins)) = Total([k \in 1 .. m |-> BagOf(bins)[values[k]]])
  BY <1>2, <1>9, Zenon DEF Occurrences, values
<1>11. [k \in 1 .. m |-> BagOf(bins)[values[k]]] = [w \in 1 .. m |-> Total(Row(w))]
  BY <1>8, Zenon
<1>12. Total(one) = n
  BY TotalOfOnes, Zenon DEF one
<1> QED BY <1>7, <1>10, <1>11, <1>12, Zenon

(* calc_iat_entropy_double: every gap falls into one of 32 bins.           *)
LEMMA EntropyBinsAddUp ==
  ASSUME NEW seq \in Seq(Int), NEW n \in Nat, n = Len(seq), n # 0, EntropyBins(seq) # EmptyBag
  PROVE  DOMAIN EntropyBins(seq) \subseteq 0 .. 31 /\ Occurrences(EntropyBins(seq)) = n
<1> DEFINE s == Sorted(seq)
           low == Min(ToSet(seq))
           span == Max(ToSet(seq)) - low
           bins == [i \in 1 .. Len(seq) |-> ((seq[i] - low) * 31) \div span]
<1>1. /\ s[1] \in Int /\ s[n] \in Int /\ low = s[1] /\ Max(ToSet(seq)) = s[n]
      /\ \A i \in 1 .. n : s[1] <= seq[i] /\ seq[i] <= s[n]
  <2> HIDE DEF s, low
  <2> QED BY SortedExtremes DEF s, low
<1>2. \A i \in 1 .. n : seq[i] \in Int
  BY ElementsAreInts, Zenon
<1> HIDE DEF s
<1>3. \A i \in 1 .. n : seq[i] - low \in 0 .. span
  <2>1. span = s[n] - s[1]
    BY <1>1, Zenon
  <2> HIDE DEF span, low
  <2> QED BY <1>1, <1>2, <2>1
<1>4. low \in Int /\ span \in Int /\ 1 \in 1 .. n
  <2>1. span = s[n] - s[1]
    BY <1>1, Zenon
  <2> HIDE DEF span, low
  <2> QED BY <1>1, <2>1
<1>5. EntropyBins(seq) = IF span = 0 THEN EmptyBag ELSE BagOf(bins)
  BY Zenon DEF EntropyBins
<1>6. span # 0 /\ EntropyBins(seq) = BagOf(bins)
  <2> HIDE DEF span, bins
  <2> QED BY <1>5, Zenon
<1>7. \A k \in Nat \ {0} : \A y \in 0 .. k : (y * 31) \div k \in 0 .. 31
  <2> TAKE k \in Nat \ {0}
  <2> TAKE y \in 0 .. k
  <2> DEFINE z == y * 31
             q == z \div k
  <2>1. z \in Nat /\ z <= 31 * k
    OBVIOUS
  <2> HIDE DEF z
  <2>2. q \in Int /\ k * q <= z /\ z < k * (q + 1)
    BY <2>1, SMT
  <2> HIDE DEF q
  <2>3. q >= 0
    <3>1. CASE q < 0
      <4>1. \A c \in Nat \ {0} : \A e \in Int : e < 0 => c * (e + 1) <= 0
        BY SMT
      <4>2. k * (q + 1) <= 0 /\ k * (q + 1) \in Int
        BY <2>2, <3>1, <4>1, SMT
      <4> QED BY <2>1, <2>2, <4>2
    <3> QED BY <2>2, <3>1
  <2>4. q <= 31
    <3>1. CASE q > 31
      <4>1. \A c \in Nat \ {0} : \A e \in Int : e > 31 => c * e > 31 * c /\ c * e \in Int
        BY SMT
      <4>2. k * q > 31 * k /\ k * q \in Int
        BY <2>2, <3>1, <4>1
      <4> QED BY <2>1, <2>2, <4>2
    <3> QED BY <2>2, <3>1
  <2> QED BY <2>2, <2>3, <2>4 DEF q, z
<1>8. bins \in [1 .. n -> 0 .. 31]
  <2>1. span \in Nat \ {0}
    <3>1. seq[1] - low \in 0 .. span
      BY <1>3, <1>4, Zenon
    <3> HIDE DEF span, low
    <3> QED BY <1>4, <1>6, <3>1
  <2>2. \A i \in 1 .. n : ((seq[i] - low) * 31) \div span \in 0 .. 31
    <3> HIDE DEF span, low
    <3> QED BY <1>3, <1>7, <2>1, Zenon
  <2> HIDE DEF span, low
  <2> QED BY <2>2
<1> HIDE DEF bins
<1>9. bins \in [1 .. n -> Int] /\ bins \in Seq(Int) /\ n = Len(bins)
  <2>1. \A i \in 1 .. n : bins[i] \in Int
    <3>1. \A i \in 1 .. n : bins[i] \in 0 .. 31
      BY <1>8, Zenon
    <3>2. \A x \in 0 .. 31 : x \in Int
      OBVIOUS
    <3> QED BY <3>1, <3>2, Zenon
  <2>2. bins = [i \in 1 .. n |-> bins[i]]
    BY <1>8, Zenon
  <2>3. bins \in [1 .. n -> Int]
    BY <2>1, <2>2, Zenon
  <2> QED BY <2>3
<1>10. DOMAIN BagOf(bins) \subseteq 0 .. 31
  <2>1. /\ DOMAIN BagOf(bins) = ToSet(bins)
        /\ \A x : x \in ToSet(bins) <=> \E i \in 1 .. n : bins[i] = x
    BY <1>9, BagOfIs, Zenon
  <2>2. \A i \in 1 .. n : bins[i] \in 0 .. 31
    BY <1>8, Zenon
  <2> QED BY <2>1, <2>2, Zenon
<1>11. Occurrences(BagOf(bins)) = n
  BY <1>9, BagAddsUp, Zenon
<1> QED BY <1>6, <1>10, <1>11, Zenon
-----------------------------------------------------------------------------
(* What is summed up of the recorded bursts and of the packets.            *)
BurstPackets == [i \in 1 .. Len(bursts) |-> bursts[i].packets]

BurstSizes   == [i \in 1 .. Len(bursts) |-> bursts[i].size]

Lengths      == [i \in 1 .. Len(arrivals) |-> arrivals[i].len]

(* The recorded bursts and the open one have no more packets and bytes     *)
(* than arrived.                                                           *)
BurstTotals ==
  /\ \A i \in 1 .. Len(bursts) :
       bursts[i].size \in Nat /\ bursts[i].duration \in Nat /\ bursts[i].packets \in Nat
  /\ Total(BurstPackets) + burst_pkt_count <= Len(arrivals)
  /\ Total(BurstSizes) + burst_byte_count <= Total(Lengths)

LEMMA RestIsNoMore ==
  ASSUME NEW x \in Nat PROVE x % (UIntMax + 1) \in Nat /\ x % (UIntMax + 1) <= x
<1>1. \A m \in Nat \ {0} : x % m \in Nat /\ x % m <= x
  BY SMT
<1>2. UIntMax + 1 \in Nat \ {0}
  BY PoolSizes
<1> QED BY <1>1, <1>2

(* What a packet adds to the totals.                                       *)
LEMMA LengthsGrow ==
  ASSUME arrivals \in Seq(Packet), NEW p \in Packets, NEW allocated \in BOOLEAN, Data(p, allocated)
  PROVE  Total(Lengths) \in Int /\ Total(Lengths') = Total(Lengths) + p.len
<1> PICK n \in Nat : n = Len(arrivals)
  OBVIOUS
<1>1. /\ Len(arrivals') = n + 1 /\ arrivals'[n + 1] = p /\ p.len \in Int
      /\ \A i \in 1 .. n : arrivals'[i] = arrivals[i] /\ arrivals[i] \in Packet
  BY Arrives
<1>2. \A q \in Packet : q.len \in Int
  BY PoolSizes DEF Packet
<1>3. \A i \in 1 .. n : arrivals[i].len \in Int /\ arrivals'[i].len = arrivals[i].len
  BY <1>1, <1>2
<1>4. \A i \in 1 .. n + 1 : arrivals'[i].len \in Int
  <2> TAKE i \in 1 .. n + 1
  <2>1. i \in 1 .. n \/ i = n + 1
    OBVIOUS
  <2> QED BY <1>1, <1>3, <2>1, Zenon
<1>5. Lengths = [i \in 1 .. n |-> arrivals[i].len] /\ Lengths' = [i \in 1 .. n + 1 |-> arrivals'[i].len]
  BY <1>1, Zenon DEF Lengths
<1>6. /\ Lengths \in [1 .. n -> Int] /\ Lengths' \in [1 .. n + 1 -> Int]
      /\ \A i \in 1 .. n : Lengths'[i] = Lengths[i]
      /\ Lengths'[n + 1] = p.len
  BY <1>1, <1>3, <1>4, <1>5
<1>7. Total(Lengths) \in Int /\ Total(Lengths') = Total(Lengths) + Lengths'[n + 1]
  <2> DEFINE s == Lengths
             t == Lengths'
  <2>1. /\ s \in [1 .. n -> Int] /\ t \in [1 .. n + 1 -> Int]
        /\ \A i \in 1 .. n : t[i] = s[i]
    BY <1>6
  <2> HIDE DEF s, t
  <2>2. Total(s) \in Int /\ Total(t) = Total(s) + t[n + 1]
    BY <2>1, TotalExtends
  <2> QED BY <2>2 DEF s, t
<1> QED BY <1>6, <1>7, Zenon

LEMMA BurstsExtend ==
  ASSUME bursts \in Seq(Burst), NEW b \in Burst, bursts' = Append(bursts, b)
  PROVE  /\ Total(BurstPackets) \in Int /\ Total(BurstPackets') = Total(BurstPackets) + b.packets
         /\ Total(BurstSizes) \in Int /\ Total(BurstSizes') = Total(BurstSizes) + b.size
         /\ Len(bursts') = Len(bursts) + 1
         /\ bursts'[Len(bursts) + 1] = b /\ \A i \in 1 .. Len(bursts) : bursts'[i] = bursts[i]
<1> PICK n \in Nat : n = Len(bursts)
  OBVIOUS
<1>1. /\ Len(bursts') = n + 1 /\ bursts'[n + 1] = b
      /\ \A i \in 1 .. n : bursts'[i] = bursts[i] /\ bursts[i] \in Burst
  OBVIOUS
<1>2. \A q \in Burst : q.packets \in Int /\ q.size \in Int
  BY DEF Burst
<1>3. \A i \in 1 .. n + 1 : bursts'[i].packets \in Int /\ bursts'[i].size \in Int
  <2> TAKE i \in 1 .. n + 1
  <2>1. i \in 1 .. n \/ i = n + 1
    OBVIOUS
  <2> QED BY <1>1, <1>2, <2>1, Zenon
<1>4. /\ BurstPackets = [i \in 1 .. n |-> bursts[i].packets]
      /\ BurstPackets' = [i \in 1 .. n + 1 |-> bursts'[i].packets]
      /\ BurstSizes = [i \in 1 .. n |-> bursts[i].size]
      /\ BurstSizes' = [i \in 1 .. n + 1 |-> bursts'[i].size]
  BY <1>1, Zenon DEF BurstPackets, BurstSizes
<1>5. \A i \in 1 .. n : /\ bursts[i].packets \in Int /\ bursts[i].size \in Int
                        /\ bursts'[i].packets = bursts[i].packets /\ bursts'[i].size = bursts[i].size
  BY <1>1, <1>2
<1> DEFINE s == BurstPackets
           t == BurstPackets'
           u == BurstSizes
           v == BurstSizes'
<1>6. /\ s \in [1 .. n -> Int] /\ t \in [1 .. n + 1 -> Int]
      /\ \A i \in 1 .. n : t[i] = s[i]
      /\ t[n + 1] = b.packets
  BY <1>1, <1>3, <1>4, <1>5
<1>7. /\ u \in [1 .. n -> Int] /\ v \in [1 .. n + 1 -> Int]
      /\ \A i \in 1 .. n : v[i] = u[i]
      /\ v[n + 1] = b.size
  BY <1>1, <1>3, <1>4, <1>5
<1> HIDE DEF s, t, u, v
<1>8. Total(s) \in Int /\ Total(t) = Total(s) + t[n + 1]
  BY <1>6, TotalExtends
<1>9. Total(u) \in Int /\ Total(v) = Total(u) + v[n + 1]
  BY <1>7, TotalExtends
<1> QED BY <1>1, <1>6, <1>7, <1>8, <1>9, Zenon DEF s, t, u, v

LEMMA BurstTotalsType ==
  ASSUME bursts \in Seq(Burst)
  PROVE  Total(BurstPackets) \in Int /\ Total(BurstSizes) \in Int
<1>1. BurstPackets \in Seq(Int) /\ BurstSizes \in Seq(Int)
  <2>1. \A q \in Burst : q.packets \in Int /\ q.size \in Int
    BY DEF Burst
  <2>2. \A i \in 1 .. Len(bursts) : bursts[i].packets \in Int /\ bursts[i].size \in Int
    BY <2>1
  <2> QED BY <2>2 DEF BurstPackets, BurstSizes
<1> QED BY <1>1, TotalType

LEMMA BurstTotalsInit == Init => BurstTotals
<1> SUFFICES ASSUME Init PROVE BurstTotals
  OBVIOUS
<1>1. arrivals = << >> /\ bursts = << >> /\ burst_pkt_count = 0 /\ burst_byte_count = 0
  BY DEF Init, StreamInit, BurstInit
<1>2. Len(bursts) = 0 /\ Len(arrivals) = 0
  BY <1>1
<1>3. BurstPackets = << >> /\ BurstSizes = << >> /\ Lengths = << >>
  BY <1>2 DEF BurstPackets, BurstSizes, Lengths
<1>4. Total(BurstPackets) = 0 /\ Total(BurstSizes) = 0 /\ Total(Lengths) = 0
  BY <1>3, TotalOfNone, Zenon
<1> QED BY <1>1, <1>2, <1>4 DEF BurstTotals

LEMMA BurstTotalsStep ==
  ASSUME LaterDurationsInv, BurstTotals,
         NEW p \in Packets, NEW allocated \in BOOLEAN, Data(p, allocated)
  PROVE  BurstTotals'
<1> DEFINE P == Total(BurstPackets)
           S == Total(BurstSizes)
           L == Total(Lengths)
           n == Len(arrivals)
<1>1. /\ arrivals \in Seq(Packet) /\ refused \in Nat /\ BurstInv /\ bursts \in Seq(Burst)
      /\ burst_pkt_count \in Nat /\ burst_byte_count \in Nat
      /\ burst_start_us \in Int
  <2>1. arrivals \in Seq(Packet) /\ refused \in Nat /\ BurstInv
    BY Zenon DEF LaterDurationsInv
  <2>2. /\ bursts \in Seq(Burst) /\ burst_pkt_count \in 0 .. UIntMax
        /\ burst_byte_count \in 0 .. UIntMax /\ burst_start_us \in 0 .. LLongSpan - 1
    BY <2>1, Zenon DEF BurstInv, BurstsWellFormed
  <2> QED BY <2>1, <2>2, PoolSizes, StreamConstants
<1>2. /\ n \in Nat /\ Len(arrivals') = n + 1 /\ p.len \in Nat /\ p.ts \in Int
      /\ L \in Int /\ Total(Lengths') = L + p.len
  <2>1. n \in Nat /\ Len(arrivals') = n + 1 /\ p.len \in 0 .. UIntMax /\ p.ts \in Int
    BY <1>1, Arrives
  <2>2. L \in Int /\ Total(Lengths') = L + p.len
    BY <1>1, LengthsGrow
  <2> HIDE DEF n, L
  <2> QED BY <2>1, <2>2, PoolSizes
<1>3. /\ P \in Int /\ S \in Int
      /\ P + burst_pkt_count <= n /\ S + burst_byte_count <= L
      /\ \A i \in 1 .. Len(bursts) :
           bursts[i].size \in Nat /\ bursts[i].duration \in Nat /\ bursts[i].packets \in Nat
  BY <1>1, BurstTotalsType DEF BurstTotals
<1>4. /\ "enable_burst" \notin cfg.on => UNCHANGED burstVars
      /\ "enable_burst" \in cfg.on /\ Continues(BurstIat(p.ts)) =>
              /\ burst_byte_count' = (burst_byte_count + p.len) % (UIntMax + 1)
              /\ burst_pkt_count' = (burst_pkt_count + 1) % (UIntMax + 1)
              /\ bursts' = bursts
      /\ "enable_burst" \in cfg.on /\ ~Continues(BurstIat(p.ts)) =>
              /\ burst_byte_count' = p.len /\ burst_pkt_count' = 1
              /\ bursts' = Append(bursts, Closed(p)) \/ bursts' = bursts
  BY <1>1, BurstMoves, Zenon
<1> HIDE DEF P, S, L, n
<1>n. \A k \in Nat : k \in Int
  OBVIOUS
<1>5. CASE bursts' = bursts
  <2>1. burst_pkt_count' \in Nat /\ burst_byte_count' \in Nat
        /\ burst_pkt_count' <= burst_pkt_count + 1 /\ burst_byte_count' <= burst_byte_count + p.len
    <3>1. CASE "enable_burst" \notin cfg.on
      <4>1. burst_pkt_count' = burst_pkt_count /\ burst_byte_count' = burst_byte_count
        BY <1>4, <3>1, Zenon DEF burstVars
      <4> QED BY <1>1, <1>2, <4>1
    <3>2. CASE "enable_burst" \in cfg.on /\ Continues(BurstIat(p.ts))
      <4>1. burst_byte_count + p.len \in Nat /\ burst_pkt_count + 1 \in Nat
        BY <1>1, <1>2
      <4> QED BY <1>4, <3>2, <4>1, RestIsNoMore
    <3>3. CASE "enable_burst" \in cfg.on /\ ~Continues(BurstIat(p.ts))
      <4>1. burst_byte_count' = p.len /\ burst_pkt_count' = 1
        BY <1>4, <3>3, Zenon
      <4> QED BY <1>1, <1>2, <4>1
    <3> QED BY <3>1, <3>2, <3>3
  <2>2. BurstPackets' = BurstPackets /\ BurstSizes' = BurstSizes
    BY <1>5, Zenon DEF BurstPackets, BurstSizes
  <2>3. Total(BurstPackets') = P /\ Total(BurstSizes') = S
    BY <2>2 DEF P, S
  <2>4. P + burst_pkt_count' <= n + 1
    <3>1. P + burst_pkt_count <= n /\ burst_pkt_count' <= burst_pkt_count + 1
      BY <1>3, <2>1, Zenon
    <3>2. P \in Int /\ n \in Int /\ burst_pkt_count \in Int /\ burst_pkt_count' \in Int
      BY <1>1, <1>2, <1>3, <2>1, <1>n, Zenon
    <3>3. \A i, j, k, m \in Int : i + j <= m /\ k <= j + 1 => i + k <= m + 1
      OBVIOUS
    <3> QED BY <3>1, <3>2, <3>3, ZenonT(60)
  <2>5. S + burst_byte_count' <= L + p.len
    <3>1. S + burst_byte_count <= L /\ burst_byte_count' <= burst_byte_count + p.len
      BY <1>3, <2>1, Zenon
    <3>2. S \in Int /\ L \in Int /\ p.len \in Int
          /\ burst_byte_count \in Int /\ burst_byte_count' \in Int
      BY <1>1, <1>2, <1>3, <2>1, <1>n, Zenon
    <3> QED BY <3>1, <3>2
  <2> QED BY <1>2, <1>3, <1>5, <2>3, <2>4, <2>5, Zenon DEF BurstTotals
<1>6. CASE bursts' = Append(bursts, Closed(p)) /\ burst_byte_count' = p.len /\ burst_pkt_count' = 1
  <2> DEFINE d == Since(p.ts, burst_start_us)
             b == Closed(p)
  <2>1. d \in Nat /\ d \in Int
    <3>1. d \in 0 .. LLongSpan - 1
      BY <1>1, <1>2, SinceInRange, Zenon
    <3> HIDE DEF d
    <3> QED BY <3>1, StreamConstants
  <2>2. b \in Burst /\ b.size = burst_byte_count /\ b.duration = d /\ b.packets = burst_pkt_count
    <3>1. b = [size |-> burst_byte_count, duration |-> d, packets |-> burst_pkt_count]
      BY Zenon DEF Closed
    <3> HIDE DEF d, b
    <3> QED BY <1>1, <2>1, <3>1 DEF Burst
  <2> HIDE DEF b, d
  <2>3. /\ Total(BurstPackets') = P + b.packets /\ Total(BurstSizes') = S + b.size
        /\ Len(bursts') = Len(bursts) + 1
        /\ bursts'[Len(bursts) + 1] = b /\ \A i \in 1 .. Len(bursts) : bursts'[i] = bursts[i]
    BY <1>1, <1>6, <2>2, BurstsExtend DEF P, S, b
  <2>4. ASSUME NEW i \in 1 .. Len(bursts')
        PROVE  bursts'[i].size \in Nat /\ bursts'[i].duration \in Nat /\ bursts'[i].packets \in Nat
    <3>1. i \in 1 .. Len(bursts) \/ i = Len(bursts) + 1
      <4>1. Len(bursts) \in Nat
        BY <1>1
      <4> QED BY <2>3, <4>1
    <3> QED BY <1>1, <1>3, <2>1, <2>2, <2>3, <3>1, Zenon
  <2>5. Total(BurstPackets') + burst_pkt_count' <= n + 1
    <3>1. Total(BurstPackets') = P + burst_pkt_count /\ burst_pkt_count' = 1
      BY <1>6, <2>2, <2>3, Zenon
    <3> QED BY <1>1, <1>2, <1>3, <3>1
  <2>6. Total(BurstSizes') + burst_byte_count' <= L + p.len
    <3>1. Total(BurstSizes') = S + burst_byte_count /\ burst_byte_count' = p.len
      BY <1>6, <2>2, <2>3, Zenon
    <3> QED BY <1>1, <1>2, <1>3, <3>1
  <2> QED BY <1>2, <2>4, <2>5, <2>6, Zenon DEF BurstTotals
<1> QED BY <1>4, <1>5, <1>6, Zenon DEF burstVars

(* calc_burst_statistics: the mean rate of the bursts that lasted is no    *)
(* higher than the peak.                                                   *)
LEMMA PeakIsNoMean ==
  ASSUME NEW bs \in Seq(Burst), NEW n \in Nat, n = Len(bs),
         \A i \in 1 .. n : bs[i].duration \in Nat /\ bs[i].packets \in Nat,
         NEW packets, packets = [i \in 1 .. n |-> IF bs[i].duration > 0 THEN bs[i].packets ELSE 0],
         NEW times, times = [i \in 1 .. n |-> bs[i].duration],
         Total(times) > 0
  PROVE  AtMost(Fraction(Total(packets), Total(times)), PacketRate(bs))
<1> DEFINE rates == [i \in 1 .. n |-> IF bs[i].duration > 0
                                        THEN Fraction(bs[i].packets, bs[i].duration) ELSE Zero]
           peak == PacketRate(bs)
           a == peak[2]
           b == peak[1]
           x == Total(packets)
           y == Total(times)
<1>1. peak = PeakOf(rates)
  BY Zenon DEF PacketRate
<1>2. ASSUME NEW i \in 1 .. n PROVE rates[i] \in Lowest
  <2>1. CASE bs[i].duration > 0
    <3> DEFINE d == bs[i].duration
               k == bs[i].packets
    <3>1. rates[i] = Fraction(k, d) /\ d \in Nat /\ k \in Int
      BY <2>1
    <3>2. d # 0
      BY <2>1
    <3> HIDE DEF d, k, rates
    <3>3. IsValue(Fraction(k, d), k, d)
      BY <3>1, <3>2, FractionValue, Zenon
    <3> QED BY <3>1, <3>3, Zenon DEF IsValue
  <2>2. CASE ~(bs[i].duration > 0)
    <3>1. rates[i] = Zero
      BY <2>2
    <3>2. Zero \in Lowest
      BY WholesOrder DEF Zero
    <3> QED BY <3>1, <3>2, Zenon
  <2> QED BY <2>1, <2>2
<1>3. rates \in [1 .. n -> Lowest]
  <2>1. rates = [i \in 1 .. n |-> rates[i]]
    OBVIOUS
  <2> HIDE DEF rates
  <2> QED BY <1>2, <2>1
<1> DEFINE rate(i) == rates[i]
<1>4. peak \in Lowest /\ \A i \in 1 .. n : AtMost(rates[i], peak)
  <2> HIDE DEF rates
  <2> QED BY <1>1, <1>3, PeakNotExceeded, Zenon
<1>5. b \in Int /\ a \in Nat /\ a # 0 /\ a \in Int /\ IsValue(peak, b, a)
  <2>1. peak \in Lowest
    BY <1>4
  <2> HIDE DEF peak, rates
  <2>2. b \in Int /\ a \in Nat /\ a # 0 /\ a \in Int
    BY <2>1, LowestParts
  <2>3. b * a = b * a
    OBVIOUS
  <2> QED BY <2>1, <2>2, <2>3, Zenon DEF IsValue
<1>6. /\ packets \in Seq(Int) /\ times \in Seq(Int) /\ n = Len(packets) /\ n = Len(times)
      /\ Len(packets) = n /\ Len(times) = n
  <2>1. \A i \in 1 .. n : (IF bs[i].duration > 0 THEN bs[i].packets ELSE 0) \in Int
    OBVIOUS
  <2>2. \A i \in 1 .. n : bs[i].duration \in Int
    OBVIOUS
  <2> QED BY <2>1, <2>2
<1>7. ASSUME NEW i \in 1 .. n PROVE a * packets[i] <= b * times[i]
  <2> DEFINE d == bs[i].duration
             k == bs[i].packets
  <2>1. d \in Nat /\ k \in Nat /\ k \in Int /\ times[i] = d /\ packets[i] = IF d > 0 THEN k ELSE 0
    OBVIOUS
  <2>2. rates[i] = IF d > 0 THEN Fraction(k, d) ELSE Zero
    OBVIOUS
  <2>3. AtMost(rates[i], peak)
    BY <1>4
  <2> HIDE DEF d, k, rates, peak
  <2>4. CASE d > 0
    <3>1. d # 0 /\ packets[i] = k /\ rates[i] = Fraction(k, d)
      BY <2>1, <2>2, <2>4
    <3>2. IsValue(rates[i], k, d)
      BY <2>1, <3>1, FractionValue, Zenon
    <3> HIDE DEF a, b
    <3>3. k * a <= b * d
      BY <1>5, <2>1, <2>3, <3>1, <3>2, AtMostValue, Zenon
    <3>4. k * a = a * k
      BY <1>5, <2>1, SMT
    <3> QED BY <2>1, <3>1, <3>3, <3>4, Zenon
  <2>5. CASE ~(d > 0)
    <3>1. packets[i] = 0 /\ times[i] = 0
      BY <2>1, <2>5
    <3> HIDE DEF a, b
    <3>2. a * 0 <= b * 0
      BY <1>5, SMT
    <3> QED BY <3>1, <3>2, Zenon
  <2> QED BY <2>4, <2>5
<1> HIDE DEF rates, peak, a, b
<1>8. x \in Int /\ y \in Int /\ a * x <= b * y
  BY <1>5, <1>6, <1>7, TotalCompares
<1>9. y \in Nat /\ y # 0
  BY <1>8
<1>10. x * a <= b * y
  <2> HIDE DEF x, y
  <2>1. x * a = a * x
    BY <1>5, <1>8, SMT
  <2> QED BY <1>8, <2>1, Zenon
<1> HIDE DEF x, y
<1>11. IsValue(Fraction(x, y), x, y)
  BY <1>8, <1>9, FractionValue, Zenon
<1>12. AtMost(Fraction(x, y), peak)
  BY <1>5, <1>8, <1>9, <1>10, <1>11, AtMostValue, Zenon
<1> QED BY <1>12 DEF x, y, peak

LEMMA BytesAreLengths == BytesOf(arrivals) = Total(Lengths)
BY Zenon DEF BytesOf, Lengths

(* The part of ReportsAgree about bursts.                                  *)
LEMMA BurstReport ==
  ASSUME LaterDurationsInv, BurstTotals
  PROVE  BurstSectionAgrees
<1> PICK n \in Nat : n = Len(bursts)
  <2>1. bursts \in Seq(Burst)
    BY Zenon DEF LaterDurationsInv, BurstInv
  <2> QED BY <2>1
<1> DEFINE P == Total(BurstPackets)
           S == Total(BurstSizes)
           L == Total(Lengths)
           k == Len(arrivals)
           section == BurstSection(bursts, burst_intervals)
           packets == [i \in 1 .. n |-> IF bursts[i].duration > 0 THEN bursts[i].packets ELSE 0]
           times   == [i \in 1 .. n |-> bursts[i].duration]
<1>1. /\ bursts \in Seq(Burst) /\ arrivals \in Seq(Packet)
      /\ burst_pkt_count \in Nat /\ burst_byte_count \in Nat
  <2>1. /\ bursts \in Seq(Burst) /\ burst_pkt_count \in 0 .. UIntMax
        /\ burst_byte_count \in 0 .. UIntMax /\ arrivals \in Seq(Packet)
    BY Zenon DEF LaterDurationsInv, BurstInv, BurstsWellFormed
  <2> QED BY <2>1, PoolSizes
<1>2. SUFFICES ASSUME section # << >>
      PROVE  /\ AtMost(Times(section[1].packets, Whole(n)), Whole(k))
             /\ Total(times) > 0 => AtMost(Fraction(Total(packets), Total(times)), section[1].peak)
             /\ AtMost(section[1].size, Whole(BytesOf(arrivals)))
  BY Zenon DEF BurstSectionAgrees
<1>3. bursts # << >>
  BY <1>2, Zenon DEF BurstSection
<1>4. n # 0 /\ n \in Int /\ k \in Nat /\ k \in Int
  BY <1>1, <1>3
<1>5. /\ section[1].size = Mean(BurstSizes) /\ section[1].packets = Mean(BurstPackets)
      /\ section[1].peak = PacketRate(bursts)
  <2> DEFINE r == [ size |-> Mean(BurstSizes), variance |-> Variance(BurstSizes),
                    duration |-> Mean([i \in 1 .. Len(bursts) |-> bursts[i].duration]),
                    packets  |-> Mean(BurstPackets),
                    peak     |-> PacketRate(bursts),
                    interval |-> IF Len(bursts) > 1 THEN Mean(burst_intervals) ELSE Zero,
                    index    |-> BurstinessIndex(burst_intervals) ]
  <2>1. section = <<r>>
    BY <1>3, Zenon DEF BurstSection, BurstSizes, BurstPackets
  <2>2. section[1] = r
    <3> HIDE DEF r, section
    <3> QED BY <2>1
  <2>3. r.size = Mean(BurstSizes) /\ r.packets = Mean(BurstPackets) /\ r.peak = PacketRate(bursts)
    OBVIOUS
  <2> HIDE DEF section, r
  <2> QED BY <2>2, <2>3, Zenon
<1> HIDE DEF section, packets, times
<1>6. /\ P \in Int /\ S \in Int /\ L \in Int
      /\ P + burst_pkt_count <= k /\ S + burst_byte_count <= L
      /\ \A i \in 1 .. n : bursts[i].duration \in Nat /\ bursts[i].packets \in Nat
      /\ BurstPackets \in Seq(Int) /\ BurstSizes \in Seq(Int)
      /\ Len(BurstPackets) = n /\ Len(BurstSizes) = n
      /\ \A i \in 1 .. n : BurstSizes[i] \in Nat
  <2>1. \A i \in 1 .. n : /\ bursts[i].duration \in Nat /\ bursts[i].packets \in Nat
                          /\ bursts[i].size \in Nat
    BY Zenon DEF BurstTotals
  <2>2. /\ BurstPackets = [i \in 1 .. n |-> bursts[i].packets]
        /\ BurstSizes = [i \in 1 .. n |-> bursts[i].size]
    BY Zenon DEF BurstPackets, BurstSizes
  <2>3. /\ BurstPackets \in Seq(Int) /\ BurstSizes \in Seq(Int)
        /\ Len(BurstPackets) = n /\ Len(BurstSizes) = n
        /\ \A i \in 1 .. n : BurstSizes[i] \in Nat
    BY <2>1, <2>2
  <2>4. L \in Int
    <3>1. \A q \in Packet : q.len \in Int
      BY PoolSizes DEF Packet
    <3>2. Lengths \in Seq(Int)
      <4>1. \A i \in 1 .. Len(arrivals) : arrivals[i].len \in Int
        BY <1>1, <3>1
      <4> QED BY <1>4, <4>1 DEF Lengths
    <3> QED BY <3>2, TotalType
  <2>5. P \in Int /\ S \in Int
    BY <2>3, TotalType
  <2>6. P + burst_pkt_count <= k /\ S + burst_byte_count <= L
    BY Zenon DEF BurstTotals
  <2> QED BY <2>1, <2>3, <2>4, <2>5, <2>6
<1>7. S >= 0
  <2> DEFINE zero == [i \in 1 .. n |-> 0]
  <2>1. zero \in Seq(Int) /\ Len(zero) = n /\ \A i \in 1 .. Len(zero) : zero[i] = 0
    OBVIOUS
  <2>2. Total(zero) = 0
    <3> HIDE DEF zero
    <3> QED BY <2>1, TotalOfZeros
  <2>3. \A i \in 1 .. n : 1 * zero[i] <= 1 * BurstSizes[i]
    BY <1>6
  <2> HIDE DEF zero
  <2>4. 1 * Total(zero) <= 1 * S
    <3>1. 1 \in Int
      OBVIOUS
    <3> QED BY <1>6, <2>1, <2>3, <3>1, TotalCompares, Zenon
  <2> HIDE DEF S
  <2> QED BY <1>6, <2>2, <2>4
<1> HIDE DEF P, S, L, k
<1>8. P <= k /\ S <= L /\ L >= 0
  BY <1>1, <1>4, <1>6, <1>7
<1>9. Mean(BurstPackets) = Fraction(P, n) /\ Mean(BurstSizes) = Fraction(S, n)
  BY <1>6, Zenon DEF Mean, P, S
<1>10. 1 \in Nat /\ 1 # 0
  OBVIOUS
<1>11. AtMost(Times(Fraction(P, n), Whole(n)), Whole(k))
  <2>1. IsValue(Fraction(P, n), P, n) /\ IsValue(Whole(n), n, 1) /\ IsValue(Whole(k), k, 1)
    BY <1>4, <1>6, FractionValue, WholeValue, Zenon
  <2>2. IsValue(Times(Fraction(P, n), Whole(n)), P * n, n * 1)
    BY <1>4, <1>6, <1>10, <2>1, TimesValue, Zenon
  <2> DEFINE pn == P * n
             m == n * 1
  <2>3. pn \in Int /\ m = n
    BY <1>4, <1>6, Products
  <2>4. pn * 1 <= k * m
    <3>1. \A u, v \in Int : u <= v => u * n <= v * n
      BY <1>4, SMT
    <3>2. P * n <= k * n
      BY <1>4, <1>6, <1>8, <3>1
    <3>3. pn * 1 = P * n /\ k * m = k * n
      BY <2>3
    <3> QED BY <3>2, <3>3, Zenon
  <2>5. IsValue(Times(Fraction(P, n), Whole(n)), pn, m) /\ m \in Nat /\ m # 0
    BY <1>4, <2>2, <2>3
  <2> HIDE DEF pn, m
  <2> QED BY <1>4, <1>10, <2>1, <2>3, <2>4, <2>5, AtMostValue, Zenon
<1>12. AtMost(Fraction(S, n), Whole(L))
  <2>1. IsValue(Fraction(S, n), S, n) /\ IsValue(Whole(L), L, 1)
    BY <1>4, <1>6, FractionValue, WholeValue, Zenon
  <2>2. S * 1 <= L * n
    <3>1. \A v \in Nat : v * n >= v
      BY <1>4, SMT
    <3>2. L * n >= L /\ L * n \in Int
      BY <1>4, <1>6, <1>8, <3>1
    <3> QED BY <1>6, <1>8, <3>2
  <2> QED BY <1>4, <1>6, <1>10, <2>1, <2>2, AtMostValue, Zenon
<1>13. Total(times) > 0 => AtMost(Fraction(Total(packets), Total(times)), PacketRate(bursts))
  <2> SUFFICES ASSUME Total(times) > 0
               PROVE  AtMost(Fraction(Total(packets), Total(times)), PacketRate(bursts))
    OBVIOUS
  <2> QED BY <1>1, <1>6, PeakIsNoMean DEF packets, times
<1> QED BY <1>5, <1>9, <1>11, <1>12, <1>13, BytesAreLengths, Zenon DEF L
-----------------------------------------------------------------------------
(* The counts of the windows in the order of the loop.                     *)
WindowSeq(counts) == [i \in 1 .. NumWindows |-> counts[i - 1]]

LEMMA WindowSeqType ==
  ASSUME NEW counts \in [Window -> 0 .. UIntMax]
  PROVE  /\ NumWindows \in Nat
         /\ WindowSeq(counts) \in Seq(Int) /\ Len(WindowSeq(counts)) = NumWindows
         /\ \A i \in 1 .. NumWindows : /\ i - 1 \in Window /\ WindowSeq(counts)[i] = counts[i - 1]
                                       /\ counts[i - 1] \in Nat
         /\ \A w \in Window : w + 1 \in 1 .. NumWindows /\ (w + 1) - 1 = w /\ w \in Int
<1>1. NumWindows \in Nat /\ 0 .. UIntMax \in SUBSET Nat
  BY PoolSizes
<1>2. \A i \in 1 .. NumWindows : i - 1 \in Window
  BY <1>1 DEF Window
<1>3. \A i \in 1 .. NumWindows : counts[i - 1] \in Nat
  BY <1>1, <1>2
<1>4. /\ WindowSeq(counts) \in Seq(Int) /\ Len(WindowSeq(counts)) = NumWindows
      /\ \A i \in 1 .. NumWindows : WindowSeq(counts)[i] = counts[i - 1]
  BY <1>1, <1>3 DEF WindowSeq
<1>5. \A w \in Window : w + 1 \in 1 .. NumWindows /\ (w + 1) - 1 = w /\ w \in Int
  BY <1>1 DEF Window
<1> QED BY <1>1, <1>2, <1>3, <1>4, <1>5

(* The windows with packets, by their position in the loop.                *)
Positions == {i \in 1 .. NumWindows : window_pkt_counts[i - 1] > 0}

LEMMA PositionsCount ==
  ASSUME NumWindows \in Nat
  PROVE  /\ Positions \in SUBSET (1 .. NumWindows)
         /\ Cardinality(Positions) = Cardinality(ValidWindows)
         /\ Cardinality(Positions) \in Nat
         /\ Cardinality(Positions) = 0 <=> Positions = {}
         /\ Positions = {} <=> ValidWindows = {}
<1> DEFINE f == [i \in Positions |-> i - 1]
<1>1. Positions \in SUBSET (1 .. NumWindows)
  BY DEF Positions
<1>2. IsFiniteSet(Positions) /\ Cardinality(Positions) \in Nat
      /\ (Cardinality(Positions) = 0 <=> Positions = {})
  BY <1>1, RanksIn
<1>3. f \in Bijection(Positions, ValidWindows)
  <2>1. f \in [Positions -> ValidWindows]
    BY DEF Positions, ValidWindows, Window
  <2>2. \A a, b \in Positions : f[a] = f[b] => a = b
    BY DEF Positions
  <2>3. \A w \in ValidWindows : \E i \in Positions : f[i] = w
    <3> TAKE w \in ValidWindows
    <3>1. w + 1 \in Positions /\ f[w + 1] = w
      BY DEF Positions, ValidWindows, Window
    <3> QED BY <3>1
  <2> HIDE DEF f
  <2> QED BY <2>1, <2>2, <2>3, Zenon DEF Bijection, Injection, Surjection, IsInjective
<1>4. Cardinality(Positions) = Cardinality(ValidWindows)
  <2>1. ExistsBijection(Positions, ValidWindows)
    BY <1>3, Zenon DEF ExistsBijection
  <2> QED BY <1>2, <2>1, FS_Bijection
<1>5. Positions = {} <=> ValidWindows = {}
  <2>1. \A i \in Positions : i - 1 \in ValidWindows
    BY DEF Positions, ValidWindows, Window
  <2>2. \A w \in ValidWindows : w + 1 \in Positions
    BY DEF Positions, ValidWindows, Window
  <2> QED BY <2>1, <2>2, Zenon
<1> QED BY <1>1, <1>2, <1>4, <1>5

(* The shares of the traffic make up all of it.                            *)
LEMMA SharesAddUp ==
  ASSUME WindowsWellFormed, WindowsWithBytes # {}
  PROVE  SumOfFractions([i \in 1 .. NumWindows |-> TrafficShares[i - 1]]) = Whole(1)
<1> DEFINE n == NumWindows
           x == WindowSeq(window_byte_counts)
           d == Total(x)
           shares == [i \in 1 .. n |-> TrafficShares[i - 1]]
<1>0. window_byte_counts \in [Window -> 0 .. UIntMax]
  BY Zenon DEF WindowsWellFormed
<1>1. /\ n \in Nat /\ x \in Seq(Int) /\ Len(x) = n
      /\ \A i \in 1 .. n : i - 1 \in Window /\ x[i] = window_byte_counts[i - 1] /\ x[i] \in Nat
      /\ \A w \in Window : w + 1 \in 1 .. n /\ (w + 1) - 1 = w /\ w \in Int
  <2> HIDE DEF x, n
  <2>1. /\ n \in Nat /\ x \in Seq(Int) /\ Len(x) = n
        /\ \A i \in 1 .. n : i - 1 \in Window /\ x[i] = window_byte_counts[i - 1]
                             /\ window_byte_counts[i - 1] \in Nat
        /\ \A w \in Window : w + 1 \in 1 .. n /\ (w + 1) - 1 = w /\ w \in Int
    BY <1>0, WindowSeqType DEF x, n
  <2> QED BY <2>1, Zenon
<1> HIDE DEF x
<1>2. d \in Int /\ d > 0
  <2> PICK w \in WindowsWithBytes : TRUE
    OBVIOUS
  <2>1. w \in Window /\ window_byte_counts[w] > 0
    BY DEF WindowsWithBytes
  <2>2. w + 1 \in 1 .. n /\ (w + 1) - 1 = w
    BY <1>1, <2>1
  <2>3. PICK k \in 1 .. n, z \in Int : z = x[k] /\ z >= 1
    <3>1. x[w + 1] \in Nat /\ x[w + 1] = window_byte_counts[w]
      BY <1>1, <2>2, Zenon
    <3> QED BY <2>1, <2>2, <3>1
  <2> DEFINE S == {k}
             y == [i \in 1 .. n |-> IF i = k THEN z ELSE 0]
  <2> HIDE DEF n
  <2>4. /\ y \in Seq(Int) /\ Len(y) = n
        /\ \A i \in 1 .. n : y[i] = IF i = k THEN z ELSE 0
    BY <1>1
  <2> HIDE DEF y
  <2>o. 1 \in Int
    OBVIOUS
  <2>p. PICK one \in Int : one = 1
    BY <2>o
  <2>t. \A i \in 1 .. n : 1 * y[i] <= 1 * x[i]
    <3> TAKE i \in 1 .. n
    <3>1. x[i] \in Nat
      BY <1>1
    <3>2. CASE i = k
      BY <2>3, <2>4, <3>1, <3>2
    <3>3. CASE i # k
      BY <2>4, <3>1, <3>3
    <3> QED BY <3>2, <3>3
  <2>w. \A i \in 1 .. n : IF i \in S THEN one <= y[i] /\ y[i] <= z ELSE y[i] = 0
    BY <2>3, <2>4, <2>p
  <2>5. S \in SUBSET (1 .. n) /\ Cardinality(S) = 1
    BY <2>3, FS_Singleton
  <2> HIDE DEF S
  <2>6. one * Cardinality(S) <= Total(y)
    BY <1>1, <2>4, <2>5, <2>w, TotalWithin, ZenonT(60)
  <2>7. Total(y) \in Int /\ d \in Int /\ 1 * Total(y) <= 1 * d
    BY <1>1, <2>4, <2>o, <2>t, TotalCompares, Zenon
  <2> HIDE DEF d
  <2> QED BY <2>5, <2>6, <2>7, <2>p
<1>3. d \in Nat /\ d # 0
  BY <1>2
<1>4. ASSUME NEW i \in 1 .. n PROVE shares[i] \in Lowest /\ IsValue(shares[i], x[i], d)
  <2> DEFINE w == i - 1
  <2>1. w \in Window /\ x[i] = window_byte_counts[w] /\ x[i] \in Nat
    BY <1>1
  <2>2. shares[i] = TrafficShares[w]
    OBVIOUS
  <2>3. d = Total([j \in 1 .. NumWindows |-> window_byte_counts[j - 1]])
    BY Zenon DEF x, WindowSeq
  <2>4. TrafficShares[w] = IF w \in WindowsWithBytes THEN Fraction(window_byte_counts[w], d) ELSE Zero
    <3> HIDE DEF w, d
    <3> QED BY <2>1, <2>3, Zenon DEF TrafficShares
  <2> HIDE DEF shares, w, d
  <2>5. CASE w \in WindowsWithBytes
    <3>1. shares[i] = Fraction(x[i], d) /\ x[i] \in Int
      BY <2>1, <2>2, <2>4, <2>5
    <3>2. IsValue(shares[i], x[i], d)
      BY <1>3, <3>1, FractionValue, Zenon
    <3> QED BY <3>2, Zenon DEF IsValue
  <2>6. CASE w \notin WindowsWithBytes
    <3>1. ~(window_byte_counts[w] > 0)
      BY <2>1, <2>6, Zenon DEF WindowsWithBytes
    <3>2. x[i] = 0
      BY <2>1, <3>1
    <3>3. shares[i] = Zero
      BY <2>2, <2>4, <2>6, Zenon
    <3>4. IsValue(Zero, 0, 1) /\ 0 * d = 0 * 1 /\ 0 \in Int /\ 1 \in Nat /\ 1 # 0
      BY <1>3, WholeValue DEF Zero
    <3>5. IsValue(Zero, 0, d)
      BY <1>3, <3>4, ValueOfEqual, Zenon
    <3>6. IsValue(shares[i], x[i], d)
      BY <3>2, <3>3, <3>5, Zenon
    <3> QED BY <3>6, Zenon DEF IsValue
  <2> QED BY <2>5, <2>6
<1>5. shares \in [1 .. n -> Lowest]
  <2>1. shares = [i \in 1 .. n |-> shares[i]]
    OBVIOUS
  <2> HIDE DEF shares, d, n
  <2> QED BY <1>4, <2>1
<1> DEFINE sum == SumOfFractions(shares)
<1>6. IsValue(sum, d, d)
  <2> HIDE DEF shares, n
  <2> QED BY <1>1, <1>3, <1>4, <1>5, FractionsAddUp
<1>7. IsValue(Whole(1), 1, 1) /\ d * 1 = 1 * d /\ 1 \in Int /\ 1 \in Nat /\ 1 # 0
  BY <1>2, WholeValue
<1> HIDE DEF sum, d
<1>8. IsValue(sum, 1, 1)
  BY <1>2, <1>3, <1>6, <1>7, ValueOfEqual, Zenon
<1>9. sum = Whole(1)
  BY <1>7, <1>8, ValuesAgree, Zenon
<1> QED BY <1>9 DEF sum

(* The part of ReportsAgree about windows.                                 *)
LEMMA WindowReport ==
  ASSUME WindowsWellFormed, MinIsOfAValidWindow
  PROVE  WindowSectionAgrees
<1> DEFINE c == window_pkt_counts
           seq == [i \in 1 .. NumWindows |-> c[i - 1]]
           n == NumWindows
           valid == Cardinality(ValidWindows)
           sum == Total(seq)
           section == WindowSection(c)
           low == ReportedMin(c)
           high == Max({0} \cup ToSet(seq))
           shares == [i \in 1 .. NumWindows |-> TrafficShares[i - 1]]
<1>0. c \in [Window -> 0 .. UIntMax]
  BY Zenon DEF WindowsWellFormed
<1>1. /\ n \in Nat /\ seq \in Seq(Int) /\ Len(seq) = n
      /\ \A i \in 1 .. n : i - 1 \in Window /\ seq[i] = c[i - 1] /\ seq[i] \in Nat
  <2>1. seq = WindowSeq(c)
    BY Zenon DEF WindowSeq
  <2> HIDE DEF seq, n
  <2>2. /\ n \in Nat /\ WindowSeq(c) \in Seq(Int) /\ Len(WindowSeq(c)) = n
        /\ \A i \in 1 .. n : i - 1 \in Window /\ WindowSeq(c)[i] = c[i - 1]
                             /\ c[i - 1] \in Nat
    BY <1>0, WindowSeqType DEF n
  <2> QED BY <2>1, <2>2, Zenon
<1>2. /\ Positions \in SUBSET (1 .. n) /\ Cardinality(Positions) = valid /\ valid \in Nat
      /\ (valid = 0 <=> Positions = {}) /\ (Positions = {} <=> ValidWindows = {})
  BY <1>1, PositionsCount, Zenon
<1>3. SUFFICES ASSUME section # << >>
      PROVE  /\ AtMost(Whole(section[1].min), section[1].mean)
             /\ AtMost(section[1].mean, Whole(section[1].max))
             /\ WindowsWithBytes # {} => SumOfFractions(shares) = Whole(1)
  BY Zenon DEF WindowSectionAgrees
<1>4. valid # 0
  BY <1>3, Zenon DEF WindowSection
<1>5. section[1].min = low /\ section[1].max = high /\ section[1].mean = Fraction(sum, valid)
  <2> DEFINE variance == IF valid < 2 THEN Zero
                         ELSE Fraction(valid * SumOf(UintSquare, seq) - sum * sum,
                                       valid * (valid - 1))
             r == [ mean |-> Fraction(sum, valid), variance |-> variance, min |-> low, max |-> high,
                    quartiles |-> WindowQuartiles(seq, valid) ]
  <2>1. section = <<r>>
    BY <1>4, Zenon DEF WindowSection
  <2>2. r.min = low /\ r.max = high /\ r.mean = Fraction(sum, valid)
    <3> HIDE DEF variance, low, high, sum, seq, valid
    <3> QED OBVIOUS
  <2> HIDE DEF r, section
  <2>3. section[1] = r
    BY <2>1
  <2> QED BY <2>2, <2>3, Zenon
<1>6. ValidWindows # {} /\ n # 0
  <2>1. ValidWindows # {}
    BY <1>2, <1>4, Zenon
  <2>2. n # 0
    <3> HIDE DEF seq
    <3> QED BY <1>1, <1>2, <2>1
  <2> QED BY <2>1, <2>2
<1> HIDE DEF section, seq
<1>7. /\ high \in Int /\ \A i \in 1 .. n : seq[i] <= high
  <2> HIDE DEF high, n
  <2> QED BY <1>1, <1>6, MaxFromZero DEF high
<1>8. low \in Int /\ \A w \in ValidWindows : low <= c[w]
  <2>1. /\ \E w \in ValidWindows : low = c[w]
        /\ \A w \in ValidWindows : low <= c[w]
    BY <1>6, Zenon DEF MinIsOfAValidWindow
  <2>2. \A w \in ValidWindows : c[w] \in Int
    BY <1>0, PoolSizes DEF ValidWindows
  <2> HIDE DEF low
  <2> QED BY <2>1, <2>2, Zenon
<1> HIDE DEF low, high, n
<1>9. ASSUME NEW i \in 1 .. n
      PROVE  IF i \in Positions THEN low <= seq[i] /\ seq[i] <= high ELSE seq[i] = 0
  <2>1. CASE i \in Positions
    <3>1. i - 1 \in ValidWindows
      BY <1>1, <2>1 DEF Positions, ValidWindows
    <3> QED BY <1>1, <1>7, <1>8, <2>1, <3>1, Zenon
  <2>2. CASE i \notin Positions
    <3>1. ~(c[i - 1] > 0)
      BY <2>2 DEF Positions, n
    <3>2. seq[i] = 0
      BY <1>1, <3>1
    <3> QED BY <2>2, <3>2, Zenon
  <2> QED BY <2>1, <2>2
<1>10. low * Cardinality(Positions) <= sum /\ sum <= high * Cardinality(Positions) /\ sum \in Int
  <2>1. low * Cardinality(Positions) <= sum /\ sum <= high * Cardinality(Positions)
    BY <1>1, <1>2, <1>7, <1>8, <1>9, TotalWithin, Zenon
  <2>2. sum \in Int
    BY <1>1, TotalType
  <2> QED BY <2>1, <2>2
<1> HIDE DEF sum, valid
<1>11. low * valid <= sum * 1 /\ sum * 1 <= high * valid /\ 1 \in Nat /\ 1 # 0
  <2>1. sum * 1 = sum
    BY <1>10
  <2>2. low * valid <= sum /\ sum <= high * valid
    BY <1>2, <1>10, Zenon
  <2>3. 1 \in Nat /\ 1 # 0
    OBVIOUS
  <2> QED BY <2>1, <2>2, <2>3, Zenon
<1>12. /\ IsValue(Fraction(sum, valid), sum, valid)
       /\ IsValue(Whole(low), low, 1) /\ IsValue(Whole(high), high, 1)
  BY <1>2, <1>4, <1>7, <1>8, <1>10, FractionValue, WholeValue, Zenon
<1>13. AtMost(Whole(low), Fraction(sum, valid))
  BY <1>2, <1>4, <1>8, <1>10, <1>11, <1>12, AtMostValue, Zenon
<1>14. AtMost(Fraction(sum, valid), Whole(high))
  BY <1>2, <1>4, <1>7, <1>10, <1>11, <1>12, AtMostValue, Zenon
<1> HIDE DEF shares
<1>15. WindowsWithBytes # {} => SumOfFractions(shares) = Whole(1)
  BY SharesAddUp, Zenon DEF shares
<1> QED BY <1>5, <1>6, <1>13, <1>14, <1>15, Zenon
-----------------------------------------------------------------------------
(* What a direction's array has is among its samples.                      *)
Among(a, b) == \A i \in 1 .. Len(a) : \E j \in 1 .. Len(b) : a[i] = b[j]

GapsKept == \A d \in Known : Among(dir_iats[d], dir_stats[d])

(* In a flow whose packets come in order, a pending request and the delays *)
(* lie within the flow.                                                    *)
DelaysFit ==
  /\ arrivals = << >> => last_req_ts = 0 /\ resp_delays = << >>
  /\ arrivals # << >> /\ InOrder =>
       /\ last_req_ts # 0 => arrivals[1].ts <= last_req_ts /\ last_req_ts <= last_arrival_us
       /\ \A i \in 1 .. Len(resp_delays) : resp_delays[i] <= last_arrival_us - arrivals[1].ts

(* What is kept of a value is among what is appended to its samples.       *)
LEMMA KeptIsAmong ==
  ASSUME NEW stats \in Seq(Int), NEW iats \in Seq(Int), NEW gap \in Int, NEW capacity,
         Among(iats, stats)
  PROVE  Among(Kept(iats, gap, capacity), Append(stats, gap))
<1>0. \A i \in 1 .. Len(iats) : \E j \in 1 .. Len(stats) : iats[i] = stats[j]
  BY Zenon DEF Among
<1> DEFINE n == Len(stats)
           k == Len(iats)
           more == Append(stats, gap)
           kept == Kept(iats, gap, capacity)
<1>1. /\ n \in Nat /\ k \in Nat /\ Len(more) = n + 1 /\ more[n + 1] = gap
      /\ \A i \in 1 .. n : more[i] = stats[i] /\ i \in 1 .. n + 1
      /\ n + 1 \in 1 .. n + 1
  OBVIOUS
<1>2. kept = iats \/ kept = Append(iats, gap)
  BY Zenon DEF Kept
<1>3. \/ Len(kept) = k /\ \A i \in 1 .. k : kept[i] = iats[i]
      \/ Len(kept) = k + 1 /\ kept[k + 1] = gap /\ \A i \in 1 .. k : kept[i] = iats[i]
  <2>1. /\ Len(Append(iats, gap)) = k + 1 /\ Append(iats, gap)[k + 1] = gap
        /\ \A i \in 1 .. k : Append(iats, gap)[i] = iats[i]
    OBVIOUS
  <2> HIDE DEF kept, k
  <2> QED BY <1>2, <2>1, Zenon DEF k
<1>4. \A i \in 1 .. k + 1 : i = k + 1 \/ i \in 1 .. k
  BY <1>1
<1> HIDE DEF kept, more
<1>5. ASSUME NEW i \in 1 .. Len(kept) PROVE \E j \in 1 .. Len(more) : kept[i] = more[j]
  <2>1. CASE i \in 1 .. k
    <3>1. PICK j \in 1 .. n : iats[i] = stats[j]
      BY <1>0, <2>1, Zenon
    <3> QED BY <1>1, <1>3, <2>1, <3>1, Zenon
  <2>2. CASE i \notin 1 .. k
    <3>1. i = k + 1 /\ kept[k + 1] = gap
      BY <1>3, <1>4, <2>2, Zenon
    <3> QED BY <1>1, <3>1, Zenon
  <2> QED BY <2>1, <2>2
<1> QED BY <1>5, Zenon DEF kept, more, Among

LEMMA GapsKeptStep ==
  ASSUME GapsInv, GapsKept, NEW p \in Packets, NEW allocated \in BOOLEAN, Data(p, allocated)
  PROVE  GapsKept'
<1> SUFFICES ASSUME NEW d \in Known PROVE Among(dir_iats'[d], dir_stats'[d])
  BY Zenon DEF GapsKept
<1>1. Among(dir_iats[d], dir_stats[d])
  BY Zenon DEF GapsKept
<1>2. CASE last_arrival_us = 0
  <2>1. dir_iats' = dir_iats /\ dir_stats' = dir_stats
    BY <1>2, Zenon DEF Data, IatPacket, IatUpdate
  <2> QED BY <1>1, <2>1, Zenon
<1>3. CASE last_arrival_us # 0
  <2> DEFINE gap == Since(p.ts, last_us[d])
  <2>1. \/ dir_stats'[d] = dir_stats[d] /\ dir_iats'[d] = dir_iats[d]
        \/ /\ dir_stats'[d] = Append(dir_stats[d], gap)
           /\ dir_iats'[d] = Kept(dir_iats[d], gap, pool'.seq_len)
    BY <1>3, DirectionMoves, Zenon
  <2>2. dir_stats[d] \in Seq(Int) /\ dir_iats[d] \in Seq(Int) /\ last_us[d] \in Int
    BY StreamConstants DEF GapsInv, IatInv, IatWellFormed
  <2>3. gap \in Int
    <3>1. p.ts \in Int
      BY StreamConstants DEF Packet
    <3> QED BY <2>2, <3>1, SinceInRange
  <2> HIDE DEF gap
  <2>4. CASE dir_stats'[d] = dir_stats[d] /\ dir_iats'[d] = dir_iats[d]
    BY <1>1, <2>4, Zenon
  <2>5. CASE /\ dir_stats'[d] = Append(dir_stats[d], gap)
             /\ dir_iats'[d] = Kept(dir_iats[d], gap, pool'.seq_len)
    <3> DEFINE stats == dir_stats[d]
               iats == dir_iats[d]
               c == pool'.seq_len
    <3>1. /\ stats \in Seq(Int) /\ iats \in Seq(Int)
          /\ Among(iats, stats)
          /\ dir_stats'[d] = Append(stats, gap) /\ dir_iats'[d] = Kept(iats, gap, c)
      BY <1>1, <2>2, <2>5, Zenon
    <3> HIDE DEF stats, iats, c
    <3>2. Among(Kept(iats, gap, c), Append(stats, gap))
      BY <2>3, <3>1, KeptIsAmong, Zenon
    <3> QED BY <3>1, <3>2, Zenon
  <2> QED BY <2>1, <2>4, <2>5, Zenon
<1> QED BY <1>2, <1>3

LEMMA DelaysFitStep ==
  ASSUME GapsInv, DelaysFit, NEW p \in Packets, NEW allocated \in BOOLEAN, Data(p, allocated)
  PROVE  DelaysFit'
<1> PICK n \in Nat : n = Len(arrivals)
  BY DEF GapsInv
<1> DEFINE f == arrivals'[1].ts
           t == p.ts
           r == last_req_ts
           delay == Since(t, r)
<1>1. /\ arrivals \in Seq(Packet) /\ arrivals' # << >> /\ t \in Int /\ t \in 1 .. LLongSpan - 1
      /\ last_arrival_us' = t
  <2>1. arrivals \in Seq(Packet)
    BY DEF GapsInv
  <2>2. t \in Int /\ t \in 1 .. LLongSpan - 1 /\ Len(arrivals') = Len(arrivals) + 1
        /\ arrivals' \in Seq(Packet)
    BY <2>1, Arrives
  <2>3. arrivals' # << >>
    BY <2>1, <2>2
  <2>4. last_arrival_us' = t
    BY Zenon DEF Data, IatPacket, IatUpdate
  <2> QED BY <2>1, <2>2, <2>3, <2>4
<1> SUFFICES ASSUME InOrder'
             PROVE  /\ last_req_ts' # 0 => f <= last_req_ts' /\ last_req_ts' <= t
                    /\ \A i \in 1 .. Len(resp_delays') : resp_delays'[i] <= t - f
  BY <1>1, Zenon DEF DelaysFit
<1>2. /\ InOrder /\ f \in Int /\ f <= t
      /\ arrivals # << >> => /\ arrivals[Len(arrivals)].ts <= t /\ arrivals[Len(arrivals)].ts \in Int
                             /\ f = arrivals[1].ts
  BY <1>1, OrderKept, Zenon
<1>3. /\ resp_delays \in Seq(Int) /\ r \in Int /\ r >= 0 /\ LLongSpan \in Nat \ {0}
      /\ r \in 0 .. LLongSpan - 1 /\ RespDelays \in Nat
  BY StreamConstants, PoolSizes DEF GapsInv, IatInv, IatWellFormed
<1> HIDE DEF f, t, r, delay
<1>4. /\ r # 0 => f <= r /\ r <= t
      /\ \A i \in 1 .. Len(resp_delays) : resp_delays[i] <= t - f
  <2>1. CASE arrivals = << >>
    <3>1. r = 0 /\ resp_delays = << >>
      BY <2>1, Zenon DEF DelaysFit, r
    <3> QED BY <3>1
  <2>2. CASE arrivals # << >>
    <3> DEFINE l == arrivals[Len(arrivals)].ts
    <3>1. l <= t /\ l \in Int /\ last_arrival_us = l
      BY <1>2, <2>2, Zenon DEF GapsInv
    <3>2. /\ r # 0 => f <= r /\ r <= l
          /\ \A i \in 1 .. Len(resp_delays) : resp_delays[i] <= l - f
      BY <1>2, <2>2, <3>1, Zenon DEF DelaysFit, r
    <3> HIDE DEF l
    <3>3. \A i \in 1 .. Len(resp_delays) : resp_delays[i] \in Int
      BY <1>3, ElementsAreInts, Zenon
    <3>4. r # 0 => f <= r /\ r <= t
      BY <1>1, <1>3, <3>1, <3>2
    <3>5. \A x \in Int : x <= l - f => x <= t - f
      BY <1>1, <1>2, <3>1
    <3> QED BY <3>2, <3>3, <3>4, <3>5, Zenon
  <2> QED BY <2>1, <2>2
<1>5. /\ last_req_ts' = r \/ last_req_ts' = t \/ last_req_ts' = 0
      /\ \/ resp_delays' = resp_delays
         \/ r > 0 /\ resp_delays' = Append(resp_delays, delay)
  <2>1. \/ last_req_ts' = r /\ resp_delays' = resp_delays
        \/ /\ last_req_ts' = Requested(t, p.dir)
           /\ resp_delays' = IF p.dir = "bwd" /\ r > 0
                               THEN Kept(resp_delays, delay, RespDelays) ELSE resp_delays
    BY Zenon DEF Data, IatPacket, ResponseDelay, t, r, delay
  <2>2. Requested(t, p.dir) = t \/ Requested(t, p.dir) = 0 \/ Requested(t, p.dir) = r
    BY DEF Requested, r
  <2>3. Kept(resp_delays, delay, RespDelays) = resp_delays
        \/ Kept(resp_delays, delay, RespDelays) = Append(resp_delays, delay)
    BY Zenon DEF Kept
  <2> QED BY <2>1, <2>2, <2>3, Zenon
<1>6. last_req_ts' # 0 => f <= last_req_ts' /\ last_req_ts' <= t
  <2>1. t <= t
    BY <1>1
  <2> QED BY <1>2, <1>4, <1>5, <2>1, Zenon
<1>7. CASE resp_delays' = resp_delays
  BY <1>4, <1>6, <1>7, Zenon
<1>8. CASE r > 0 /\ resp_delays' = Append(resp_delays, delay)
  <2>1. f <= r /\ r <= t
    BY <1>3, <1>4, <1>8
  <2>2. delay = t - r
    <3> DEFINE x == t - r
    <3>1. x \in 0 .. LLongSpan - 1
      BY <1>1, <1>3, <2>1
    <3> HIDE DEF x
    <3>2. x % LLongSpan = x
      BY <1>3, <3>1, SMT
    <3> QED BY <3>2, Zenon DEF Since, x, delay
  <2>3. delay \in Int /\ delay <= t - f
    BY <1>1, <1>2, <1>3, <2>1, <2>2
  <2>4. /\ Len(resp_delays') = Len(resp_delays) + 1 /\ resp_delays'[Len(resp_delays) + 1] = delay
        /\ \A i \in 1 .. Len(resp_delays) : resp_delays'[i] = resp_delays[i]
        /\ \A i \in 1 .. Len(resp_delays) + 1 : i = Len(resp_delays) + 1 \/ i \in 1 .. Len(resp_delays)
    BY <1>3, <1>8, <2>3
  <2>5. \A i \in 1 .. Len(resp_delays') : resp_delays'[i] <= t - f
    BY <1>4, <2>3, <2>4, Zenon
  <2> QED BY <1>6, <2>5, Zenon
<1> QED BY <1>5, <1>7, <1>8, Zenon
-----------------------------------------------------------------------------
(* The duration that enable_behavior_basic reports, 0 when it reports none.*)
LEMMA DurationIs ==
  ASSUME NEW D, D = Since(last_arrival_us, arrivals[1].ts)
  PROVE  (IF BehaviorBasic = << >> THEN 0 ELSE BehaviorBasic[1].duration) = D
<1> DEFINE bytes == BytesOf(arrivals)
           r == [ duration |-> D,
                  bitrate  |-> Fraction(bytes * 8 * Second, D),
                  packet_rate |-> Fraction(Len(arrivals) * Second, D),
                  bulk  |-> bytes * Second > BulkTransfer * D,
                  short |-> D < ShortConn * Second ]
<1>1. BehaviorBasic = IF D = 0 THEN << >> ELSE << r >>
  BY Zenon DEF BehaviorBasic
<1>2. r.duration = D
  OBVIOUS
<1> HIDE DEF r
<1>3. << r >> # << >> /\ << r >>[1] = r
  OBVIOUS
<1> QED BY <1>1, <1>2, <1>3, Zenon

(* The extremes of running statistics are those of the samples, unless     *)
(* they lie beyond what the extremes start from.                           *)
LEMMA MomentsBound ==
  ASSUME NEW seq \in Seq(Int), NEW n \in Nat, n = Len(seq), n # 0
  PROVE  /\ Moments(seq).min \in Int /\ Moments(seq).max \in Int
         /\ \A i \in 1 .. n : Moments(seq).min <= seq[i] /\ seq[i] <= Moments(seq).max
         /\ Moments(seq).min = Min({EmptyMin, Min(ToSet(seq))})
         /\ Max(ToSet(seq)) >= EmptyMax => Moments(seq).max = Max(ToSet(seq))
<1> PICK s : s = Sorted(seq)
  OBVIOUS
<1>1. /\ s[n] \in Int /\ s[1] \in Int
      /\ \A i \in 1 .. n : s[1] <= seq[i] /\ seq[i] <= s[n]
      /\ Min(ToSet(seq)) = s[1] /\ Max(ToSet(seq)) = s[n]
      /\ s[1] \in ToSet(seq) /\ s[n] \in ToSet(seq) /\ ToSet(seq) \in SUBSET Int
  BY SortedExtremes
<1>0. /\ \A x \in ToSet(seq) : x \in Int /\ s[1] <= x /\ x <= s[n]
      /\ \A i \in 1 .. n : seq[i] \in Int
  <2>1. DOMAIN seq = 1 .. n
    OBVIOUS
  <2>2. \A x \in ToSet(seq) : \E i \in 1 .. n : x = seq[i]
    BY <2>1, Zenon DEF ToSet
  <2> QED BY <1>1, <2>2, ElementsAreInts, Zenon
<1> DEFINE L == {EmptyMin} \cup ToSet(seq)
           H == {EmptyMax} \cup ToSet(seq)
<1>2. EmptyMin \in Int /\ EmptyMax \in Int
  BY DEF EmptyMin, EmptyMax
<1>3. L \in SUBSET Int /\ H \in SUBSET Int
  BY <1>1, <1>2
<1>4. Moments(seq).min = Min(L) /\ Moments(seq).max = Max(H)
  BY DEF Moments
<1>5. Min(L) = IF EmptyMin <= s[1] THEN EmptyMin ELSE s[1]
  <2>1. CASE EmptyMin <= s[1]
    <3>1. EmptyMin \in L /\ \A y \in L : EmptyMin <= y
      BY <1>0, <1>1, <1>2, <2>1
    <3> HIDE DEF L
    <3> QED BY <1>3, <2>1, <3>1, MinOf
  <2>2. CASE ~(EmptyMin <= s[1])
    <3>1. s[1] \in L /\ \A y \in L : s[1] <= y
      BY <1>0, <1>1, <1>2, <2>2
    <3> HIDE DEF L
    <3> QED BY <1>3, <2>2, <3>1, MinOf
  <2> QED BY <2>1, <2>2
<1>6. Max(H) = IF s[n] >= EmptyMax THEN s[n] ELSE EmptyMax
  <2>1. CASE s[n] >= EmptyMax
    <3>1. s[n] \in H /\ \A y \in H : y <= s[n]
      BY <1>0, <1>1, <1>2, <2>1
    <3> HIDE DEF H
    <3> QED BY <1>3, <2>1, <3>1, MaxOf
  <2>2. CASE ~(s[n] >= EmptyMax)
    <3>1. EmptyMax \in H /\ \A y \in H : y <= EmptyMax
      BY <1>0, <1>1, <1>2, <2>2
    <3> HIDE DEF H
    <3> QED BY <1>3, <2>2, <3>1, MaxOf
  <2> QED BY <2>1, <2>2
<1>7. Min({EmptyMin, s[1]}) = IF EmptyMin <= s[1] THEN EmptyMin ELSE s[1]
  BY <1>1, <1>2, MinOfTwo, Zenon
<1> HIDE DEF L, H
<1>8. Min(L) \in Int /\ Max(H) \in Int
      /\ \A i \in 1 .. n : Min(L) <= seq[i] /\ seq[i] <= Max(H)
  BY <1>0, <1>1, <1>2, <1>5, <1>6
<1>9. s[n] >= EmptyMax => Max(H) = s[n]
  BY <1>6, Zenon
<1> QED BY <1>1, <1>4, <1>5, <1>7, <1>8, <1>9, Zenon

(* The quartiles of some of the samples lie between the extremes of the    *)
(* running statistics of all.                                              *)
LEMMA QuartilesWithin ==
  ASSUME NEW iats \in Seq(Int), NEW stats \in Seq(Int), iats # << >>, Among(iats, stats)
  PROVE  /\ AtMost(Whole(Moments(stats).min), Quartiles(Sorted(iats))[1])
         /\ AtMost(Quartiles(Sorted(iats))[3], Whole(Moments(stats).max))
<1> DEFINE n == Len(iats)
           m == Len(stats)
           low == Moments(stats).min
           high == Moments(stats).max
<1> PICK s : s = Sorted(iats)
  OBVIOUS
<1>1. n \in Nat /\ n # 0 /\ n >= 1 /\ m \in Nat /\ 1 \in 1 .. n
  OBVIOUS
<1> HIDE DEF n, m, low, high
<1>2. /\ IsAscending(s, n) /\ s[1] \in Int /\ s[n] \in Int
      /\ s[1] \in ToSet(iats) /\ s[n] \in ToSet(iats)
  BY <1>1, SortedExtremes, Zenon DEF n
<1>3. \A i \in 1 .. n : \E j \in 1 .. m : iats[i] = stats[j]
  BY Zenon DEF Among, n, m
<1>4. m # 0
  <2>1. PICK j \in 1 .. m : iats[1] = stats[j]
    BY <1>1, <1>3, Zenon
  <2> QED BY <1>1, <2>1
<1>5. /\ low \in Int /\ high \in Int
      /\ \A i \in 1 .. m : low <= stats[i] /\ stats[i] <= high
  BY <1>1, <1>4, MomentsBound, Zenon DEF m, low, high
<1>6. \A x \in ToSet(iats) : low <= x /\ x <= high
  <2>1. DOMAIN iats = 1 .. n
    BY DEF n
  <2>2. \A x \in ToSet(iats) : \E i \in 1 .. n : x = iats[i]
    BY <2>1, Zenon DEF ToSet
  <2> QED BY <1>3, <1>5, <2>2, ZenonT(60)
<1> DEFINE a == Percentile(s, 25)
           c == Percentile(s, 75)
<1>7. a \in Lowest /\ c \in Lowest /\ AtMost(Whole(s[1]), a) /\ AtMost(c, Whole(s[n]))
  BY <1>1, <1>2, QuartilesAscend, Zenon
<1> HIDE DEF a, c
<1>8. low <= s[1] /\ s[n] <= high
  BY <1>2, <1>6, Zenon
<1>9. AtMost(Whole(low), a) /\ AtMost(c, Whole(high))
  BY <1>2, <1>5, <1>7, <1>8, WholesBound, Zenon
<1>10. Quartiles(Sorted(iats))[1] = a /\ Quartiles(Sorted(iats))[3] = c
  <2>1. Quartiles(Sorted(iats)) = <<a, Median(s), c>>
    BY Zenon DEF Quartiles, a, c
  <2> QED BY <2>1
<1> QED BY <1>9, <1>10, Zenon DEF low, high

(* The part of ReportsAgree about times.                                   *)
LEMMA TimeReport ==
  ASSUME ActiveIdleInv, GapsInv, GapsKept, DelaysFit, arrivals # << >>
  PROVE  TimeSectionsAgree
<1> DEFINE duration  == IF BehaviorBasic = << >> THEN 0 ELSE BehaviorBasic[1].duration
           responses == ResponseSection(TempLen(pool.seq_len))
           ways      == DirectionSection(TempLen(pool.seq_len))
           f == arrivals[1].ts
           l == last_arrival_us
<1>1. /\ arrivals \in Seq(Packet) /\ f \in Int /\ l \in Int /\ l = Last(arrivals).ts
      /\ Len(arrivals) \in 1 .. Len(arrivals) /\ 1 \in 1 .. Len(arrivals)
      /\ l \in 1 .. LLongSpan - 1 /\ f \in 1 .. LLongSpan - 1 /\ LLongSpan \in Nat \ {0}
  <2>1. arrivals \in Seq(Packet) /\ l = arrivals[Len(arrivals)].ts
    BY Zenon DEF ActiveIdleInv
  <2>2. 1 \in 1 .. Len(arrivals) /\ Len(arrivals) \in 1 .. Len(arrivals)
    BY <2>1
  <2>3. arrivals[1] \in Packet /\ arrivals[Len(arrivals)] \in Packet
    BY <2>1, <2>2
  <2>4. \A q \in Packet : q.ts \in 1 .. LLongSpan - 1 /\ q.ts \in Int
    BY StreamConstants DEF Packet
  <2> QED BY <2>1, <2>2, <2>3, <2>4, StreamConstants, Zenon DEF Last
<1>2. duration = Since(l, f)
  BY DurationIs, Zenon
<1> HIDE DEF duration
<1>3. "enable_iat_active" \in cfg.on => (ActiveSection.active + ActiveSection.idle) % LLongSpan = duration
  <2>1. ActiveSection.active = active_time_us /\ ActiveSection.idle = idle_time_us
    BY DEF ActiveSection
  <2>2. "enable_iat_active" \in cfg.on =>
          (active_time_us + idle_time_us) % LLongSpan = Since(Last(arrivals).ts, arrivals[1].ts)
    BY Zenon DEF ActiveIdleInv, ActiveIdleCoverFlow
  <2> QED BY <1>1, <1>2, <2>1, <2>2, Zenon
<1>4. ASSUME responses # << >>
      PROVE  /\ AtMost(Whole(responses[1].delays.min), responses[1].delays.mean)
             /\ AtMost(responses[1].delays.mean, Whole(responses[1].delays.max))
             /\ InOrder => responses[1].delays.max <= duration
  <2> DEFINE seq == resp_delays
             n == Len(seq)
             low == Min(ToSet(seq))
             high == Max({0} \cup ToSet(seq))
             delays == [Summary(seq) EXCEPT !.max = high]
             r == [ delays |-> delays,
                    interactive |-> ~AtMost(Whole(Interactive), Mean(seq)) ]
  <2>1. responses = << r >> /\ seq # << >>
    BY <1>4, Zenon DEF ResponseSection
  <2>2. delays.min = low /\ delays.mean = Mean(seq) /\ delays.max = high
    <3> HIDE DEF low, high
    <3> QED BY DEF Summary, low
  <2> HIDE DEF delays
  <2>3. r.delays = delays
    OBVIOUS
  <2> HIDE DEF r
  <2>4. responses[1] = r
    <3>1. << r >>[1] = r
      OBVIOUS
    <3> QED BY <2>1, <3>1, Zenon
  <2>5. seq \in Seq(Int) /\ n \in Nat /\ n # 0
    <3>1. seq \in Seq(Int)
      BY Zenon DEF GapsInv, IatInv
    <3> QED BY <2>1, <3>1
  <2> PICK s : s = Sorted(seq)
    OBVIOUS
  <2>6. /\ \A i \in 1 .. n : s[1] <= seq[i]
        /\ Max(ToSet(seq)) = s[n] /\ s[n] \in ToSet(seq) /\ low = s[1] /\ s[1] \in Int
    BY <2>5, SortedExtremes, Zenon
  <2>7. /\ high \in Int /\ high >= 0 /\ \A i \in 1 .. n : seq[i] <= high
        /\ high = 0 \/ high = Max(ToSet(seq))
    BY <2>5, MaxFromZero, Zenon
  <2> HIDE DEF low, high, n
  <2>8. Between(Mean(seq), low, high)
    <3>1. /\ \A i \in 1 .. n : low <= seq[i] /\ seq[i] <= high
          /\ low \in Int /\ Len(seq) = n
      BY <2>6, <2>7, Zenon DEF n
    <3> QED BY <2>5, <2>7, <3>1, MeanWithin, Zenon
  <2>9. ASSUME InOrder PROVE high <= duration
    <3>1. /\ \A i \in 1 .. n : seq[i] <= l - f
      BY <2>9, Zenon DEF DelaysFit, n
    <3>2. f <= l
      <4>1. CASE Len(arrivals) = 1
        BY <1>1, <4>1 DEF Last
      <4>2. CASE Len(arrivals) # 1
        <5>1. 1 < Len(arrivals)
          <6>1. Len(arrivals) \in Nat
            BY <1>1
          <6>2. \A k \in Nat : k \in 1 .. k /\ k # 1 => 1 < k
            OBVIOUS
          <6> QED BY <1>1, <4>2, <6>1, <6>2, Zenon
        <5> QED BY <1>1, <2>9, <5>1, Zenon DEF InOrder, Last
      <4> QED BY <4>1, <4>2
    <3>3. Since(l, f) = l - f
      <4> DEFINE x == l - f
      <4>1. x \in 0 .. LLongSpan - 1
        BY <1>1, <3>2
      <4> HIDE DEF x
      <4>2. x % LLongSpan = x
        BY <1>1, <4>1, SMT
      <4> QED BY <4>2, Zenon DEF Since, x
    <3>4. s[n] <= l - f
      <4>1. DOMAIN seq = 1 .. n
        BY <2>5 DEF n
      <4>2. PICK i \in 1 .. n : s[n] = seq[i]
        BY <2>6, <4>1, Zenon DEF ToSet
      <4> QED BY <3>1, <4>2, Zenon
    <3>5. 0 <= l - f
      BY <1>1, <3>2
    <3>6. high <= l - f
      BY <2>6, <2>7, <3>4, <3>5, Zenon
    <3> QED BY <1>2, <3>3, <3>6, Zenon
  <2> QED BY <2>2, <2>3, <2>4, <2>8, <2>9, Zenon DEF Between
<1>5. ASSUME NEW d \in Known, ways[d].quartiles # << >>
      PROVE  /\ AtMost(Whole(ways[d].stats.min), ways[d].quartiles[1])
             /\ AtMost(ways[d].quartiles[3], Whole(ways[d].stats.max))
  <2> DEFINE stats == dir_stats[d]
             iats == dir_iats[d]
             q == IF iats = << >> \/ Len(iats) > TempLen(pool.seq_len) THEN << >>
                  ELSE Quartiles(Sorted(iats))
             m == Moments(stats)
  <2>1. ways[d] = [stats |-> m, quartiles |-> q]
    BY Zenon DEF DirectionSection
  <2> HIDE DEF q, m
  <2>2. ways[d].stats = m /\ ways[d].quartiles = q
    BY <2>1
  <2>3. q = Quartiles(Sorted(iats)) /\ iats # << >>
    BY <1>5, <2>2, Zenon DEF q
  <2>4. stats \in Seq(Int) /\ iats \in Seq(Int) /\ Among(iats, stats)
    BY DEF GapsInv, IatInv, GapsKept
  <2> HIDE DEF stats, iats
  <2>5. /\ AtMost(Whole(Moments(stats).min), Quartiles(Sorted(iats))[1])
        /\ AtMost(Quartiles(Sorted(iats))[3], Whole(Moments(stats).max))
    BY <2>3, <2>4, QuartilesWithin, Zenon
  <2> QED BY <2>2, <2>3, <2>5, Zenon DEF m
<1> QED BY <1>3, <1>4, <1>5, Zenon DEF TimeSectionsAgree, duration
-----------------------------------------------------------------------------
(* The gaps of all packets, and what the ring may have of them.            *)
LEMMA GapsAreSpans ==
  ASSUME GapsInv
  PROVE  iat_stats \in Seq(Int) /\ \A i \in 1 .. Len(iat_stats) : iat_stats[i] >= 0
<1>1. CASE iat_stats = << >>
  <2>1. Len(<< >>) = 0 /\ << >> \in Seq(Int)
    OBVIOUS
  <2> QED BY <1>1, <2>1
<1>2. CASE iat_stats # << >>
  <2> DEFINE m == Max({Len(arrivals) - 1, 0})
             gaps == [i \in 1 .. m |-> Since(arrivals[i + 1].ts, arrivals[i].ts)]
  <2>1. iat_stats = gaps
    BY <1>2, Zenon DEF GapsInv
  <2>2. arrivals \in Seq(Packet)
    BY Zenon DEF GapsInv
  <2>3. m \in Nat /\ \A i \in 1 .. m : i \in 1 .. Len(arrivals) /\ i + 1 \in 1 .. Len(arrivals)
    <3>1. PICK k \in Nat : k = Len(arrivals)
      BY <2>2
    <3>2. k - 1 \in Int /\ 0 \in Int
      OBVIOUS
    <3>3. Max({k - 1, 0}) = IF k - 1 >= 0 THEN k - 1 ELSE 0
      BY <3>2, MaxOfTwo, Zenon
    <3>4. m = IF k - 1 >= 0 THEN k - 1 ELSE 0
      BY <3>1, <3>3, Zenon
    <3> HIDE DEF m
    <3> QED BY <3>1, <3>4
  <2> HIDE DEF m
  <2>4. ASSUME NEW i \in 1 .. m
        PROVE  /\ Since(arrivals[i + 1].ts, arrivals[i].ts) \in Int
               /\ Since(arrivals[i + 1].ts, arrivals[i].ts) >= 0
    <3>1. arrivals[i + 1] \in Packet /\ arrivals[i] \in Packet
      BY <2>2, <2>3
    <3>2. \A q \in Packet : q.ts \in Int
      BY StreamConstants DEF Packet
    <3>3. /\ Since(arrivals[i + 1].ts, arrivals[i].ts) \in 0 .. LLongSpan - 1
          /\ Since(arrivals[i + 1].ts, arrivals[i].ts) \in Int
      BY <3>1, <3>2, SinceInRange, Zenon
    <3> QED BY <3>3, StreamConstants
  <2>5. gaps \in Seq(Int) /\ Len(gaps) = m /\ \A i \in 1 .. m : gaps[i] >= 0
    <3> DEFINE g(i) == Since(arrivals[i + 1].ts, arrivals[i].ts)
    <3>1. \A i \in 1 .. m : g(i) \in Int /\ g(i) >= 0
      BY <2>4, Zenon
    <3>2. gaps = [i \in 1 .. m |-> g(i)]
      BY Zenon
    <3> HIDE DEF g, gaps
    <3> QED BY <2>3, <3>1, <3>2
  <2> QED BY <2>1, <2>5, Zenon
<1> QED BY <1>1, <1>2

LEMMA RingsType ==
  ASSUME GapsInv, NEW ring \in Rings
  PROVE  ring \in Seq(Int)
<1> DEFINE n == Len(iat_stats)
           low == Max({1, n - pool.seq_len + 1})
<1>1. iat_stats \in Seq(Int) /\ n \in Nat
  BY GapsAreSpans
<1>2. pool.seq_len \in Nat
  BY DEF GapsInv, IatInv, PoolInv, Pool
<1> HIDE DEF n
<1>3. low >= 1 /\ low \in Int
  <2> DEFINE x == n - pool.seq_len + 1
  <2>1. x \in Int /\ 1 \in Int
    BY <1>1, <1>2
  <2> HIDE DEF x
  <2>2. Max({1, x}) = IF 1 >= x THEN 1 ELSE x
    BY <2>1, MaxOfTwo, Zenon
  <2>3. Max({1, x}) >= 1 /\ Max({1, x}) \in Int
    BY <2>1, <2>2
  <2> QED BY <2>3 DEF x
<1>4. PICK k \in low .. n + 1 : ring = SubSeq(iat_stats, k, n)
  BY Zenon DEF Rings, n
<1> HIDE DEF low
<1>5. k \in Nat /\ 1 <= k
  BY <1>1, <1>3
<1> QED BY <1>1, <1>4, <1>5 DEF n

(* The section of the gaps, taken apart.                                   *)
LEMMA IatSectionIs ==
  ASSUME NEW ring, NEW max_len, IatSection(ring, max_len) # << >>
  PROVE  LET s == IatSection(ring, max_len)[1]
         IN  /\ ring # << >>
             /\ s.entropy = EntropyBins(ring) /\ s.ratio = IntervalRatio(ring)
             /\ s.sequence.mean = Mean(ring) /\ s.sequence.variance = Variance(ring)
             /\ s.sequence.min = Sorted(ring)[1] /\ s.sequence.max = Last(Sorted(ring))
<1> DEFINE m      == IatScratch(ring)
           seq    == m.front
           sorted == m.back.of
           sequence == [ mean |-> Mean(seq), variance |-> Variance(seq),
                         skew |-> Skewness(seq, Mean(seq), Variance(seq)),
                         min |-> sorted[1], max |-> Last(sorted),
                         quartiles |-> Quartiles(sorted) ]
           log == [log |-> m.back.log, stats |-> Summary(m.back.of)]
           r == [ entropy |-> EntropyBins(seq), autocorr |-> IatAutocorr(seq),
                  ratio |-> IntervalRatio(seq), sequence |-> sequence, log_sequence |-> log ]
<1>1. IatSection(ring, max_len) = << r >> /\ ring # << >>
  BY Zenon DEF IatSection
<1>2. seq = ring /\ sorted = Sorted(ring)
  <2> DEFINE loaded == IatScratchLoaded(ring)
             back == [log |-> FALSE, of |-> Sorted(loaded.front)]
  <2>1. m = [loaded EXCEPT !.back = back]
    BY Zenon DEF IatScratch
  <2>2. back.of = Sorted(loaded.front)
    OBVIOUS
  <2>3. \A x : [loaded EXCEPT !.back = x].front = ring /\ [loaded EXCEPT !.back = x].back = x
    BY DEF IatScratchLoaded
  <2>4. loaded.front = ring
    BY DEF IatScratchLoaded
  <2> HIDE DEF loaded, back, m
  <2>5. m.front = ring /\ m.back = back
    BY <2>1, <2>3, Zenon
  <2> QED BY <2>2, <2>4, <2>5, Zenon
<1> HIDE DEF m, log
<1>3. /\ sequence.mean = Mean(seq) /\ sequence.variance = Variance(seq)
      /\ sequence.min = sorted[1] /\ sequence.max = Last(sorted)
  <2> HIDE DEF seq, sorted
  <2> QED OBVIOUS
<1> HIDE DEF sequence
<1>4. r.entropy = EntropyBins(seq) /\ r.ratio = IntervalRatio(seq) /\ r.sequence = sequence
  <2> HIDE DEF seq, sorted
  <2> QED OBVIOUS
<1> HIDE DEF seq, sorted, r
<1>5. IatSection(ring, max_len)[1] = r
  <2>1. << r >>[1] = r
    OBVIOUS
  <2> QED BY <1>1, <2>1, Zenon
<1> QED BY <1>1, <1>2, <1>3, <1>4, <1>5, Zenon

(* The part of ReportsAgree about the gaps.                                *)
LEMMA GapReport == ASSUME GapsInv PROVE GapSectionsAgree
<1> SUFFICES ASSUME NEW ring \in Rings, IatSection(ring, TempLen(pool.seq_len)) # << >>
             PROVE  LET s == IatSection(ring, TempLen(pool.seq_len))[1]
                    IN  /\ ring = iat_stats =>
                             /\ s.sequence.mean = Moments(iat_stats).mean
                             /\ s.sequence.variance = Moments(iat_stats).variance
                             /\ Moments(iat_stats).min = Min({EmptyMin, s.sequence.min})
                             /\ s.sequence.max = Moments(iat_stats).max
                        /\ Len(ring) = 2 /\ ring[1] > 0 => s.ratio = Fraction(ring[2], ring[1])
                        /\ s.entropy # EmptyBag =>
                             /\ DOMAIN s.entropy \subseteq 0 .. 31
                             /\ Occurrences(s.entropy) = Len(ring)
  BY Zenon DEF GapSectionsAgree
<1> DEFINE s == IatSection(ring, TempLen(pool.seq_len))[1]
           n == Len(ring)
<1>1. /\ ring # << >>
      /\ s.entropy = EntropyBins(ring) /\ s.ratio = IntervalRatio(ring)
      /\ s.sequence.mean = Mean(ring) /\ s.sequence.variance = Variance(ring)
      /\ s.sequence.min = Sorted(ring)[1] /\ s.sequence.max = Last(Sorted(ring))
  BY IatSectionIs, Zenon
<1> HIDE DEF s
<1>2. ring \in Seq(Int) /\ n \in Nat /\ n # 0
  <2>1. ring \in Seq(Int)
    BY RingsType
  <2> QED BY <1>1, <2>1
<1> HIDE DEF n
<1> PICK sorted : sorted = Sorted(ring)
  OBVIOUS
<1>3. /\ Min(ToSet(ring)) = sorted[1] /\ Max(ToSet(ring)) = sorted[n]
      /\ sorted[1] \in Int /\ sorted[n] \in Int /\ Len(sorted) = n
      /\ s.sequence.min = sorted[1]
      /\ \A i \in 1 .. n : sorted[1] <= ring[i] /\ ring[i] <= sorted[n]
  BY <1>1, <1>2, SortedExtremes, Zenon DEF n
<1>4. s.sequence.max = sorted[n]
  BY <1>1, <1>3, Zenon DEF Last
<1>5. ASSUME ring = iat_stats
      PROVE  /\ s.sequence.mean = Moments(iat_stats).mean
             /\ s.sequence.variance = Moments(iat_stats).variance
             /\ Moments(iat_stats).min = Min({EmptyMin, s.sequence.min})
             /\ s.sequence.max = Moments(iat_stats).max
  <2>1. Moments(ring).mean = Mean(ring) /\ Moments(ring).variance = Variance(ring)
    BY <1>1 DEF Moments
  <2>2. /\ Moments(ring).min = Min({EmptyMin, sorted[1]})
        /\ sorted[n] >= EmptyMax => Moments(ring).max = sorted[n]
    <3>1. /\ Moments(ring).min = Min({EmptyMin, Min(ToSet(ring))})
          /\ Max(ToSet(ring)) >= EmptyMax => Moments(ring).max = Max(ToSet(ring))
      BY <1>2, MomentsBound, Zenon DEF n
    <3> QED BY <1>3, <3>1, Zenon
  <2>3. sorted[n] >= EmptyMax
    <3>1. 1 \in 1 .. n /\ ring[1] \in Int /\ ring[1] >= 0
      <4>1. 1 \in 1 .. n
        BY <1>2
      <4>2. ring[1] \in Int
        BY <1>2, <4>1, ElementsAreInts, Zenon DEF n
      <4> QED BY <1>5, <4>1, <4>2, GapsAreSpans, Zenon DEF n
    <3>2. ring[1] <= sorted[n]
      BY <1>3, <3>1, Zenon
    <3>3. EmptyMax \in Int /\ EmptyMax <= 0
      BY DEF EmptyMax
    <3>4. \A x, y, z \in Int : z <= 0 /\ x >= 0 /\ x <= y => y >= z
      OBVIOUS
    <3> QED BY <1>3, <3>1, <3>2, <3>3, <3>4, Zenon
  <2> QED BY <1>1, <1>3, <1>4, <1>5, <2>1, <2>2, <2>3, Zenon
<1>6. ASSUME Len(ring) = 2, ring[1] > 0 PROVE s.ratio = Fraction(ring[2], ring[1])
  <2>1. 1 \in 1 .. Len(ring)
    BY <1>6
  <2>2. ring[1] \in Int
    BY <1>2, <2>1, ElementsAreInts, Zenon
  <2>3. ring[1] \in Nat
    BY <1>6, <2>2
  <2> QED BY <1>1, <1>2, <1>6, <2>3, RatioOfTwo, Zenon
<1>7. ASSUME s.entropy # EmptyBag
      PROVE  DOMAIN s.entropy \subseteq 0 .. 31 /\ Occurrences(s.entropy) = Len(ring)
  <2>1. EntropyBins(ring) # EmptyBag
    BY <1>1, <1>7, Zenon
  <2>2. DOMAIN EntropyBins(ring) \subseteq 0 .. 31 /\ Occurrences(EntropyBins(ring)) = n
    BY <1>2, <2>1, EntropyBinsAddUp, Zenon DEF n
  <2> QED BY <1>1, <2>2, Zenon DEF n
<1> QED BY <1>5, <1>6, <1>7, Zenon DEF s
-----------------------------------------------------------------------------
(* What the sections of a report rest on: each part is kept by every       *)
(* packet, some of them with the help of others.                           *)
ReportsInv ==
  /\ LaterDurationsInv
  /\ BurstTotals
  /\ GapsInv
  /\ GapsKept
  /\ DelaysFit
  /\ FirstWindowInv
  /\ ActiveIdleInv

LEMMA ReportsInit == Init => ReportsInv
<1> SUFFICES ASSUME Init PROVE ReportsInv
  OBVIOUS
<1>1. GapsKept
  <2>1. dir_iats = [d \in Known |-> << >>]
    BY DEF Init, IatInit
  <2>2. \A d \in Known : Len(dir_iats[d]) = 0
    BY <2>1
  <2>3. \A d \in Known : 1 .. Len(dir_iats[d]) = {}
    BY <2>2
  <2> QED BY <2>3, Zenon DEF GapsKept, Among
<1>2. DelaysFit
  BY Zenon DEF Init, StreamInit, IatInit, DelaysFit
<1> QED BY <1>1, <1>2, LaterDurationsInit, BurstTotalsInit, GapsInit, FirstWindowInit,
           ActiveIdleInit DEF ReportsInv

LEMMA ReportsStep ==
  ASSUME MaxPackets <= UIntMax
  PROVE  ReportsInv /\ [Next]_vars => ReportsInv'
<1> SUFFICES ASSUME ReportsInv, [Next]_vars PROVE ReportsInv'
  OBVIOUS
<1>1. LaterDurationsInv' /\ GapsInv' /\ FirstWindowInv' /\ ActiveIdleInv'
  BY LaterDurationsNext, GapsNext, FirstWindowStep, ActiveIdleStep DEF ReportsInv
<1>2. CASE UNCHANGED vars
  <2>1. UNCHANGED << arrivals, last_arrival_us, bursts, burst_pkt_count, burst_byte_count,
                     dir_iats, dir_stats, last_req_ts, resp_delays >>
    BY <1>2, Zenon DEF vars, streamVars, burstVars, iatVars
  <2>2. BurstTotals'
    <3>1. BurstPackets' = BurstPackets /\ BurstSizes' = BurstSizes /\ Lengths' = Lengths
      BY <2>1, Zenon DEF BurstPackets, BurstSizes, Lengths
    <3> QED BY <2>1, <3>1, Zenon DEF ReportsInv, BurstTotals
  <2>3. GapsKept' /\ DelaysFit'
    BY <2>1, ZenonT(60) DEF ReportsInv, GapsKept, Among, DelaysFit, InOrder
  <2> QED BY <1>1, <2>2, <2>3, Zenon DEF ReportsInv
<1>3. ASSUME NEW p \in Packets, NEW allocated \in BOOLEAN, Data(p, allocated)
      PROVE  BurstTotals' /\ GapsKept' /\ DelaysFit'
  BY <1>3, BurstTotalsStep, GapsKeptStep, DelaysFitStep DEF ReportsInv
<1> QED BY <1>1, <1>2, <1>3, Zenon DEF ReportsInv, Next

(* What the derived features of a flow report in different sections is     *)
(* about the same packets, for every order of arrivals, every threshold    *)
(* and every growth of the pool: the gaps' statistics from the scratch     *)
(* buffer are the running ones, no mean rate of the bursts exceeds the     *)
(* peak, the shares of the windows add up to 1, and active, idle and       *)
(* response times fit the duration.                                        *)
THEOREM ReportsAreConsistent ==
  ASSUME MaxPackets <= UIntMax
  PROVE  Spec => []ReportsAgree
<1>1. ReportsInv => ReportsAgree
  <2> SUFFICES ASSUME ReportsInv, arrivals # << >>
               PROVE  GapSectionsAgree /\ BurstSectionAgrees /\ WindowSectionAgrees
                      /\ TimeSectionsAgree
    BY Zenon DEF ReportsAgree
  <2>1. GapSectionsAgree
    BY GapReport DEF ReportsInv
  <2>2. BurstSectionAgrees
    BY BurstReport DEF ReportsInv
  <2>3. WindowSectionAgrees
    <3>1. WindowsWellFormed /\ MinIsOfAValidWindow
      BY FirstWindowReports DEF ReportsInv, FirstWindowInv, WindowInv
    <3> QED BY <3>1, WindowReport
  <2>4. TimeSectionsAgree
    BY TimeReport DEF ReportsInv
  <2> QED BY <2>1, <2>2, <2>3, <2>4
<1>2. ReportsInv /\ [Next]_vars => ReportsInv'
  BY ReportsStep
<1> QED BY ReportsInit, <1>1, <1>2, PTL DEF Spec
=============================================================================

---------------------------- MODULE WindowStats ----------------------------
(***************************************************************************)
(* The time windows of a flow: calc_window_update and what                 *)
(* calc_derived_window takes from the counters, src/src/calc_window.cpp.   *)
(*                                                                         *)
(* Times are unsigned long long and counters unsigned int, so that the     *)
(* code's subtractions wrap and its casts truncate.                        *)
(***************************************************************************)
EXTENDS PacketStream

CONSTANT Second        \* microseconds per second

ASSUME SecondIsNat == Second \in Nat

VARIABLES
  window_start_us,
  current_window,
  window_pkt_counts,
  window_byte_counts,
  window_bitrate

windowVars == << window_start_us, current_window, window_pkt_counts,
                 window_byte_counts, window_bitrate >>

Window == 0 .. NumWindows - 1
-----------------------------------------------------------------------------
(* The mutant of Target that rounds up.                                    *)
LateTarget(start, ts) ==
  ((Since(ts, start) + cfg.window_size_us - 1) \div cfg.window_size_us) % (UIntMax + 1)

(* The window a packet belongs to.  A time before the start wraps around.  *)
Target(start, ts) == (Since(ts, start) \div cfg.window_size_us) % (UIntMax + 1)

(* The bitrate of a window with the given bytes, in bit/s.                 *)
Rate(bytes) == ((bytes * 8 * Second) \div cfg.window_size_us) % (UIntMax + 1)

(* The windows whose bitrate a packet for window `target' computes: those  *)
(* the flow had not reached so far.                                        *)
Measured(current, target) == {w \in Window : current <= w /\ w <= target}

(* The mutant of Advanced that does not stop behind the last window.       *)
AdvancedUncapped(current, target) ==
  IF current > target THEN current ELSE target + 1

(* Where current_window stands after the loop.                             *)
Advanced(current, target) ==
  IF current > target \/ current >= NumWindows THEN current
  ELSE IF target + 1 < NumWindows THEN target + 1 ELSE NumWindows

(* An unsigned counter per window.                                         *)
Added(counts, w, amount) == [counts EXCEPT ![w] = (@ + amount) % (UIntMax + 1)]

(* calc_window_update, when windows are wanted and have a size.            *)
WindowUpdate(p) ==
  LET first  == window_start_us = 0
      start  == IF first THEN p.ts ELSE window_start_us
      now    == IF first THEN 0 ELSE current_window
      target == Target(start, p.ts)
  IN  /\ window_start_us' = start
      /\ window_bitrate' =
           [w \in Window |-> IF w \in Measured(now, target)
                               THEN Rate(window_byte_counts[w])
                               ELSE window_bitrate[w]]
      /\ current_window' = Advanced(now, target)
      /\ IF target < NumWindows
           THEN /\ window_pkt_counts' = Added(window_pkt_counts, target, 1)
                /\ window_byte_counts' = Added(window_byte_counts, target, p.len)
           ELSE UNCHANGED << window_pkt_counts, window_byte_counts >>

WindowsOn == "need_window_update" \in cfg.on /\ cfg.window_size_us > 0

(* One packet's effect on the windows.                                     *)
WindowPacket(p) == IF WindowsOn THEN WindowUpdate(p) ELSE UNCHANGED windowVars

WindowInit ==
  /\ window_start_us = 0
  /\ current_window = 0
  /\ window_pkt_counts = [w \in Window |-> 0]
  /\ window_byte_counts = [w \in Window |-> 0]
  /\ window_bitrate = [w \in Window |-> 0]
-----------------------------------------------------------------------------
(* What calc_derived_window computes.                                      *)
ValidWindows == {w \in Window : window_pkt_counts[w] > 0}

WindowsWithBytes == {w \in Window : window_byte_counts[w] > 0}

(* The mutant of ReportedMin that starts from the last window.             *)
ReportedMinFromLast(counts) ==
  Min({counts[NumWindows - 1]} \cup {counts[w] : w \in {x \in Window : counts[x] > 0}})

(* window_packet_count_min: the loop starts from the first window's count, *)
(* whether it has packets or not, and then looks at the valid ones only.   *)
ReportedMin(counts) ==
  Min({counts[0]} \cup {counts[w] : w \in {x \in Window : counts[x] > 0}})
-----------------------------------------------------------------------------
WindowsWellFormed ==
  /\ window_start_us \in 0 .. LLongSpan - 1
  /\ current_window \in 0 .. NumWindows
  /\ window_pkt_counts \in [Window -> 0 .. UIntMax]
  /\ window_byte_counts \in [Window -> 0 .. UIntMax]
  /\ window_bitrate \in [Window -> 0 .. UIntMax]

(* The packets of window w, straight from the times: those at most one     *)
(* window size from where the window begins.                               *)
InWindow(w) ==
  {i \in 1 .. Len(arrivals) :
     /\ arrivals[i].ts >= arrivals[1].ts + w * cfg.window_size_us
     /\ arrivals[i].ts < arrivals[1].ts + (w + 1) * cfg.window_size_us }

(* Each window counts the packets and bytes that arrived in its time, in   *)
(* whatever order they come, and no packet that came before the first one  *)
(* or after the last window.                                               *)
WindowsMatchArrivals ==
  WindowsOn /\ arrivals # << >> =>
    \A w \in Window :
      /\ window_pkt_counts[w] = Cardinality(InWindow(w))
      /\ window_byte_counts[w] = BytesAt(InWindow(w)) % (UIntMax + 1)

(* The minimum calc_derived_window reports is that of a window with        *)
(* packets: its start value, the first window's count, is never 0.         *)
MinIsOfAValidWindow ==
  ValidWindows # {} =>
    /\ \E w \in ValidWindows : ReportedMin(window_pkt_counts) = window_pkt_counts[w]
    /\ \A w \in ValidWindows : ReportedMin(window_pkt_counts) <= window_pkt_counts[w]

(* calc_window.cpp:28, "the bitrate of the current window (bps)" is what   *)
(* the loop computes: while packets come in order, so that a window the    *)
(* flow has left gets no more bytes, its bitrate is that of its bytes.     *)
(* But the loop computes it once, on reaching the window and before the    *)
(* packet is counted: it is that of an empty window.                       *)
BitratesAreMeasured ==
  WindowsOn /\ InOrder =>
    \A w \in Window :
      w + 1 < current_window => window_bitrate[w] = Rate(window_byte_counts[w])
=============================================================================

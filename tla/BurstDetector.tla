--------------------------- MODULE BurstDetector ---------------------------
(***************************************************************************)
(* The bursts of a flow: calc_burst_update, src/src/calc_burst.cpp, with   *)
(* the interarrival time traffic_process hands it (ti_features.cpp         *)
(* 642-647).                                                               *)
(***************************************************************************)
EXTENDS PacketStream

CONSTANT BurstThreshold   \* burst_iat_threshold_us

ASSUME BurstThresholdIsNat == BurstThreshold \in Nat

VARIABLES
  burst_start_us,
  burst_byte_count,
  burst_pkt_count,
  bursts,             \* burst_sizes, _durations and _packet_counts, by burst
  burst_intervals,
  refused             \* history: bursts that found the arrays full

burstVars == << burst_start_us, burst_byte_count, burst_pkt_count, bursts,
                burst_intervals, refused >>

(* burst_iat, read before calc_iat_update moves last_arrival_us.           *)
BurstIat(ts) == IF last_arrival_us > 0 THEN Since(ts, last_arrival_us) ELSE 0
-----------------------------------------------------------------------------
(* The mutant of Continues that is strict about the threshold.             *)
ContinuesBelow(iat) == iat < BurstThreshold

Continues(iat) == iat <= BurstThreshold

(* The mutant of StartOfBurst that keeps the old start.                    *)
StartKept(start, ts) == start

(* burst_start_us when a new burst begins.                                 *)
StartOfBurst(start, ts) == ts

(* The mutant of Room that lets one burst too many in.                     *)
RoomForOneMore(count, capacity) == count <= capacity

(* burst_count < mem_pool->actual_seq_len.                                 *)
Room(count, capacity) == count < capacity

(* A burst that goes on.                                                   *)
BurstContinues(p) ==
  /\ Continues(BurstIat(p.ts))
  /\ burst_byte_count' = (burst_byte_count + p.len) % (UIntMax + 1)
  /\ burst_pkt_count' = (burst_pkt_count + 1) % (UIntMax + 1)
  /\ bursts' = Carried(bursts)
  /\ burst_intervals' = Carried(burst_intervals)
  /\ UNCHANGED << burst_start_us, refused >>

(* A gap: a burst of two packets or more is recorded, if there is room;    *)
(* from the second on this gap, which is the one behind it, is kept as the *)
(* interval of the burst before.                                           *)
BurstRestarts(p, capacity) ==
  LET closing == burst_pkt_count > 1
      kept    == closing /\ Room(Len(bursts), capacity)
      closed  == [ size     |-> burst_byte_count,
                   duration |-> Since(p.ts, burst_start_us),
                   packets  |-> burst_pkt_count ]
  IN  /\ ~Continues(BurstIat(p.ts))
      /\ bursts' = IF kept THEN Append(Carried(bursts), closed) ELSE Carried(bursts)
      /\ burst_intervals' = IF kept /\ bursts # << >>
                              THEN Append(Carried(burst_intervals), BurstIat(p.ts))
                              ELSE Carried(burst_intervals)
      /\ refused' = refused + (IF closing /\ ~kept THEN 1 ELSE 0)
      /\ burst_start_us' = StartOfBurst(burst_start_us, p.ts)
      /\ burst_byte_count' = p.len
      /\ burst_pkt_count' = 1

(* calc_burst_update for one packet, with arrays of `capacity' elements.   *)
(* It runs after calc_iat_update but on a gap taken before.                *)
BurstPacket(p, capacity) ==
  IF "enable_burst" \in cfg.on
    THEN BurstContinues(p) \/ BurstRestarts(p, capacity)
    ELSE UNCHANGED burstVars

BurstInit ==
  /\ burst_start_us = 0
  /\ burst_byte_count = 0
  /\ burst_pkt_count = 0
  /\ bursts = << >>
  /\ burst_intervals = << >>
  /\ refused = 0
-----------------------------------------------------------------------------
BurstsWellFormed ==
  /\ burst_start_us \in 0 .. LLongSpan - 1
  /\ burst_byte_count \in 0 .. UIntMax
  /\ burst_pkt_count \in 0 .. UIntMax
  /\ Len(bursts) <= pool.seq_len
  /\ Len(burst_intervals) = IF bursts = << >> THEN 0 ELSE Len(bursts) - 1

(* The packets i of the flow at which a new run begins: those that come    *)
(* more than the threshold after the one before.                           *)
Begins(i) ==
  i = 1 \/ Since(arrivals[i].ts, arrivals[i - 1].ts) > BurstThreshold

(* The closed runs of at least two packets: those another run follows.     *)
Runs ==
  {r \in [first : 1 .. Len(arrivals), last : 1 .. Len(arrivals)] :
     /\ r.first < r.last /\ r.last < Len(arrivals)
     /\ Begins(r.first) /\ Begins(r.last + 1)
     /\ \A k \in r.first + 1 .. r.last : ~Begins(k)}

(* The number of a run among the closed runs, from 1.                      *)
Number(r) == Cardinality({q \in Runs : q.first <= r.first})

(* The recorded bursts are the flow's maximal runs of packets close to     *)
(* each other, in order, except for runs of a single packet, for the run   *)
(* that is still open and for those that came while the arrays were full;  *)
(* across upgrades, and with time going backwards (a very large gap).      *)
BurstsAreRuns ==
  "enable_burst" \in cfg.on =>
    /\ Len(bursts) + refused = Cardinality(Runs)
    /\ refused = 0 => \A r \in Runs :
         LET burst == bursts[Number(r)]
         IN  /\ burst.packets = r.last - r.first + 1
             /\ burst.size = BytesAt(r.first .. r.last) % (UIntMax + 1)

(* From the second burst on, durations are those of disjoint spans of the  *)
(* flow's life (each runs up to the packet that closes the burst), so that *)
(* all of them together do not exceed it.                                  *)
LaterDurationsFit ==
  InOrder /\ Len(bursts) > 1 =>
    Total([i \in 1 .. Len(bursts) - 1 |-> bursts[i + 1].duration])
      <= last_arrival_us - arrivals[1].ts

(* README.md:199, avg_burst_duration is the mean duration of a burst: no   *)
(* burst lasts longer than the flow has.                                   *)
DurationsWithinFlow ==
  InOrder => \A i \in 1 .. Len(bursts) :
    bursts[i].duration <= last_arrival_us - arrivals[1].ts
=============================================================================

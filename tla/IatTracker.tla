----------------------------- MODULE IatTracker -----------------------------
(***************************************************************************)
(* The interarrival times of a flow: calc_iat_update,                      *)
(* calc_active_idle_time and calc_response_delay, src/src/calc_iat.cpp     *)
(* 103-191, as traffic_process calls them for each packet.                 *)
(*                                                                         *)
(* Running statistics stand for the samples they were given.  The ring of  *)
(* interarrival times is in FlowState.                                     *)
(***************************************************************************)
EXTENDS PacketStream

CONSTANT ActiveIat      \* active_iat_threshold_us

ASSUME ActiveIatIsNat == ActiveIat \in Nat

VARIABLES
  last_us,          \* last_fwd_us and last_bwd_us, by direction
  iat_stats,        \* the samples of the running statistics of all packets
  dir_stats,        \* those of fwd_iat and bwd_iat, by direction
  dir_iats,         \* fwd_iats and bwd_iats, by direction
  active_time_us,
  idle_time_us,
  last_req_ts,
  resp_delays       \* in microseconds

iatVars == << last_us, iat_stats, dir_stats, dir_iats, active_time_us, idle_time_us,
              last_req_ts, resp_delays >>

Known == {"fwd", "bwd"}
-----------------------------------------------------------------------------
(* The mutant of Kept that stores one element beyond the capacity.         *)
KeptPastEnd(seq, value, capacity) ==
  IF Len(seq) <= capacity THEN Append(seq, value) ELSE seq

(* An array with a count and a capacity: what does not fit is dropped.     *)
Kept(seq, value, capacity) ==
  IF Len(seq) < capacity THEN Append(seq, value) ELSE seq

(* The mutant of Seen that leaves the other direction's time behind.       *)
SeenByAll(ts, dir) == [d \in Known |-> IF dir \in Known THEN ts ELSE last_us[d]]

(* last_fwd_us and last_bwd_us after a packet.                             *)
Seen(ts, dir) == [d \in Known |-> IF d = dir THEN ts ELSE last_us[d]]

(* The statistics and the array of the packet's direction.                 *)
DirectionUpdate(ts, dir, capacity) ==
  LET iat     == Since(ts, last_us[dir])
      sampled == "need_fwd_bwd_iats" \in cfg.on /\ dir \in Known /\ last_us[dir] > 0
      carried == [d \in Known |-> Carried(dir_iats[d])]
  IN  /\ dir_stats' = IF sampled THEN [dir_stats EXCEPT ![dir] = Append(@, iat)]
                                 ELSE dir_stats
      /\ dir_iats' = IF sampled THEN [carried EXCEPT ![dir] = Kept(@, iat, capacity)]
                                ELSE carried

(* The mutant of ActiveIdle that drops the gap at the threshold.           *)
ActiveIdleButEqual(iat) ==
  /\ active_time_us' = IF "enable_iat_active" \in cfg.on /\ iat < ActiveIat
                         THEN (active_time_us + iat) % LLongSpan ELSE active_time_us
  /\ idle_time_us' = IF "enable_iat_active" \in cfg.on /\ iat > ActiveIat
                       THEN (idle_time_us + iat) % LLongSpan ELSE idle_time_us

(* calc_active_idle_time.                                                  *)
ActiveIdle(iat) ==
  /\ active_time_us' = IF "enable_iat_active" \in cfg.on /\ iat <= ActiveIat
                         THEN (active_time_us + iat) % LLongSpan ELSE active_time_us
  /\ idle_time_us' = IF "enable_iat_active" \in cfg.on /\ iat > ActiveIat
                       THEN (idle_time_us + iat) % LLongSpan ELSE idle_time_us

(* calc_iat_update: the flow's first packet only leaves its arrival time.  *)
IatUpdate(p, capacity) ==
  /\ last_arrival_us' = p.ts
  /\ IF last_arrival_us = 0
       THEN UNCHANGED << iat_stats, dir_stats, dir_iats, active_time_us, idle_time_us,
                         last_us >>
       ELSE LET iat == Since(p.ts, last_arrival_us)
            IN  /\ iat_stats' = IF "enable_iat_stats" \in cfg.on
                                  THEN Append(iat_stats, iat) ELSE iat_stats
                /\ DirectionUpdate(p.ts, p.dir, capacity)
                /\ ActiveIdle(iat)
                /\ last_us' = Seen(p.ts, p.dir)

(* The mutant of Requested that answers a request more than once.          *)
RequestedForGood(ts, dir) == IF dir = "fwd" THEN ts ELSE last_req_ts

(* last_req_ts after a packet: an answer clears the request.               *)
Requested(ts, dir) ==
  CASE dir = "fwd" -> ts
    [] dir = "bwd" -> 0
    [] OTHER       -> last_req_ts

(* calc_response_delay.                                                    *)
ResponseDelay(ts, dir) ==
  IF "enable_iat_response" \in cfg.on
    THEN /\ last_req_ts' = Requested(ts, dir)
         /\ resp_delays' = IF dir = "bwd" /\ last_req_ts > 0
                             THEN Kept(resp_delays, Since(ts, last_req_ts), RespDelays)
                             ELSE resp_delays
    ELSE UNCHANGED << last_req_ts, resp_delays >>

(* One packet's effect on what this module keeps.                          *)
IatPacket(p, capacity) ==
  /\ IatUpdate(p, capacity)
  /\ ResponseDelay(p.ts, p.dir)

IatInit ==
  /\ last_us = [d \in Known |-> 0]
  /\ iat_stats = << >>
  /\ dir_stats = [d \in Known |-> << >>]
  /\ dir_iats = [d \in Known |-> << >>]
  /\ active_time_us = 0
  /\ idle_time_us = 0
  /\ last_req_ts = 0
  /\ resp_delays = << >>
-----------------------------------------------------------------------------
IatWellFormed ==
  /\ last_arrival_us \in 0 .. LLongSpan - 1
  /\ last_us \in [Known -> 0 .. LLongSpan - 1]
  /\ active_time_us \in 0 .. LLongSpan - 1
  /\ idle_time_us \in 0 .. LLongSpan - 1
  /\ last_req_ts \in 0 .. LLongSpan - 1
  /\ \A d \in Known : Len(dir_iats[d]) <= pool.seq_len
  /\ Len(resp_delays) <= RespDelays

(* The packets of direction d in the flow without its first packet, and    *)
(* the pairs of them with no other in between.                             *)
Followers(d) == {i \in 2 .. Len(arrivals) : arrivals[i].dir = d}

Neighbours(d) ==
  {n \in Followers(d) \X Followers(d) :
     n[1] < n[2] /\ \A k \in Followers(d) : k <= n[1] \/ n[2] <= k}

(* The statistics of a direction are of the gaps between its consecutive   *)
(* packets, whatever the other direction does in between, except that the  *)
(* flow's first packet does not count as one of its direction's.  The      *)
(* array has the first of these gaps; only what is beyond the capacity of  *)
(* the smallest block can be dropped, or come after a hole.                *)
(* The flow's own statistics do count the first packet.                    *)
DirectionGaps ==
  /\ iat_stats = IF "enable_iat_stats" \in cfg.on
                   THEN [i \in 1 .. Max({Len(arrivals) - 1, 0}) |->
                           Since(arrivals[i + 1].ts, arrivals[i].ts)]
                   ELSE << >>
  /\ \A d \in Known :
       /\ Len(dir_stats[d]) = IF "need_fwd_bwd_iats" \in cfg.on
                                THEN Max({Cardinality(Followers(d)) - 1, 0}) ELSE 0
       /\ "need_fwd_bwd_iats" \in cfg.on => \A n \in Neighbours(d) :
            dir_stats[d][Rank(Followers(d), n[1])] = Since(arrivals[n[2]].ts, arrivals[n[1]].ts)
       /\ Len(dir_iats[d]) <= Len(dir_stats[d])
       /\ \A i \in 1 .. Len(dir_stats[d]) : i <= SeqLen[Tiny] =>
            i <= Len(dir_iats[d]) /\ dir_iats[d][i] = dir_stats[d][i]

(* Active and idle time together are the time from the flow's first packet *)
(* to its latest, whatever the directions and even when packets arrive out *)
(* of order: wrapped gaps cancel out.                                      *)
ActiveIdleCoverFlow ==
  "enable_iat_active" \in cfg.on /\ arrivals # << >> =>
    (active_time_us + idle_time_us) % LLongSpan = Since(Last(arrivals).ts, arrivals[1].ts)

(* The answers: backward packets that follow a forward one with nothing    *)
(* but packets of unknown direction in between.                            *)
Answers ==
  {a \in [at : 1 .. Len(arrivals), to : 1 .. Len(arrivals)] :
     /\ a.to < a.at
     /\ arrivals[a.to].dir = "fwd" /\ arrivals[a.at].dir = "bwd"
     /\ \A k \in a.to + 1 .. a.at - 1 : arrivals[k].dir = "unknown"}

(* Each response delay pairs an answer with its request: requests that are *)
(* repeated count from the last one, and answers that are repeated count   *)
(* once.  The first RespDelays answers are kept, in their order.           *)
ResponsesPair ==
  "enable_iat_response" \in cfg.on =>
    /\ Len(resp_delays) = Min({Cardinality(Answers), RespDelays})
    /\ \A a \in Answers :
         LET number == Cardinality({b \in Answers : b.at <= a.at})
         IN  number <= RespDelays =>
               resp_delays[number] = Since(arrivals[a.at].ts, arrivals[a.to].ts)
=============================================================================

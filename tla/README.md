# A verification project for ti_features

`ti_features` is a traffic plugin: a host process reassembles network flows and
calls the plugin for every packet; the plugin keeps a state for each flow,
feeds it with every packet, and when the flow closes derives some hundreds of
features from it, which it hands on as one JSON record (Kafka, log, a stream
bridge).  This directory holds TLA+ models of the plugin's state, of what it
computes from it and of the way of the record out, TLC configurations that check
them, and proofs that TLAPS checks.  All paths below are from the root of the
repository (`src/...`).

## 1. The system

### Components

| component | code | state | operations |
|---|---|---|---|
| flow state lifecycle | `src/src/ti_features.cpp` 151-357, 363-764; `feat_state.h` | `*pme`: one `flow_feature_state_t` per flow | `flow_state_init`, `traffic_process` on PENDING, DATA, CLOSE; `flow_state_destroy` |
| tiered memory pool | `utils/memory_pool.h` | one block per flow: 14 arrays, 13 ring storages, a temporary area; level, packet counter | `init_ex`, `check_upgrade`, `upgrade`, `alloc_temp`, `get_ring_buffer`, `destroy` |
| circular buffers | `utils/circular_buffer.cpp`; snapshot and rebind in `ti_features.cpp` 56-118 | data, capacity, count, head, tail, is_full | `init`, `push`, `get`, `get_array`, `clear`, `destroy`; capture and rebind at an upgrade |
| basic counters and lengths | `calc_basic.cpp` | counters, running statistics, first-N arrays per direction | per-packet updates, derived features |
| interarrival times | `calc_iat.cpp` | last times by direction, gaps, active and idle time, response delays | `calc_iat_update`, `calc_active_idle_time`, `calc_response_delay`, derived features |
| bursts | `calc_burst.cpp` | the open burst, arrays of closed ones | `calc_burst_update`, statistics |
| time windows | `calc_window.cpp` | start, current window, counters of 100 windows | `calc_window_update`, derived features |
| protocol counters | `calc_protocol.cpp` | TCP flags and sequence numbers, IP and port statistics | per-packet updates, derived features |
| payload, sequence, frequency and behaviour features | `calc_payload.cpp`, `calc_sequence.cpp`, `calc_freq_domain.cpp`, `utils/fft.cpp`, `calc_behavior.cpp` | none of their own but histograms | computed from rings and arrays at CLOSE |
| configuration | `feature_config.cpp`, `src/bin/ti_features.conf` | the global `g_feat_config`, written at start only | `feat_config_read`, `feat_config_destroy` |
| Kafka output | `KafkaProducer.cpp` | one client, one map of topic handles, for all threads | `SendData`, `Flush`, destructor |
| bridges | `ti_features.cpp` 709-745, 824-830, 927-1008 | strings on a stream, owned by the host | put SNI on ClientHello, get it at CLOSE, put the features at CLOSE |

### How they interact

The host calls `traffic_process` for a flow on one thread, in order; different
flows run on different threads and share nothing but `g_feat_config` (read-only
after start) and the Kafka producer.  PENDING creates the state and falls
through to DATA, so the first packet is counted too.  Every DATA call first asks
the pool whether the block is about to fill.  If so the rings are copied aside,
`flow_mem_pool_upgrade` allocates the block of the next level, copies the
arrays and frees the old one; `traffic_process` then fetches every pointer into
the block anew and rebinds the rings.  The updates of all calculators follow,
in an order that matters in one place (the gap for the bursts is read before
`calc_iat_update` moves `last_arrival_us`).  CLOSE computes the features,
releases everything and answers DROPME.

### What is hard here

There is no concurrency inside a flow, and little between flows.  What tests
would hardly reach is

* *partial failure*: each malloc of a new flow, of an upgrade, of each of
  thirteen snapshots may fail on its own, and several results are ignored;
* *stale pointers and capacities*: an upgrade invalidates every pointer into
  the block, three times in a flow's life and never before its 51st packet;
* *boundaries*: full rings, full arrays, thresholds, a temporary area of fixed
  size, unsigned differences of times that go backwards;
* *order in time*: packets that are out of order, first and last packets of a
  flow, bursts and windows that are still open at CLOSE;
* *two files that must agree*: collectors guarded by `need_*` flags and readers
  guarded by switches, in any of the settings of 39 switches;
* *the shared producer*: several threads in `SendData` without a lock, a queue at
  its limit, reports that wait for a poll, an end that does not wait long enough;
* *owners of strings*: copies given to bridges that may refuse them.

`PROJECT.json` lists these as `hazards`, each at its line, with the properties
that would catch it.

### What makes each component correct

* lifecycle: memory is released exactly when the state is forgotten; no
  pointer into a freed block; the tiers cannot be told from one large block;
* pool: regions disjoint, aligned and inside the block at every level; a level
  is left before it is full; a denied upgrade is tried again until it succeeds;
* rings: readers see the newest elements in order, at any capacity;
* windows, bursts, gaps: what is kept is a function of the packets' times that
  can be stated without the code's cursors, also for packets out of order;
* features: what a record says is what a direct definition over all packets says,
  or, where arrays or rings dropped packets, over those they kept;
* configuration: no section reads what nobody collected;
* outputs: each accepted record is settled, no call leaves what is settled untold,
  and a record is lost only with the plugin and only if it was recent; no string is
  used after it was freed.

## 2. Modules

```
NewestWindow            what a ring promises: the newest elements, at most `bound'
   ^ implemented by
SequenceRing --> CircularBuffer <--+
                                   FlowState          the life of a flow
PoolLife -----> MemoryPool <-------+

MemoryPool <-- PacketStream <-- WindowStats, BurstDetector, IatTracker
                                        ^
                                   FlowMeters <-- DerivedMeters      times
                                                       |
Statistics <-------------------------------------------+
   ^
LengthFeatures, ProtocolCounters, PayloadContent, SequenceFeatures, Spectrum
   ^
FlowRecord --> MemoryPool                             all other features

FeatureSwitches                                       the configuration

RecordFate              what the output stage promises
   ^ implemented by
FlowOutput --> KafkaProducer, StreamBridge --> PacketThreads
```

An arrow is EXTENDS.  `Sums`, which `PacketStream` and `Statistics` extend, has the
sums over a sequence and the rank of a number in a set.  A module `MC...` gives its
component constants that a .cfg cannot spell; a module `...Proofs` holds the theorems
of its component, and `UtilsProofs` the lemmas about rings, layout, sums, fractions,
sorting, means and bags that several of them rest on.

**Rings.**  `CircularBuffer` is the ring as a record and its operations as operators:
`data`, `head`, `tail`, `count`, `is_full` are the fields of
`circular_buffer_t`; unwritten cells hold `Junk`, so that a reader that is shown
one is noticed.  `Rebind` and `Snapshot` are the two halves of an upgrade's
move, the failed malloc of the snapshot included.  `NewestWindow` is the abstract
specification: a sequence and a bound.  `SequenceRing` gives one ring a life
(create, push, move, clear, destroy) and is shown to implement `NewestWindow`
with `window <- Contents(cb)` and `bound <- cb.capacity`.

**Pool.**  `MemoryPool` has the layout of the block in bytes, as functions of the
sequence length (`ArrayOffset`, `RingOffset`, `RingBudget`, `BlockSize`), and the
pool's operations on a record.  Sequence lengths, windows, delays, the temporary
size and the largest unsigned int are constants.  `PoolLife` is the pool of one
flow: set up, a packet (check and upgrade), temporary allocations, destruction.

**Life of a flow.**  `FlowState` composes rings and pool.  `flow` is what
`*pme` points to, `heap` and `blocks` are the allocations held, `verdict` is the
last answer to the host.  `Open` is PENDING without a state, `OpenFails` the
same with any malloc failing, `Data` a packet of a flow that has a state (any
subset of the snapshots of an upgrade may fail), `Close` CLOSE, `Unknown` DATA
or CLOSE without a state.  What a packet leaves in a sequence is abstracted to
its number in the flow and a pointer to the level of the block it points into;
`fed` and `offered` are histories of what was meant for each ring and array, and
`starved` remembers that an allocation of an upgrade failed.

**Times.**  `FlowMeters` composes the calculators that keep time, as the DATA
branch does.  `PacketStream` is what they share: the configuration, the pool,
whose length is the capacity of their arrays, `last_arrival_us`, and `arrivals`, a
history of all packets from which the properties say what a calculator should
have.  `WindowStats`, `BurstDetector` and `IatTracker` each have one operator for a
packet's call (`WindowPacket`, `BurstPacket`, `IatPacket`) and their variables;
`FlowMeters!Data` is one packet: the pool counts it and is upgraded when that is
due (or is denied the memory), then every calculator gets it.  What the burst
detector is given is the gap from `last_arrival_us` before `IatPacket` moves it.
Subtractions wrap at `LLongSpan` and casts to `unsigned int` at `UIntMax + 1`, as
in the code.  `cfg`, the switches that are on and the window size, is chosen at
the start and never changes.  `DerivedMeters` adds the sections of the record that
`calc_derived_iat`, `calc_burst_statistics`, `calc_derived_window` and
`calc_derived_behavior` make of this state, as operators of it, with the two
halves of the temporary area that `calc_derived_iat` writes and reads in turn.

**All other features.**  `FlowRecord` is one TCP flow over IPv4 with every switch
on: `Data` is what a packet adds (`LengthFeatures`, `ProtocolCounters`,
`PayloadContent` are its parts, with one operator for each update function of the
code), `Close` is `flow_state_compute_features`.  `SequenceFeatures` has
run lengths, the LZ78 parse, transitions, bigrams, composite, chunk and rate
sequences; `Spectrum` the transform, exactly in numbers a + b*sqrt(2);
`Statistics` the helpers they share, in exact fractions.  Sums and squares that the
code takes as `unsigned int` (the squares of lengths and of window counts, the sum of
two values in a median) wrap at `CountSpan` (2^32); its sums are doubles and do not.
Of more than eight samples `Spectrum` takes any magnitudes, since what ranks them
depends on nothing more.  The two callocs of the rate section may fail at `Close`
(`allocated`), and leave the section out.  A number of windows that is cut to 0 in 32
bits makes the code write outside what it allocated (`RatesInReach` excludes it from
the property; the model gives the empty lists of a process that survives).  A ring is
here the sequence
of its newest elements, which is what `SequenceRing` proves readers to see.  Which
upgrades get memory and which snapshots are lost is a constant of the run
(`Supplies`), chosen at the start.

**Configuration.**  `FeatureSwitches` puts two lists next to each other that the code
keeps in different files: for each group of data, the guard under which a packet
adds to it (`CollectedIf`, with the derived flags `Needs`), and for each section,
the groups it reads (`Reads`).  A behaviour is one flow under one configuration.

**Output.**  `FlowOutput` is the start of the plugin (`feat_config_read` as far as
it brings up outputs), the CLOSE branch on several packet threads, and the end of
the plugin.  `KafkaProducer` is `SendData` step by step (`sending`), the client's
queue, which is external (`record`, `age`, `Settle`, `Tick`), and the destructor's
flush.  `StreamBridge` has the strings of a thread's present stream (`heap`), the
pointers the host's bridges keep (`bridge`, external), the SNI of hellos and the
copy of the features; `Callbacks` are the bridges whose pointers the host frees at the
close of a stream (the plugin registers one for the SNI, and the registration for the
features is compiled out).  `RecordFate` is the abstract specification of the exporter:
a caller offers a record and is answered, the record being accepted or not; an answer
leaves nothing untold that is settled; accepted records are settled, no more of them
open than the queue admits; only closing, which waits for the callers, drops any.
`FlowOutput` implements it with `fate <- record`, `open <- (kafka = "open")` and, for
the callers that wait, the threads inside `SendData`.

## 3. Runs

| run | question | bounds | result |
|---|---|---|---|
| `seq_ring` | cursors agree; a ring implements the newest window | 3 values, capacities 1, 2, 3, 5 | holds |
| `pool_life` | layout, alignment, temporary area, upgrade threshold, retry; a flow that goes on reaches LARGE | levels 8/16/24/40, counter saturating at 43, 5 request sizes | holds |
| `flow_state` | lifecycle, pointers, leaks, contents, tiers | levels 2/4/5/6, 8 packets of two kinds, two rings | holds |
| `flow_meters` | windows, bursts, gaps, active and idle time, responses agree with the packets' times; sections of the record agree with each other | 7 kinds of packets at 5 times, 5 packets, thresholds and windows of 10, levels 1/6/7/8 with denials, all switches or two (222,490 states) | holds |
| `features` | lengths, TCP counters, payloads, sequences and frequencies are those of a direct definition | 5 kinds of packets repeated and reordered, 5 packets, levels 2/4/7/8, memory there, never, late, or but for two snapshots (31,244 states) | holds |
| `switches` | sections read what is collected, and nothing is collected in vain | one switch off, one switch on, or two sections on under all masters (13,104 states) | holds |
| `flow_output` | records, the unlocked topic map, a full queue, strings | 2 threads, 3 records, queue of 2, message time-out 4, flush 2, 2 hellos, 4 sets of outputs (79,373 states) | holds |
| `burst_duration` | README: mean duration of a burst | as `flow_meters` | violated by the first burst |
| `log_iat` | README: statistics of log(IAT) | as `flow_meters` | violated |
| `bitrates` | comment: computes the current window's bitrate | as `flow_meters` | violated by the first window that is left |
| `bridge_leak` | README: the copies on the feature bridge are freed with the stream | 2 threads, 1 record, both callbacks registered | violated by a put that is refused |
| `masters_off` | feature list: sub-switches of a master that is off take no effect | as `switches` | violated |

*Bounds.*  A ring of capacity 1 is full after each push and one
of 5 wraps with every residue of 3 values; a move goes from each fill state into
each larger capacity.  In `flow_state` the thresholds are 1, 3, 4, so that
upgrades are due with the first packet, after a failed one again, and a flow of
eight packets can overflow its rings at each level; one ring is fed by all
packets but the first, the other by half of them, so that they are never in the
same state.

In `flow_meters` the times include equal ones, a gap just at and one
above each threshold, both sides of a window's border and one beyond the last
window; packets come in every order of their times.  Five packets close two
bursts, overfill arrays of one element (a flow whose upgrade is denied keeps
those), fill the two response delays exactly (dropping at a full array is seen on
the gaps, which go through the same operator), and pass a window, skip one and
return to it.  `LLongSpan` = 128 is large enough that only times going backwards
wrap, and `TempSize` = 48 that a temporary buffer has three elements: flows of four
gaps find theirs too small, as flows of more than 512 do in the code.
`UIntMax` = 255 is never reached by counters, and the 32-bit cut of a window number
only by spans above 255 windows: the cut is modelled but these runs do not reach it
(`WindowsStayWellFormed` covers it).

In `features` five packets fill the first level of two elements, with a late
upgrade overfill it, wrap rings whose move failed, and never pass the eight samples
for which `Spectrum` is exact; a request, an answer, a reset of unknown direction and
repeated segments come in every order.  `CountSpan` = 256 lets the squares of its
longest packets wrap; twice a length stays below it, which is what the theorems ask of
lengths and any packet of less than 2 GB satisfies.  In `switches` every pair of sections is
once the only pair that is on, so that a datum has each pair of them as its only
readers; all other settings are covered by the proofs.  In `flow_output` two
threads with three records meet a queue of two that is full and refuses the third,
and the flush is shorter than the message time-out, as in the code (5 s and 10 s).

Deadlock is not checked where the number of packets is bounded (`MaxPackets`, a
bound and not part of the code), where one flow is followed to its end
(`switches`), and where the plugin may end (`flow_output`).  `PoolLife` and
`SequenceRing` have no such bound and are checked for deadlock.

*Fairness.*  `PoolLife!FairSpec` asks for strong fairness of a packet that gets
its memory.  Packets keep coming as long as the flow lives (otherwise the host
closes it, which the property allows) and malloc does not fail for ever, which
is an assumption about the machine; it may fail any finite number of times in a
row.  Weak fairness would not do: destruction and failure may disable the action
in between.  `FlowOutput!Spec` asks for weak fairness only: the client settles a
record it holds (it has a thread and a time-out for that), a handler that began
runs to its end (the host's threads are not stopped inside a call), time passes,
and a flush that may return does.  Nothing makes the host open or close streams, or
end the plugin: `QueueDrains` therefore has "as long as threads keep producing"
for premise.  `FlowState`, `FlowMeters`, `FlowRecord` and `FeatureSwitches` state no
fairness; their properties are about what steps may do.

## 4. What the violations mean

Each is a disagreement between a document or comment and the code, quoted under
`findings`.

* `burst_duration`: the first burst of a flow has its absolute time as duration,
  which dominates `avg_burst_duration`.
* `log_iat`: the sorted copy of the gaps overwrites their logarithms, which share the
  temporary area, before the statistics `log_iat_sequence_*` are taken.
* `bitrates`: the loop that steps over the windows computes a window's bitrate on
  reaching it, before the first packet is counted there, and not again.  Every bitrate
  is 0 in every flow (`BitratesAreNeverMeasured`), and so are `peak_bitrate` and the
  bitrate statistics that `README.md` 180-183 and `docs/feature_module_list.md` 874-892
  list as maxima, means and percentiles.
* `bridge_leak`: nobody looks at the result of putting the copy on the feature bridge,
  so that a copy the bridge refuses is never freed; the SNI handlers do look.  The run
  grants the callback that `README.md` 492 says is registered.  The code does not
  register it (`feature_config.cpp` 230-254 is compiled out), so that without the help
  of the bridge's builder every copy is left.
* `masters_off`: the packet branch and the `need_*` flags look at sub-switches without
  their master (only first-N, payload by direction and gaps by direction look at both),
  so that a module that is off still costs its work on each packet, for nothing.  The
  same section of the feature list says that the load warns of this (:129); it does
  not for `enable_window` and `enable_behavior` (`feature_config.cpp` 404-448).

Other things met while modelling, for which there is no run:

* `running_stats_update` lacks a term of M3, 3 * delta * M2 / n with M2 as it was, and
  has another in its place (`feature_stats.h` 48), so that no skewness from running
  statistics is right although `README.md` 377 names it.  `Sampled` has the code's
  update, and `StatisticsAgree` is about means and variances;
* packets of length 0 are recorded when the host gives no raw packet and the packet has
  no payload (`ti_features.cpp` 405-414).  A window of such packets only is counted as
  valid, but the loop of `calc_window.cpp` 136 that fills an array of as many elements
  skips it: elements that were never assigned are sorted with the others.
  `WindowQuartiles` has unknown values there;
* `docs/feature_module_list.md` 148 says that `enable_raw_sequences` needs
  `need_ts_seq`; neither the code nor line 103 of that document has it so, and the
  section does not read the times;
* a second hello with a name leaves the string of the first one allocated: the bridge
  keeps the later pointer, and nobody the earlier (`ti_features.cpp` 956, 998 free only
  what was refused);
* squares of window byte counts above 65535 wrap (`calc_window.cpp` 140), so that the
  reported deviation of a fast flow's windows is wrong or no number;
* the interval kept with a burst is the gap behind it, not before it, and the
  burstiness index of a flow with two bursts is 0.0/0.0;
* the first gap of the direction of a flow's first packet is never sampled;
* the block of a TINY flow has 25408 bytes, where `README.md` says about 12 KB;
* a packet of exactly the large threshold is large for the counters and medium for
  the size classes;
* the first bigram of every flow follows a packet that was not there, of the
  smallest class (`ti_features.cpp` 189);
* three kinds of pairs of section and datum (`KnownGaps`) are read without being
  collected when other switches are off, and show as zeros or as an empty
  minimum's 1e18.  Of these the feature list names that of the ports only (:152).

## 5. Proofs

TLC checks small instances; the theorems hold for every value of the constants
that satisfies the named assumptions (`SeqLenGrows`, `PoolSizes`,
`CapacitiesArePositive`, `FlowConstants`, `StreamConstants`, `SecondIsNat`,
`BurstThresholdIsNat`, `ActiveIatIsNat`, `TimeoutsAssumption`,
`MaxHellosAssumption`, `CallbacksAssumption`, `ConfigurationsAssumption`,
`SwitchConstants`, `CountSpanAssumption`, `CountsAreUnsigned`, `RecordConstants`), which
the runs evaluate.

* `UtilsProofs`, rings: `WellFormed` says that the cursors agree (head is tail
  plus count modulo capacity, `is_full` iff count = capacity, the occupied slots
  hold values).  It is kept by `Fresh`, `Push`, `Clear` and `Rebind`, and
  `PushContents` says what a push does to what readers see: append, dropping the
  oldest when full.  The arithmetic of the modulo is isolated in `Wrap`,
  `WrapSum` and `Advance`.  Layout: the offsets as sums, from which regions, their
  order and their alignment follow; no state.  Sums: the properties are stated with
  the folds of the community modules, whose values for every input are a matter of
  induction.  The induction is done on a set: `InductiveSet` says that a set of
  naturals with 0 and every successor has them all, and a lemma shows so of the set
  of the lengths of prefixes for which it holds.  `TotalOfAppend`, `TotalOfBump`
  (one element changes), `TotalByClass` (the sums of the classes of a partition add
  up) and `FoldsExist` (what a fold goes through) come of it, and `RanksIn` and
  `RanksKept` of cardinalities.

  Numbers: `GcdIs` shows that the recursive function `gcd` computes a greatest
  common divisor, and `FractionValue`, `PlusValue`, `TimesValue` and `AtMostValue` that
  the operators on fractions compute the values they are named for, in lowest terms, so
  that equal values are equal fractions.  `GreaterOrders` says that comparing numbers
  a + b*sqrt(2) by squaring is a strict order, which rests on the irrationality of the
  root (`NoRootOfTwo`).  Sorting: `SortedOrders` says of insertion what rank each
  element of the result has, from which `UintQuartilesAscend` (the quartiles ascend
  between the extremes) and `LeastOfRank` follow; `TopKRanks` is the insertion of
  `fft_get_top_k`, which keeps the strongest, each once, in order.  Moments:
  `MomentsGrow` shows that Welford's update keeps the exact sum of squares about the
  mean, whose variance `MomentsTell` compares with that of the definition.  Bags:
  `BagOfBoth` adds histograms up, and `CountsAddUp` sums one up.
* `SequenceRingProofs`: `RingStaysWellFormed`, inductive as it stands, and
  `RingImplementsWindow`: each action maps to an action of `NewestWindow` or to
  a stutter (a push without storage, a failed creation).  A move whose snapshot
  failed maps to widening with an empty window.
* `PoolLifeProofs`: `PoolStaysWellFormed` is inductive; layout and alignment
  follow from it for each state.  `PoolKeepsUp` needs more than the property: a
  pool that was never denied has not reached its threshold after any call, and
  the threshold is below the length.  `DenialStaysRemembered` is an action
  property; `TempsStayDisjoint` strengthens disjointness by the order of the
  offsets.
* `FlowStateProofs`: the inductive invariant is `FlowInv`: with a state, the
  five parts of `SoundFlow` (sizes agree with the level; every pointer is in the
  present block; each ring shows a suffix of what it was fed; nothing is lost
  before the first failure; no array is fuller than the packets seen, which is
  what keeps arrays from overflowing before an upgrade) and the exact set of
  allocations.  None of the five checked properties is inductive alone:
  transparency needs that the pool is ahead of the packets, and pointers need
  the set of blocks.  An upgrade is treated in two steps, the move and then the
  packet.
* `FlowMetersProofs`: `WindowInv` says that windows the flow has not reached are
  empty, and that a flow without a first packet is in its first window.  From it
  follows the extent of what the run `bitrates` shows (`BitratesAreNeverMeasured`: no
  flow has a bitrate), which no run checks as a property, because it should not be so.  `MinStaysOfAValidWindow` adds that no count
  exceeds the number of packets, so that in a flow of fewer than 2^32 packets (an
  assumption of the theorem) the first window's count, once positive, stays so.
  `ActiveAndIdleAddUp` strengthens the
  property by what the gaps are measured from: `last_arrival_us` is the time of
  the latest packet, and before the first packet nothing has been counted.  The
  arithmetic is apart: numbers a multiple apart have the same remainder
  (`RestOfMultiple`), so gaps taken modulo the width still add up (`GapAdds`).
  `BurstsStayWellFormed` and `IatsStayWellFormed` rest on `PoolNeverShrinks`: an
  upgrade that copies `min(count, old length)` elements loses none, and what fits the
  old block fits the new one.

  Five theorems relate what is kept to the history of all packets.
  `WindowsCountArrivals`: each window has counted the packets whose number it is
  (`WindowCountsInv`), and those beyond the last window are counted nowhere; a packet
  changes one term of a sum.  It is stated for flows of
  fewer than 2^32 packets and for times whose window number does not pass 32 bits
  (`WindowsInReach`): beyond them the casts of the code wrap and the property is
  false of it.  `BurstsRecordRuns`: the open burst is the run that the latest packet is in
  (`OpenRun`), and what was closed before was recorded or refused by a full array
  (`RunsRecorded`).  `LaterBurstsFit`: recorded durations and the open burst end
  before the latest packet, and start after the packet that closed the first one
  (`LaterDurationsInv`).  `ResponsesArePaired`: the pending request is the latest
  (`ResponsesInv`).  `GapsFollowDirections`: the time kept of a direction is that of
  its latest packet after the flow's first, the count is that of the gaps so far, and
  the array has the first of them (`GapsInv`); that none is missing while they fit
  the smallest block needs that no level is shorter (`SmallestLevel`).

  `ReportsAreConsistent` is about what is reported of this state.  Its invariant
  `ReportsInv` puts `LaterDurationsInv`, `GapsInv`, `FirstWindowInv` and `ActiveIdleInv`
  together with three more parts: the recorded bursts and the open one have no more
  packets and bytes than arrived (`BurstTotals`), the array of a direction has only
  gaps that its running statistics have seen (`GapsKept`), and the pending request and
  the delays lie within the flow while its packets come in order (`DelaysFit`).  The rest
  is one lemma per section (`GapReport`, `BurstReport`, `WindowReport`, `TimeReport`) on
  facts of exact fractions: a mean lies between the extremes (`MeanWithin`), the sum of
  ratios of one denominator is the ratio of the sum, no mean rate passes the largest rate.
  The report's minimum is compared with the running one under `Min({EmptyMin, ...})`,
  since the latter starts from a constant of the code that a sample may exceed.  That a
  flow has fewer than 2^32 packets is needed for the windows' minimum and for
  the counts of a burst, which are 32 bits wide.
* `FlowRecordProofs`: `TcpCountsAgree` rests on `TcpInv`, which says that the
  sequence number kept of a direction is that of its latest payload and the time kept
  of resets that of the latest reset.

  `LengthsAreExact` rests on `LengthsInv`.  `RoomInv`: a block never shrinks, and a flow that was
  never denied memory has, below the largest level, room for more packets than
  it has, so that its arrays drop nothing before that level and nothing is kept
  after what was dropped.  `ArrayInv`: an array as long as the direction has packets sums up
  to the direction's bytes; one that is shorter was full once, and the packets it has are
  the first ones while no request was denied.  `HasExtremes`: the running minimum and
  maximum are lengths of packets and bound them, whatever the array dropped.

  `SequencesStayAligned` rests on `SequencesInv`: while no snapshot was lost, the rings that take
  an element of each packet hold the same number of the newest packets, and the ring of
  gaps all gaps until the first packet is dropped (`RingsHold`).  The report is then a
  matter of the operators alone: the definition of a fold is unfolded
  (`RunsUnfold`, `ChunksUnfold`) and what it goes through keeps a sum
  (`RunsCountAll`, `ChunksCountAll`); the rates are sums by window
  (`RatesCountAll`).  The rates' clause has a premise, `RatesInReach`: the number of
  windows is cut to 32 bits, and a multiple of 2^32 gives a report without rates.

  `TopFrequenciesAreStrongest` needs of a flow only that its rings are sequences of
  numbers (`RingOfLengths`, part of `FrequencyInv`), and holds for blocks of any size: the
  ranking (`TopKRanks`, `SpectrumRanked`) is by whatever magnitudes there are, exact ones
  up to eight samples and any non-negative ones beyond.  The five bigrams are what five rounds of an exchange sort leave
  in front (`RankedTo`, `RoundRanks`).

  `StatisticsAreExact` rests on `StatisticsInv`: for each direction, the running
  statistics are the moments of the lengths seen so far and bound what the array holds
  (`LensSeen`), and what is kept of payloads is that of all sizes and of all bytes one
  behind the other (`PayloadSeen`).  `HistoryGrows` unfolds the history by one packet.
  There is no hypothesis on memory: what the pool denies costs elements of the array, and
  the array's values still occur among the lengths, no oftener than there.
* `FeatureSwitchesProofs`: the invariant says that what a flow has collected is what
  its packets offered and the guards admit (`SwitchesInv`).  The rest is about the
  switches alone: `FedAre` reduces each guard, through the derived flags, to the
  configuration; `SectionIsFed` goes through the sections master by master;
  `FedIsRead` goes through the data and finds a section that reads each, which
  `OnIsReached` says is in the record where no master overrides a switch.
* `FlowOutputProofs`: the inductive invariant `OutputInv` says where each thread may
  be in `SendData` (nowhere but in traffic with Kafka on, and past the lookup only with
  the topic in the map: `ThreadPlaces`), which phase goes with which handle
  (`ClientPlaces`) and what the age of a record in each state may be
  (`RecordPlaces`); the three safety properties of the producer and the step
  simulation `ExporterKeepsPromise` follow from it.  `StringInv` says of each stage
  of a thread which strings exist and who keeps them.

Only model-checked: liveness (`ReachesLargest`, `QueueDrains`, and the fairness
part of `PromiseKept`), which is beyond the prover.  Every safety property that a
passing run checks is a theorem, but for hypotheses named above.  The violations
concern particular values and need no proof.

## 6. What is not modelled, and what is left

Not modelled:

* logarithms, roots, sums of magnitudes, the fourth moment and the kurtosis,
  Hurst's exponent, the periodicity, the compression ratio, statistics of single
  byte values: floating-point data without control.  Standard deviations stand as
  variances, entropies as the counts they are taken of;
* the text of the record (the order and names of its fields, the printing of
  sequences), logging, parsing of packets, the file format of the configuration,
  which the host's library reads, and the build;
* the host's framework and librdkafka, which are environments: `FlowState` and
  `FlowOutput` take from them what the calls in `src/` use.  Whether the feature
  bridge's builder registers a free callback is a constant of the model (`Callbacks`);
* packets without a time (`get_rawpkt_opt` fails): listed as a hazard;
* UDP flows in `FlowRecord`: they differ by one ring and one section, and occur in
  `FlowState` and `FeatureSwitches`.

What would come next:

1. UDP flows and packets of time 0 in `FlowRecord` and `FlowMeters`;
2. the packet's parts of `FlowRecord` refined by the rings of `SequenceRing` instead
   of their proven contents;
3. the statistics that are still left out, where an exact form exists (the fourth
   moment).

--------------------------- MODULE PayloadContent ---------------------------
(* What is kept of the bytes of a flow's payloads, as operators on a       *)
(* record: calc_payload_stats and calc_payload_magic of                    *)
(* src/src/calc_basic.cpp, the tests of src/src/calc_payload.cpp, and what *)
(* it reports.  A payload is a sequence of bytes.  A histogram is a bag.   *)
(* Entropies, the compression ratio, the autocorrelation and the running   *)
(* statistics of single byte values are left out.                          *)
EXTENDS Statistics

CONSTANT FirstBytes     \* sizeof payload_first_bytes

NoLength == -1

NoPayload ==
  [ last_len |-> NoLength, size_stats |-> NoSamples, diff_stats |-> NoSamples,
    mod_stats |-> [i \in 1 .. 8 |-> NoSamples], total |-> 0, non_empty |-> 0,
    printable |-> 0, alnum |-> 0, first |-> <<>>, hist |-> EmptyBag, hist_full |-> EmptyBag,
    looks |-> {}, magic |-> {} ]

Passed(tests) == {test \in DOMAIN tests : tests[test]}

GET  == <<71, 69, 84, 32>>
POST == <<80, 79, 83, 84, 32>>
PUT  == <<80, 85, 84, 32>>
HEAD == <<72, 69, 65, 68, 32>>
HTTP == <<72, 84, 84, 80>>
SSH  == <<83, 83, 72, 45>>

(* The tests payload_looks_like_x that a payload passes.                   *)
LooksLike(bytes) ==
  LET n == Len(bytes)
  IN  Passed(
        [ http |-> \E word \in {GET, POST, PUT, HEAD, HTTP} : IsPrefix(word, bytes),
          json |-> n >= 2 /\ bytes[1] \in {123, 91} /\ bytes[n] \in {125, 93},
          xml  |-> n >= 5 /\ bytes[1] = 60,
          tls  |-> n >= 3 /\ bytes[1] \in 21 .. 23 /\ bytes[2] = 3,
          ssh  |-> n >= 4 /\ (IsPrefix(SSH, bytes) \/ (bytes[1] < 200 /\ bytes[2] < 10)) ])

(* calc_payload_magic: the marks set by a payload of four bytes or more.   *)
MagicOf(bytes) ==
  LET tls(versions) == IsPrefix(<<22, 3>>, bytes) /\ bytes[3] \in versions
  IN  IF Len(bytes) < 4 THEN {}
      ELSE Passed(
        [ http_get  |-> IsPrefix(GET, bytes),
          http_post |-> IsPrefix(POST, bytes),
          tls_1_0   |-> tls({0, 1}),
          tls_1_1   |-> tls({2}),
          tls_1_2   |-> tls({3}),
          tls_1_3   |-> tls({4}),
          ssh       |-> IsPrefix(SSH, bytes),
          jpeg      |-> IsPrefix(<<255, 216>>, bytes),
          png       |-> IsPrefix(<<137, 80, 78, 71>>, bytes),
          gif       |-> /\ Len(bytes) >= 6 /\ IsPrefix(<<71, 73, 70, 56>>, bytes)
                        /\ bytes[5] \in {55, 57} /\ bytes[6] = 97 ])

Printable == 32 .. 126
Alnum == (48 .. 57) \cup (65 .. 90) \cup (97 .. 122)

HowMany(bytes, class) == Len(SelectSeq(bytes, LAMBDA b : b \in class))

(* The change of size to the payload before, if there was one.             *)
SizeChange(c, bytes) == Abs(Len(bytes) - c.last_len)

(* calc_payload_magic, then calc_payload_stats, of a payload that is not   *)
(* empty; the size and its change also go to a ring each.                  *)
PayloadUpdate(c, bytes) ==
  LET n == Len(bytes)
  IN  [ last_len   |-> n,
        size_stats |-> Sampled(c.size_stats, n),
        diff_stats |-> IF c.last_len = NoLength THEN c.diff_stats
                       ELSE Sampled(c.diff_stats, SizeChange(c, bytes)),
        mod_stats  |-> [i \in 1 .. 8 |-> Sampled(c.mod_stats[i], n % 2 ^ i)],
        total      |-> c.total + n,
        non_empty  |-> c.non_empty + 1,
        printable  |-> c.printable + HowMany(bytes, Printable),
        alnum      |-> c.alnum + HowMany(bytes, Alnum),
        first      |-> SubSeq(c.first \o bytes, 1, Min({FirstBytes, Len(c.first) + n})),
        hist       |-> c.hist (+) BagOf([i \in 1 .. n |-> bytes[i] \div 16]),
        hist_full  |-> c.hist_full (+) BagOf(bytes),
        looks      |-> c.looks \cup LooksLike(bytes),
        magic      |-> c.magic \cup MagicOf(bytes) ]
-----------------------------------------------------------------------------
(* The bytes a histogram has counted, and those at most as large as one.   *)
BytesIn(hist) == MapThenSumSet(LAMBDA b : hist[b], DOMAIN hist)
UpTo(hist, byte) == MapThenSumSet(LAMBDA b : hist[b], {b \in DOMAIN hist : b <= byte})

(* The byte up to which lie more than a part of the others: the quartiles  *)
(* calc_derived_payload walks through the histogram for.                   *)
HistQuantile(hist, percent) ==
  LET threshold == (percent * (BytesIn(hist) - 1)) \div 100
  IN  Min({b \in DOMAIN hist : UpTo(hist, b) > threshold})

HistQuartiles(hist) ==
  IF hist = EmptyBag THEN <<0, 0, 0>>
  ELSE <<HistQuantile(hist, 25), HistQuantile(hist, 50), HistQuantile(hist, 75)>>

(* calc_derived_payload, of a flow of `packets' packets and with the two   *)
(* rings of sizes and their changes.                                       *)
PayloadSections(c, sizes, changes, packets) ==
  [ size    |-> SampledSection(c.size_stats, sizes),
    change  |-> IF c.diff_stats.count = 0 THEN <<>>
                ELSE <<SampledSection(c.diff_stats, changes)>>,
    printable_ratio |-> Ratio(c.printable, c.total),
    alnum_ratio     |-> Ratio(c.alnum, c.total),
    non_empty_ratio |-> Ratio(c.non_empty, packets),
    hist    |-> [bin \in DOMAIN c.hist |-> Fraction(c.hist[bin], BytesIn(c.hist))],
    bytes   |-> HistQuartiles(c.hist_full),
    magic   |-> IF c.non_empty > 0 /\ c.magic = {} THEN {"unknown"} ELSE c.magic,
    looks   |-> c.looks,
    mods    |-> [i \in 1 .. 8 |-> << c.mod_stats[i].mean, RunningVariance(c.mod_stats[i]) >>] ]
=============================================================================

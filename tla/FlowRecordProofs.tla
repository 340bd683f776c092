-------------------------- MODULE FlowRecordProofs --------------------------
(***************************************************************************)
(* Proofs about FlowRecord, for every set of packets and every supply of   *)
(* memory: what calc_protocol_tcp_update counts agrees with the packets,   *)
(* what the report keeps of lengths is exact, the sequences that it cuts   *)
(* account for the same packets, the frequencies and bigrams it names are  *)
(* the strongest, and the statistics are those of all packets.             *)
(***************************************************************************)
EXTENDS FlowRecord, UtilsProofs

(* What calc_run_length comes to, by the definition of FoldLeft.           *)
NextRun(s, pair) == IF pair[1] = pair[2] THEN [s EXCEPT !.cur = @ + 1]
                    ELSE [runs |-> Append(s.runs, s.cur), cur |-> 1]

LEMMA RunsUnfold ==
  ASSUME NEW seq
  PROVE  LET base == [runs |-> <<>>, cur |-> 1]
             D == DOMAIN Pairs(seq)
             scan == (CHOOSE it : it = [S \in SUBSET D |->
                        IF S = {} THEN base ELSE NextRun(it[S \ {Max(S)}], Pairs(seq)[Max(S)])])[D]
         IN  RunLengths(seq) = Append(scan.runs, scan.cur)
BY DEF RunLengths, FoldLeft, MapThenFoldSet, NextRun

NextChunk(s, breaks, len) == IF breaks THEN [done |-> Append(s.done, s.cur), cur |-> len]
                             ELSE [s EXCEPT !.cur = @ + len]

LEMMA ChunksUnfold ==
  ASSUME NEW times, NEW lens, NEW dirs
  PROVE  LET breaks(i) == \/ dirs[i] # dirs[i - 1]
                          \/ (times[i] - times[i - 1]) % TimeSpan > ChunkGap
             base == [done |-> <<>>, cur |-> lens[1]]
             at == [i \in 1 .. Len(times) - 1 |-> i + 1]
             D == DOMAIN at
             scan == (CHOOSE it : it = [S \in SUBSET D |->
                        IF S = {} THEN base
                        ELSE NextChunk(it[S \ {Max(S)}], breaks(at[Max(S)]), lens[at[Max(S)]])])[D]
         IN  Chunks(times, lens, dirs)
               = IF scan.cur > 0 THEN Append(scan.done, scan.cur) ELSE scan.done
BY DEF Chunks, FoldLeft, MapThenFoldSet, NextChunk

(* Every element of the sequence is in one run.                            *)
LEMMA RunsCountAll ==
  ASSUME NEW seq \in Seq(Int), seq # << >> PROVE Total(RunLengths(seq)) = Len(seq)
<1> DEFINE base == [runs |-> <<>>, cur |-> 1]
           State == [runs : Seq(Int), cur : Int]
<1>1. PICK m \in Nat : m + 1 = Len(seq)
  <2>1. Len(seq) - 1 \in Nat /\ (Len(seq) - 1) + 1 = Len(seq)
    OBVIOUS
  <2> QED BY <2>1
<1>2. DOMAIN Pairs(seq) = 1 .. m
  BY <1>1 DEF Pairs
<1>3. base \in State
  OBVIOUS
<1> DEFINE next(s, i) == NextRun(s, Pairs(seq)[i])
<1>4. \A s \in State : \A i \in 1 .. m :
        /\ next(s, i) \in State
        /\ Total(next(s, i).runs) + next(s, i).cur = Total(s.runs) + s.cur + 1
  <2> TAKE s \in State
  <2> TAKE i \in 1 .. m
  <2>1. s.runs \in Seq(Int) /\ s.cur \in Int
    OBVIOUS
  <2>2. Total(s.runs) \in Int /\ Total(Append(s.runs, s.cur)) = Total(s.runs) + s.cur
    BY <2>1, TotalOfAppend
  <2>3. CASE Pairs(seq)[i][1] = Pairs(seq)[i][2]
    <3>1. next(s, i) = [s EXCEPT !.cur = @ + 1]
      BY <2>3 DEF NextRun
    <3>2. next(s, i) = [runs |-> s.runs, cur |-> s.cur + 1]
      <4>1. s = [runs |-> s.runs, cur |-> s.cur]
        OBVIOUS
      <4> QED BY <3>1, <4>1
    <3> HIDE DEF next
    <3>3. next(s, i).runs = s.runs /\ next(s, i).cur = s.cur + 1
      BY <3>2
    <3>4. next(s, i) \in State
      BY <2>1, <3>2
    <3> QED BY <2>1, <2>2, <3>3, <3>4
  <2>4. CASE Pairs(seq)[i][1] # Pairs(seq)[i][2]
    <3>1. next(s, i) = [runs |-> Append(s.runs, s.cur), cur |-> 1]
      BY <2>4 DEF NextRun
    <3>2. Append(s.runs, s.cur) \in Seq(Int)
      BY <2>1
    <3> HIDE DEF next
    <3>3. next(s, i) \in State
      BY <3>1, <3>2
    <3>4. next(s, i).runs = Append(s.runs, s.cur) /\ next(s, i).cur = 1
      BY <3>1
    <3> QED BY <2>1, <2>2, <3>3, <3>4
  <2> QED BY <2>3, <2>4
<1> HIDE DEF State
<1> DEFINE step == [q \in State \X (1 .. m) |-> next(q[1], q[2])]
<1>5. step \in [State \X (1 .. m) -> State]
  <2>1. \A q \in State \X (1 .. m) : next(q[1], q[2]) \in State
    BY <1>4
  <2> HIDE DEF next
  <2> QED BY <2>1
<1>6. PICK it \in [SUBSET (1 .. m) -> State] : FoldsTo(step, base, m, it)
  <2> HIDE DEF step, base
  <2> QED BY <1>3, <1>5, FoldsExist
<1>7. it = [S \in SUBSET (1 .. m) |-> IF S = {} THEN base ELSE next(it[S \ {Max(S)}], Max(S))]
  <2>1. ASSUME NEW S \in SUBSET (1 .. m), S # {}
        PROVE  step[<<it[S \ {Max(S)}], Max(S)>>] = next(it[S \ {Max(S)}], Max(S))
    <3>1. Max(S) \in 1 .. m
      BY <2>1, MaxOfPositions
    <3>2. it[S \ {Max(S)}] \in State
      BY <1>6
    <3> HIDE DEF next
    <3> QED BY <3>1, <3>2
  <2> HIDE DEF step, next, base
  <2> QED BY <1>6, <2>1, Zenon DEF FoldsTo
<1> DEFINE scan == CHOOSE f : f = [S \in SUBSET (1 .. m) |->
                     IF S = {} THEN base ELSE next(f[S \ {Max(S)}], Max(S))]
<1>8. scan = [S \in SUBSET (1 .. m) |-> IF S = {} THEN base ELSE next(scan[S \ {Max(S)}], Max(S))]
  <2> HIDE DEF next, base
  <2> QED BY <1>7, Zenon
<1>9. RunLengths(seq) = Append(scan[1 .. m].runs, scan[1 .. m].cur)
  BY <1>2, RunsUnfold, Zenon
<1> HIDE DEF scan, next, base
<1>10. /\ scan[1 .. 0] = base
       /\ \A j \in Nat : j + 1 <= m => scan[1 .. j + 1] = next(scan[1 .. j], j + 1)
  <2>1. 1 .. 0 = {} /\ 1 .. 0 \in SUBSET (1 .. m)
    OBVIOUS
  <2>2. scan[1 .. 0] = base
    BY <1>8, <2>1, Zenon
  <2>3. ASSUME NEW j \in Nat, j + 1 <= m PROVE scan[1 .. j + 1] = next(scan[1 .. j], j + 1)
    <3>1. 1 .. j + 1 \in SUBSET (1 .. m) /\ j + 1 \in 1 .. j + 1
      BY <2>3
    <3>2. Max(1 .. j + 1) = j + 1 /\ (1 .. j + 1) \ {j + 1} = 1 .. j
      BY MaxOfPositions, Zenon
    <3> DEFINE S == 1 .. j + 1
    <3>3. S \in SUBSET (1 .. m) /\ S # {} /\ Max(S) = j + 1 /\ S \ {j + 1} = 1 .. j
      BY <3>1, <3>2, Zenon
    <3> HIDE DEF S
    <3>4. scan[S] = next(scan[1 .. j], j + 1)
      BY <1>8, <3>3, Zenon
    <3> QED BY <3>4 DEF S
  <2> QED BY <2>2, <2>3, Zenon
<1> DEFINE P == {j \in Nat : j <= m => /\ scan[1 .. j] \in State
                                       /\ Total(scan[1 .. j].runs) + scan[1 .. j].cur = j + 1}
<1>11. 0 \in P
  BY <1>3, <1>10, TotalOfNone DEF base
<1>12. ASSUME NEW j \in Nat, j \in P PROVE j + 1 \in P
  <2> SUFFICES ASSUME j + 1 <= m
               PROVE  /\ scan[1 .. j + 1] \in State
                      /\ Total(scan[1 .. j + 1].runs) + scan[1 .. j + 1].cur = (j + 1) + 1
    OBVIOUS
  <2>1. /\ scan[1 .. j] \in State
        /\ Total(scan[1 .. j].runs) + scan[1 .. j].cur = j + 1
    BY <1>12
  <2>2. j + 1 \in 1 .. m
    OBVIOUS
  <2>3. scan[1 .. j + 1] = next(scan[1 .. j], j + 1)
    BY <1>10
  <2> QED BY <1>4, <2>1, <2>2, <2>3
<1> HIDE DEF P
<1>13. P \in SUBSET Nat
  BY DEF P
<1>14. m \in P
  BY <1>11, <1>12, <1>13, InductiveSet
<1>15. scan[1 .. m] \in State /\ Total(scan[1 .. m].runs) + scan[1 .. m].cur = m + 1
  BY <1>14 DEF P
<1>16. scan[1 .. m].runs \in Seq(Int) /\ scan[1 .. m].cur \in Int
  BY <1>15 DEF State
<1> QED BY <1>1, <1>9, <1>15, <1>16, TotalOfAppend

(* Every byte is in one chunk.                                             *)
LEMMA ChunksCountAll ==
  ASSUME NEW times, NEW lens \in Seq(Nat), NEW dirs, lens # << >>, Len(times) = Len(lens)
  PROVE  Total(Chunks(times, lens, dirs)) = Total(lens)
<1> DEFINE base == [done |-> <<>>, cur |-> lens[1]]
           State == [done : Seq(Int), cur : Nat]
           at == [i \in 1 .. Len(times) - 1 |-> i + 1]
           breaks(i) == \/ dirs[i] # dirs[i - 1]
                        \/ (times[i] - times[i - 1]) % TimeSpan > ChunkGap
           first(j) == [i \in 1 .. j |-> lens[i]]
<1>1. PICK m \in Nat : m + 1 = Len(lens)
  <2>1. Len(lens) - 1 \in Nat /\ (Len(lens) - 1) + 1 = Len(lens)
    OBVIOUS
  <2> QED BY <2>1
<1>2. /\ DOMAIN at = 1 .. m
      /\ \A i \in 1 .. m : at[i] = i + 1 /\ i + 1 \in 1 .. Len(lens)
  BY <1>1
<1>3. base \in State
  BY <1>1
<1> HIDE DEF at, breaks
<1> DEFINE next(s, i) == NextChunk(s, breaks(at[i]), lens[at[i]])
<1>4. \A s \in State : \A i \in 1 .. m :
        /\ next(s, i) \in State
        /\ Total(next(s, i).done) + next(s, i).cur = Total(s.done) + s.cur + lens[i + 1]
  <2> TAKE s \in State
  <2> TAKE i \in 1 .. m
  <2>1. s.done \in Seq(Int) /\ s.cur \in Nat
    OBVIOUS
  <2>0. at[i] = i + 1 /\ lens[i + 1] \in Nat
    BY <1>2
  <2>2. Total(s.done) \in Int /\ Total(Append(s.done, s.cur)) = Total(s.done) + s.cur
    BY <2>1, TotalOfAppend
  <2>3. CASE ~breaks(at[i])
    <3>1. next(s, i) = [s EXCEPT !.cur = @ + lens[i + 1]]
      BY <2>0, <2>3 DEF NextChunk
    <3>2. next(s, i) = [done |-> s.done, cur |-> s.cur + lens[i + 1]]
      <4>1. s = [done |-> s.done, cur |-> s.cur]
        OBVIOUS
      <4> QED BY <3>1, <4>1
    <3> HIDE DEF next
    <3>3. next(s, i).done = s.done /\ next(s, i).cur = s.cur + lens[i + 1]
      BY <3>2
    <3>4. next(s, i) \in State
      BY <2>0, <2>1, <3>2
    <3> QED BY <2>0, <2>1, <2>2, <3>3, <3>4, SMTT(30)
  <2>4. CASE breaks(at[i])
    <3>1. next(s, i) = [done |-> Append(s.done, s.cur), cur |-> lens[i + 1]]
      BY <2>0, <2>4 DEF NextChunk
    <3>2. Append(s.done, s.cur) \in Seq(Int)
      BY <2>1
    <3> HIDE DEF next
    <3>3. next(s, i) \in State
      BY <2>0, <3>1, <3>2
    <3>4. next(s, i).done = Append(s.done, s.cur) /\ next(s, i).cur = lens[i + 1]
      BY <3>1
    <3> QED BY <2>0, <2>1, <2>2, <3>3, <3>4
  <2> QED BY <2>3, <2>4
<1> HIDE DEF State
<1> DEFINE step == [q \in State \X (1 .. m) |-> next(q[1], q[2])]
<1>5. step \in [State \X (1 .. m) -> State]
  <2>1. \A q \in State \X (1 .. m) : next(q[1], q[2]) \in State
    BY <1>4
  <2> HIDE DEF next
  <2> QED BY <2>1
<1>6. PICK it \in [SUBSET (1 .. m) -> State] : FoldsTo(step, base, m, it)
  <2> HIDE DEF step, base
  <2> QED BY <1>3, <1>5, FoldsExist
<1>7. it = [S \in SUBSET (1 .. m) |-> IF S = {} THEN base ELSE next(it[S \ {Max(S)}], Max(S))]
  <2>1. ASSUME NEW S \in SUBSET (1 .. m), S # {}
        PROVE  step[<<it[S \ {Max(S)}], Max(S)>>] = next(it[S \ {Max(S)}], Max(S))
    <3>1. Max(S) \in 1 .. m
      BY <2>1, MaxOfPositions
    <3>2. it[S \ {Max(S)}] \in State
      BY <1>6
    <3> HIDE DEF next
    <3> QED BY <3>1, <3>2
  <2> HIDE DEF step, next, base
  <2> QED BY <1>6, <2>1, Zenon DEF FoldsTo
<1> DEFINE scan == CHOOSE f : f = [S \in SUBSET (1 .. m) |->
                     IF S = {} THEN base ELSE next(f[S \ {Max(S)}], Max(S))]
<1>8. scan = [S \in SUBSET (1 .. m) |-> IF S = {} THEN base ELSE next(scan[S \ {Max(S)}], Max(S))]
  <2> HIDE DEF next, base
  <2> QED BY <1>7, Zenon
<1> DEFINE scanned == CHOOSE f : f = [S \in SUBSET (DOMAIN at) |->
                        IF S = {} THEN base ELSE next(f[S \ {Max(S)}], Max(S))]
<1>21. Chunks(times, lens, dirs)
        = IF scanned[DOMAIN at].cur > 0
            THEN Append(scanned[DOMAIN at].done, scanned[DOMAIN at].cur)
            ELSE scanned[DOMAIN at].done
  BY ChunksUnfold, Zenon DEF at, breaks
<1>22. scanned = scan
  BY <1>2
<1> HIDE DEF scanned, scan
<1>9. Chunks(times, lens, dirs) = IF scan[1 .. m].cur > 0
                                    THEN Append(scan[1 .. m].done, scan[1 .. m].cur)
                                    ELSE scan[1 .. m].done
  BY <1>2, <1>21, <1>22, Zenon
<1> HIDE DEF scan, next, base
<1>10. /\ scan[1 .. 0] = base
       /\ \A j \in Nat : j + 1 <= m => scan[1 .. j + 1] = next(scan[1 .. j], j + 1)
  <2>1. 1 .. 0 = {} /\ 1 .. 0 \in SUBSET (1 .. m)
    OBVIOUS
  <2>2. scan[1 .. 0] = base
    BY <1>8, <2>1, Zenon
  <2>3. ASSUME NEW j \in Nat, j + 1 <= m PROVE scan[1 .. j + 1] = next(scan[1 .. j], j + 1)
    <3>1. 1 .. j + 1 \in SUBSET (1 .. m) /\ j + 1 \in 1 .. j + 1
      BY <2>3
    <3>2. Max(1 .. j + 1) = j + 1 /\ (1 .. j + 1) \ {j + 1} = 1 .. j
      BY MaxOfPositions, Zenon
    <3> DEFINE S == 1 .. j + 1
    <3>3. S \in SUBSET (1 .. m) /\ S # {} /\ Max(S) = j + 1 /\ S \ {j + 1} = 1 .. j
      BY <3>1, <3>2, Zenon
    <3> HIDE DEF S
    <3>4. scan[S] = next(scan[1 .. j], j + 1)
      BY <1>8, <3>3, Zenon
    <3> QED BY <3>4 DEF S
  <2> QED BY <2>2, <2>3, Zenon
<1> DEFINE P == {j \in Nat : j <= m => /\ scan[1 .. j] \in State
                                       /\ Total(scan[1 .. j].done) + scan[1 .. j].cur
                                            = Total(first(j + 1))}
<1>11. 0 \in P
  <2>1. scan[1 .. 0] = [done |-> << >>, cur |-> lens[1]] /\ scan[1 .. 0] \in State
    BY <1>3, <1>10, Zenon DEF base
  <2>2. first(0 + 1) = Append(<< >>, lens[1]) /\ lens[1] \in Nat /\ << >> \in Seq(Int)
    BY <1>1
  <2>3. Total(first(0 + 1)) = lens[1]
    <3> PICK none \in Seq(Int) : none = << >>
      BY <2>2
    <3>1. Total(none) = 0
      BY TotalOfNone
    <3>2. lens[1] \in Int /\ lens[1] = 0 + lens[1]
      BY <2>2
    <3> HIDE DEF first
    <3>3. Total(Append(none, lens[1])) = 0 + lens[1]
      BY <3>1, <3>2, TotalOfAppend, Zenon
    <3>4. first(0 + 1) = Append(none, lens[1])
      BY <2>2, Zenon
    <3> QED BY <3>2, <3>3, <3>4, Zenon
  <2> HIDE DEF first
  <2> QED BY <2>1, <2>2, <2>3, TotalOfNone
<1>12. ASSUME NEW j \in Nat, j \in P PROVE j + 1 \in P
  <2> SUFFICES ASSUME j + 1 <= m
               PROVE  /\ scan[1 .. j + 1] \in State
                      /\ Total(scan[1 .. j + 1].done) + scan[1 .. j + 1].cur = Total(first((j + 1) + 1))
    OBVIOUS
  <2>1. /\ scan[1 .. j] \in State
        /\ Total(scan[1 .. j].done) + scan[1 .. j].cur = Total(first(j + 1))
    BY <1>12
  <2>2. j + 1 \in 1 .. m
    OBVIOUS
  <2>3. scan[1 .. j + 1] = next(scan[1 .. j], j + 1)
    BY <1>10
  <2>4. /\ first((j + 1) + 1) = Append(first(j + 1), lens[(j + 1) + 1])
        /\ first(j + 1) \in Seq(Int) /\ lens[(j + 1) + 1] \in Int
    BY <1>1, <2>2
  <2> HIDE DEF first
  <2>5. Total(first((j + 1) + 1)) = Total(first(j + 1)) + lens[(j + 1) + 1]
    BY <2>4, TotalOfAppend
  <2>6. scan[1 .. j + 1] \in State
    BY <1>4, <2>1, <2>2, <2>3
  <2>7. Total(scan[1 .. j + 1].done) + scan[1 .. j + 1].cur
          = Total(scan[1 .. j].done) + scan[1 .. j].cur + lens[(j + 1) + 1]
    BY <1>4, <2>1, <2>2, <2>3
  <2> QED BY <2>1, <2>5, <2>6, <2>7
<1> HIDE DEF P
<1>13. P \in SUBSET Nat
  BY DEF P
<1>14. m \in P
  BY <1>11, <1>12, <1>13, InductiveSet
<1>15. scan[1 .. m] \in State /\ Total(scan[1 .. m].done) + scan[1 .. m].cur = Total(first(m + 1))
  <2>1. m <= m
    OBVIOUS
  <2> HIDE DEF first
  <2> QED BY <1>14, <2>1, Zenon DEF P
<1>16. scan[1 .. m].done \in Seq(Int) /\ scan[1 .. m].cur \in Nat
  BY <1>15 DEF State
<1>17. first(m + 1) = lens
  BY <1>1
<1>18. /\ Total(scan[1 .. m].done) \in Int
       /\ Total(Append(scan[1 .. m].done, scan[1 .. m].cur))
            = Total(scan[1 .. m].done) + scan[1 .. m].cur
  <2>1. scan[1 .. m].cur \in Int
    BY <1>16
  <2> QED BY <1>16, <2>1, TotalOfAppend, Zenon
<1> HIDE DEF first
<1>19. CASE scan[1 .. m].cur > 0
  BY <1>9, <1>15, <1>17, <1>18, <1>19
<1>20. CASE ~(scan[1 .. m].cur > 0)
  <2>1. Chunks(times, lens, dirs) = scan[1 .. m].done /\ scan[1 .. m].cur = 0
    BY <1>9, <1>16, <1>20
  <2> QED BY <1>15, <1>17, <1>18, <2>1
<1> QED BY <1>19, <1>20

LEMMA RestIsNat ==
  ASSUME NEW a \in Int, NEW b \in Nat \ {0}
  PROVE  a % b \in Nat /\ a % b < b
OBVIOUS

LEMMA QuotientIsNat ==
  ASSUME NEW a \in Nat, NEW b \in Nat \ {0}
  PROVE  a \div b \in Nat
OBVIOUS

(* The rates account for each byte of a direction once, when there are     *)
(* windows for them.                                                       *)
InStep(times, lens, dirs, n) ==
  /\ RateWindow \in Nat \ {0} /\ TimeSpan \in Nat \ {0} /\ CountSpan \in Nat \ {0}
  /\ times \in Seq(Nat) /\ lens \in Seq(Nat) /\ dirs \in Seq(Int) /\ n \in Nat \ {0}
  /\ Len(times) = n /\ Len(lens) = n /\ Len(dirs) = n
  /\ \A i \in 1 .. n : dirs[i] \in {-1, 0, 1}

LEMMA RatesCountAll ==
  ASSUME NEW times, NEW lens, NEW dirs, NEW n, InStep(times, lens, dirs, n),
         RatesInReach(times), NEW sign, sign \in {-1, 1}
  PROVE  Total(Rates(times, lens, dirs, sign))
           = Total([i \in 1 .. n |-> IF dirs[i] = sign THEN lens[i] ELSE 0])
<1> USE DEF InStep
<1> DEFINE W == RateWindows(times)
           x == [i \in 1 .. n |-> IF dirs[i] = sign THEN lens[i] ELSE 0]
           at == [i \in 1 .. n |-> RateWindowOf(times, i)]
<1>0. \A t \in Int :
        /\ t % TimeSpan \in Nat
        /\ (t % TimeSpan) \div RateWindow \in Nat
        /\ ((t % TimeSpan) \div RateWindow) % CountSpan \in Nat
  <2> TAKE t \in Int
  <2>1. t % TimeSpan \in Nat
    BY RestIsNat
  <2>2. (t % TimeSpan) \div RateWindow \in Nat
    BY <2>1, QuotientIsNat
  <2>3. ((t % TimeSpan) \div RateWindow) % CountSpan \in Nat
    <3> PICK w \in Nat : w = (t % TimeSpan) \div RateWindow
      BY <2>2
    <3>1. w % CountSpan \in Nat
      BY RestIsNat
    <3> QED BY <3>1
  <2> QED BY <2>1, <2>2, <2>3
<1>1. W \in Nat /\ W > 0
  <2> DEFINE q == (((Last(times) - times[1]) % TimeSpan) \div RateWindow) % CountSpan
  <2>1. W = (q + 1) % CountSpan
    BY DEF RateWindows
  <2>2. Last(times) \in Nat /\ times[1] \in Nat
    BY DEF Last
  <2>3. q \in Nat
    <3> PICK t \in Int : t = Last(times) - times[1]
      BY <2>2
    <3> QED BY <1>0
  <2> HIDE DEF q
  <2>4. (q + 1) % CountSpan \in Nat
    BY <2>3, RestIsNat
  <2> QED BY <2>1, <2>4 DEF RatesInReach
<1> HIDE DEF W
<1>2. ASSUME NEW i \in 1 .. n PROVE at[i] \in 1 .. W
  <2> DEFINE a == (((times[i] - times[1]) % TimeSpan) \div RateWindow) % CountSpan
  <2>1. at[i] = Min({a + 1, W})
    BY DEF RateWindowOf, W
  <2>2. a \in Nat
    <3>1. times[i] \in Nat /\ times[1] \in Nat
      OBVIOUS
    <3> PICK t \in Int : t = times[i] - times[1]
      BY <3>1
    <3> HIDE DEF at
    <3> QED BY <1>0
  <2> HIDE DEF a, at
  <2>3. Min({a + 1, W}) = IF a + 1 <= W THEN a + 1 ELSE W
    <3>1. a + 1 \in Int /\ W \in Int
      BY <1>1, <2>2
    <3> QED BY <3>1, MinOfTwo, Zenon
  <2> QED BY <1>1, <2>1, <2>2, <2>3, SMTT(40)
<1>3. x \in [1 .. n -> Int] /\ at \in [1 .. n -> 1 .. W]
  BY <1>2, SMTT(30)
<1>4. Rates(times, lens, dirs, sign)
        = [w \in 1 .. W |-> Total([i \in 1 .. n |-> IF at[i] = w THEN x[i] ELSE 0])]
  <2>1. ASSUME NEW i \in 1 .. n PROVE dirs[i] * sign > 0 <=> dirs[i] = sign
    <3>1. dirs[i] = -1 \/ dirs[i] = 0 \/ dirs[i] = 1
      OBVIOUS
    <3>2. CASE sign = 1
      BY <3>1, <3>2
    <3>3. CASE sign = -1
      BY <3>1, <3>3
    <3> QED BY <3>2, <3>3
  <2>2. ASSUME NEW w \in 1 .. W
        PROVE  [i \in 1 .. n |-> IF dirs[i] * sign > 0 /\ RateWindowOf(times, i) = w
                                   THEN lens[i] ELSE 0]
                 = [i \in 1 .. n |-> IF at[i] = w THEN x[i] ELSE 0]
    BY <2>1
  <2> HIDE DEF at, x
  <2> QED BY <2>2, ZenonT(60) DEF Rates, W
<1> HIDE DEF x, at
<1>5. Total([w \in 1 .. W |-> Total([i \in 1 .. n |-> IF at[i] = w THEN x[i] ELSE 0])]) = Total(x)
  <2>1. n \in Nat
    OBVIOUS
  <2>2. W \in Nat /\ x \in [1 .. n -> Int] /\ at \in [1 .. n -> 1 .. W]
    BY <1>1, <1>3
  <2>3. \A y \in [1 .. n -> Int] : \A a \in [1 .. n -> 1 .. W] :
          Total([w \in 1 .. W |-> Total([i \in 1 .. n |-> IF a[i] = w THEN y[i] ELSE 0])]) = Total(y)
    BY <2>1, <2>2, TotalByClass
  <2> QED BY <2>2, <2>3, Zenon
<1> QED BY <1>4, <1>5 DEF x
-----------------------------------------------------------------------------

(* The sequence number kept of a direction is that of its latest payload.  *)
LatestPayload(d) ==
  IF flow.tcp.last_seq[d] = NoneYet
    THEN PayloadOf(d) = {}
    ELSE \E g \in PayloadOf(d) :
           (\A k \in PayloadOf(d) : k <= g) /\ flow.tcp.last_seq[d] = arrivals[g].seq

Ascends(d) == \A i, j \in PayloadOf(d) : i < j => arrivals[i].seq < arrivals[j].seq

(* The time kept is that of the latest reset.                              *)
LatestReset ==
  IF flow.tcp.last_rst_ts = 0
    THEN Resets = {}
    ELSE \E g \in Resets : (\A k \in Resets : k <= g) /\ flow.tcp.last_rst_ts = arrivals[g].ts

(* The intervals so far are the time from the first reset to the last.     *)
ResetSpan ==
  /\ Resets = {} => flow.tcp.rst_interval_sum = 0
  /\ InOrder => \A i, j \in Resets :
       (\A k \in Resets : i <= k /\ k <= j)
         => flow.tcp.rst_interval_sum = arrivals[j].ts - arrivals[i].ts

TcpInv ==
  /\ "tcp" \in DOMAIN flow
  /\ arrivals \in Seq(Packets)
  /\ flow.tcp.last_seq \in [Way -> Int]
  /\ flow.tcp.last_rst_ts \in Nat /\ flow.tcp.rst_interval_sum \in Int
  /\ flow.tcp.retransmissions \in Nat /\ flow.tcp.payload \in Nat
  /\ flow.tcp.ack_only \in Nat /\ flow.tcp.packets \in Nat
  /\ flow.tcp.retransmissions <= flow.tcp.payload
  /\ flow.tcp.ack_only + flow.tcp.payload <= flow.tcp.packets
  /\ flow.tcp.retransmissions = 0 <=> \A d \in Way : Ascends(d)
  /\ \A d \in Way : LatestPayload(d)
  /\ LatestReset
  /\ ResetSpan

(* What a packet does to the counters of TCP: the request for room leaves  *)
(* them alone.                                                             *)
LEMMA TcpMoves ==
  ASSUME "tcp" \in DOMAIN flow, NEW p, Data(p)
  PROVE  /\ "tcp" \in DOMAIN flow'
         /\ flow'.tcp = TcpUpdate(flow.tcp, p)
<1> DEFINE room == MadeRoom(flow, Len(arrivals) + 1)
<1>1. flow' = Collected(room, p)
  BY Zenon DEF Data
<1>2. \A f, a, b : "tcp" \in DOMAIN f => [f EXCEPT !.pool = a, !.ring = b].tcp = f.tcp
  OBVIOUS
<1>3. room.tcp = flow.tcp
  BY <1>2, Zenon DEF MadeRoom
<1> HIDE DEF room
<1>4. "tcp" \in DOMAIN Collected(room, p) /\ Collected(room, p).tcp = TcpUpdate(room.tcp, p)
  BY DEF Collected
<1> QED BY <1>1, <1>3, <1>4, Zenon

(* calc_protocol_tcp_update, as far as these counters go.                  *)
Counted(u, t, p) ==
  /\ u.packets = t.packets + 1
  /\ \/ u.ack_only = t.ack_only + 0
     \/ p.pay = <<>> /\ u.ack_only = t.ack_only + 1
  /\ u.payload = t.payload + One(~(p.pay = <<>>))
  /\ u.retransmissions = t.retransmissions + One(FallsBack(t, p))
  /\ u.last_rst_ts = IF "rst" \in p.flags THEN p.ts ELSE t.last_rst_ts
  /\ u.rst_interval_sum =
       t.rst_interval_sum + (IF "rst" \in p.flags /\ t.last_rst_ts > 0 /\ p.ts > t.last_rst_ts
                               THEN p.ts - t.last_rst_ts ELSE 0)
  /\ u.last_seq = IF p.pay = <<>> \/ p.dir \notin Way THEN t.last_seq
                  ELSE [t.last_seq EXCEPT ![p.dir] = p.seq]

LEMMA TcpCounts ==
  ASSUME NEW t, NEW p, NEW u, u = TcpUpdate(t, p) PROVE Counted(u, t, p)
<1>1. u = TcpUpdateBy(FallsBack, t, p)
  BY DEF TcpUpdate
<1>2. /\ u.packets = t.packets + 1
      /\ u.ack_only = t.ack_only + One("ack" \in p.flags /\ p.pay = <<>>
                                        /\ p.flags \subseteq {"ack", "urg"})
      /\ u.payload = t.payload + One(~(p.pay = <<>>))
      /\ u.retransmissions = t.retransmissions + One(FallsBack(t, p))
      /\ u.last_rst_ts = IF "rst" \in p.flags THEN p.ts ELSE t.last_rst_ts
      /\ u.rst_interval_sum =
           t.rst_interval_sum + (IF "rst" \in p.flags /\ t.last_rst_ts > 0 /\ p.ts > t.last_rst_ts
                                   THEN p.ts - t.last_rst_ts ELSE 0)
      /\ u.last_seq = IF p.pay = <<>> \/ p.dir \notin Way THEN t.last_seq
                      ELSE [t.last_seq EXCEPT ![p.dir] = p.seq]
  BY <1>1 DEF TcpUpdateBy
<1>3. \/ u.ack_only = t.ack_only + 0
      \/ p.pay = <<>> /\ u.ack_only = t.ack_only + 1
  BY <1>2, Zenon DEF One
<1> QED BY <1>2, <1>3, Zenon DEF Counted

LEMMA PacketArrives ==
  ASSUME arrivals \in Seq(Packets), NEW p \in Packets, Data(p),
         NEW n \in Nat, n = Len(arrivals)
  PROVE  /\ arrivals' \in Seq(Packets) /\ Len(arrivals') = n + 1 /\ arrivals'[n + 1] = p
         /\ \A i \in 1 .. n : arrivals'[i] = arrivals[i]
         /\ \A i \in 1 .. n + 1 : arrivals'[i].ts \in Nat \ {0} /\ arrivals'[i].seq \in Nat
         /\ \A i \in 1 .. n : arrivals[i].ts \in Nat \ {0} /\ arrivals[i].seq \in Nat
         /\ p.ts \in Nat \ {0} /\ p.seq \in Nat
<1>1. arrivals' = Append(arrivals, p)
  BY DEF Data
<1>2. /\ arrivals' \in Seq(Packets) /\ Len(arrivals') = n + 1 /\ arrivals'[n + 1] = p
      /\ \A i \in 1 .. n : arrivals'[i] = arrivals[i] /\ arrivals[i] \in Packets
      /\ \A i \in 1 .. n + 1 : arrivals'[i] \in Packets
  BY <1>1
<1>3. \A q \in Packets : q.ts \in Nat \ {0} /\ q.seq \in Nat
  BY RecordConstants, PoolSizes
<1> QED BY <1>2, <1>3, Zenon

(* Positions up to n, of which those that P holds of, and one more.        *)
LEMMA PositionsGrow ==
  ASSUME arrivals \in Seq(Packets), NEW n \in Nat, n = Len(arrivals), Len(arrivals') = n + 1,
         \A i \in 1 .. n : arrivals'[i] = arrivals[i], NEW p, arrivals'[n + 1] = p
  PROVE  /\ Resets \in SUBSET (1 .. n)
         /\ Resets' = Resets \cup (IF "rst" \in p.flags THEN {n + 1} ELSE {})
         /\ \A d : /\ PayloadOf(d) \in SUBSET (1 .. n)
                   /\ PayloadOf(d)' = PayloadOf(d) \cup
                        (IF p.dir = d /\ p.pay # <<>> THEN {n + 1} ELSE {})
<1>1. /\ \A i \in 1 .. n + 1 : i \in 1 .. n \/ i = n + 1
      /\ \A i \in 1 .. n : i \in 1 .. n + 1
      /\ n + 1 \in 1 .. n + 1
  OBVIOUS
<1>2. /\ Resets = {i \in 1 .. n : "rst" \in arrivals[i].flags}
      /\ Resets' = {i \in 1 .. n + 1 : "rst" \in arrivals'[i].flags}
  BY Zenon DEF Resets
<1>3. Resets \in SUBSET (1 .. n)
  BY <1>2
<1>4. Resets' = Resets \cup (IF "rst" \in p.flags THEN {n + 1} ELSE {})
  <2>1. CASE "rst" \in p.flags
    <3>1. Resets' = Resets \cup {n + 1}
      BY <1>1, <1>2, <2>1, Zenon
    <3> QED BY <2>1, <3>1, Zenon
  <2>2. CASE "rst" \notin p.flags
    <3>1. Resets' = Resets
      BY <1>1, <1>2, <2>2, Zenon
    <3> QED BY <2>2, <3>1, Zenon
  <2> QED BY <2>1, <2>2
<1>5. ASSUME NEW d
      PROVE  /\ PayloadOf(d) \in SUBSET (1 .. n)
             /\ PayloadOf(d)' = PayloadOf(d) \cup
                  (IF p.dir = d /\ p.pay # <<>> THEN {n + 1} ELSE {})
  <2>1. /\ PayloadOf(d) = {i \in 1 .. n : arrivals[i].dir = d /\ arrivals[i].pay # <<>>}
        /\ PayloadOf(d)' = {i \in 1 .. n + 1 : arrivals'[i].dir = d /\ arrivals'[i].pay # <<>>}
    BY Zenon DEF PayloadOf
  <2>2. PayloadOf(d) \in SUBSET (1 .. n)
    BY <2>1
  <2>3. CASE p.dir = d /\ p.pay # <<>>
    <3>1. PayloadOf(d)' = PayloadOf(d) \cup {n + 1}
      BY <1>1, <2>1, <2>3, ZenonT(60)
    <3> QED BY <2>2, <2>3, <3>1, Zenon
  <2>4. CASE ~(p.dir = d /\ p.pay # <<>>)
    <3>1. PayloadOf(d)' = PayloadOf(d)
      BY <1>1, <2>1, <2>4, ZenonT(60)
    <3> QED BY <2>2, <2>4, <3>1, Zenon
  <2> QED BY <2>3, <2>4
<1> QED BY <1>3, <1>4, <1>5, Zenon

(* A packet keeps a direction's payload in ascending order unless it falls *)
(* back behind the latest.                                                 *)
LEMMA PayloadStep ==
  ASSUME TcpInv, NEW p \in Packets, Data(p), NEW d \in Way
  PROVE  /\ LatestPayload(d)'
         /\ Ascends(d)' <=> Ascends(d) /\ ~(p.dir = d /\ FallsBack(flow.tcp, p))
<1> PICK n \in Nat : n = Len(arrivals)
  BY DEF TcpInv
<1> DEFINE S == PayloadOf(d)
           last == flow.tcp.last_seq[d]
           own == p.dir = d /\ p.pay # <<>>
<1>1. /\ arrivals \in Seq(Packets) /\ flow.tcp.last_seq \in [Way -> Int] /\ LatestPayload(d)
      /\ "tcp" \in DOMAIN flow
  BY DEF TcpInv
<1>2. /\ Len(arrivals') = n + 1 /\ arrivals'[n + 1] = p
      /\ \A i \in 1 .. n : arrivals'[i] = arrivals[i]
      /\ \A i \in 1 .. n : arrivals[i].seq \in Nat
      /\ p.seq \in Nat
  BY <1>1, PacketArrives
<1>3. S \in SUBSET (1 .. n) /\ PayloadOf(d)' = S \cup (IF own THEN {n + 1} ELSE {})
  BY <1>1, <1>2, PositionsGrow
<1>4. flow'.tcp.last_seq = IF p.pay = <<>> \/ p.dir \notin Way THEN flow.tcp.last_seq
                           ELSE [flow.tcp.last_seq EXCEPT ![p.dir] = p.seq]
  <2>1. "tcp" \in DOMAIN flow' /\ flow'.tcp = TcpUpdate(flow.tcp, p)
    BY <1>1, TcpMoves
  <2>2. Counted(flow'.tcp, flow.tcp, p)
    BY <2>1, TcpCounts
  <2> QED BY <2>1, <2>2, Zenon DEF Counted
<1>5. /\ \A i \in S : arrivals'[i] = arrivals[i] /\ arrivals[i].seq \in Nat
      /\ last \in Int
  BY <1>1, <1>2, <1>3
<1>6. CASE ~own
  <2>1. PayloadOf(d)' = S
    BY <1>3, <1>6, Zenon
  <2>2. flow'.tcp.last_seq[d] = last
    BY <1>1, <1>4, <1>6
  <2>3. LatestPayload(d)'
    BY <1>1, <1>5, <2>1, <2>2, Zenon DEF LatestPayload
  <2>4. Ascends(d)' <=> Ascends(d)
    <3>1. Ascends(d)' <=> \A i, j \in S : i < j => arrivals'[i].seq < arrivals'[j].seq
      BY <2>1, Zenon DEF Ascends
    <3>2. \A i \in S : arrivals'[i].seq = arrivals[i].seq
      BY <1>5, Zenon
    <3> QED BY <3>1, <3>2, Zenon DEF Ascends
  <2>5. ~(p.dir = d /\ FallsBack(flow.tcp, p))
    BY <1>6, Zenon DEF FallsBack
  <2> QED BY <2>3, <2>4, <2>5, Zenon
<1>7. CASE own
  <2>1. PayloadOf(d)' = S \cup {n + 1}
    BY <1>3, <1>7, Zenon
  <2>2. flow'.tcp.last_seq[d] = p.seq
    BY <1>1, <1>4, <1>7
  <2>3. /\ \A k \in S : k <= n + 1 /\ k < n + 1 /\ ~(n + 1 < k) /\ k # n + 1
        /\ n + 1 <= n + 1 /\ ~(n + 1 < n + 1)
    BY <1>3
  <2>4. LatestPayload(d)'
    <3>1. p.seq # NoneYet
      BY <1>2 DEF NoneYet
    <3>2. n + 1 \in PayloadOf(d)' /\ \A k \in PayloadOf(d)' : k <= n + 1
      BY <2>1, <2>3, Zenon
    <3> QED BY <1>2, <2>2, <3>1, <3>2, Zenon DEF LatestPayload
  <2>5. FallsBack(flow.tcp, p) <=> last # NoneYet /\ p.seq <= last
    BY <1>7, Zenon DEF FallsBack
  <2>6. Ascends(d)' <=> \A i, j \in S \cup {n + 1} : i < j => arrivals'[i].seq < arrivals'[j].seq
    BY <2>1, Zenon DEF Ascends
  <2>7. CASE last = NoneYet
    <3>1. S = {}
      BY <1>1, <2>7, Zenon DEF LatestPayload
    <3>2. Ascends(d)' /\ Ascends(d)
      BY <2>3, <2>6, <3>1, Zenon DEF Ascends
    <3> QED BY <2>4, <2>5, <2>7, <3>2, Zenon
  <2>8. CASE last # NoneYet
    <3>1. PICK g \in S : (\A k \in S : k <= g) /\ last = arrivals[g].seq
      BY <1>1, <2>8, Zenon DEF LatestPayload
    <3>2. p.seq <= last \/ last < p.seq
      BY <1>2, <1>5
    <3>3. CASE p.seq <= last
      <4>1. ~(last < p.seq)
        BY <1>2, <1>5, <3>3
      <4>2. g < n + 1 /\ arrivals'[g].seq = last /\ arrivals'[n + 1].seq = p.seq
        BY <1>2, <1>5, <2>3, <3>1, Zenon
      <4>3. ~Ascends(d)'
        BY <2>6, <4>1, <4>2, Zenon
      <4> QED BY <1>7, <2>4, <2>5, <2>8, <3>3, <4>3, Zenon
    <3>4. CASE last < p.seq
      <4>1. ~(p.seq <= last)
        BY <1>2, <1>5, <3>4
      <4>2. Ascends(d)' => Ascends(d)
        BY <1>5, <2>6, Zenon DEF Ascends
      <4>3. ASSUME Ascends(d), NEW i \in S \cup {n + 1}, NEW j \in S \cup {n + 1}, i < j
            PROVE  arrivals'[i].seq < arrivals'[j].seq
        <5>1. i \in S
          BY <2>3, <4>3, Zenon
        <5>2. CASE j \in S
          <6>1. arrivals[i].seq < arrivals[j].seq
            BY <4>3, <5>1, <5>2, Zenon DEF Ascends
          <6> QED BY <1>5, <5>1, <5>2, <6>1, Zenon
        <5>3. CASE j = n + 1
          <6>1. arrivals[i].seq <= last
            <7>1. i = g \/ i < g
              BY <1>3, <3>1, <5>1
            <7>2. i = g \/ arrivals[i].seq < arrivals[g].seq
              BY <4>3, <5>1, <7>1, Zenon DEF Ascends
            <7>3. arrivals[i].seq \in Nat /\ last \in Int
              BY <1>5, <5>1
            <7> QED BY <3>1, <7>2, <7>3
          <6>2. arrivals'[i].seq = arrivals[i].seq /\ arrivals'[j].seq = p.seq
                /\ arrivals[i].seq \in Nat
            BY <1>2, <1>5, <5>1, <5>3, Zenon
          <6> QED BY <1>2, <1>5, <3>4, <6>1, <6>2
        <5> QED BY <5>2, <5>3, Zenon
      <4>4. Ascends(d) => Ascends(d)'
        BY <2>6, <4>3, Zenon
      <4> QED BY <2>4, <2>5, <4>1, <4>2, <4>4, Zenon
    <3> QED BY <3>2, <3>3, <3>4
  <2> QED BY <2>7, <2>8
<1> QED BY <1>6, <1>7

(* A reset adds the time since the reset before it.                        *)
LEMMA ResetStep ==
  ASSUME TcpInv, NEW p \in Packets, Data(p)
  PROVE  LatestReset' /\ ResetSpan'
<1> PICK n \in Nat : n = Len(arrivals)
  BY DEF TcpInv
<1> DEFINE last == flow.tcp.last_rst_ts
           sum == flow.tcp.rst_interval_sum
           rst == "rst" \in p.flags
<1>1. /\ arrivals \in Seq(Packets) /\ flow.tcp.last_seq \in [Way -> Int] /\ LatestReset
      /\ ResetSpan /\ "tcp" \in DOMAIN flow /\ last \in Nat /\ sum \in Int
  BY DEF TcpInv
<1>2. /\ Len(arrivals') = n + 1 /\ arrivals'[n + 1] = p
      /\ \A i \in 1 .. n : arrivals'[i] = arrivals[i]
      /\ \A i \in 1 .. n : arrivals[i].ts \in Nat \ {0}
      /\ p.ts \in Nat \ {0}
  BY <1>1, PacketArrives
<1>3. Resets \in SUBSET (1 .. n) /\ Resets' = Resets \cup (IF rst THEN {n + 1} ELSE {})
  BY <1>1, <1>2, PositionsGrow
<1>4. /\ flow'.tcp.last_rst_ts = IF rst THEN p.ts ELSE last
      /\ flow'.tcp.rst_interval_sum = sum + (IF rst /\ last > 0 /\ p.ts > last THEN p.ts - last ELSE 0)
  <2>1. "tcp" \in DOMAIN flow' /\ flow'.tcp = TcpUpdate(flow.tcp, p)
    BY <1>1, TcpMoves
  <2>2. Counted(flow'.tcp, flow.tcp, p)
    BY <2>1, TcpCounts
  <2> QED BY <2>1, <2>2, Zenon DEF Counted
<1>5. \A i \in Resets : arrivals'[i] = arrivals[i] /\ arrivals[i].ts \in Nat \ {0}
  BY <1>2, <1>3
<1>6. InOrder' => /\ InOrder
                  /\ \A i \in 1 .. n : arrivals[i].ts <= p.ts
  <2> SUFFICES ASSUME InOrder' PROVE InOrder /\ \A i \in 1 .. n : arrivals[i].ts <= p.ts
    OBVIOUS
  <2>1. \A i, j \in 1 .. n + 1 : i < j => arrivals'[i].ts <= arrivals'[j].ts
    BY <1>2, Zenon DEF InOrder
  <2>2. \A i \in 1 .. n : i \in 1 .. n + 1 /\ n + 1 \in 1 .. n + 1 /\ i < n + 1
    OBVIOUS
  <2> QED BY <1>2, <2>1, <2>2, Zenon DEF InOrder
<1>7. CASE ~rst
  <2>1. Resets' = Resets
    BY <1>3, <1>7, Zenon
  <2>2. flow'.tcp.last_rst_ts = last /\ flow'.tcp.rst_interval_sum = sum
    BY <1>1, <1>4, <1>7
  <2>3. LatestReset'
    BY <1>1, <1>5, <2>1, <2>2, Zenon DEF LatestReset
  <2>4. ResetSpan'
    BY <1>1, <1>5, <1>6, <2>1, <2>2, ZenonT(60) DEF ResetSpan
  <2> QED BY <2>3, <2>4
<1>8. CASE rst
  <2>1. Resets' = Resets \cup {n + 1}
    BY <1>3, <1>8, Zenon
  <2>2. /\ \A k \in Resets : k \in 1 .. n /\ k <= n + 1 /\ k < n + 1 /\ ~(n + 1 <= k) /\ k # n + 1
        /\ n + 1 <= n + 1
    BY <1>3
  <2>3. LatestReset'
    <3>1. p.ts # 0 /\ flow'.tcp.last_rst_ts = p.ts
      BY <1>2, <1>4, <1>8
    <3> QED BY <1>2, <2>1, <2>2, <3>1, Zenon DEF LatestReset
  <2>4. SUFFICES ASSUME InOrder', NEW i \in Resets', NEW j \in Resets',
                        \A k \in Resets' : i <= k /\ k <= j
                 PROVE  flow'.tcp.rst_interval_sum = arrivals'[j].ts - arrivals'[i].ts
    <3>1. Resets' # {}
      BY <2>1
    <3> QED BY <2>3, <3>1, Zenon DEF ResetSpan
  <2>5. j = n + 1
    BY <2>1, <2>2, <2>4, Zenon
  <2>6. CASE last = 0
    <3>1. Resets = {} /\ sum = 0
      BY <1>1, <2>6, Zenon DEF LatestReset, ResetSpan
    <3>2. i = n + 1 /\ arrivals'[i].ts = p.ts /\ arrivals'[j].ts = p.ts
      BY <1>2, <2>1, <2>4, <2>5, <3>1, Zenon
    <3>3. flow'.tcp.rst_interval_sum = 0
      BY <1>4, <2>6, <3>1
    <3>4. p.ts - p.ts = 0
      BY <1>2
    <3> QED BY <3>2, <3>3, <3>4, Zenon
  <2>7. CASE last # 0
    <3>1. PICK g \in Resets : (\A k \in Resets : k <= g) /\ last = arrivals[g].ts
      BY <1>1, <2>7, Zenon DEF LatestReset
    <3>2. i \in Resets /\ \A k \in Resets : i <= k
      BY <2>1, <2>2, <2>4, <3>1, Zenon
    <3>3. sum = arrivals[g].ts - arrivals[i].ts
      BY <1>1, <1>6, <2>4, <3>1, <3>2, Zenon DEF ResetSpan
    <3>4. last <= p.ts /\ last > 0
      <4>1. last <= p.ts
        BY <1>6, <2>2, <2>4, <3>1, Zenon
      <4>2. last > 0
        BY <1>1, <2>7
      <4> QED BY <4>1, <4>2
    <3>5. flow'.tcp.rst_interval_sum = sum + (p.ts - last)
      BY <1>1, <1>2, <1>4, <1>8, <3>4
    <3>6. arrivals'[i].ts = arrivals[i].ts /\ arrivals[i].ts \in Nat /\ arrivals'[j].ts = p.ts
      BY <1>2, <1>5, <2>5, <3>2
    <3> QED BY <1>1, <1>2, <3>1, <3>3, <3>5, <3>6
  <2> QED BY <2>6, <2>7
<1> QED BY <1>7, <1>8

LEMMA TcpInvStep ==
  ASSUME TcpInv, NEW p \in Packets, Data(p)
  PROVE  TcpInv'
<1> DEFINE t == flow.tcp
           u == flow'.tcp
<1>1. /\ arrivals \in Seq(Packets) /\ t.last_seq \in [Way -> Int] /\ "tcp" \in DOMAIN flow
      /\ t.last_rst_ts \in Nat /\ t.rst_interval_sum \in Int
      /\ t.retransmissions \in Nat /\ t.payload \in Nat
      /\ t.ack_only \in Nat /\ t.packets \in Nat
      /\ t.retransmissions <= t.payload
      /\ t.ack_only + t.payload <= t.packets
      /\ t.retransmissions = 0 <=> \A d \in Way : Ascends(d)
  BY Zenon DEF TcpInv
<1>2. arrivals' \in Seq(Packets) /\ p.ts \in Nat /\ p.seq \in Int
  BY <1>1, PacketArrives
<1>3. /\ "tcp" \in DOMAIN flow' /\ u.packets = t.packets + 1
      /\ \/ u.ack_only = t.ack_only + 0
         \/ p.pay = <<>> /\ u.ack_only = t.ack_only + 1
      /\ u.payload = t.payload + One(~(p.pay = <<>>))
      /\ u.retransmissions = t.retransmissions + One(FallsBack(t, p))
      /\ u.last_rst_ts = IF "rst" \in p.flags THEN p.ts ELSE t.last_rst_ts
      /\ u.rst_interval_sum =
           t.rst_interval_sum + (IF "rst" \in p.flags /\ t.last_rst_ts > 0 /\ p.ts > t.last_rst_ts
                                   THEN p.ts - t.last_rst_ts ELSE 0)
      /\ u.last_seq = IF p.pay = <<>> \/ p.dir \notin Way THEN t.last_seq
                      ELSE [t.last_seq EXCEPT ![p.dir] = p.seq]
  <2>1. "tcp" \in DOMAIN flow' /\ flow'.tcp = TcpUpdate(flow.tcp, p)
    BY <1>1, TcpMoves
  <2>2. Counted(flow'.tcp, flow.tcp, p)
    BY <2>1, TcpCounts
  <2> QED BY <2>1, <2>2, Zenon DEF Counted
<1> HIDE DEF t, u
<1>4. u.last_seq \in [Way -> Int]
  BY <1>1, <1>2, <1>3
<1>5. u.last_rst_ts \in Nat /\ u.rst_interval_sum \in Int
  BY <1>1, <1>2, <1>3
<1>6. FallsBack(t, p) => ~(p.pay = <<>>) /\ p.dir \in Way
  BY Zenon DEF FallsBack
<1>7. /\ u.retransmissions \in Nat /\ u.payload \in Nat /\ u.ack_only \in Nat /\ u.packets \in Nat
      /\ u.retransmissions <= u.payload
      /\ u.ack_only + u.payload <= u.packets
      /\ u.retransmissions = 0 <=> t.retransmissions = 0 /\ ~FallsBack(t, p)
  <2>1. \/ /\ u.payload = t.payload + 0 /\ u.retransmissions = t.retransmissions + 0
           /\ u.ack_only = t.ack_only + 0 \/ u.ack_only = t.ack_only + 1
           /\ ~FallsBack(t, p)
        \/ /\ u.payload = t.payload + 1 /\ u.ack_only = t.ack_only + 0
           /\ \/ FallsBack(t, p) /\ u.retransmissions = t.retransmissions + 1
              \/ ~FallsBack(t, p) /\ u.retransmissions = t.retransmissions + 0
    BY <1>3, <1>6, Zenon DEF One
  <2>2. /\ u.retransmissions \in Nat /\ u.payload \in Nat /\ u.ack_only \in Nat
        /\ t.packets + 1 \in Nat
        /\ u.retransmissions <= u.payload
        /\ u.ack_only + u.payload <= t.packets + 1
        /\ u.retransmissions = 0 <=> t.retransmissions = 0 /\ u.retransmissions = t.retransmissions + 0
        /\ t.retransmissions + 1 # t.retransmissions + 0
    <3> PICK r \in Nat : r = t.retransmissions
      BY <1>1
    <3> PICK y \in Nat : y = t.payload
      BY <1>1
    <3> PICK a \in Nat : a = t.ack_only
      BY <1>1
    <3> PICK k \in Nat : k = t.packets
      BY <1>1
    <3>1. /\ r <= y /\ a + y <= k
          /\ \/ /\ u.payload = y + 0 /\ u.retransmissions = r + 0
                /\ u.ack_only = a + 0 \/ u.ack_only = a + 1
             \/ /\ u.payload = y + 1 /\ u.ack_only = a + 0
                /\ u.retransmissions = r + 1 \/ u.retransmissions = r + 0
      BY <1>1, <2>1, Zenon
    <3>2. /\ u.retransmissions \in Nat /\ u.payload \in Nat /\ u.ack_only \in Nat /\ k + 1 \in Nat
          /\ u.retransmissions <= u.payload /\ u.ack_only + u.payload <= k + 1
          /\ u.retransmissions = 0 <=> r = 0 /\ u.retransmissions = r + 0
          /\ r + 1 # r + 0
      BY <3>1
    <3> QED BY <3>2, Zenon
  <2> QED BY <1>3, <2>1, <2>2, Zenon
<1>8. \A d \in Way : /\ LatestPayload(d)'
                     /\ Ascends(d)' <=> Ascends(d) /\ ~(p.dir = d /\ FallsBack(t, p))
  BY PayloadStep, Zenon DEF t
<1>9. u.retransmissions = 0 <=> \A d \in Way : Ascends(d)'
  BY <1>1, <1>6, <1>7, <1>8, Zenon
<1>10. LatestReset' /\ ResetSpan'
  BY ResetStep
<1> QED BY <1>2, <1>3, <1>4, <1>5, <1>7, <1>8, <1>9, <1>10, Zenon DEF TcpInv, u

(* calc_protocol_tcp_update counts a retransmission exactly when payload   *)
(* of a direction falls back, whatever the memory does, and the intervals  *)
(* of resets are the time from the first to the last.                      *)
THEOREM TcpCountsAgree == Spec => []TcpCountersAgree
<1>1. Init => TcpInv
  <2> SUFFICES ASSUME Init PROVE TcpInv
    OBVIOUS
  <2>1. "tcp" \in DOMAIN flow /\ flow.tcp = NoTcp /\ arrivals = <<>>
    BY DEF Init
  <2>2. /\ flow.tcp.last_seq = [d \in Way |-> NoneYet]
        /\ flow.tcp.last_rst_ts = 0 /\ flow.tcp.rst_interval_sum = 0
        /\ flow.tcp.retransmissions = 0 /\ flow.tcp.payload = 0
        /\ flow.tcp.ack_only = 0 /\ flow.tcp.packets = 0
    BY <2>1 DEF NoTcp
  <2>3. Resets = {} /\ \A d : PayloadOf(d) = {}
    BY <2>1 DEF Resets, PayloadOf
  <2>4. LatestReset /\ ResetSpan
    BY <2>2, <2>3, Zenon DEF LatestReset, ResetSpan
  <2>5. \A d \in Way : LatestPayload(d) /\ Ascends(d)
    BY <2>2, <2>3 DEF LatestPayload, Ascends
  <2>6. arrivals \in Seq(Packets) /\ flow.tcp.last_seq \in [Way -> Int]
    BY <2>1, <2>2 DEF NoneYet
  <2> QED BY <2>1, <2>2, <2>4, <2>5, <2>6 DEF TcpInv
<1>2. TcpInv => TcpCountersAgree
  BY Zenon DEF TcpInv, TcpCountersAgree, Ascends, ResetSpan
<1>3. TcpInv /\ [Next]_vars => TcpInv'
  <2> SUFFICES ASSUME TcpInv, [Next]_vars PROVE TcpInv'
    OBVIOUS
  <2>1. CASE UNCHANGED <<flow, arrivals>>
    BY <2>1, ZenonT(40) DEF TcpInv, LatestPayload, Ascends, LatestReset, ResetSpan, PayloadOf, Resets, InOrder
  <2>2. (\E p \in Packets : Data(p)) \/ UNCHANGED <<flow, arrivals>>
    BY Zenon DEF Next, Close, vars
  <2> QED BY <2>1, <2>2, TcpInvStep
<1> QED BY <1>1, <1>2, <1>3, PTL DEF Spec
-----------------------------------------------------------------------------
(* The fields that lengths and sequences are computed from, and the room   *)
(* for them, which never shrinks: until the largest level, a flow that was *)
(* never denied memory has room for more than it has.                      *)
RoomInv ==
  /\ {"pool", "ring", "lengths", "bigrams", "last_class", "last_arrival_us", "payload"}
       \in SUBSET DOMAIN flow
  /\ arrivals \in Seq(Packets)
  /\ flow.pool \in Pool /\ flow.pool.seq_len = SeqLen[flow.pool.level]
  /\ NeverDenied => \/ flow.pool.level = Large
                    \/ /\ flow.pool.pkt_count = Len(arrivals)
                       /\ Len(arrivals) < flow.pool.seq_len

(* An upgrade succeeds with the n-th packet.                               *)
Upgraded(n) == UpgradeDue(CheckUpgrade(flow.pool)) /\ supply[n].granted

(* What a packet does to these fields.                                     *)
LEMMA RecordMoves ==
  ASSUME RoomInv, NEW p, Data(p), NEW n, n = Len(arrivals) + 1
  PROVE  LET counted == CheckUpgrade(flow.pool)
             room == flow'.pool.seq_len
         IN  /\ {"pool", "ring", "lengths", "bigrams", "last_class", "last_arrival_us", "payload"}
                  \in SUBSET DOMAIN flow'
             /\ flow'.pool = IF Upgraded(n) THEN Upgrade(counted, counted.level + 1, TRUE)
                             ELSE counted
             /\ \A r \in Ring : r \notin supply[n].lost =>
                  flow'.ring[r] = Newest(flow.ring[r] \o Pushes(flow, p)[r], room)
             /\ flow'.lengths = LengthUpdate(flow.lengths, p, room)
             /\ flow'.last_arrival_us = p.ts
             /\ flow'.bigrams = [flow.bigrams EXCEPT ![<<flow.last_class, SizeClass(p.len)>>] = @ + 1]
             /\ flow'.last_class = SizeClass(p.len)
<1> DEFINE counted == CheckUpgrade(flow.pool)
           made == MadeRoom(flow, n)
           pool == IF Upgraded(n) THEN Upgrade(counted, counted.level + 1, TRUE) ELSE counted
           ring == IF Upgraded(n)
                     THEN [q \in Ring |-> IF q \in supply[n].lost THEN <<>> ELSE flow.ring[q]]
                     ELSE flow.ring
<1>1. flow' = Collected(made, p)
  BY Zenon DEF Data
<1>2. made = [flow EXCEPT !.pool = pool, !.ring = ring]
  BY DEF MadeRoom, Upgraded
<1>3. /\ made.pool = pool /\ made.ring = ring /\ made.lengths = flow.lengths
      /\ made.bigrams = flow.bigrams /\ made.last_class = flow.last_class
      /\ made.last_arrival_us = flow.last_arrival_us /\ made.payload = flow.payload
  <2> HIDE DEF pool, ring, made
  <2> QED BY <1>2 DEF RoomInv
<1>4. Pushes(made, p) = Pushes(flow, p)
  <2> HIDE DEF made
  <2> QED BY <1>3, ZenonT(60) DEF Pushes
<1>6. \A r \in Ring : r \notin supply[n].lost => ring[r] = flow.ring[r]
  OBVIOUS
<1> HIDE DEF made, pool, ring
<1>5. /\ {"pool", "ring", "lengths", "bigrams", "last_class", "last_arrival_us", "payload"}
           \in SUBSET DOMAIN Collected(made, p)
      /\ Collected(made, p).pool = made.pool
      /\ Collected(made, p).ring =
           [r \in Ring |-> Newest(made.ring[r] \o Pushes(made, p)[r], made.pool.seq_len)]
      /\ Collected(made, p).lengths = LengthUpdate(made.lengths, p, made.pool.seq_len)
      /\ Collected(made, p).last_arrival_us = p.ts
      /\ Collected(made, p).bigrams
           = [made.bigrams EXCEPT ![<<made.last_class, SizeClass(p.len)>>] = @ + 1]
      /\ Collected(made, p).last_class = SizeClass(p.len)
  BY DEF Collected
<1>7. \A r \in Ring : r \notin supply[n].lost =>
        flow'.ring[r] = Newest(flow.ring[r] \o Pushes(flow, p)[r], flow'.pool.seq_len)
  <2> TAKE r \in Ring
  <2>1. flow'.ring[r] = Newest(ring[r] \o Pushes(flow, p)[r], flow'.pool.seq_len)
    BY <1>1, <1>3, <1>4, <1>5, ZenonT(40)
  <2> QED BY <1>6, <2>1, Zenon
<1> QED BY <1>1, <1>3, <1>5, <1>7, Zenon DEF pool, counted

LEMMA RoomStep ==
  ASSUME RoomInv, NEW p \in Packets, Data(p)
  PROVE  /\ RoomInv'
         /\ flow.pool.level = Large => flow'.pool.level = Large
         /\ flow.pool.seq_len \in Nat /\ flow'.pool.seq_len \in Nat
         /\ SeqLen[Tiny] \in Nat /\ SeqLen[Tiny] <= flow.pool.seq_len
         /\ flow.pool.seq_len <= flow'.pool.seq_len
         /\ flow'.pool.level = Large /\ flow.pool.level = Large
              => flow'.pool.seq_len = flow.pool.seq_len
<1> DEFINE counted == CheckUpgrade(flow.pool)
<1> PICK n \in Nat : n = Len(arrivals)
  BY DEF RoomInv
<1> PICK l \in Level : l = flow.pool.level
  BY DEF RoomInv, Pool
<1>1. /\ counted \in Pool /\ counted.level = l /\ counted.seq_len = SeqLen[l]
      /\ counted.pkt_count = CountedPackets(flow.pool)
      /\ counted.pkt_count \in 0 .. UIntMax
      /\ l < Large /\ flow.pool.pkt_count < UIntMax
           => counted.pkt_count = flow.pool.pkt_count + 1
  <2> PICK c \in Pool : c = flow.pool
    BY DEF RoomInv
  <2> QED BY CountedPool, SMT DEF RoomInv
<1>2. SeqLen[l] \in Nat \ {0} /\ SeqLen[l] < UIntMax /\ Large \in Int /\ l \in Int /\ l <= Large
  BY SeqLenGrows, PoolSizes DEF Level, Tiny, Large
<1>3. /\ arrivals' \in Seq(Packets) /\ Len(arrivals') = n + 1
      /\ supply' = supply
  BY DEF Data, RoomInv
<1>4. NeverDenied' => NeverDenied /\ supply[n + 1].granted
  <2>1. n + 1 \in 1 .. n + 1 /\ \A i \in 1 .. n : i \in 1 .. n + 1
    OBVIOUS
  <2> QED BY <1>3, <2>1, Zenon DEF NeverDenied
<1>5. SeqLen[Tiny] \in Nat /\ SeqLen[Tiny] <= SeqLen[l]
  BY SmallestLevel
<1>6. flow'.pool = IF Upgraded(n + 1) THEN Upgrade(counted, counted.level + 1, TRUE) ELSE counted
  BY RecordMoves, Zenon
<1>7. UpgradeDue(counted) <=> l < Large /\ counted.pkt_count >= Threshold(SeqLen[l])
  BY <1>1, Zenon DEF UpgradeDue
<1>8. Threshold(SeqLen[l]) \in Nat /\ Threshold(SeqLen[l]) <= SeqLen[l]
  BY <1>2, ThresholdBound
<1>9. NeverDenied => l = Large \/ (flow.pool.pkt_count = n /\ n < SeqLen[l])
  <2>1. /\ flow.pool.seq_len = SeqLen[flow.pool.level]
        /\ NeverDenied => \/ flow.pool.level = Large
                          \/ /\ flow.pool.pkt_count = Len(arrivals)
                             /\ Len(arrivals) < flow.pool.seq_len
    BY Zenon DEF RoomInv
  <2>2. n = Len(arrivals) /\ l = flow.pool.level
    OBVIOUS
  <2> QED BY <2>1, <2>2
<1>14. flow.pool.pkt_count = n /\ n < SeqLen[l] /\ l < Large => counted.pkt_count = n + 1
  <2>1. SeqLen[l] \in Int /\ UIntMax \in Int /\ SeqLen[l] < UIntMax
    BY <1>2, PoolSizes
  <2> SUFFICES ASSUME flow.pool.pkt_count = n, n < SeqLen[l], l < Large PROVE counted.pkt_count = n + 1
    OBVIOUS
  <2>2. n < UIntMax
    BY <2>1
  <2> HIDE DEF counted
  <2> QED BY <1>1, <2>2
<1>10. flow.pool.pkt_count \in 0 .. UIntMax
  BY DEF RoomInv, Pool
<1> HIDE DEF counted
<1>11. /\ {"pool", "ring", "lengths", "bigrams", "last_class", "last_arrival_us", "payload"}
            \in SUBSET DOMAIN flow'
  BY RecordMoves, Zenon
<1>12. CASE Upgraded(n + 1)
  <2>1. l < Large /\ l + 1 \in Level /\ SeqLen[l] < SeqLen[l + 1] /\ SeqLen[l + 1] \in Nat
    <3>1. l < Large
      BY <1>7, <1>12 DEF Upgraded, counted
    <3>2. l + 1 \in Level
      BY <3>1 DEF Level, Tiny, Large
    <3> QED BY <3>1, <3>2, SeqLenGrows
  <2>2. flow'.pool = PoolOfLevel(l + 1, counted.pkt_count)
    BY <1>1, <1>2, <1>6, <1>12 DEF Upgrade
  <2>3. /\ flow'.pool \in Pool /\ flow'.pool.level = l + 1
        /\ flow'.pool.pkt_count = counted.pkt_count /\ flow'.pool.seq_len = SeqLen[l + 1]
    BY <1>1, <2>1, <2>2, MadePool
  <2>4. NeverDenied' => counted.pkt_count = n + 1 /\ n + 1 < SeqLen[l + 1]
    <3> SUFFICES ASSUME NeverDenied' PROVE counted.pkt_count = n + 1 /\ n + 1 < SeqLen[l + 1]
      BY Zenon
    <3>1. NeverDenied
      BY <1>4
    <3>2. flow.pool.pkt_count = n /\ n < SeqLen[l]
      BY <1>2, <1>9, <2>1, <3>1
    <3> QED BY <1>2, <1>14, <2>1, <3>2
  <2>5. RoomInv'
    BY <1>3, <1>11, <2>3, <2>4, Zenon DEF RoomInv
  <2> QED BY <1>2, <1>5, <2>1, <2>3, <2>5 DEF RoomInv
<1>13. CASE ~Upgraded(n + 1)
  <2>1. flow'.pool = counted
    BY <1>6, <1>13, Zenon
  <2>2. NeverDenied' => l = Large \/ (counted.pkt_count = n + 1 /\ n + 1 < SeqLen[l])
    <3> SUFFICES ASSUME NeverDenied'
                 PROVE  l = Large \/ (counted.pkt_count = n + 1 /\ n + 1 < SeqLen[l])
      BY Zenon
    <3> SUFFICES ASSUME l # Large
                 PROVE  counted.pkt_count = n + 1 /\ n + 1 < SeqLen[l]
      OBVIOUS
    <3>1. NeverDenied /\ ~UpgradeDue(counted)
      BY <1>4, <1>13, Zenon DEF Upgraded, counted
    <3>2. l < Large /\ flow.pool.pkt_count = n /\ n < SeqLen[l]
      BY <1>2, <1>9, <3>1
    <3>3. counted.pkt_count = n + 1
      BY <1>14, <3>2
    <3> QED BY <1>2, <1>7, <1>8, <3>1, <3>2, <3>3
  <2>3. RoomInv'
    BY <1>1, <1>3, <1>11, <2>1, <2>2, Zenon DEF RoomInv
  <2> QED BY <1>1, <1>2, <1>5, <2>1, <2>3 DEF RoomInv
<1> QED BY <1>12, <1>13

(* The array starts with the lengths of the direction's packets.           *)
HoldsFirst(d) ==
  LET array == flow.lengths.pkt_lens[d]
      own   == OfWay(d)
  IN  \A i \in own : Rank(own, i) <= Len(array) => array[Rank(own, i)] = arrivals[i].len

(* The extremes of a direction are lengths of its packets and bound them.  *)
HasExtremes(d) ==
  LET stats == flow.lengths.len_stats[d]
      own   == OfWay(d)
  IN  /\ stats.min \in Int /\ stats.max \in Int
      /\ own = {} => stats.min = EmptyMin /\ stats.max = EmptyMax
      /\ own # {} => /\ \E g \in own : arrivals[g].len = stats.min
                     /\ \E g \in own : arrivals[g].len = stats.max
      /\ \A i \in own : stats.min <= arrivals[i].len /\ arrivals[i].len <= stats.max

(* An array as long as the direction has packets has dropped none.  It     *)
(* drops when it is full, which a flow that always got its memory only is  *)
(* at the largest level: nothing is kept after what was dropped.           *)
ArrayInv(d) ==
  LET array == flow.lengths.pkt_lens[d]
      count == flow.lengths.dir_packets[d]
  IN  /\ array \in Seq(Nat) /\ flow.lengths.dir_bytes[d] \in Nat
      /\ count = Cardinality(OfWay(d))
      /\ Len(array) <= count
      /\ Len(array) = count => Total(array) = flow.lengths.dir_bytes[d]
      /\ Len(array) # count => Len(array) >= SeqLen[Tiny]
      /\ NeverDenied /\ Len(array) # count
           => flow.pool.level = Large /\ Len(array) >= flow.pool.seq_len
      /\ NeverDenied \/ Len(array) = count => HoldsFirst(d)

LEMMA EmptyBounds == EmptyMin \in Nat /\ EmptyMax \in Int /\ EmptyMax < 0
BY SMT DEF EmptyMin, EmptyMax

LEMMA WayGrows ==
  ASSUME arrivals \in Seq(Packets), NEW p \in Packets, Data(p),
         NEW n \in Nat, n = Len(arrivals), NEW d \in Way
  PROVE  /\ OfWay(d) \in SUBSET (1 .. n)
         /\ OfWay(d)' = OfWay(d) \cup (IF p.dir = d THEN {n + 1} ELSE {})
         /\ \A i \in OfWay(d) : arrivals'[i].len = arrivals[i].len /\ arrivals[i].len \in Nat
         /\ arrivals'[n + 1].len = p.len /\ p.len \in Nat /\ p.len <= EmptyMin
<1>1. /\ Len(arrivals') = n + 1 /\ arrivals'[n + 1] = p
      /\ \A i \in 1 .. n : arrivals'[i] = arrivals[i]
  BY PacketArrives
<1>2. /\ \A i \in 1 .. n + 1 : i \in 1 .. n \/ i = n + 1
      /\ \A i \in 1 .. n : i \in 1 .. n + 1 /\ arrivals[i] \in Packets
      /\ n + 1 \in 1 .. n + 1
  OBVIOUS
<1>3. \A q \in Packets : q.len \in Nat /\ q.len <= EmptyMin
  <2>1. \A q \in Packets : q.len \in 0 .. EmptyMin
    BY RecordConstants, Zenon
  <2> QED BY <2>1, EmptyBounds
<1>4. /\ OfWay(d) = {i \in 1 .. n : arrivals[i].dir = d}
      /\ OfWay(d)' = {i \in 1 .. n + 1 : arrivals'[i].dir = d}
  BY <1>1, Zenon DEF OfWay
<1>5. OfWay(d) \in SUBSET (1 .. n)
  BY <1>4
<1>6. OfWay(d)' = OfWay(d) \cup (IF p.dir = d THEN {n + 1} ELSE {})
  <2>1. CASE p.dir = d
    <3>1. OfWay(d)' = OfWay(d) \cup {n + 1}
      BY <1>1, <1>2, <1>4, <2>1, ZenonT(40)
    <3> QED BY <2>1, <3>1, Zenon
  <2>2. CASE p.dir # d
    <3>1. OfWay(d)' = OfWay(d)
      BY <1>1, <1>2, <1>4, <2>2, Zenon
    <3> QED BY <2>2, <3>1, Zenon
  <2> QED BY <2>1, <2>2
<1> QED BY <1>1, <1>2, <1>3, <1>5, <1>6, Zenon

(* calc_packet_length_stats and the counters of a direction.               *)
LEMMA LengthMoves ==
  ASSUME RoomInv, NEW p, Data(p), NEW d \in Way
  PROVE  LET l == flow.lengths  m == flow'.lengths
         IN  /\ p.dir # d => /\ m.pkt_lens[d] = l.pkt_lens[d]
                             /\ m.dir_packets[d] = l.dir_packets[d] + 0
                             /\ m.dir_bytes[d] = l.dir_bytes[d] + 0
                             /\ m.len_stats[d] = l.len_stats[d]
             /\ p.dir = d => /\ m.pkt_lens[d] = Stored(l.pkt_lens[d], p.len, flow'.pool.seq_len)
                             /\ m.dir_packets[d] = l.dir_packets[d] + 1
                             /\ m.dir_bytes[d] = l.dir_bytes[d] + p.len
                             /\ m.len_stats[d].min = Min({l.len_stats[d].min, p.len})
                             /\ m.len_stats[d].max = Max({l.len_stats[d].max, p.len})
<1> DEFINE l == flow.lengths  m == flow'.lengths  room == flow'.pool.seq_len
<1>1. m = LengthUpdate(l, p, room)
  BY RecordMoves, Zenon
<1> HIDE DEF l, m, room
<1>2. /\ m.pkt_lens = StoredByWay(l.pkt_lens, p.dir, p.len, room)
      /\ m.dir_packets = AddedByWay(l.dir_packets, p.dir, 1)
      /\ m.dir_bytes = AddedByWay(l.dir_bytes, p.dir, p.len)
      /\ m.len_stats = SampledByWay(l.len_stats, p.dir, p.len)
  BY <1>1 DEF LengthUpdate
<1>3. /\ p.dir # d => /\ m.pkt_lens[d] = l.pkt_lens[d]
                      /\ m.dir_packets[d] = l.dir_packets[d] + 0
                      /\ m.dir_bytes[d] = l.dir_bytes[d] + 0
                      /\ m.len_stats[d] = l.len_stats[d]
      /\ p.dir = d => /\ m.pkt_lens[d] = Stored(l.pkt_lens[d], p.len, room)
                      /\ m.dir_packets[d] = l.dir_packets[d] + 1
                      /\ m.dir_bytes[d] = l.dir_bytes[d] + p.len
                      /\ m.len_stats[d] = Sampled(l.len_stats[d], p.len)
  BY <1>2 DEF StoredByWay, AddedByWay, SampledByWay
<1>4. \A s, x : /\ Sampled(s, x).min = Min({s.min, x})
                /\ Sampled(s, x).max = Max({s.max, x})
  BY DEF Sampled
<1>5. p.dir = d => /\ m.len_stats[d].min = Min({l.len_stats[d].min, p.len})
                   /\ m.len_stats[d].max = Max({l.len_stats[d].max, p.len})
  BY <1>3, <1>4
<1> QED BY <1>3, <1>5 DEF l, m, room

LEMMA ExtremesStep ==
  ASSUME RoomInv, NEW p \in Packets, Data(p), NEW d \in Way, HasExtremes(d)
  PROVE  HasExtremes(d)'
<1> PICK n \in Nat : n = Len(arrivals)
  BY DEF RoomInv
<1> DEFINE S == OfWay(d)
           lo == flow.lengths.len_stats[d].min
           hi == flow.lengths.len_stats[d].max
           lo1 == flow'.lengths.len_stats[d].min
           hi1 == flow'.lengths.len_stats[d].max
<1>0. arrivals \in Seq(Packets)
  BY DEF RoomInv
<1>1. /\ S \in SUBSET (1 .. n)
      /\ OfWay(d)' = S \cup (IF p.dir = d THEN {n + 1} ELSE {})
      /\ \A i \in S : arrivals'[i].len = arrivals[i].len /\ arrivals[i].len \in Nat
      /\ arrivals'[n + 1].len = p.len /\ p.len \in Nat /\ p.len <= EmptyMin
  BY <1>0, WayGrows
<1>2. /\ lo \in Int /\ hi \in Int
      /\ S = {} => lo = EmptyMin /\ hi = EmptyMax
      /\ S # {} => /\ \E g \in S : arrivals[g].len = lo
                   /\ \E g \in S : arrivals[g].len = hi
      /\ \A i \in S : lo <= arrivals[i].len /\ arrivals[i].len <= hi
  BY Zenon DEF HasExtremes
<1>3. CASE p.dir # d
  <2>1. OfWay(d)' = S
    BY <1>1, <1>3, Zenon
  <2>2. lo1 = lo /\ hi1 = hi
    BY <1>3, LengthMoves, Zenon
  <2> HIDE DEF S, lo, hi
  <2> QED BY <1>1, <1>2, <2>1, <2>2, Zenon DEF HasExtremes
<1>4. CASE p.dir = d
  <2>1. OfWay(d)' = S \cup {n + 1}
    BY <1>1, <1>4, Zenon
  <2>2. lo1 = Min({lo, p.len}) /\ hi1 = Max({hi, p.len})
    BY <1>4, LengthMoves, Zenon
  <2> HIDE DEF S, lo, hi, lo1, hi1
  <2>3. /\ lo1 = (IF lo <= p.len THEN lo ELSE p.len)
        /\ hi1 = (IF hi >= p.len THEN hi ELSE p.len)
    <3>1. p.len \in Int
      BY <1>1
    <3> QED BY <1>2, <2>2, <3>1, MinOfTwo, MaxOfTwo, Zenon
  <2>4. /\ lo1 \in Int /\ hi1 \in Int
        /\ lo1 <= lo /\ hi <= hi1 /\ lo1 <= p.len /\ p.len <= hi1
        /\ lo1 = p.len \/ (S # {} /\ lo1 = lo)
        /\ hi1 = p.len \/ (S # {} /\ hi1 = hi)
    <3>1. S = {} => lo1 = p.len /\ hi1 = p.len
      BY <1>1, <1>2, <2>3, EmptyBounds
    <3>2. /\ lo1 \in Int /\ hi1 \in Int /\ lo1 <= lo /\ hi <= hi1 /\ lo1 <= p.len /\ p.len <= hi1
          /\ lo1 = p.len \/ lo1 = lo
          /\ hi1 = p.len \/ hi1 = hi
      BY <1>1, <1>2, <2>3
    <3> QED BY <3>1, <3>2, Zenon
  <2>5. \A i \in S \cup {n + 1} : lo1 <= arrivals'[i].len /\ arrivals'[i].len <= hi1
    <3>1. ASSUME NEW i \in S PROVE lo1 <= arrivals'[i].len /\ arrivals'[i].len <= hi1
      <4>1. /\ arrivals'[i].len = arrivals[i].len /\ arrivals[i].len \in Nat
            /\ lo <= arrivals[i].len /\ arrivals[i].len <= hi
        BY <1>1, <1>2
      <4> QED BY <1>2, <2>4, <4>1
    <3> QED BY <1>1, <2>4, <3>1, Zenon
  <2>6. /\ \E g \in S \cup {n + 1} : arrivals'[g].len = lo1
        /\ \E g \in S \cup {n + 1} : arrivals'[g].len = hi1
    BY <1>1, <1>2, <2>4, Zenon
  <2>7. S \cup {n + 1} # {}
    BY Zenon
  <2> QED BY <2>1, <2>4, <2>5, <2>6, <2>7, Zenon DEF HasExtremes, lo1, hi1
<1> QED BY <1>3, <1>4

(* A position after those of a set.                                        *)
LEMMA PositionAdded ==
  ASSUME NEW n \in Nat, NEW S \in SUBSET (1 .. n)
  PROVE  /\ n + 1 \in Nat /\ S \cup {n + 1} \in SUBSET (1 .. n + 1)
         /\ n + 1 \in S \cup {n + 1} /\ \A j \in S \cup {n + 1} : j <= n + 1
OBVIOUS

(* A packet keeps what the array says of the direction.                    *)
LEMMA ArrayStep ==
  ASSUME RoomInv, NEW p \in Packets, Data(p), NEW d \in Way, ArrayInv(d)
  PROVE  ArrayInv(d)'
<1> PICK n \in Nat : n = Len(arrivals)
  BY DEF RoomInv
<1> DEFINE S == OfWay(d)
           old == flow.lengths.pkt_lens[d]
           new == flow'.lengths.pkt_lens[d]
           c == flow.lengths.dir_packets[d]
           c1 == flow'.lengths.dir_packets[d]
           b == flow.lengths.dir_bytes[d]
           b1 == flow'.lengths.dir_bytes[d]
           room == flow'.pool.seq_len
           top == flow.pool.level = Large
           top1 == flow'.pool.level = Large
<1>0. arrivals \in Seq(Packets)
  BY DEF RoomInv
<1>1. /\ S \in SUBSET (1 .. n)
      /\ OfWay(d)' = S \cup (IF p.dir = d THEN {n + 1} ELSE {})
      /\ \A i \in S : arrivals'[i].len = arrivals[i].len
      /\ arrivals'[n + 1].len = p.len /\ p.len \in Nat
  BY <1>0, WayGrows
<1>2. /\ old \in Seq(Nat) /\ b \in Nat
      /\ c = Cardinality(S)
      /\ Len(old) <= c
      /\ Len(old) = c => Total(old) = b
      /\ Len(old) # c => Len(old) >= SeqLen[Tiny]
      /\ NeverDenied /\ Len(old) # c => top /\ Len(old) >= flow.pool.seq_len
      /\ NeverDenied \/ Len(old) = c =>
           \A i \in S : Rank(S, i) <= Len(old) => old[Rank(S, i)] = arrivals[i].len
  BY Zenon DEF ArrayInv, HoldsFirst
<1>3. /\ RoomInv'
      /\ top => top1
      /\ flow.pool.seq_len \in Nat /\ room \in Nat
      /\ SeqLen[Tiny] \in Nat /\ SeqLen[Tiny] <= flow.pool.seq_len
      /\ flow.pool.seq_len <= room
      /\ top1 /\ top => room = flow.pool.seq_len
  BY RoomStep, Zenon
<1>4. Len(arrivals') = n + 1 /\ (NeverDenied' => NeverDenied)
  <2>1. Len(arrivals') = n + 1 /\ supply' = supply
    BY <1>0, PacketArrives DEF Data
  <2>2. \A i \in 1 .. n : i \in 1 .. n + 1
    OBVIOUS
  <2> QED BY <2>1, <2>2, Zenon DEF NeverDenied
<1>5. NeverDenied' => top1 \/ n + 1 < room
  BY <1>3, <1>4, Zenon DEF RoomInv
<1>6. /\ IsFiniteSet(S) /\ c \in Nat /\ c <= n
      /\ \A i \in S : Rank(S, i) \in Nat /\ 1 <= Rank(S, i) /\ Rank(S, i) <= c
  <2>1. /\ IsFiniteSet(S) /\ Cardinality(S) \in Nat
        /\ \A i \in S : Rank(S, i) \in Nat /\ 1 <= Rank(S, i) /\ Rank(S, i) <= Cardinality(S)
    BY <1>1, RanksIn
  <2>2. Cardinality(S) <= n
    BY <1>1, CountOfPositions
  <2> QED BY <1>2, <2>1, <2>2, Zenon
<1>7. /\ p.dir # d => new = old /\ c1 = c /\ b1 = b
      /\ p.dir = d => new = Stored(old, p.len, room) /\ c1 = c + 1 /\ b1 = b + p.len
  <2>1. c + 0 = c /\ b + 0 = b
    BY <1>2, <1>6
  <2> QED BY <2>1, LengthMoves, Zenon
<1> DEFINE Firsts(a, T) == \A i \in T : Rank(T, i) <= Len(a) => a[Rank(T, i)] = arrivals'[i].len
<1> SUFFICES /\ new \in Seq(Nat) /\ b1 \in Nat
             /\ c1 = Cardinality(OfWay(d)')
             /\ Len(new) <= c1
             /\ Len(new) = c1 => Total(new) = b1
             /\ Len(new) # c1 => Len(new) >= SeqLen[Tiny]
             /\ NeverDenied' /\ Len(new) # c1 => top1 /\ Len(new) >= room
             /\ NeverDenied' \/ Len(new) = c1 => Firsts(new, OfWay(d)')
  BY Zenon DEF ArrayInv, HoldsFirst
<1> PICK k \in Nat : k = Len(old)
  BY <1>2
<1>8. NeverDenied \/ k = c => Firsts(old, S)
  BY <1>1, <1>2, Zenon
<1>9. CASE p.dir # d
  <2>1. OfWay(d)' = S /\ new = old /\ c1 = c /\ b1 = b
    BY <1>1, <1>7, <1>9, Zenon
  <2>2. NeverDenied' /\ k # c => top1 /\ k >= room
    BY <1>2, <1>3, <1>4, Zenon
  <2> HIDE DEF S, old, new, c, c1, b, b1, room, top, top1, Firsts
  <2> QED BY <1>2, <1>4, <1>8, <2>1, <2>2, Zenon
<1>10. CASE p.dir = d /\ k < room
  <2>1. OfWay(d)' = S \cup {n + 1} /\ c1 = c + 1 /\ b1 = b + p.len /\ new = Append(old, p.len)
    BY <1>1, <1>7, <1>10, Zenon DEF Stored
  <2>2. /\ Cardinality(S \cup {n + 1}) = c + 1
        /\ \A i \in S : Rank(S \cup {n + 1}, i) = Rank(S, i)
    BY <1>1, <1>2, RanksKept, Zenon
  <2>3. NeverDenied' => k = c
    <3>1. SUFFICES ASSUME NeverDenied', k # c PROVE FALSE
      BY Zenon
    <3>2. top /\ k >= flow.pool.seq_len
      BY <1>2, <1>4, <3>1, Zenon
    <3>3. room = flow.pool.seq_len
      BY <1>3, <3>2, Zenon
    <3> QED BY <1>3, <1>10, <3>2, <3>3
  <2> HIDE DEF S, old, new, c, c1, b, b1, room, top, top1
  <2>4. /\ new \in Seq(Nat) /\ Len(new) = k + 1 /\ new[k + 1] = p.len
        /\ \A j \in 1 .. k : new[j] = old[j]
    BY <1>1, <1>2, <2>1
  <2>5. /\ b1 \in Nat /\ k + 1 <= c + 1 /\ (k + 1 = c + 1 <=> k = c)
        /\ k # c => k + 1 >= SeqLen[Tiny]
    BY <1>1, <1>2, <1>3, <1>6, <2>1, SMTT(30)
  <2>6. k = c => Total(new) = b1
    <3>1. old \in Seq(Int) /\ p.len \in Int
      BY <1>1, <1>2
    <3>2. Total(new) = Total(old) + p.len
      BY <2>1, <3>1, TotalOfAppend
    <3> QED BY <1>2, <2>1, <3>2, Zenon
  <2>7. ASSUME k = c PROVE Firsts(new, S \cup {n + 1})
    <3>1. Firsts(old, S)
      BY <1>8, <2>7, Zenon
    <3>2. ASSUME NEW i \in S
          PROVE  new[Rank(S \cup {n + 1}, i)] = arrivals'[i].len
      <4>1. Rank(S, i) \in 1 .. k
        BY <1>6, <2>7
      <4>2. Rank(S, i) <= Len(old)
        BY <4>1
      <4>3. old[Rank(S, i)] = arrivals'[i].len
        BY <3>1, <4>2, Zenon
      <4> QED BY <2>2, <2>4, <4>1, <4>3, Zenon
    <3>3. Rank(S \cup {n + 1}, n + 1) = k + 1
      <4>0. S \in SUBSET (1 .. n)
        BY <1>1, Zenon
      <4>1. n + 1 \in Nat /\ S \cup {n + 1} \in SUBSET (1 .. n + 1)
            /\ n + 1 \in S \cup {n + 1} /\ \A j \in S \cup {n + 1} : j <= n + 1
        BY <4>0, PositionAdded, Zenon
      <4>2. Rank(S \cup {n + 1}, n + 1) = Cardinality(S \cup {n + 1})
        BY <4>1, RanksIn
      <4> QED BY <2>2, <2>7, <4>2, Zenon
    <3> QED BY <1>1, <2>4, <3>2, <3>3, Zenon
  <2> HIDE DEF Firsts
  <2> QED BY <2>1, <2>2, <2>3, <2>4, <2>5, <2>6, <2>7, Zenon
<1>11. CASE p.dir = d /\ ~(k < room)
  <2>1. OfWay(d)' = S \cup {n + 1} /\ c1 = c + 1 /\ b1 = b + p.len /\ new = old
    BY <1>1, <1>7, <1>11, Zenon DEF Stored
  <2>2. /\ Cardinality(S \cup {n + 1}) = c + 1
        /\ \A i \in S : Rank(S \cup {n + 1}, i) = Rank(S, i)
    BY <1>1, <1>2, RanksKept, Zenon
  <2>3. NeverDenied' => top1
    BY <1>2, <1>3, <1>5, <1>6, <1>11
  <2> HIDE DEF S, old, new, c, c1, b, b1, room, top, top1
  <2>4. b1 \in Nat /\ k <= c + 1 /\ k # c + 1 /\ k >= room /\ k >= SeqLen[Tiny]
    BY <1>1, <1>2, <1>3, <1>6, <1>11, <2>1, SMTT(30)
  <2>5. ASSUME NeverDenied PROVE Firsts(old, S \cup {n + 1})
    <3>1. Firsts(old, S)
      BY <1>8, <2>5, Zenon
    <3>2. ASSUME Rank(S \cup {n + 1}, n + 1) <= k PROVE FALSE
      <4>0. S \in SUBSET (1 .. n)
        BY <1>1, Zenon
      <4>1. n + 1 \in Nat /\ S \cup {n + 1} \in SUBSET (1 .. n + 1)
            /\ n + 1 \in S \cup {n + 1} /\ \A j \in S \cup {n + 1} : j <= n + 1
        BY <4>0, PositionAdded, Zenon
      <4>2. Rank(S \cup {n + 1}, n + 1) = Cardinality(S \cup {n + 1})
        BY <4>1, RanksIn
      <4>3. c + 1 <= k
        BY <2>2, <3>2, <4>2, Zenon
      <4> QED BY <1>2, <1>6, <4>3
    <3> QED BY <2>2, <3>1, <3>2, Zenon
  <2> HIDE DEF Firsts
  <2> QED BY <1>2, <1>4, <2>1, <2>2, <2>3, <2>4, <2>5, Zenon
<1> QED BY <1>9, <1>10, <1>11

(* There is no report, or it is what the state of a flow with packets      *)
(* comes to.                                                               *)
RecordIs ==
  \/ record = NoRecord
  \/ /\ \E allocated \in BOOLEAN : record = Computed(flow, allocated)
     /\ arrivals # << >>

(* The inductive invariant of the lengths.                                 *)
LengthsInv == RoomInv /\ RecordIs /\ \A d \in Way : ArrayInv(d) /\ HasExtremes(d)

(* A report is made of the counters, and nothing changes after it.         *)
LEMMA RecordStep ==
  ASSUME RecordIs, [Next]_vars
  PROVE  /\ RecordIs'
         /\ (\E p \in Packets : Data(p)) \/ UNCHANGED <<supply, flow, arrivals>>
<1>1. CASE \E p \in Packets : Data(p)
  <2>1. ~record.closed /\ record' = record
    BY <1>1, Zenon DEF Data
  <2>2. \A allocated \in BOOLEAN : Computed(flow, allocated).closed
    BY DEF Computed
  <2>3. record = NoRecord
    BY <2>1, <2>2, Zenon DEF RecordIs
  <2> QED BY <1>1, <2>1, <2>3, Zenon DEF RecordIs
<1>2. CASE Close
  BY <1>2, Zenon DEF Close, RecordIs
<1>3. CASE UNCHANGED vars
  <2>1. flow' = flow /\ record' = record /\ UNCHANGED <<supply, flow, arrivals>>
    BY <1>3 DEF vars
  <2> QED BY <2>1, Zenon DEF RecordIs
<1> QED BY <1>1, <1>2, <1>3 DEF Next

LEMMA LengthsInvInit == Init => LengthsInv
<1> SUFFICES ASSUME Init PROVE LengthsInv
  OBVIOUS
<1>1. /\ {"pool", "ring", "lengths", "bigrams", "last_class", "last_arrival_us", "payload"}
            \in SUBSET DOMAIN flow
      /\ flow.pool = PoolOfLevel(Tiny, 0) /\ flow.lengths = NoLengths
      /\ arrivals = <<>> /\ record = NoRecord
  BY DEF Init
<1>2. Tiny \in Level /\ 0 \in 0 .. UIntMax /\ SeqLen[Tiny] \in Nat \ {0}
  BY SeqLenGrows, PoolSizes DEF Tiny, Large, Level
<1>3. /\ flow.pool \in Pool /\ flow.pool.level = Tiny /\ flow.pool.pkt_count = 0
      /\ flow.pool.seq_len = SeqLen[Tiny]
  BY <1>1, <1>2, MadePool
<1>4. RoomInv
  <2>1. arrivals \in Seq(Packets) /\ Len(arrivals) = 0 /\ 0 < SeqLen[Tiny]
    BY <1>1, <1>2
  <2> QED BY <1>1, <1>3, <2>1, Zenon DEF RoomInv
<1>5. ASSUME NEW d \in Way PROVE ArrayInv(d) /\ HasExtremes(d)
  <2>1. OfWay(d) = {}
    BY <1>1 DEF OfWay
  <2>2. /\ flow.lengths.pkt_lens[d] = <<>> /\ flow.lengths.dir_packets[d] = 0
        /\ flow.lengths.dir_bytes[d] = 0 /\ flow.lengths.len_stats[d] = NoSamples
    BY <1>1 DEF NoLengths
  <2>3. HasExtremes(d)
    <3>1. NoSamples.min = EmptyMin /\ NoSamples.max = EmptyMax
      BY DEF NoSamples
    <3> QED BY <2>1, <2>2, <3>1, EmptyBounds DEF HasExtremes
  <2>4. Cardinality({}) = 0 /\ Len(<< >>) = 0 /\ << >> \in Seq(Nat) /\ 0 \in Nat /\ 0 <= 0
    <3>1. Len(<< >>) = 0 /\ << >> \in Seq(Nat) /\ 0 \in Nat /\ 0 <= 0
      OBVIOUS
    <3>2. Cardinality({}) = 0
      <4>1. {} \in SUBSET (1 .. 0) /\ 0 \in Nat
        OBVIOUS
      <4> QED BY <4>1, RanksIn
    <3> QED BY <3>1, <3>2
  <2>5. ArrayInv(d)
    BY <2>1, <2>2, <2>4, TotalOfNone, Zenon DEF ArrayInv, HoldsFirst
  <2> QED BY <2>3, <2>5
<1> QED BY <1>1, <1>4, <1>5, Zenon DEF LengthsInv, RecordIs

(* What the report says of a direction's lengths.                          *)
LEMMA SectionOf ==
  ASSUME NEW l, NEW d, NEW max_len, PktLengthSection(l, d, max_len) # << >>
  PROVE  LET section == PktLengthSection(l, d, max_len)
         IN  /\ l.pkt_lens[d] # << >>
             /\ section[1].mean = Mean(l.pkt_lens[d])
             /\ section[1].min = l.len_stats[d].min
             /\ section[1].max = l.len_stats[d].max
<1> DEFINE lens == l.pkt_lens[d]
<1>1. Fits(lens, max_len)
  BY DEF PktLengthSection
<1>2. \A s, a, b : "mean" \in DOMAIN s /\ "min" \in DOMAIN s /\ "max" \in DOMAIN s =>
        LET t == [s EXCEPT !.min = a, !.max = b]
        IN  t.mean = s.mean /\ t.min = a /\ t.max = b
  OBVIOUS
<1>3. /\ "mean" \in DOMAIN UintSummary(lens) /\ "min" \in DOMAIN UintSummary(lens)
      /\ "max" \in DOMAIN UintSummary(lens) /\ UintSummary(lens).mean = Mean(lens)
  BY DEF UintSummary, Summary
<1>4. PktLengthSection(l, d, max_len)[1]
        = [UintSummary(lens) EXCEPT !.min = l.len_stats[d].min, !.max = l.len_stats[d].max]
  BY <1>1 DEF PktLengthSection
<1>5. lens # << >>
  BY <1>1 DEF Fits
<1> HIDE DEF lens
<1>6. /\ PktLengthSection(l, d, max_len)[1].mean = Mean(lens)
      /\ PktLengthSection(l, d, max_len)[1].min = l.len_stats[d].min
      /\ PktLengthSection(l, d, max_len)[1].max = l.len_stats[d].max
  BY <1>2, <1>3, <1>4, Zenon
<1> QED BY <1>5, <1>6 DEF lens

LEMMA LengthsReported == LengthsInv => LengthsExact
<1> SUFFICES ASSUME LengthsInv, record.closed, NEW d \in Way
             PROVE  LET own     == OfWay(d)
                        array   == flow.lengths.pkt_lens[d]
                        section == record.basic.pkt_length[d]
                        whole   == Len(array) = Cardinality(own)
                    IN  /\ Len(array) <= Cardinality(own)
                        /\ ~whole => Len(array) >= SeqLen[Tiny]
                        /\ whole \/ NeverDenied =>
                             \A i \in own : Rank(own, i) <= Len(array)
                                            => array[Rank(own, i)] = arrivals[i].len
                        /\ section # <<>> =>
                             /\ whole => section[1].mean = record.basic.ratios.dir_avg[d]
                             /\ section[1].min = Min({arrivals[i].len : i \in own})
                             /\ section[1].max = Max({arrivals[i].len : i \in own})
  BY Zenon DEF LengthsExact
<1> DEFINE own     == OfWay(d)
           array   == flow.lengths.pkt_lens[d]
           section == record.basic.pkt_length[d]
           stats   == flow.lengths.len_stats[d]
           room    == TempLen(flow.pool.seq_len)
<1>1. ArrayInv(d) /\ HasExtremes(d) /\ RoomInv /\ RecordIs
  BY Zenon DEF LengthsInv
<1>2. PICK allocated \in BOOLEAN : record = Computed(flow, allocated)
  <2>1. ~NoRecord.closed
    BY DEF NoRecord
  <2> QED BY <1>1, <2>1, Zenon DEF RecordIs
<1>3. /\ section = PktLengthSection(flow.lengths, d, room)
      /\ record.basic.ratios.dir_avg[d]
           = Ratio(flow.lengths.dir_bytes[d], flow.lengths.dir_packets[d])
  <2>1. record.basic = LengthSections(flow.lengths, room)
    BY <1>2 DEF Computed
  <2>2. /\ record.basic.pkt_length = [e \in Way |-> PktLengthSection(flow.lengths, e, room)]
        /\ record.basic.ratios = RatiosSection(flow.lengths)
    BY <2>1 DEF LengthSections
  <2>3. record.basic.ratios.dir_avg
          = [e \in Way |-> Ratio(flow.lengths.dir_bytes[e], flow.lengths.dir_packets[e])]
    BY <2>2 DEF RatiosSection
  <2> QED BY <2>2, <2>3
<1>4. /\ array \in Seq(Nat) /\ Len(array) <= Cardinality(own)
      /\ flow.lengths.dir_packets[d] = Cardinality(own)
      /\ Len(array) = Cardinality(own) => Total(array) = flow.lengths.dir_bytes[d]
      /\ Len(array) # Cardinality(own) => Len(array) >= SeqLen[Tiny]
      /\ NeverDenied \/ Len(array) = Cardinality(own) =>
           \A i \in own : Rank(own, i) <= Len(array) => array[Rank(own, i)] = arrivals[i].len
  BY <1>1, Zenon DEF ArrayInv, HoldsFirst
<1> PICK n \in Nat : n = Len(arrivals)
  BY <1>1 DEF RoomInv
<1>5. own \in SUBSET (1 .. n) /\ \A i \in own : arrivals[i].len \in Nat
  <2>1. own \in SUBSET (1 .. n)
    BY DEF OfWay
  <2>2. \A i \in 1 .. n : arrivals[i] \in Packets
    BY <1>1 DEF RoomInv
  <2>3. \A q \in Packets : q.len \in 0 .. EmptyMin
    BY RecordConstants, Zenon
  <2>4. \A q \in Packets : q.len \in Nat
    BY <2>3, EmptyBounds
  <2> QED BY <2>1, <2>2, <2>4
<1>6. ASSUME section # << >>
      PROVE  /\ Len(array) = Cardinality(own) => section[1].mean = record.basic.ratios.dir_avg[d]
             /\ section[1].min = Min({arrivals[i].len : i \in own})
             /\ section[1].max = Max({arrivals[i].len : i \in own})
  <2>1. /\ array # << >> /\ section[1].mean = Mean(array)
        /\ section[1].min = stats.min /\ section[1].max = stats.max
    <3>1. PktLengthSection(flow.lengths, d, room) # << >>
      BY <1>3, <1>6, Zenon
    <3> HIDE DEF room
    <3>2. /\ array # << >>
          /\ PktLengthSection(flow.lengths, d, room)[1].mean = Mean(array)
          /\ PktLengthSection(flow.lengths, d, room)[1].min = stats.min
          /\ PktLengthSection(flow.lengths, d, room)[1].max = stats.max
      BY <3>1, SectionOf
    <3> HIDE DEF section, array, stats
    <3> QED BY <1>3, <3>2, Zenon
  <2>2. Len(array) > 0
    BY <1>4, <2>1
  <2>3. own # {}
    <3>1. Cardinality(own) \in Nat /\ (Cardinality(own) = 0 <=> own = {})
      BY <1>5, RanksIn
    <3> HIDE DEF own, array
    <3> QED BY <1>4, <2>2, <3>1
  <2>4. Len(array) = Cardinality(own) => section[1].mean = record.basic.ratios.dir_avg[d]
    BY <1>3, <1>4, <2>1, <2>2, Zenon DEF Ratio, Mean
  <2> DEFINE lens == {arrivals[i].len : i \in own}
  <2>5. /\ lens \in SUBSET Int /\ stats.min \in lens /\ stats.max \in lens
        /\ \A x \in lens : stats.min <= x /\ x <= stats.max
    <3>1. /\ \E g \in own : arrivals[g].len = stats.min
          /\ \E g \in own : arrivals[g].len = stats.max
          /\ \A i \in own : stats.min <= arrivals[i].len /\ arrivals[i].len <= stats.max
      BY <1>1, <2>3, Zenon DEF HasExtremes
    <3> HIDE DEF own, stats
    <3>2. /\ \A i \in own : arrivals[i].len \in lens
          /\ \A x \in lens : \E i \in own : x = arrivals[i].len
      BY Zenon
    <3>3. lens \in SUBSET Int
      BY <1>5
    <3> HIDE DEF lens
    <3>4. stats.min \in lens /\ stats.max \in lens
      BY <3>1, <3>2, Zenon
    <3> QED BY <3>1, <3>2, <3>3, <3>4, Zenon
  <2> HIDE DEF lens, stats
  <2>6. Min(lens) = stats.min /\ Max(lens) = stats.max
    BY <2>5, MinOf, MaxOf
  <2> QED BY <2>1, <2>4, <2>6 DEF lens
<1> HIDE DEF own, array, section
<1>7. /\ Len(array) <= Cardinality(own)
      /\ Len(array) # Cardinality(own) => Len(array) >= SeqLen[Tiny]
  BY <1>4
<1> QED BY <1>4, <1>6, <1>7, Zenon DEF own, array, section

LEMMA LengthsStep == LengthsInv /\ [Next]_vars => LengthsInv'
<1> SUFFICES ASSUME LengthsInv, [Next]_vars PROVE LengthsInv'
  OBVIOUS
<1>1. RoomInv /\ RecordIs /\ \A d \in Way : ArrayInv(d) /\ HasExtremes(d)
  BY Zenon DEF LengthsInv
<1>2. RecordIs' /\ ((\E p \in Packets : Data(p)) \/ UNCHANGED <<supply, flow, arrivals>>)
  BY <1>1, RecordStep, Zenon
<1>3. CASE UNCHANGED <<supply, flow, arrivals>>
  <2>1. (\A d : OfWay(d)' = OfWay(d)) /\ (NeverDenied' <=> NeverDenied)
    BY <1>3, Zenon DEF OfWay, NeverDenied
  <2>2. RoomInv'
    BY <1>1, <1>3, <2>1, Zenon DEF RoomInv
  <2>3. \A d : HoldsFirst(d)' <=> HoldsFirst(d)
    BY <1>3, <2>1, Zenon DEF HoldsFirst
  <2>4. \A d \in Way : ArrayInv(d)' /\ HasExtremes(d)'
    BY <1>1, <1>3, <2>1, <2>3, ZenonT(60) DEF ArrayInv, HasExtremes
  <2> QED BY <1>2, <2>2, <2>4, Zenon DEF LengthsInv
<1>4. CASE \E p \in Packets : Data(p)
  <2> PICK p \in Packets : Data(p)
    BY <1>4
  <2>1. RoomInv'
    BY <1>1, RoomStep, Zenon
  <2>2. \A d \in Way : ArrayInv(d)' /\ HasExtremes(d)'
    BY <1>1, ArrayStep, ExtremesStep, Zenon
  <2> QED BY <1>2, <2>1, <2>2, Zenon DEF LengthsInv
<1> QED BY <1>2, <1>3, <1>4

(* calc_packet_length_stats: the arrays of lengths are exact while they    *)
(* have the room, and the report's extremes always.                        *)
THEOREM LengthsAreExact == Spec => []LengthsExact
<1> QED BY LengthsInvInit, LengthsStep, LengthsReported, PTL DEF Spec
-----------------------------------------------------------------------------
(* The rings that every packet pushes one element to, of those that the    *)
(* sequence features read, and what it pushes.                             *)
CutRings == {"pkt_len_seq", "dir_seq", "ts_seq", "l3_len_seq", "l4_len_seq", "payload_len_seq"}

Entry(p) == [ pkt_len_seq |-> p.len, dir_seq |-> DirValue[p.dir], ts_seq |-> p.ts,
              l3_len_seq |-> p.l3, l4_len_seq |-> p.l4, payload_len_seq |-> Len(p.pay) ]

(* The interarrival time after the i-th packet.                            *)
GapAt(i) == (arrivals[i + 1].ts - arrivals[i].ts) % TimeSpan

(* While no snapshot is lost, the rings hold the same number of the newest *)
(* packets, and all gaps between them until the first packet is dropped.   *)
RingsHold(c) ==
  LET n == Len(arrivals)
  IN  /\ c <= n /\ c <= flow.pool.seq_len /\ (n > 0 => c > 0)
      /\ \A r \in CutRings : flow.ring[r] = [i \in 1 .. c |-> Entry(arrivals[n - c + i])[r]]
      /\ c = n => flow.ring["iat_seq"] = [i \in 1 .. n - 1 |-> GapAt(i)]

(* How many bigrams were counted.                                          *)
BigramTotal == Total([k \in 1 .. 9 |-> flow.bigrams[Bigrams[k]]])

(* The inductive invariant of the sequences.                               *)
SequencesInv ==
  /\ RoomInv /\ RecordIs
  /\ NothingLost => \E c \in Nat : RingsHold(c)
  /\ flow.last_arrival_us = IF arrivals = << >> THEN 0 ELSE arrivals[Len(arrivals)].ts
  /\ flow.bigrams \in [ToSet(Bigrams) -> Nat] /\ flow.last_class \in {"s", "m", "l"}
  /\ BigramTotal = Len(arrivals)

LEMMA PacketTypes ==
  ASSUME NEW p \in Packets
  PROVE  /\ Entry(p) \in [CutRings -> Int]
         /\ p.len \in Nat /\ p.ts \in Nat \ {0} /\ TimeSpan \in Nat \ {0}
         /\ p.l3 \in Nat /\ p.l4 \in Nat /\ Len(p.pay) \in Nat
         /\ p.l3 + p.l4 + Len(p.pay) <= p.len
         /\ DirValue[p.dir] \in {-1, 0, 1}
         /\ p.pay \in Seq(0 .. 255)
<1>1. /\ p.ts \in 1 .. TimeSpan - 1 /\ TimeSpan \in Nat
      /\ p.dir \in Way \cup {"unknown"} /\ p.pay \in Seq(0 .. 255)
      /\ p.l3 \in Nat /\ p.l4 \in Nat /\ p.len \in 0 .. EmptyMin
      /\ p.l3 + p.l4 + Len(p.pay) <= p.len
  BY RecordConstants, ZenonT(60)
<1>2. p.len \in Nat /\ p.ts \in Nat \ {0} /\ TimeSpan \in Nat \ {0} /\ Len(p.pay) \in Nat
  BY <1>1, EmptyBounds
<1>3. DirValue[p.dir] \in {-1, 0, 1}
  BY <1>1 DEF DirValue, Way
<1>4. Entry(p) \in [CutRings -> Int]
  <2>1. DirValue[p.dir] \in Int
    BY <1>3
  <2>2. p.len \in Int /\ p.ts \in Int /\ p.l3 \in Int /\ p.l4 \in Int /\ Len(p.pay) \in Int
    BY <1>1, <1>2
  <2> QED BY <2>1, <2>2 DEF Entry, CutRings
<1> QED BY <1>1, <1>2, <1>3, <1>4, Zenon

(* What a packet pushes to the rings that count.                           *)
LEMMA PushesOf ==
  ASSUME NEW f, NEW p
  PROVE  /\ \A r \in CutRings : r \in Ring /\ Pushes(f, p)[r] = <<Entry(p)[r]>>
         /\ "iat_seq" \in Ring
         /\ f.last_arrival_us > 0
              => Pushes(f, p)["iat_seq"] = <<(p.ts - f.last_arrival_us) % TimeSpan>>
         /\ ~(f.last_arrival_us > 0) => Pushes(f, p)["iat_seq"] = << >>
<1>1. CutRings \in SUBSET Ring /\ "iat_seq" \in Ring
  BY DEF CutRings, Ring, RingElem
<1>2. ASSUME NEW r \in CutRings PROVE Pushes(f, p)[r] = <<Entry(p)[r]>>
  BY <1>1 DEF Pushes, CutRings, Entry
<1>3. /\ f.last_arrival_us > 0
           => Pushes(f, p)["iat_seq"] = <<(p.ts - f.last_arrival_us) % TimeSpan>>
      /\ ~(f.last_arrival_us > 0) => Pushes(f, p)["iat_seq"] = << >>
  BY <1>1 DEF Pushes
<1> QED BY <1>1, <1>2, <1>3

(* A ring that is not full keeps everything.                               *)
LEMMA NewestAll ==
  ASSUME NEW s \in Seq(Int), NEW room \in Nat, Len(s) <= room
  PROVE  Newest(s, room) = s
<1>1. 1 \in Int /\ Len(s) - room + 1 \in Int /\ 1 >= Len(s) - room + 1
  OBVIOUS
<1>2. Max({1, Len(s) - room + 1}) = 1
  BY <1>1, MaxOfTwo
<1>3. Newest(s, room) = SubSeq(s, 1, Len(s))
  BY <1>2 DEF Newest
<1> QED BY <1>3

LEMMA TwoIsMore == Max({1, 2}) = 2
<1>1. 1 \in Int /\ 2 \in Int /\ ~(1 >= 2)
  OBVIOUS
<1> QED BY <1>1, MaxOfTwo

(* A ring of the newest c of n elements with one more.                     *)
GrowsTo(n, g, c, room, s, d, u) ==
  /\ n \in Nat /\ g \in [1 .. n + 1 -> Int] /\ c \in Nat /\ c <= n
  /\ room \in Nat \ {0} /\ c <= room /\ s \in [1 .. c -> Int]
  /\ \A i \in 1 .. c : s[i] = g[n - c + i]
  /\ d \in Nat /\ d = IF c + 1 <= room THEN c + 1 ELSE c
  /\ u \in [1 .. d -> Int] /\ \A i \in 1 .. d : u[i] = g[(n + 1) - d + i]

LEMMA NewestGrows ==
  ASSUME NEW n, NEW g, NEW c, NEW room, NEW s, NEW d, NEW u, GrowsTo(n, g, c, room, s, d, u)
  PROVE  Newest(s \o <<g[n + 1]>>, room) = u
<1> USE DEF GrowsTo
<1> PICK x \in Int : x = g[n + 1]
  OBVIOUS
<1> DEFINE t == Append(s, x)
<1>1. s \in Seq(Int) /\ Len(s) = c
  OBVIOUS
<1>2. s \o <<g[n + 1]>> = t
  BY <1>1
<1>3. t \in Seq(Int) /\ Len(t) = c + 1 /\ t[c + 1] = x /\ \A i \in 1 .. c : t[i] = s[i]
  BY <1>1, SMTT(40)
<1> HIDE DEF t
<1>4. \A i \in 1 .. c + 1 : t[i] = g[n - c + i]
  <2> TAKE i \in 1 .. c + 1
  <2>1. CASE i \in 1 .. c
    BY <1>3, <2>1
  <2>2. CASE i = c + 1
    <3>1. n - c + i = n + 1
      BY <2>2
    <3> QED BY <1>3, <2>2, <3>1, Zenon
  <2> QED BY <2>1, <2>2
<1>5. CASE c + 1 <= room
  <2>1. Newest(t, room) = t
    BY <1>3, <1>5, NewestAll
  <2>2. t \in [1 .. c + 1 -> Int] /\ d = c + 1
    BY <1>3, <1>5
  <2>3. \A i \in 1 .. c + 1 : t[i] = u[i]
    <3>1. \A i \in 1 .. c + 1 : (n + 1) - d + i = n - c + i
      BY <2>2
    <3> QED BY <1>4, <2>2, <3>1, Zenon
  <2>4. t = u
    BY <2>2, <2>3
  <2> QED BY <1>2, <2>1, <2>4, Zenon
<1>6. CASE ~(c + 1 <= room)
  <2>1. d = c /\ c = room /\ c >= 1
    BY <1>6
  <2>2. Max({1, Len(t) - room + 1}) = 2
    <3>1. Len(t) - room + 1 = 2
      BY <1>3, <2>1
    <3> QED BY <3>1, TwoIsMore, Zenon
  <2>3. Newest(t, room) = SubSeq(t, 2, c + 1)
    BY <1>3, <2>2, Zenon DEF Newest
  <2>4. SubSeq(t, 2, c + 1) = [i \in 1 .. c |-> t[i + 1]]
    BY <1>3, <2>1
  <2>5. \A i \in 1 .. c : t[i + 1] = u[i]
    <3> TAKE i \in 1 .. c
    <3>1. i + 1 \in 1 .. c + 1 /\ n - c + (i + 1) = (n + 1) - d + i
      BY <2>1
    <3>2. t[i + 1] = g[n - c + (i + 1)]
      BY <1>4, <3>1, Zenon
    <3>3. u[i] = g[(n + 1) - d + i]
      BY <2>1, Zenon
    <3> QED BY <3>1, <3>2, <3>3, Zenon
  <2>6. [i \in 1 .. c |-> t[i + 1]] = u
    BY <2>1, <2>5
  <2> QED BY <1>2, <2>3, <2>4, <2>6, Zenon
<1> QED BY <1>5, <1>6

(* What a packet does to a ring whose snapshot is not lost.                *)
LEMMA RingMoves ==
  ASSUME RoomInv, NEW p, Data(p), NEW n, n = Len(arrivals) + 1,
         NEW r \in Ring, r \notin supply[n].lost
  PROVE  flow'.ring[r] = Newest(flow.ring[r] \o Pushes(flow, p)[r], flow'.pool.seq_len)
BY RecordMoves, ZenonT(60)

LEMMA RingsMove ==
  ASSUME RoomInv, NEW p, Data(p), NEW n, n = Len(arrivals) + 1, supply[n].lost = {}
  PROVE  \A r \in Ring :
           flow'.ring[r] = Newest(flow.ring[r] \o Pushes(flow, p)[r], flow'.pool.seq_len)
<1> TAKE r \in Ring
<1>1. r \notin supply[n].lost
  OBVIOUS
<1> QED BY <1>1, RingMoves, Zenon

(* A packet adds to each ring, which drops its oldest element when it is   *)
(* full.                                                                   *)
LEMMA RingsStep ==
  ASSUME RoomInv, NEW p \in Packets, Data(p), NothingLost',
         NothingLost => \E c \in Nat : RingsHold(c),
         flow.last_arrival_us = IF arrivals = << >> THEN 0 ELSE arrivals[Len(arrivals)].ts
  PROVE  \E c \in Nat : RingsHold(c)'
<1> PICK n \in Nat : n = Len(arrivals)
  BY DEF RoomInv
<1>0. arrivals \in Seq(Packets)
  BY DEF RoomInv
<1>9. n = 0 => arrivals = << >>
  BY <1>0, EmptySeq, Zenon
<1>1. /\ Len(arrivals') = n + 1 /\ arrivals'[n + 1] = p /\ supply' = supply
      /\ \A i \in 1 .. n : arrivals'[i] = arrivals[i]
      /\ \A i \in 1 .. n + 1 : arrivals'[i] \in Packets
  <2>1. arrivals' = Append(arrivals, p) /\ supply' = supply
    BY DEF Data
  <2> QED BY <1>0, <2>1
<1>2. NothingLost /\ supply[n + 1].lost = {}
  <2>1. \A i \in 1 .. n + 1 : supply[i].lost = {}
    BY <1>1, Zenon DEF NothingLost
  <2>2. n + 1 \in 1 .. n + 1 /\ \A i \in 1 .. n : i \in 1 .. n + 1
    OBVIOUS
  <2> QED BY <2>1, <2>2, Zenon DEF NothingLost
<1>4. \A r \in Ring : flow'.ring[r] = Newest(flow.ring[r] \o Pushes(flow, p)[r], flow'.pool.seq_len)
  <2>1. n + 1 = Len(arrivals) + 1
    OBVIOUS
  <2> QED BY <1>2, <2>1, RingsMove, Zenon
<1> PICK c \in Nat : RingsHold(c)
  BY <1>2
<1> PICK room : room = flow'.pool.seq_len
  OBVIOUS
<1> PICK d \in Nat : d = IF c + 1 <= room THEN c + 1 ELSE c
  OBVIOUS
<1>3. /\ c <= n /\ c <= room /\ room \in Nat \ {0} /\ (n > 0 => c > 0)
      /\ \A r \in CutRings : flow.ring[r] = [i \in 1 .. c |-> Entry(arrivals[n - c + i])[r]]
      /\ c = n => flow.ring["iat_seq"] = [i \in 1 .. n - 1 |-> GapAt(i)]
  <2>1. /\ c <= n /\ c <= flow.pool.seq_len /\ (n > 0 => c > 0)
        /\ \A r \in CutRings : flow.ring[r] = [i \in 1 .. c |-> Entry(arrivals[n - c + i])[r]]
        /\ c = n => flow.ring["iat_seq"] = [i \in 1 .. n - 1 |-> GapAt(i)]
    BY Zenon DEF RingsHold
  <2>2. /\ flow.pool.seq_len \in Nat /\ room \in Nat
        /\ SeqLen[Tiny] \in Nat /\ SeqLen[Tiny] <= flow.pool.seq_len
        /\ flow.pool.seq_len <= room
    BY RoomStep, Zenon
  <2>3. SeqLen[Tiny] # 0
    BY SeqLenGrows DEF Level, Tiny, Large
  <2>4. c <= room /\ room # 0
    BY <2>1, <2>2, <2>3
  <2> QED BY <2>1, <2>2, <2>4
<1>5. d <= n + 1 /\ d <= room /\ d > 0 /\ (d = n + 1 => c = n /\ n + 1 <= room)
  BY <1>3
<1>6. ASSUME NEW r \in CutRings
      PROVE  flow'.ring[r] = [i \in 1 .. d |-> Entry(arrivals'[(n + 1) - d + i])[r]]
  <2> DEFINE g == [k \in 1 .. n + 1 |-> Entry(arrivals'[k])[r]]
           old == [i \in 1 .. c |-> Entry(arrivals[n - c + i])[r]]
           new == [i \in 1 .. d |-> Entry(arrivals'[(n + 1) - d + i])[r]]
  <2>1. g \in [1 .. n + 1 -> Int] /\ g[n + 1] = Entry(p)[r]
    <3>1. \A q \in Packets : Entry(q)[r] \in Int
      BY PacketTypes
    <3> QED BY <1>1, <3>1
  <2>2. old \in [1 .. c -> Int] /\ \A i \in 1 .. c : old[i] = g[n - c + i]
    <3>1. \A i \in 1 .. c : n - c + i \in 1 .. n /\ n - c + i \in 1 .. n + 1
      BY <1>3
    <3>2. \A i \in 1 .. c : old[i] = g[n - c + i]
      BY <1>1, <3>1, Zenon
    <3> HIDE DEF g
    <3> QED BY <2>1, <3>1, <3>2
  <2>3. new \in [1 .. d -> Int] /\ \A i \in 1 .. d : new[i] = g[(n + 1) - d + i]
    <3>1. \A i \in 1 .. d : (n + 1) - d + i \in 1 .. n + 1
      BY <1>5
    <3>2. \A i \in 1 .. d : new[i] = g[(n + 1) - d + i]
      BY <3>1, Zenon
    <3>3. \A i \in 1 .. d : g[(n + 1) - d + i] \in Int
      <4> HIDE DEF g
      <4> QED BY <2>1, <3>1, Zenon
    <3>4. \A i \in 1 .. d : new[i] \in Int
      BY <3>2, <3>3, Zenon
    <3>5. new = [i \in 1 .. d |-> new[i]]
      OBVIOUS
    <3> HIDE DEF g, new
    <3>6. new \in [1 .. d -> Int]
      BY <3>4, <3>5, Zenon
    <3> QED BY <3>2, <3>6, Zenon
  <2>4. r \in Ring /\ Pushes(flow, p)[r] = <<Entry(p)[r]>>
    BY PushesOf, Zenon
  <2>5. flow.ring[r] = old
    BY <1>3, Zenon
  <2> HIDE DEF old, new, g
  <2>6. Newest(old \o <<g[n + 1]>>, room) = new
    <3>1. c <= n /\ c <= room /\ room \in Nat \ {0}
      BY <1>3, Zenon
    <3>2. GrowsTo(n, g, c, room, old, d, new)
      BY <2>1, <2>2, <2>3, <3>1, Zenon DEF GrowsTo
    <3> QED BY <3>2, NewestGrows, Zenon
  <2>7. flow'.ring[r] = Newest(old \o <<g[n + 1]>>, room)
    BY <1>4, <2>1, <2>4, <2>5, Zenon
  <2> QED BY <2>6, <2>7, Zenon DEF new
<1>7. ASSUME d = n + 1
      PROVE  flow'.ring["iat_seq"] = [i \in 1 .. (n + 1) - 1 |-> GapAt(i)']
  <2> DEFINE iat == flow.ring["iat_seq"]
  <2>1. iat = [i \in 1 .. n - 1 |-> GapAt(i)] /\ n + 1 <= room
    BY <1>3, <1>5, <1>7
  <2>2. flow'.ring["iat_seq"] = Newest(iat \o Pushes(flow, p)["iat_seq"], room)
    BY <1>4, PushesOf, Zenon
  <2>3. \A i \in 1 .. n + 1 : arrivals'[i].ts \in Nat \ {0} /\ TimeSpan \in Nat \ {0}
    <3>1. \A q \in Packets : q.ts \in Nat \ {0} /\ TimeSpan \in Nat \ {0}
      BY PacketTypes
    <3> QED BY <1>1, <3>1, Zenon
  <2>4. \A i \in 1 .. n - 1 : GapAt(i) = GapAt(i)'
    <3>1. \A i \in 1 .. n - 1 : i \in 1 .. n /\ i + 1 \in 1 .. n
      OBVIOUS
    <3> QED BY <1>1, <3>1, Zenon DEF GapAt
  <2>5. \A i \in 1 .. n : GapAt(i)' \in Int
    <3> TAKE i \in 1 .. n
    <3>1. i \in 1 .. n + 1 /\ i + 1 \in 1 .. n + 1
      OBVIOUS
    <3> PICK a \in Nat : a = arrivals'[i + 1].ts
      BY <2>3, <3>1
    <3> PICK b \in Nat : b = arrivals'[i].ts
      BY <2>3, <3>1
    <3>2. (a - b) % TimeSpan \in Int
      <4>1. a - b \in Int /\ TimeSpan \in Nat \ {0}
        BY <2>3, <3>1
      <4> QED BY <4>1, RestIsNat
    <3> QED BY <3>2 DEF GapAt
  <2> DEFINE gaps == [i \in 1 .. n |-> GapAt(i)']
  <2>6. gaps \in Seq(Int) /\ Len(gaps) = n /\ (n + 1) - 1 = n
    BY <2>5
  <2>7. iat \o Pushes(flow, p)["iat_seq"] = gaps
    <3>1. CASE n = 0
      <4>1. arrivals = << >>
        BY <1>9, <3>1
      <4>2. ~(flow.last_arrival_us > 0)
        <5>1. flow.last_arrival_us = 0 /\ ~(0 > 0)
          BY <4>1
        <5> QED BY <5>1, Zenon
      <4>3. Pushes(flow, p)["iat_seq"] = << >>
        BY <4>2, PushesOf, Zenon
      <4>4. iat = << >> /\ gaps = << >>
        BY <2>1, <3>1
      <4>5. << >> \o << >> = << >>
        OBVIOUS
      <4> QED BY <4>3, <4>4, <4>5, Zenon
    <3>2. CASE n # 0
      <4>1. arrivals # << >> /\ n \in 1 .. n /\ n \in 1 .. n + 1
        BY <3>2
      <4>2. flow.last_arrival_us = arrivals'[n].ts
        BY <1>1, <4>1, Zenon
      <4>3. flow.last_arrival_us > 0
        <5> PICK a \in Nat \ {0} : a = arrivals'[n].ts
          BY <2>3, <4>1
        <5> QED BY <4>2
      <4>4. Pushes(flow, p)["iat_seq"] = <<gaps[n]>>
        <5>1. gaps[n] = (p.ts - flow.last_arrival_us) % TimeSpan
          BY <1>1, <4>1, <4>2, Zenon DEF GapAt
        <5> QED BY <4>3, <5>1, PushesOf, Zenon
      <4>5. iat = [i \in 1 .. n - 1 |-> gaps[i]]
        <5>1. \A i \in 1 .. n - 1 : i \in 1 .. n
          OBVIOUS
        <5> QED BY <2>1, <2>4, <5>1, Zenon
      <4> HIDE DEF iat, gaps
      <4>6. [i \in 1 .. n - 1 |-> gaps[i]] \o <<gaps[n]>> = gaps
        BY <2>6, <3>2
      <4> QED BY <4>4, <4>5, <4>6, Zenon
    <3> QED BY <3>1, <3>2
  <2> HIDE DEF gaps, iat
  <2>8. Newest(gaps, room) = gaps
    <3>1. Len(gaps) <= room
      BY <1>3, <2>1, <2>6
    <3> QED BY <1>3, <2>6, <3>1, NewestAll
  <2>9. flow'.ring["iat_seq"] = gaps
    BY <2>2, <2>7, <2>8, Zenon
  <2> QED BY <2>6, <2>9, Zenon DEF gaps
<1>8. RingsHold(d)'
  <2>1. n + 1 > 0 => d > 0
    BY <1>5
  <2>2. ASSUME NEW r \in CutRings
        PROVE  flow'.ring[r] = [i \in 1 .. d |-> Entry(arrivals'[Len(arrivals') - d + i])[r]]
    <3>1. [i \in 1 .. d |-> Entry(arrivals'[(n + 1) - d + i])[r]]
            = [i \in 1 .. d |-> Entry(arrivals'[Len(arrivals') - d + i])[r]]
      BY <1>1, Zenon
    <3> QED BY <1>6, <3>1, Zenon
  <2>3. d = Len(arrivals') =>
          flow'.ring["iat_seq"] = [i \in 1 .. Len(arrivals') - 1 |-> GapAt(i)']
    BY <1>1, <1>7, Zenon
  <2>4. d <= Len(arrivals') /\ d <= flow'.pool.seq_len /\ (Len(arrivals') > 0 => d > 0)
    BY <1>1, <1>5, <2>1, Zenon
  <2> QED BY <2>2, <2>3, <2>4, Zenon DEF RingsHold
<1> QED BY <1>8

(* Each pair of classes is one bigram.                                     *)
LEMMA BigramAt ==
  /\ \A a, b \in {"s", "m", "l"} :
       \E k \in 1 .. 9 : /\ Bigrams[k] = <<a, b>>
                         /\ \A j \in 1 .. 9 : j # k => Bigrams[j] # <<a, b>>
  /\ Bigrams \in [1 .. 9 -> ToSet(Bigrams)]
<1>1. \A k \in 1 .. 9 : k = 1 \/ k = 2 \/ k = 3 \/ k = 4 \/ k = 5 \/ k = 6 \/ k = 7 \/ k = 8 \/ k = 9
  OBVIOUS
<1>2. /\ Bigrams[1] = <<"s", "s">> /\ Bigrams[2] = <<"s", "m">> /\ Bigrams[3] = <<"s", "l">>
      /\ Bigrams[4] = <<"m", "s">> /\ Bigrams[5] = <<"m", "m">> /\ Bigrams[6] = <<"m", "l">>
      /\ Bigrams[7] = <<"l", "s">> /\ Bigrams[8] = <<"l", "m">> /\ Bigrams[9] = <<"l", "l">>
      /\ DOMAIN Bigrams = 1 .. 9
  BY DEF Bigrams
<1>3. ASSUME NEW a \in {"s", "m", "l"}, NEW b \in {"s", "m", "l"}
      PROVE  \E k \in 1 .. 9 : /\ Bigrams[k] = <<a, b>>
                               /\ \A j \in 1 .. 9 : j # k => Bigrams[j] # <<a, b>>
  <2>1. \A x, y, u, v : <<x, y>> = <<u, v>> <=> x = u /\ y = v
    OBVIOUS
  <2>2. "s" # "m" /\ "s" # "l" /\ "m" # "l"
    OBVIOUS
  <2>3. /\ 1 \in 1 .. 9 /\ 2 \in 1 .. 9 /\ 3 \in 1 .. 9 /\ 4 \in 1 .. 9 /\ 5 \in 1 .. 9
        /\ 6 \in 1 .. 9 /\ 7 \in 1 .. 9 /\ 8 \in 1 .. 9 /\ 9 \in 1 .. 9
    OBVIOUS
  <2>4. a = "s" \/ a = "m" \/ a = "l"
    OBVIOUS
  <2>5. b = "s" \/ b = "m" \/ b = "l"
    OBVIOUS
  <2>6. \A i, j \in 1 .. 9 : Bigrams[i] = Bigrams[j] => i = j
    BY <1>1, <1>2
  <2>7. \E k \in 1 .. 9 : Bigrams[k] = <<a, b>>
    BY <1>2, <2>3, <2>4, <2>5, Zenon
  <2> QED BY <2>6, <2>7, Zenon
<1>4. Bigrams \in [1 .. 9 -> ToSet(Bigrams)]
  <2>1. \A k \in 1 .. 9 : Bigrams[k] \in ToSet(Bigrams)
    BY <1>2, Zenon DEF ToSet
  <2>2. Bigrams = [k \in 1 .. 9 |-> Bigrams[k]]
    BY DEF Bigrams
  <2> HIDE DEF Bigrams
  <2> QED BY <2>1, <2>2, Zenon
<1> QED BY <1>3, <1>4

(* new counts one more under the k-th of m different keys; s and t are the *)
(* counts in the order of the keys.                                        *)
Bumped(B, old, m, key, k, new, s, t) ==
  /\ old \in [B -> Nat] /\ m \in Nat /\ key \in [1 .. m -> B] /\ k \in 1 .. m
  /\ \A j \in 1 .. m : j # k => key[j] # key[k]
  /\ new = [old EXCEPT ![key[k]] = old[key[k]] + 1]
  /\ s = [j \in 1 .. m |-> old[key[j]]] /\ t = [j \in 1 .. m |-> new[key[j]]]

LEMMA CountBumped ==
  ASSUME NEW B, NEW old, NEW m, NEW key, NEW k, NEW new, NEW s, NEW t,
         Bumped(B, old, m, key, k, new, s, t)
  PROVE  new \in [B -> Nat] /\ Total(t) = Total(s) + 1
<1> USE DEF Bumped
<1>1. new \in [B -> Nat] /\ new[key[k]] = old[key[k]] + 1
  OBVIOUS
<1>2. \A j \in 1 .. m : j # k => new[key[j]] = old[key[j]]
  OBVIOUS
<1>3. s \in Seq(Int) /\ t \in Seq(Int) /\ Len(s) = m /\ Len(t) = m
  <2>1. \A j \in 1 .. m : old[key[j]] \in Int /\ new[key[j]] \in Int
    BY <1>1
  <2> QED BY <2>1
<1>4. t[k] = s[k] + 1 /\ \A j \in 1 .. m : j # k => t[j] = s[j]
  BY <1>1, <1>2
<1>5. Total(t) = Total(s) + 1
  <2>1. 1 \in Int /\ m \in Nat /\ k \in 1 .. m
    OBVIOUS
  <2> HIDE DEF Bumped
  <2> QED BY <1>3, <1>4, <2>1, TotalOfBump
<1> QED BY <1>1, <1>5, Zenon

(* more counts one more bigram.                                            *)
PairCounted(old, a, b, more) ==
  /\ old \in [ToSet(Bigrams) -> Nat] /\ a \in {"s", "m", "l"} /\ b \in {"s", "m", "l"}
  /\ more = [old EXCEPT ![<<a, b>>] = old[<<a, b>>] + 1]

LEMMA BigramCounted ==
  ASSUME NEW old, NEW a, NEW b, NEW more, PairCounted(old, a, b, more)
  PROVE  /\ more \in [ToSet(Bigrams) -> Nat]
         /\ Total([k \in 1 .. 9 |-> more[Bigrams[k]]])
              = Total([k \in 1 .. 9 |-> old[Bigrams[k]]]) + 1
<1> USE DEF PairCounted
<1> DEFINE pair == <<a, b>>
           B == ToSet(Bigrams)
<1>1. PICK k \in 1 .. 9 : /\ Bigrams[k] = pair
                          /\ \A j \in 1 .. 9 : j # k => Bigrams[j] # pair
  BY BigramAt, Zenon
<1>2. Bigrams \in [1 .. 9 -> B] /\ old \in [B -> Nat] /\ 9 \in Nat
  BY BigramAt
<1>3. more = [old EXCEPT ![Bigrams[k]] = old[Bigrams[k]] + 1]
      /\ \A j \in 1 .. 9 : j # k => Bigrams[j] # Bigrams[k]
  BY <1>1, Zenon
<1> HIDE DEF B, pair
<1> DEFINE s == [j \in 1 .. 9 |-> old[Bigrams[j]]]
           t == [j \in 1 .. 9 |-> more[Bigrams[j]]]
<1>4. Bumped(B, old, 9, Bigrams, k, more, s, t)
  <2>1. k \in 1 .. 9 /\ 9 \in Nat
    OBVIOUS
  <2> QED BY <1>2, <1>3, <2>1, Zenon DEF Bumped
<1> HIDE DEF s, t
<1>5. more \in [B -> Nat] /\ Total(t) = Total(s) + 1
  <2> HIDE DEF PairCounted
  <2> QED BY <1>4, CountBumped
<1> QED BY <1>5, Zenon DEF B, s, t

LEMMA BigramStep ==
  ASSUME RoomInv, NEW p \in Packets, Data(p), BigramTotal = Len(arrivals),
         flow.bigrams \in [ToSet(Bigrams) -> Nat], flow.last_class \in {"s", "m", "l"}
  PROVE  /\ BigramTotal' = Len(arrivals')
         /\ flow'.bigrams \in [ToSet(Bigrams) -> Nat] /\ flow'.last_class \in {"s", "m", "l"}
<1> PICK n \in Nat : n = Len(arrivals)
  BY DEF RoomInv
<1>1. Len(arrivals') = n + 1
  BY PacketArrives DEF RoomInv
<1>2. SizeClass(p.len) \in {"s", "m", "l"}
  BY DEF SizeClass
<1>3. /\ flow'.bigrams = [flow.bigrams EXCEPT ![<<flow.last_class, SizeClass(p.len)>>] = @ + 1]
      /\ flow'.last_class = SizeClass(p.len)
  BY RecordMoves, Zenon
<1>6. flow'.bigrams = [flow.bigrams EXCEPT ![<<flow.last_class, SizeClass(p.len)>>]
                                   = flow.bigrams[<<flow.last_class, SizeClass(p.len)>>] + 1]
  BY <1>3
<1>4. /\ flow'.bigrams \in [ToSet(Bigrams) -> Nat]
      /\ Total([k \in 1 .. 9 |-> flow'.bigrams[Bigrams[k]]])
           = Total([k \in 1 .. 9 |-> flow.bigrams[Bigrams[k]]]) + 1
  <2>1. PairCounted(flow.bigrams, flow.last_class, SizeClass(p.len), flow'.bigrams)
    BY <1>2, <1>6, Zenon DEF PairCounted
  <2> QED BY <2>1, BigramCounted, ZenonT(60)
<1>5. BigramTotal' = BigramTotal + 1
  BY <1>4, Zenon DEF BigramTotal
<1> QED BY <1>1, <1>2, <1>3, <1>4, <1>5, Zenon

LEMMA RingOf ==
  ASSUME RoomInv, NEW c \in Nat, RingsHold(c), NEW r \in CutRings
  PROVE  /\ flow.ring[r] \in Seq(Int) /\ Len(flow.ring[r]) = c
         /\ \A i \in 1 .. c : /\ arrivals[Len(arrivals) - c + i] \in Packets
                              /\ flow.ring[r][i] = Entry(arrivals[Len(arrivals) - c + i])[r]
<1> PICK n \in Nat : n = Len(arrivals)
  BY DEF RoomInv
<1>1. c <= n /\ flow.ring[r] = [i \in 1 .. c |-> Entry(arrivals[n - c + i])[r]]
  BY Zenon DEF RingsHold
<1>2. \A i \in 1 .. c : arrivals[n - c + i] \in Packets
  <2>1. \A i \in 1 .. c : n - c + i \in 1 .. n
    BY <1>1
  <2>2. \A k \in 1 .. n : arrivals[k] \in Packets
    BY DEF RoomInv
  <2> QED BY <2>1, <2>2, Zenon
<1>3. \A q \in Packets : Entry(q)[r] \in Int
  BY PacketTypes
<1>4. \A i \in 1 .. c : Entry(arrivals[n - c + i])[r] \in Int
  BY <1>2, <1>3, Zenon
<1>5. flow.ring[r] \in [1 .. c -> Int]
  BY <1>1, <1>4, Zenon
<1>6. flow.ring[r] \in Seq(Int) /\ Len(flow.ring[r]) = c
  BY <1>5
<1>7. \A i \in 1 .. c : flow.ring[r][i] = Entry(arrivals[n - c + i])[r]
  BY <1>1, Zenon
<1> QED BY <1>2, <1>6, <1>7

LEMMA SeqOfNats ==
  ASSUME NEW s \in Seq(Int), NEW c, Len(s) = c, \A i \in 1 .. c : s[i] \in Nat
  PROVE  s \in Seq(Nat)
OBVIOUS

(* The rings of a flow that lost no snapshot.                              *)
LEMMA RingsAre ==
  ASSUME RoomInv, NEW c \in Nat \ {0}, RingsHold(c)
  PROVE  LET lens == flow.ring.pkt_len_seq
             dirs == flow.ring.dir_seq
             times == flow.ring.ts_seq
             l3 == flow.ring.l3_len_seq
             l4 == flow.ring.l4_len_seq
             pay == flow.ring.payload_len_seq
             kept(i) == arrivals[Len(arrivals) - c + i]
         IN  /\ lens \in Seq(Nat) /\ dirs \in Seq(Int) /\ times \in Seq(Nat)
             /\ Len(lens) = c /\ Len(dirs) = c /\ Len(times) = c
             /\ Len(l3) = c /\ Len(l4) = c /\ Len(pay) = c
             /\ \A i \in 1 .. c : /\ lens[i] = kept(i).len /\ pay[i] = Len(kept(i).pay)
                                  /\ lens[i] \in Nat /\ l3[i] \in Nat /\ l4[i] \in Nat
                                  /\ pay[i] \in Nat /\ l3[i] + l4[i] + pay[i] <= lens[i]
                                  /\ dirs[i] \in {-1, 0, 1}
<1> DEFINE kept(i) == arrivals[Len(arrivals) - c + i]
<1>1. \A r \in CutRings : /\ flow.ring[r] \in Seq(Int) /\ Len(flow.ring[r]) = c
                          /\ \A i \in 1 .. c : /\ kept(i) \in Packets
                                               /\ flow.ring[r][i] = Entry(kept(i))[r]
  BY RingOf
<1>2. "pkt_len_seq" \in CutRings /\ "dir_seq" \in CutRings /\ "ts_seq" \in CutRings
      /\ "l3_len_seq" \in CutRings /\ "l4_len_seq" \in CutRings
      /\ "payload_len_seq" \in CutRings
  BY DEF CutRings
<1>3. \A q : /\ Entry(q)["pkt_len_seq"] = q.len /\ Entry(q)["dir_seq"] = DirValue[q.dir]
             /\ Entry(q)["ts_seq"] = q.ts /\ Entry(q)["l3_len_seq"] = q.l3
             /\ Entry(q)["l4_len_seq"] = q.l4 /\ Entry(q)["payload_len_seq"] = Len(q.pay)
  BY DEF Entry
<1>4. \A q \in Packets : /\ q.len \in Nat /\ q.ts \in Nat /\ q.l3 \in Nat /\ q.l4 \in Nat
                         /\ Len(q.pay) \in Nat /\ q.l3 + q.l4 + Len(q.pay) <= q.len
                         /\ DirValue[q.dir] \in {-1, 0, 1}
  BY PacketTypes
<1> HIDE DEF kept
<1>5. /\ flow.ring.pkt_len_seq \in Seq(Int) /\ flow.ring.dir_seq \in Seq(Int)
      /\ flow.ring.ts_seq \in Seq(Int)
      /\ Len(flow.ring.pkt_len_seq) = c /\ Len(flow.ring.dir_seq) = c
      /\ Len(flow.ring.ts_seq) = c /\ Len(flow.ring.l3_len_seq) = c
      /\ Len(flow.ring.l4_len_seq) = c /\ Len(flow.ring.payload_len_seq) = c
  BY <1>1, <1>2, Zenon
<1>6. \A i \in 1 .. c :
        /\ flow.ring.pkt_len_seq[i] = kept(i).len /\ flow.ring.dir_seq[i] = DirValue[kept(i).dir]
        /\ flow.ring.ts_seq[i] = kept(i).ts /\ flow.ring.l3_len_seq[i] = kept(i).l3
        /\ flow.ring.l4_len_seq[i] = kept(i).l4
        /\ flow.ring.payload_len_seq[i] = Len(kept(i).pay)
        /\ kept(i) \in Packets
  <2> TAKE i \in 1 .. c
  <2>1. \A r \in CutRings : kept(i) \in Packets /\ flow.ring[r][i] = Entry(kept(i))[r]
    BY <1>1, Zenon
  <2> QED BY <1>2, <1>3, <2>1, Zenon
<1>7. flow.ring.pkt_len_seq \in Seq(Nat) /\ flow.ring.ts_seq \in Seq(Nat)
  <2>1. \A i \in 1 .. c : flow.ring.pkt_len_seq[i] \in Nat /\ flow.ring.ts_seq[i] \in Nat
    BY <1>4, <1>6, Zenon
  <2> QED BY <1>5, <2>1, SeqOfNats, Zenon
<1>8. \A i \in 1 .. c :
        /\ flow.ring.pkt_len_seq[i] = kept(i).len
        /\ flow.ring.payload_len_seq[i] = Len(kept(i).pay)
        /\ flow.ring.pkt_len_seq[i] \in Nat /\ flow.ring.l3_len_seq[i] \in Nat
        /\ flow.ring.l4_len_seq[i] \in Nat /\ flow.ring.payload_len_seq[i] \in Nat
        /\ flow.ring.l3_len_seq[i] + flow.ring.l4_len_seq[i] + flow.ring.payload_len_seq[i]
             <= flow.ring.pkt_len_seq[i]
        /\ flow.ring.dir_seq[i] \in {-1, 0, 1}
  BY <1>4, <1>6, Zenon
<1> QED BY <1>5, <1>7, <1>8, Zenon DEF kept

LEMMA MinOfEqual == \A c \in Int : Min({c, c, c, c}) = c
<1> TAKE c \in Int
<1>1. {c, c, c, c} \in SUBSET Int /\ c \in {c, c, c, c} /\ \A y \in {c, c, c, c} : c <= y
  OBVIOUS
<1> HIDE <1>1
<1> QED BY <1>1, MinOf

(* The lengths of the same c packets and of their parts.                   *)
LengthsOf(lens, l3, l4, pay, c) ==
  /\ c \in Nat \ {0} /\ Len(lens) = c /\ Len(l3) = c /\ Len(l4) = c /\ Len(pay) = c
  /\ \A i \in 1 .. c : /\ lens[i] \in Nat /\ l3[i] \in Nat /\ l4[i] \in Nat /\ pay[i] \in Nat
                        /\ l3[i] + l4[i] + pay[i] <= lens[i]

(* seq puts the parts of each packet together again.                       *)
JoinsUp(seq, lens, pay, iats, c) ==
  /\ Len(seq) = c
  /\ \A i \in 1 .. c : /\ seq[i].l2 + seq[i].l3 + seq[i].l4 + seq[i].payload = lens[i]
                        /\ seq[i].payload = pay[i]
  /\ \A i \in 1 .. c : i < c /\ i <= Len(iats) => seq[i + 1].iat = iats[i]

LEMMA CompositeIs ==
  ASSUME NEW c, NEW lens, NEW l3, NEW l4, NEW pay, NEW iats, LengthsOf(lens, l3, l4, pay, c)
  PROVE  JoinsUp(Composite(lens, l3, l4, pay, iats), lens, pay, iats, c)
<1> PICK seq : seq = Composite(lens, l3, l4, pay, iats)
  OBVIOUS
<1> USE DEF LengthsOf
<1> DEFINE upper(i) == l3[i] + l4[i] + pay[i]
           e(i) == [ l2 |-> IF lens[i] >= upper(i) THEN lens[i] - upper(i) ELSE 0,
                     l3 |-> l3[i], l4 |-> l4[i], payload |-> pay[i],
                     iat |-> IF i > 1 /\ i - 1 <= Len(iats) THEN iats[i - 1] ELSE 0 ]
<1>1. Min({Len(lens), Len(l3), Len(l4), Len(pay)}) = c
  BY MinOfEqual
<1>2. seq = [i \in 1 .. c |-> e(i)]
  BY <1>1, Zenon DEF Composite
<1> HIDE DEF e
<1>3. Len(seq) = c /\ \A i \in 1 .. c : seq[i] = e(i)
  BY <1>2
<1>4. ASSUME NEW i \in 1 .. c
      PROVE  /\ e(i).l2 + e(i).l3 + e(i).l4 + e(i).payload = lens[i]
             /\ e(i).payload = pay[i]
             /\ i > 1 /\ i - 1 <= Len(iats) => e(i).iat = iats[i - 1]
  <2>1. /\ e(i).l2 = (IF lens[i] >= upper(i) THEN lens[i] - upper(i) ELSE 0)
        /\ e(i).l3 = l3[i] /\ e(i).l4 = l4[i] /\ e(i).payload = pay[i]
        /\ i > 1 /\ i - 1 <= Len(iats) => e(i).iat = iats[i - 1]
    BY DEF e
  <2>2. lens[i] \in Nat /\ l3[i] \in Nat /\ l4[i] \in Nat /\ pay[i] \in Nat
    OBVIOUS
  <2>3. (lens[i] - upper(i)) + l3[i] + l4[i] + pay[i] = lens[i]
    <3> HIDE DEF LengthsOf
    <3> QED BY <2>2
  <2>4. e(i).l2 = lens[i] - upper(i)
    BY <2>1, <2>2
  <2>5. e(i).l2 + e(i).l3 + e(i).l4 + e(i).payload
          = (lens[i] - upper(i)) + l3[i] + l4[i] + pay[i]
    BY <2>1, <2>4, Zenon
  <2> QED BY <2>1, <2>3, <2>5, Zenon
<1>5. ASSUME NEW i \in 1 .. c, i < c, i <= Len(iats) PROVE seq[i + 1].iat = iats[i]
  <2>1. i + 1 \in 1 .. c /\ i + 1 > 1 /\ (i + 1) - 1 = i
    BY <1>5
  <2> HIDE DEF LengthsOf
  <2> QED BY <1>3, <1>4, <1>5, <2>1
<1>6. JoinsUp(seq, lens, pay, iats, c)
  BY <1>3, <1>4, <1>5, Zenon DEF JoinsUp
<1> QED BY <1>6, Zenon

LEMMA SequencesReported == SequencesInv => SequencesAligned
<1> SUFFICES ASSUME SequencesInv, record.closed PROVE SequencesAligned
  BY Zenon DEF SequencesAligned
<1> DEFINE lens == flow.ring.pkt_len_seq
           dirs == flow.ring.dir_seq
           times == flow.ring.ts_seq
           l3 == flow.ring.l3_len_seq
           l4 == flow.ring.l4_len_seq
           pay == flow.ring.payload_len_seq
           iats == flow.ring.iat_seq
<1>1. RoomInv /\ RecordIs /\ BigramTotal = Len(arrivals)
      /\ (NothingLost => \E c \in Nat : RingsHold(c))
  BY Zenon DEF SequencesInv
<1>2. PICK allocated \in BOOLEAN : record = Computed(flow, allocated) /\ arrivals # << >>
  <2>1. ~NoRecord.closed
    BY DEF NoRecord
  <2> QED BY <1>1, <2>1, Zenon DEF RecordIs
<1>3. /\ record.chunks = ChunkSection(times, lens, dirs)
      /\ record.rates = RateSection(times, lens, dirs, allocated)
      /\ record.composite = Composite(lens, l3, l4, pay, iats)
  <2>1. /\ Computed(flow, allocated).chunks = ChunkSection(times, lens, dirs)
        /\ Computed(flow, allocated).rates = RateSection(times, lens, dirs, allocated)
        /\ Computed(flow, allocated).composite = Composite(lens, l3, l4, pay, iats)
    BY DEF Computed
  <2> QED BY <1>2, <2>1, Zenon
<1> DEFINE Parts(n) ==
      /\ Total(RunLengths(lens)) = n
      /\ record.chunks # <<>> /\ Total(record.chunks[1]) = Total(lens)
      /\ record.rates # <<>> /\ RatesInReach(times) =>
           /\ Total(record.rates[1].up)
                = Total([i \in 1 .. n |-> IF dirs[i] = 1 THEN lens[i] ELSE 0])
           /\ Total(record.rates[1].down)
                = Total([i \in 1 .. n |-> IF dirs[i] = -1 THEN lens[i] ELSE 0])
      /\ Len(record.composite) = n
      /\ \A i \in 1 .. n :
           /\ record.composite[i].l2 + record.composite[i].l3 + record.composite[i].l4
                + record.composite[i].payload = arrivals[Len(arrivals) - n + i].len
           /\ record.composite[i].payload = Len(arrivals[Len(arrivals) - n + i].pay)
<1>4. ASSUME NothingLost
      PROVE  /\ Parts(Len(lens))
             /\ Len(lens) = Len(arrivals) =>
                  \A i \in 2 .. Len(lens) :
                    record.composite[i].iat = (arrivals[i].ts - arrivals[i - 1].ts) % TimeSpan
  <2> PICK c \in Nat : RingsHold(c)
    BY <1>1, <1>4
  <2> PICK n \in Nat : n = Len(arrivals)
    BY <1>1 DEF RoomInv
  <2>1. c <= n /\ (n > 0 => c > 0) /\ (c = n => iats = [i \in 1 .. n - 1 |-> GapAt(i)])
    BY Zenon DEF RingsHold
  <2>2. c \in Nat \ {0}
    <3>1. n # 0
      <4>1. arrivals \in Seq(Packets)
        BY <1>1 DEF RoomInv
      <4> QED BY <1>2, <4>1, EmptySeq
    <3> QED BY <2>1, <3>1
  <2> DEFINE kept(i) == arrivals[Len(arrivals) - c + i]
  <2>3. /\ lens \in Seq(Nat) /\ dirs \in Seq(Int) /\ times \in Seq(Nat)
        /\ Len(lens) = c /\ Len(dirs) = c /\ Len(times) = c
        /\ Len(l3) = c /\ Len(l4) = c /\ Len(pay) = c
        /\ \A i \in 1 .. c : /\ lens[i] = kept(i).len /\ pay[i] = Len(kept(i).pay)
                             /\ lens[i] \in Nat /\ l3[i] \in Nat /\ l4[i] \in Nat
                             /\ pay[i] \in Nat /\ l3[i] + l4[i] + pay[i] <= lens[i]
                             /\ dirs[i] \in {-1, 0, 1}
    BY <1>1, <2>2, RingsAre, Zenon
  <2> HIDE DEF lens, dirs, times, l3, l4, pay, iats
  <2>4. lens # << >> /\ times # << >> /\ lens \in Seq(Int)
    <3>1. lens \in Seq(Int) /\ Len(<< >>) = 0 /\ c # 0
      BY <2>2, <2>3
    <3> QED BY <2>3, <3>1, Zenon
  <2>5. Total(RunLengths(lens)) = c
    BY <2>3, <2>4, RunsCountAll, Zenon
  <2>6. SameLength(times, lens, dirs)
    BY <2>3, <2>4, Zenon DEF SameLength
  <2>7. record.chunks # << >> /\ Total(record.chunks[1]) = Total(lens)
    <3>1. record.chunks = <<Chunks(times, lens, dirs)>>
      BY <1>3, <2>6, Zenon DEF ChunkSection
    <3>2. \A x : <<x>> # << >> /\ <<x>>[1] = x
      OBVIOUS
    <3>3. Total(Chunks(times, lens, dirs)) = Total(lens)
      BY <2>3, <2>4, ChunksCountAll, Zenon
    <3> QED BY <3>1, <3>2, <3>3, Zenon
  <2>8. ASSUME record.rates # << >>
        PROVE  /\ record.rates[1].up = Rates(times, lens, dirs, 1)
               /\ record.rates[1].down = Rates(times, lens, dirs, -1)
    <3>1. record.rates = << [up |-> Rates(times, lens, dirs, 1),
                             down |-> Rates(times, lens, dirs, -1)] >>
      BY <1>3, <2>6, <2>8, Zenon DEF RateSection
    <3> PICK u : u = Rates(times, lens, dirs, 1)
      OBVIOUS
    <3> PICK d : d = Rates(times, lens, dirs, -1)
      OBVIOUS
    <3>2. record.rates = << [up |-> u, down |-> d] >>
      BY <3>1, Zenon
    <3>3. record.rates[1].up = u /\ record.rates[1].down = d
      BY <3>2
    <3> QED BY <3>3, Zenon
  <2>9. RateWindow \in Nat \ {0} /\ TimeSpan \in Nat \ {0} /\ CountSpan \in Nat \ {0}
    <3>1. TimeSpan \in Nat \ {0}
      <4>1. n \in 1 .. n /\ \A i \in 1 .. n : arrivals[i] \in Packets
        BY <1>1, <2>1, <2>2 DEF RoomInv
      <4>2. \A q \in Packets : TimeSpan \in Nat \ {0}
        BY PacketTypes, Zenon
      <4> QED BY <4>1, <4>2, Zenon
    <3>2. CountSpan \in Nat \ {0}
      BY RecordConstants, PoolSizes
    <3> QED BY <3>1, <3>2, RecordConstants, Zenon
  <2>10. ASSUME RatesInReach(times), NEW sign \in {-1, 1}
         PROVE  Total(Rates(times, lens, dirs, sign))
                  = Total([i \in 1 .. c |-> IF dirs[i] = sign THEN lens[i] ELSE 0])
    <3>1. \A i \in 1 .. c : dirs[i] \in {-1, 0, 1}
      BY <2>3, Zenon
    <3>2. InStep(times, lens, dirs, c)
      BY <2>2, <2>3, <2>9, <3>1, Zenon DEF InStep
    <3> HIDE DEF Parts
    <3> QED BY <2>10, <3>2, RatesCountAll
  <2>14. LengthsOf(lens, l3, l4, pay, c)
    BY <2>2, <2>3, Zenon DEF LengthsOf
  <2>11. /\ Len(record.composite) = c
         /\ \A i \in 1 .. c :
              /\ record.composite[i].l2 + record.composite[i].l3 + record.composite[i].l4
                   + record.composite[i].payload = lens[i]
              /\ record.composite[i].payload = pay[i]
         /\ \A i \in 1 .. c : i < c /\ i <= Len(iats) => record.composite[i + 1].iat = iats[i]
    <3> HIDE DEF Parts
    <3>1. JoinsUp(Composite(lens, l3, l4, pay, iats), lens, pay, iats, c)
      BY <2>14, CompositeIs, Zenon
    <3>2. JoinsUp(record.composite, lens, pay, iats, c)
      BY <1>3, <3>1, Zenon
    <3> QED BY <3>2, Zenon DEF JoinsUp
  <2>12. Parts(c)
    <3>1. 1 \in {-1, 1} /\ -1 \in {-1, 1}
      OBVIOUS
    <3>2. record.rates # << >> /\ RatesInReach(times) =>
            /\ Total(record.rates[1].up)
                 = Total([i \in 1 .. c |-> IF dirs[i] = 1 THEN lens[i] ELSE 0])
            /\ Total(record.rates[1].down)
                 = Total([i \in 1 .. c |-> IF dirs[i] = -1 THEN lens[i] ELSE 0])
      BY <2>8, <2>10, <3>1, Zenon
    <3> QED BY <2>3, <2>5, <2>7, <2>11, <3>2, Zenon
  <2>13. ASSUME c = n, NEW i \in 2 .. c
         PROVE  record.composite[i].iat = (arrivals[i].ts - arrivals[i - 1].ts) % TimeSpan
    <3>1. iats = [k \in 1 .. n - 1 |-> GapAt(k)]
      BY <2>1, <2>13, Zenon
    <3> PICK j \in 1 .. n - 1 : i = j + 1
      <4>1. i - 1 \in 1 .. n - 1 /\ i = (i - 1) + 1
        BY <2>2, <2>13
      <4> QED BY <4>1
    <3>2. Len(iats) = n - 1 /\ j \in 1 .. c /\ j < c /\ j <= Len(iats) /\ i - 1 = j
      BY <2>2, <2>13, <3>1
    <3>3. iats[j] = (arrivals[j + 1].ts - arrivals[j].ts) % TimeSpan
      BY <3>1 DEF GapAt
    <3>4. record.composite[j + 1].iat = iats[j]
      BY <2>11, <3>2, Zenon
    <3>5. record.composite[i].iat = (arrivals[i].ts - arrivals[j].ts) % TimeSpan
      BY <3>3, <3>4
    <3> HIDE DEF Parts
    <3> QED BY <3>2, <3>5
  <2> HIDE DEF Parts
  <2> QED BY <2>3, <2>12, <2>13, Zenon
<1>5. Total([k \in 1 .. 9 |-> flow.bigrams[Bigrams[k]]]) = Len(arrivals)
  BY <1>1, Zenon DEF BigramTotal
<1> QED BY <1>4, <1>5, Zenon DEF SequencesAligned

LEMMA SequencesInvInit == Init => SequencesInv
<1> SUFFICES ASSUME Init PROVE SequencesInv
  OBVIOUS
<1>1. RoomInv /\ RecordIs
  BY LengthsInvInit, Zenon DEF LengthsInv
<1>2. /\ arrivals = << >> /\ flow.ring = [r \in Ring |-> << >>]
      /\ flow.last_arrival_us = 0 /\ flow.last_class = "s"
      /\ flow.bigrams = [pair \in ToSet(Bigrams) |-> 0]
  BY DEF Init
<1>3. RingsHold(0)
  <2>1. /\ \A r \in CutRings : r \in Ring
        /\ "iat_seq" \in Ring
    BY PushesOf
  <2>2. flow.pool.seq_len \in Nat
    <3> PICK l \in Level : l = flow.pool.level
      BY <1>1 DEF RoomInv, Pool
    <3>1. flow.pool.seq_len = SeqLen[l]
      BY <1>1, Zenon DEF RoomInv
    <3> QED BY <3>1, SeqLenGrows
  <2>3. Len(arrivals) = 0 /\ 0 <= 0 /\ ~(0 > 0) /\ 0 <= flow.pool.seq_len
    BY <1>2, <2>2
  <2>5. ASSUME NEW r \in CutRings
        PROVE  flow.ring[r] = [i \in 1 .. 0 |-> Entry(arrivals[Len(arrivals) - 0 + i])[r]]
    BY <1>2, <2>1
  <2>6. flow.ring["iat_seq"] = [i \in 1 .. Len(arrivals) - 1 |-> GapAt(i)]
    <3>1. 1 .. Len(arrivals) - 1 = {}
      BY <2>3
    <3>2. flow.ring["iat_seq"] = << >>
      BY <1>2, <2>1
    <3>3. [i \in 1 .. 0 |-> GapAt(i)] = << >> /\ 1 .. 0 = {}
      OBVIOUS
    <3> QED BY <3>1, <3>2, <3>3, Zenon
  <2> QED BY <2>3, <2>5, <2>6, Zenon DEF RingsHold
<1>4. flow.bigrams \in [ToSet(Bigrams) -> Nat] /\ flow.last_class \in {"s", "m", "l"}
  BY <1>2
<1>5. BigramTotal = 0 /\ Len(arrivals) = 0 /\ 0 \in Nat
  <2> DEFINE counts == [k \in 1 .. 9 |-> flow.bigrams[Bigrams[k]]]
  <2>1. \A k \in 1 .. 9 : flow.bigrams[Bigrams[k]] = 0
    BY <1>2, BigramAt
  <2>2. counts \in Seq(Int) /\ \A k \in 1 .. Len(counts) : counts[k] = 0
    <3>1. counts = [k \in 1 .. 9 |-> 0]
      BY <2>1, Zenon
    <3> QED BY <3>1
  <2> HIDE DEF counts
  <2>3. Total(counts) = 0
    BY <2>2, TotalOfZeros
  <2> QED BY <1>2, <2>3 DEF counts, BigramTotal
<1> QED BY <1>1, <1>2, <1>3, <1>4, <1>5, Zenon DEF SequencesInv

LEMMA SequencesStep == SequencesInv /\ [Next]_vars => SequencesInv'
<1> SUFFICES ASSUME SequencesInv, [Next]_vars PROVE SequencesInv'
  OBVIOUS
<1>1. /\ RoomInv /\ RecordIs
      /\ NothingLost => \E c \in Nat : RingsHold(c)
      /\ flow.last_arrival_us = IF arrivals = << >> THEN 0 ELSE arrivals[Len(arrivals)].ts
      /\ flow.bigrams \in [ToSet(Bigrams) -> Nat] /\ flow.last_class \in {"s", "m", "l"}
      /\ BigramTotal = Len(arrivals)
  BY Zenon DEF SequencesInv
<1>2. RecordIs' /\ ((\E p \in Packets : Data(p)) \/ UNCHANGED <<supply, flow, arrivals>>)
  BY <1>1, RecordStep, Zenon
<1>3. CASE UNCHANGED <<supply, flow, arrivals>>
  <2>1. (NeverDenied' <=> NeverDenied) /\ (NothingLost' <=> NothingLost)
    BY <1>3, Zenon DEF NeverDenied, NothingLost
  <2>2. RoomInv'
    BY <1>1, <1>3, <2>1, Zenon DEF RoomInv
  <2>3. \A i : GapAt(i)' = GapAt(i)
    BY <1>3, Zenon DEF GapAt
  <2>4. \A c : RingsHold(c) => RingsHold(c)'
    <3> SUFFICES ASSUME NEW c, RingsHold(c) PROVE RingsHold(c)'
      OBVIOUS
    <3> DEFINE n == Len(arrivals)
               kept(r) == [i \in 1 .. c |-> Entry(arrivals[n - c + i])[r]]
    <3>1. /\ c <= n /\ c <= flow.pool.seq_len /\ (n > 0 => c > 0)
          /\ \A r \in CutRings : flow.ring[r] = kept(r)
          /\ c = n => flow.ring["iat_seq"] = [i \in 1 .. n - 1 |-> GapAt(i)]
      BY Zenon DEF RingsHold
    <3>2. n' = n /\ flow' = flow /\ \A r : kept(r)' = kept(r)
      BY <1>3, Zenon
    <3>3. [i \in 1 .. n - 1 |-> GapAt(i)]' = [i \in 1 .. n - 1 |-> GapAt(i)]
      BY <1>3, Zenon DEF GapAt
    <3> SUFFICES /\ c <= n' /\ c <= flow'.pool.seq_len /\ (n' > 0 => c > 0)
                 /\ \A r \in CutRings : flow'.ring[r] = kept(r)'
                 /\ c = n' => flow'.ring["iat_seq"] = [i \in 1 .. n - 1 |-> GapAt(i)]'
      BY Zenon DEF RingsHold
    <3> HIDE DEF n, kept
    <3> QED BY <3>1, <3>2, <3>3, Zenon
  <2>5. BigramTotal' = BigramTotal
    BY <1>3, Zenon DEF BigramTotal
  <2> QED BY <1>1, <1>2, <1>3, <2>1, <2>2, <2>4, <2>5, Zenon DEF SequencesInv
<1>4. CASE \E p \in Packets : Data(p)
  <2> PICK p \in Packets : Data(p)
    BY <1>4
  <2>1. RoomInv'
    BY <1>1, RoomStep, Zenon
  <2>2. NothingLost' => \E c \in Nat : RingsHold(c)'
    BY <1>1, RingsStep, Zenon
  <2>3. /\ BigramTotal' = Len(arrivals')
        /\ flow'.bigrams \in [ToSet(Bigrams) -> Nat] /\ flow'.last_class \in {"s", "m", "l"}
    BY <1>1, BigramStep, Zenon
  <2>4. flow'.last_arrival_us = IF arrivals' = << >> THEN 0 ELSE arrivals'[Len(arrivals')].ts
    <3>1. flow'.last_arrival_us = p.ts
      BY <1>1, RecordMoves, Zenon
    <3>2. arrivals' = Append(arrivals, p) /\ arrivals \in Seq(Packets)
      BY <1>1 DEF Data, RoomInv
    <3>3. arrivals' # << >> /\ arrivals'[Len(arrivals')] = p
      BY <3>2
    <3> QED BY <3>1, <3>3, Zenon
  <2> QED BY <1>2, <2>1, <2>2, <2>3, <2>4, Zenon DEF SequencesInv
<1> QED BY <1>2, <1>3, <1>4

(* flow_state_compute_features: while no snapshot is lost, runs, chunks,   *)
(* rates and the composite sequence of the report describe the same        *)
(* packets, and the bigrams count each packet once.                        *)
THEOREM SequencesStayAligned == Spec => []SequencesAligned
<1> QED BY SequencesInvInit, SequencesStep, SequencesReported, PTL DEF Spec
-----------------------------------------------------------------------------
(* What the exchange sort comes to once p - 1 bigrams have their place and *)
(* the i-th was compared with the t after it.                              *)
RankedTo(c, r, p, i, t) ==
  /\ r \in [1 .. 9 -> ToSet(Bigrams)]
  /\ \A a, b \in 1 .. 9 : a < b => r[a] # r[b]
  /\ \A x \in ToSet(Bigrams) : \E k \in 1 .. 9 : r[k] = x
  /\ \A a, b \in 1 .. 9 : a < p /\ a < b => c[r[b]] <= c[r[a]]
  /\ \A b \in 1 .. 9 : i < b /\ b <= i + t => c[r[b]] <= c[r[i]]

LEMMA ExchangeRanks ==
  ASSUME NEW c \in [ToSet(Bigrams) -> Nat], NEW i \in 1 .. 8, NEW t \in Nat, NEW j \in 1 .. 9, j = i + (t + 1),
         NEW p \in 1 .. i, NEW r, RankedTo(c, r, p, i, t)
  PROVE  RankedTo(c, Exchanged(c, r, i, j), p, i, t + 1)
<1> DEFINE B == ToSet(Bigrams)
           q == Exchanged(c, r, i, j)
<1> HIDE DEF B
<1>1. /\ r \in [1 .. 9 -> B] /\ c \in [B -> Nat]
      /\ \A a, b \in 1 .. 9 : a < b => r[a] # r[b]
      /\ \A x \in B : \E k \in 1 .. 9 : r[k] = x
      /\ \A a, b \in 1 .. 9 : a < p /\ a < b => c[r[b]] <= c[r[a]]
      /\ \A b \in 1 .. 9 : i < b /\ b <= i + t => c[r[b]] <= c[r[i]]
  BY Zenon DEF RankedTo, B
<1>2. i \in 1 .. 9 /\ i < j /\ \A b \in 1 .. 9 : b <= i + (t + 1) => b <= i + t \/ b = j
  OBVIOUS
<1>3. \A k \in 1 .. 9 : c[r[k]] \in Nat
  BY <1>1
<1> SUFFICES /\ q \in [1 .. 9 -> B]
             /\ \A a, b \in 1 .. 9 : a < b => q[a] # q[b]
             /\ \A x \in B : \E k \in 1 .. 9 : q[k] = x
             /\ \A a, b \in 1 .. 9 : a < p /\ a < b => c[q[b]] <= c[q[a]]
             /\ \A b \in 1 .. 9 : i < b /\ b <= i + (t + 1) => c[q[b]] <= c[q[i]]
  BY Zenon DEF RankedTo, B
<1>4. CASE c[r[i]] < c[r[j]]
  <2>1. q = [r EXCEPT ![i] = r[j], ![j] = r[i]]
    BY <1>4, Zenon DEF Exchanged
  <2> DEFINE once == [r EXCEPT ![i] = r[j]]
  <2>2a. r \in [1 .. 9 -> B] /\ r[i] \in B /\ r[j] \in B
    BY <1>1, <1>2
  <2>2b. once \in [1 .. 9 -> B] /\ once[i] = r[j] /\ \A k \in 1 .. 9 : k # i => once[k] = r[k]
    BY <1>2, <2>2a
  <2>2c. q = [once EXCEPT ![j] = r[i]]
    BY <2>1, Zenon
  <2> HIDE DEF once, q
  <2>2. q \in [1 .. 9 -> B] /\ q[i] = r[j] /\ q[j] = r[i]
        /\ \A k \in 1 .. 9 : k # i /\ k # j => q[k] = r[k]
    BY <1>2, <2>2a, <2>2b, <2>2c
  <2> DEFINE from == [k \in 1 .. 9 |-> IF k = i THEN j ELSE IF k = j THEN i ELSE k]
  <2>3. /\ from \in [1 .. 9 -> 1 .. 9] /\ \A k \in 1 .. 9 : from[from[k]] = k /\ q[k] = r[from[k]]
        /\ \A k \in 1 .. 9 : k < p => from[k] = k
        /\ \A a, b \in 1 .. 9 : a < p /\ a < b => a < from[b]
        /\ \A a, b \in 1 .. 9 : a < b => from[a] < from[b] \/ from[b] < from[a]
    BY <1>2, <2>2
  <2> HIDE DEF from, q
  <2>4. \A a, b \in 1 .. 9 : a < b => q[a] # q[b]
    BY <1>1, <2>3
  <2>5. \A x \in B : \E k \in 1 .. 9 : q[k] = x
    <3> TAKE x \in B
    <3>1. PICK k \in 1 .. 9 : r[k] = x
      BY <1>1
    <3>2. from[k] \in 1 .. 9 /\ q[from[k]] = x
      BY <2>3, <3>1
    <3> QED BY <3>2
  <2>6. \A a, b \in 1 .. 9 : a < p /\ a < b => c[q[b]] <= c[q[a]]
    <3> TAKE a, b \in 1 .. 9
    <3> HAVE a < p /\ a < b
    <3>1. q[a] = r[a] /\ q[b] = r[from[b]] /\ from[b] \in 1 .. 9 /\ a < from[b]
      BY <2>3
    <3> QED BY <1>1, <3>1
  <2>7. \A b \in 1 .. 9 : i < b /\ b <= i + (t + 1) => c[q[b]] <= c[q[i]]
    <3> TAKE b \in 1 .. 9
    <3> HAVE i < b /\ b <= i + (t + 1)
    <3>1. CASE b = j
      BY <1>2, <1>3, <1>4, <2>2, <3>1
    <3>2. CASE b # j
      <4>1. b <= i + t /\ q[b] = r[b]
        BY <1>2, <2>2, <3>2
      <4>2. c[r[b]] <= c[r[i]]
        BY <1>1, <4>1
      <4> QED BY <1>2, <1>3, <1>4, <2>2, <4>1, <4>2
    <3> QED BY <3>1, <3>2
  <2> QED BY <2>2, <2>4, <2>5, <2>6, <2>7
<1>5. CASE ~(c[r[i]] < c[r[j]])
  <2>1. q = r
    BY <1>5, Zenon DEF Exchanged
  <2>2. \A b \in 1 .. 9 : i < b /\ b <= i + (t + 1) => c[r[b]] <= c[r[i]]
    BY <1>1, <1>2, <1>3, <1>5
  <2> HIDE DEF q
  <2> QED BY <1>1, <2>1, <2>2
<1> QED BY <1>4, <1>5

LEMMA SettledUnfolds ==
  ASSUME NEW c, NEW r, NEW i
  PROVE  LET at == [j \in 1 .. 9 - i |-> i + j]
             D == DOMAIN at
         IN  Settled(c, r, i) = (CHOOSE it : it = [S \in SUBSET D |->
                IF S = {} THEN r ELSE Exchanged(c, it[S \ {Max(S)}], i, at[Max(S)])])[D]
BY DEF Settled, FoldLeft, MapThenFoldSet

LEMMA RankedUnfolds ==
  ASSUME NEW c
  PROVE  LET at == [i \in 1 .. 8 |-> i]
             D == DOMAIN at
         IN  RankedBigrams(c) = (CHOOSE it : it = [S \in SUBSET D |->
                IF S = {} THEN Bigrams ELSE Settled(c, it[S \ {Max(S)}], at[Max(S)])])[D]
BY DEF RankedBigrams, FoldLeft, MapThenFoldSet

(* The i-th round finds the i-th bigram.                                   *)
LEMMA RoundRanks ==
  ASSUME NEW c \in [ToSet(Bigrams) -> Nat], NEW i \in 1 .. 8, NEW p \in 1 .. i, NEW r, RankedTo(c, r, p, i, 0)
  PROVE  RankedTo(c, Settled(c, r, i), p, i, 9 - i)
<1> PICK m \in Nat : m = 9 - i
  OBVIOUS
<1>0. 1 .. 9 - i = 1 .. m /\ i + m = 9
  OBVIOUS
<1> DEFINE State == [1 .. 9 -> ToSet(Bigrams)]
           at == [j \in 1 .. m |-> i + j]
           next(s, j) == Exchanged(c, s, i, j)
           step == [q \in State \X (1 .. m) |-> next(q[1], i + q[2])]
<1>1. r \in State
  BY Zenon DEF RankedTo
<1>2. step \in [State \X (1 .. m) -> State]
  <2>1. ASSUME NEW s \in State, NEW k \in 1 .. m PROVE next(s, i + k) \in State
    <3>1. i \in 1 .. 9 /\ i + k \in 1 .. 9
      BY <1>0
    <3>2. [s EXCEPT ![i] = s[i + k], ![i + k] = s[i]] \in State
      BY <3>1
    <3> QED BY <3>2, Zenon DEF Exchanged
  <2> HIDE DEF State, next
  <2> QED BY <2>1
<1>3. PICK it \in [SUBSET (1 .. m) -> State] : FoldsTo(step, r, m, it)
  <2> HIDE DEF step, State
  <2> QED BY <1>1, <1>2, FoldsExist
<1> DEFINE After(f, S) == next(f[S \ {Max(S)}], at[Max(S)])
<1>4. \A f : \A S \in SUBSET (1 .. m) : S # {} /\ f[S \ {Max(S)}] \in State
         => After(f, S) = step[<<f[S \ {Max(S)}], Max(S)>>]
  <2> TAKE f
  <2> TAKE S \in SUBSET (1 .. m)
  <2> HAVE S # {} /\ f[S \ {Max(S)}] \in State
  <2>1. Max(S) \in 1 .. m
    BY MaxOfPositions
  <2>2. at[Max(S)] = i + Max(S)
    BY <2>1
  <2> HIDE DEF next, State
  <2>3. step[<<f[S \ {Max(S)}], Max(S)>>] = next(f[S \ {Max(S)}], i + Max(S))
    BY <2>1
  <2> QED BY <2>2, <2>3, Zenon
<1>5. it = [S \in SUBSET (1 .. m) |-> IF S = {} THEN r ELSE After(it, S)]
  <2>1. \A S \in SUBSET (1 .. m) : S # {} => it[S \ {Max(S)}] \in State
    BY <1>3
  <2> HIDE DEF step, After, State
  <2> QED BY <1>3, <1>4, <2>1, Zenon DEF FoldsTo
<1> DEFINE scan == CHOOSE f : f = [S \in SUBSET (1 .. m) |-> IF S = {} THEN r ELSE After(f, S)]
<1>6. scan = [S \in SUBSET (1 .. m) |-> IF S = {} THEN r ELSE After(scan, S)]
  <2> HIDE DEF After
  <2> QED BY <1>5, Zenon
<1>7. Settled(c, r, i) = scan[1 .. m]
  <2> DEFINE all == [j \in 1 .. 9 - i |-> i + j]
  <2>1. all = at /\ DOMAIN all = 1 .. m
    BY <1>0
  <2>2. Settled(c, r, i) = (CHOOSE f : f = [S \in SUBSET DOMAIN all |->
                        IF S = {} THEN r ELSE next(f[S \ {Max(S)}], all[Max(S)])])[DOMAIN all]
    BY SettledUnfolds, Zenon
  <2> HIDE DEF all, at, next
  <2> QED BY <2>1, <2>2, ZenonT(60)
<1>8. Folded(State, step, r, m, scan)
  <2> DEFINE after == [S \in SUBSET (1 .. m) |-> After(scan, S)]
  <2> HIDE DEF scan, After, step, State
  <2>1. scan = [S \in SUBSET (1 .. m) |-> IF S = {} THEN r ELSE after[S]]
    BY <1>6, Zenon
  <2>2. \A S \in SUBSET (1 .. m) : S # {} /\ scan[S \ {Max(S)}] \in State
            => after[S] = step[<<scan[S \ {Max(S)}], Max(S)>>]
    BY <1>4, Zenon
  <2> HIDE DEF after
  <2> QED BY <1>1, <1>2, <2>1, <2>2, FoldSteps, ZenonT(60)
<1> HIDE DEF scan
<1> DEFINE P == {j \in Nat : j <= m => RankedTo(c, scan[1 .. j], p, i, j)}
<1>9. 0 \in P
  <2>1. scan[1 .. 0] = r
    BY <1>8, Zenon DEF Folded
  <2> QED BY <2>1
<1>10. ASSUME NEW j \in Nat, j \in P PROVE j + 1 \in P
  <2>1. SUFFICES ASSUME j + 1 <= m PROVE RankedTo(c, scan[1 .. j + 1], p, i, j + 1)
    OBVIOUS
  <2>2. RankedTo(c, scan[1 .. j], p, i, j) /\ j <= m /\ j + 1 \in 1 .. m
    BY <1>10, <2>1
  <2>3. scan[1 .. j] \in State /\ scan[1 .. j + 1] = step[<<scan[1 .. j], j + 1>>]
    BY <1>8, <2>1, <2>2, Zenon DEF Folded
  <2>4. step[<<scan[1 .. j], j + 1>>] = Exchanged(c, scan[1 .. j], i, i + (j + 1))
    <3> HIDE DEF State
    <3>1. <<scan[1 .. j], j + 1>> \in State \X (1 .. m)
      BY <2>2, <2>3
    <3> QED BY <3>1
  <2>5. RankedTo(c, Exchanged(c, scan[1 .. j], i, i + (j + 1)), p, i, j + 1)
    <3>1. i + (j + 1) \in 1 .. 9
      BY <1>0, <2>1
    <3> QED BY <2>2, <3>1, ExchangeRanks
  <2> HIDE DEF step
  <2> QED BY <2>3, <2>4, <2>5, Zenon
<1> HIDE DEF P
<1>11. P \in SUBSET Nat
  BY DEF P
<1>12. m \in P /\ m <= m
  BY <1>9, <1>10, <1>11, InductiveSet
<1>13. m = 9 - i
  BY <1>0
<1> QED BY <1>7, <1>12, <1>13, Zenon DEF P

(* Then the i-th has its place; all have it after eight rounds.            *)
LEMMA PlaceFound ==
  ASSUME NEW c, NEW i \in 1 .. 8, NEW s, RankedTo(c, s, i, i, 9 - i)
  PROVE  RankedTo(c, s, i + 1, i + 1, 0)
<1>1. /\ \A a, b \in 1 .. 9 : a < i /\ a < b => c[s[b]] <= c[s[a]]
      /\ \A b \in 1 .. 9 : i < b /\ b <= i + (9 - i) => c[s[b]] <= c[s[i]]
  BY Zenon DEF RankedTo
<1>2. /\ \A a, b \in 1 .. 9 : a < i + 1 /\ a < b => c[s[b]] <= c[s[a]]
      /\ \A b \in 1 .. 9 : i + 1 < b /\ b <= i + 1 + 0 => c[s[b]] <= c[s[i + 1]]
  BY <1>1
<1> QED BY <1>2, Zenon DEF RankedTo

LEMMA BigramsRank ==
  ASSUME NEW c \in [ToSet(Bigrams) -> Nat]
  PROVE  RankedTo(c, RankedBigrams(c), 9, 9, 0)
<1>m. PICK m \in Nat : m = 8
  OBVIOUS
<1> DEFINE State == {r \in [1 .. 9 -> ToSet(Bigrams)] : RankedTo(c, r, 1, 1, 0)}
           at == [i \in 1 .. m |-> i]
           next(s, i) == Settled(c, s, i)
           step == [q \in State \X (1 .. m) |-> next(q[1], q[2])]
<1>0. \A r : (\E p, i, t \in Nat : RankedTo(c, r, p, i, t)) => r \in State
  <2> TAKE r
  <2> HAVE \E p, i, t \in Nat : RankedTo(c, r, p, i, t)
  <2>1. /\ r \in [1 .. 9 -> ToSet(Bigrams)]
        /\ \A a, b \in 1 .. 9 : a < b => r[a] # r[b]
        /\ \A x \in ToSet(Bigrams) : \E k \in 1 .. 9 : r[k] = x
    BY Zenon DEF RankedTo
  <2>2. /\ \A a, b \in 1 .. 9 : a < 1 /\ a < b => c[r[b]] <= c[r[a]]
        /\ \A b \in 1 .. 9 : 1 < b /\ b <= 1 + 0 => c[r[b]] <= c[r[1]]
    OBVIOUS
  <2> QED BY <2>1, <2>2, Zenon DEF RankedTo
<1>1. RankedTo(c, Bigrams, 1, 1, 0) /\ Bigrams \in State
  <2>1. Bigrams \in [1 .. 9 -> ToSet(Bigrams)]
    BY BigramAt
  <2>2. \A a, b \in 1 .. 9 : a < b => Bigrams[a] # Bigrams[b]
    BY DEF Bigrams
  <2>3. \A x \in ToSet(Bigrams) : \E k \in 1 .. 9 : Bigrams[k] = x
    <3>1. DOMAIN Bigrams = 1 .. 9
      BY BigramAt
    <3> QED BY <3>1, Zenon DEF ToSet
  <2>4. /\ \A a, b \in 1 .. 9 : a < 1 /\ a < b => c[Bigrams[b]] <= c[Bigrams[a]]
        /\ \A b \in 1 .. 9 : 1 < b /\ b <= 1 + 0 => c[Bigrams[b]] <= c[Bigrams[1]]
    OBVIOUS
  <2>5. RankedTo(c, Bigrams, 1, 1, 0)
    BY <2>1, <2>2, <2>3, <2>4, Zenon DEF RankedTo
  <2>6. 0 \in Nat /\ 1 \in Nat
    OBVIOUS
  <2> QED BY <1>0, <2>5, <2>6, Zenon
<1>2. step \in [State \X (1 .. m) -> State]
  <2>1. ASSUME NEW s \in State, NEW i \in 1 .. m PROVE next(s, i) \in State
    <3>0. i \in 1 .. 8
      BY <1>m
    <3>1. RankedTo(c, s, 1, i, 0)
      <4>1. /\ s \in [1 .. 9 -> ToSet(Bigrams)]
            /\ \A a, b \in 1 .. 9 : a < b => s[a] # s[b]
            /\ \A x \in ToSet(Bigrams) : \E k \in 1 .. 9 : s[k] = x
        BY Zenon DEF RankedTo
      <4>2. /\ \A a, b \in 1 .. 9 : a < 1 /\ a < b => c[s[b]] <= c[s[a]]
            /\ \A b \in 1 .. 9 : i < b /\ b <= i + 0 => c[s[b]] <= c[s[i]]
        OBVIOUS
      <4> QED BY <4>1, <4>2, Zenon DEF RankedTo
    <3>2. 1 \in 1 .. i /\ 9 - i \in Nat /\ i \in Nat /\ 1 \in Nat
      BY <3>0
    <3>3. RankedTo(c, Settled(c, s, i), 1, i, 9 - i)
      BY <3>0, <3>1, <3>2, RoundRanks
    <3> HIDE DEF State
    <3> QED BY <1>0, <3>2, <3>3, Zenon
  <2> HIDE DEF State, next
  <2> QED BY <2>1
<1> HIDE DEF State
<1>3. PICK it \in [SUBSET (1 .. m) -> State] : FoldsTo(step, Bigrams, m, it)
  <2> HIDE DEF step
  <2> QED BY <1>1, <1>2, FoldsExist
<1> DEFINE After(f, S) == next(f[S \ {Max(S)}], at[Max(S)])
<1>4. \A f : \A S \in SUBSET (1 .. m) : S # {} /\ f[S \ {Max(S)}] \in State
         => After(f, S) = step[<<f[S \ {Max(S)}], Max(S)>>]
  <2> TAKE f
  <2> TAKE S \in SUBSET (1 .. m)
  <2> HAVE S # {} /\ f[S \ {Max(S)}] \in State
  <2>1. Max(S) \in 1 .. m
    BY MaxOfPositions
  <2>2. at[Max(S)] = Max(S)
    BY <2>1
  <2> HIDE DEF next
  <2>3. step[<<f[S \ {Max(S)}], Max(S)>>] = next(f[S \ {Max(S)}], Max(S))
    BY <2>1
  <2> QED BY <2>2, <2>3, Zenon
<1>5. it = [S \in SUBSET (1 .. m) |-> IF S = {} THEN Bigrams ELSE After(it, S)]
  <2>1. \A S \in SUBSET (1 .. m) : S # {} => it[S \ {Max(S)}] \in State
    BY <1>3
  <2> HIDE DEF step, After
  <2> QED BY <1>3, <1>4, <2>1, Zenon DEF FoldsTo
<1> DEFINE scan == CHOOSE f : f = [S \in SUBSET (1 .. m) |-> IF S = {} THEN Bigrams ELSE After(f, S)]
<1>6. scan = [S \in SUBSET (1 .. m) |-> IF S = {} THEN Bigrams ELSE After(scan, S)]
  <2> HIDE DEF After
  <2> QED BY <1>5, Zenon
<1>7. RankedBigrams(c) = scan[1 .. m]
  <2>1. DOMAIN at = 1 .. m /\ m = 8
    BY <1>m
  <2> DEFINE all == [i \in 1 .. 8 |-> i]
  <2>2. RankedBigrams(c) = (CHOOSE f : f = [S \in SUBSET DOMAIN all |->
                        IF S = {} THEN Bigrams ELSE next(f[S \ {Max(S)}], all[Max(S)])])[DOMAIN all]
    BY RankedUnfolds, Zenon
  <2>3. all = at
    BY <2>1
  <2> HIDE DEF all, at, next
  <2> QED BY <2>1, <2>2, <2>3, ZenonT(60)
<1>8. Folded(State, step, Bigrams, m, scan)
  <2> DEFINE after == [S \in SUBSET (1 .. m) |-> After(scan, S)]
  <2> HIDE DEF scan, After, step
  <2>1. scan = [S \in SUBSET (1 .. m) |-> IF S = {} THEN Bigrams ELSE after[S]]
    BY <1>6, Zenon
  <2>2. \A S \in SUBSET (1 .. m) : S # {} /\ scan[S \ {Max(S)}] \in State
            => after[S] = step[<<scan[S \ {Max(S)}], Max(S)>>]
    BY <1>4, Zenon
  <2> HIDE DEF after
  <2> QED BY <1>1, <1>2, <2>1, <2>2, FoldSteps, Zenon
<1> HIDE DEF scan
<1> DEFINE P == {j \in Nat : j <= m => RankedTo(c, scan[1 .. j], j + 1, j + 1, 0)}
<1>9. 0 \in P
  <2>1. scan[1 .. 0] = Bigrams
    BY <1>8, Zenon DEF Folded
  <2>2. 0 + 1 = 1 /\ 0 \in Nat
    OBVIOUS
  <2> QED BY <1>1, <2>1, <2>2, Zenon
<1>10. ASSUME NEW j \in Nat, j \in P PROVE j + 1 \in P
  <2>1. SUFFICES ASSUME j + 1 <= m PROVE RankedTo(c, scan[1 .. j + 1], j + 1 + 1, j + 1 + 1, 0)
    <3>1. j + 1 \in Nat
      OBVIOUS
    <3> QED BY <3>1, Zenon
  <2>2. j <= m /\ j + 1 \in 1 .. m /\ j + 1 \in 1 .. j + 1 /\ j + 1 \in 1 .. 8
    BY <1>m, <2>1
  <2>3. RankedTo(c, scan[1 .. j], j + 1, j + 1, 0)
    BY <1>10, <2>2, Zenon
  <2>4. scan[1 .. j] \in State /\ scan[1 .. j + 1] = step[<<scan[1 .. j], j + 1>>]
    BY <1>8, <2>1, <2>2, Zenon DEF Folded
  <2>5. step[<<scan[1 .. j], j + 1>>] = Settled(c, scan[1 .. j], j + 1)
    <3>1. <<scan[1 .. j], j + 1>> \in State \X (1 .. m)
      BY <2>2, <2>4
    <3> QED BY <3>1
  <2>6. RankedTo(c, Settled(c, scan[1 .. j], j + 1), j + 1, j + 1, 9 - (j + 1))
    BY <2>2, <2>3, RoundRanks, Zenon
  <2>7. RankedTo(c, Settled(c, scan[1 .. j], j + 1), j + 1 + 1, j + 1 + 1, 0)
    BY <2>2, <2>6, PlaceFound, Zenon
  <2> HIDE DEF step
  <2> QED BY <2>4, <2>5, <2>7, Zenon
<1> HIDE DEF P
<1>11. P \in SUBSET Nat
  BY DEF P
<1>12. m \in P /\ m <= m /\ m + 1 = 9
  BY <1>m, <1>9, <1>10, <1>11, InductiveSet
<1>13. RankedTo(c, scan[1 .. m], m + 1, m + 1, 0)
  BY <1>12, Zenon DEF P
<1> QED BY <1>7, <1>12, <1>13, Zenon

(* What TopFrequencies says of the bigrams.                                *)
BigramsReported(top, c) ==
  LET named == {top[k].name : k \in 1 .. 5}
  IN  /\ Cardinality(named) = 5
      /\ \A k \in 1 .. 4 : AtMost(top[k + 1].freq, top[k].freq)
      /\ \A b \in ToSet(Bigrams) \ named, k \in named : c[b] <= c[k]

LEMMA TopBigramsAre ==
  ASSUME NEW c \in [ToSet(Bigrams) -> Nat],
         NEW n \in Nat, n # 0, Total([k \in 1 .. 9 |-> c[Bigrams[k]]]) = n
  PROVE  BigramsReported(TopBigrams(c), c)
<1> DEFINE r == RankedBigrams(c)
           top == TopBigrams(c)
           B == ToSet(Bigrams)
           named == {top[k].name : k \in 1 .. 5}
<1> SUFFICES /\ Cardinality(named) = 5
             /\ \A k \in 1 .. 4 : AtMost(top[k + 1].freq, top[k].freq)
             /\ \A b \in B \ named, k \in named : c[b] <= c[k]
  BY Zenon DEF BigramsReported
<1>1. top = [k \in 1 .. 5 |-> [name |-> r[k], freq |-> Fraction(c[r[k]], n)]]
  <2>1. ~(n = 0)
    OBVIOUS
  <2> QED BY <2>1, Zenon DEF TopBigrams
<1>2. /\ r \in [1 .. 9 -> B]
      /\ \A a, b \in 1 .. 9 : a < b => r[a] # r[b]
      /\ \A x \in B : \E k \in 1 .. 9 : r[k] = x
      /\ \A a, b \in 1 .. 9 : a < 9 /\ a < b => c[r[b]] <= c[r[a]]
  BY BigramsRank, Zenon DEF RankedTo
<1> HIDE DEF r, top, B
<1>3. \A k \in 1 .. 5 : top[k].name = r[k] /\ top[k].freq = Fraction(c[r[k]], n)
  BY <1>1
<1>4. named = {r[k] : k \in 1 .. 5}
  BY <1>3, Zenon
<1>5. Cardinality(named) = 5
  <2>1. \A i, j \in 1 .. 5 : i < j => r[i] # r[j]
    <3>1. \A i \in 1 .. 5 : i \in 1 .. 9
      OBVIOUS
    <3> QED BY <1>2, <3>1, Zenon
  <2>3. Cardinality({r[k] : k \in 1 .. 5}) = 5
    BY <2>1, CountOfFive, Zenon
  <2> QED BY <1>4, <2>3, Zenon
<1>6. ASSUME NEW k \in 1 .. 4 PROVE AtMost(top[k + 1].freq, top[k].freq)
  <2>1. /\ k \in 1 .. 5 /\ k + 1 \in 1 .. 5 /\ k \in 1 .. 9 /\ k + 1 \in 1 .. 9
        /\ k < 9 /\ k < k + 1
    OBVIOUS
  <2>2. c[r[k + 1]] <= c[r[k]]
    BY <1>2, <2>1, Zenon
  <2>3. PICK x \in Nat : x = c[r[k + 1]]
    BY <1>2, <2>1 DEF B
  <2>4. PICK y \in Nat : y = c[r[k]]
    BY <1>2, <2>1 DEF B
  <2>5. x <= y /\ x \in Int /\ y \in Int
    BY <2>2, <2>3, <2>4
  <2>6. IsValue(Fraction(x, n), x, n) /\ IsValue(Fraction(y, n), y, n)
    BY <2>5, FractionValue
  <2>7. x * n <= y * n
    BY <2>5, SMT
  <2>8. AtMost(Fraction(x, n), Fraction(y, n))
    BY <2>5, <2>6, <2>7, AtMostValue
  <2> QED BY <1>3, <2>1, <2>3, <2>4, <2>8, Zenon
<1>7. ASSUME NEW b \in B \ named, NEW k \in named PROVE c[b] <= c[k]
  <2>1. PICK i \in 1 .. 5 : k = r[i]
    BY <1>4
  <2>2. PICK j \in 1 .. 9 : b = r[j]
    BY <1>2
  <2>3. j \notin 1 .. 5
    BY <1>4, <2>2, Zenon
  <2>4. i \in 1 .. 9 /\ i < 9 /\ i < j
    BY <2>3
  <2> QED BY <1>2, <2>1, <2>2, <2>4, Zenon
<1> QED BY <1>5, <1>6, <1>7

-----------------------------------------------------------------------------
(* The ring has lengths, whatever snapshots were lost.                     *)
RingOfLengths == flow.ring["pkt_len_seq"] \in Seq(Nat)

FrequencyInv == LengthsInv /\ SequencesInv /\ RingOfLengths

(* A ring has one element more, or starts anew.                            *)
LEMMA RingMovesOn ==
  ASSUME RoomInv, NEW p, Data(p), NEW r \in Ring
  PROVE  \E s \in {flow.ring[r], << >>} :
           flow'.ring[r] = Newest(s \o Pushes(flow, p)[r], flow'.pool.seq_len)
<1> DEFINE n == Len(arrivals) + 1
           counted == CheckUpgrade(flow.pool)
           made == MadeRoom(flow, n)
           pool == IF Upgraded(n) THEN Upgrade(counted, counted.level + 1, TRUE) ELSE counted
           ring == IF Upgraded(n)
                     THEN [q \in Ring |-> IF q \in supply[n].lost THEN <<>> ELSE flow.ring[q]]
                     ELSE flow.ring
<1>1. flow' = Collected(made, p)
  BY Zenon DEF Data
<1>2. made = [flow EXCEPT !.pool = pool, !.ring = ring]
  BY DEF MadeRoom, Upgraded
<1>3. made.pool = pool /\ made.ring = ring /\ made.last_arrival_us = flow.last_arrival_us
      /\ made.payload = flow.payload
  <2> HIDE DEF pool, ring, made
  <2> QED BY <1>2 DEF RoomInv
<1>4. Pushes(made, p) = Pushes(flow, p)
  <2> HIDE DEF made
  <2> QED BY <1>3, ZenonT(60) DEF Pushes
<1>5. ring[r] \in {flow.ring[r], << >>}
  OBVIOUS
<1> HIDE DEF made, pool, ring
<1>6. /\ Collected(made, p).pool = made.pool
      /\ Collected(made, p).ring =
           [q \in Ring |-> Newest(made.ring[q] \o Pushes(made, p)[q], made.pool.seq_len)]
  BY DEF Collected
<1>7. flow'.ring[r] = Newest(ring[r] \o Pushes(flow, p)[r], flow'.pool.seq_len)
  BY <1>1, <1>3, <1>4, <1>6, ZenonT(40)
<1> QED BY <1>5, <1>7, Zenon

LEMMA NewestFits ==
  ASSUME NEW s \in Seq(Nat), NEW room \in Nat
  PROVE  Newest(s, room) \in Seq(Nat) /\ Len(Newest(s, room)) <= room
<1> PICK n \in Nat : n = Len(s)
  OBVIOUS
<1>1. 1 \in Int /\ n - room + 1 \in Int
  OBVIOUS
<1>2. Max({1, n - room + 1}) = IF 1 >= n - room + 1 THEN 1 ELSE n - room + 1
  BY <1>1, MaxOfTwo
<1>5. PICK m \in Nat : m = Max({1, n - room + 1}) /\ m >= 1 /\ n - m + 1 <= room
  BY <1>2
<1>3. Newest(s, room) = SubSeq(s, m, n)
  BY <1>5, Zenon DEF Newest
<1>4. SubSeq(s, m, n) \in Seq(Nat) /\ Len(SubSeq(s, m, n)) = IF m <= n THEN n - m + 1 ELSE 0
  <2>1. \A i \in m .. n : s[i] \in Nat
    BY <1>5, SMTT(40)
  <2>2. m \in Int /\ n \in Int
    OBVIOUS
  <2> QED BY <2>1, <2>2, SubSeqProperties
<1>6. Len(SubSeq(s, m, n)) <= room
  BY <1>4, <1>5
<1> QED BY <1>3, <1>4, <1>6, Zenon

LEMMA FrequencyInvInit == Init => FrequencyInv
<1> SUFFICES ASSUME Init PROVE FrequencyInv
  OBVIOUS
<1>1. LengthsInv /\ SequencesInv
  BY LengthsInvInit, SequencesInvInit
<1>2. flow.ring = [r \in Ring |-> << >>]
  BY DEF Init
<1>3. flow.ring["pkt_len_seq"] = << >>
  <2>1. "pkt_len_seq" \in Ring
    BY DEF Ring, RingElem
  <2> QED BY <1>2, <2>1
<1>4. << >> \in Seq(Nat)
  OBVIOUS
<1> QED BY <1>1, <1>3, <1>4, Zenon DEF FrequencyInv, RingOfLengths

LEMMA RingOfLengthsStep ==
  ASSUME LengthsInv, RingOfLengths, NEW p \in Packets, Data(p)
  PROVE  RingOfLengths'
<1>1. RoomInv
  BY Zenon DEF LengthsInv
<1>2. flow'.pool.seq_len \in Nat
  BY <1>1, RoomStep, Zenon
<1>3. flow'.ring["pkt_len_seq"] \in Seq(Nat)
  <2>1. "pkt_len_seq" \in CutRings
    BY DEF CutRings
  <2>2. "pkt_len_seq" \in Ring /\ Pushes(flow, p)["pkt_len_seq"] = <<Entry(p)["pkt_len_seq"]>>
    BY <2>1, PushesOf, Zenon
  <2>3. Entry(p)["pkt_len_seq"] = p.len /\ p.len \in Nat
    BY PacketTypes DEF Entry
  <2>4. PICK s \in {flow.ring["pkt_len_seq"], << >>} :
          flow'.ring["pkt_len_seq"] = Newest(s \o Pushes(flow, p)["pkt_len_seq"], flow'.pool.seq_len)
    BY <1>1, <2>2, RingMovesOn, Zenon
  <2>5. s \in Seq(Nat)
    <3>1. << >> \in Seq(Nat) /\ (s = flow.ring["pkt_len_seq"] \/ s = << >>)
      BY <2>4
    <3> QED BY <3>1, Zenon DEF RingOfLengths
  <2>6. s \o <<p.len>> \in Seq(Nat)
    BY <2>3, <2>5
  <2>7. flow'.ring["pkt_len_seq"] = Newest(s \o <<p.len>>, flow'.pool.seq_len)
    BY <2>2, <2>3, <2>4, Zenon
  <2> QED BY <1>2, <2>6, <2>7, NewestFits, Zenon
<1> QED BY <1>3, Zenon DEF RingOfLengths

LEMMA FrequencyStep == FrequencyInv /\ [Next]_vars => FrequencyInv'
<1> SUFFICES ASSUME FrequencyInv, [Next]_vars PROVE FrequencyInv'
  OBVIOUS
<1>1. LengthsInv /\ SequencesInv /\ RingOfLengths
  BY Zenon DEF FrequencyInv
<1>2. SequencesInv'
  BY <1>1, SequencesStep
<1>3. LengthsInv'
  BY <1>1, LengthsStep
<1>4. (\E p \in Packets : Data(p)) \/ UNCHANGED <<supply, flow, arrivals>>
  BY <1>1, RecordStep, Zenon DEF LengthsInv
<1>5. CASE UNCHANGED <<supply, flow, arrivals>>
  <2>1. RingOfLengths'
    BY <1>1, <1>5, Zenon DEF RingOfLengths
  <2> QED BY <1>2, <1>3, <2>1, Zenon DEF FrequencyInv
<1>6. CASE \E p \in Packets : Data(p)
  <2>1. RingOfLengths'
    BY <1>1, <1>6, RingOfLengthsStep, Zenon
  <2> QED BY <1>2, <1>3, <2>1, Zenon DEF FrequencyInv
<1> QED BY <1>4, <1>5, <1>6

LEMMA FrequenciesReported ==
  ASSUME FrequencyInv
  PROVE  TopFrequencies
<1> SUFFICES ASSUME record.closed PROVE TopFrequencies
  BY Zenon DEF TopFrequencies
<1>1. LengthsInv /\ SequencesInv /\ RingOfLengths
  BY Zenon DEF FrequencyInv
<1>2. PICK allocated \in BOOLEAN : record = Computed(flow, allocated) /\ arrivals # << >>
  <2>1. ~NoRecord.closed
    BY DEF NoRecord
  <2> QED BY <1>1, <2>1, Zenon DEF RecordIs, LengthsInv
<1>3. /\ record.fft = [all |-> FrequencySection(flow.ring.pkt_len_seq),
                       fwd |-> FrequencySection(flow.lengths.pkt_lens["fwd"]),
                       bwd |-> FrequencySection(flow.lengths.pkt_lens["bwd"])]
      /\ record.sequence = SequenceSection(flow.ring.pkt_len_seq, flow.ring.dir_seq,
                                           flow.ring.iat_seq, flow.bigrams)
  <2>1. /\ Computed(flow, allocated).fft = [all |-> FrequencySection(flow.ring.pkt_len_seq),
                       fwd |-> FrequencySection(flow.lengths.pkt_lens["fwd"]),
                       bwd |-> FrequencySection(flow.lengths.pkt_lens["bwd"])]
        /\ Computed(flow, allocated).sequence = SequenceSection(flow.ring.pkt_len_seq, flow.ring.dir_seq,
                                           flow.ring.iat_seq, flow.bigrams)
    BY DEF Computed
  <2> QED BY <1>2, <2>1, Zenon
<1>4. record.sequence.bigrams = TopBigrams(flow.bigrams)
  <2>1. ASSUME NEW a, NEW b, NEW c, NEW d
        PROVE  SequenceSection(a, b, c, d).bigrams = TopBigrams(d)
    BY DEF SequenceSection
  <2>2. record.sequence = SequenceSection(flow.ring.pkt_len_seq, flow.ring.dir_seq,
                                          flow.ring.iat_seq, flow.bigrams)
    BY <1>3
  <2>3. SequenceSection(flow.ring.pkt_len_seq, flow.ring.dir_seq, flow.ring.iat_seq,
                        flow.bigrams).bigrams = TopBigrams(flow.bigrams)
    BY <2>1
  <2> QED BY <2>2, <2>3, Zenon
<1>5. BigramsReported(record.sequence.bigrams, flow.bigrams)
  <2>1. flow.bigrams \in [ToSet(Bigrams) -> Nat] /\ BigramTotal = Len(arrivals)
    BY <1>1, Zenon DEF SequencesInv
  <2>2. Len(arrivals) \in Nat /\ Len(arrivals) # 0
    BY <1>1, <1>2 DEF LengthsInv, RoomInv
  <2>3. BigramsReported(TopBigrams(flow.bigrams), flow.bigrams)
    BY <2>1, <2>2, TopBigramsAre DEF BigramTotal
  <2> QED BY <1>4, <2>3, Zenon
<1> DEFINE Strongest(s) ==
      Cardinality(DOMAIN s.mags) > 1 => /\ TopIsRanked(s.mags, s.top, Cardinality(DOMAIN s.mags))
                                        /\ s.psd_peak = s.mags[s.top[1]]
<1>6. ASSUME NEW samples \in Seq(Nat), FrequencySection(samples) # << >>
      PROVE  Strongest(FrequencySection(samples)[1])
  BY <1>6, SpectrumRanked, Zenon
<1>7. ASSUME NEW which \in DOMAIN record.fft, record.fft[which] # << >>
      PROVE  Strongest(record.fft[which][1])
  <2>1. PICK samples : record.fft[which] = FrequencySection(samples) /\ samples \in Seq(Nat)
    <3>1. DOMAIN record.fft = {"all", "fwd", "bwd"}
      BY <1>3
    <3>2. /\ record.fft["all"] = FrequencySection(flow.ring.pkt_len_seq)
          /\ record.fft["fwd"] = FrequencySection(flow.lengths.pkt_lens["fwd"])
          /\ record.fft["bwd"] = FrequencySection(flow.lengths.pkt_lens["bwd"])
      BY <1>3
    <3>3. flow.ring.pkt_len_seq \in Seq(Nat)
      BY <1>1, Zenon DEF RingOfLengths
    <3>4. \A d \in Way : flow.lengths.pkt_lens[d] \in Seq(Nat)
      BY <1>1, Zenon DEF LengthsInv, ArrayInv
    <3>5. "fwd" \in Way /\ "bwd" \in Way
      BY DEF Way
    <3>6. which \in {"all", "fwd", "bwd"}
      BY <3>1, Zenon
    <3>7. CASE which = "all"
      BY <3>2, <3>3, <3>7, Zenon
    <3>8. CASE which = "fwd"
      BY <3>2, <3>3, <3>4, <3>5, <3>8, Zenon
    <3>9. CASE which = "bwd"
      BY <3>2, <3>3, <3>4, <3>5, <3>9, Zenon
    <3> QED BY <3>6, <3>7, <3>8, <3>9, Zenon
  <2>2. FrequencySection(samples) # << >>
    BY <1>7, <2>1, Zenon
  <2>3. Strongest(FrequencySection(samples)[1])
    BY <1>6, <2>1, <2>2, Zenon
  <2> HIDE DEF Strongest
  <2> QED BY <2>1, <2>3, Zenon
<1> QED BY <1>5, <1>7, Zenon DEF TopFrequencies, TopIsRanked, BigramsReported

(* calc_derived_fft and calc_derived_sequence: of any flow, whatever its   *)
(* level and however long its rings, the frequencies that are reported     *)
(* first are the strongest, and the bigrams the most frequent of the nine. *)
(* The magnitudes are those of the transform for up to eight samples and   *)
(* any numbers for more.                                                   *)
THEOREM TopFrequenciesAreStrongest == Spec => []TopFrequencies
<1>1. FrequencyInv => TopFrequencies
  BY FrequenciesReported
<1> QED BY <1>1, FrequencyInvInit, FrequencyStep, PTL DEF Spec
-----------------------------------------------------------------------------
(* What the histogram of a sequence of bytes tells of it.                  *)
LEMMA BytesUnfold ==
  ASSUME NEW hist, NEW byte
  PROVE  /\ BytesIn(hist) = PickedSum(hist, DOMAIN hist)
         /\ UpTo(hist, byte) = PickedSum(hist, {b \in DOMAIN hist : b <= byte})
BY DEF BytesIn, UpTo, MapThenSumSet, MapThenFoldSet, PickedSum, Pick

LEMMA BytesCounted ==
  ASSUME NEW seq \in Seq(Int), NEW n \in Nat, n = Len(seq)
  PROVE  /\ BytesIn(BagOf(seq)) = n
         /\ \A b \in Int : UpTo(BagOf(seq), b) = AtMostIn(seq, n, b)
<1> DEFINE hist == BagOf(seq)
<1>1. /\ DOMAIN hist = ToSet(seq) /\ \A x \in ToSet(seq) : hist[x] = HowOften(seq, n, x)
      /\ \A x : x \in ToSet(seq) <=> \E i \in 1 .. n : seq[i] = x
  BY BagOfIs, Zenon
<1> HIDE DEF hist
<1>2. IsFiniteSet(ToSet(seq))
  BY ValuesFinite, Zenon
<1>3. BytesIn(hist) = n
  <2>1. BytesIn(hist) = Cardinality(PlacesOf(seq, n, ToSet(seq)))
    <3> DEFINE T == ToSet(seq)
    <3>0. IsFiniteSet(T) /\ \A x \in T : hist[x] = HowOften(seq, n, x)
      BY <1>1, <1>2, Zenon
    <3>1. BytesIn(hist) = PickedSum(hist, T)
      BY <1>1, BytesUnfold, Zenon
    <3> HIDE DEF T
    <3>2. PickedSum(hist, T)
            = Cardinality(PlacesOf(seq, n, T))
      BY <3>0, CountsAddUp, Zenon
    <3> QED BY <3>1, <3>2, Zenon DEF T
  <2>2. PlacesOf(seq, n, ToSet(seq)) = 1 .. n
    BY <1>1, Zenon DEF PlacesOf
  <2> QED BY <2>1, <2>2, CountFrom1, Zenon
<1>4. ASSUME NEW b \in Int PROVE UpTo(hist, b) = AtMostIn(seq, n, b)
  <2> DEFINE T == {x \in DOMAIN hist : x <= b}
  <2>1. T \in SUBSET ToSet(seq) /\ PlacesOf(seq, n, T) = {i \in 1 .. n : seq[i] <= b}
    BY <1>1, Zenon DEF PlacesOf
  <2>0. UpTo(hist, b) = PickedSum(hist, T)
    BY BytesUnfold, Zenon
  <2> HIDE DEF T
  <2>2. IsFiniteSet(T)
    BY <1>2, <2>1, FS_Subset
  <2>3. \A x \in T : hist[x] = HowOften(seq, n, x)
    BY <1>1, <2>1, Zenon
  <2>4. PickedSum(hist, T)
            = Cardinality(PlacesOf(seq, n, T))
    BY <2>2, <2>3, CountsAddUp, Zenon
  <2> QED BY <2>0, <2>1, <2>4, Zenon DEF AtMostIn
<1> QED BY <1>3, <1>4, Zenon DEF hist

LEMMA QuantileIs ==
  ASSUME NEW seq \in Seq(Int), NEW n \in Nat, n = Len(seq), NEW k \in 1 .. n, NEW percent,
         (percent * (n - 1)) \div 100 = k - 1
  PROVE  HistQuantile(BagOf(seq), percent) = Sorted(seq)[k]
<1> DEFINE hist == BagOf(seq)
           S == {b \in DOMAIN hist : UpTo(hist, b) > k - 1}
           R == {b \in ToSet(seq) : AtMostIn(seq, n, b) >= k}
<1>1. DOMAIN hist = ToSet(seq) /\ \A b \in ToSet(seq) : b \in Int
  <2>1. /\ DOMAIN hist = ToSet(seq)
        /\ \A x : x \in ToSet(seq) <=> \E i \in 1 .. n : seq[i] = x
    BY BagOfIs, Zenon
  <2> QED BY <2>1
<1>2. BytesIn(hist) = n /\ \A b \in Int : UpTo(hist, b) = AtMostIn(seq, n, b)
  BY BytesCounted, Zenon
<1> HIDE DEF hist
<1>3. HistQuantile(hist, percent) = Min(S)
  BY <1>2, Zenon DEF HistQuantile
<1>4. \A b \in Int : AtMostIn(seq, n, b) \in Nat
  <2>1. \A y : {i \in 1 .. n : seq[i] <= y} \in SUBSET (1 .. n)
    OBVIOUS
  <2> QED BY <2>1, RanksIn, Zenon DEF AtMostIn
<1>5. \A c \in Nat : c > k - 1 <=> c >= k
  OBVIOUS
<1>6. S = R
  BY <1>1, <1>2, <1>4, <1>5, Zenon
<1>7. Min(R) = Sorted(seq)[k]
  BY LeastOfRank, Zenon
<1> QED BY <1>3, <1>6, <1>7, Zenon DEF hist

LEMMA QuartilesAre ==
  ASSUME NEW seq \in Seq(Int), NEW n \in Nat, n = Len(seq), n >= 1, NEW i \in 1 .. 3
  PROVE  HistQuartiles(BagOf(seq))[i] = Sorted(seq)[(25 * i * (n - 1)) \div 100 + 1]
<1> DEFINE hist == BagOf(seq)
<1>1. hist # EmptyBag
  <2>1. DOMAIN hist = ToSet(seq) /\ \A x : x \in ToSet(seq) <=> \E j \in 1 .. n : seq[j] = x
    BY BagOfIs, Zenon
  <2>2. 1 \in 1 .. n
    OBVIOUS
  <2> HIDE DEF hist
  <2>3. DOMAIN hist # {}
    BY <2>1, <2>2, Zenon
  <2>4. DOMAIN EmptyBag = {}
    BY DEF EmptyBag, SetToBag
  <2> QED BY <2>3, <2>4, Zenon
<1> HIDE DEF hist
<1>2. HistQuartiles(hist)
        = <<HistQuantile(hist, 25), HistQuantile(hist, 50), HistQuantile(hist, 75)>>
  BY <1>1, Zenon DEF HistQuartiles
<1>3. HistQuartiles(hist)[i] = HistQuantile(hist, 25 * i)
  <2>1. CASE i = 1
    BY <1>2, <2>1
  <2>2. CASE i = 2
    BY <1>2, <2>2
  <2>3. CASE i = 3
    BY <1>2, <2>3
  <2> QED BY <2>1, <2>2, <2>3
<1>4. PICK k \in 1 .. n : k = (25 * i * (n - 1)) \div 100 + 1
  <2>1. CASE i = 1
    BY <2>1
  <2>2. CASE i = 2
    BY <2>2
  <2>3. CASE i = 3
    BY <2>3
  <2> QED BY <2>1, <2>2, <2>3
<1>5. (25 * i * (n - 1)) \div 100 = k - 1
  <2> DEFINE q == (25 * i * (n - 1)) \div 100
  <2>1. q \in Int
    <3>1. i = 1 \/ i = 2 \/ i = 3
      OBVIOUS
    <3> QED BY <3>1
  <2> HIDE DEF q
  <2>2. k = q + 1
    BY <1>4 DEF q
  <2>3. q = k - 1
    BY <2>1, <2>2
  <2> QED BY <2>3 DEF q
<1>6. HistQuantile(hist, 25 * i) = Sorted(seq)[k]
  BY <1>5, QuantileIs, ZenonT(60) DEF hist
<1> QED BY <1>3, <1>4, <1>6, Zenon DEF hist

-----------------------------------------------------------------------------
(* What History sees of a sequence of packets, one packet after the other. *)
HistoryOf(seq) ==
  FoldLeft(Seen, [lens |-> [d \in Way |-> <<>>], sizes |-> <<>>, bytes |-> <<>>], seq)

Sights == [lens : [Way -> Seq(Int)], sizes : Seq(Int), bytes : Seq(Int)]

NoSight == [lens |-> [d \in Way |-> <<>>], sizes |-> <<>>, bytes |-> <<>>]

LEMMA HistoryUnfolds ==
  ASSUME NEW seq
  PROVE  HistoryOf(seq) = (CHOOSE it : it = [S \in SUBSET DOMAIN seq |->
            IF S = {} THEN NoSight ELSE Seen(it[S \ {Max(S)}], seq[Max(S)])])[DOMAIN seq]
BY DEF HistoryOf, FoldLeft, MapThenFoldSet, NoSight

LEMMA PacketsAre ==
  ASSUME NEW p \in Packets
  PROVE  /\ p.len \in Int /\ p.pay \in Seq(Int) /\ Len(p.pay) \in Nat
         /\ Len(p.pay) <= EmptyMin
<1>1. /\ p.pay \in Seq(0 .. 255) /\ p.l3 \in Nat /\ p.l4 \in Nat /\ p.len \in 0 .. EmptyMin
      /\ p.l3 + p.l4 + Len(p.pay) <= p.len
  BY Zenon, RecordConstants
<1>2. p.pay \in Seq(Int) /\ Len(p.pay) \in Nat
  <2> DEFINE s == p.pay
  <2>0. s \in Seq(0 .. 255)
    BY <1>1
  <2> HIDE DEF s
  <2>1. Len(s) \in Nat /\ s \in [1 .. Len(s) -> 0 .. 255]
    BY <2>0, LenProperties, ZenonT(60)
  <2>2. \A i \in 1 .. Len(s) : s[i] \in 0 .. 255
    BY <2>1, Zenon
  <2>3. \A i \in 1 .. Len(s) : s[i] \in Int
    <3>1. \A x \in 0 .. 255 : x \in Int
      OBVIOUS
    <3> QED BY <2>2, <3>1, Zenon
  <2>4. s = [i \in 1 .. Len(s) |-> s[i]]
    BY <2>1, Zenon
  <2>5. s \in Seq(Int)
    <3>1. PICK n \in Nat : n = Len(s)
      BY <2>1, Zenon
    <3>2. [i \in 1 .. n |-> s[i]] \in Seq(Int)
      BY <2>3, <3>1
    <3> QED BY <2>4, <3>1, <3>2, Zenon
  <2> QED BY <2>1, <2>5 DEF s
<1> QED BY <1>1, <1>2, EmptyBounds

LEMMA SeenType == \A s \in Sights : \A p \in Packets : Seen(s, p) \in Sights
<1> TAKE s \in Sights
<1> TAKE p \in Packets
<1>1. p.len \in Int /\ p.pay \in Seq(Int) /\ Len(p.pay) \in Int
  BY PacketsAre
<1>2. s.lens \in [Way -> Seq(Int)] /\ s.sizes \in Seq(Int) /\ s.bytes \in Seq(Int)
  BY DEF Sights
<1>3. \A d \in Way : Append(s.lens[d], p.len) \in Seq(Int)
  BY <1>1, <1>2
<1>4. Append(s.sizes, Len(p.pay)) \in Seq(Int) /\ s.bytes \o p.pay \in Seq(Int)
  BY <1>1, <1>2, TwoPartsOfInts
<1> QED BY <1>2, <1>3, <1>4 DEF Seen, Sights

(* A scan of the packets from the first to the last.                       *)
Scans(scan, seq, m) ==
  /\ scan[1 .. 0] = NoSight /\ HistoryOf(seq) = scan[1 .. m]
  /\ \A j \in Nat : j <= m => scan[1 .. j] \in Sights
  /\ \A j \in Nat : j + 1 <= m => scan[1 .. j + 1] = Seen(scan[1 .. j], seq[j + 1])

LEMMA HistoryScans ==
  ASSUME NEW seq \in Seq(Packets), NEW m \in Nat, m = Len(seq)
  PROVE  \E scan : Scans(scan, seq, m)
<1> DEFINE State == Sights
           next(s, i) == Seen(s, seq[i])
           step == [q \in State \X (1 .. m) |-> next(q[1], q[2])]
<1>1. NoSight \in State /\ DOMAIN seq = 1 .. m /\ \A i \in 1 .. m : seq[i] \in Packets
  BY DEF NoSight, Sights
<1>2. step \in [State \X (1 .. m) -> State]
  <2>1. \A s \in State : \A i \in 1 .. m : next(s, i) \in State
    BY <1>1, SeenType, Zenon
  <2> HIDE DEF State, next
  <2> QED BY <2>1
<1> HIDE DEF State
<1>3. PICK it \in [SUBSET (1 .. m) -> State] : FoldsTo(step, NoSight, m, it)
  <2> HIDE DEF step
  <2> QED BY <1>1, <1>2, FoldsExist
<1> DEFINE After(f, S) == next(f[S \ {Max(S)}], Max(S))
<1>4. \A f : \A S \in SUBSET (1 .. m) : S # {} /\ f[S \ {Max(S)}] \in State
         => After(f, S) = step[<<f[S \ {Max(S)}], Max(S)>>]
  <2> TAKE f
  <2> TAKE S \in SUBSET (1 .. m)
  <2> HAVE S # {} /\ f[S \ {Max(S)}] \in State
  <2>1. Max(S) \in 1 .. m
    BY MaxOfPositions
  <2> HIDE DEF next
  <2>3. step[<<f[S \ {Max(S)}], Max(S)>>] = next(f[S \ {Max(S)}], Max(S))
    BY <2>1
  <2> QED BY <2>3, Zenon
<1>5. it = [S \in SUBSET (1 .. m) |-> IF S = {} THEN NoSight ELSE After(it, S)]
  <2>1. \A S \in SUBSET (1 .. m) : S # {} => it[S \ {Max(S)}] \in State
    BY <1>3
  <2> HIDE DEF step, After
  <2> QED BY <1>3, <1>4, <2>1, Zenon DEF FoldsTo
<1> DEFINE scan == CHOOSE f : f = [S \in SUBSET (1 .. m) |-> IF S = {} THEN NoSight ELSE After(f, S)]
<1>6. scan = [S \in SUBSET (1 .. m) |-> IF S = {} THEN NoSight ELSE After(scan, S)]
  <2> HIDE DEF After
  <2> QED BY <1>5, Zenon
<1>7. HistoryOf(seq) = scan[1 .. m]
  BY <1>1, HistoryUnfolds, Zenon
<1>8. Folded(State, step, NoSight, m, scan)
  <2> DEFINE after == [S \in SUBSET (1 .. m) |-> After(scan, S)]
  <2> HIDE DEF scan, After, step
  <2>1. scan = [S \in SUBSET (1 .. m) |-> IF S = {} THEN NoSight ELSE after[S]]
    BY <1>6, Zenon
  <2>2. \A S \in SUBSET (1 .. m) : S # {} /\ scan[S \ {Max(S)}] \in State
            => after[S] = step[<<scan[S \ {Max(S)}], Max(S)>>]
    BY <1>4, Zenon
  <2> HIDE DEF after
  <2> QED BY <1>1, <1>2, <2>1, <2>2, FoldSteps, ZenonT(60)
<1> HIDE DEF scan
<1>9. \A j \in Nat : j <= m => scan[1 .. j] \in Sights
  BY <1>8, Zenon DEF Folded, State
<1>10. ASSUME NEW j \in Nat, j + 1 <= m PROVE scan[1 .. j + 1] = Seen(scan[1 .. j], seq[j + 1])
  <2>1. j + 1 \in 1 .. m /\ j <= m
    BY <1>10
  <2>2. scan[1 .. j] \in State /\ scan[1 .. j + 1] = step[<<scan[1 .. j], j + 1>>]
    BY <1>8, <1>10, <2>1, Zenon DEF Folded
  <2>3. step[<<scan[1 .. j], j + 1>>] = next(scan[1 .. j], j + 1)
    <3> HIDE DEF next
    <3> QED BY <2>1, <2>2
  <2> HIDE DEF step
  <2> QED BY <2>2, <2>3, Zenon
<1>11. scan[1 .. 0] = NoSight
  BY <1>8, Zenon DEF Folded
<1> QED BY <1>7, <1>9, <1>10, <1>11, Zenon DEF Scans

LEMMA HistoryGrows ==
  /\ HistoryOf(<<>>) = NoSight
  /\ \A seq \in Seq(Packets) : HistoryOf(seq) \in Sights
  /\ \A seq \in Seq(Packets) : \A p \in Packets :
       HistoryOf(Append(seq, p)) = Seen(HistoryOf(seq), p)
<1>1. HistoryOf(<<>>) = NoSight
  <2>1. << >> \in Seq(Packets) /\ 0 \in Nat /\ 0 = Len(<< >>)
    OBVIOUS
  <2>2. PICK scan : Scans(scan, << >>, 0)
    BY <2>1, HistoryScans
  <2> QED BY <2>2, Zenon DEF Scans
<1>2. ASSUME NEW seq \in Seq(Packets) PROVE HistoryOf(seq) \in Sights
  <2>1. PICK m \in Nat : m = Len(seq)
    OBVIOUS
  <2>2. PICK scan : Scans(scan, seq, m)
    BY <2>1, HistoryScans
  <2>3. m <= m
    OBVIOUS
  <2> QED BY <2>2, <2>3, Zenon DEF Scans
<1>3. ASSUME NEW seq \in Seq(Packets), NEW p \in Packets
      PROVE  HistoryOf(Append(seq, p)) = Seen(HistoryOf(seq), p)
  <2> DEFINE longer == Append(seq, p)
  <2>1. PICK m \in Nat : m = Len(seq)
    OBVIOUS
  <2>2. /\ longer \in Seq(Packets) /\ Len(longer) = m + 1 /\ longer[m + 1] = p
        /\ \A i \in 1 .. m : longer[i] = seq[i]
    BY <2>1
  <2> HIDE DEF longer
  <2>3. PICK old : Scans(old, seq, m)
    BY <2>1, HistoryScans
  <2>4. PICK new : Scans(new, longer, m + 1)
    <3>1. PICK k \in Nat : k = m + 1
      OBVIOUS
    <3>2. \E scan : Scans(scan, longer, k)
      BY <2>2, <3>1, HistoryScans, Zenon
    <3> QED BY <3>1, <3>2, Zenon
  <2> DEFINE P == {j \in Nat : j <= m => new[1 .. j] = old[1 .. j]}
  <2>5. 0 \in P
    <3>1. new[1 .. 0] = old[1 .. 0]
      BY <2>3, <2>4, Zenon DEF Scans
    <3> QED BY <3>1
  <2>6. ASSUME NEW j \in Nat, j \in P PROVE j + 1 \in P
    <3> SUFFICES ASSUME j + 1 <= m PROVE new[1 .. j + 1] = old[1 .. j + 1]
      OBVIOUS
    <3>1. j <= m /\ j + 1 <= m + 1 /\ j + 1 \in 1 .. m
      OBVIOUS
    <3>2. new[1 .. j] = old[1 .. j]
      BY <2>6, <3>1
    <3>3. old[1 .. j + 1] = Seen(old[1 .. j], seq[j + 1])
      BY <2>3, Zenon DEF Scans
    <3>4. new[1 .. j + 1] = Seen(new[1 .. j], longer[j + 1])
      BY <2>4, <3>1, Zenon DEF Scans
    <3> QED BY <2>2, <3>1, <3>2, <3>3, <3>4, Zenon
  <2> HIDE DEF P
  <2>7. P \in SUBSET Nat
    BY DEF P
  <2>8. m \in P
    BY <2>5, <2>6, <2>7, InductiveSet
  <2>9. m <= m /\ m + 1 <= m + 1
    OBVIOUS
  <2>10. new[1 .. m] = old[1 .. m]
    BY <2>8, <2>9, Zenon DEF P
  <2>11. new[1 .. m + 1] = Seen(new[1 .. m], longer[m + 1])
    BY <2>4, <2>9, Zenon DEF Scans
  <2>12. HistoryOf(longer) = new[1 .. m + 1] /\ HistoryOf(seq) = old[1 .. m]
    BY <2>3, <2>4, Zenon DEF Scans
  <2> QED BY <2>2, <2>10, <2>11, <2>12, Zenon DEF longer
<1> QED BY <1>1, <1>2, <1>3, Zenon

(* The extremes of the running statistics of a sequence.                   *)
BoundsOf(s, seq) ==
  /\ s.min \in Int /\ s.max \in Int
  /\ seq = << >> => s.min = EmptyMin /\ s.max = EmptyMax
  /\ seq # << >> => /\ \E i \in 1 .. Len(seq) : seq[i] = s.min
                    /\ \E i \in 1 .. Len(seq) : seq[i] = s.max
  /\ \A i \in 1 .. Len(seq) : s.min <= seq[i] /\ seq[i] <= s.max

LEMMA SampledBounds ==
  \A s, x : Sampled(s, x).min = Min({s.min, x}) /\ Sampled(s, x).max = Max({s.max, x})
BY DEF Sampled

LEMMA BoundsGrow ==
  ASSUME NEW seq \in Seq(Int), NEW x \in Int, EmptyMax <= x, x <= EmptyMin,
         NEW s, BoundsOf(s, seq)
  PROVE  BoundsOf(Sampled(s, x), Append(seq, x))
<1> DEFINE lo == s.min
           hi == s.max
           lo1 == Sampled(s, x).min
           hi1 == Sampled(s, x).max
           longer == Append(seq, x)
<1> PICK n \in Nat : n = Len(seq)
  OBVIOUS
<1>1. /\ Len(longer) = n + 1 /\ longer[n + 1] = x /\ longer # << >>
      /\ \A i \in 1 .. n : longer[i] = seq[i] /\ seq[i] \in Int
  OBVIOUS
<1>2. /\ lo \in Int /\ hi \in Int
      /\ seq = << >> => lo = EmptyMin /\ hi = EmptyMax
      /\ seq # << >> => /\ \E i \in 1 .. n : seq[i] = lo
                        /\ \E i \in 1 .. n : seq[i] = hi
      /\ \A i \in 1 .. n : lo <= seq[i] /\ seq[i] <= hi
  BY Zenon DEF BoundsOf
<1>3. lo1 = Min({lo, x}) /\ hi1 = Max({hi, x})
  BY SampledBounds, Zenon
<1> HIDE DEF lo, hi, lo1, hi1, longer
<1>4. /\ lo1 = (IF lo <= x THEN lo ELSE x)
      /\ hi1 = (IF hi >= x THEN hi ELSE x)
  BY <1>2, <1>3, MinOfTwo, MaxOfTwo, Zenon
<1>5. /\ lo1 \in Int /\ hi1 \in Int /\ lo1 <= lo /\ hi <= hi1 /\ lo1 <= x /\ x <= hi1
      /\ lo1 = x \/ lo1 = lo
      /\ hi1 = x \/ hi1 = hi
  BY <1>2, <1>4
<1>6. seq = << >> => lo1 = x /\ hi1 = x
  BY <1>2, <1>4, EmptyBounds
<1>7. /\ \A i \in 1 .. n : i \in 1 .. n + 1
      /\ n + 1 \in 1 .. n + 1
      /\ \A i \in 1 .. n + 1 : i \in 1 .. n \/ i = n + 1
  OBVIOUS
<1>8. /\ \E i \in 1 .. n + 1 : longer[i] = lo1
      /\ \E i \in 1 .. n + 1 : longer[i] = hi1
  BY <1>1, <1>2, <1>5, <1>6, <1>7, Zenon
<1>9. \A i \in 1 .. n + 1 : lo1 <= longer[i] /\ longer[i] <= hi1
  <2>1. ASSUME NEW i \in 1 .. n PROVE lo1 <= longer[i] /\ longer[i] <= hi1
    <3>1. longer[i] = seq[i] /\ seq[i] \in Int /\ lo <= seq[i] /\ seq[i] <= hi
      BY <1>1, <1>2, Zenon
    <3> QED BY <1>2, <1>5, <3>1
  <2> QED BY <1>1, <1>5, <1>7, <2>1, Zenon
<1> QED BY <1>1, <1>5, <1>8, <1>9, Zenon DEF BoundsOf, lo1, hi1, longer

LEMMA BoundsTell ==
  ASSUME NEW seq \in Seq(Int), seq # << >>, NEW s, BoundsOf(s, seq)
  PROVE  s.min = Min(ToSet(seq)) /\ s.max = Max(ToSet(seq))
<1> PICK n \in Nat : n = Len(seq)
  OBVIOUS
<1> DEFINE lo == s.min
           hi == s.max
           S == ToSet(seq)
<1>1. \A x : x \in S <=> \E i \in 1 .. n : seq[i] = x
  BY BagOfIs, Zenon
<1>2. S \in SUBSET Int
  BY <1>1
<1> HIDE DEF S
<1>3. /\ lo \in S /\ hi \in S
      /\ \A x \in S : lo <= x /\ x <= hi
  BY <1>1, Zenon DEF BoundsOf
<1> HIDE DEF lo, hi
<1>4. Min(S) = lo /\ Max(S) = hi
  BY <1>2, <1>3, MinOf, MaxOf
<1> QED BY <1>4 DEF S, lo, hi

(* A mark by a payload's first bytes is backed by what it looks like.      *)
Backed(magic, looks) ==
  /\ "http_get" \in magic => "http" \in looks
  /\ "tls_1_2" \in magic => "tls" \in looks
  /\ "ssh" \in magic => "ssh" \in looks

LEMMA MarksBacked == \A bytes \in Seq(Int) : Backed(MagicOf(bytes), LooksLike(bytes))
<1> TAKE bytes \in Seq(Int)
<1>1. /\ "http_get" \in MagicOf(bytes) => IsPrefix(GET, bytes)
      /\ "tls_1_2" \in MagicOf(bytes) => IsPrefix(<<22, 3>>, bytes) /\ Len(bytes) >= 4
      /\ "ssh" \in MagicOf(bytes) => IsPrefix(SSH, bytes) /\ Len(bytes) >= 4
  <2>1. Len(bytes) \in Nat
    OBVIOUS
  <2>2. \A tests : \A mark \in Passed(tests) : tests[mark]
    BY Zenon DEF Passed
  <2>3. CASE Len(bytes) < 4
    <3>1. MagicOf(bytes) = {}
      BY <2>3 DEF MagicOf
    <3> QED BY <3>1, Zenon
  <2>4. CASE ~(Len(bytes) < 4)
    <3>0. Len(bytes) >= 4
      BY <2>1, <2>4
    <3>1. ASSUME "http_get" \in MagicOf(bytes) PROVE IsPrefix(GET, bytes)
      <4> DEFINE get == IsPrefix(GET, bytes)
      <4>1. get \in BOOLEAN
        BY DEF IsPrefix
      <4> HIDE DEF get
      <4> QED BY <2>4, <3>1, <4>1 DEF MagicOf, Passed, get
    <3>2. ASSUME "tls_1_2" \in MagicOf(bytes) PROVE IsPrefix(<<22, 3>>, bytes)
      BY <2>4, <3>2 DEF MagicOf, Passed
    <3>3. ASSUME "ssh" \in MagicOf(bytes) PROVE IsPrefix(SSH, bytes)
      BY <2>4, <3>3 DEF MagicOf, Passed
    <3> QED BY <3>0, <3>1, <3>2, <3>3, Zenon
  <2> QED BY <2>3, <2>4, Zenon
<1>2. /\ IsPrefix(GET, bytes) => "http" \in LooksLike(bytes)
      /\ Len(bytes) >= 3 /\ bytes[1] \in 21 .. 23 /\ bytes[2] = 3 => "tls" \in LooksLike(bytes)
      /\ IsPrefix(SSH, bytes) /\ Len(bytes) >= 4 => "ssh" \in LooksLike(bytes)
  BY DEF LooksLike, Passed
<1>3. IsPrefix(<<22, 3>>, bytes) => bytes[1] = 22 /\ bytes[2] = 3
  <2> SUFFICES ASSUME IsPrefix(<<22, 3>>, bytes) PROVE bytes[1] = 22 /\ bytes[2] = 3
    OBVIOUS
  <2>0. Len(<<22, 3>>) = 2 /\ <<22, 3>> \in Seq(Int)
    OBVIOUS
  <2>1. 2 <= Len(bytes) /\ SubSeq(<<22, 3>>, 1, 2) = SubSeq(bytes, 1, 2)
    BY <2>0, Zenon DEF IsPrefix
  <2>2. \A s \in Seq(Int) : 2 <= Len(s) => SubSeq(s, 1, 2)[1] = s[1] /\ SubSeq(s, 1, 2)[2] = s[2]
    OBVIOUS
  <2>3. /\ SubSeq(bytes, 1, 2)[1] = bytes[1] /\ SubSeq(bytes, 1, 2)[2] = bytes[2]
    BY <2>1, <2>2, Zenon
  <2>4. SubSeq(<<22, 3>>, 1, 2)[1] = 22 /\ SubSeq(<<22, 3>>, 1, 2)[2] = 3
    OBVIOUS
  <2> QED BY <2>1, <2>3, <2>4, Zenon
<1>4. "tls_1_2" \in MagicOf(bytes) =>
        Len(bytes) >= 3 /\ bytes[1] \in 21 .. 23 /\ bytes[2] = 3
  <2>1. Len(bytes) \in Nat /\ 22 \in 21 .. 23 /\ \A n \in Nat : n >= 4 => n >= 3
    OBVIOUS
  <2> QED BY <1>1, <1>3, <2>1, Zenon
<1> QED BY <1>1, <1>2, <1>4, Zenon DEF Backed

(* The first bytes of a flow do not change once there are enough of them.  *)
FirstOf(bytes) == SubSeq(bytes, 1, Min({Len(bytes), FirstBytes}))

Kept(n) == IF n <= FirstBytes THEN n ELSE FirstBytes

IsFirst(bytes, n, k) ==
  /\ Min({n, FirstBytes}) = k /\ Min({FirstBytes, n}) = k
  /\ SubSeq(bytes, 1, k) \in Seq(Int) /\ Len(SubSeq(bytes, 1, k)) = k
  /\ \A i \in 1 .. k : SubSeq(bytes, 1, k)[i] = bytes[i]

LEMMA FirstIs ==
  ASSUME NEW bytes \in Seq(Int), NEW n \in Nat, n = Len(bytes), NEW k \in Nat,
         k = Kept(n)
  PROVE  IsFirst(bytes, n, k)
<1>1. FirstBytes \in Nat
  BY RecordConstants, Zenon
<1>2. Min({n, FirstBytes}) = k /\ Min({FirstBytes, n}) = k
  <2>1. FirstBytes \in Int /\ n \in Int
    BY <1>1
  <2>2. Min({n, FirstBytes}) = IF n <= FirstBytes THEN n ELSE FirstBytes
    BY <2>1, MinOfInts, Zenon
  <2>4. Kept(n) = IF n <= FirstBytes THEN n ELSE FirstBytes
    BY DEF Kept
  <2>3. {FirstBytes, n} = {n, FirstBytes}
    OBVIOUS
  <2> QED BY <2>2, <2>3, <2>4, Zenon
<1>3. k <= n
  BY <1>1 DEF Kept
<1>4. /\ SubSeq(bytes, 1, k) \in Seq(Int) /\ Len(SubSeq(bytes, 1, k)) = (k - 1) + 1
      /\ \A i \in 1 .. (k - 1) + 1 : SubSeq(bytes, 1, k)[i] = bytes[1 + (i - 1)]
  <2>1. 1 \in Nat /\ 1 <= 1 /\ k <= Len(bytes) /\ 1 <= k + 1
    BY <1>3
  <2> QED BY <2>1, PartOfInts, ZenonT(60)
<1>5. (k - 1) + 1 = k /\ \A i \in 1 .. k : 1 + (i - 1) = i
  OBVIOUS
<1>6. \A i \in 1 .. k : SubSeq(bytes, 1, k)[i] = bytes[i]
  BY <1>4, <1>5, Zenon
<1> QED BY <1>2, <1>4, <1>5, <1>6, Zenon DEF IsFirst

LEMMA FirstKept ==
  ASSUME NEW bytes \in Seq(Int), NEW pay \in Seq(Int), NEW first, first = FirstOf(bytes)
  PROVE  SubSeq(first \o pay, 1, Min({FirstBytes, Len(first) + Len(pay)})) = FirstOf(bytes \o pay)
<1> PICK n \in Nat, m \in Nat : n = Len(bytes) /\ m = Len(pay)
  OBVIOUS
<1>1. FirstBytes \in Nat
  BY RecordConstants, Zenon
<1>2. PICK k \in Nat : k = Kept(n)
  BY <1>1 DEF Kept
<1>3. /\ first \in Seq(Int) /\ Len(first) = k /\ \A i \in 1 .. k : first[i] = bytes[i]
  <2>1. /\ Min({n, FirstBytes}) = k
        /\ SubSeq(bytes, 1, k) \in Seq(Int) /\ Len(SubSeq(bytes, 1, k)) = k
        /\ \A i \in 1 .. k : SubSeq(bytes, 1, k)[i] = bytes[i]
    BY <1>2, FirstIs, ZenonT(60) DEF IsFirst
  <2> QED BY <2>1, Zenon DEF FirstOf
<1> DEFINE a == first \o pay
           b == bytes \o pay
<1>4. PICK s \in Nat, t \in Nat : s = k + m /\ t = n + m
  OBVIOUS
<1>5. /\ a \in Seq(Int) /\ Len(a) = s
      /\ \A i \in 1 .. s : a[i] = IF i <= k THEN first[i] ELSE pay[i - k]
      /\ b \in Seq(Int) /\ Len(b) = t
      /\ \A i \in 1 .. t : b[i] = IF i <= n THEN bytes[i] ELSE pay[i - n]
  BY <1>3, <1>4, TwoPartsOfInts, ZenonT(60)
<1> HIDE DEF a, b
<1>6. PICK j \in Nat : j = Kept(s)
  BY <1>1 DEF Kept
<1>7. j = Kept(t)
  BY <1>1, <1>2, <1>4, <1>6 DEF Kept
<1>8. /\ Min({FirstBytes, s}) = j
      /\ SubSeq(a, 1, j) \in Seq(Int) /\ Len(SubSeq(a, 1, j)) = j
      /\ \A i \in 1 .. j : SubSeq(a, 1, j)[i] = a[i]
  <2>1. a \in Seq(Int) /\ s = Len(a)
    BY <1>5, Zenon
  <2>2. IsFirst(a, s, j)
    BY <1>6, <2>1, FirstIs, Zenon
  <2> QED BY <2>2, Zenon DEF IsFirst
<1>9. /\ Min({t, FirstBytes}) = j
      /\ SubSeq(b, 1, j) \in Seq(Int) /\ Len(SubSeq(b, 1, j)) = j
      /\ \A i \in 1 .. j : SubSeq(b, 1, j)[i] = b[i]
  <2>1. b \in Seq(Int) /\ t = Len(b)
    BY <1>5, Zenon
  <2>2. IsFirst(b, t, j)
    BY <1>7, <2>1, FirstIs, Zenon
  <2> QED BY <2>2, Zenon DEF IsFirst
<1>10. ASSUME NEW i \in 1 .. j PROVE a[i] = b[i]
  <2>0. i \in 1 .. s /\ i \in 1 .. t
    BY <1>1, <1>6, <1>7 DEF Kept
  <2>1. CASE i <= k
    <3>1. i \in 1 .. k /\ i <= n
      BY <1>1, <1>2, <2>1 DEF Kept
    <3> QED BY <1>3, <1>5, <2>0, <2>1, <3>1, Zenon
  <2>2. CASE ~(i <= k)
    <3>1. n = k
      BY <1>1, <1>2, <1>4, <1>6, <2>2 DEF Kept
    <3> QED BY <1>5, <2>0, <2>2, <3>1, Zenon
  <2> QED BY <2>1, <2>2
<1> DEFINE x == SubSeq(a, 1, j)
           y == SubSeq(b, 1, j)
<1>11. x = y
  <2>1. /\ x \in Seq(Int) /\ Len(x) = j /\ y \in Seq(Int) /\ Len(y) = j
        /\ \A i \in 1 .. j : x[i] = y[i]
    BY <1>8, <1>9, <1>10, Zenon
  <2> HIDE DEF x, y
  <2> QED BY <2>1
<1>12. Len(first) + Len(pay) = s
  BY <1>3, <1>4
<1>13. SubSeq(a, 1, Min({FirstBytes, Len(first) + Len(pay)})) = x
  BY <1>8, <1>12, Zenon
<1>14. FirstOf(b) = y
  BY <1>5, <1>9, Zenon DEF FirstOf
<1> QED BY <1>11, <1>13, <1>14, Zenon DEF a, b

(* What is kept of payloads is that of all of them: their sizes, and their *)
(* bytes one behind the other.                                             *)
PayloadSeen(c, sizes, bytes) ==
  /\ MomentsOf(c.size_stats, sizes) /\ BoundsOf(c.size_stats, sizes)
  /\ c.diff_stats.count = IF sizes = << >> THEN 0 ELSE Len(sizes) - 1
  /\ c.last_len = NoLength <=> sizes = << >>
  /\ c.total = Len(bytes)
  /\ sizes # << >> => bytes # << >>
  /\ c.hist_full = BagOf(bytes) /\ c.hist = BagOf(Bins(bytes))
  /\ c.first = FirstOf(bytes)
  /\ Backed(c.magic, c.looks)

LEMMA PayloadUpdated ==
  ASSUME NEW c, NEW pay
  PROVE  LET u == PayloadUpdate(c, pay)
         IN  /\ u.size_stats = Sampled(c.size_stats, Len(pay))
             /\ u.diff_stats = IF c.last_len = NoLength THEN c.diff_stats
                               ELSE Sampled(c.diff_stats, SizeChange(c, pay))
             /\ u.last_len = Len(pay) /\ u.total = c.total + Len(pay)
             /\ u.hist_full = c.hist_full (+) BagOf(pay)
             /\ u.hist = c.hist (+) BagOf(Bins(pay))
             /\ u.first = SubSeq(c.first \o pay, 1, Min({FirstBytes, Len(c.first) + Len(pay)}))
             /\ u.magic = c.magic \cup MagicOf(pay) /\ u.looks = c.looks \cup LooksLike(pay)
BY DEF PayloadUpdate, Bins

LEMMA PayloadGrows ==
  ASSUME NEW sizes \in Seq(Int), NEW bytes \in Seq(Int), NEW c, PayloadSeen(c, sizes, bytes),
         NEW pay \in Seq(Int), pay # << >>, Len(pay) <= EmptyMin
  PROVE  PayloadSeen(PayloadUpdate(c, pay), Append(sizes, Len(pay)), bytes \o pay)
<1> PICK n \in Nat : n = Len(pay)
  OBVIOUS
<1> DEFINE u == PayloadUpdate(c, pay)
           more == Append(sizes, n)
           all == bytes \o pay
<1>1. /\ u.size_stats = Sampled(c.size_stats, n)
      /\ u.diff_stats = IF c.last_len = NoLength THEN c.diff_stats
                        ELSE Sampled(c.diff_stats, SizeChange(c, pay))
      /\ u.last_len = n /\ u.total = c.total + n
      /\ u.hist_full = c.hist_full (+) BagOf(pay)
      /\ u.hist = c.hist (+) BagOf(Bins(pay))
      /\ u.first = SubSeq(c.first \o pay, 1, Min({FirstBytes, Len(c.first) + Len(pay)}))
      /\ u.magic = c.magic \cup MagicOf(pay) /\ u.looks = c.looks \cup LooksLike(pay)
  BY PayloadUpdated, ZenonT(60)
<1> HIDE DEF u
<1>2. /\ MomentsOf(c.size_stats, sizes) /\ BoundsOf(c.size_stats, sizes)
      /\ c.diff_stats.count = IF sizes = << >> THEN 0 ELSE Len(sizes) - 1
      /\ c.last_len = NoLength <=> sizes = << >>
      /\ c.total = Len(bytes)
      /\ c.hist_full = BagOf(bytes) /\ c.hist = BagOf(Bins(bytes))
      /\ c.first = FirstOf(bytes)
      /\ Backed(c.magic, c.looks)
  BY Zenon DEF PayloadSeen
<1>3. /\ n \in Int /\ EmptyMax <= n /\ n <= EmptyMin
      /\ n # NoLength
  BY EmptyBounds DEF NoLength
<1>4. MomentsOf(u.size_stats, more) /\ BoundsOf(u.size_stats, more)
  BY <1>1, <1>2, <1>3, MomentsGrow, BoundsGrow, Zenon
<1>5. u.diff_stats.count = IF more = << >> THEN 0 ELSE Len(more) - 1
  <2>0. Len(more) = Len(sizes) + 1 /\ Len(sizes) \in Nat /\ Len(<< >>) = 0
    OBVIOUS
  <2>1. more # << >> /\ Len(more) - 1 = Len(sizes) /\ Len(sizes) \in Nat
    <3> HIDE DEF more
    <3> QED BY <2>0
  <2>2. CASE sizes = << >>
    <3>1. u.diff_stats = c.diff_stats /\ c.diff_stats.count = 0
      BY <1>1, <1>2, <2>2, Zenon
    <3>2. Len(sizes) = 0
      BY <2>2
    <3> QED BY <2>1, <3>1, <3>2, Zenon
  <2>3. CASE sizes # << >>
    <3>1. u.diff_stats = Sampled(c.diff_stats, SizeChange(c, pay))
          /\ c.diff_stats.count = Len(sizes) - 1
      BY <1>1, <1>2, <2>3, Zenon
    <3>2. \A s, x : Sampled(s, x).count = s.count + 1
      BY DEF Sampled
    <3>3. u.diff_stats.count = c.diff_stats.count + 1
      BY <3>1, <3>2, Zenon
    <3>4. c.diff_stats.count + 1 = Len(sizes)
      BY <2>1, <3>1
    <3> QED BY <2>1, <3>3, <3>4, Zenon
  <2> QED BY <2>2, <2>3
<1>6. u.last_len = NoLength <=> more = << >>
  <2>1. more # << >>
    OBVIOUS
  <2> QED BY <1>1, <1>3, <2>1, Zenon
<1>7. all \in Seq(Int) /\ Len(all) = Len(bytes) + n
  BY TwoPartsOfInts
<1>8. u.total = Len(all) /\ all # << >>
  <2>1. u.total = Len(bytes) + n
    BY <1>1, <1>2, Zenon
  <2>2. Len(all) # 0
    <3>1. Len(bytes) \in Nat /\ n # 0
      OBVIOUS
    <3> HIDE DEF all
    <3> QED BY <1>7, <3>1
  <2> HIDE DEF all
  <2> QED BY <1>7, <2>1, <2>2
<1>9. u.hist_full = BagOf(all)
  BY <1>1, <1>2, BagOfBoth, Zenon
<1>10. u.hist = BagOf(Bins(all))
  <2>1. Bins(bytes) \in Seq(Int) /\ Bins(pay) \in Seq(Int)
    BY BinsType
  <2>2. BagOf(Bins(bytes)) (+) BagOf(Bins(pay)) = BagOf(Bins(bytes) \o Bins(pay))
    BY <2>1, BagOfBoth, Zenon
  <2>3. Bins(all) = Bins(bytes) \o Bins(pay)
    BY BinsOfBoth, Zenon
  <2> QED BY <1>1, <1>2, <2>2, <2>3, Zenon
<1>11. u.first = FirstOf(all)
  BY <1>1, <1>2, FirstKept, Zenon
<1>12. Backed(u.magic, u.looks)
  <2>1. Backed(MagicOf(pay), LooksLike(pay))
    BY MarksBacked, Zenon
  <2> QED BY <1>1, <1>2, <2>1, Zenon DEF Backed
<1>13. PayloadSeen(u, more, all)
  <2> HIDE DEF more, all
  <2> QED BY <1>4, <1>5, <1>6, <1>8, <1>9, <1>10, <1>11, <1>12, Zenon DEF PayloadSeen
<1> QED BY <1>13, Zenon DEF u

LEMMA NoPayloadSeen == PayloadSeen(NoPayload, << >>, << >>)
<1> DEFINE c == NoPayload
<1>1. /\ c.size_stats = NoSamples /\ c.diff_stats = NoSamples /\ c.last_len = NoLength
      /\ c.total = 0 /\ c.hist_full = EmptyBag /\ c.hist = EmptyBag /\ c.first = << >>
      /\ c.magic = {} /\ c.looks = {}
  BY DEF NoPayload
<1> HIDE DEF c
<1>2. /\ NoSamples.count = 0 /\ NoSamples.mean = Zero /\ NoSamples.M2 = Zero
      /\ NoSamples.min = EmptyMin /\ NoSamples.max = EmptyMax
  BY DEF NoSamples
<1>3. MomentsOf(c.size_stats, << >>)
  BY <1>1, <1>2, MomentsOfNone, Zenon
<1>4. BoundsOf(c.size_stats, << >>)
  <2>1. EmptyMin \in Int /\ EmptyMax \in Int /\ \A i \in 1 .. Len(<< >>) : FALSE
    BY EmptyBounds
  <2> QED BY <1>1, <1>2, <2>1, Zenon DEF BoundsOf
<1>5. Len(<< >>) = 0 /\ Bins(<< >>) = << >> /\ << >> \in Seq(Int)
  BY DEF Bins
<1>6. BagOf(<< >>) = EmptyBag
  <2>1. ToSet(<< >>) = {}
    BY DEF ToSet
  <2>2. BagOf(<< >>) = [x \in {} |-> Cardinality({i \in DOMAIN << >> : << >>[i] = x})]
    BY <2>1, Zenon DEF BagOf
  <2> QED BY <2>2 DEF EmptyBag, SetToBag
<1>7. FirstOf(<< >>) = << >>
  <2>1. FirstBytes \in Nat
    BY RecordConstants, Zenon
  <2>2. 0 \in Nat /\ 0 = Kept(0)
    BY <2>1 DEF Kept
  <2>3. IsFirst(<< >>, 0, 0)
    BY <1>5, <2>2, FirstIs
  <2>4. Min({0, FirstBytes}) = 0 /\ Len(SubSeq(<< >>, 1, 0)) = 0 /\ SubSeq(<< >>, 1, 0) \in Seq(Int)
    BY <2>3, Zenon DEF IsFirst
  <2>5. SubSeq(<< >>, 1, 0) = << >>
    BY <2>4
  <2> QED BY <1>5, <2>4, <2>5, Zenon DEF FirstOf
<1>8. Backed(c.magic, c.looks)
  BY <1>1, Zenon DEF Backed
<1> QED BY <1>1, <1>2, <1>3, <1>4, <1>5, <1>6, <1>7, <1>8, Zenon DEF PayloadSeen, c

(* What the report says of the payloads of a flow.                         *)
LEMMA PayloadTold ==
  ASSUME NEW sizes \in Seq(Int), NEW bytes \in Seq(Int), NEW c, PayloadSeen(c, sizes, bytes),
         sizes # << >>, NEW n, n = Len(bytes)
  PROVE  /\ c.size_stats.mean = Mean(sizes)
         /\ RunningVariance(c.size_stats) = Variance(sizes)
         /\ c.size_stats.min = Min(ToSet(sizes)) /\ c.size_stats.max = Max(ToSet(sizes))
         /\ c.diff_stats.count = Len(sizes) - 1
         /\ c.total = n /\ BytesIn(c.hist) = n
         /\ \A b \in DOMAIN c.hist_full : c.hist_full[b] <= c.hist[b \div 16]
         /\ c.first = SubSeq(bytes, 1, Min({n, FirstBytes}))
         /\ \A i \in 1 .. 3 : HistQuartiles(c.hist_full)[i]
                                = Sorted(bytes)[(25 * i * (n - 1)) \div 100 + 1]
         /\ \A mark \in {<<"http_get", "http">>, <<"tls_1_2", "tls">>, <<"ssh", "ssh">>} :
              mark[1] \in c.magic => mark[2] \in c.looks
<1>0. n \in Nat
  OBVIOUS
<1>1. /\ MomentsOf(c.size_stats, sizes) /\ BoundsOf(c.size_stats, sizes)
      /\ c.diff_stats.count = Len(sizes) - 1
      /\ c.total = n /\ bytes # << >>
      /\ c.hist_full = BagOf(bytes) /\ c.hist = BagOf(Bins(bytes))
      /\ c.first = FirstOf(bytes)
      /\ Backed(c.magic, c.looks)
  BY Zenon DEF PayloadSeen
<1>2. /\ c.size_stats.mean = Mean(sizes)
      /\ RunningVariance(c.size_stats) = Variance(sizes)
      /\ c.size_stats.min = Min(ToSet(sizes)) /\ c.size_stats.max = Max(ToSet(sizes))
  BY <1>1, MomentsTell, BoundsTell, Zenon
<1>3. Bins(bytes) \in Seq(Int) /\ n = Len(Bins(bytes))
      /\ \A i \in 1 .. n : Bins(bytes)[i] = bytes[i] \div 16
  BY BinsType, Zenon
<1>4. BytesIn(c.hist) = n
  BY <1>0, <1>1, <1>3, BytesCounted, Zenon
<1>5. ASSUME NEW b \in DOMAIN c.hist_full PROVE c.hist_full[b] <= c.hist[b \div 16]
  <2>1. /\ b \in ToSet(bytes) /\ c.hist_full[b] = HowOften(bytes, n, b)
        /\ \E i \in 1 .. n : bytes[i] = b
    <3>1. /\ DOMAIN BagOf(bytes) = ToSet(bytes)
          /\ \A x : x \in ToSet(bytes) <=> \E i \in 1 .. n : bytes[i] = x
          /\ \A x \in ToSet(bytes) : BagOf(bytes)[x] = HowOften(bytes, n, x)
      BY <1>0, BagOfIs, Zenon
    <3>2. b \in DOMAIN BagOf(bytes)
      BY <1>1, <1>5, Zenon
    <3> QED BY <1>1, <3>1, <3>2, Zenon
  <2>2. \E i \in 1 .. n : Bins(bytes)[i] = b \div 16
    BY <1>3, <2>1, Zenon
  <2> DEFINE bins == Bins(bytes)
             bin == b \div 16
  <2>3. c.hist[bin] = HowOften(bins, n, bin)
    <3>1. bins \in Seq(Int) /\ n = Len(bins) /\ \E i \in 1 .. n : bins[i] = bin
      BY <1>3, <2>2, Zenon
    <3> HIDE DEF bins, bin
    <3>2. bin \in ToSet(bins) /\ \A x \in ToSet(bins) : BagOf(bins)[x] = HowOften(bins, n, x)
      BY <1>0, <3>1, BagOfIs, Zenon
    <3>3. BagOf(bins)[bin] = HowOften(bins, n, bin)
      BY <3>2, Zenon
    <3> QED BY <1>1, <3>3, Zenon DEF bins
  <2>4. HowOften(bytes, n, b) <= HowOften(bins, n, bin)
    BY <1>0, BinsCountMore, Zenon
  <2> HIDE DEF bins, bin
  <2>5. c.hist_full[b] <= c.hist[bin]
    BY <2>1, <2>3, <2>4, Zenon
  <2> QED BY <2>5 DEF bin
<1>6. c.first = SubSeq(bytes, 1, Min({n, FirstBytes}))
  BY <1>1, Zenon DEF FirstOf
<1>7. ASSUME NEW i \in 1 .. 3
      PROVE  HistQuartiles(c.hist_full)[i] = Sorted(bytes)[(25 * i * (n - 1)) \div 100 + 1]
  <2>1. n >= 1
    BY <1>0, <1>1
  <2>2. HistQuartiles(BagOf(bytes))[i] = Sorted(bytes)[(25 * i * (n - 1)) \div 100 + 1]
    BY <1>0, <2>1, QuartilesAre, ZenonT(60)
  <2> QED BY <1>1, <2>2, Zenon
<1>8. \A mark \in {<<"http_get", "http">>, <<"tls_1_2", "tls">>, <<"ssh", "ssh">>} :
        mark[1] \in c.magic => mark[2] \in c.looks
  BY <1>1 DEF Backed
<1> QED BY <1>1, <1>2, <1>4, <1>5, <1>6, <1>7, <1>8, Zenon

(* What is kept of the lengths of a direction is that of its packets; what *)
(* the array holds lies between the extremes.                              *)
LensSeen(d) ==
  LET stats == flow.lengths.len_stats[d]
      array == flow.lengths.pkt_lens[d]
      lens  == History.lens[d]
  IN  /\ MomentsOf(stats, lens) /\ CountsWithin(array, lens)
      /\ \A i \in 1 .. Len(array) : stats.min <= array[i] /\ array[i] <= stats.max

(* The inductive invariant of the statistics.                              *)
StatisticsInv ==
  /\ LengthsInv
  /\ \A d \in Way : LensSeen(d)
  /\ PayloadSeen(flow.payload, History.sizes, History.bytes)

LEMMA HistoryIs == History = HistoryOf(arrivals)
BY DEF History, HistoryOf

LEMMA HistoryMoves ==
  ASSUME RoomInv, NEW p \in Packets, Data(p)
  PROVE  /\ History \in Sights
         /\ History.sizes \in Seq(Int) /\ History.bytes \in Seq(Int)
         /\ \A d \in Way : History.lens[d] \in Seq(Int)
         /\ \A d \in Way : History'.lens[d] = IF p.dir = d THEN Append(History.lens[d], p.len)
                                              ELSE History.lens[d]
         /\ History'.sizes = IF p.pay = << >> THEN History.sizes
                             ELSE Append(History.sizes, Len(p.pay))
         /\ History'.bytes = History.bytes \o p.pay
<1>1. arrivals \in Seq(Packets) /\ arrivals' = Append(arrivals, p)
  BY Zenon DEF RoomInv, Data
<1>2. History \in Sights
  BY <1>1, HistoryIs, HistoryGrows, Zenon
<1>3. History' = Seen(History, p)
  <2>1. History' = HistoryOf(arrivals')
    BY DEF History, HistoryOf
  <2> QED BY <1>1, <2>1, HistoryIs, HistoryGrows, Zenon
<1> DEFINE h == History
<1>4. /\ h.sizes \in Seq(Int) /\ h.bytes \in Seq(Int)
      /\ \A d \in Way : h.lens[d] \in Seq(Int)
  <2> HIDE DEF h
  <2>1. h \in Sights
    BY <1>2 DEF h
  <2> QED BY <2>1 DEF Sights
<1>5. LET s == Seen(h, p)
      IN  /\ \A d \in Way : s.lens[d] = IF p.dir = d THEN Append(h.lens[d], p.len) ELSE h.lens[d]
          /\ s.sizes = IF p.pay = << >> THEN h.sizes ELSE Append(h.sizes, Len(p.pay))
          /\ s.bytes = h.bytes \o p.pay
  <2> HIDE DEF h
  <2> QED BY DEF Seen
<1> QED BY <1>2, <1>3, <1>4, <1>5, Zenon

(* What a packet does to the statistics of payloads and lengths.           *)
LEMMA StatisticsMove ==
  ASSUME RoomInv, NEW p, Data(p)
  PROVE  /\ flow'.payload = IF p.pay = << >> THEN flow.payload
                            ELSE PayloadUpdate(flow.payload, p.pay)
         /\ \A d \in Way : flow'.lengths.len_stats[d] =
              IF d = p.dir THEN Sampled(flow.lengths.len_stats[d], p.len)
              ELSE flow.lengths.len_stats[d]
<1> PICK n : n = Len(arrivals) + 1
  OBVIOUS
<1> DEFINE made == MadeRoom(flow, n)
<1>1. flow' = Collected(made, p)
  BY Zenon DEF Data
<1>2. made.payload = flow.payload
  BY DEF MadeRoom, RoomInv
<1> HIDE DEF made
<1>3. Collected(made, p).payload
        = IF p.pay = << >> THEN made.payload ELSE PayloadUpdate(made.payload, p.pay)
  BY DEF Collected
<1>4. flow'.payload = IF p.pay = << >> THEN flow.payload ELSE PayloadUpdate(flow.payload, p.pay)
  BY <1>1, <1>2, <1>3, Zenon
<1>5. flow'.lengths = LengthUpdate(flow.lengths, p, flow'.pool.seq_len)
  <2>1. n = Len(arrivals) + 1
    OBVIOUS
  <2> QED BY <2>1, RecordMoves, Zenon
<1>6. \A l, room : LengthUpdate(l, p, room).len_stats = SampledByWay(l.len_stats, p.dir, p.len)
  BY DEF LengthUpdate
<1>7. flow'.lengths.len_stats = SampledByWay(flow.lengths.len_stats, p.dir, p.len)
  BY <1>5, <1>6, Zenon
<1>8. \A d \in Way : flow'.lengths.len_stats[d] =
        IF d = p.dir THEN Sampled(flow.lengths.len_stats[d], p.len) ELSE flow.lengths.len_stats[d]
  BY <1>7, Zenon DEF SampledByWay
<1> QED BY <1>4, <1>8, Zenon

LEMMA LensStep ==
  ASSUME LengthsInv, NEW p \in Packets, Data(p), NEW d \in Way, LensSeen(d)
  PROVE  LensSeen(d)'
<1> DEFINE stats == flow.lengths.len_stats[d]
           array == flow.lengths.pkt_lens[d]
           lens == History.lens[d]
           stats1 == flow'.lengths.len_stats[d]
           array1 == flow'.lengths.pkt_lens[d]
           lens1 == History'.lens[d]
           room == flow'.pool.seq_len
<1>0. RoomInv /\ ArrayInv(d) /\ HasExtremes(d)
  BY Zenon DEF LengthsInv
<1>1. /\ lens \in Seq(Int)
      /\ lens1 = IF p.dir = d THEN Append(lens, p.len) ELSE lens
  BY <1>0, HistoryMoves, Zenon
<1>2. stats1 = IF d = p.dir THEN Sampled(stats, p.len) ELSE stats
  BY <1>0, StatisticsMove, Zenon
<1>3. /\ p.dir # d => array1 = array
      /\ p.dir = d => array1 = Stored(array, p.len, room)
  BY <1>0, LengthMoves, Zenon
<1>4. /\ MomentsOf(stats, lens) /\ CountsWithin(array, lens)
      /\ \A i \in 1 .. Len(array) : stats.min <= array[i] /\ array[i] <= stats.max
  BY Zenon DEF LensSeen
<1>5. array \in Seq(Int) /\ stats.min \in Int /\ stats.max \in Int /\ p.len \in Int
  <2>1. array \in Seq(Nat) /\ stats.min \in Int /\ stats.max \in Int /\ p.len \in Int
    BY <1>0, PacketsAre, Zenon DEF ArrayInv, HasExtremes
  <2> HIDE DEF array, stats
  <2>2. array \in Seq(Int)
    BY <2>1
  <2> QED BY <2>1, <2>2
<1> HIDE DEF stats, array, lens, stats1, array1, lens1, room
<1>6. CASE p.dir # d
  <2>1. stats1 = stats /\ array1 = array /\ lens1 = lens
    BY <1>1, <1>2, <1>3, <1>6, Zenon
  <2>2. /\ MomentsOf(stats1, lens1) /\ CountsWithin(array1, lens1)
        /\ \A i \in 1 .. Len(array1) : stats1.min <= array1[i] /\ array1[i] <= stats1.max
    BY <1>4, <2>1, Zenon
  <2> QED BY <2>2, Zenon DEF LensSeen, stats1, array1, lens1
<1>7. CASE p.dir = d
  <2>1. stats1 = Sampled(stats, p.len) /\ lens1 = Append(lens, p.len)
        /\ array1 = Stored(array, p.len, room)
    BY <1>1, <1>2, <1>3, <1>7, Zenon
  <2>2. MomentsOf(stats1, lens1)
    BY <1>1, <1>4, <1>5, <2>1, MomentsGrow, Zenon
  <2> PICK n \in Nat : n = Len(array)
    BY <1>5
  <2>3. array1 = array \/ array1 = Append(array, p.len)
    BY <2>1, Zenon DEF Stored
  <2>4. CountsWithin(array1, lens1)
    BY <1>1, <1>4, <1>5, <2>1, <2>3, WithinGrows, Zenon
  <2>5. /\ stats1.min <= stats.min /\ stats.max <= stats1.max
        /\ stats1.min <= p.len /\ p.len <= stats1.max
        /\ stats1.min \in Int /\ stats1.max \in Int
    <3>1. stats1.min = Min({stats.min, p.len}) /\ stats1.max = Max({stats.max, p.len})
      BY <2>1, SampledBounds, Zenon
    <3>2. /\ stats1.min = (IF stats.min <= p.len THEN stats.min ELSE p.len)
          /\ stats1.max = (IF stats.max >= p.len THEN stats.max ELSE p.len)
      BY <1>5, <3>1, MinOfTwo, MaxOfTwo, Zenon
    <3> QED BY <1>5, <3>2
  <2>6. \A i \in 1 .. n : stats1.min <= array[i] /\ array[i] <= stats1.max
    <3> TAKE i \in 1 .. n
    <3>1. stats.min <= array[i] /\ array[i] <= stats.max
      BY <1>4, Zenon
    <3>2. array[i] \in Int
      BY <1>5
    <3> QED BY <1>5, <2>5, <3>1, <3>2
  <2>7. \A i \in 1 .. Len(array1) : stats1.min <= array1[i] /\ array1[i] <= stats1.max
    <3>1. CASE array1 = array
      BY <2>6, <3>1, Zenon
    <3>2. CASE array1 = Append(array, p.len)
      <4>1. /\ Len(array1) = n + 1 /\ array1[n + 1] = p.len
            /\ \A i \in 1 .. n : array1[i] = array[i]
            /\ \A i \in 1 .. n + 1 : i \in 1 .. n \/ i = n + 1
        BY <1>5, <3>2
      <4> QED BY <2>5, <2>6, <4>1, Zenon
    <3> QED BY <2>3, <3>1, <3>2
  <2> QED BY <2>2, <2>4, <2>7, Zenon DEF LensSeen, stats1, array1, lens1
<1> QED BY <1>6, <1>7

LEMMA PayloadSeenStep ==
  ASSUME LengthsInv, NEW p \in Packets, Data(p),
         PayloadSeen(flow.payload, History.sizes, History.bytes)
  PROVE  PayloadSeen(flow'.payload, History'.sizes, History'.bytes)
<1> DEFINE sizes == History.sizes
           bytes == History.bytes
           c == flow.payload
<1>0. RoomInv
  BY Zenon DEF LengthsInv
<1>1. /\ sizes \in Seq(Int) /\ bytes \in Seq(Int)
      /\ History'.sizes = IF p.pay = << >> THEN sizes ELSE Append(sizes, Len(p.pay))
      /\ History'.bytes = bytes \o p.pay
  BY <1>0, HistoryMoves, Zenon
<1>2. flow'.payload = IF p.pay = << >> THEN c ELSE PayloadUpdate(c, p.pay)
  BY <1>0, StatisticsMove, Zenon
<1>3. p.pay \in Seq(Int) /\ Len(p.pay) <= EmptyMin
  BY PacketsAre, Zenon
<1> HIDE DEF sizes, bytes, c
<1>4. CASE p.pay = << >>
  <2>1. bytes \o << >> = bytes
    BY <1>1
  <2>2. History'.sizes = sizes /\ History'.bytes = bytes /\ flow'.payload = c
    BY <1>1, <1>2, <1>4, <2>1, Zenon
  <2> QED BY <2>2, Zenon DEF sizes, bytes, c
<1>5. CASE p.pay # << >>
  <2>1. PayloadSeen(PayloadUpdate(c, p.pay), Append(sizes, Len(p.pay)), bytes \o p.pay)
    BY <1>1, <1>3, <1>5, PayloadGrows, Zenon DEF sizes, bytes, c
  <2> QED BY <1>1, <1>2, <1>5, <2>1, Zenon
<1> QED BY <1>4, <1>5

LEMMA StatisticsStep == StatisticsInv /\ [Next]_vars => StatisticsInv'
<1> SUFFICES ASSUME StatisticsInv, [Next]_vars PROVE StatisticsInv'
  OBVIOUS
<1>1. /\ LengthsInv /\ RecordIs /\ \A d \in Way : LensSeen(d)
      /\ PayloadSeen(flow.payload, History.sizes, History.bytes)
  BY Zenon DEF StatisticsInv, LengthsInv
<1>2. LengthsInv'
  BY <1>1, LengthsStep, Zenon
<1>3. (\E p \in Packets : Data(p)) \/ UNCHANGED <<supply, flow, arrivals>>
  BY <1>1, RecordStep, Zenon
<1>4. CASE UNCHANGED <<supply, flow, arrivals>>
  <2>1. flow' = flow /\ History' = History
    BY <1>4 DEF History
  <2>2. \A d \in Way : LensSeen(d)'
    BY <1>1, <2>1, Zenon DEF LensSeen
  <2>3. PayloadSeen(flow.payload, History.sizes, History.bytes)'
    BY <1>1, <2>1, Zenon
  <2> QED BY <1>2, <2>2, <2>3, Zenon DEF StatisticsInv
<1>5. CASE \E p \in Packets : Data(p)
  <2> PICK p \in Packets : Data(p)
    BY <1>5
  <2>1. \A d \in Way : LensSeen(d)'
    BY <1>1, LensStep, Zenon
  <2>2. PayloadSeen(flow'.payload, History'.sizes, History'.bytes)
    BY <1>1, PayloadSeenStep, Zenon
  <2> QED BY <1>2, <2>1, <2>2, Zenon DEF StatisticsInv
<1> QED BY <1>3, <1>4, <1>5

LEMMA StatisticsInvInit == Init => StatisticsInv
<1> SUFFICES ASSUME Init PROVE StatisticsInv
  OBVIOUS
<1>1. LengthsInv
  BY LengthsInvInit, Zenon
<1>2. flow.lengths = NoLengths /\ flow.payload = NoPayload /\ arrivals = << >>
  BY DEF Init
<1>3. /\ \A d \in Way : History.lens[d] = << >>
      /\ History.sizes = << >> /\ History.bytes = << >>
  <2>1. History = NoSight
    BY <1>2, HistoryIs, HistoryGrows, Zenon
  <2> QED BY <2>1 DEF NoSight
<1>4. ASSUME NEW d \in Way PROVE LensSeen(d)
  <2>1. flow.lengths.pkt_lens[d] = << >> /\ flow.lengths.len_stats[d] = NoSamples
    BY <1>2 DEF NoLengths
  <2>2. NoSamples.count = 0 /\ NoSamples.mean = Zero /\ NoSamples.M2 = Zero
    BY DEF NoSamples
  <2>3. MomentsOf(NoSamples, << >>)
    BY <2>2, MomentsOfNone, Zenon
  <2>4. CountsWithin(<< >>, << >>)
    <3>1. ASSUME NEW x PROVE HowOften(<< >>, 0, x) <= HowOften(<< >>, 0, x)
      <4>1. Counts(<< >>, 0, x)
        BY CountsEqual
      <4>2. HowOften(<< >>, 0, x) \in Nat
        BY <4>1, Zenon DEF Counts
      <4> QED BY <4>2
    <3>2. Len(<< >>) = 0
      OBVIOUS
    <3> QED BY <3>1, <3>2, Zenon DEF CountsWithin
  <2>5. \A i \in 1 .. Len(<< >>) : FALSE
    OBVIOUS
  <2> QED BY <1>3, <2>1, <2>3, <2>4, <2>5, Zenon DEF LensSeen
<1>5. PayloadSeen(flow.payload, History.sizes, History.bytes)
  BY <1>2, <1>3, NoPayloadSeen, Zenon
<1> QED BY <1>1, <1>4, <1>5, Zenon DEF StatisticsInv

(* The quartiles that the report gives of a direction's lengths.           *)
LEMMA SectionQuartiles ==
  ASSUME NEW l, NEW d, NEW max_len, PktLengthSection(l, d, max_len) # << >>
  PROVE  PktLengthSection(l, d, max_len)[1].quartiles = UintQuartiles(Sorted(l.pkt_lens[d]))
<1> DEFINE lens == l.pkt_lens[d]
<1>1. Fits(lens, max_len)
  BY DEF PktLengthSection
<1>2. \A s, a, b : "quartiles" \in DOMAIN s
        => [s EXCEPT !.min = a, !.max = b].quartiles = s.quartiles
  OBVIOUS
<1>3. /\ "quartiles" \in DOMAIN UintSummary(lens)
      /\ UintSummary(lens).quartiles = UintQuartiles(Sorted(lens))
  BY DEF UintSummary, Summary
<1>4. PktLengthSection(l, d, max_len)[1]
        = [UintSummary(lens) EXCEPT !.min = l.len_stats[d].min, !.max = l.len_stats[d].max]
  BY <1>1 DEF PktLengthSection
<1> HIDE DEF lens
<1>5. PktLengthSection(l, d, max_len)[1].quartiles = UintQuartiles(Sorted(lens))
  BY <1>2, <1>3, <1>4, Zenon
<1> QED BY <1>5 DEF lens

InBounds(s) ==
  /\ AtMost(Whole(s.min), s.quartiles[1])
  /\ AtMost(s.quartiles[1], s.quartiles[2])
  /\ AtMost(s.quartiles[2], s.quartiles[3])
  /\ AtMost(s.quartiles[3], Whole(s.max))

LEMMA QuartilesInBounds ==
  ASSUME StatisticsInv, record.closed, NEW d \in Way, record.basic.pkt_length[d] # << >>
  PROVE  InBounds(record.basic.pkt_length[d][1])
<1> DEFINE array   == flow.lengths.pkt_lens[d]
           section == record.basic.pkt_length[d]
           stats   == flow.lengths.len_stats[d]
           room    == TempLen(flow.pool.seq_len)
           lens    == Sorted(array)
<1>1. RoomInv /\ ArrayInv(d) /\ HasExtremes(d) /\ RecordIs /\ LensSeen(d)
  BY Zenon DEF StatisticsInv, LengthsInv
<1>2. PICK allocated \in BOOLEAN : record = Computed(flow, allocated)
  <2>1. ~NoRecord.closed
    BY DEF NoRecord
  <2> QED BY <1>1, <2>1, Zenon DEF RecordIs
<1>3. section = PktLengthSection(flow.lengths, d, room)
  <2>1. record.basic = LengthSections(flow.lengths, room)
    BY <1>2 DEF Computed
  <2>2. record.basic.pkt_length = [e \in Way |-> PktLengthSection(flow.lengths, e, room)]
    BY <2>1 DEF LengthSections
  <2> QED BY <2>2
<1>4. /\ array # << >> /\ section[1].min = stats.min /\ section[1].max = stats.max
      /\ section[1].quartiles = UintQuartiles(lens)
  <2>1. PktLengthSection(flow.lengths, d, room) # << >>
    BY <1>3, Zenon
  <2> HIDE DEF room
  <2>2. /\ array # << >>
        /\ PktLengthSection(flow.lengths, d, room)[1].min = stats.min
        /\ PktLengthSection(flow.lengths, d, room)[1].max = stats.max
    BY <2>1, SectionOf
  <2>3. PktLengthSection(flow.lengths, d, room)[1].quartiles = UintQuartiles(lens)
    BY <2>1, SectionQuartiles, Zenon
  <2> HIDE DEF section, array, stats, lens
  <2> QED BY <1>3, <2>2, <2>3, Zenon
<1> PICK n \in Nat : n = Len(array)
  BY <1>1 DEF ArrayInv
<1>5. /\ array \in Seq(Int) /\ stats.min \in Int /\ stats.max \in Int
      /\ \A i \in 1 .. n : stats.min <= array[i] /\ array[i] <= stats.max
  <2>1. /\ array \in Seq(Nat) /\ stats.min \in Int /\ stats.max \in Int
        /\ \A i \in 1 .. n : stats.min <= array[i] /\ array[i] <= stats.max
    BY <1>1, Zenon DEF ArrayInv, HasExtremes, LensSeen
  <2> HIDE DEF array, stats
  <2>2. array \in Seq(Int)
    BY <2>1
  <2> QED BY <2>1, <2>2
<1> HIDE DEF section, array, room
<1>6. n >= 1 /\ 1 \in 1 .. n /\ n \in 1 .. n
  BY <1>4, <1>5
<1>11. \A i \in 1 .. n : 0 <= array[i]
  <2>1. array \in Seq(Nat)
    BY <1>1, Zenon DEF ArrayInv, array
  <2> QED BY <2>1
<1>12. 2 * stats.max < CountSpan
  <2>1. OfWay(d) # {}
    <3>1. OfWay(d) = {} => stats.min = EmptyMin /\ stats.max = EmptyMax
      BY <1>1, Zenon DEF HasExtremes
    <3>2. stats.min <= array[1] /\ array[1] <= stats.max
      BY <1>5, <1>6, Zenon
    <3>3. array[1] \in Int
      BY <1>5, <1>6
    <3> HIDE DEF stats
    <3> QED BY <1>5, <3>1, <3>2, <3>3, EmptyBounds
  <2>2. PICK g \in OfWay(d) : arrivals[g].len = stats.max
    BY <1>1, <2>1, Zenon DEF HasExtremes
  <2>3. arrivals[g] \in Packets
    BY <1>1 DEF RoomInv, OfWay
  <2> QED BY <2>2, <2>3, RecordConstants, Zenon
<1> HIDE DEF stats
<1>7. IsAscending(lens, n) /\ TakenFrom(lens, array, n)
  <2>1. Orders(lens, array, n)
    BY <1>5, SortedOrders, Zenon
  <2> HIDE DEF lens
  <2> QED BY <1>5, <2>1, OrderedAscends, Zenon
<1> HIDE DEF lens
<1>8. stats.min <= lens[1] /\ lens[n] <= stats.max
  BY <1>5, <1>6, <1>7, Zenon DEF TakenFrom
<1>9. /\ AtMost(Whole(stats.min), UintQuartiles(lens)[1])
      /\ AtMost(UintQuartiles(lens)[1], UintQuartiles(lens)[2])
      /\ AtMost(UintQuartiles(lens)[2], UintQuartiles(lens)[3])
      /\ AtMost(UintQuartiles(lens)[3], Whole(stats.max))
  <2>1. 0 <= lens[1] /\ lens[n] \in Int
    <3>1. \A i \in 1 .. n : array[i] \in Int /\ 0 <= array[i]
      BY <1>5, <1>11
    <3> QED BY <1>6, <1>7, <3>1, Zenon DEF TakenFrom
  <2>2. 2 * lens[n] < CountSpan
    BY <1>5, <1>8, <1>12, <2>1, CountSpanAssumption
  <2> QED BY <1>5, <1>6, <1>7, <1>8, <2>1, <2>2, UintQuartilesAscend, Zenon
<1>10. InBounds(section[1])
  BY <1>4, <1>9, Zenon DEF InBounds
<1> QED BY <1>10 DEF section

LEMMA StatisticsReported == StatisticsInv => StatisticsAgree
<1> SUFFICES ASSUME StatisticsInv PROVE StatisticsAgree
  OBVIOUS
<1> DEFINE c     == flow.payload
           seen  == History
           sizes == seen.sizes
           bytes == seen.bytes
           n     == Len(bytes)
<1>1. /\ RoomInv /\ \A d \in Way : ArrayInv(d) /\ LensSeen(d)
      /\ PayloadSeen(c, sizes, bytes)
  BY Zenon DEF StatisticsInv, LengthsInv
<1>2. /\ sizes \in Seq(Int) /\ bytes \in Seq(Int)
      /\ \A d \in Way : seen.lens[d] \in Seq(Int)
  <2>1. seen \in Sights
    BY <1>1, HistoryIs, HistoryGrows, Zenon DEF RoomInv
  <2> HIDE DEF seen
  <2> QED BY <2>1 DEF Sights
<1>3. ASSUME NEW d \in Way, seen.lens[d] # << >>
      PROVE  /\ flow.lengths.len_stats[d].mean = Mean(seen.lens[d])
             /\ RunningVariance(flow.lengths.len_stats[d]) = Variance(seen.lens[d])
             /\ BagOf(flow.lengths.pkt_lens[d]) \sqsubseteq BagOf(seen.lens[d])
  <2> DEFINE array == flow.lengths.pkt_lens[d]
             lens  == seen.lens[d]
  <2>1. /\ array \in Seq(Nat) /\ lens \in Seq(Int)
        /\ MomentsOf(flow.lengths.len_stats[d], lens) /\ CountsWithin(array, lens)
    BY <1>1, <1>2, Zenon DEF ArrayInv, LensSeen
  <2>2. array \in Seq(Int)
    <3> HIDE DEF array
    <3> QED BY <2>1
  <2>3. BagOf(array) \sqsubseteq BagOf(lens)
    BY <2>1, <2>2, WithinTells, Zenon
  <2> QED BY <1>3, <2>1, <2>3, MomentsTell, Zenon
<1>4. ASSUME record.closed, NEW d \in Way, record.basic.pkt_length[d] # << >>
      PROVE  LET s == record.basic.pkt_length[d][1]
             IN  /\ AtMost(Whole(s.min), s.quartiles[1])
                 /\ AtMost(s.quartiles[1], s.quartiles[2])
                 /\ AtMost(s.quartiles[2], s.quartiles[3])
                 /\ AtMost(s.quartiles[3], Whole(s.max))
  BY <1>4, QuartilesInBounds, Zenon DEF InBounds
<1>5. ASSUME sizes # << >>
      PROVE  /\ c.size_stats.mean = Mean(sizes)
             /\ RunningVariance(c.size_stats) = Variance(sizes)
             /\ c.size_stats.min = Min(ToSet(sizes)) /\ c.size_stats.max = Max(ToSet(sizes))
             /\ c.diff_stats.count = Len(sizes) - 1
             /\ c.total = n /\ BytesIn(c.hist) = n
             /\ \A b \in DOMAIN c.hist_full : c.hist_full[b] <= c.hist[b \div 16]
             /\ c.first = SubSeq(bytes, 1, Min({n, FirstBytes}))
             /\ \A i \in 1 .. 3 : HistQuartiles(c.hist_full)[i]
                                    = Sorted(bytes)[(25 * i * (n - 1)) \div 100 + 1]
             /\ \A mark \in {<<"http_get", "http">>, <<"tls_1_2", "tls">>, <<"ssh", "ssh">>} :
                  mark[1] \in c.magic => mark[2] \in c.looks
  <2> HIDE DEF c, sizes, bytes
  <2> QED BY <1>1, <1>2, <1>5, PayloadTold
<1> QED BY <1>3, <1>4, <1>5, Zenon DEF StatisticsAgree

(* The running statistics of lengths and payload sizes, the histograms of  *)
(* bytes, the first bytes, the quartiles and the marks agree with all      *)
(* packets, however many arrive and whatever becomes of the upgrades       *)
(* (running_stats_update, calc_payload_stats, calc_payload_magic).         *)
THEOREM StatisticsAreExact == Spec => []StatisticsAgree
<1> QED BY StatisticsInvInit, StatisticsStep, StatisticsReported, PTL DEF Spec
=============================================================================

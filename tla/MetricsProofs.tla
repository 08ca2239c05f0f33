--------------------------- MODULE MetricsProofs ----------------------------
(***************************************************************************)
(* Proofs about Metrics, for every number of slots and of workers: a scan  *)
(* that no lock protects still returns a total between the one at its      *)
(* start and the one at its end, and the logged deltas add up.             *)
(***************************************************************************)
EXTENDS Metrics, TallyProofs

(***************************************************************************)
(* The inductive invariant.                                                *)
(***************************************************************************)

\* The slots of kind k that the scan has loaded.
Done(k) ==
    {c \in Slots : \E a \in 1..3 :
        /\ Counters[a] = k
        /\ a < load.array \/ (a = load.array /\ c < load.slot)}

\* The types, with counters and sums that could still be any number.
Shape ==
    /\ metrics \in [Kinds -> [Slots -> Nat]]
    /\ watch \in BOOLEAN
    /\ reporter_pc \in {"sleep", "totals", "report", "exited"}
    /\ load \in [array : 1..4, slot : Slots]
    /\ sums \in [Kinds -> Nat] /\ prev \in [Kinds -> Nat]
    /\ logged \in [Kinds -> Nat] /\ scan_start \in [Kinds -> Nat]
    /\ drop_bps \in 0..U64_MAX

\* The place in the scan goes with the reporter's place in its loop.
PlaceInv ==
    /\ reporter_pc = "totals" => load.array \in 1..3
    /\ reporter_pc = "report" => load.array = 4
    /\ reporter_pc \in {"sleep", "exited"} =>
           load = FirstLoad /\ sums = Zeros /\ scan_start = Zeros

\* A scan that is under way: what it has added up is at most what the slots
\* behind it now hold, and with the slots before it it will come to at least
\* the total it started from.
ScanInv ==
    \A k \in Kinds :
        /\ sums[k] <= SumOver(metrics[k], Done(k))
        /\ scan_start[k] <= sums[k] + SumOver(metrics[k], Slots \ Done(k))
        /\ scan_start[k] <= Total(k)
        /\ prev[k] <= Total(k)
        /\ reporter_pc \in {"totals", "report"} => prev[k] <= scan_start[k]

IInv ==
    /\ Shape
    /\ PlaceInv
    /\ ScanInv
    /\ AllCounted <= MaxCount
    /\ DeltasAddUp
    /\ DropRateBounded

(***************************************************************************)
(* Facts about the data.                                                   *)
(***************************************************************************)

\* The slots are finitely many, and so is any part of them.
LEMMA SlotFacts ==
    /\ IsFiniteSet(Slots)
    /\ \A T \in SUBSET Slots : IsFiniteSet(T)
    /\ Slots \subseteq Nat /\ 0 \in Slots
<1>1. IsFiniteSet(0..(NCPU_MAX - 1))
  BY MetricsAssumption, FS_Interval
<1>2. IsFiniteSet(Slots)
  BY <1>1 DEF Slots
<1>3. ASSUME NEW T \in SUBSET Slots PROVE IsFiniteSet(T)
  BY <1>2, FS_Subset
<1>4. Slots \subseteq Nat /\ 0 \in Slots
  BY MetricsAssumption DEF Slots
<1> QED
  BY <1>2, <1>3, <1>4

\* The three arrays are three kinds.
LEMMA KindFacts ==
    /\ Kinds = {"frames_ok", "frames_dropped", "channel_full"}
    /\ \A a \in 1..3 : Counters[a] \in Kinds
    /\ \A a, b \in 1..3 : Counters[a] = Counters[b] => a = b
BY DEF Kinds, Counters

\* Integer division by a positive number.
LEMMA DivFacts ==
    ASSUME NEW a \in Nat, NEW b \in Nat \ {0}
    PROVE  /\ a \div b \in Nat
           /\ a \div b <= a
           /\ a <= 10000 * b => a \div b <= 10000
OBVIOUS

\* A sum over some of the slots of a counter is a number, and not more than
\* the total.
LEMMA PartOfTotal ==
    ASSUME Shape, NEW k \in Kinds, NEW T \in SUBSET Slots
    PROVE  /\ SumOver(metrics[k], T) \in Nat /\ Total(k) \in Nat
           /\ SumOver(metrics[k], T) <= Total(k)
<1>1. \A c \in Slots : metrics[k][c] \in Nat
  BY DEF Shape
<1> QED
  BY <1>1, SlotFacts, SumFinite, SumOfFewer DEF Total

\* The drop rate fits a u64 and is at most 10_000: the numerator saturates at
\* the value at which the denominator does.
LEMMA RateFacts ==
    ASSUME NEW ok \in Nat, NEW drop \in Nat
    PROVE  drop_rate_bps(ok, drop) \in 0..U64_MAX /\ drop_rate_bps(ok, drop) <= 10000
<1> DEFINE total == Saturated(ok + drop)
           num == Saturated(drop * 10000)
<1>1. /\ total \in Nat /\ num \in Nat /\ num <= U64_MAX /\ U64_MAX \in Nat
      /\ num <= 10000 * total
  BY MetricsAssumption DEF Saturated
<1>2. drop_rate_bps(ok, drop) = IF total = 0 THEN 0 ELSE num \div total
  BY DEF drop_rate_bps
<1> HIDE DEF total, num
<1>3. CASE total = 0
  BY <1>1, <1>2, <1>3
<1>4. CASE total # 0
  <2>1. num \div total \in Nat /\ num \div total <= num /\ num \div total <= 10000
    BY <1>1, <1>4, DivFacts
  <2> QED
    BY <1>1, <1>2, <1>4, <2>1
<1> QED
  BY <1>3, <1>4

(***************************************************************************)
(* The steps of the workers.                                               *)
(***************************************************************************)

\* One fetch_add: every sum of that kind that includes the slot moves up by
\* one, and no sum moves down.
LEMMA RecordFacts ==
    ASSUME Shape, NEW k \in Kinds, NEW c \in Slots, Record(k, c)
    PROVE  /\ metrics' \in [Kinds -> [Slots -> Nat]]
           /\ \A j \in Kinds : \A T \in SUBSET Slots :
                  SumOver(metrics[j], T) <= SumOver(metrics[j], T)'
           /\ AllCounted' = AllCounted + 1
<1>1. metrics' = [metrics EXCEPT ![k][c] = @ + 1]
  BY DEF Record
<1>2. metrics' \in [Kinds -> [Slots -> Nat]]
  BY <1>1 DEF Shape
<1>3. /\ \A j \in Kinds : \A d \in Slots :
             /\ metrics[j][d] \in Nat /\ metrics'[j][d] \in Nat
             /\ metrics[j][d] <= metrics'[j][d]
             /\ j # k => metrics'[j] = metrics[j]
      /\ \A d \in Slots :
             metrics'[k][d] = IF d = c THEN metrics[k][d] + 1 ELSE metrics[k][d]
  BY <1>1, <1>2 DEF Shape
<1>4. ASSUME NEW j \in Kinds, NEW T \in SUBSET Slots
      PROVE  SumOver(metrics[j], T) <= SumOver(metrics'[j], T)
  BY <1>3, SlotFacts, SumMonotone
<1>5. SumOver(metrics'[k], Slots) = SumOver(metrics[k], Slots) + 1
  BY <1>3, SlotFacts, SumIncrement
<1>6. \A j \in Kinds : j # k => SumOver(metrics'[j], Slots) = SumOver(metrics[j], Slots)
  BY <1>3, SlotFacts
<1>7. \A j \in Kinds : SumOver(metrics[j], Slots) \in Nat
  BY <1>3, SlotFacts, SumFinite
<1>8. AllCounted' = AllCounted + 1
  <2> DEFINE m(j) == SumOver(metrics[j], Slots)
             n(j) == SumOver(metrics'[j], Slots)
  <2>1. /\ n(k) = m(k) + 1 /\ \A j \in Kinds : j # k => n(j) = m(j)
        /\ \A j \in Kinds : m(j) \in Nat
    BY <1>5, <1>6, <1>7
  <2>2. /\ AllCounted = m("frames_ok") + m("frames_dropped") + m("channel_full")
        /\ AllCounted' = n("frames_ok") + n("frames_dropped") + n("channel_full")
    BY DEF AllCounted, Total
  <2> HIDE DEF m, n
  <2> QED
    BY <2>1, <2>2, KindFacts
<1> QED
  BY <1>2, <1>4, <1>8

\* A worker disturbs no scan: sums only move up.
LEMMA RecordStep ==
    ASSUME IInv, NEW k \in Kinds, NEW c \in CpuIds, Record(k, c)
    PROVE  IInv'
<1>0. c \in Slots /\ Shape
  BY MetricsAssumption DEF IInv
<1>1. /\ metrics' \in [Kinds -> [Slots -> Nat]]
      /\ \A j \in Kinds : \A T \in SUBSET Slots :
             SumOver(metrics[j], T) <= SumOver(metrics'[j], T)
      /\ AllCounted' = AllCounted + 1
  BY <1>0, RecordFacts
<1>2. UNCHANGED <<watch, reporter_pc, load, sums, prev, drop_bps, logged,
                  scan_start>>
  BY DEF Record
<1>3. Shape' /\ PlaceInv' /\ DeltasAddUp' /\ DropRateBounded'
  BY <1>1, <1>2 DEF IInv, Shape, PlaceInv, DeltasAddUp, DropRateBounded
<1>4. AllCounted \in Nat /\ AllCounted < MaxCount
  BY <1>0, PartOfTotal, KindFacts DEF AllCounted, Record
<1>5. AllCounted' <= MaxCount
  BY <1>1, <1>4, MetricsAssumption
<1>6. ScanInv'
  <2> SUFFICES ASSUME NEW j \in Kinds
               PROVE  /\ sums[j] <= SumOver(metrics'[j], Done(j))
                      /\ scan_start[j] <= sums[j] + SumOver(metrics'[j], Slots \ Done(j))
                      /\ scan_start[j] <= SumOver(metrics'[j], Slots)
                      /\ prev[j] <= SumOver(metrics'[j], Slots)
                      /\ reporter_pc \in {"totals", "report"} =>
                             prev[j] <= scan_start[j]
    BY <1>2 DEF ScanInv, Total, Done
  <2>1. Done(j) \in SUBSET Slots /\ Slots \ Done(j) \in SUBSET Slots
        /\ Slots \in SUBSET Slots
    BY DEF Done
  <2>2. /\ sums[j] \in Nat /\ scan_start[j] \in Nat /\ prev[j] \in Nat
    BY <1>0 DEF Shape
  <2>3. \A T \in SUBSET Slots : SumOver(metrics[j], T) \in Nat
    BY <1>0, PartOfTotal
  <2>4. \A T \in SUBSET Slots : SumOver(metrics'[j], T) \in Nat
    BY <1>1, SlotFacts, SumFinite
  <2>5. /\ sums[j] <= SumOver(metrics[j], Done(j))
        /\ scan_start[j] <= sums[j] + SumOver(metrics[j], Slots \ Done(j))
        /\ scan_start[j] <= SumOver(metrics[j], Slots)
        /\ prev[j] <= SumOver(metrics[j], Slots)
        /\ reporter_pc \in {"totals", "report"} => prev[j] <= scan_start[j]
    BY DEF IInv, ScanInv, Total
  <2> QED
    BY <1>1, <2>1, <2>2, <2>3, <2>4, <2>5
<1> QED
  BY <1>3, <1>5, <1>6 DEF IInv

(***************************************************************************)
(* The steps of the reporter.                                              *)
(***************************************************************************)

\* Before the first load no slot is behind the scan.
LEMMA NothingDone ==
    ASSUME load = FirstLoad, NEW k \in Kinds
    PROVE  Done(k) = {} /\ SumOver(metrics[k], Done(k)) = 0 /\ Slots \ Done(k) = Slots
<1>1. Done(k) = {}
  BY SlotFacts DEF Done, FirstLoad, Slots
<1> QED
  BY <1>1, SumOfZeros

\* Behind the last load every slot is.
LEMMA AllDone ==
    ASSUME load.array = 4, NEW k \in Kinds
    PROVE  Done(k) = Slots
<1>1. \E a \in 1..3 : Counters[a] = k
  BY DEF Kinds
<1> QED
  BY <1>1 DEF Done

\* A scan begins at the totals of the moment.
LEMMA WakeStep == ASSUME IInv, Wake PROVE IInv'
<1> USE DEF IInv
<1>1. Shape /\ PlaceInv /\ ScanInv
  OBVIOUS
<1>2. reporter_pc = "sleep" /\ load = FirstLoad /\ sums = Zeros
  BY DEF Wake, PlaceInv
<1>3. /\ UNCHANGED <<metrics, watch, load, sums, prev, drop_bps, logged>>
      /\ reporter_pc' = "totals" /\ scan_start' = [k \in Kinds |-> Total(k)]
  BY DEF Wake
<1>4. ASSUME NEW k \in Kinds
      PROVE  /\ Total(k) \in Nat /\ sums[k] = 0
             /\ Done(k) = {} /\ SumOver(metrics[k], Done(k)) = 0
             /\ SumOver(metrics[k], Slots \ Done(k)) = Total(k)
             /\ prev[k] <= Total(k)
  BY <1>1, <1>2, NothingDone, PartOfTotal DEF Zeros, Total, ScanInv
<1>5. Shape' /\ PlaceInv'
  <2>1. scan_start' \in [Kinds -> Nat]
    BY <1>3, <1>4
  <2>2. Shape'
    BY <1>1, <1>3, <2>1 DEF Shape
  <2>3. load'.array = 1
    BY <1>2, <1>3 DEF FirstLoad
  <2>4. PlaceInv'
    BY <1>3, <2>3 DEF PlaceInv
  <2> QED
    BY <2>2, <2>4
<1>6. ScanInv'
  <2> SUFFICES ASSUME NEW k \in Kinds
               PROVE  /\ sums[k] <= SumOver(metrics[k], Done(k))
                      /\ Total(k) <= sums[k] + SumOver(metrics[k], Slots \ Done(k))
                      /\ Total(k) <= Total(k)
                      /\ prev[k] <= Total(k)
    BY <1>3 DEF ScanInv, Total, Done
  <2> QED
    BY <1>4
<1>7. AllCounted' <= MaxCount /\ DeltasAddUp' /\ DropRateBounded'
  BY <1>3 DEF AllCounted, Total, DeltasAddUp, DropRateBounded
<1> QED
  BY <1>5, <1>6, <1>7

\* One load moves one slot from before the scan to behind it.
LEMMA LoadMovesSlot ==
    ASSUME Shape, load.array \in 1..3, Load
    PROVE  /\ load' \in [array : 1..4, slot : Slots]
           /\ \A k \in Kinds :
                 IF k = Counters[load.array]
                 THEN load.slot \notin Done(k) /\ Done(k)' = Done(k) \cup {load.slot}
                 ELSE Done(k)' = Done(k)
<1>1. /\ load \in [array : 1..4, slot : Slots]
      /\ load' = IF load.slot < NCPU_MAX - 1
                 THEN [load EXCEPT !.slot = @ + 1]
                 ELSE [array |-> load.array + 1, slot |-> 0]
  BY DEF Shape, Load, LastSlot
<1>2. PICK s \in Slots : s = load.slot
  BY <1>1
<1>3. PICK n \in 1..3 : n = load.array
  OBVIOUS
<1>4. /\ s < NCPU_MAX - 1 => load'.array = n /\ load'.slot = s + 1
                            /\ load' \in [array : 1..4, slot : Slots]
      /\ ~(s < NCPU_MAX - 1) => load'.array = n + 1 /\ load'.slot = 0
                            /\ load' \in [array : 1..4, slot : Slots]
  BY <1>1, <1>2, <1>3, MetricsAssumption DEF Slots
<1>5. ASSUME NEW a \in 1..3, NEW c \in Slots
      PROVE  a < load'.array \/ (a = load'.array /\ c < load'.slot)
             <=> \/ a < n \/ (a = n /\ c < s)
                 \/ a = n /\ c = s
  BY <1>4, MetricsAssumption DEF Slots
<1>6. ASSUME NEW k \in Kinds
      PROVE  /\ k = Counters[n] =>
                    s \notin Done(k) /\ Done(k)' = Done(k) \cup {s}
             /\ k # Counters[n] => Done(k)' = Done(k)
  <2>1. PICK m \in 1..3 : Counters[m] = k
    BY DEF Kinds
  <2>2. Done(k) = {c \in Slots : m < n \/ (m = n /\ c < s)}
    BY <1>2, <1>3, <2>1, KindFacts DEF Done
  <2>3. Done(k)' = {c \in Slots : m < n \/ (m = n /\ c < s) \/ (m = n /\ c = s)}
    BY <1>5, <2>1, KindFacts DEF Done
  <2>4. k = Counters[n] <=> m = n
    BY <2>1, KindFacts
  <2>5. s \in Nat /\ m \in Nat /\ n \in Nat
    BY SlotFacts
  <2> QED
    BY <2>2, <2>3, <2>4, <2>5
<1> QED
  BY <1>2, <1>3, <1>4, <1>6

\* One load keeps the total the scan will come to between its bounds.
LEMMA LoadStep == ASSUME IInv, Load PROVE IInv'
<1>1. /\ Shape /\ PlaceInv /\ ScanInv /\ reporter_pc = "totals"
      /\ load.array \in 1..3 /\ load.slot \in Slots
  BY DEF IInv, Load, PlaceInv, Shape
<1> DEFINE n == Counters[load.array]
           s == load.slot
<1>2. /\ n \in Kinds
      /\ UNCHANGED <<metrics, watch, prev, drop_bps, logged, scan_start>>
      /\ sums' = [sums EXCEPT ![n] = @ + metrics[n][s]]
      /\ reporter_pc' = IF load'.array > 3 THEN "report" ELSE "totals"
  BY <1>1, KindFacts DEF Load
<1>3. /\ load' \in [array : 1..4, slot : Slots]
      /\ \A k \in Kinds :
            IF k = n THEN s \notin Done(k) /\ Done(k)' = Done(k) \cup {s}
                     ELSE Done(k)' = Done(k)
  BY <1>1, LoadMovesSlot
<1>4. metrics[n][s] \in Nat /\ sums \in [Kinds -> Nat]
  BY <1>1, <1>2 DEF Shape
<1> HIDE DEF n, s
<1>5. Shape' /\ PlaceInv'
  <2>1. sums' \in [Kinds -> Nat]
    BY <1>2, <1>4
  <2>2. load'.array \in 1..4
    BY <1>3
  <2> QED
    BY <1>1, <1>2, <1>3, <2>1, <2>2 DEF Shape, PlaceInv
<1>6. AllCounted' <= MaxCount /\ DeltasAddUp' /\ DropRateBounded'
  BY <1>2 DEF IInv, AllCounted, Total, DeltasAddUp, DropRateBounded
<1>7. ScanInv'
  <2> SUFFICES ASSUME NEW k \in Kinds
               PROVE  /\ sums'[k] <= SumOver(metrics[k], Done(k)')
                      /\ scan_start[k] <= sums'[k] + SumOver(metrics[k], Slots \ Done(k)')
                      /\ scan_start[k] <= Total(k)
                      /\ prev[k] <= Total(k)
                      /\ prev[k] <= scan_start[k]
    BY <1>2 DEF ScanInv, Total
  <2> DEFINE D == Done(k)
             m == metrics[k]
  <2>1. /\ sums[k] <= SumOver(m, D)
        /\ scan_start[k] <= sums[k] + SumOver(m, Slots \ D)
        /\ scan_start[k] <= Total(k)
        /\ prev[k] <= Total(k)
        /\ prev[k] <= scan_start[k]
    BY <1>1 DEF ScanInv
  <2>2. CASE k # n
    BY <1>2, <1>3, <1>4, <2>1, <2>2
  <2>3. CASE k = n
    <3> DEFINE R == Slots \ (D \cup {s})
    <3>1. /\ s \notin D /\ Done(k)' = D \cup {s} /\ sums'[k] = sums[k] + m[s]
          /\ s \in Slots
      BY <1>1, <1>2, <1>3, <1>4, <2>3 DEF s
    <3>2. D \in SUBSET Slots /\ R \in SUBSET Slots /\ Slots \ D \in SUBSET Slots
      BY DEF Done
    <3>3. s \notin R /\ R \cup {s} = Slots \ D
      BY <3>1, <3>2
    <3>4. \A c \in Slots : m[c] \in Nat
      BY <1>1 DEF Shape
    <3>5. IsFiniteSet(D) /\ IsFiniteSet(R)
      BY <3>2, SlotFacts
    <3>6. SumOver(m, D) \in Nat /\ SumOver(m, R) \in Nat /\ m[s] \in Nat
          /\ sums[k] \in Nat /\ scan_start[k] \in Nat
      BY <1>1, <3>1, <3>2, <3>4, <3>5, SumFinite DEF Shape
    <3> HIDE DEF D, m, R
    <3>7. SumOver(m, D \cup {s}) = SumOver(m, D) + m[s]
      BY <3>1, <3>2, <3>4, <3>5, SumAddSlot
    <3>8. SumOver(m, Slots \ D) = SumOver(m, R) + m[s]
      <4>1. \A d \in R \cup {s} : m[d] \in Nat
        BY <3>1, <3>2, <3>4
      <4>2. SumOver(m, R \cup {s}) = SumOver(m, R) + m[s]
        BY <3>3, <3>5, <4>1, SumAddSlot
      <4> QED
        BY <3>3, <4>2
    <3>9. /\ sums[k] + m[s] <= SumOver(m, D \cup {s})
          /\ scan_start[k] <= (sums[k] + m[s]) + SumOver(m, R)
      BY <2>1, <3>6, <3>7, <3>8
    <3> QED
      BY <2>1, <3>1, <3>9 DEF D, m, R
  <2> QED
    BY <2>2, <2>3
<1> QED
  BY <1>5, <1>6, <1>7 DEF IInv

\* What a scan returns, and why saturating_sub never saturates.
LEMMA ScanResult ==
    ASSUME IInv, reporter_pc = "report", NEW k \in Kinds
    PROVE  /\ sums[k] \in Nat /\ prev[k] \in Nat
           /\ prev[k] <= scan_start[k] /\ scan_start[k] <= sums[k]
           /\ prev[k] <= sums[k] /\ sums[k] <= Total(k)
<1>1. Shape /\ ScanInv /\ load.array = 4
  BY DEF IInv, PlaceInv
<1>2. Done(k) = Slots /\ Slots \ Done(k) = {}
  BY <1>1, AllDone
<1>3. SumOver(metrics[k], {}) = 0
  BY SumOfZeros
<1>4. /\ sums[k] <= SumOver(metrics[k], Done(k))
      /\ scan_start[k] <= sums[k] + SumOver(metrics[k], Slots \ Done(k))
      /\ prev[k] <= scan_start[k]
  BY <1>1 DEF ScanInv
<1>5. sums[k] \in Nat /\ prev[k] \in Nat /\ scan_start[k] \in Nat
  BY <1>1 DEF Shape
<1>6. scan_start[k] <= sums[k] + 0
  BY <1>2, <1>3, <1>4
<1> QED
  BY <1>2, <1>4, <1>5, <1>6 DEF Total

\* The METRICS line keeps the books: the deltas logged add up to what was read.
LEMMA ReportStep == ASSUME IInv, Report PROVE IInv'
<1>1. Shape /\ ScanInv /\ logged = prev /\ reporter_pc = "report"
  BY DEF IInv, DeltasAddUp, Report
<1>2. /\ drop_bps' = drop_rate_bps(Delta("frames_ok"), Delta("frames_dropped"))
      /\ logged' = [k \in Kinds |-> logged[k] + Delta(k)]
      /\ prev' = sums /\ reporter_pc' = "sleep" /\ load' = FirstLoad
      /\ sums' = Zeros /\ scan_start' = Zeros /\ UNCHANGED <<metrics, watch>>
  BY DEF Report, EndScan, TotalsRead
<1>3. ASSUME NEW k \in Kinds
      PROVE  /\ sums[k] \in Nat /\ prev[k] \in Nat /\ prev[k] <= sums[k]
             /\ sums[k] <= Total(k)
             /\ Delta(k) \in Nat /\ prev[k] + Delta(k) = sums[k]
  <2>1. /\ sums[k] \in Nat /\ prev[k] \in Nat /\ prev[k] <= sums[k]
        /\ sums[k] <= Total(k)
    BY <1>1, ScanResult
  <2>2. Delta(k) = IF sums[k] > prev[k] THEN sums[k] - prev[k] ELSE 0
    BY DEF Delta, saturating_sub
  <2> QED
    BY <2>1, <2>2
<1>4. logged' = prev'
  BY <1>1, <1>2, <1>3 DEF Shape
<1>5. drop_bps' \in 0..U64_MAX /\ drop_bps' <= 10000
  BY <1>2, <1>3, KindFacts, RateFacts
<1>6. Zeros \in [Kinds -> Nat] /\ FirstLoad \in [array : 1..4, slot : Slots]
  BY SlotFacts DEF Zeros, FirstLoad
<1>7. Shape' /\ PlaceInv'
  BY <1>1, <1>2, <1>4, <1>5, <1>6 DEF Shape, PlaceInv
<1>8. ScanInv'
  <2> SUFFICES ASSUME NEW k \in Kinds
               PROVE  /\ Zeros[k] <= SumOver(metrics'[k], Done(k)')
                      /\ Zeros[k] <= Zeros[k] + SumOver(metrics'[k], Slots \ Done(k)')
                      /\ Zeros[k] <= SumOver(metrics'[k], Slots)
                      /\ sums[k] <= SumOver(metrics'[k], Slots)
    BY <1>2 DEF ScanInv, Total
  <2>1. Done(k)' \in SUBSET Slots /\ Slots \ Done(k)' \in SUBSET Slots
        /\ Slots \in SUBSET Slots
    BY DEF Done
  <2>2. \A T \in SUBSET Slots : SumOver(metrics[k], T) \in Nat
    BY <1>1, PartOfTotal
  <2>3. Zeros[k] = 0 /\ metrics' = metrics
    BY <1>2 DEF Zeros
  <2>4. sums[k] <= SumOver(metrics[k], Slots)
    BY <1>3 DEF Total
  <2> QED
    BY <2>1, <2>2, <2>3, <2>4
<1>9. AllCounted' <= MaxCount /\ DeltasAddUp' /\ DropRateBounded'
  BY <1>2, <1>4, <1>5 DEF IInv, AllCounted, Total, DeltasAddUp, DropRateBounded
<1> QED
  BY <1>7, <1>8, <1>9 DEF IInv

(***************************************************************************)
(* The theorems.                                                           *)
(***************************************************************************)

\* Every counter and every sum is zero.
LEMMA IInvInit == Init => IInv
<1> SUFFICES ASSUME Init PROVE IInv
  OBVIOUS
<1>1. ASSUME NEW k \in Kinds, NEW T \in SUBSET Slots
      PROVE  SumOver(metrics[k], T) = 0
  BY SumOfZeros DEF Init
<1>2. Shape /\ PlaceInv /\ DeltasAddUp /\ DropRateBounded
  <2>1. Zeros \in [Kinds -> Nat] /\ FirstLoad \in [array : 1..4, slot : Slots]
    BY SlotFacts DEF Zeros, FirstLoad
  <2>2. metrics \in [Kinds -> [Slots -> Nat]]
    BY DEF Init
  <2>3. 0 \in 0..U64_MAX /\ 0 <= 10000
    BY MetricsAssumption
  <2>4. watch \in BOOLEAN
    BY DEF Init
  <2>5. Shape
    BY <2>1, <2>2, <2>3, <2>4 DEF Init, Shape
  <2>6. PlaceInv /\ DeltasAddUp /\ DropRateBounded
    BY <2>3 DEF Init, PlaceInv, DeltasAddUp, DropRateBounded
  <2> QED
    BY <2>5, <2>6
<1>3. ScanInv
  <2> SUFFICES ASSUME NEW k \in Kinds
               PROVE  /\ 0 <= SumOver(metrics[k], Done(k))
                      /\ 0 <= 0 + SumOver(metrics[k], Slots \ Done(k))
                      /\ 0 <= SumOver(metrics[k], Slots)
    BY DEF ScanInv, Total, Init, Zeros
  <2>1. Done(k) \in SUBSET Slots /\ Slots \ Done(k) \in SUBSET Slots
        /\ Slots \in SUBSET Slots
    BY DEF Done
  <2> QED
    BY <1>1, <2>1
<1>4. AllCounted = 0
  BY <1>1, KindFacts DEF AllCounted, Total
<1> QED
  BY <1>2, <1>3, <1>4, MetricsAssumption DEF IInv

\* Every step keeps the invariant.
LEMMA IInvStep == IInv /\ [Next]_vars => IInv'
<1> SUFFICES ASSUME IInv, [Next]_vars PROVE IInv'
  OBVIOUS
<1>1. CASE \E k \in Kinds, c \in CpuIds : Record(k, c)
  BY <1>1, RecordStep
<1>2. CASE Wake
  BY <1>2, WakeStep
<1>3. CASE Load
  BY <1>3, LoadStep
<1>4. CASE Report
  BY <1>4, ReportStep
<1>5. CASE Exit \/ RequestStop \/ UNCHANGED vars
  <2>0. watch' = watch \/ watch' = TRUE
    BY <1>5 DEF Exit, RequestStop, vars
  <2>1. /\ UNCHANGED <<metrics, load, sums, prev, drop_bps, logged, scan_start>>
        /\ \/ reporter_pc' = reporter_pc
           \/ reporter_pc = "sleep" /\ reporter_pc' = "exited"
    <3>1. CASE Exit
      BY <3>1 DEF Exit
    <3>2. CASE RequestStop
      BY <3>2 DEF RequestStop
    <3>3. CASE UNCHANGED vars
      BY <3>3 DEF vars
    <3> QED
      BY <1>5, <3>1, <3>2, <3>3
  <2>2. Shape' /\ PlaceInv'
    <3>1. watch' \in BOOLEAN
      BY <2>0, Zenon DEF IInv, Shape
    <3> QED
      BY <2>1, <3>1 DEF IInv, Shape, PlaceInv
  <2>3. ScanInv'
    BY <2>1 DEF IInv, ScanInv, Total, Done
  <2>4. AllCounted' <= MaxCount /\ DeltasAddUp' /\ DropRateBounded'
    BY <2>1 DEF IInv, AllCounted, Total, DeltasAddUp, DropRateBounded
  <2> QED
    BY <2>2, <2>3, <2>4 DEF IInv
<1> QED
  BY <1>1, <1>2, <1>3, <1>4, <1>5 DEF Next, ReporterStep

\* The inductive invariant holds throughout every behaviour.
LEMMA IInvAlways == Spec => []IInv
BY IInvInit, IInvStep, PTL DEF Spec

\* No counter, no sum of totals() and no delta of the reporter leaves the u64.
THEOREM TypeCorrect == Spec => []TypeOK
<1>1. ASSUME IInv PROVE TypeOK
  <2>1. Shape /\ ScanInv /\ logged = prev /\ AllCounted <= MaxCount
    BY <1>1 DEF IInv, DeltasAddUp
  <2>2. ASSUME NEW k \in Kinds
        PROVE  Total(k) \in Nat /\ Total(k) <= MaxCount
    <3>1. \A j \in Kinds : Total(j) \in Nat
      BY <2>1, PartOfTotal
    <3> QED
      BY <2>1, <3>1, KindFacts, MetricsAssumption DEF AllCounted
  <2>3. ASSUME NEW k \in Kinds, NEW c \in Slots
        PROVE  metrics[k][c] \in 0..MaxCount
    <3>1. \A d \in Slots : metrics[k][d] \in Nat
      BY <2>1 DEF Shape
    <3>2. metrics[k][c] <= Total(k)
      BY <3>1, SlotFacts, SlotAtMostSum DEF Total
    <3> QED
      BY <2>2, <3>1, <3>2, MetricsAssumption
  <2>4. ASSUME NEW k \in Kinds
        PROVE  /\ sums[k] \in 0..U64_MAX /\ prev[k] \in 0..U64_MAX
               /\ scan_start[k] \in 0..U64_MAX
    <3>1. Done(k) \in SUBSET Slots
      BY DEF Done
    <3>2. /\ SumOver(metrics[k], Done(k)) \in Nat
          /\ SumOver(metrics[k], Done(k)) <= Total(k)
      BY <2>1, <3>1, PartOfTotal
    <3>3. /\ sums[k] <= SumOver(metrics[k], Done(k))
          /\ prev[k] <= Total(k) /\ scan_start[k] <= Total(k)
      BY <2>1 DEF ScanInv
    <3>4. sums[k] \in Nat /\ prev[k] \in Nat /\ scan_start[k] \in Nat
      BY <2>1 DEF Shape
    <3> QED
      BY <2>2, <3>2, <3>3, <3>4, MetricsAssumption
  <2>5. metrics \in [Kinds -> [Slots -> 0..MaxCount]]
    BY <2>1, <2>3 DEF Shape
  <2>6. /\ sums \in [Kinds -> 0..U64_MAX] /\ prev \in [Kinds -> 0..U64_MAX]
        /\ logged \in [Kinds -> 0..U64_MAX]
        /\ scan_start \in [Kinds -> 0..U64_MAX]
    BY <2>1, <2>4 DEF Shape
  <2> QED
    BY <2>1, <2>5, <2>6 DEF Shape, TypeOK
<1> QED
  BY <1>1, IInvAlways, PTL

\* Whatever the workers count while totals() reads, what it returns lies
\* between the true total at its first load and the true total at its last.
THEOREM SnapshotBoundedHolds == Spec => []SnapshotBounded
<1>1. IInv => SnapshotBounded
  BY ScanResult DEF SnapshotBounded
<1> QED
  BY <1>1, IInvAlways, PTL

\* The deltas of the METRICS lines add up to the last totals read: successive
\* scans never go back, so saturating_sub hides nothing.
THEOREM DeltasAddUpHolds == Spec => []DeltasAddUp
<1>1. IInv => DeltasAddUp
  BY DEF IInv
<1> QED
  BY <1>1, IInvAlways, PTL

\* drop_rate_bps never logs more than 100.00%, saturated or not.
THEOREM DropRateBoundedHolds == Spec => []DropRateBounded
<1>1. IInv => DropRateBounded
  BY DEF IInv
<1> QED
  BY <1>1, IInvAlways, PTL
=============================================================================

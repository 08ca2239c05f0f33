------------------------------ MODULE Metrics -------------------------------
(***************************************************************************)
(* sg-capture/src/metrics.rs: the per-CPU counters, and the reporter       *)
(* thread that once a second adds them up and logs how far they moved.     *)
(*                                                                         *)
(* A worker adds to its own slot and nobody locks anything: one step is    *)
(* one fetch_add or one load, and a scan of the reporter may meet          *)
(* increments between any two of its loads.                                *)
(***************************************************************************)
EXTENDS Naturals, Tally

CONSTANTS
    NCPU_MAX,    \* slots of each counter
    CpuIds,      \* workers that count
    U64_MAX,     \* the largest u64
    MaxCount     \* bound on the increments of all the counters

Slots == 0..(NCPU_MAX - 1)

\* The three arrays, in the order in which totals() reads them.
Counters == <<"frames_ok", "frames_dropped", "channel_full">>
Kinds == {Counters[i] : i \in 1..3}

ASSUME MetricsAssumption ==
    /\ NCPU_MAX \in Nat \ {0}
    /\ CpuIds \subseteq Slots
    /\ MaxCount \in Nat
    /\ U64_MAX \in Nat /\ U64_MAX >= MaxCount

VARIABLES
    metrics,       \* per kind and slot: an AtomicU64
    watch,         \* value of the shutdown watch channel
    reporter_pc,   \* "sleep", "totals", "report" or "exited"
    load,          \* the load totals() makes next: [array, slot]
    sums,          \* per kind: what totals() has added up so far
    prev,          \* per kind: prev_ok and prev_drop
    drop_bps,      \* the last drop rate logged
    \* History variables: nothing in the program reads or stores them.
    logged,        \* per kind: the sum of the deltas logged so far
    scan_start     \* per kind: the true total when the scan began

vars == <<metrics, watch, reporter_pc, load, sums, prev, drop_bps,
          logged, scan_start>>

Zeros == [k \in Kinds |-> 0]
FirstLoad == [array |-> 1, slot |-> 0]

Total(k) == SumOver(metrics[k], Slots)
AllCounted == Total("frames_ok") + Total("frames_dropped") + Total("channel_full")

Init ==
    /\ metrics = [k \in Kinds |-> [c \in Slots |-> 0]]
    /\ watch = FALSE
    /\ reporter_pc = "sleep"
    /\ load = FirstLoad
    /\ sums = Zeros
    /\ prev = Zeros
    /\ drop_bps = 0
    /\ logged = Zeros
    /\ scan_start = Zeros

-----------------------------------------------------------------------------
(* Integer arithmetic of the reporter.                                     *)

Saturated(n) == IF n <= U64_MAX THEN n ELSE U64_MAX
saturating_sub(a, b) == IF a > b THEN a - b ELSE 0

\* Mutant: drops per frame that got through, not per frame.
DropRatePerOk(ok, drop) ==
    IF ok = 0 THEN 0 ELSE Saturated(drop * 10000) \div ok

drop_rate_bps(ok, drop) ==
    LET total == Saturated(ok + drop)
    IN  IF total = 0 THEN 0 ELSE Saturated(drop * 10000) \div total

-----------------------------------------------------------------------------
(* record_ok, record_drop and record_channel_full.                         *)

Record(k, cpu_id) ==
    /\ cpu_id < NCPU_MAX
    /\ AllCounted < MaxCount
    /\ metrics' = [metrics EXCEPT ![k][cpu_id] = @ + 1]
    /\ UNCHANGED <<watch, reporter_pc, load, sums, prev, drop_bps, logged,
                   scan_start>>

-----------------------------------------------------------------------------
(* The reporter.                                                           *)

\* Mutant: the reporter waits for the channel to be closed.
StopUnseen == FALSE
StopSeen == watch

\* The second is over and the watch value is FALSE: totals() begins.
Wake ==
    /\ reporter_pc = "sleep"
    /\ ~StopSeen
    /\ reporter_pc' = "totals"
    /\ scan_start' = [k \in Kinds |-> Total(k)]
    /\ UNCHANGED <<metrics, watch, load, sums, prev, drop_bps, logged>>

\* ... or TRUE: the last interval is not reported.
Exit ==
    /\ reporter_pc = "sleep"
    /\ StopSeen
    /\ reporter_pc' = "exited"
    /\ UNCHANGED <<metrics, watch, load, sums, prev, drop_bps, logged,
                   scan_start>>

\* Mutant: the iteration over an array ends before its last slot.
LastSlotEarly == NCPU_MAX - 2
\* Mutant: ... or runs past it.
LastSlotLate == NCPU_MAX
LastSlot == NCPU_MAX - 1

\* One Relaxed load of totals(), slot after slot and array after array.
Load ==
    LET k == Counters[load.array]
    IN  /\ reporter_pc = "totals"
        /\ sums' = [sums EXCEPT ![k] = @ + metrics[k][load.slot]]
        /\ load' = IF load.slot < LastSlot
                   THEN [load EXCEPT !.slot = @ + 1]
                   ELSE [array |-> load.array + 1, slot |-> 0]
        /\ reporter_pc' = IF load'.array > 3 THEN "report" ELSE "totals"
        /\ UNCHANGED <<metrics, watch, prev, drop_bps, logged, scan_start>>

\* The locals of the iteration go out of scope.
EndScan ==
    /\ reporter_pc' = "sleep"
    /\ load' = FirstLoad
    /\ sums' = Zeros
    /\ scan_start' = Zeros
    /\ UNCHANGED <<metrics, watch>>

Delta(k) == saturating_sub(sums[k], prev[k])

\* Mutant: the next interval begins from a second reading of the counters.
RereadTotals == [k \in Kinds |-> Total(k)]
TotalsRead == sums

\* The METRICS line.  channel_full is logged as a total: the delta kept for
\* it here is history only.
Report ==
    /\ reporter_pc = "report"
    /\ drop_bps' = drop_rate_bps(Delta("frames_ok"), Delta("frames_dropped"))
    /\ logged' = [k \in Kinds |-> logged[k] + Delta(k)]
    /\ prev' = TotalsRead
    /\ EndScan

ReporterStep == Wake \/ Exit \/ Load \/ Report

\* main: shutdown_tx.send(true).
RequestStop ==
    /\ ~watch
    /\ watch' = TRUE
    /\ UNCHANGED <<metrics, reporter_pc, load, sums, prev, drop_bps, logged,
                   scan_start>>

Next ==
    \/ \E k \in Kinds, c \in CpuIds : Record(k, c)
    \/ ReporterStep
    \/ RequestStop

Spec == Init /\ [][Next]_vars

\* The reporter's second passes and its thread is scheduled.
FairSpec == Spec /\ WF_vars(ReporterStep)

-----------------------------------------------------------------------------
(* Safety.                                                                 *)

\* Every variable has its type; no sum leaves the u64.
TypeOK ==
    /\ metrics \in [Kinds -> [Slots -> 0..MaxCount]]
    /\ watch \in BOOLEAN
    /\ reporter_pc \in {"sleep", "totals", "report", "exited"}
    /\ load \in [array : 1..4, slot : Slots]
    /\ {sums, prev, logged, scan_start} \subseteq [Kinds -> 0..U64_MAX]
    /\ drop_bps \in 0..U64_MAX

\* A total that totals() returns lies between the true total when the scan
\* began and the true total now, although the scan never existed as one
\* moment: no slot is skipped, none is added twice.
SnapshotBounded ==
    reporter_pc = "report" =>
        \A k \in Kinds : scan_start[k] <= sums[k] /\ sums[k] <= Total(k)

\* The deltas logged add up to the last totals read: a scan never returns less
\* than the scan before it, so saturating_sub has nothing to hide.
DeltasAddUp == logged = prev

\* The logged drop rate is at most 10_000 basis points, that is 100.00%, also
\* when the numerator of drop_rate_bps saturates.
DropRateBounded == drop_bps <= 10000

-----------------------------------------------------------------------------
(* Liveness, under FairSpec.                                               *)

\* Every frame that is counted reaches a METRICS line, unless the reporter is
\* told to stop first.
EveryFrameIsReported ==
    \A k \in Kinds : \A n \in 1..MaxCount :
        (Total(k) >= n) ~> (logged[k] >= n \/ watch)

\* The watch value ends the reporter.
ReporterStops == watch ~> (reporter_pc = "exited")
=============================================================================

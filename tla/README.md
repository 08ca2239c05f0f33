# Shiva capture path: a TLA+ verification project

The repository is the capture plane of Shiva: an XDP program (`sg-ebpf`) that
turns TCP and UDP packets into fixed-size `SignalFrame`s and writes them to a
kernel ring buffer, and a userspace process (`sg-capture`) that drains the ring,
validates the frames and passes them to an "arena" over a bounded channel.
`sg-common` holds the layout both sides share. This directory models that path
in TLA+, checks it with TLC on small instances, and proves the safety of its
parts and of their composition for every instance with TLAPS.

## 1. Inventory

| Component | State | Operations | What makes it correct |
|---|---|---|---|
| `proto_view.rs` header parser | none | `inspect` | the view is the packet's 5-tuple and IPv4 header; no byte is read before the length check that covers it |
| `filter.rs` deny list, packet counter, hash | `DENY_MAP`, `PPS_COUNTERS` | `select`, `deny_check`, `murmur3_13` | the counter is charged once per frame and for nothing else; the threshold is exact; the gate reopens; a denied flow only runs out; the hash is MurmurHash3 |
| `sg-ebpf/main.rs` entry point | the frame on the stack | `xdp_ingress` | every exit passes the packet; every field is what its comment says; one CPU's frames stay in order |
| `maps.rs` | `SIGNAL_RING` | `ring_output` | a frame is committed once or refused, never overwritten |
| `signal_frame.rs` | – | layout | the documented content of each field |
| `vacuum.rs` worker | batch, `last_ts_ns` | pin, poll, drain, validate, dispatch, exit | no record unaccounted for; order; prompt stop; no abandoned frame |
| `dispatch.rs` channel | queue, two ends | `try_dispatch` | three outcomes, each counted as the code says; never blocks |
| arena consumer (`main.rs`) | – | `recv` loop | ends after, and only after, the worker |
| `metrics.rs` | per-CPU counters, previous totals | `record_*`, `totals`, `drop_rate_bps`, reporter loop | counts agree with what happened; a scan is bounded by the true totals; deltas add up; every frame is reported; the reporter stops |
| `loader.rs` | the XDP hook | load, attach with fallback, ring handles, detach | what is attached is detached |
| `sg-capture/main.rs` | shutdown flag, watch channel, handles | start-up, signal wait, shutdown sequence | order of teardown; no path hangs, idles or leaves the hook |
| `percpu_ring.rs` | table of rings | never constructed | – |
| `errors.rs`, `map_keys.rs` | constants | no producer, no reader | – |
| `vmlinux.rs` | bindings | generated | – |
| detection stages, active defence | described in `README.md` and `docs/` only | no code | – |

**How the parts interact.** All CPUs run `xdp_ingress` and share the clock,
`DENY_MAP` and the one `SIGNAL_RING`; `PPS_COUNTERS` is per CPU. Userspace
shares nothing with the kernel but the maps. `load_and_attach` hands the ring
to worker 0 (`handles[0] = Some(ring)`), so there is exactly one vacuum worker
whatever `--workers` says, or none if it says 0. The worker owns the sender of a
bounded channel, the consumer thread its receiver. `main` talks to the worker
through one `AtomicBool` and to the reporter through a `watch` channel; it joins
the worker, and neither the consumer nor the reporter.

**What is hard here.** Two CPUs stamp and commit in opposite orders; a ring, a
batch and a channel fill up independently and lose frames in three different
places with three different kinds of accounting; the flag is set in the middle
of a batch; the consumer receives a frame before its sender has counted it;
signals arrive before, between and after the installation of their handlers;
the reporter adds up counters that move under it; each of ten calls of `main` may fail with different things already started.
`PROJECT.json` lists these hazards with the line where each one bites.

## 2. Modules

```
Murmur3, MurmurReference <-- MCProtoView --> Inspection
                                                 v
ProtoView  <------------------------------- WireFormat
    ^                                            ^ (packets)
XdpIngress <-- MCXdpIngress ---------------------+
    ^ Kernel == INSTANCE
Pipeline   <-- MCPipeline              OrderedFeed
    v Worker == INSTANCE                   ^ Feed == INSTANCE (implemented)
Vacuum     <-- MCVacuum  -------------------+
    v Life == INSTANCE (implemented)
WorkerLife
    ^ Life == INSTANCE (used)
Capture    <-- MCCapture
Metrics    <-- MCMetrics
    v
Tally (also used by Pipeline)

Proofs:  Vacuum  <-- VacuumProofs <-- VacuumRefinement <--+ W == INSTANCE
         XdpIngress <-- XdpIngressProofs <----------------+ K == INSTANCE
         Pipeline <------------------------------ PipelineProofs
         Tally <-- TallyProofs <-- PipelineProofs, MetricsProofs --> Metrics
         Capture <-- CaptureProofs
         Inspection <-- InspectionProofs
```

* **Vacuum** – the worker, its channel, its metrics slot and the consumer. One
  step is one access another thread can see: the load of the flag, one ring
  record, one `try_send`, one counter increment. `worker_pc` is the position in
  `vacuum_entry`; `batch` the `ArrayVec`; `drained` the index of the drain loop.
  The kernel is the most general producer: `Commit` appends *any* record, well
  sized or not, with any timestamp. `ArenaExits` (enabled by `ArenaMayExit`) is
  an arena that drops its receiver early, the case the `Disconnected` arm of
  `try_dispatch` is written for. `ProcessEnds` is `main` returning after it has
  joined the worker: it does not wait for the consumer, which then takes no
  further step, whatever is left in the channel. Variables under "history" are
  observations.
* **OrderedFeed** – what the path promises the arena: one queue in which frames
  may be lost, but not invented, duplicated, overtaken, or delivered behind a
  newer one. `Vacuum!ImplementsFeed` maps channel, batch and ring, in that
  order, to its queue.
* **ProtoView** – `inspect` on real byte layouts. **WireFormat** is an
  independent encoder (Ethernet, IPv4 with options, ports), written from the
  wire formats, not from the parser. `IsDescription` is every packet a sender
  can mean: any addresses, ports, ether type and protocol, up to ten words of
  options, any payload, cut at any length. **Inspection** runs the one on what
  the other produced, for a constant set of such packets.
* **Murmur3** – `murmur3_13` and `fmix32` at their real width: a u32 is the
  tuple of its four bytes, and the wrapping operations carry from byte to byte.
  **MurmurReference** is MurmurHash3_x86_32 for keys of any length and any seed,
  on sets of bit positions, with loops instead of unrolled blocks; it shares no
  operator with Murmur3 and its published test vectors are an `ASSUME`.
  `Block` stands for the three unrolled blocks, which differ only in their word.
* **XdpIngress** – one actor per CPU. A packet that is not accepted is one step;
  an accepted one is three: accept (filter, counter, frame), stamp (the clock
  read), output (the ring). Clock, deny-list writes and the ring's reader are
  the environment.
* **Pipeline** – XdpIngress and Vacuum with the one ring in common, each
  without its stand-in for the other (`Commit`, `Consume` are not steps of it).
* **WorkerLife** – worker, channel and consumer with the frames forgotten: two
  phases, a length and the flag. `Vacuum!ImplementsLife` maps `worker_pc` to a
  phase, `rx` to the consumer and `Len(channel)` to `queued`.
* **Capture** – `main` call by call with its error exits, the two attach modes,
  the loop over the ring handles, the hook, signals, and the threads: its
  worker and consumer take the steps of WorkerLife, so what it assumes of them
  is what Vacuum is shown to do.
* **Metrics** – the three arrays of counters, and the reporter load by load.
  `load` is the position of `totals()`, `sums` its partial sums, `prev` the
  `prev_ok` / `prev_drop` of the loop. The workers are the environment: any
  slot of any counter may move between two loads.
* **Tally** – the sum of a counter over its slots, as the number of units
  counted; Metrics and Pipeline state their totals with it.

A definition named as a mutant in its comment is a plausible wrong version of
the definition after it; `PROJECT.json` pairs each property with the mutant that
breaks it. They take no part in any specification.

## 3. Abstractions

* In XdpIngress `Hash(_)` stands for `murmur3_13`: any function of the 5-tuple
  into u32 (Murmur3 has its bits). TLC's integers are 32 bits signed, so `U32` is 2^30 in the runs; nothing depends on
  its value, only on hashes being below it.
* The padding of `SignalFrame` is left out; the ring holds records of a length
  and a frame, so that a truncated record can exist. What bytes a truncated
  record has is irrelevant (it is rejected on its length).
* `bpf_ringbuf_output` reserves, copies and commits; consumers see it only when
  committed, and records in reservation order. It is one atomic step here.
* A record leaves the ring when its item is dropped at the end of the loop
  iteration; it is removed in the step that validates it. The difference is
  visible to the kernel only as a slot freed slightly earlier.
* The flag is loaded with `Relaxed` ordering. There is one flag, and a store
  becomes visible after some delay: read "set" in `StopIsPrompt` as "visible to
  the worker".
* `TIMESTAMP_SLACK_NS` is zero in the code, so `Regressed` is a plain `<`.
* Map lookups that cannot miss (`get_ptr_mut(0)`, a masked deny index) have no
  failing branch, and a `saturating_add` on a counter that stops at the
  threshold is a `+`.
* The reporter's second is the time its step takes to happen. `channel_full` is
  logged as a running total and not as a delta; `logged` keeps a delta for it
  too, as history. The code starts one worker today (slot 0); Metrics lets
  every slot count, as its array layout is made for. `U64_MAX` is 15,000 in the
  run, so that the product in `drop_rate_bps` saturates from two drops on.
* Loads of the metrics counters are of the current value. They are `Relaxed` in
  the code, and `metrics.rs:21` accepts slightly stale reads: the lower bound of
  `SnapshotBounded` holds up to that delay, the upper bound and the monotone
  deltas regardless of it.
* `pps_delta` is what `filter.rs:105` puts there: the value of the CPU's counter
  before this packet, hence the number of frames that CPU has built before, of
  all flows. `PerCpuOrder` and `PerCpuDelivery` use it as the mark by which
  two frames of a CPU are told apart; that its documentation says something else
  is part of the run `xdp_fields`.
* WorkerLife says nothing of fairness: Capture's fairness on `StopWorker` and
  `Consume`, which lasts as long as the process, is what `ShutdownStopsWorker`
  and `ArenaDrains` show of Vacuum.
* Capture: what an unfinished `LoadedProbe` does to the hook when dropped is aya's business: the model follows the
  statement at `loader.rs:81-83` that the hook stays. The drop of aya's own link
  most likely releases it; then the hook is not left behind, and the comment is
  what is wrong. That dropping a Tokio
  runtime waits for blocking tasks that have started and discards the others is
  Tokio's documented behaviour. A panic aborts the process in the release
  profile. Failure of `spawn_blocking` itself to create a thread is left out.

## 4. Runs

| Run | Checks | Instance |
|---|---|---|
| `vacuum` | `TypeOK`, `Accounting`, `SentIsCounted`, `DeliveredInOrder`, `NothingAbandoned`, `StopIsPrompt`, `ImplementsFeed` | batch 2, channel 2, ring 2, 5 records, 3 timestamps and truncated records, arena may exit, process may end; 422,000 states |
| `vacuum_live` | `NoSilentLoss`, `ImplementsLife`, `ShutdownStopsWorker`, `RingIsDrained`, `ArenaDrains` | the consumer of `main.rs`, fair until the process ends; 4 records, channel 1; 26,000 states |
| `proto_view` | `ParsesPacket`, `HashIsMurmur3` | `inspect`, then the hash of what it returns: twelve lengths around every boundary, two ether types, three protocols, 144 flows of edge addresses and ports, zero or one word of options; 43,000 states |
| `xdp` | `TypeOK`, `CounterIsFrames`, `PerCpuOrder`, `DenyOnlyDrains` | 2 CPUs, 4 packets, threshold 2, ring 2, clock 0..2, deny list of 2; 56,000 states |
| `metrics` | `TypeOK`, `SnapshotBounded`, `DeltasAddUp`, `DropRateBounded`, `EveryFrameIsReported`, `ReporterStops` | 2 slots, 3 increments anywhere, any number of scans, fair; 35,000 states |
| `pipeline` | `EndToEndAccounting`, `PerCpuDelivery`, `DropsNeedTwoCpus`, `ImplementsVacuum`, `DenyHoldsToArena` | 2 CPUs, deny list of 1, threshold 2, ring 2, batch 2, channel 1, clock 0..1; 373,000 states |
| `capture` | `TypeOK`, `DetachAfterWorkers`, `NeverIdle`, `SuccessIsClean`, `ConsumerOutlivesWorker`, `SignalEndsProcess` | every call may fail, 0, 1 or too many workers, both signals at any time |

**Why the bounds are enough for what they are asked.** Each buffer reaches its
limit and is refilled after it: a batch of 2 with 5 records has a full batch, a
partial one and an empty one in a run, a channel of 2 (or 1) fills inside a
batch, a ring of 2 refuses frames. Three timestamps are the fewest with a
regression that is not the minimum; one tick of the clock is enough for two CPUs
to stamp differently. A threshold of 2 has a frame below it, one at it and
packets beyond it, on each of two CPUs. `WorkerCounts` has zero, one, and one
above `NCPU`. Three increments can fall before, between and after the loads of
one scan and of the next, on both slots. The named bounds are `MaxProduced`
(records committed in a behaviour), `MaxCount` (increments), `MaxClock` and
`Timestamps`; all others are capacities the code has
too, only larger. For every safety property but `HashIsMurmur3` the proofs of
section 5 remove the bounds: each of these constants is there an arbitrary
number, and the packets of Inspection are an arbitrary set of descriptions.

Deadlock is not checked where the system may really stop: a worker that has
exited with no more records to come, a process that is gone, a finished parse.

**Fairness.** Vacuum, Capture and Metrics: every runnable thread is eventually
scheduled (`WF` on the worker, on the consumer, on `main`, on the reporter). The
worker never blocks, which is the point of `try_dispatch`; the consumer blocks
only in `recv` on an empty channel, when its action is disabled. That holds of a
living process only: once `main` has joined the worker, `ProcessEnds` may cut the
consumer off at any step (it has no fairness of its own, since what `main` still
does is not part of Vacuum). `ArenaDrains` therefore says that the worker's end
leads to an empty channel and a consumer that has ended, or to the end of the
process, and the second does happen with frames queued (`Capture.ExitProcess`).
Nobody joins the reporter either: `ReporterStops` is about its loop, and
at a shutdown the process normally ends before the reporter's second is over.
The kernel, the operator and signals get no fairness. XdpIngress: an XDP invocation runs to
completion, time passes and the ring is read; for `GateReopens` only, packets
that could be accepted keep arriving (`SF` on `Accept`).

### Where the code and its comments disagree

Each of these is a run that must fail; the counterexample is the evidence.

* `pipeline_regression` / `OnlyClockAnomaliesDropped`. CPU A stamps, CPU B
  stamps later and outputs first; A's frame is then older than `last_ts_ns` and
  is dropped as a clock regression. `vacuum.rs:48` speaks of frames "from the
  *same* CPU", but the worker keeps one `last_ts_ns` for the ring of all CPUs.
  `PerCpuOrder` shows that one CPU's frames never regress in the ring: a check
  per CPU would have dropped nothing here. `DropsNeedTwoCpus` is the other side
  of it, and is proved: with one busy CPU the check as written drops nothing.
* `xdp_gate` / `GateReopens`. The "PPS rate limit" counts packets since the map
  was created: nothing resets `PPS_COUNTERS`, so a CPU that has emitted
  `MAXPPS_THRESHOLD` frames emits no other.
* `xdp_fields` / `FieldsAsDocumented`, for two fields of `SignalFrame`: the
  property is the disjunction of what is documented of each, so that the state
  that violates it refutes both. `L4FlagsCarryProtocol`: `l4_flags` is the upper
  half of a hash that has only a lower half, hence always 0, never the documented
  protocol and flags. `DeltaSinceLastFrame`: `signal_frame.rs:33` documents
  `pps_delta` as "delta since last SignalFrame for this flow"; the code puts the
  CPU's counter there, which all its flows share and nothing resets, so that of
  three frames in a row the last one carries 2.
* `capture_hook` / `HookReleased`. Errors after `attach` (ring map, consumer
  thread, signal handlers) return without `detach`, which the bail-out for "no
  workers" takes care to call. That the code returns so is certain; that the hook
  then stays rests on the comment at `loader.rs:81-83` (see section 3).
* `capture_hang` / `ReturnEndsProcess`. If a signal handler cannot be
  installed, `main` returns with the worker running and the flag clear; the
  drop of the runtime then waits for the worker for ever.

Read in the code, without a run of their own: the consumer thread is to "drain
until the sender (vacuum worker) hangs up on shutdown" (`main.rs:153`), but
nobody joins it, so frames counted as ok can be queued when the process ends
(`ArenaDrains` has the end of the process as its other outcome; the consumer of
today discards its frames anyway); ports are read at fixed offsets, so in a
packet with IPv4 options they are option bytes (`ParsesPacket` claims them only without options); the
last, unfinished interval is never reported, because the watch value is tested
before the scan; the reporter's loop tests the value of the watch channel and not
its closure (`metrics.rs:114` says it stops when the sender is dropped); worker
0 receives the frames of every CPU and never reads `cpu_id` (`maps.rs:9` says it
routes by it); a frame refused by a full ring is counted nowhere
(`main.rs:136` of `sg-ebpf` says the metrics detect it).

## 5. Proofs

Twenty-nine theorems, in seven modules; `TallyProofs` holds only lemmas. Each
theorem but `ReadsOnlyWindow` states a property that a run checks, and each
inductive invariant was checked with TLC as well, on the instances of the runs.

| Module | Theorem | Statement |
|---|---|---|
| `VacuumProofs` | `TypeCorrect` | `Spec => []TypeOK` |
| | `AccountingHolds` | `Spec => []Accounting` |
| | `SentIsCountedHolds` | `Spec => []SentIsCounted` |
| | `DeliveredInOrderHolds` | `Spec => []DeliveredInOrder` |
| | `NothingAbandonedHolds` | `Spec => []NothingAbandoned` |
| | `StopIsPromptHolds` | `Spec => []StopIsPrompt` |
| | `NoSilentLossHolds` | `Spec => []NoSilentLoss` |
| `VacuumRefinement` | `FeedImplemented` | `Spec => ImplementsFeed` |
| | `LifeImplemented` | `~ArenaMayExit` implies `Spec => ImplementsLife` |
| `XdpIngressProofs` | `TypeCorrect` | `Spec => []TypeOK` |
| | `CounterIsFramesHolds` | `Spec => []CounterIsFrames` |
| | `PerCpuOrderHolds` | `Spec => []PerCpuOrder` |
| | `DenyOnlyDrainsHolds` | `Spec => DenyOnlyDrains` (an action property) |
| `CaptureProofs` | `TypeCorrect` | `Spec => []TypeOK` |
| | `DetachAfterWorkersHolds` | `Spec => []DetachAfterWorkers` |
| | `NeverIdleHolds` | `Spec => []NeverIdle` |
| | `SuccessIsCleanHolds` | `Spec => []SuccessIsClean` |
| | `ConsumerOutlivesWorkerHolds` | `Spec => []ConsumerOutlivesWorker` |
| `MetricsProofs` | `TypeCorrect` | `Spec => []TypeOK` |
| | `SnapshotBoundedHolds` | `Spec => []SnapshotBounded` |
| | `DeltasAddUpHolds` | `Spec => []DeltasAddUp` |
| | `DropRateBoundedHolds` | `Spec => []DropRateBounded` |
| `PipelineProofs` | `VacuumImplemented` | `Spec => ImplementsVacuum` |
| | `EndToEndAccountingHolds` | `Spec => []EndToEndAccounting` |
| | `PerCpuDeliveryHolds` | `Spec => []PerCpuDelivery` |
| | `DropsNeedTwoCpusHolds` | `Spec => []DropsNeedTwoCpus` |
| | `DenyHoldsToArenaAlways` | `Spec => DenyHoldsToArena` (an action property) |
| `InspectionProofs` | `ReadsOnlyWindow` | windows of one length that agree below `data_end` have the same `inspect` |
| | `ParsesPacketHolds` | `Spec => []ParsesPacket` |

**Assumptions.** Capacities and sizes are positive, bounds are natural numbers.
Beyond that: record lengths and timestamps are naturals (`VacuumAssumption`);
the CPUs are a finite set of numbers, the threshold fits u32, a flow hash is a
u32 (`XdpAssumption`), and the mark of an empty stack is not a frame
(`NoneAssumption`); the calls that may fail are calls of `main`
(`CaptureAssumption`); the slots that workers count in exist and the counts
stay below `U64_MAX` (`MetricsAssumption`); the packets are ones a sender can
mean, and the mark for "no view" is not a view (`InspectionAssumption`).
`PipelineAssumption` repeats what the two halves assume. TLC evaluates all of them in the runs.

### Vacuum

The inductive invariant `IInv` is `TypeOK` and the following parts; each part
has a lemma "one step preserves it" that splits on the actions of `Next`.

* `ControlInv` – `Len(batch) <= drained` while draining, the batch is empty at
  pin, poll, exit and the end of the process, and the sender is gone only if the
  worker has exited.
  `Accounting` is not inductive without it: `KeepFrame` would lose the frame if
  `try_push` found the `ArrayVec` full, and only the bound of the loop says it
  does not.
* `Accounting`, `SentIsCounted` – inductive given `ControlInv`.
* `StopInv` – while a batch is being drained after the flag was set, the records
  taken since are at most `drained`; at any time at most `BATCH_SIZE`, and
  none can follow because `StartBatch` tests the flag.
* `SilenceInv` – without `ArenaExits` the receiver is gone only if the sender
  is; with `ControlInv`, no `try_send` then meets a disconnected channel.
* `OrderInv` – `received`, `channel` and `batch` are each sorted by timestamp,
  every frame of one is not newer than any frame of the next, and none is newer
  than `last_ts_ns`. `DeliveredInOrder` says the first clause about the last
  buffer only and is not inductive: a frame's rank is fixed when it passes the
  regression check, three hand-overs before the arena sees it.

**The refinements.** `LifeImplemented` follows action by action from
`ControlInv` and `SilenceInv`. For `FeedImplemented` the abstract queue is
channel, batch and ring, one after the other. `Commit` is an `Offer` at its end;
`Receive` is a `Deliver` from its head, and that the frame is not behind one
already delivered is `OrderInv`; moving a record from ring to batch, or a frame
from batch to channel, leaves the concatenation as it is; every way the code
drops a frame (truncated record, regression, full or disconnected channel) takes
one element out of the queue, and an arena that exits takes out the whole
channel; `CutIsLose` shows that taking out any run of neighbours is a `Lose`.

### XdpIngress

`IInv` is `TypeOK`, `StackInv` (a CPU holds a frame exactly when it is between
accept and output), `CounterIsFrames` and `OrderInv`. `PerCpuOrder` speaks of
the ring only and is not inductive: what keeps an output in order is the state
of the CPU that is about to make it. `OrderInv` adds that a timestamp in the
ring is not in the future of `clock`; that every `pps_delta` in the ring is
below `Finished`, the number of frames its CPU has finished; that the frame on a
stack carries exactly that number; and that a frame that is stamped is not older
than its CPU's frames in the ring. `DenyOnlyDrains` counts two finite sets, the
frames on stacks and the records in the ring of one deny index: an output moves
one element from the first to the second, an accept cannot add one while the
entry stands, because `select` tests the entry in the step that builds the frame.

### Capture

`IInv` is `TypeOK` and `ControlInv`, which ties the position of `main` to all it
has started: `HookInv` (attached from `rings` on until a detach), `SpawnInv`
(one worker at most, spawned in slot 0 and after its consumer; no way past the
bail-out without one), `FlagInv` (the flag is set on the way out and nowhere
else; a worker that has gone has seen it, or was discarded when `main`
returned) and `ResultInv`. None of the four properties is inductive alone:
`SuccessIsClean`, for one, needs that the position `detach` is reached only
through the join. The proof is a case split on every call, its failure included.

### Metrics

`ScanInv` describes a scan in the middle: with `Done(k)` the slots of counter
`k` already loaded, `sums[k]` is at most what those slots hold now, and
`sums[k]` with what the other slots hold now is at least the total at the start
of the scan. Increments keep both, wherever they fall; a load moves one slot
from the one side to the other; when no slot is left they are
`SnapshotBounded`. `DeltasAddUp` needs besides that the previous result is at
most the total at the start of this scan, so that `saturating_sub` never
saturates.

A sum over slots is usually a recursive function, about which nothing general
can be proved here (no induction over data). `Tally` defines it as the
cardinality of a set with one element for every unit counted; the lemmas of
`TallyProofs` (an increment adds one, splitting off a slot, monotonicity, a
bound from a bound on each slot) then follow from facts about finite sets.

### Pipeline

The lemmas about the halves are used as they are, through `K == INSTANCE
XdpIngressProofs` and `W == INSTANCE VacuumRefinement`; `KernelAssumption` and
`WorkerAssumption` discharge the assumptions of those modules from
`PipelineAssumption`. The invariant `PInv` is the invariants of the two halves
and

* `BooksInv` – the counters of all CPUs add up to the frames on the stacks, lost
  to the ring, in the ring and taken from it. With Vacuum's `Accounting`, which
  says where the taken ones are, it is `EndToEndAccounting`.
* `PathInv` – along the whole path (received, then the queue of the refinement
  above) each CPU's `pps_delta` grows strictly and stays below what that CPU has
  finished. `PerCpuDelivery` is its part about `received`; it is not inductive
  by itself since a frame's place is decided when it enters the ring. That the
  timestamps do not go back either is `DeliveredInOrder`, through
  `VacuumImplemented`.

A kernel step that outputs a frame is a `Commit` of Vacuum. That its bound
`MaxProduced`, here the number of CPUs times the threshold, never disables it
follows from `BooksInv`: the frame being output is charged but not yet
committed. A reader's step is one of Vacuum's threads, and for XdpIngress it
can only shorten the ring at its head, which keeps `OrderInv`. By
`VacuumImplemented` every theorem about Vacuum holds of the composed system.

`DropsNeedTwoCpus` is not inductive: whether the worker will drop a frame is
settled where the frame is stamped. `SoleInv` says, for a CPU whose companions
have been charged nothing, that `last_ts_ns` is not in the future of `clock`, nor
above any timestamp in the ring or on that CPU's stack once stamped. The counters
(`CounterIsFrames`) make every frame in the ring that CPU's own, `OrderInv` of
XdpIngress makes them ordered, and a record that is read is therefore never
older than the one before it, and never newer than the ones after it. The
counters only grow, so if one CPU alone is busy after a step it was so before.

`DenyHoldsToArena` extends `DenyOnlyDrains` from the ring to the arena.
`Reaching(i)` counts the frames of a deny index on the stacks and at the places
of `Path`, which is `received` followed by the queue of the refinement. A kernel
step either moves a frame from a stack to the end of the path, loses one, or
accepts one, and an accept of index `i` is excluded while its entry stands. For
a step of a thread the proof takes the step of OrderedFeed that Vacuum was shown
to implement: a `Deliver` leaves `Path` as it is, and after a `Lose` the new
path embeds in the old one (`Embeds`: an injection of places that keeps the
frame), so no index has more places than before (`EmbedsCount`).

### Inspection

`ReadsOnlyWindow` is the memory safety of `inspect` as a statement about its
result: a byte at or beyond `data_end` cannot influence it, whatever its value.
The proof follows the two length checks (34, then 54 bytes) in the order in which
the code makes them.

`ParsesPacketHolds` is about layout. `Bytes(n)` are the blocks of `n` bytes, and
`Stands(b, n, w, k)` says that block `b` is found in `w` behind the first `k`
bytes. `Joined` shows it of the two parts of a concatenation and `StillStands`
that a longer tail does not disturb it; `HeaderLayout` and `PacketLayout` apply
them block by block and give the offset of each field: 12 for the ether type, 14
for the IPv4 header (protocol at 23, addresses at 26 and 30), and 34 and 36 for
the ports when there are no options. No induction is needed, because the number
of blocks is fixed; only the sizes of options and payload vary. `FieldRead`
carries a block from the encoding to the window, where `k + n <= data_end` is
what the length check of the code provides, and `Read16` shows that `be16`
undoes the encoder's 16-bit fields. What remains is a case split on ether type,
protocol and length.

**Only model-checked.** Liveness (`ShutdownStopsWorker`, `RingIsDrained`,
`ArenaDrains`, `EveryFrameIsReported`, `ReporterStops`, `SignalEndsProcess`):
fairness and `ENABLED` are beyond the prover. `HashIsMurmur3` is a check over the
enumerated flows: the reference hash is recursive over its key, and Murmur3 uses
the Bitwise module, which the prover cannot read.

## 6. Not modelled

* `vmlinux.rs` – generated bindings, a third of the repository's lines.
* `percpu_ring.rs` – compiled, never constructed: the loader returns a `Vec` of
  handles. `errors.rs`, `map_keys.rs` – no code produces or reads a
  `SignalError`, `EVENTS_PIN` or `DENY_MAP_ID`. A model of code without a
  caller would have to invent its use.
* The detection engine and the reactions – documents only, no code.
* Log output; argument parsing beyond what it decides; the verifier and aya.

There is no retry, no persistence and no restart in the code, hence no fault
model for them.

## 7. Plan

Done: every component with a caller is modelled; every safety invariant, action
property and refinement that the runs check is proved, but for `HashIsMurmur3`.
What could follow:

1. `Capture => WorkerLife` once the worker is spawned, which closes the chain
   Vacuum, WorkerLife, Capture by proof rather than by construction.
2. Deadlines in place of the liveness properties: a measure that every step of
   the worker decreases once the flag is set would turn `ShutdownStopsWorker`
   into a safety property, within the prover's reach.
3. When the code gains a reset of `PPS_COUNTERS`, a detach on the error paths or
   a `last_ts_ns` per CPU, the runs of section 4 that must fail become runs that
   must pass, and `CounterIsFrames` and `SoleInv` are the invariants to revisit.

------------------------------- MODULE Vacuum -------------------------------
(***************************************************************************)
(* The userspace half of the capture path: one vacuum worker               *)
(* (sg-capture/src/vacuum.rs) draining SIGNAL_RING in batches, validating  *)
(* each record, and handing frames through the bounded dispatch channel    *)
(* (dispatch.rs) to the arena consumer thread (main.rs), while counting    *)
(* in its slot of Metrics (metrics.rs).                                    *)
(*                                                                         *)
(* The kernel is the environment here: it appends ANY record of Records to *)
(* the ring, so what is shown holds for every producer.  Pipeline composes *)
(* this module with the XDP program itself.                                *)
(*                                                                         *)
(* One step is one access another thread can observe: the shutdown load,   *)
(* one ring record, one try_send, one counter increment.                   *)
(***************************************************************************)
EXTENDS Naturals, Sequences

CONSTANTS
    Records,             \* what the ring may hold: [len, frame]
    SIGNAL_FRAME_SIZE,   \* size_of::<SignalFrame>()
    BATCH_SIZE,          \* ring records handled per polling iteration
    DISPATCH_CAPACITY,   \* capacity of the crossbeam channel, in frames
    RING_CAPACITY,       \* records SIGNAL_RING holds before output() fails
    ArenaMayExit,        \* may the arena end while the sender still lives?
    MaxProduced          \* bound on the records the kernel ever commits

ASSUME VacuumAssumption ==
    /\ SIGNAL_FRAME_SIZE \in Nat
    /\ BATCH_SIZE \in Nat \ {0}
    /\ DISPATCH_CAPACITY \in Nat \ {0}
    /\ RING_CAPACITY \in Nat \ {0}
    /\ MaxProduced \in Nat
    /\ ArenaMayExit \in BOOLEAN
    /\ \A r \in Records : r.len \in Nat /\ r.frame.timestamp_ns \in Nat

VARIABLES
    ring,            \* SIGNAL_RING: committed records, oldest first
    shutdown,        \* the AtomicBool main sets on SIGINT / SIGTERM
    worker_pc,       \* where the vacuum worker is, and whether it died with
                     \* the process ("panicked") or before it ("ended")
    batch,           \* the ArrayVec of validated frames
    drained,         \* iterations of the drain loop done in this batch
    last_ts_ns,      \* timestamp of the last frame that passed validation
    channel,         \* frames between try_send and recv
    tx,              \* is the sender alive?
    rx,              \* is the receiver alive?
    frames_ok,       \* the worker's slot of Metrics
    frames_dropped,
    channel_full,
    \* History variables: nothing in the program reads or stores them.
    taken,           \* ring records consumed so far
    received,        \* frames the arena's recv() has returned, in order
    disconnected,    \* frames refused because the receiver was gone
    purged,          \* frames discarded with the channel when the arena died
    taken_at_stop    \* value of taken when shutdown was set

workerVars  == <<worker_pc, batch, drained, last_ts_ns>>
channelVars == <<channel, tx, rx>>
metricVars  == <<frames_ok, frames_dropped, channel_full>>
historyVars == <<taken, received, disconnected, purged, taken_at_stop>>
vars == <<ring, shutdown, workerVars, channelVars, metricVars, historyVars>>

Frames == {r.frame : r \in Records}

\* A panic aborts the process (panic = "abort"), and the return of main ends
\* it: every userspace thread stops.
Alive == worker_pc \notin {"panicked", "ended"}

WorkerInit ==
    /\ worker_pc = "pin"
    /\ batch = <<>>
    /\ drained = 0
    /\ last_ts_ns = 0

ChannelInit ==
    /\ channel = <<>>
    /\ tx = TRUE
    /\ rx = TRUE

MetricsInit ==
    /\ frames_ok = 0
    /\ frames_dropped = 0
    /\ channel_full = 0

Init ==
    /\ ring = <<>>
    /\ shutdown = FALSE
    /\ WorkerInit
    /\ ChannelInit
    /\ MetricsInit
    /\ taken = 0
    /\ received = <<>>
    /\ disconnected = 0
    /\ purged = 0
    /\ taken_at_stop = 0

-----------------------------------------------------------------------------
(* Metrics: one Relaxed fetch_add on the worker's own slot.                *)

\* Mutant: a frame that was sent is not counted.
RecordOkForgotten == UNCHANGED frames_ok
record_ok == frames_ok' = frames_ok + 1

\* Mutant: a rejected record is not counted.
RecordDropForgotten == UNCHANGED frames_dropped
record_drop == frames_dropped' = frames_dropped + 1

\* Mutant: backpressure is not counted.
RecordChannelFullForgotten == UNCHANGED channel_full
record_channel_full == channel_full' = channel_full + 1

-----------------------------------------------------------------------------
(* vacuum_entry: pinning, and the head of the poll loop.                   *)

Pin ==
    /\ worker_pc = "pin"
    /\ worker_pc' = "poll"
    /\ UNCHANGED <<ring, shutdown, batch, drained, last_ts_ns,
                   channelVars, metricVars, historyVars>>

\* core_affinity::set_for_current returned false: panic!.
PinFails ==
    /\ worker_pc = "pin"
    /\ worker_pc' = "panicked"
    /\ UNCHANGED <<ring, shutdown, batch, drained, last_ts_ns,
                   channelVars, metricVars, historyVars>>

\* Mutant: the flag is also honoured in the middle of a batch.
MayExitMidBatch == worker_pc \in {"poll", "dispatch"}
MayExit == worker_pc = "poll"

\* Mutant: a clone of the sender outlives the worker.
KeepSender == UNCHANGED tx
DropSender == tx' = FALSE

\* The flag is seen: break, return, and with the closure drop the sender.
ExitPollLoop ==
    /\ MayExit
    /\ shutdown
    /\ worker_pc' = "exited"
    /\ DropSender
    /\ UNCHANGED <<ring, shutdown, batch, drained, last_ts_ns, channel, rx,
                   metricVars, historyVars>>

\* Mutant: the poll loop may go round without looking at the flag.
KeepPollingAnyway == TRUE
KeepPolling == ~shutdown

\* Mutant: the count of drained records is carried into the next batch.
CarryDrained == UNCHANGED drained
ResetDrained == drained' = 0

StartBatch ==
    /\ worker_pc = "poll"
    /\ KeepPolling
    /\ worker_pc' = "drain"
    /\ batch' = <<>>
    /\ ResetDrained
    /\ UNCHANGED <<ring, shutdown, last_ts_ns, channelVars, metricVars,
                   historyVars>>

-----------------------------------------------------------------------------
(* The drain loop.  A record leaves the ring when the item is dropped at   *)
(* the end of its iteration, whichever of the three ways that ends.        *)

\* Mutant: for _ in 0..=BATCH_SIZE.
MoreToDrainOneTooMany == drained <= BATCH_SIZE
MoreToDrain == drained < BATCH_SIZE

TakeRecord ==
    /\ worker_pc = "drain"
    /\ MoreToDrain
    /\ ring # <<>>
    /\ ring' = Tail(ring)
    /\ drained' = drained + 1
    /\ taken' = taken + 1
    /\ UNCHANGED <<shutdown, worker_pc, channelVars, frames_ok, channel_full,
                   received, disconnected, purged, taken_at_stop>>

WellSized(r) == r.len = SIGNAL_FRAME_SIZE

\* Mutant: no monotonicity check.
RegressedNever(f) == FALSE
\* Mutant: a frame of the same nanosecond counts as a regression.
RegressedOrEqual(f) == f.timestamp_ns <= last_ts_ns
\* ts < last_ts_ns.saturating_sub(TIMESTAMP_SLACK_NS), with a slack of zero.
Regressed(f) == f.timestamp_ns < last_ts_ns

DropBadSize ==
    /\ TakeRecord
    /\ ~WellSized(Head(ring))
    /\ record_drop
    /\ UNCHANGED <<batch, last_ts_ns>>

DropRegressed ==
    /\ TakeRecord
    /\ WellSized(Head(ring))
    /\ Regressed(Head(ring).frame)
    /\ record_drop
    /\ UNCHANGED <<batch, last_ts_ns>>

\* try_push ignores the frame when the ArrayVec is full.
TryPush(b, f) == IF Len(b) < BATCH_SIZE THEN Append(b, f) ELSE b

KeepFrame ==
    /\ TakeRecord
    /\ WellSized(Head(ring))
    /\ ~Regressed(Head(ring).frame)
    /\ last_ts_ns' = Head(ring).frame.timestamp_ns
    /\ batch' = TryPush(batch, Head(ring).frame)
    /\ UNCHANGED frames_dropped

\* The for loop is over: the ring is empty or BATCH_SIZE records were handled.
EndDrain ==
    /\ worker_pc = "drain"
    /\ ring = <<>> \/ ~MoreToDrain
    /\ worker_pc' = "dispatch"
    /\ UNCHANGED <<ring, shutdown, batch, drained, last_ts_ns, channelVars,
                   metricVars, historyVars>>

-----------------------------------------------------------------------------
(* Dispatch: try_dispatch on each frame of the batch, then record_ok.      *)

\* Mutant: the frame is sent from the front and removed from the back.
FrontOfBatch == SubSeq(batch, 1, Len(batch) - 1)
RestOfBatch == Tail(batch)

NextOfBatch ==
    /\ worker_pc = "dispatch"
    /\ batch # <<>>
    /\ batch' = RestOfBatch
    /\ UNCHANGED <<ring, shutdown, drained, last_ts_ns, tx, rx, frames_ok,
                   frames_dropped, taken, received, purged, taken_at_stop>>

DispatchSent ==
    /\ NextOfBatch
    /\ rx
    /\ Len(channel) < DISPATCH_CAPACITY
    /\ channel' = Append(channel, Head(batch))
    /\ worker_pc' = "record_ok"
    /\ UNCHANGED <<channel_full, disconnected>>

DispatchFull ==
    /\ NextOfBatch
    /\ rx
    /\ Len(channel) = DISPATCH_CAPACITY
    /\ record_channel_full
    /\ UNCHANGED <<channel, worker_pc, disconnected>>

\* TrySendError::Disconnected: the frame is dropped and nothing is counted.
DispatchDisconnected ==
    /\ NextOfBatch
    /\ ~rx
    /\ disconnected' = disconnected + 1
    /\ UNCHANGED <<channel, worker_pc, channel_full>>

RecordOk ==
    /\ worker_pc = "record_ok"
    /\ worker_pc' = "dispatch"
    /\ record_ok
    /\ UNCHANGED <<ring, shutdown, batch, drained, last_ts_ns, channelVars,
                   frames_dropped, channel_full, historyVars>>

\* std::thread::yield_now(), and back to the shutdown check.
Yield ==
    /\ worker_pc = "dispatch"
    /\ batch = <<>>
    /\ worker_pc' = "poll"
    /\ UNCHANGED <<ring, shutdown, batch, drained, last_ts_ns, channelVars,
                   metricVars, historyVars>>

WorkerStep ==
    \/ Pin \/ PinFails \/ ExitPollLoop \/ StartBatch
    \/ DropBadSize \/ DropRegressed \/ KeepFrame \/ EndDrain
    \/ DispatchSent \/ DispatchFull \/ DispatchDisconnected
    \/ RecordOk \/ Yield

-----------------------------------------------------------------------------
(* The arena consumer thread: while rx.recv().is_ok() {}.                  *)

Receive ==
    /\ Alive
    /\ rx
    /\ channel # <<>>
    /\ received' = Append(received, Head(channel))
    /\ channel' = Tail(channel)
    /\ UNCHANGED <<ring, shutdown, workerVars, tx, rx, metricVars,
                   taken, disconnected, purged, taken_at_stop>>

\* Mutant: try_recv() in place of recv(), which is Err on an empty channel.
SenderIgnored == TRUE
SenderGone == ~tx

\* recv() is Err: the channel is empty and its only sender is dropped.
HangUp ==
    /\ Alive
    /\ rx
    /\ channel = <<>>
    /\ SenderGone
    /\ rx' = FALSE
    /\ UNCHANGED <<ring, shutdown, workerVars, channel, tx, metricVars,
                   historyVars>>

\* An sg-arena shard in place of the no-op consumer may drop its receiver
\* early; crossbeam then discards what is still queued.
ArenaExits ==
    /\ ArenaMayExit
    /\ Alive
    /\ rx
    /\ rx' = FALSE
    /\ channel' = <<>>
    /\ purged' = purged + Len(channel)
    /\ UNCHANGED <<ring, shutdown, workerVars, tx, metricVars, taken,
                   received, disconnected, taken_at_stop>>

ArenaStep == Receive \/ HangUp

-----------------------------------------------------------------------------
(* The environment: the kernel commits a record; main requests shutdown,   *)
(* waits for the worker and returns.                                       *)

Commit(r) ==
    /\ Len(ring) < RING_CAPACITY
    /\ taken + Len(ring) < MaxProduced
    /\ ring' = Append(ring, r)
    /\ UNCHANGED <<shutdown, workerVars, channelVars, metricVars, historyVars>>

RequestShutdown ==
    /\ Alive
    /\ ~shutdown
    /\ shutdown' = TRUE
    /\ taken_at_stop' = taken
    /\ UNCHANGED <<ring, workerVars, channelVars, metricVars, taken, received,
                   disconnected, purged>>

\* main has joined the worker and returns: the process ends with the consumer
\* thread, which nobody joins, wherever that is.
ProcessEnds ==
    /\ worker_pc = "exited"
    /\ worker_pc' = "ended"
    /\ UNCHANGED <<ring, shutdown, batch, drained, last_ts_ns, channelVars,
                   metricVars, historyVars>>

Next ==
    \/ WorkerStep
    \/ ArenaStep
    \/ ArenaExits
    \/ \E r \in Records : Commit(r)
    \/ RequestShutdown
    \/ ProcessEnds

Spec == Init /\ [][Next]_vars

\* The OS scheduler runs every runnable thread of a living process eventually:
\* the worker never blocks, and the consumer blocks only while recv() has
\* nothing to return.  When main returns is not known.
Fairness == WF_vars(WorkerStep) /\ WF_vars(ArenaStep)

FairSpec == Spec /\ Fairness

-----------------------------------------------------------------------------
(* Safety.                                                                 *)

WorkerPcs == {"pin", "poll", "drain", "dispatch", "record_ok", "exited",
              "panicked", "ended"}

\* Every variable has its type, and the three buffers never hold more than
\* their capacities: SIGNAL_RING, the ArrayVec and the crossbeam channel.
TypeOK ==
    /\ ring \in Seq(Records) /\ Len(ring) <= RING_CAPACITY
    /\ shutdown \in BOOLEAN
    /\ worker_pc \in WorkerPcs
    /\ batch \in Seq(Frames) /\ Len(batch) <= BATCH_SIZE
    /\ drained \in 0..BATCH_SIZE
    /\ last_ts_ns \in Nat
    /\ channel \in Seq(Frames) /\ Len(channel) <= DISPATCH_CAPACITY
    /\ tx \in BOOLEAN /\ rx \in BOOLEAN
    /\ frames_ok \in Nat /\ frames_dropped \in Nat /\ channel_full \in Nat
    /\ taken \in Nat /\ disconnected \in Nat /\ purged \in Nat
    /\ received \in Seq(Frames)
    /\ taken_at_stop \in Nat

\* Sent by try_send, not yet counted by record_ok.
Uncounted == IF worker_pc = "record_ok" THEN 1 ELSE 0

\* Every record the worker takes off the ring is, at every instant, in the
\* batch or in exactly one of the outcomes of vacuum_entry and try_dispatch.
\* In particular try_push never refuses a frame, as its comment claims.
Accounting ==
    taken = frames_ok + Uncounted + frames_dropped + channel_full
            + disconnected + Len(batch)

\* frames_ok counts exactly the frames that reached the channel: the arena
\* has received them, will receive them, or discarded them with its receiver.
SentIsCounted ==
    frames_ok + Uncounted = Len(received) + Len(channel) + purged

\* The arena sees timestamps that never go backwards, although the producers
\* commit them in any order and frames are lost at three places on the way.
DeliveredInOrder ==
    \A i, j \in DOMAIN received :
        i < j => received[i].timestamp_ns <= received[j].timestamp_ns

\* A worker that leaves the poll loop abandons no validated frame: shutdown
\* is looked at only between batches.
NothingAbandoned ==
    worker_pc \in {"exited", "ended"} => batch = <<>>

\* Once the flag is set the worker takes at most one batch more off the ring,
\* however fast the kernel keeps refilling it.
StopIsPrompt ==
    shutdown => taken <= taken_at_stop + BATCH_SIZE

\* With the consumer thread main.rs spawns, which ends only once the sender
\* is gone, the uncounted Disconnected arm of try_dispatch is never taken.
NoSilentLoss ==
    ~ArenaMayExit => disconnected + purged = 0

-----------------------------------------------------------------------------
(* Refinement: the frames still on their way, oldest first.                *)

InTransit == channel \o batch \o [i \in 1..Len(ring) |-> ring[i].frame]

Feed == INSTANCE OrderedFeed WITH queue <- InTransit, delivered <- received

\* The worker, its channel and the consumer implement OrderedFeed: nothing is
\* invented, duplicated or reordered between the ring and the arena.
ImplementsFeed == Feed!FeedSpec

\* The same threads with the frames forgotten, as Capture knows them.
WorkerPhase ==
    CASE worker_pc = "pin" -> "pinning"
      [] worker_pc \in {"poll", "drain", "dispatch", "record_ok"} -> "running"
      [] worker_pc \in {"exited", "ended"} -> "exited"
      [] OTHER -> worker_pc

Life == INSTANCE WorkerLife WITH
    worker   <- WorkerPhase,
    consumer <- IF rx THEN "running" ELSE "exited",
    queued   <- Len(channel)

\* The worker and the consumer main.rs starts live the life Capture composes
\* the process from: whatever the frames are, the consumer outlasts the sender
\* and the worker stops only on the flag.
ImplementsLife == Life!LifeSpec

-----------------------------------------------------------------------------
(* Liveness, under FairSpec.                                               *)

Stopped == worker_pc \in {"exited", "panicked", "ended"}

\* Setting the flag ends the worker.
ShutdownStopsWorker == shutdown ~> Stopped

\* Every record the kernel commits is taken, unless the worker is told to stop.
RingIsDrained ==
    \A n \in 1..MaxProduced :
        (taken + Len(ring) >= n) ~> (taken >= n \/ shutdown \/ Stopped)

\* When the worker has gone recv() does not block for ever: the consumer thread
\* takes what is queued and ends, unless main, which does not wait for it,
\* returns first and takes the process with it.
ArenaDrains ==
    (worker_pc = "exited") ~> (~rx /\ channel = <<>>) \/ worker_pc = "ended"
=============================================================================

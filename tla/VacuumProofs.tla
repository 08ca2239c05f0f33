---------------------------- MODULE VacuumProofs ----------------------------
(***************************************************************************)
(* Proofs about Vacuum, for every batch size, every capacity of the ring   *)
(* and of the channel, and every set of records a producer may commit.     *)
(***************************************************************************)
EXTENDS Vacuum, SequenceTheorems, TLAPS

(***************************************************************************)
(* Facts about the data.                                                   *)
(***************************************************************************)

\* What the ring holds in a record's frame is a frame, with a timestamp.
LEMMA FrameFacts ==
    /\ \A r \in Records : r.frame \in Frames
    /\ \A f \in Frames : f.timestamp_ns \in Nat
BY VacuumAssumption DEF Frames

\* The empty sequence is a sequence of anything, of length zero.
LEMMA EmptySeqFacts == Len(<<>>) = 0 /\ \A S : <<>> \in Seq(S)
BY EmptySeq

\* Removing the oldest element of a sequence.
LEMMA TailFacts ==
    ASSUME NEW S, NEW s \in Seq(S), s # <<>>
    PROVE  /\ Head(s) \in S
           /\ Head(s) = s[1]
           /\ Tail(s) \in Seq(S)
           /\ Len(s) \in Nat \ {0}
           /\ Len(Tail(s)) = Len(s) - 1
           /\ \A i \in 1..Len(Tail(s)) : Tail(s)[i] = s[i + 1]
BY HeadTailProperties, EmptySeq

\* Adding an element at the back of a sequence.
LEMMA AppendFacts ==
    ASSUME NEW S, NEW s \in Seq(S), NEW e \in S
    PROVE  /\ Append(s, e) \in Seq(S)
           /\ Len(s) \in Nat
           /\ Len(Append(s, e)) = Len(s) + 1
           /\ \A i \in 1..Len(s) : Append(s, e)[i] = s[i]
           /\ Append(s, e)[Len(s) + 1] = e
BY AppendProperties, LenProperties

\* try_push keeps the ArrayVec within its capacity.
LEMMA TryPushFacts ==
    ASSUME NEW b \in Seq(Frames), Len(b) <= BATCH_SIZE, NEW f \in Frames
    PROVE  /\ TryPush(b, f) \in Seq(Frames)
           /\ Len(TryPush(b, f)) <= BATCH_SIZE
           /\ Len(b) < BATCH_SIZE => /\ TryPush(b, f) = Append(b, f)
                                     /\ Len(TryPush(b, f)) = Len(b) + 1
BY AppendProperties, VacuumAssumption, LenProperties DEF TryPush

(***************************************************************************)
(* Type correctness.                                                       *)
(***************************************************************************)

\* Init and every step of the worker, the arena, the kernel and main keep
\* the types, and the ring, the batch and the channel within capacity.
LEMMA TypeStep == TypeOK /\ [Next]_vars => TypeOK'
<1> SUFFICES ASSUME TypeOK, [Next]_vars PROVE TypeOK'
  OBVIOUS
<1> USE VacuumAssumption
<1>1. CASE UNCHANGED vars
  BY <1>1 DEF TypeOK, vars, workerVars, channelVars, metricVars, historyVars
<1>2. CASE Pin \/ PinFails \/ ExitPollLoop \/ EndDrain \/ Yield \/ ProcessEnds
  BY <1>2 DEF TypeOK, WorkerPcs, Pin, PinFails, ExitPollLoop,
              ProcessEnds, MayExit,
              DropSender, EndDrain, Yield,
              channelVars, metricVars, historyVars
<1>3. CASE StartBatch
  BY <1>3, EmptySeqFacts
     DEF TypeOK, WorkerPcs, StartBatch, KeepPolling, ResetDrained,
              channelVars, metricVars, historyVars
<1>4. CASE TakeRecord /\ \/ record_drop /\ UNCHANGED <<batch, last_ts_ns>>
                         \/ /\ last_ts_ns' = Head(ring).frame.timestamp_ns
                            /\ batch' = TryPush(batch, Head(ring).frame)
                            /\ UNCHANGED frames_dropped
  <2>1. /\ Head(ring) \in Records
        /\ Head(ring).frame \in Frames
        /\ Head(ring).frame.timestamp_ns \in Nat
        /\ Tail(ring) \in Seq(Records)
        /\ Len(Tail(ring)) <= RING_CAPACITY
    BY <1>4, TailFacts, FrameFacts DEF TypeOK, TakeRecord
  <2>2. /\ ring' \in Seq(Records) /\ Len(ring') <= RING_CAPACITY
        /\ drained' \in 0..BATCH_SIZE
        /\ taken' \in Nat
    BY <1>4, <2>1 DEF TypeOK, TakeRecord, MoreToDrain
  <2>3. batch' \in Seq(Frames) /\ Len(batch') <= BATCH_SIZE
    BY <1>4, <2>1, TryPushFacts DEF TypeOK
  <2>4. last_ts_ns' \in Nat /\ frames_dropped' \in Nat
    BY <1>4, <2>1, SMTT(30) DEF TypeOK, record_drop
  <2> QED
    BY <1>4, <2>2, <2>3, <2>4 DEF TypeOK, TakeRecord, channelVars
<1>5. CASE DropBadSize \/ DropRegressed \/ KeepFrame
  BY <1>4, <1>5 DEF DropBadSize, DropRegressed, KeepFrame
<1>6. CASE DispatchSent \/ DispatchFull \/ DispatchDisconnected
  <2>1. NextOfBatch
    BY <1>6 DEF DispatchSent, DispatchFull, DispatchDisconnected
  <2>2. /\ Head(batch) \in Frames
        /\ batch' \in Seq(Frames)
        /\ Len(batch') <= BATCH_SIZE
    BY <2>1, TailFacts DEF TypeOK, NextOfBatch, RestOfBatch
  <2>3. channel' \in Seq(Frames) /\ Len(channel') <= DISPATCH_CAPACITY
    <3>1. CASE DispatchSent
      <4>1. channel \in Seq(Frames) /\ Len(channel) < DISPATCH_CAPACITY
        BY <3>1 DEF TypeOK, DispatchSent
      <4>2. channel' = Append(channel, Head(batch))
        BY <3>1 DEF DispatchSent
      <4> QED
        BY <2>2, <4>1, <4>2, AppendFacts
    <3>2. CASE DispatchFull \/ DispatchDisconnected
      BY <3>2 DEF TypeOK, DispatchFull, DispatchDisconnected
    <3> QED
      BY <1>6, <3>1, <3>2
  <2>4. /\ worker_pc' \in WorkerPcs
        /\ channel_full' \in Nat
        /\ disconnected' \in Nat
    BY <1>6, <2>1, SMTT(30)
       DEF TypeOK, WorkerPcs, NextOfBatch, RestOfBatch, DispatchSent,
              DispatchFull,
           DispatchDisconnected, record_channel_full
  <2> QED
    BY <2>1, <2>2, <2>3, <2>4 DEF TypeOK, NextOfBatch, RestOfBatch
<1>7. CASE RecordOk
  BY <1>7, SMTT(30)
     DEF TypeOK, WorkerPcs, RecordOk, record_ok, channelVars, historyVars
<1>8. CASE Receive
  <2>1. /\ Head(channel) \in Frames
        /\ channel' \in Seq(Frames)
        /\ Len(channel') <= DISPATCH_CAPACITY
    BY <1>8, TailFacts DEF TypeOK, Receive
  <2>2. received' \in Seq(Frames)
    BY <1>8, <2>1, AppendProperties DEF TypeOK, Receive
  <2> QED
    BY <1>8, <2>1, <2>2 DEF TypeOK, Receive, workerVars, metricVars
<1>9. CASE HangUp
  BY <1>9 DEF TypeOK, HangUp, SenderGone, workerVars, metricVars, historyVars
<1>10. CASE ArenaExits
  <2>1. channel' \in Seq(Frames) /\ Len(channel') <= DISPATCH_CAPACITY
    BY <1>10, EmptySeqFacts DEF ArenaExits
  <2>2. Len(channel) \in Nat
    BY LenProperties DEF TypeOK
  <2>3. purged' \in Nat
    BY <1>10, <2>2 DEF TypeOK, ArenaExits
  <2> QED
    BY <1>10, <2>1, <2>3 DEF TypeOK, ArenaExits, workerVars, metricVars
<1>11. ASSUME NEW r \in Records, Commit(r) PROVE TypeOK'
  <2>1. ring' \in Seq(Records) /\ Len(ring') <= RING_CAPACITY
    <3>1. ring \in Seq(Records) /\ Len(ring) < RING_CAPACITY
      BY <1>11 DEF TypeOK, Commit
    <3>2. ring' = Append(ring, r)
      BY <1>11 DEF Commit
    <3> QED
      BY <1>11, <3>1, <3>2, AppendFacts
  <2> QED
    BY <1>11, <2>1
       DEF TypeOK, Commit, workerVars, channelVars, metricVars, historyVars
<1>12. CASE RequestShutdown
  BY <1>12 DEF TypeOK, RequestShutdown, workerVars, channelVars, metricVars
<1> QED
  BY <1>1, <1>2, <1>3, <1>5, <1>6, <1>7, <1>8, <1>9, <1>10, <1>11, <1>12
     DEF Next, WorkerStep, ArenaStep

\* The process starts with every buffer empty and every counter at zero.
LEMMA TypeInit == Init => TypeOK
<1> SUFFICES ASSUME Init PROVE TypeOK
  OBVIOUS
<1>1. /\ ring \in Seq(Records) /\ batch \in Seq(Frames)
      /\ channel \in Seq(Frames) /\ received \in Seq(Frames)
  BY EmptySeqFacts DEF Init, WorkerInit, ChannelInit
<1>2. /\ Len(ring) <= RING_CAPACITY /\ Len(batch) <= BATCH_SIZE
      /\ Len(channel) <= DISPATCH_CAPACITY
      /\ drained \in 0..BATCH_SIZE
  BY VacuumAssumption, EmptySeqFacts DEF Init, WorkerInit, ChannelInit
<1> QED
  BY <1>1, <1>2
     DEF Init, WorkerInit, ChannelInit, MetricsInit, TypeOK, WorkerPcs

\* Every variable keeps its type and every buffer its capacity.
THEOREM TypeCorrect == Spec => []TypeOK
BY TypeInit, TypeStep, PTL DEF Spec

(***************************************************************************)
(* Control: where the worker is says what it still holds.                  *)
(***************************************************************************)

ControlInv ==
    /\ worker_pc \in {"pin", "poll", "exited", "ended"} => batch = <<>>
    /\ worker_pc = "drain" => Len(batch) <= drained
    /\ ~tx => worker_pc \in {"exited", "ended"}

\* Every step keeps the worker's hold on the batch and on the sender in line
\* with where it is in its loop.
LEMMA ControlStep == TypeOK /\ ControlInv /\ [Next]_vars => ControlInv'
<1> SUFFICES ASSUME TypeOK, ControlInv, [Next]_vars PROVE ControlInv'
  OBVIOUS
<1> USE VacuumAssumption
<1>1. CASE UNCHANGED vars
  BY <1>1 DEF ControlInv, vars, workerVars, channelVars
<1>2. CASE Pin \/ PinFails \/ ExitPollLoop \/ EndDrain \/ Yield \/ ProcessEnds
  BY <1>2 DEF ControlInv, Pin, PinFails, ExitPollLoop,
              ProcessEnds, MayExit, DropSender,
              EndDrain, Yield,
              channelVars
<1>3. CASE StartBatch
  BY <1>3, EmptySeqFacts DEF ControlInv, StartBatch, KeepPolling,
              ResetDrained, channelVars
<1>4. CASE DropBadSize \/ DropRegressed
  <2>1. worker_pc = "drain" /\ worker_pc' = "drain" /\ batch' = batch
    BY <1>4 DEF DropBadSize, DropRegressed, TakeRecord
  <2>2. drained' = drained + 1 /\ tx' = tx
    BY <1>4 DEF DropBadSize, DropRegressed, TakeRecord, channelVars
  <2>3. Len(batch) \in Nat /\ drained \in Nat
    BY LenProperties DEF TypeOK
  <2> QED
    BY <2>1, <2>2, <2>3 DEF ControlInv
<1>5. CASE KeepFrame
  <2>1. worker_pc = "drain" /\ worker_pc' = "drain" /\ tx' = tx
    BY <1>5 DEF KeepFrame, TakeRecord, channelVars
  <2>2. drained' = drained + 1 /\ drained < BATCH_SIZE /\ drained \in Nat
    BY <1>5 DEF KeepFrame, TakeRecord, MoreToDrain, TypeOK
  <2>3. Len(batch') = Len(batch) + 1
    <3>1. Head(ring).frame \in Frames
      BY <1>5, TailFacts, FrameFacts DEF KeepFrame, TakeRecord, TypeOK
    <3>2. batch \in Seq(Frames) /\ Len(batch) \in Nat /\ Len(batch) < BATCH_SIZE
      BY <2>1, <2>2, LenProperties DEF ControlInv, TypeOK
    <3>3. batch' = TryPush(batch, Head(ring).frame)
      BY <1>5 DEF KeepFrame
    <3> QED
      BY <3>1, <3>2, <3>3, TryPushFacts
  <2>4. Len(batch) \in Nat
    BY LenProperties DEF TypeOK
  <2> QED
    BY <2>1, <2>2, <2>3, <2>4 DEF ControlInv
<1>6. CASE DispatchSent \/ DispatchFull \/ DispatchDisconnected
  BY <1>6 DEF ControlInv, DispatchSent, DispatchFull, DispatchDisconnected,
              NextOfBatch, RestOfBatch
<1>7. CASE RecordOk
  BY <1>7 DEF ControlInv, RecordOk, channelVars
<1>8. CASE Receive \/ HangUp \/ ArenaExits
  BY <1>8 DEF ControlInv, Receive, HangUp, SenderGone, ArenaExits, workerVars
<1>9. ASSUME NEW r \in Records, Commit(r) PROVE ControlInv'
  BY <1>9 DEF ControlInv, Commit, workerVars, channelVars
<1>10. CASE RequestShutdown
  BY <1>10 DEF ControlInv, RequestShutdown, workerVars, channelVars
<1> QED
  BY <1>1, <1>2, <1>3, <1>4, <1>5, <1>6, <1>7, <1>8, <1>9, <1>10
     DEF Next, WorkerStep, ArenaStep

(***************************************************************************)
(* Counting: no record is lost, none is counted twice.                     *)
(***************************************************************************)

\* Every step moves a record from one count to exactly one other.
LEMMA CountStep ==
    TypeOK /\ ControlInv /\ Accounting /\ SentIsCounted /\ [Next]_vars
        => Accounting' /\ SentIsCounted'
<1> SUFFICES ASSUME TypeOK, ControlInv, Accounting, SentIsCounted, [Next]_vars
             PROVE  Accounting' /\ SentIsCounted'
  OBVIOUS
<1> USE VacuumAssumption
<1>0. /\ Len(batch) \in Nat /\ Len(channel) \in Nat /\ Len(received) \in Nat
      /\ frames_ok \in Nat /\ frames_dropped \in Nat /\ channel_full \in Nat
      /\ taken \in Nat /\ disconnected \in Nat /\ purged \in Nat
  BY LenProperties DEF TypeOK
<1>u. Uncounted \in Nat
  BY DEF Uncounted
<1>1. CASE UNCHANGED vars
  BY <1>1 DEF Accounting, SentIsCounted, Uncounted, vars, workerVars,
              channelVars, metricVars, historyVars
<1>2. CASE Pin \/ PinFails \/ ExitPollLoop \/ EndDrain \/ Yield \/ ProcessEnds
  BY <1>2 DEF Accounting, SentIsCounted, Uncounted, Pin, PinFails,
              ExitPollLoop,
              ProcessEnds, MayExit, DropSender, EndDrain, Yield, channelVars,
              metricVars,
              historyVars
<1>3. CASE StartBatch
  BY <1>3 DEF Accounting, SentIsCounted, Uncounted, ControlInv, StartBatch,
              KeepPolling, ResetDrained,
              channelVars, metricVars, historyVars
<1>4. CASE DropBadSize \/ DropRegressed
  <2>1. TakeRecord /\ record_drop /\ batch' = batch
    BY <1>4 DEF DropBadSize, DropRegressed
  <2>2. /\ taken' = taken + 1
        /\ frames_dropped' = frames_dropped + 1
        /\ UNCHANGED <<worker_pc, channel, received, frames_ok, channel_full,
                       disconnected, purged>>
    BY <2>1 DEF TakeRecord, record_drop, channelVars
  <2>3. Uncounted' = Uncounted /\ Len(batch') = Len(batch)
    BY <2>1, <2>2 DEF Uncounted
  <2>4. Accounting'
    BY <1>0, <1>u, <2>2, <2>3 DEF Accounting
  <2>5. SentIsCounted'
    BY <2>2, <2>3 DEF SentIsCounted
  <2> QED
    BY <2>4, <2>5
<1>5. CASE KeepFrame
  <2>1. Len(batch') = Len(batch) + 1
    <3>1. Head(ring).frame \in Frames
      BY <1>5, TailFacts, FrameFacts DEF KeepFrame, TakeRecord, TypeOK
    <3>2. drained < BATCH_SIZE /\ drained \in Nat /\ worker_pc = "drain"
      BY <1>5 DEF KeepFrame, TakeRecord, MoreToDrain, TypeOK
    <3>3. /\ batch \in Seq(Frames)
          /\ Len(batch) < BATCH_SIZE /\ Len(batch) <= BATCH_SIZE
      BY <1>0, <3>2 DEF ControlInv, TypeOK
    <3>4. batch' = TryPush(batch, Head(ring).frame)
      BY <1>5 DEF KeepFrame
    <3> QED
      BY <3>1, <3>3, <3>4, TryPushFacts
  <2>2. /\ taken' = taken + 1
        /\ UNCHANGED <<worker_pc, channel, received, frames_ok, frames_dropped,
                       channel_full, disconnected, purged>>
    BY <1>5 DEF KeepFrame, TakeRecord, channelVars
  <2>3. Uncounted' = Uncounted
    BY <2>2 DEF Uncounted
  <2>4. Accounting'
    BY <1>0, <1>u, <2>1, <2>2, <2>3, SMTT(30) DEF Accounting
  <2>5. SentIsCounted'
    BY <2>2, <2>3 DEF SentIsCounted
  <2> QED
    BY <2>4, <2>5
<1>6. CASE DispatchSent \/ DispatchFull \/ DispatchDisconnected
  <2>1. NextOfBatch
    BY <1>6 DEF DispatchSent, DispatchFull, DispatchDisconnected
  <2>2. Len(batch') = Len(batch) - 1 /\ Head(batch) \in Frames
    BY <2>1, TailFacts DEF NextOfBatch, RestOfBatch, TypeOK
  <2>3. CASE DispatchSent
    <3>1. channel' = Append(channel, Head(batch))
      BY <2>3 DEF DispatchSent
    <3>2. channel \in Seq(Frames)
      BY DEF TypeOK
    <3>3. Len(channel') = Len(channel) + 1
      BY <2>2, <3>1, <3>2, AppendFacts
    <3> QED
      BY <1>0, <2>1, <2>2, <2>3, <3>3
         DEF Accounting, SentIsCounted, Uncounted, DispatchSent, NextOfBatch,
              RestOfBatch
  <2>4. CASE DispatchFull
    BY <1>0, <2>1, <2>2, <2>4 DEF Accounting, SentIsCounted, Uncounted,
                                  DispatchFull, NextOfBatch, RestOfBatch,
              record_channel_full
  <2>5. CASE DispatchDisconnected
    <3>1. /\ disconnected' = disconnected + 1
          /\ UNCHANGED <<worker_pc, channel, received, frames_ok,
              frames_dropped,
                         channel_full, taken, purged>>
      BY <2>5 DEF DispatchDisconnected, NextOfBatch, RestOfBatch
    <3> QED
      BY <1>0, <2>2, <3>1 DEF Accounting, SentIsCounted, Uncounted
  <2> QED
    BY <1>6, <2>3, <2>4, <2>5
<1>7. CASE RecordOk
  BY <1>0, <1>7 DEF Accounting, SentIsCounted, Uncounted, RecordOk, record_ok,
                    channelVars, historyVars
<1>8. CASE Receive
  <2>1. Len(channel') = Len(channel) - 1 /\ Head(channel) \in Frames
    BY <1>8, TailFacts DEF Receive, TypeOK
  <2>2. received' = Append(received, Head(channel)) /\ received \in Seq(Frames)
    BY <1>8 DEF Receive, TypeOK
  <2>3. Len(received') = Len(received) + 1
    BY <2>1, <2>2, AppendFacts
  <2>4. UNCHANGED <<worker_pc, batch, frames_ok, frames_dropped, channel_full,
                    taken, disconnected, purged>>
    BY <1>8 DEF Receive, workerVars, metricVars
  <2> QED
    BY <1>0, <2>1, <2>3, <2>4 DEF Accounting, SentIsCounted, Uncounted
<1>9. CASE HangUp
  BY <1>9 DEF Accounting, SentIsCounted, Uncounted, HangUp, SenderGone,
              workerVars,
              metricVars, historyVars
<1>10. CASE ArenaExits
  BY <1>0, <1>10, EmptySeqFacts
     DEF Accounting, SentIsCounted, Uncounted, ArenaExits, workerVars,
              metricVars
<1>11. ASSUME NEW r \in Records, Commit(r) PROVE Accounting' /\ SentIsCounted'
  BY <1>11 DEF Accounting, SentIsCounted, Uncounted, Commit, workerVars,
               channelVars, metricVars, historyVars
<1>12. CASE RequestShutdown
  BY <1>12 DEF Accounting, SentIsCounted, Uncounted, RequestShutdown,
               workerVars, channelVars, metricVars
<1> QED
  BY <1>1, <1>2, <1>3, <1>4, <1>5, <1>6, <1>7, <1>8, <1>9, <1>10, <1>11, <1>12
     DEF Next, WorkerStep, ArenaStep

(***************************************************************************)
(* Stopping: after the flag only the batch under way is drained.           *)
(***************************************************************************)

StopInv ==
    shutdown => /\ taken <= taken_at_stop + BATCH_SIZE
                /\ worker_pc = "drain" => taken <= taken_at_stop + drained

\* Once the flag is set no new batch starts, so the bound of the current one
\* is kept.
LEMMA StopStep == TypeOK /\ StopInv /\ [Next]_vars => StopInv'
<1> SUFFICES ASSUME TypeOK, StopInv, [Next]_vars PROVE StopInv'
  OBVIOUS
<1> USE VacuumAssumption
<1>0. drained \in 0..BATCH_SIZE /\ taken \in Nat /\ taken_at_stop \in Nat
  BY DEF TypeOK
<1>1. CASE UNCHANGED vars
  BY <1>1 DEF StopInv, vars, workerVars, historyVars
<1>2. CASE Pin \/ PinFails \/ ExitPollLoop \/ EndDrain \/ Yield \/ ProcessEnds
  BY <1>2 DEF StopInv, Pin, PinFails, ExitPollLoop,
              ProcessEnds, MayExit, DropSender,
              EndDrain, Yield, historyVars
<1>3. CASE StartBatch
  BY <1>3 DEF StopInv, StartBatch, KeepPolling, ResetDrained
<1>4. CASE DropBadSize \/ DropRegressed \/ KeepFrame
  <2>1. TakeRecord
    BY <1>4 DEF DropBadSize, DropRegressed, KeepFrame
  <2> QED
    BY <1>0, <2>1 DEF StopInv, TakeRecord, MoreToDrain
<1>5. CASE DispatchSent \/ DispatchFull \/ DispatchDisconnected
  BY <1>5 DEF StopInv, DispatchSent, DispatchFull, DispatchDisconnected,
              NextOfBatch, RestOfBatch
<1>6. CASE RecordOk
  BY <1>6 DEF StopInv, RecordOk, historyVars
<1>7. CASE Receive \/ HangUp \/ ArenaExits
  BY <1>7 DEF StopInv, Receive, HangUp, SenderGone, ArenaExits, workerVars,
              historyVars
<1>8. ASSUME NEW r \in Records, Commit(r) PROVE StopInv'
  BY <1>8 DEF StopInv, Commit, workerVars, historyVars
<1>9. CASE RequestShutdown
  BY <1>0, <1>9 DEF StopInv, RequestShutdown, workerVars
<1> QED
  BY <1>1, <1>2, <1>3, <1>4, <1>5, <1>6, <1>7, <1>8, <1>9
     DEF Next, WorkerStep, ArenaStep

(***************************************************************************)
(* Silence: only an arena that exits early makes frames vanish uncounted.  *)
(***************************************************************************)

SilenceInv ==
    ~ArenaMayExit => /\ disconnected = 0
                     /\ purged = 0
                     /\ ~rx => ~tx

\* Without ArenaExits the receiver goes only after the sender, so that no
\* step drops a frame uncounted.
LEMMA SilenceStep == ControlInv /\ SilenceInv /\ [Next]_vars => SilenceInv'
<1> SUFFICES ASSUME ControlInv, SilenceInv, [Next]_vars, ~ArenaMayExit
             PROVE  disconnected' = 0 /\ purged' = 0 /\ (~rx' => ~tx')
  BY DEF SilenceInv
<1>0. disconnected = 0 /\ purged = 0 /\ (~rx => ~tx)
  BY DEF SilenceInv
<1>1. CASE UNCHANGED vars
  BY <1>0, <1>1 DEF vars, channelVars, historyVars
<1>2. CASE Pin \/ PinFails \/ ExitPollLoop \/ EndDrain \/ Yield \/ ProcessEnds
  BY <1>0, <1>2 DEF Pin, PinFails, ExitPollLoop,
              ProcessEnds, MayExit, DropSender,
              EndDrain, Yield, channelVars,
                    historyVars
<1>3. CASE StartBatch
  BY <1>0, <1>3 DEF StartBatch, KeepPolling, ResetDrained, channelVars,
              historyVars
<1>4. CASE DropBadSize \/ DropRegressed \/ KeepFrame
  <2>1. TakeRecord
    BY <1>4 DEF DropBadSize, DropRegressed, KeepFrame
  <2> QED
    BY <1>0, <2>1 DEF TakeRecord, channelVars
<1>5. CASE DispatchSent \/ DispatchFull
  BY <1>0, <1>5 DEF DispatchSent, DispatchFull, NextOfBatch, RestOfBatch
<1>6. CASE DispatchDisconnected
  BY <1>0, <1>6 DEF DispatchDisconnected, NextOfBatch, RestOfBatch, ControlInv
<1>7. CASE RecordOk
  BY <1>0, <1>7 DEF RecordOk, channelVars, historyVars
<1>8. CASE Receive \/ HangUp
  BY <1>0, <1>8 DEF Receive, HangUp, SenderGone, historyVars
<1>9. CASE ArenaExits
  BY <1>9 DEF ArenaExits
<1>10. ASSUME NEW r \in Records, Commit(r)
       PROVE  disconnected' = 0 /\ purged' = 0 /\ (~rx' => ~tx')
  BY <1>0, <1>10 DEF Commit, channelVars, historyVars
<1>11. CASE RequestShutdown
  BY <1>0, <1>11 DEF RequestShutdown, channelVars
<1> QED
  BY <1>1, <1>2, <1>3, <1>4, <1>5, <1>6, <1>7, <1>8, <1>9, <1>10, <1>11
     DEF Next, WorkerStep, ArenaStep

(***************************************************************************)
(* Order.  What is sorted at each of the three stages, and how the stages  *)
(* lie to one another: received, then channel, then batch, then last_ts_ns.*)
(***************************************************************************)

Sorted(s) ==
    \A i, j \in 1..Len(s) : i < j => s[i].timestamp_ns <= s[j].timestamp_ns

UpTo(s, n) == \A i \in 1..Len(s) : s[i].timestamp_ns <= n

From(n, s) == \A i \in 1..Len(s) : n <= s[i].timestamp_ns

Before(s, t) ==
    \A i \in 1..Len(s), j \in 1..Len(t) :
        s[i].timestamp_ns <= t[j].timestamp_ns

\* A frame no older than all of s keeps s sorted when it is appended.
LEMMA SortedAppend ==
    ASSUME NEW s \in Seq(Frames), NEW f \in Frames,
           Sorted(s), UpTo(s, f.timestamp_ns)
    PROVE  Sorted(Append(s, f))
<1>1. /\ Len(s) \in Nat
      /\ Len(Append(s, f)) = Len(s) + 1
      /\ \A i \in 1..Len(s) : Append(s, f)[i] = s[i]
      /\ Append(s, f)[Len(s) + 1] = f
  BY AppendFacts
<1>2. SUFFICES ASSUME NEW i \in 1..Len(Append(s, f)),
                      NEW j \in 1..Len(Append(s, f)), i < j
               PROVE  Append(s, f)[i].timestamp_ns
                          <= Append(s, f)[j].timestamp_ns
  BY DEF Sorted
<1>3. i \in 1..Len(s)
  BY <1>1, <1>2
<1>4. CASE j \in 1..Len(s)
  BY <1>1, <1>2, <1>3, <1>4 DEF Sorted
<1>5. CASE j = Len(s) + 1
  BY <1>1, <1>3, <1>5 DEF UpTo
<1> QED
  BY <1>1, <1>4, <1>5

\* A bound on s and on f bounds Append(s, f).
LEMMA UpToAppend ==
    ASSUME NEW s \in Seq(Frames), NEW f \in Frames, NEW n,
           UpTo(s, n), f.timestamp_ns <= n
    PROVE  UpTo(Append(s, f), n)
<1>1. /\ Len(s) \in Nat
      /\ Len(Append(s, f)) = Len(s) + 1
      /\ \A i \in 1..Len(s) : Append(s, f)[i] = s[i]
      /\ Append(s, f)[Len(s) + 1] = f
  BY AppendFacts
<1>2. SUFFICES ASSUME NEW i \in 1..Len(Append(s, f))
               PROVE  Append(s, f)[i].timestamp_ns <= n
  BY DEF UpTo
<1>3. i \in 1..Len(s) \/ i = Len(s) + 1
  BY <1>1, <1>2
<1> QED
  BY <1>1, <1>3 DEF UpTo

\* A bound may be raised.
LEMMA UpToRaise ==
    ASSUME NEW s \in Seq(Frames), NEW m \in Nat, NEW n \in Nat,
           UpTo(s, m), m <= n
    PROVE  UpTo(s, n)
<1>1. SUFFICES ASSUME NEW i \in 1..Len(s) PROVE s[i].timestamp_ns <= n
  BY DEF UpTo
<1>2. s[i] \in Frames /\ s[i].timestamp_ns \in Nat
  BY ElementOfSeq, FrameFacts
<1>3. s[i].timestamp_ns <= m
  BY DEF UpTo
<1> QED
  BY <1>2, <1>3

\* Appending to the later of two stages.
LEMMA BeforeAppendRight ==
    ASSUME NEW s \in Seq(Frames), NEW t \in Seq(Frames), NEW f \in Frames,
           Before(s, t), UpTo(s, f.timestamp_ns)
    PROVE  Before(s, Append(t, f))
<1>1. /\ Len(t) \in Nat
      /\ Len(Append(t, f)) = Len(t) + 1
      /\ \A i \in 1..Len(t) : Append(t, f)[i] = t[i]
      /\ Append(t, f)[Len(t) + 1] = f
  BY AppendFacts
<1>2. SUFFICES ASSUME NEW i \in 1..Len(s), NEW j \in 1..Len(Append(t, f))
               PROVE  s[i].timestamp_ns <= Append(t, f)[j].timestamp_ns
  BY DEF Before
<1>3. j \in 1..Len(t) \/ j = Len(t) + 1
  BY <1>1, <1>2
<1> QED
  BY <1>1, <1>3 DEF Before, UpTo

\* Appending to the earlier of two stages.
LEMMA BeforeAppendLeft ==
    ASSUME NEW s \in Seq(Frames), NEW t \in Seq(Frames), NEW f \in Frames,
           Before(s, t), From(f.timestamp_ns, t)
    PROVE  Before(Append(s, f), t)
<1>1. /\ Len(s) \in Nat
      /\ Len(Append(s, f)) = Len(s) + 1
      /\ \A i \in 1..Len(s) : Append(s, f)[i] = s[i]
      /\ Append(s, f)[Len(s) + 1] = f
  BY AppendFacts
<1>2. SUFFICES ASSUME NEW i \in 1..Len(Append(s, f)), NEW j \in 1..Len(t)
               PROVE  Append(s, f)[i].timestamp_ns <= t[j].timestamp_ns
  BY DEF Before
<1>3. i \in 1..Len(s) \/ i = Len(s) + 1
  BY <1>1, <1>2
<1> QED
  BY <1>1, <1>3 DEF Before, From

\* Taking the oldest frame off a stage leaves the rest sorted and bounded,
\* and says where that frame lies.
LEMMA TakeOldest ==
    ASSUME NEW s \in Seq(Frames), s # <<>>
    PROVE  /\ Sorted(s) => Sorted(Tail(s)) /\ From(Head(s).timestamp_ns,
              Tail(s))
           /\ \A n : UpTo(s, n) => UpTo(Tail(s),
              n) /\ Head(s).timestamp_ns <= n
           /\ \A t : Before(s, t) => /\ Before(Tail(s), t)
                                     /\ From(Head(s).timestamp_ns, t)
           /\ \A t : Before(t, s) => /\ Before(t, Tail(s))
                                     /\ UpTo(t, Head(s).timestamp_ns)
<1>1. /\ Head(s) = s[1] /\ Len(s) \in Nat \ {0}
      /\ Len(Tail(s)) = Len(s) - 1
      /\ \A i \in 1..Len(Tail(s)) : Tail(s)[i] = s[i + 1]
  BY TailFacts
<1>2. 1 \in 1..Len(s) /\ \A i \in 1..Len(Tail(s)) : i + 1 \in 1..Len(s) /\ 1 < i + 1
  BY <1>1
<1>3. Sorted(s) => Sorted(Tail(s)) /\ From(Head(s).timestamp_ns, Tail(s))
  <2> SUFFICES ASSUME Sorted(s)
               PROVE  Sorted(Tail(s)) /\ From(Head(s).timestamp_ns, Tail(s))
    OBVIOUS
  <2>1. Sorted(Tail(s))
    <3> SUFFICES ASSUME NEW i \in 1..Len(Tail(s)), NEW j \in 1..Len(Tail(s)),
              i < j
                 PROVE  Tail(s)[i].timestamp_ns <= Tail(s)[j].timestamp_ns
      BY DEF Sorted
    <3>1. i + 1 \in 1..Len(s) /\ j + 1 \in 1..Len(s) /\ i + 1 < j + 1
      BY <1>2
    <3> QED
      BY <1>1, <3>1 DEF Sorted
  <2>2. From(Head(s).timestamp_ns, Tail(s))
    BY <1>1, <1>2 DEF Sorted, From
  <2> QED
    BY <2>1, <2>2
<1>4. \A n : UpTo(s, n) => UpTo(Tail(s), n) /\ Head(s).timestamp_ns <= n
  BY <1>1, <1>2 DEF UpTo
<1>5. \A t : Before(s, t) => Before(Tail(s), t) /\ From(Head(s).timestamp_ns, t)
  BY <1>1, <1>2 DEF Before, From
<1>6. \A t : Before(t, s) => Before(t, Tail(s)) /\ UpTo(t, Head(s).timestamp_ns)
  BY <1>1, <1>2 DEF Before, UpTo
<1> QED
  BY <1>3, <1>4, <1>5, <1>6

\* An empty stage is in order with everything.
LEMMA EmptyInOrder ==
    /\ Sorted(<<>>)
    /\ \A n : UpTo(<<>>, n)
    /\ \A t : Before(<<>>, t) /\ Before(t, <<>>)
BY EmptySeqFacts DEF Sorted, UpTo, Before

OrderInv ==
    /\ Sorted(received) /\ Sorted(channel) /\ Sorted(batch)
    /\ Before(received, channel) /\ Before(received, batch)
    /\ Before(channel, batch)
    /\ UpTo(received, last_ts_ns) /\ UpTo(channel, last_ts_ns)
    /\ UpTo(batch, last_ts_ns)

\* Every step keeps the three stages in order: a frame enters the batch only
\* if it is not older than last_ts_ns, and moves on only from the front.
LEMMA OrderStep == TypeOK /\ OrderInv /\ [Next]_vars => OrderInv'
<1> SUFFICES ASSUME TypeOK, OrderInv, [Next]_vars PROVE OrderInv'
  OBVIOUS
<1>0. /\ ring \in Seq(Records) /\ batch \in Seq(Frames)
      /\ channel \in Seq(Frames) /\ received \in Seq(Frames)
      /\ last_ts_ns \in Nat /\ Len(batch) <= BATCH_SIZE
  BY DEF TypeOK
<1>1. CASE UNCHANGED <<batch, channel, received, last_ts_ns>>
  BY <1>1 DEF OrderInv
<1>2. CASE StartBatch
  BY <1>2, EmptyInOrder DEF OrderInv, StartBatch, KeepPolling, ResetDrained,
              channelVars, historyVars
<1>3. CASE KeepFrame
  <2> DEFINE f == Head(ring).frame
  <2>1. f \in Frames /\ f.timestamp_ns \in Nat
    BY <1>0, <1>3, TailFacts, FrameFacts DEF KeepFrame, TakeRecord
  <2>2. last_ts_ns <= f.timestamp_ns /\ last_ts_ns' = f.timestamp_ns
    BY <1>0, <1>3, <2>1 DEF KeepFrame, Regressed
  <2>3. UNCHANGED <<channel, received>>
    BY <1>3 DEF KeepFrame, TakeRecord, channelVars
  <2>4. /\ UpTo(received, f.timestamp_ns) /\ UpTo(channel, f.timestamp_ns)
        /\ UpTo(batch, f.timestamp_ns)
    BY <1>0, <2>1, <2>2, UpToRaise DEF OrderInv
  <2>5. f.timestamp_ns <= f.timestamp_ns
    BY <2>1
  <2>6. /\ Sorted(Append(batch, f))
        /\ Before(received, Append(batch, f)) /\ Before(channel, Append(batch,
              f))
        /\ UpTo(Append(batch, f), f.timestamp_ns)
    BY <1>0, <2>1, <2>4, <2>5, SortedAppend, BeforeAppendRight, UpToAppend
       DEF OrderInv
  <2>7. batch' = batch \/ batch' = Append(batch, f)
    BY <1>3 DEF KeepFrame, TryPush
  <2> HIDE DEF f
  <2> QED
    BY <2>2, <2>3, <2>4, <2>6, <2>7 DEF OrderInv
<1>4. CASE DispatchSent
  <2>1. /\ batch # <<>> /\ batch' = Tail(batch)
        /\ channel' = Append(channel, Head(batch))
        /\ UNCHANGED <<received, last_ts_ns>>
    BY <1>4 DEF DispatchSent, NextOfBatch, RestOfBatch
  <2>2. Head(batch) \in Frames /\ Tail(batch) \in Seq(Frames)
    BY <1>0, <2>1, TailFacts
  <2>3. /\ Sorted(Tail(batch)) /\ From(Head(batch).timestamp_ns, Tail(batch))
        /\ UpTo(Tail(batch),
              last_ts_ns) /\ Head(batch).timestamp_ns <= last_ts_ns
        /\ Before(received, Tail(batch)) /\ UpTo(received,
              Head(batch).timestamp_ns)
        /\ Before(channel, Tail(batch)) /\ UpTo(channel,
              Head(batch).timestamp_ns)
    BY <1>0, <2>1, TakeOldest DEF OrderInv
  <2>4. /\ Sorted(channel') /\ Before(received, channel')
        /\ Before(channel', Tail(batch)) /\ UpTo(channel', last_ts_ns)
    BY <1>0, <2>1, <2>2, <2>3, SortedAppend, BeforeAppendRight,
       BeforeAppendLeft, UpToAppend DEF OrderInv
  <2> QED
    BY <2>1, <2>3, <2>4 DEF OrderInv
<1>5. CASE DispatchFull \/ DispatchDisconnected
  <2>1. /\ batch # <<>> /\ batch' = Tail(batch)
        /\ UNCHANGED <<channel, received, last_ts_ns>>
    BY <1>5 DEF DispatchFull, DispatchDisconnected, NextOfBatch, RestOfBatch
  <2>2. /\ Sorted(Tail(batch)) /\ UpTo(Tail(batch), last_ts_ns)
        /\ Before(received, Tail(batch)) /\ Before(channel, Tail(batch))
    BY <1>0, <2>1, TakeOldest DEF OrderInv
  <2> QED
    BY <2>1, <2>2 DEF OrderInv
<1>6. CASE Receive
  <2>1. /\ channel # <<>> /\ channel' = Tail(channel)
        /\ received' = Append(received, Head(channel))
        /\ UNCHANGED <<batch, last_ts_ns>>
    BY <1>6 DEF Receive, workerVars
  <2>2. Head(channel) \in Frames /\ Tail(channel) \in Seq(Frames)
    BY <1>0, <2>1, TailFacts
  <2>3. /\ Sorted(Tail(channel)) /\ From(Head(channel).timestamp_ns, Tail(channel))
        /\ UpTo(Tail(channel), last_ts_ns)
        /\ Head(channel).timestamp_ns <= last_ts_ns
        /\ Before(received, Tail(channel))
        /\ UpTo(received, Head(channel).timestamp_ns)
        /\ Before(Tail(channel), batch) /\ From(Head(channel).timestamp_ns,
              batch)
    BY <1>0, <2>1, TakeOldest DEF OrderInv
  <2>4. /\ Sorted(received') /\ Before(received', Tail(channel))
        /\ Before(received', batch) /\ UpTo(received', last_ts_ns)
    BY <1>0, <2>1, <2>2, <2>3, SortedAppend, BeforeAppendLeft, UpToAppend
       DEF OrderInv
  <2> QED
    BY <2>1, <2>3, <2>4 DEF OrderInv
<1>7. CASE ArenaExits
  BY <1>7, EmptyInOrder DEF OrderInv, ArenaExits, workerVars
<1>8. CASE UNCHANGED vars
  BY <1>1, <1>8 DEF vars, workerVars, channelVars, historyVars
<1>9. CASE Pin \/ PinFails \/ ExitPollLoop \/ EndDrain \/ Yield \/ ProcessEnds
  BY <1>1, <1>9 DEF Pin, PinFails, ExitPollLoop,
              ProcessEnds, MayExit, DropSender,
              EndDrain, Yield,
                    channelVars, historyVars
<1>10. CASE DropBadSize \/ DropRegressed
  BY <1>1, <1>10 DEF DropBadSize, DropRegressed, TakeRecord, channelVars
<1>11. CASE RecordOk \/ HangUp
  BY <1>1, <1>11 DEF RecordOk, HangUp, SenderGone, workerVars, channelVars,
              historyVars
<1>12. ASSUME NEW r \in Records, Commit(r) PROVE OrderInv'
  BY <1>1, <1>12 DEF Commit, workerVars, channelVars, historyVars
<1>13. CASE RequestShutdown
  BY <1>1, <1>13 DEF RequestShutdown, workerVars, channelVars
<1> QED
  BY <1>2, <1>3, <1>4, <1>5, <1>6, <1>7, <1>8, <1>9, <1>10, <1>11, <1>12, <1>13
     DEF Next, WorkerStep, ArenaStep

(***************************************************************************)
(* The inductive invariant and what follows from it.                       *)
(***************************************************************************)

IInv ==
    /\ TypeOK
    /\ ControlInv
    /\ Accounting
    /\ SentIsCounted
    /\ StopInv
    /\ SilenceInv
    /\ OrderInv

\* The worker starts with nothing held, nothing counted and no flag set.
LEMMA IInvInit == Init => IInv
<1> SUFFICES ASSUME Init PROVE IInv
  OBVIOUS
<1>1. TypeOK
  BY TypeInit
<1>2. /\ batch = <<>> /\ channel = <<>> /\ received = <<>>
      /\ worker_pc = "pin" /\ tx = TRUE /\ rx = TRUE /\ shutdown = FALSE
      /\ frames_ok = 0 /\ frames_dropped = 0 /\ channel_full = 0
      /\ taken = 0 /\ disconnected = 0 /\ purged = 0
  BY DEF Init, WorkerInit, ChannelInit, MetricsInit
<1>3. ControlInv /\ StopInv /\ SilenceInv
  BY <1>2 DEF ControlInv, StopInv, SilenceInv
<1>4. Accounting /\ SentIsCounted
  BY <1>2, EmptySeqFacts DEF Accounting, SentIsCounted, Uncounted
<1>5. OrderInv
  BY <1>2, EmptyInOrder DEF OrderInv
<1> QED
  BY <1>1, <1>3, <1>4, <1>5 DEF IInv

\* Every step of every thread preserves the inductive invariant.
LEMMA IInvStep == IInv /\ [Next]_vars => IInv'
BY TypeStep, ControlStep, CountStep, StopStep, SilenceStep, OrderStep DEF IInv

\* The inductive invariant holds throughout every behaviour.
LEMMA IInvAlways == Spec => []IInv
BY IInvInit, IInvStep, PTL DEF Spec

\* No record the worker takes off the ring is lost or counted twice by
\* vacuum_entry and try_dispatch, and try_push never refuses a frame.
THEOREM AccountingHolds == Spec => []Accounting
<1>1. IInv => Accounting
  BY DEF IInv
<1> QED
  BY <1>1, IInvAlways, PTL

\* frames_ok counts the frames that reached the channel, no more and no fewer.
THEOREM SentIsCountedHolds == Spec => []SentIsCounted
<1>1. IInv => SentIsCounted
  BY DEF IInv
<1> QED
  BY <1>1, IInvAlways, PTL

\* The arena never sees a timestamp go backwards, whatever the producers
\* commit and whichever frames are lost on the way.
THEOREM DeliveredInOrderHolds == Spec => []DeliveredInOrder
<1>1. IInv => DeliveredInOrder
  BY LenProperties DEF IInv, TypeOK, OrderInv, Sorted, DeliveredInOrder
<1> QED
  BY <1>1, IInvAlways, PTL

\* A worker that has left its poll loop holds no validated frame.
THEOREM NothingAbandonedHolds == Spec => []NothingAbandoned
<1>1. IInv => NothingAbandoned
  BY DEF IInv, ControlInv, NothingAbandoned
<1> QED
  BY <1>1, IInvAlways, PTL

\* After the shutdown flag is set at most one more batch leaves the ring.
THEOREM StopIsPromptHolds == Spec => []StopIsPrompt
<1>1. IInv => StopIsPrompt
  BY DEF IInv, StopInv, StopIsPrompt
<1> QED
  BY <1>1, IInvAlways, PTL

\* With the consumer thread of main.rs no frame is dropped without a count.
THEOREM NoSilentLossHolds == Spec => []NoSilentLoss
<1>1. IInv => NoSilentLoss
  BY DEF IInv, SilenceInv, NoSilentLoss
<1> QED
  BY <1>1, IInvAlways, PTL
=============================================================================

--------------------------- MODULE PipelineProofs ---------------------------
(***************************************************************************)
(* Proofs about Pipeline, for any number of CPUs and every capacity: the   *)
(* XDP program and the vacuum worker, proved about alone, keep what was    *)
(* proved when each runs against the other, and what follows end to end.   *)
(***************************************************************************)
EXTENDS Pipeline, TallyProofs, SequenceTheorems

\* The two halves with the lemmas proved about them.
K == INSTANCE XdpIngressProofs

W == INSTANCE VacuumRefinement WITH
    Records      <- SignalRecords,
    ArenaMayExit <- FALSE,
    MaxProduced  <- Cardinality(CPUS) * MAXPPS_THRESHOLD

\* The halves that Pipeline composes are those the lemmas are about.
LEMMA SameParser ==
    ASSUME NEW p
    PROVE  K!inspect(p) = Kernel!inspect(p)
BY DEF K!inspect, Kernel!inspect, K!IsSignal, Kernel!IsSignal, K!Extract,
       Kernel!Extract, K!Fits, Kernel!Fits, K!be16, Kernel!be16, K!be32,
       Kernel!be32, K!ETH_P_IP, Kernel!ETH_P_IP, K!IPPROTO_TCP,
       Kernel!IPPROTO_TCP, K!IPPROTO_UDP, Kernel!IPPROTO_UDP

\* ... step by step of a CPU,
LEMMA SameStep == K!KernelStep <=> Kernel!KernelStep
<1> USE DEF K!vars, Kernel!vars, K!kernelVars, Kernel!kernelVars
<1>1. ASSUME NEW p PROVE K!flow_hash(K!inspect(p)) = Kernel!flow_hash(Kernel!inspect(p))
  BY SameParser DEF K!flow_hash, Kernel!flow_hash, K!FiveTuple,
                   Kernel!FiveTuple
<1>2. ASSUME NEW p PROVE K!Denied(p) <=> Kernel!Denied(p)
  BY <1>1 DEF K!Denied, Kernel!Denied, K!deny_check, Kernel!deny_check
<1>3. ASSUME NEW c, NEW p PROVE K!PassNonSignal(c, p) <=> Kernel!PassNonSignal(c, p)
  BY SameParser DEF K!PassNonSignal, Kernel!PassNonSignal
<1>4. ASSUME NEW c, NEW p PROVE K!Inspected(c, p) <=> Kernel!Inspected(c, p)
  BY SameParser DEF K!Inspected, Kernel!Inspected
<1>5. ASSUME NEW c, NEW p PROVE K!PassDenied(c, p) <=> Kernel!PassDenied(c, p)
  BY <1>2, <1>4 DEF K!PassDenied, Kernel!PassDenied
<1>6. ASSUME NEW c, NEW p PROVE K!PassRateLimited(c, p) <=> Kernel!PassRateLimited(c, p)
  BY <1>2, <1>4 DEF K!PassRateLimited, Kernel!PassRateLimited,
                   K!OverThreshold, Kernel!OverThreshold
<1>7. ASSUME NEW c, NEW p
      PROVE  K!BuildFrame(c, K!inspect(p)) = Kernel!BuildFrame(c, Kernel!inspect(p))
  BY <1>1, SameParser DEF K!BuildFrame, Kernel!BuildFrame, K!zeroed,
                         Kernel!zeroed, K!pps_delta, Kernel!pps_delta,
                         K!AtMost, Kernel!AtMost
<1>8. ASSUME NEW c, NEW p PROVE K!Accept(c, p) <=> Kernel!Accept(c, p)
  BY <1>2, <1>4, <1>7 DEF K!Accept, Kernel!Accept, K!Charge, Kernel!Charge,
                         K!OverThreshold, Kernel!OverThreshold
<1>9. ASSUME NEW c PROVE K!Finish(c) <=> Kernel!Finish(c)
  BY DEF K!Finish, Kernel!Finish, K!Stamp, Kernel!Stamp, K!bpf_ktime_get_ns,
         Kernel!bpf_ktime_get_ns, K!OutputOk, Kernel!OutputOk, K!OutputFull,
         Kernel!OutputFull, K!Record, Kernel!Record, K!Return,
         Kernel!Return, K!Refuse, Kernel!Refuse
<1>10. K!Tick <=> Kernel!Tick
  BY DEF K!Tick, Kernel!Tick
<1>11. ASSUME NEW i PROVE K!WriteDeny(i) <=> Kernel!WriteDeny(i)
  BY DEF K!WriteDeny, Kernel!WriteDeny
<1> QED
  BY <1>3, <1>5, <1>6, <1>8, <1>9, <1>10, <1>11
     DEF K!KernelStep, Kernel!KernelStep, K!Arrive, Kernel!Arrive

\* ... and step by step of the userspace threads.
LEMMA SameThreads ==
    /\ W!WorkerStep <=> Worker!WorkerStep
    /\ W!ArenaStep <=> Worker!ArenaStep
    /\ W!RequestShutdown <=> Worker!RequestShutdown
    /\ W!ProcessEnds <=> Worker!ProcessEnds
<1> USE DEF W!workerVars, Worker!workerVars, W!channelVars,
            Worker!channelVars, W!metricVars, Worker!metricVars,
            W!historyVars, Worker!historyVars
<1>1. W!Pin <=> Worker!Pin
  BY DEF W!Pin, Worker!Pin
<1>2. W!PinFails <=> Worker!PinFails
  BY DEF W!PinFails, Worker!PinFails
<1>3. W!ExitPollLoop <=> Worker!ExitPollLoop
  BY DEF W!ExitPollLoop, Worker!ExitPollLoop, W!MayExit, Worker!MayExit,
         W!DropSender, Worker!DropSender
<1>4. W!StartBatch <=> Worker!StartBatch
  BY DEF W!StartBatch, Worker!StartBatch, W!KeepPolling, Worker!KeepPolling,
         W!ResetDrained, Worker!ResetDrained
<1>5. W!TakeRecord <=> Worker!TakeRecord
  BY DEF W!TakeRecord, Worker!TakeRecord, W!MoreToDrain, Worker!MoreToDrain
<1>6. W!DropBadSize <=> Worker!DropBadSize
  BY <1>5 DEF W!DropBadSize, Worker!DropBadSize, W!WellSized, Worker!WellSized,
         W!record_drop, Worker!record_drop
<1>7. W!DropRegressed <=> Worker!DropRegressed
  BY <1>5 DEF W!DropRegressed, Worker!DropRegressed, W!WellSized,
         Worker!WellSized, W!Regressed, Worker!Regressed, W!record_drop,
         Worker!record_drop
<1>8. W!KeepFrame <=> Worker!KeepFrame
  BY <1>5 DEF W!KeepFrame, Worker!KeepFrame, W!WellSized, Worker!WellSized,
         W!Regressed, Worker!Regressed, W!TryPush, Worker!TryPush
<1>9. W!EndDrain <=> Worker!EndDrain
  BY DEF W!EndDrain, Worker!EndDrain, W!MoreToDrain, Worker!MoreToDrain
<1>10. W!NextOfBatch <=> Worker!NextOfBatch
  BY DEF W!NextOfBatch, Worker!NextOfBatch, W!RestOfBatch,
         Worker!RestOfBatch
<1>11. W!DispatchSent <=> Worker!DispatchSent
  BY <1>10 DEF W!DispatchSent, Worker!DispatchSent
<1>12. W!DispatchFull <=> Worker!DispatchFull
  BY <1>10 DEF W!DispatchFull, Worker!DispatchFull, W!record_channel_full,
         Worker!record_channel_full
<1>13. W!DispatchDisconnected <=> Worker!DispatchDisconnected
  BY <1>10 DEF W!DispatchDisconnected, Worker!DispatchDisconnected
<1>14. W!RecordOk <=> Worker!RecordOk
  BY DEF W!RecordOk, Worker!RecordOk, W!record_ok, Worker!record_ok
<1>15. W!Yield <=> Worker!Yield
  BY DEF W!Yield, Worker!Yield
<1>16. W!Receive <=> Worker!Receive
  BY DEF W!Receive, Worker!Receive, W!Alive, Worker!Alive
<1>17. W!HangUp <=> Worker!HangUp
  BY DEF W!HangUp, Worker!HangUp, W!Alive, Worker!Alive, W!SenderGone,
         Worker!SenderGone
<1>18. W!RequestShutdown <=> Worker!RequestShutdown
  BY DEF W!RequestShutdown, Worker!RequestShutdown, W!Alive, Worker!Alive
<1>19. W!ProcessEnds <=> Worker!ProcessEnds
  BY DEF W!ProcessEnds, Worker!ProcessEnds
<1> QED
  BY <1>1, <1>2, <1>3, <1>4, <1>6, <1>7, <1>8, <1>9, <1>11, <1>12,
     <1>13, <1>14, <1>15, <1>16, <1>17, <1>18, <1>19
     DEF W!WorkerStep, Worker!WorkerStep, W!ArenaStep, Worker!ArenaStep
(***************************************************************************)
(* The inductive invariant: those of the two halves, and what ties them.   *)
(***************************************************************************)

\* Frames on the stacks of the CPUs, and frames that have left them.
OnStacks == [c \in CPUS |-> Kernel!InFlight(c)]
OffStacks == [c \in CPUS |-> K!Finished(c)]

\* What the CPUs were charged for and is off their stacks was refused by the
\* ring, is in it, or was taken by the worker.
BooksInv ==
    Total(PPS_COUNTERS) = Total(OnStacks) + Total(ring_lost) + Len(ring) + taken

Later(e, f) == e.cpu_id = f.cpu_id => e.pps_delta < f.pps_delta

\* Along the path, from the oldest frame delivered (in r) to the youngest one
\* committed (at the end of q), the frames of a CPU have growing pps_delta,
\* all below the number n of its frames that have left its stack.
InPathOrder(q, r, n) ==
    /\ \A i, j \in 1..Len(q) : i < j => Later(q[i], q[j])
    /\ \A i \in 1..Len(r) : \A j \in 1..Len(q) : Later(r[i], q[j])
    /\ \A i, j \in 1..Len(r) : i < j => Later(r[i], r[j])
    /\ \A i \in 1..Len(q) : q[i].pps_delta < n[q[i].cpu_id]
    /\ \A i \in 1..Len(r) : r[i].pps_delta < n[r[i].cpu_id]

PathInv == InPathOrder(W!InTransit, received, OffStacks)

PInv ==
    /\ K!IInv
    /\ W!IInv
    /\ BooksInv
    /\ PathInv
(***************************************************************************)
(* How the path keeps its order.                                           *)
(***************************************************************************)

\* A bound that grows stays a bound; a frame at it comes after those below.
LEMMA BelowFacts ==
    ASSUME NEW e, NEW f, NEW m \in [CPUS -> Int], NEW n \in [CPUS -> Int],
           \A c \in CPUS : m[c] <= n[c], e.cpu_id \in CPUS,
           e.pps_delta \in Nat, e.pps_delta < m[e.cpu_id]
    PROVE  /\ e.pps_delta < n[e.cpu_id]
           /\ f.pps_delta = m[f.cpu_id] => Later(e, f)
<1>1. /\ m[e.cpu_id] \in Int /\ n[e.cpu_id] \in Int
      /\ m[e.cpu_id] <= n[e.cpu_id]
  OBVIOUS
<1>2. e.pps_delta < n[e.cpu_id]
  BY <1>1
<1> QED
  BY <1>2 DEF Later

\* A frame with the number its CPU has reached joins at the end.
LEMMA PathOffer ==
    ASSUME NEW F, \A f \in F : f.pps_delta \in Nat /\ f.cpu_id \in CPUS,
           NEW q \in Seq(F), NEW r \in Seq(F), NEW f \in F,
           NEW m \in [CPUS -> Int], NEW n \in [CPUS -> Int],
           InPathOrder(q, r, m), \A c \in CPUS : m[c] <= n[c],
           f.pps_delta = m[f.cpu_id], f.pps_delta < n[f.cpu_id]
    PROVE  InPathOrder(Append(q, f), r, n)
<1> DEFINE s == Append(q, f)
<1>1. /\ Len(q) \in Nat /\ Len(s) = Len(q) + 1 /\ s[Len(q) + 1] = f
      /\ \A i \in 1..Len(q) : s[i] = q[i]
  BY AppendProperties, LenProperties
<1> HIDE DEF s
<1>2. /\ \A i \in 1..Len(q) : q[i] \in F /\ q[i].pps_delta < m[q[i].cpu_id]
      /\ \A i \in 1..Len(r) : r[i] \in F /\ r[i].pps_delta < m[r[i].cpu_id]
  BY ElementOfSeq DEF InPathOrder
<1>3. /\ \A i \in 1..Len(q) : q[i].pps_delta < n[q[i].cpu_id] /\ Later(q[i], f)
      /\ \A i \in 1..Len(r) : r[i].pps_delta < n[r[i].cpu_id] /\ Later(r[i], f)
  BY <1>2, BelowFacts
<1>4. \A i \in 1..Len(s) : i \in 1..Len(q) \/ i = Len(q) + 1
  BY <1>1
<1>5. ASSUME NEW i \in 1..Len(s), NEW j \in 1..Len(s), i < j
      PROVE  Later(s[i], s[j])
  <2>1. i \in 1..Len(q)
    BY <1>1, <1>5
  <2>2. CASE j \in 1..Len(q)
    BY <1>1, <1>5, <2>1, <2>2 DEF InPathOrder
  <2>3. CASE j = Len(q) + 1
    BY <1>1, <1>3, <2>1, <2>3
  <2> QED
    BY <1>4, <2>2, <2>3
<1>6. ASSUME NEW i \in 1..Len(r), NEW j \in 1..Len(s) PROVE Later(r[i], s[j])
  BY <1>1, <1>3, <1>4 DEF InPathOrder
<1>7. ASSUME NEW i \in 1..Len(s) PROVE s[i].pps_delta < n[s[i].cpu_id]
  BY <1>1, <1>3, <1>4
<1>8. InPathOrder(s, r, n)
  BY <1>3, <1>5, <1>6, <1>7 DEF InPathOrder
<1> QED
  BY <1>8 DEF s

\* Frames leave stacks by other ways: the bounds only grow.
LEMMA PathGrow ==
    ASSUME NEW F, \A f \in F : f.pps_delta \in Nat /\ f.cpu_id \in CPUS,
           NEW q \in Seq(F), NEW r \in Seq(F),
           NEW m \in [CPUS -> Int], NEW n \in [CPUS -> Int],
           InPathOrder(q, r, m), \A c \in CPUS : m[c] <= n[c]
    PROVE  InPathOrder(q, r, n)
<1>1. /\ \A i \in 1..Len(q) : q[i] \in F /\ q[i].pps_delta < m[q[i].cpu_id]
      /\ \A i \in 1..Len(r) : r[i] \in F /\ r[i].pps_delta < m[r[i].cpu_id]
  BY ElementOfSeq DEF InPathOrder
<1>2. /\ \A i \in 1..Len(q) : q[i].pps_delta < n[q[i].cpu_id]
      /\ \A i \in 1..Len(r) : r[i].pps_delta < n[r[i].cpu_id]
  BY <1>1, BelowFacts
<1> QED
  BY <1>2 DEF InPathOrder

\* A run of neighbouring frames disappears.
LEMMA PathLose ==
    ASSUME NEW F, NEW q \in Seq(F), NEW r, NEW m, InPathOrder(q, r, m),
           NEW i \in 1..Len(q), NEW j \in i..Len(q)
    PROVE  InPathOrder(SubSeq(q, 1, i - 1) \o SubSeq(q, j + 1, Len(q)), r, m)
<1> DEFINE a == SubSeq(q, 1, i - 1)
           b == SubSeq(q, j + 1, Len(q))
           s == a \o b
           o(k) == IF k < i THEN k ELSE k + (j + 1 - i)
<1>1. Len(q) \in Nat /\ \A k \in 1..Len(q) : q[k] \in F
  BY LenProperties, ElementOfSeq
<1>2. a \in Seq(F) /\ Len(a) = i - 1 /\ \A k \in 1..(i - 1) : a[k] = q[k]
  BY <1>1, SubSeqProperties
<1>3. /\ b \in Seq(F) /\ Len(b) = Len(q) - j
      /\ \A k \in 1..(Len(q) - j) : b[k] = q[j + k]
  BY <1>1, SubSeqProperties
<1> HIDE DEF a, b
<1>4. /\ Len(s) = (i - 1) + (Len(q) - j)
      /\ \A k \in 1..Len(s) :
             s[k] = IF k <= i - 1 THEN a[k] ELSE b[k - (i - 1)]
  <2>1. /\ Len(s) = Len(a) + Len(b)
        /\ \A k \in 1..(Len(a) + Len(b)) :
               s[k] = IF k <= Len(a) THEN a[k] ELSE b[k - Len(a)]
    BY <1>2, <1>3, ConcatProperties
  <2> HIDE DEF s
  <2> QED
    BY <1>2, <1>3, <2>1
<1> HIDE DEF s
<1>5. ASSUME NEW k \in 1..Len(s)
      PROVE  o(k) \in 1..Len(q) /\ s[k] = q[o(k)]
  <2>1. CASE k < i
    BY <1>1, <1>2, <1>4, <2>1
  <2>2. CASE ~(k < i)
    <3>1. /\ k - (i - 1) \in 1..(Len(q) - j) /\ ~(k <= i - 1)
          /\ j + (k - (i - 1)) = o(k) /\ o(k) \in 1..Len(q)
      BY <1>1, <1>4, <2>2
    <3> QED
      BY <1>3, <1>4, <3>1
  <2> QED
    BY <2>1, <2>2
<1>6. ASSUME NEW k \in 1..Len(s), NEW l \in 1..Len(s), k < l
      PROVE  o(k) < o(l)
  BY <1>1, <1>4, <1>6
<1> HIDE DEF o
<1>7. InPathOrder(s, r, m)
  BY <1>5, <1>6 DEF InPathOrder
<1> QED
  BY <1>7 DEF s, a, b

\* The oldest frame under way is delivered.
LEMMA PathDeliver ==
    ASSUME NEW F, NEW q \in Seq(F), NEW r \in Seq(F), NEW m,
           InPathOrder(q, r, m), q # <<>>
    PROVE  InPathOrder(Tail(q), Append(r, Head(q)), m)
<1> DEFINE s == Tail(q)
           t == Append(r, Head(q))
<1>1. /\ Len(q) \in Nat \ {0} /\ Head(q) = q[1] /\ Head(q) \in F
      /\ Len(s) = Len(q) - 1 /\ \A i \in 1..Len(s) : s[i] = q[i + 1]
  BY HeadTailProperties, EmptySeq, LenProperties
<1>2. /\ Len(r) \in Nat /\ Len(t) = Len(r) + 1 /\ t[Len(r) + 1] = q[1]
      /\ \A i \in 1..Len(r) : t[i] = r[i]
  BY <1>1, AppendProperties, LenProperties
<1> HIDE DEF s, t
<1>3. /\ 1 \in 1..Len(q)
      /\ \A i \in 1..Len(s) : i + 1 \in 1..Len(q) /\ 1 < i + 1
      /\ \A i \in 1..Len(t) : i \in 1..Len(r) \/ i = Len(r) + 1
  BY <1>1, <1>2
<1>4. ASSUME NEW i \in 1..Len(s), NEW j \in 1..Len(s), i < j
      PROVE  Later(s[i], s[j])
  <2>1. i + 1 < j + 1
    BY <1>1, <1>4
  <2> QED
    BY <1>1, <1>3, <2>1 DEF InPathOrder
<1>5. ASSUME NEW i \in 1..Len(t), NEW j \in 1..Len(s) PROVE Later(t[i], s[j])
  BY <1>1, <1>2, <1>3 DEF InPathOrder
<1>6. ASSUME NEW i \in 1..Len(t), NEW j \in 1..Len(t), i < j
      PROVE  Later(t[i], t[j])
  <2>1. i \in 1..Len(r)
    BY <1>2, <1>6
  <2> QED
    BY <1>2, <1>3, <1>6, <2>1 DEF InPathOrder
<1>7. ASSUME NEW i \in 1..Len(s) PROVE s[i].pps_delta < m[s[i].cpu_id]
  BY <1>1, <1>3 DEF InPathOrder
<1>8. ASSUME NEW i \in 1..Len(t) PROVE t[i].pps_delta < m[t[i].cpu_id]
  BY <1>1, <1>2, <1>3 DEF InPathOrder
<1>9. InPathOrder(s, t, m)
  BY <1>4, <1>5, <1>6, <1>7, <1>8 DEF InPathOrder
<1> QED
  BY <1>9 DEF s, t
(***************************************************************************)
(* What the halves assume of the constants, and their data.                *)
(***************************************************************************)

\* The assumptions of XdpIngress.
LEMMA KernelAssumption ==
    /\ CPUS \subseteq Nat /\ K!IsFiniteSet(CPUS)
    /\ U32 \in Nat \ {0}
    /\ DENY_ENTRIES \in Nat \ {0}
    /\ MAXPPS_THRESHOLD \in 1..U32
    /\ RING_CAPACITY \in Nat \ {0}
    /\ SIGNAL_FRAME_SIZE \in Nat
    /\ MaxClock \in Nat
    /\ \A v \in K!Views : K!flow_hash(v) \in 0..(U32 - 1)
    /\ None \notin K!Frames
<1>1. K!IsFiniteSet(CPUS)
  BY PipelineAssumption DEF IsFiniteSet, K!IsFiniteSet
<1>2. K!Views = Kernel!Views
  BY SameParser, Zenon DEF K!Views, Kernel!Views
<1>3. \A v : K!flow_hash(v) = Kernel!flow_hash(v)
  BY DEF K!flow_hash, Kernel!flow_hash, K!FiveTuple, Kernel!FiveTuple
<1>4. K!Frames = Kernel!Frames
  BY <1>2, <1>3 DEF K!Frames, Kernel!Frames
<1> QED
  BY <1>1, <1>2, <1>3, <1>4, PipelineAssumption

\* The records of the kernel half, as the worker sees them.
LEMMA RecordFacts ==
    /\ SignalRecords = K!Records
    /\ W!Frames = K!Frames
    /\ \A f \in K!Frames : /\ K!Record(f) \in SignalRecords
                           /\ K!Record(f).frame = f
                           /\ K!Record(f).len = SIGNAL_FRAME_SIZE
                           /\ f.pps_delta \in Nat /\ f.cpu_id \in CPUS
                           /\ f.timestamp_ns \in Nat
<1>1. K!Views = Kernel!Views
  BY SameParser, Zenon DEF K!Views, Kernel!Views
<1>2. \A v : K!flow_hash(v) = Kernel!flow_hash(v)
  BY DEF K!flow_hash, Kernel!flow_hash, K!FiveTuple, Kernel!FiveTuple
<1>3. K!Frames = Kernel!Frames
  BY <1>1, <1>2 DEF K!Frames, Kernel!Frames
<1>4. SignalRecords = K!Records
  BY <1>3 DEF SignalRecords, K!Records, Kernel!Records, K!Record, Kernel!Record
<1>5. \A f \in K!Frames : /\ K!Record(f) \in SignalRecords
                          /\ K!Record(f).frame = f
                          /\ K!Record(f).len = SIGNAL_FRAME_SIZE
  BY <1>4 DEF K!Records, K!Record
<1>6. W!Frames = K!Frames
  <2>1. \A r \in SignalRecords : \E f \in K!Frames : r = K!Record(f)
    BY <1>4 DEF K!Records
  <2>2. ASSUME NEW f \in W!Frames PROVE f \in K!Frames
    BY <1>5, <2>1 DEF W!Frames
  <2>3. ASSUME NEW f \in K!Frames PROVE f \in W!Frames
    BY <1>5 DEF W!Frames
  <2> QED
    BY <2>2, <2>3
<1>7. \A f \in K!Frames : /\ f.pps_delta \in Nat /\ f.cpu_id \in CPUS
                          /\ f.timestamp_ns \in Nat
  BY PipelineAssumption DEF K!Frames
<1> QED
  BY <1>4, <1>5, <1>6, <1>7

\* The assumptions of Vacuum.
LEMMA WorkerAssumption ==
    /\ SIGNAL_FRAME_SIZE \in Nat
    /\ BATCH_SIZE \in Nat \ {0}
    /\ DISPATCH_CAPACITY \in Nat \ {0}
    /\ RING_CAPACITY \in Nat \ {0}
    /\ Cardinality(CPUS) * MAXPPS_THRESHOLD \in Nat
    /\ FALSE \in BOOLEAN
    /\ \A r \in SignalRecords : r.len \in Nat /\ r.frame.timestamp_ns \in Nat
<1>1. Cardinality(CPUS) \in Nat /\ MAXPPS_THRESHOLD \in Nat
  BY PipelineAssumption, FS_CardinalityType
<1>2. \A r \in SignalRecords : r.len \in Nat /\ r.frame.timestamp_ns \in Nat
  BY RecordFacts, PipelineAssumption DEF K!Records, K!Record
<1> QED
  BY <1>1, <1>2, PipelineAssumption

(***************************************************************************)
(* A step of the kernel half.                                              *)
(***************************************************************************)

\* The counter f of CPU c moves up by one, to g.
Bump(f, g, c) == \A d \in CPUS : g[d] = IF d = c THEN f[d] + 1 ELSE f[d]

\* What a step of the kernel half does to what the other half can see or the
\* books contain: nothing; it charges a packet; or it outputs a frame.
LEMMA KernelEffect ==
    ASSUME K!IInv, KernelStep
    PROVE  \/ UNCHANGED <<PPS_COUNTERS, OnStacks, ring_lost, ring>>
           \/ \E c \in CPUS :
                 /\ Bump(PPS_COUNTERS, PPS_COUNTERS', c)
                 /\ Bump(OnStacks, OnStacks', c)
                 /\ UNCHANGED <<ring_lost, ring>>
           \/ \E c \in CPUS :
                 /\ Bump(OnStacks', OnStacks, c)
                 /\ Bump(ring_lost, ring_lost', c)
                 /\ UNCHANGED <<PPS_COUNTERS, ring>>
           \/ \E c \in CPUS :
                 /\ Bump(OnStacks', OnStacks, c)
                 /\ UNCHANGED <<PPS_COUNTERS, ring_lost>>
                 /\ Len(ring) < RING_CAPACITY
                 /\ ring' = Append(ring, K!Record(frame[c]))
                 /\ frame[c] \in K!Frames
                 /\ frame[c].cpu_id = c
                 /\ frame[c].pps_delta = OffStacks[c]
<1>0. /\ pc \in [CPUS -> {"idle", "stamp", "output"}]
      /\ frame \in [CPUS -> K!Frames \cup {None}]
      /\ PPS_COUNTERS \in [CPUS -> 0..MAXPPS_THRESHOLD]
      /\ ring_lost \in [CPUS -> Nat]
      /\ K!StackInv /\ K!FlightInv
  BY DEF K!IInv, K!TypeOK, K!OrderInv
<1>1. K!KernelStep
  BY SameStep DEF KernelStep
<1>2. ASSUME NEW c \in CPUS, NEW p \in Packets, K!Accept(c, p)
      PROVE  /\ Bump(PPS_COUNTERS, PPS_COUNTERS', c)
             /\ Bump(OnStacks, OnStacks', c)
             /\ UNCHANGED <<ring_lost, ring>>
  BY <1>0, <1>2 DEF K!Accept, K!Inspected, K!Charge, Bump, OnStacks,
                    Kernel!InFlight
<1>3. ASSUME NEW c \in CPUS, K!Stamp(c)
      PROVE  UNCHANGED <<PPS_COUNTERS, OnStacks, ring_lost, ring>>
  BY <1>0, <1>3 DEF K!Stamp, OnStacks, Kernel!InFlight
<1>4. ASSUME NEW c \in CPUS, K!OutputFull(c)
      PROVE  /\ Bump(OnStacks', OnStacks, c)
             /\ Bump(ring_lost, ring_lost', c)
             /\ UNCHANGED <<PPS_COUNTERS, ring>>
  BY <1>0, <1>4 DEF K!OutputFull, K!Refuse, K!Return, Bump, OnStacks,
                    Kernel!InFlight
<1>5. ASSUME NEW c \in CPUS, K!OutputOk(c)
      PROVE  /\ Bump(OnStacks', OnStacks, c)
             /\ UNCHANGED <<PPS_COUNTERS, ring_lost>>
             /\ Len(ring) < RING_CAPACITY
             /\ ring' = Append(ring, K!Record(frame[c]))
             /\ frame[c] \in K!Frames
             /\ frame[c].cpu_id = c
             /\ frame[c].pps_delta = OffStacks[c]
  <2>1. pc[c] = "output" /\ frame[c] \in K!Frames
    BY <1>0, <1>5 DEF K!OutputOk, K!StackInv
  <2>2. frame[c].cpu_id = c /\ frame[c].pps_delta = OffStacks[c]
    BY <1>0, <2>1 DEF K!FlightInv, OffStacks
  <2>3. Bump(OnStacks', OnStacks, c)
    BY <1>0, <1>5 DEF K!OutputOk, K!Return, Bump, OnStacks, Kernel!InFlight
  <2> QED
    BY <1>5, <2>1, <2>2, <2>3 DEF K!OutputOk, K!Return
<1>6. ASSUME K!Tick \/ \E i \in 0..(DENY_ENTRIES - 1) : K!WriteDeny(i)
      PROVE  UNCHANGED <<PPS_COUNTERS, OnStacks, ring_lost, ring>>
  BY <1>6 DEF K!Tick, K!WriteDeny, OnStacks, Kernel!InFlight
<1>7. ASSUME NEW c \in CPUS, NEW p \in Packets,
             K!PassNonSignal(c, p) \/ K!PassDenied(c, p) \/ K!PassRateLimited(c, p)
      PROVE  UNCHANGED <<PPS_COUNTERS, OnStacks, ring_lost, ring>>
  BY <1>7 DEF K!PassNonSignal, K!PassDenied, K!PassRateLimited, K!vars,
              K!kernelVars, OnStacks, Kernel!InFlight
<1>8. CASE \E c \in CPUS, p \in Packets : K!Arrive(c, p)
  BY <1>2, <1>7, <1>8 DEF K!Arrive
<1>9. CASE \E c \in CPUS : K!Finish(c)
  BY <1>3, <1>4, <1>5, <1>9 DEF K!Finish
<1> QED
  BY <1>1, <1>6, <1>8, <1>9 DEF K!KernelStep
\* The sums of the books are numbers, and what a CPU may be charged is bounded.
LEMMA TotalFacts ==
    ASSUME K!TypeOK
    PROVE  /\ \A c \in CPUS : /\ PPS_COUNTERS[c] \in Nat /\ OnStacks[c] \in Nat
                              /\ ring_lost[c] \in Nat
           /\ Total(PPS_COUNTERS) \in Nat /\ Total(OnStacks) \in Nat
           /\ Total(ring_lost) \in Nat
           /\ Total(PPS_COUNTERS) <= Cardinality(CPUS) * MAXPPS_THRESHOLD
           /\ Len(ring) \in Nat
           /\ OffStacks \in [CPUS -> Int]
           /\ \A c \in CPUS : OffStacks[c] = PPS_COUNTERS[c] - OnStacks[c]
<1>1. /\ \A c \in CPUS : /\ PPS_COUNTERS[c] \in 0..MAXPPS_THRESHOLD
                         /\ ring_lost[c] \in Nat
      /\ ring \in Seq(K!Records)
      /\ MAXPPS_THRESHOLD \in Nat
  BY PipelineAssumption DEF K!TypeOK
<1>2. \A c \in CPUS : OnStacks[c] \in Nat
  BY DEF OnStacks, Kernel!InFlight
<1>3. \A c \in CPUS : PPS_COUNTERS[c] \in Nat
  BY <1>1
<1>4. IsFiniteSet(CPUS)
  BY PipelineAssumption
<1>5. /\ Total(PPS_COUNTERS) \in Nat /\ Total(OnStacks) \in Nat
      /\ Total(ring_lost) \in Nat
  BY <1>1, <1>2, <1>3, <1>4, SumFinite DEF Total
<1>6. Total(PPS_COUNTERS) <= Cardinality(CPUS) * MAXPPS_THRESHOLD
  BY <1>1, <1>4, SumBound DEF Total
<1>7. \A c \in CPUS : OffStacks[c] = PPS_COUNTERS[c] - OnStacks[c]
  BY DEF OffStacks, OnStacks, K!Finished, K!InFlight, Kernel!InFlight
<1>8. OffStacks \in [CPUS -> Int]
  <2>1. \A c \in CPUS : PPS_COUNTERS[c] - OnStacks[c] \in Int
    BY <1>2, <1>3
  <2>2. OffStacks = [c \in CPUS |-> PPS_COUNTERS[c] - OnStacks[c]]
    BY DEF OffStacks, OnStacks, K!Finished, K!InFlight, Kernel!InFlight
  <2> QED
    BY <2>1, <2>2
<1>9. Len(ring) \in Nat
  BY <1>1, LenProperties
<1> QED
  BY <1>1, <1>2, <1>3, <1>5, <1>6, <1>7, <1>8, <1>9

\* The same after a step.
LEMMA TotalFactsNext ==
    (K!TypeOK =>
        /\ \A c \in CPUS : /\ PPS_COUNTERS[c] \in Nat /\ OnStacks[c] \in Nat
                           /\ ring_lost[c] \in Nat
        /\ OffStacks \in [CPUS -> Int]
        /\ \A c \in CPUS : OffStacks[c] = PPS_COUNTERS[c] - OnStacks[c])'
<1>1. K!TypeOK =>
        /\ \A c \in CPUS : /\ PPS_COUNTERS[c] \in Nat /\ OnStacks[c] \in Nat
                           /\ ring_lost[c] \in Nat
        /\ OffStacks \in [CPUS -> Int]
        /\ \A c \in CPUS : OffStacks[c] = PPS_COUNTERS[c] - OnStacks[c]
  BY TotalFacts
<1> QED
  BY <1>1, PTL

\* A counter that moves up moves the total up.
LEMMA BumpTotal ==
    ASSUME NEW f, NEW g, NEW c \in CPUS, \A d \in CPUS : f[d] \in Nat, Bump(f, g, c)
    PROVE  Total(g) = Total(f) + 1
BY PipelineAssumption, SumIncrement DEF Bump, Total

\* The kernel half keeps its invariant, whoever consumes the ring.
LEMMA KernelKept ==
    ASSUME K!IInv, K!KernelStep \/ K!Consume \/ UNCHANGED K!vars
    PROVE  K!IInv'
<1>1. [K!Next]_(K!vars)
  BY DEF K!Next
<1> QED
  BY <1>1, KernelAssumption, K!IInvStep

\* A record the kernel half outputs is one that Vacuum was prepared for: the
\* counters leave it within the bound on all records ever committed.
LEMMA OutputIsCommit ==
    ASSUME PInv, KernelStep
    PROVE  \/ UNCHANGED W!vars
           \/ \E c \in CPUS : /\ frame[c] \in K!Frames
                              /\ W!Commit(K!Record(frame[c]))
<1>1. K!TypeOK /\ K!IInv /\ BooksInv /\ taken \in Nat
  BY DEF PInv, K!IInv, W!IInv, W!TypeOK
<1>2. UNCHANGED userVars
  BY DEF KernelStep
<1>3. CASE UNCHANGED ring
  BY <1>2, <1>3 DEF userVars, W!vars, W!workerVars, W!channelVars,
                    W!metricVars, W!historyVars
<1>4. CASE \E c \in CPUS :
             /\ Bump(OnStacks', OnStacks, c)
             /\ Len(ring) < RING_CAPACITY
             /\ ring' = Append(ring, K!Record(frame[c]))
             /\ frame[c] \in K!Frames
  <2>1. PICK c \in CPUS :
             /\ Bump(OnStacks', OnStacks, c)
             /\ Len(ring) < RING_CAPACITY
             /\ ring' = Append(ring, K!Record(frame[c]))
             /\ frame[c] \in K!Frames
    BY <1>4
  <2>2. \A d \in CPUS : OnStacks'[d] \in Nat
    BY DEF OnStacks, Kernel!InFlight
  <2>3. IsFiniteSet(CPUS)
    BY PipelineAssumption
  <2>4. Total(OnStacks) = Total(OnStacks') + 1 /\ Total(OnStacks') \in Nat
    BY <2>1, <2>2, <2>3, BumpTotal, SumFinite DEF Total
  <2>5. taken + Len(ring) < Cardinality(CPUS) * MAXPPS_THRESHOLD
    <3>1. /\ Total(PPS_COUNTERS) \in Nat /\ Total(OnStacks) \in Nat
          /\ Total(ring_lost) \in Nat /\ Len(ring) \in Nat
          /\ Total(PPS_COUNTERS) <= Cardinality(CPUS) * MAXPPS_THRESHOLD
      BY <1>1, TotalFacts
    <3>2. Total(PPS_COUNTERS)
            = Total(OnStacks) + Total(ring_lost) + Len(ring) + taken
      BY <1>1 DEF BooksInv
    <3>3. Cardinality(CPUS) * MAXPPS_THRESHOLD \in Nat
      BY WorkerAssumption
    <3> QED
      BY <1>1, <2>4, <3>1, <3>2, <3>3
  <2>6. W!Commit(K!Record(frame[c]))
    BY <1>2, <2>1, <2>5 DEF userVars, W!Commit, W!workerVars, W!channelVars,
                            W!metricVars, W!historyVars
  <2> QED
    BY <2>1, <2>6
<1> QED
  BY <1>1, <1>3, <1>4, KernelEffect
\* The kernel half keeps the books.
LEMMA KernelBooks ==
    ASSUME PInv, KernelStep
    PROVE  BooksInv'
<1>1. K!TypeOK /\ K!IInv /\ taken \in Nat /\ taken' = taken
  BY DEF PInv, K!IInv, W!IInv, W!TypeOK, KernelStep, userVars
<1> DEFINE P == Total(PPS_COUNTERS)
           S == Total(OnStacks)
           L == Total(ring_lost)
           N == Len(ring)
<1>2. P \in Nat /\ S \in Nat /\ L \in Nat /\ N \in Nat /\ P = S + L + N + taken
  BY <1>1, TotalFacts DEF PInv, BooksInv
<1>3. \A c \in CPUS : /\ PPS_COUNTERS[c] \in Nat /\ OnStacks[c] \in Nat
                     /\ ring_lost[c] \in Nat
  BY <1>1, TotalFacts
<1>4. \A c \in CPUS : OnStacks'[c] \in Nat
  BY DEF OnStacks, Kernel!InFlight
<1>5. Total(OnStacks') \in Nat
  BY <1>4, PipelineAssumption, SumFinite DEF Total
<1>6. SUFFICES Total(PPS_COUNTERS')
                 = Total(OnStacks') + Total(ring_lost') + Len(ring') + taken
  BY <1>1 DEF BooksInv, Total
<1>7. CASE UNCHANGED <<PPS_COUNTERS, OnStacks, ring_lost, ring>>
  BY <1>2, <1>7
<1> HIDE DEF P, S, L, N
<1>8. ASSUME NEW c \in CPUS, Bump(PPS_COUNTERS, PPS_COUNTERS', c),
             Bump(OnStacks, OnStacks', c), UNCHANGED <<ring_lost, ring>>
      PROVE  Total(PPS_COUNTERS')
               = Total(OnStacks') + Total(ring_lost') + Len(ring') + taken
  <2>1. Total(PPS_COUNTERS') = P + 1 /\ Total(OnStacks') = S + 1
    BY <1>3, <1>8, BumpTotal DEF P, S
  <2>2. Total(ring_lost') = L /\ Len(ring') = N
    BY <1>8 DEF L, N
  <2> QED
    BY <1>1, <1>2, <2>1, <2>2
<1>9. ASSUME NEW c \in CPUS, Bump(OnStacks', OnStacks, c),
             Bump(ring_lost, ring_lost', c), UNCHANGED <<PPS_COUNTERS, ring>>
      PROVE  Total(PPS_COUNTERS')
               = Total(OnStacks') + Total(ring_lost') + Len(ring') + taken
  <2>1. S = Total(OnStacks') + 1 /\ Total(ring_lost') = L + 1
    BY <1>3, <1>4, <1>9, BumpTotal DEF L, S
  <2>2. Total(PPS_COUNTERS') = P /\ Len(ring') = N
    BY <1>9 DEF P, N
  <2> QED
    BY <1>1, <1>2, <1>5, <2>1, <2>2
<1>10. ASSUME NEW c \in CPUS, Bump(OnStacks', OnStacks, c),
              UNCHANGED <<PPS_COUNTERS, ring_lost>>,
              ring' = Append(ring, K!Record(frame[c])), frame[c] \in K!Frames
       PROVE  Total(PPS_COUNTERS')
                = Total(OnStacks') + Total(ring_lost') + Len(ring') + taken
  <2>1. S = Total(OnStacks') + 1
    BY <1>4, <1>10, BumpTotal DEF S
  <2>2. Total(PPS_COUNTERS') = P /\ Total(ring_lost') = L
    BY <1>10 DEF P, L
  <2>3. ring \in Seq(SignalRecords) /\ K!Record(frame[c]) \in SignalRecords
    BY <1>1, <1>10, RecordFacts DEF K!TypeOK
  <2>4. Len(ring') = N + 1
    BY <1>10, <2>3, AppendProperties DEF N
  <2> QED
    BY <1>1, <1>2, <1>5, <2>1, <2>2, <2>4
<1> QED
  BY <1>1, <1>7, <1>8, <1>9, <1>10, KernelEffect

(***************************************************************************)
(* A step of the userspace half.                                           *)
(***************************************************************************)

ThreadStep ==
    W!WorkerStep \/ W!ArenaStep \/ W!RequestShutdown \/ W!ProcessEnds

\* To the kernel half a step of the threads is a Consume or nothing, and what
\* leaves the ring is taken.
LEMMA ThreadEffect ==
    ASSUME W!IInv, ThreadStep
    PROVE  /\ \/ ring # <<>> /\ ring' = Tail(ring) /\ taken' = taken + 1
              \/ UNCHANGED <<ring, taken>>
           /\ Len(ring') + taken' = Len(ring) + taken
<1>1. ring \in Seq(SignalRecords) /\ taken \in Nat
  BY DEF W!IInv, W!TypeOK
<1>2. \/ ring # <<>> /\ ring' = Tail(ring) /\ taken' = taken + 1
      \/ UNCHANGED <<ring, taken>>
  <2>1. CASE W!DropBadSize \/ W!DropRegressed \/ W!KeepFrame
    BY <2>1 DEF W!DropBadSize, W!DropRegressed, W!KeepFrame, W!TakeRecord
  <2>2. CASE W!DispatchSent \/ W!DispatchFull \/ W!DispatchDisconnected
    BY <2>2 DEF W!DispatchSent, W!DispatchFull, W!DispatchDisconnected,
                W!NextOfBatch
  <2>3. CASE \/ W!Pin \/ W!PinFails \/ W!ExitPollLoop \/ W!StartBatch
             \/ W!EndDrain \/ W!RecordOk \/ W!Yield
    BY <2>3 DEF W!Pin, W!PinFails, W!ExitPollLoop, W!StartBatch, W!EndDrain,
                W!RecordOk, W!Yield, W!historyVars
  <2>4. CASE W!ArenaStep \/ W!RequestShutdown \/ W!ProcessEnds
    BY <2>4 DEF W!ArenaStep, W!Receive, W!HangUp, W!RequestShutdown,
                W!ProcessEnds, W!historyVars
  <2> QED
    BY <2>1, <2>2, <2>3, <2>4 DEF ThreadStep, W!WorkerStep
<1>3. ring # <<>> => Len(ring) \in Nat /\ Len(Tail(ring)) = Len(ring) - 1
  BY <1>1, HeadTailProperties, LenProperties
<1> QED
  BY <1>1, <1>2, <1>3

(***************************************************************************)
(* Every step keeps the invariant.                                         *)
(***************************************************************************)

\* The worker half keeps its invariant, whoever commits to the ring.
LEMMA WorkerKept ==
    ASSUME W!IInv,
           \/ ThreadStep \/ UNCHANGED W!vars
           \/ \E r \in SignalRecords : W!Commit(r)
    PROVE  W!IInv'
<1>1. [W!Next]_(W!vars)
  BY DEF W!Next, ThreadStep
<1> QED
  BY <1>1, WorkerAssumption, W!IInvStep

\* A step of a thread, with the kernel half at rest.
LEMMA ThreadKeeps ==
    ASSUME PInv, ThreadStep, UNCHANGED kernelVars
    PROVE  K!IInv' /\ W!IInv' /\ BooksInv' /\ PathInv'
<1>1. W!IInv'
  BY WorkerKept DEF PInv
<1>2. /\ \/ ring # <<>> /\ ring' = Tail(ring) /\ taken' = taken + 1
         \/ UNCHANGED <<ring, taken>>
      /\ Len(ring') + taken' = Len(ring) + taken
  BY ThreadEffect DEF PInv
<1>3. K!Consume \/ UNCHANGED K!vars
  BY <1>2 DEF kernelVars, K!Consume, K!kernelVars, K!vars
<1>4. K!IInv'
  BY <1>3, KernelKept DEF PInv
<1>5. UNCHANGED <<PPS_COUNTERS, OnStacks, ring_lost, OffStacks>>
  BY DEF kernelVars, OnStacks, OffStacks, Kernel!InFlight, K!Finished, K!InFlight
<1>6. BooksInv'
  <2>1. /\ Len(ring) \in Nat /\ Len(ring') \in Nat /\ taken \in Nat /\ taken' \in Nat
    BY <1>1, LenProperties DEF PInv, W!IInv, W!TypeOK
  <2>2. Total(OnStacks) \in Nat /\ Total(ring_lost) \in Nat
    BY TotalFacts DEF PInv, K!IInv
  <2>3. Total(PPS_COUNTERS)
          = Total(OnStacks) + Total(ring_lost) + Len(ring) + taken
    BY DEF PInv, BooksInv
  <2>4. Total(PPS_COUNTERS)
          = Total(OnStacks) + Total(ring_lost) + Len(ring') + taken'
    <3> DEFINE P == Total(PPS_COUNTERS)
               S == Total(OnStacks)
               L == Total(ring_lost)
               m == Len(ring)
               n == Len(ring')
               t == taken
               u == taken'
    <3>1. /\ S \in Nat /\ L \in Nat /\ m \in Nat /\ n \in Nat
          /\ t \in Nat /\ u \in Nat
          /\ P = S + L + m + t /\ n + u = m + t
      BY <1>2, <2>1, <2>2, <2>3
    <3> HIDE DEF P, S, L, m, n, t, u
    <3>2. P = S + L + n + u
      BY <3>1
    <3> QED
      BY <3>2 DEF P, S, L, n, u
  <2> QED
    BY <1>5, <2>4 DEF BooksInv, Total
<1>7. PathInv'
  <2>1. W!Feed!Lose \/ W!Feed!Deliver \/ UNCHANGED W!Feed!feedVars
    BY <1>1, WorkerAssumption, W!ThreadsMoveQueue DEF PInv, ThreadStep
  <2> DEFINE q == W!InTransit
             r == received
             m == OffStacks
  <2>2. q \in Seq(W!Frames) /\ r \in Seq(W!Frames)
    BY <1>1, WorkerAssumption, W!QueueFacts DEF PInv, W!IInv, W!TypeOK
  <2>3. InPathOrder(q, r, m)
    BY DEF PInv, PathInv
  <2>4. SUFFICES InPathOrder(W!InTransit', received', OffStacks)
    BY <1>5 DEF PathInv
  <2>5. CASE W!Feed!Lose
    <3>1. /\ \E i \in 1..Len(q) : \E j \in i..Len(q) :
                W!InTransit' = SubSeq(q, 1, i - 1) \o SubSeq(q, j + 1, Len(q))
          /\ received' = r
      BY <2>5 DEF W!Feed!Lose
    <3>2. PICK i \in 1..Len(q) : \E j \in i..Len(q) :
             W!InTransit' = SubSeq(q, 1, i - 1) \o SubSeq(q, j + 1, Len(q))
      BY <3>1
    <3>3. PICK j \in i..Len(q) :
             W!InTransit' = SubSeq(q, 1, i - 1) \o SubSeq(q, j + 1, Len(q))
      BY <3>2
    <3> HIDE DEF q, r, m
    <3>4. InPathOrder(SubSeq(q, 1, i - 1) \o SubSeq(q, j + 1, Len(q)), r, m)
      BY <2>2, <2>3, PathLose
    <3> QED
      BY <3>1, <3>3, <3>4 DEF m
  <2>6. CASE W!Feed!Deliver
    <3>1. q # <<>> /\ W!InTransit' = Tail(q) /\ received' = Append(r, Head(q))
      BY <2>6 DEF W!Feed!Deliver
    <3> HIDE DEF q, r, m
    <3>2. InPathOrder(Tail(q), Append(r, Head(q)), m)
      BY <2>2, <2>3, <3>1, PathDeliver
    <3> QED
      BY <3>1, <3>2 DEF m
  <2>7. CASE UNCHANGED W!Feed!feedVars
    BY <2>3, <2>7 DEF W!Feed!feedVars
  <2> QED
    BY <2>1, <2>5, <2>6, <2>7
<1> QED
  BY <1>1, <1>4, <1>6, <1>7
\* A step of a CPU, with the threads at rest.
LEMMA KernelKeeps ==
    ASSUME PInv, KernelStep
    PROVE  K!IInv' /\ W!IInv' /\ BooksInv' /\ PathInv'
<1>1. K!IInv'
  BY SameStep, KernelKept DEF PInv, KernelStep
<1>2. \/ UNCHANGED W!vars
      \/ \E c \in CPUS : frame[c] \in K!Frames /\ W!Commit(K!Record(frame[c]))
  BY OutputIsCommit
<1>3. W!IInv'
  BY <1>2, RecordFacts, WorkerKept DEF PInv
<1>4. BooksInv'
  BY KernelBooks
<1>5. PathInv'
  <2> DEFINE q == W!InTransit
             r == received
             m == OffStacks
             n == OffStacks'
  <2>1. q \in Seq(W!Frames) /\ r \in Seq(W!Frames) /\ InPathOrder(q, r, m)
    BY <1>3, WorkerAssumption, W!QueueFacts DEF PInv, PathInv, W!IInv, W!TypeOK
  <2>2. /\ m \in [CPUS -> Int]
        /\ \A c \in CPUS : /\ m[c] = PPS_COUNTERS[c] - OnStacks[c]
                           /\ PPS_COUNTERS[c] \in Nat /\ OnStacks[c] \in Nat
    BY TotalFacts DEF PInv, K!IInv
  <2>3. /\ n \in [CPUS -> Int]
        /\ \A c \in CPUS : /\ n[c] = PPS_COUNTERS'[c] - OnStacks'[c]
                           /\ PPS_COUNTERS'[c] \in Nat /\ OnStacks'[c] \in Nat
    BY <1>1, TotalFactsNext DEF K!IInv
  <2>4. \A f \in W!Frames : f.pps_delta \in Nat /\ f.cpu_id \in CPUS
    BY RecordFacts
  <2>5. UNCHANGED userVars /\ received' = received
    BY DEF KernelStep, userVars
  <2>6. SUFFICES InPathOrder(W!InTransit', r, n)
    BY <2>5 DEF PathInv
  <2> HIDE DEF m, n
  <2>7. ASSUME UNCHANGED ring, \A c \in CPUS : m[c] <= n[c]
        PROVE  InPathOrder(W!InTransit', r, n)
    <3>1. W!InTransit' = q
      BY <2>5, <2>7 DEF userVars, W!InTransit
    <3> HIDE DEF q, r
    <3> QED
      BY <2>1, <2>2, <2>3, <2>4, <2>7, <3>1, PathGrow
  <2>8. ASSUME NEW c \in CPUS, Bump(OnStacks', OnStacks, c),
               UNCHANGED PPS_COUNTERS,
               ring' = Append(ring, K!Record(frame[c])), frame[c] \in K!Frames,
               frame[c].cpu_id = c, frame[c].pps_delta = m[c]
        PROVE  InPathOrder(W!InTransit', r, n)
    <3>1. /\ \A d \in CPUS : m[d] <= n[d]
          /\ m[c] < n[c]
      <4>1. ASSUME NEW d \in CPUS PROVE m[d] <= n[d] /\ (d = c => m[d] < n[d])
        <5>1. /\ m[d] = PPS_COUNTERS[d] - OnStacks[d]
              /\ n[d] = PPS_COUNTERS[d] - OnStacks'[d]
              /\ PPS_COUNTERS[d] \in Nat /\ OnStacks[d] \in Nat
              /\ OnStacks'[d] \in Nat
          BY <2>2, <2>3, <2>8
        <5>2. OnStacks[d] = IF d = c THEN OnStacks'[d] + 1 ELSE OnStacks'[d]
          BY <2>8 DEF Bump
        <5> QED
          BY <5>1, <5>2
      <4> QED
        BY <4>1
    <3>2. W!Commit(K!Record(frame[c]))
      <4>1. ring' # ring
        <5>1. ring \in Seq(SignalRecords) /\ K!Record(frame[c]) \in SignalRecords
          BY <2>8, RecordFacts DEF PInv, W!IInv, W!TypeOK
        <5>2. Len(ring') = Len(ring) + 1 /\ Len(ring) \in Nat
          BY <2>8, <5>1, AppendProperties, LenProperties
        <5> QED
          BY <5>2
      <4>2. PICK d \in CPUS : frame[d] \in K!Frames /\ W!Commit(K!Record(frame[d]))
        BY <1>2, <4>1 DEF W!vars
      <4> QED
        BY <2>8, <4>2 DEF W!Commit
    <3>3. W!Feed!Offer(K!Record(frame[c]).frame)
      BY <1>3, <2>8, <3>2, RecordFacts, WorkerAssumption, W!CommitOffers DEF PInv
    <3>4. W!InTransit' = Append(q, frame[c])
      BY <2>8, <3>3, RecordFacts DEF W!Feed!Offer
    <3>5. frame[c] \in W!Frames
      BY <2>8, RecordFacts
    <3> HIDE DEF q, r
    <3>6. InPathOrder(Append(q, frame[c]), r, n)
      BY <2>1, <2>2, <2>3, <2>4, <2>8, <3>1, <3>5, PathOffer
    <3> QED
      BY <3>4, <3>6
  <2>9. CASE UNCHANGED <<PPS_COUNTERS, OnStacks, ring_lost, ring>>
    BY <2>2, <2>3, <2>7, <2>9
  <2>10. ASSUME NEW c \in CPUS, Bump(PPS_COUNTERS, PPS_COUNTERS', c),
                Bump(OnStacks, OnStacks', c), UNCHANGED ring
         PROVE  InPathOrder(W!InTransit', r, n)
    BY <2>2, <2>3, <2>7, <2>10 DEF Bump
  <2>11. ASSUME NEW c \in CPUS, Bump(OnStacks', OnStacks, c),
                UNCHANGED <<PPS_COUNTERS, ring>>
         PROVE  InPathOrder(W!InTransit', r, n)
    BY <2>2, <2>3, <2>7, <2>11 DEF Bump
  <2> QED
    BY <2>8, <2>9, <2>10, <2>11, KernelEffect DEF PInv, m
<1> QED
  BY <1>1, <1>3, <1>4, <1>5
\* Neither half has done anything.
LEMMA PInvInit == Init => PInv
<1> SUFFICES ASSUME Init PROVE PInv
  OBVIOUS
<1>1. K!IInv
  <2>1. K!Init
    BY DEF Init, Kernel!Init, K!Init
  <2> QED
    BY <2>1, KernelAssumption, K!IInvInit
<1>2. W!Init
  BY DEF Init, Worker!Init, W!Init, Worker!WorkerInit, W!WorkerInit,
         Worker!ChannelInit, W!ChannelInit, Worker!MetricsInit, W!MetricsInit
<1>3. W!IInv
  BY <1>2, WorkerAssumption, W!IInvInit
<1>4. /\ \A c \in CPUS : /\ PPS_COUNTERS[c] = 0 /\ OnStacks[c] = 0
                         /\ ring_lost[c] = 0
      /\ ring = <<>> /\ taken = 0
  BY DEF Init, Kernel!Init, Worker!Init, OnStacks, Kernel!InFlight
<1>5. BooksInv
  <2>1. /\ Total(PPS_COUNTERS) = 0 /\ Total(OnStacks) = 0
        /\ Total(ring_lost) = 0 /\ Len(ring) = 0
    BY <1>4, SumOfZeros, EmptySeq DEF Total
  <2> QED
    BY <1>4, <2>1 DEF BooksInv
<1>6. PathInv
  <2>1. W!InTransit = <<>> /\ received = <<>>
    BY <1>2, WorkerAssumption, W!FeedInitially DEF W!Feed!FeedInit
  <2>2. Len(<<>>) = 0
    BY EmptySeq
  <2> QED
    BY <2>1, <2>2 DEF PathInv, InPathOrder
<1> QED
  BY <1>1, <1>3, <1>5, <1>6 DEF PInv

\* Every step keeps the invariant.
LEMMA PInvStep == PInv /\ [Next]_vars => PInv'
<1> SUFFICES ASSUME PInv, [Next]_vars PROVE PInv'
  OBVIOUS
<1>1. CASE KernelStep
  BY <1>1, KernelKeeps DEF PInv
<1>2. CASE WorkerStep \/ ArenaStep \/ RequestShutdown \/ ProcessEnds
  <2>1. ThreadStep /\ UNCHANGED kernelVars
    BY <1>2, SameThreads
       DEF WorkerStep, ArenaStep, RequestShutdown, ProcessEnds, ThreadStep
  <2> QED
    BY <2>1, ThreadKeeps DEF PInv
<1>3. CASE UNCHANGED vars
  <2>1. UNCHANGED <<kernelVars, ring, userVars>>
    BY <1>3 DEF vars
  <2>2. UNCHANGED K!vars /\ UNCHANGED W!vars
    BY <2>1 DEF kernelVars, userVars, K!vars, K!kernelVars, W!vars,
                W!workerVars, W!channelVars, W!metricVars, W!historyVars
  <2>3. K!IInv' /\ W!IInv'
    BY <2>2, KernelKept, WorkerKept DEF PInv
  <2>4. BooksInv' /\ PathInv'
    BY <2>1 DEF PInv, kernelVars, userVars, BooksInv, PathInv, OnStacks,
                OffStacks, Total, Kernel!InFlight, K!Finished, K!InFlight,
                W!InTransit
  <2> QED
    BY <2>3, <2>4 DEF PInv
<1> QED
  BY <1>1, <1>2, <1>3 DEF Next

\* The inductive invariant holds throughout every behaviour.
LEMMA PInvAlways == Spec => []PInv
BY PInvInit, PInvStep, PTL DEF Spec

(***************************************************************************)
(* The theorems.                                                           *)
(***************************************************************************)

\* Every step of the composed system is, to the userspace half, a step of
\* Vacuum or none of its business.
LEMMA VacuumStep == PInv /\ [Next]_vars => [Worker!Next]_(Worker!vars)
<1> SUFFICES ASSUME PInv, [Next]_vars PROVE [Worker!Next]_(Worker!vars)
  OBVIOUS
<1>1. CASE KernelStep
  <2>1. CASE UNCHANGED W!vars
    BY <2>1 DEF W!vars, W!workerVars, W!channelVars, W!metricVars,
                W!historyVars, Worker!vars, Worker!workerVars,
                Worker!channelVars, Worker!metricVars, Worker!historyVars
  <2>2. ASSUME NEW c \in CPUS, frame[c] \in K!Frames,
               W!Commit(K!Record(frame[c]))
        PROVE  [Worker!Next]_(Worker!vars)
    <3>1. Worker!Commit(K!Record(frame[c])) /\ K!Record(frame[c]) \in SignalRecords
      BY <2>2, RecordFacts
         DEF W!Commit, W!workerVars, W!channelVars, W!metricVars,
             W!historyVars, Worker!Commit, Worker!workerVars,
             Worker!channelVars, Worker!metricVars, Worker!historyVars
    <3> QED
      BY <3>1 DEF Worker!Next
  <2> QED
    BY <1>1, <2>1, <2>2, OutputIsCommit
<1>2. CASE WorkerStep \/ ArenaStep \/ RequestShutdown \/ ProcessEnds
  BY <1>2 DEF WorkerStep, ArenaStep, RequestShutdown, ProcessEnds, Worker!Next
<1>3. CASE UNCHANGED vars
  BY <1>3 DEF vars, userVars, Worker!vars, Worker!workerVars,
              Worker!channelVars, Worker!metricVars, Worker!historyVars
<1> QED
  BY <1>1, <1>2, <1>3 DEF Next

\* Fed by the XDP program on any number of CPUs, the userspace half behaves
\* as Vacuum, which was proved about with a producer of its own.
THEOREM VacuumImplemented == Spec => ImplementsVacuum
<1>1. Init => Worker!Init
  BY DEF Init
<1> QED
  BY <1>1, PInvAlways, VacuumStep, PTL DEF Spec, ImplementsVacuum, Worker!Spec

\* No packet charged to a CPU's counter is unaccounted for between xdp_ingress
\* and the arena, however the CPUs and the threads interleave.
THEOREM EndToEndAccountingHolds == Spec => []EndToEndAccounting
<1>1. ASSUME PInv PROVE EndToEndAccounting
  <2> DEFINE S == Total(OnStacks)
             L == Total(ring_lost)
             R == Len(ring)
             B == Len(batch)
             C == Len(channel)
             D == Len(received)
             U == W!Uncounted
  <2>1. S \in Nat /\ L \in Nat /\ R \in Nat
    BY <1>1, TotalFacts DEF PInv, K!IInv
  <2>2. /\ B \in Nat /\ C \in Nat /\ D \in Nat /\ U \in Nat
        /\ frames_ok \in Nat /\ frames_dropped \in Nat /\ channel_full \in Nat
        /\ disconnected \in Nat /\ purged \in Nat /\ taken \in Nat
    BY <1>1, LenProperties DEF PInv, W!IInv, W!TypeOK, W!Uncounted
  <2>3. /\ taken = frames_ok + U + frames_dropped + channel_full
                   + disconnected + B
        /\ frames_ok + U = D + C + purged
        /\ disconnected = 0 /\ purged = 0
    BY <1>1 DEF PInv, W!IInv, W!Accounting, W!SentIsCounted, W!SilenceInv
  <2>4. Total(PPS_COUNTERS) = S + L + R + taken
    BY <1>1 DEF PInv, BooksInv
  <2> HIDE DEF S, L, R, B, C, D, U
  <2>5. Total(PPS_COUNTERS)
          = S + L + R + frames_dropped + channel_full + B + C + D
    BY <2>1, <2>2, <2>3, <2>4
  <2> QED
    BY <2>5 DEF EndToEndAccounting, OnStacks, S, L, R, B, C, D
<1> QED
  BY <1>1, PInvAlways, PTL

\* The arena is given the frames of one CPU in the order in which that CPU
\* built them, and none twice, whatever is lost on the way.
THEOREM PerCpuDeliveryHolds == Spec => []PerCpuDelivery
<1>1. ASSUME PInv PROVE PerCpuDelivery
  <2>1. received \in Seq(W!Frames) /\ DOMAIN received = 1..Len(received)
    BY <1>1, LenProperties DEF PInv, W!IInv, W!TypeOK
  <2>2. \A i, j \in 1..Len(received) : i < j => Later(received[i], received[j])
    BY <1>1 DEF PInv, PathInv, InPathOrder
  <2> QED
    BY <2>1, <2>2 DEF PerCpuDelivery, Later
<1> QED
  BY <1>1, PInvAlways, PTL

(***************************************************************************)
(* One busy CPU.                                                           *)
(***************************************************************************)

Sole(c) == \A d \in CPUS \ {c} : Silent(d)

\* Nothing that the busy CPU still has to be read is older than what the worker
\* has read of it.
NothingOlder(c) ==
    /\ frames_dropped = 0
    /\ last_ts_ns <= clock
    /\ pc[c] = "output" => last_ts_ns <= frame[c].timestamp_ns
    /\ \A i \in 1..Len(ring) : last_ts_ns <= ring[i].frame.timestamp_ns

SoleInv == \A c \in CPUS : Sole(c) => NothingOlder(c)

\* While one CPU is busy, all frames in the ring are its own, in its order and
\* none younger than its next one, and no other CPU has one to output.
LEMMA SoleFacts ==
    ASSUME K!IInv, NEW c \in CPUS, Sole(c)
    PROVE  /\ Len(ring) \in Nat /\ clock \in Nat
           /\ \A d \in CPUS \ {c} : pc[d] = "idle"
           /\ pc[c] = "output" => frame[c].timestamp_ns \in Nat
           /\ \A i \in 1..Len(ring) :
                 /\ ring[i] \in SignalRecords
                 /\ ring[i].frame.timestamp_ns \in Nat
                 /\ ring[i].frame.timestamp_ns <= clock
                 /\ pc[c] = "output" =>
                       ring[i].frame.timestamp_ns <= frame[c].timestamp_ns
           /\ \A i, j \in 1..Len(ring) : i < j =>
                 ring[i].frame.timestamp_ns <= ring[j].frame.timestamp_ns
<1>1. /\ K!TypeOK /\ K!StackInv /\ K!RingInv /\ K!FlightInv
      /\ \A i, j \in 1..Len(ring) : i < j => K!InOrder(ring[i].frame, ring[j].frame)
      /\ K!CounterIsFrames
  BY DEF K!IInv, K!OrderInv
<1>2. /\ Len(ring) \in Nat /\ clock \in Nat
      /\ \A i \in 1..Len(ring) : /\ ring[i] \in K!Records
                                 /\ ring[i].frame.timestamp_ns \in Nat
                                 /\ ring[i].frame.pps_delta \in Nat
                                 /\ ring[i].frame.cpu_id \in CPUS
      /\ pc[c] # "idle" => frame[c].timestamp_ns \in Nat
  BY <1>1, KernelAssumption, K!OrderTypes
<1>3. ASSUME NEW d \in CPUS \ {c}
      PROVE  pc[d] = "idle" /\ K!Finished(d) = 0
  <2>1. /\ PPS_COUNTERS[d] = 0 /\ written[d] \in Nat /\ ring_lost[d] \in Nat
        /\ PPS_COUNTERS[d] = written[d] + ring_lost[d] + K!InFlight(d)
    BY <1>1 DEF Sole, Silent, K!TypeOK, K!CounterIsFrames
  <2>2. K!InFlight(d) = IF pc[d] = "idle" THEN 0 ELSE 1
    BY DEF K!InFlight
  <2>3. pc[d] = "idle" /\ K!InFlight(d) = 0
    BY <2>1, <2>2
  <2> QED
    BY <2>1, <2>3 DEF K!Finished
<1>4. ASSUME NEW i \in 1..Len(ring) PROVE ring[i].frame.cpu_id = c
  <2>1. SUFFICES ASSUME ring[i].frame.cpu_id # c PROVE FALSE
    OBVIOUS
  <2>2. ring[i].frame.pps_delta < 0 /\ ring[i].frame.pps_delta \in Nat
    BY <1>1, <1>2, <1>3, <2>1 DEF K!RingInv
  <2> QED
    BY <2>2
<1>5. \A i \in 1..Len(ring) :
         /\ ring[i].frame.timestamp_ns <= clock
         /\ pc[c] = "output" =>
               ring[i].frame.timestamp_ns <= frame[c].timestamp_ns
  BY <1>1, <1>4 DEF K!RingInv, K!FlightInv
<1>6. \A i, j \in 1..Len(ring) : i < j =>
         ring[i].frame.timestamp_ns <= ring[j].frame.timestamp_ns
  BY <1>1, <1>4 DEF K!InOrder
<1> QED
  BY <1>2, <1>3, <1>5, <1>6, RecordFacts

\* A step of a CPU, the clock or the operator.
LEMMA SoleKernel ==
    ASSUME K!IInv, W!TypeOK, KernelStep, NEW c \in CPUS, Sole(c), NothingOlder(c)
    PROVE  NothingOlder(c)'
<1>1. /\ pc \in [CPUS -> {"idle", "stamp", "output"}]
      /\ frame \in [CPUS -> K!Frames \cup {None}]
      /\ ring \in Seq(K!Records) /\ K!StackInv
  BY DEF K!IInv, K!TypeOK
<1>2. K!KernelStep /\ UNCHANGED <<last_ts_ns, frames_dropped>>
  BY SameStep DEF KernelStep, userVars
<1>3. /\ last_ts_ns \in Nat /\ clock \in Nat /\ Len(ring) \in Nat
      /\ \A d \in CPUS \ {c} : pc[d] = "idle"
  BY SoleFacts DEF W!TypeOK
<1>4. CASE UNCHANGED <<pc, frame, clock, ring>>
  BY <1>2, <1>4 DEF NothingOlder
<1>5. ASSUME NEW d \in CPUS, NEW p \in Packets, K!Accept(d, p)
      PROVE  NothingOlder(c)'
  <2>1. /\ UNCHANGED <<clock, ring>>
        /\ pc' = [pc EXCEPT ![d] = "stamp"]
        /\ d # c => frame'[c] = frame[c]
    BY <1>1, <1>5 DEF K!Accept
  <2>2. pc'[c] = "output" => d # c /\ pc[c] = "output"
    BY <1>1, <2>1
  <2> QED
    BY <1>2, <2>1, <2>2 DEF NothingOlder
<1>6. ASSUME NEW d \in CPUS, K!Stamp(d) PROVE NothingOlder(c)'
  <2>1. d = c /\ UNCHANGED <<clock, ring>> /\ frame[c] \in K!Frames
    BY <1>1, <1>3, <1>6 DEF K!Stamp, K!StackInv
  <2>2. frame' = [frame EXCEPT ![c] = [frame[c] EXCEPT !.timestamp_ns = clock]]
    BY <1>1, <1>6, <2>1 DEF K!Stamp, K!bpf_ktime_get_ns
  <2>3. frame'[c].timestamp_ns = clock
    BY <1>1, <2>1, <2>2 DEF K!Frames
  <2> QED
    BY <1>2, <2>1, <2>3 DEF NothingOlder
<1>7. ASSUME NEW d \in CPUS, K!OutputOk(d) PROVE NothingOlder(c)'
  <2>1. /\ d = c /\ UNCHANGED clock /\ pc' = [pc EXCEPT ![c] = "idle"]
        /\ ring' = Append(ring, K!Record(frame[c])) /\ pc[c] = "output"
        /\ frame[c] \in K!Frames
    BY <1>1, <1>3, <1>7 DEF K!OutputOk, K!Return, K!StackInv
  <2>2. K!Record(frame[c]) \in K!Records /\ K!Record(frame[c]).frame = frame[c]
    BY <2>1, RecordFacts
  <2>3. /\ Len(ring') = Len(ring) + 1
        /\ \A i \in 1..Len(ring) : ring'[i] = ring[i]
        /\ ring'[Len(ring) + 1].frame = frame[c]
    BY <1>1, <2>1, <2>2, AppendProperties
  <2>4. \A i \in 1..Len(ring') : last_ts_ns <= ring'[i].frame.timestamp_ns
    <3>1. \A i \in 1..Len(ring') : i \in 1..Len(ring) \/ i = Len(ring) + 1
      BY <1>3, <2>3
    <3> QED
      BY <2>1, <2>3, <3>1 DEF NothingOlder
  <2>5. pc'[c] # "output"
    BY <1>1, <2>1
  <2> QED
    BY <1>2, <2>1, <2>4, <2>5 DEF NothingOlder
<1>8. ASSUME NEW d \in CPUS, K!OutputFull(d) PROVE NothingOlder(c)'
  <2>1. d = c /\ UNCHANGED <<clock, ring>> /\ pc' = [pc EXCEPT ![c] = "idle"]
    BY <1>1, <1>3, <1>8 DEF K!OutputFull, K!Refuse, K!Return
  <2>2. pc'[c] # "output"
    BY <1>1, <2>1
  <2> QED
    BY <1>2, <2>1, <2>2 DEF NothingOlder
<1>9. CASE K!Tick
  <2>1. clock' = clock + 1 /\ UNCHANGED <<pc, frame, ring>>
    BY <1>9 DEF K!Tick
  <2> QED
    BY <1>2, <1>3, <2>1 DEF NothingOlder
<1>10. ASSUME NEW i \in 0..(DENY_ENTRIES - 1), K!WriteDeny(i)
       PROVE  NothingOlder(c)'
  BY <1>4, <1>10 DEF K!WriteDeny
<1>11. ASSUME NEW d \in CPUS, NEW p \in Packets,
              K!PassNonSignal(d, p) \/ K!PassDenied(d, p) \/ K!PassRateLimited(d, p)
       PROVE  NothingOlder(c)'
  BY <1>4, <1>11 DEF K!PassNonSignal, K!PassDenied, K!PassRateLimited, K!vars,
                     K!kernelVars
<1> QED
  BY <1>2, <1>5, <1>6, <1>7, <1>8, <1>9, <1>10, <1>11
     DEF K!KernelStep, K!Arrive, K!Finish

\* A step of a thread: the record it may take off the ring is of the right size
\* and no older than the last one.
LEMMA SoleThread ==
    ASSUME K!IInv, W!TypeOK, ThreadStep, UNCHANGED kernelVars,
           NEW c \in CPUS, Sole(c), NothingOlder(c)
    PROVE  NothingOlder(c)'
<1>1. UNCHANGED <<pc, frame, clock>>
  BY DEF kernelVars
<1>2. CASE UNCHANGED <<ring, last_ts_ns, frames_dropped>>
  BY <1>1, <1>2 DEF NothingOlder
<1>3. CASE W!DropBadSize \/ W!DropRegressed \/ W!KeepFrame
  <2>1. ring \in Seq(SignalRecords) /\ ring # <<>> /\ ring' = Tail(ring)
    BY <1>3 DEF W!DropBadSize, W!DropRegressed, W!KeepFrame, W!TakeRecord,
                W!TypeOK
  <2>2. /\ Len(ring) \in Nat \ {0} /\ Head(ring) = ring[1]
        /\ Len(ring') = Len(ring) - 1
        /\ \A i \in 1..Len(ring') : ring'[i] = ring[i + 1]
    BY <2>1, HeadTailProperties, EmptySeq, LenProperties
  <2>3. 1 \in 1..Len(ring) /\ \A i \in 1..Len(ring') : i + 1 \in 1..Len(ring) /\ 1 < i + 1
    BY <2>2
  <2>4. /\ ring[1] \in SignalRecords
        /\ ring[1].frame.timestamp_ns \in Nat
        /\ ring[1].frame.timestamp_ns <= clock
        /\ pc[c] = "output" => ring[1].frame.timestamp_ns <= frame[c].timestamp_ns
        /\ \A i \in 1..Len(ring') :
              ring[1].frame.timestamp_ns <= ring'[i].frame.timestamp_ns
    BY <2>2, <2>3, SoleFacts
  <2>5. W!WellSized(Head(ring))
    <3>1. ring[1].len = SIGNAL_FRAME_SIZE
      BY <2>4, RecordFacts DEF K!Records
    <3> QED
      BY <2>2, <3>1 DEF W!WellSized
  <2>6. ~W!Regressed(Head(ring).frame)
    <3>1. last_ts_ns <= ring[1].frame.timestamp_ns /\ last_ts_ns \in Nat
      BY <2>3 DEF NothingOlder, W!TypeOK
    <3> QED
      BY <2>2, <2>4, <3>1 DEF W!Regressed
  <2>7. last_ts_ns' = ring[1].frame.timestamp_ns /\ UNCHANGED frames_dropped
    BY <1>3, <2>2, <2>5, <2>6 DEF W!DropBadSize, W!DropRegressed, W!KeepFrame
  <2> QED
    BY <1>1, <2>4, <2>7 DEF NothingOlder
<1>4. CASE W!DispatchSent \/ W!DispatchFull \/ W!DispatchDisconnected
  BY <1>2, <1>4 DEF W!DispatchSent, W!DispatchFull, W!DispatchDisconnected,
              W!NextOfBatch
<1>5. CASE \/ W!Pin \/ W!PinFails \/ W!ExitPollLoop \/ W!StartBatch
           \/ W!EndDrain \/ W!RecordOk \/ W!Yield
  BY <1>2, <1>5 DEF W!Pin, W!PinFails, W!ExitPollLoop, W!StartBatch, W!EndDrain,
              W!RecordOk, W!Yield, W!metricVars
<1>6. CASE W!ArenaStep \/ W!RequestShutdown \/ W!ProcessEnds
  BY <1>2, <1>6 DEF W!ArenaStep, W!Receive, W!HangUp, W!RequestShutdown,
              W!ProcessEnds, W!workerVars, W!metricVars
<1> QED
  BY <1>3, <1>4, <1>5, <1>6 DEF ThreadStep, W!WorkerStep

\* A CPU that has been charged stays so: one that is the only busy one after a
\* step was the only busy one before it.
LEMMA SoleBefore ==
    ASSUME PInv, [Next]_vars, NEW c, Sole(c)'
    PROVE  Sole(c)
<1>1. \A d \in CPUS : PPS_COUNTERS[d] \in Nat
  BY TotalFacts DEF PInv, K!IInv
<1>2. ASSUME NEW d \in CPUS PROVE PPS_COUNTERS'[d] = 0 => PPS_COUNTERS[d] = 0
  <2>1. CASE KernelStep
    <3>1. \/ UNCHANGED PPS_COUNTERS
          \/ \E e \in CPUS : Bump(PPS_COUNTERS, PPS_COUNTERS', e)
      BY <2>1, KernelEffect DEF PInv
    <3> QED
      BY <1>1, <3>1 DEF Bump
  <2>2. CASE ~KernelStep
    BY <2>2
       DEF Next, WorkerStep, ArenaStep, RequestShutdown, ProcessEnds, vars,
           kernelVars
  <2> QED
    BY <2>1, <2>2
<1> QED
  BY <1>2 DEF Sole, Silent

\* Every step keeps the busy CPU's frames in order for the worker.
LEMMA SoleStep == PInv /\ SoleInv /\ [Next]_vars => SoleInv'
<1> SUFFICES ASSUME PInv, SoleInv, [Next]_vars, NEW c \in CPUS, Sole(c)'
             PROVE  NothingOlder(c)'
  BY DEF SoleInv
<1>1. Sole(c) /\ NothingOlder(c) /\ K!IInv /\ W!TypeOK
  BY SoleBefore DEF SoleInv, PInv, W!IInv
<1>2. CASE KernelStep
  BY <1>1, <1>2, SoleKernel
<1>3. CASE WorkerStep \/ ArenaStep \/ RequestShutdown \/ ProcessEnds
  <2>1. ThreadStep /\ UNCHANGED kernelVars
    BY <1>3, SameThreads
       DEF WorkerStep, ArenaStep, RequestShutdown, ProcessEnds, ThreadStep
  <2> QED
    BY <1>1, <2>1, SoleThread
<1>4. CASE UNCHANGED vars
  BY <1>1, <1>4 DEF NothingOlder, vars, kernelVars, userVars
<1> QED
  BY <1>2, <1>3, <1>4 DEF Next

\* The vacuum drops a frame as a clock anomaly only if two CPUs have had
\* packets: the frames of one alone are stamped, output and read in one order.
THEOREM DropsNeedTwoCpusHolds == Spec => []DropsNeedTwoCpus
<1>1. Init => SoleInv
  <2> SUFFICES ASSUME Init PROVE SoleInv
    OBVIOUS
  <2>1. /\ frames_dropped = 0 /\ last_ts_ns = 0 /\ clock = 0 /\ ring = <<>>
        /\ \A c \in CPUS : pc[c] = "idle"
    BY DEF Init, Kernel!Init, Worker!Init, Worker!WorkerInit, Worker!MetricsInit
  <2>2. Len(ring) = 0
    BY <2>1, EmptySeq
  <2> QED
    BY <2>1, <2>2 DEF SoleInv, NothingOlder
<1>2. SoleInv => DropsNeedTwoCpus
  BY DEF SoleInv, NothingOlder, Sole, DropsNeedTwoCpus
<1> QED
  BY <1>1, <1>2, PInvAlways, SoleStep, PTL DEF Spec

(***************************************************************************)
(* The deny list, seen from the arena.                                     *)
(***************************************************************************)

Index(f) == f.flow_hash % DENY_ENTRIES

\* The two sets Reaching counts: CPUs with a frame of the index on their stack,
\* and places of such frames on the path.
Stacked(i) == {c \in CPUS : frame[c] # None /\ Index(frame[c]) = i}
Places(q, i) == {n \in DOMAIN q : Index(q[n]) = i}

LEMMA ReachingSplit ==
    ASSUME NEW i
    PROVE  /\ Reaching(i) = Cardinality(Stacked(i)) + Cardinality(Places(Path, i))
           /\ Reaching(i)' = Cardinality(Stacked(i)') + Cardinality(Places(Path', i))
BY DEF Reaching, Stacked, Places, Index, Kernel!DenyIndex

LEMMA StackedFinite ==
    ASSUME NEW i
    PROVE  /\ IsFiniteSet(Stacked(i)) /\ Cardinality(Stacked(i)) \in Nat
           /\ IsFiniteSet(Stacked(i)') /\ Cardinality(Stacked(i)') \in Nat
<1>1. Stacked(i) \in SUBSET CPUS /\ Stacked(i)' \in SUBSET CPUS
  BY DEF Stacked
<1>2. IsFiniteSet(Stacked(i)) /\ IsFiniteSet(Stacked(i)')
  BY <1>1, PipelineAssumption, FS_Subset
<1> QED
  BY <1>2, FS_CardinalityType

LEMMA PlacesFinite ==
    ASSUME NEW F, NEW q \in Seq(F), NEW i
    PROVE  IsFiniteSet(Places(q, i)) /\ Cardinality(Places(q, i)) \in Nat
<1>1. DOMAIN q = 1..Len(q) /\ Len(q) \in Int
  BY LenProperties
<1>2. IsFiniteSet(1..Len(q)) /\ Places(q, i) \in SUBSET (1..Len(q))
  BY <1>1, FS_Interval DEF Places
<1>3. IsFiniteSet(Places(q, i))
  BY <1>2, FS_Subset
<1> QED
  BY <1>3, FS_CardinalityType

\* Every element of s comes from a place of its own in q.
Embeds(s, q) ==
    \E o \in [1..Len(s) -> 1..Len(q)] :
        /\ \A k \in 1..Len(s) : s[k] = q[o[k]]
        /\ \A k, l \in 1..Len(s) : k # l => o[k] # o[l]

\* A part of a path has no more frames of an index than the path.
LEMMA EmbedsCount ==
    ASSUME NEW F, NEW q \in Seq(F), NEW s \in Seq(F), Embeds(s, q), NEW i
    PROVE  Cardinality(Places(s, i)) <= Cardinality(Places(q, i))
<1>1. DOMAIN q = 1..Len(q) /\ DOMAIN s = 1..Len(s)
  BY LenProperties
<1>2. PICK o \in [1..Len(s) -> 1..Len(q)] :
          /\ \A k \in 1..Len(s) : s[k] = q[o[k]]
          /\ \A k, l \in 1..Len(s) : k # l => o[k] # o[l]
  BY DEF Embeds
<1> DEFINE g == [k \in Places(s, i) |-> o[k]]
<1>3. \A k \in Places(s, i) : k \in 1..Len(s) /\ o[k] \in Places(q, i)
  BY <1>1, <1>2 DEF Places
<1>4. g \in Injection(Places(s, i), Places(q, i))
  BY <1>2, <1>3 DEF Injection, IsInjective
<1> HIDE DEF g
<1> QED
  BY <1>4, PlacesFinite, FS_Injection

\* A frame that joins the path counts once, for its own index.
LEMMA JoinCount ==
    ASSUME NEW F, NEW q \in Seq(F), NEW f \in F, NEW i
    PROVE  Cardinality(Places(Append(q, f), i))
             = Cardinality(Places(q, i)) + (IF Index(f) = i THEN 1 ELSE 0)
<1> DEFINE s == Append(q, f)
           n == Len(q)
<1>1. /\ n \in Nat /\ Len(s) = n + 1 /\ s[n + 1] = f
      /\ \A k \in 1..n : s[k] = q[k]
      /\ DOMAIN q = 1..n /\ DOMAIN s = 1..(n + 1)
  BY AppendProperties, LenProperties
<1> HIDE DEF s, n
<1>2. \A k : k \in 1..(n + 1) <=> k \in 1..n \/ k = n + 1
  BY <1>1
<1>3. n + 1 \notin Places(q, i)
  BY <1>1 DEF Places
<1>4. CASE Index(f) = i
  <2>1. Places(s, i) = Places(q, i) \cup {n + 1}
    BY <1>1, <1>2, <1>4 DEF Places
  <2>2. Cardinality(Places(s, i)) = Cardinality(Places(q, i)) + 1
    BY <1>3, <2>1, PlacesFinite, FS_AddElement
  <2> QED
    BY <1>4, <2>2 DEF s
<1>5. CASE Index(f) # i
  <2>1. Places(s, i) = Places(q, i)
    BY <1>1, <1>2, <1>5 DEF Places
  <2>2. Cardinality(Places(q, i)) \in Nat
    BY PlacesFinite
  <2> QED
    BY <1>5, <2>1, <2>2 DEF s
<1> QED
  BY <1>4, <1>5

\* The path, element by element.
LEMMA JoinFacts ==
    ASSUME NEW F, NEW r \in Seq(F), NEW q \in Seq(F)
    PROVE  /\ r \o q \in Seq(F) /\ Len(r \o q) = Len(r) + Len(q)
           /\ Len(r) \in Nat /\ Len(q) \in Nat
           /\ \A k \in 1..Len(r) : (r \o q)[k] = r[k]
           /\ \A k \in 1..Len(q) : (r \o q)[Len(r) + k] = q[k]
<1> DEFINE s == r \o q
<1>1. /\ s \in Seq(F) /\ Len(s) = Len(r) + Len(q)
      /\ Len(r) \in Nat /\ Len(q) \in Nat
      /\ \A k \in 1..(Len(r) + Len(q)) :
             s[k] = IF k <= Len(r) THEN r[k] ELSE q[k - Len(r)]
  BY ConcatProperties, LenProperties
<1> HIDE DEF s
<1>2. \A k \in 1..Len(r) : s[k] = r[k]
  BY <1>1
<1>3. ASSUME NEW k \in 1..Len(q) PROVE s[Len(r) + k] = q[k]
  <2>1. /\ Len(r) + k \in 1..(Len(r) + Len(q)) /\ ~(Len(r) + k <= Len(r))
        /\ (Len(r) + k) - Len(r) = k
    BY <1>1
  <2> QED
    BY <1>1, <2>1
<1> QED
  BY <1>1, <1>2, <1>3 DEF s

LEMMA AppendConcat ==
    ASSUME NEW F, NEW r \in Seq(F), NEW q \in Seq(F), NEW f \in F
    PROVE  r \o Append(q, f) = Append(r \o q, f)
<1> DEFINE g == <<f>>
<1>1. g \in Seq(F) /\ r \o q \in Seq(F)
  BY ConcatProperties
<1>2. Append(q, f) = q \o g /\ Append(r \o q, f) = (r \o q) \o g
  BY <1>1, AppendIsConcat
<1> HIDE DEF g
<1>3. r \o (q \o g) = (r \o q) \o g
  <2>1. r \in Seq(F) /\ q \in Seq(F) /\ g \in Seq(F)
    BY <1>1
  <2> QED
    BY <2>1, ConcatAssociative, SMTT(40)
<1> QED
  BY <1>2, <1>3

\* What is kept of q after r embeds in r followed by q.
LEMMA EmbedsRight ==
    ASSUME NEW F, NEW r \in Seq(F), NEW q \in Seq(F), NEW s \in Seq(F),
           Embeds(s, q)
    PROVE  Embeds(r \o s, r \o q)
<1> DEFINE n == Len(r)
           x == r \o s
           y == r \o q
<1>1. PICK o \in [1..Len(s) -> 1..Len(q)] :
          /\ \A k \in 1..Len(s) : s[k] = q[o[k]]
          /\ \A k, l \in 1..Len(s) : k # l => o[k] # o[l]
  BY DEF Embeds
<1>2. /\ n \in Nat /\ Len(s) \in Nat /\ Len(x) = n + Len(s)
      /\ \A k \in 1..n : x[k] = r[k]
      /\ \A k \in 1..Len(s) : x[n + k] = s[k]
  BY JoinFacts
<1>3. /\ Len(q) \in Nat /\ Len(y) = n + Len(q)
      /\ \A k \in 1..n : y[k] = r[k]
      /\ \A k \in 1..Len(q) : y[n + k] = q[k]
  BY JoinFacts
<1> HIDE DEF n, x, y
<1> DEFINE p == [k \in 1..Len(x) |-> IF k <= n THEN k ELSE n + o[k - n]]
<1>4. ASSUME NEW k \in 1..Len(x)
      PROVE  \/ k \in 1..n /\ k <= n
             \/ k - n \in 1..Len(s) /\ ~(k <= n) /\ n + (k - n) = k
  BY <1>2
<1>5. ASSUME NEW k \in 1..Len(x)
      PROVE  p[k] \in 1..Len(y) /\ x[k] = y[p[k]]
  <2>1. CASE k \in 1..n /\ k <= n
    <3>1. p[k] = k /\ k \in 1..Len(y)
      BY <1>3, <2>1, <1>2
    <3> QED
      BY <1>2, <1>3, <2>1, <3>1
  <2>2. CASE k - n \in 1..Len(s) /\ ~(k <= n) /\ n + (k - n) = k
    <3>1. p[k] = n + o[k - n] /\ o[k - n] \in 1..Len(q)
      BY <1>1, <2>2
    <3>2. n + o[k - n] \in 1..Len(y)
      BY <1>2, <1>3, <3>1
    <3>3. x[k] = s[k - n] /\ y[n + o[k - n]] = q[o[k - n]]
      BY <1>2, <1>3, <2>2, <3>1
    <3> QED
      BY <1>1, <2>2, <3>1, <3>2, <3>3
  <2> QED
    BY <1>4, <2>1, <2>2
<1>6. ASSUME NEW k \in 1..Len(x), NEW l \in 1..Len(x), k # l
      PROVE  p[k] # p[l]
  <2>1. /\ p[k] = IF k <= n THEN k ELSE n + o[k - n]
        /\ p[l] = IF l <= n THEN l ELSE n + o[l - n]
    OBVIOUS
  <2>2. ~(k <= n) => k - n \in 1..Len(s) /\ o[k - n] \in 1..Len(q)
    BY <1>1, <1>2, <1>4
  <2>3. ~(l <= n) => l - n \in 1..Len(s) /\ o[l - n] \in 1..Len(q)
    BY <1>1, <1>2, <1>4
  <2>4. k \in Nat /\ l \in Nat /\ n \in Nat /\ k - n # l - n
    BY <1>2, <1>6
  <2> HIDE DEF p
  <2>5. CASE ~(k <= n) /\ ~(l <= n)
    <3>1. o[k - n] # o[l - n]
      BY <1>1, <2>2, <2>3, <2>4, <2>5
    <3> QED
      BY <1>2, <2>1, <2>2, <2>3, <2>5, <3>1
  <2>6. CASE (k <= n) # (l <= n)
    BY <1>3, <2>1, <2>2, <2>3, <2>4, <2>6
  <2>7. CASE k <= n /\ l <= n
    BY <1>6, <2>1, <2>7
  <2> QED
    BY <2>5, <2>6, <2>7
<1>7. p \in [1..Len(x) -> 1..Len(y)]
  BY <1>5
<1> HIDE DEF p
<1>8. Embeds(x, y)
  BY <1>5, <1>6, <1>7 DEF Embeds
<1> QED
  BY <1>8 DEF x, y

\* A run of neighbouring frames disappears.
LEMMA EmbedsLose ==
    ASSUME NEW F, NEW q \in Seq(F), NEW i \in 1..Len(q), NEW j \in i..Len(q)
    PROVE  /\ SubSeq(q, 1, i - 1) \o SubSeq(q, j + 1, Len(q)) \in Seq(F)
           /\ Embeds(SubSeq(q, 1, i - 1) \o SubSeq(q, j + 1, Len(q)), q)
<1> DEFINE a == SubSeq(q, 1, i - 1)
           b == SubSeq(q, j + 1, Len(q))
           s == a \o b
           o == [k \in 1..Len(s) |-> IF k < i THEN k ELSE k + (j + 1 - i)]
<1>1. Len(q) \in Nat /\ \A k \in 1..Len(q) : q[k] \in F
  BY LenProperties, ElementOfSeq
<1>2. a \in Seq(F) /\ Len(a) = i - 1 /\ \A k \in 1..(i - 1) : a[k] = q[k]
  BY <1>1, SubSeqProperties
<1>3. /\ b \in Seq(F) /\ Len(b) = Len(q) - j
      /\ \A k \in 1..(Len(q) - j) : b[k] = q[j + k]
  BY <1>1, SubSeqProperties
<1> HIDE DEF a, b
<1>4. /\ s \in Seq(F) /\ Len(s) = Len(a) + Len(b)
      /\ \A k \in 1..Len(a) : s[k] = a[k]
      /\ \A k \in 1..Len(b) : s[Len(a) + k] = b[k]
  <2>1. a \in Seq(F) /\ b \in Seq(F)
    BY <1>2, <1>3
  <2> QED
    BY <2>1, JoinFacts
<1> HIDE DEF s
<1>5. ASSUME NEW k \in 1..Len(s)
      PROVE  o[k] \in 1..Len(q) /\ s[k] = q[o[k]]
  <2>1. CASE k < i
    <3>1. /\ k \in 1..(i - 1) /\ k \in 1..Len(a) /\ o[k] = k
          /\ k \in 1..Len(q)
      BY <1>1, <1>2, <2>1
    <3> HIDE DEF o
    <3> QED
      BY <1>2, <1>4, <3>1
  <2>2. CASE ~(k < i)
    <3> DEFINE m == k - (i - 1)
    <3>1. /\ m \in 1..(Len(q) - j) /\ m \in 1..Len(b) /\ Len(a) + m = k
          /\ j + m = o[k] /\ o[k] \in 1..Len(q)
      BY <1>1, <1>2, <1>3, <1>4, <2>2
    <3> HIDE DEF m, o
    <3> QED
      BY <1>3, <1>4, <3>1
  <2> QED
    BY <2>1, <2>2
<1>6. ASSUME NEW k \in 1..Len(s), NEW l \in 1..Len(s), k # l
      PROVE  o[k] # o[l]
  <2>1. /\ o[k] = IF k < i THEN k ELSE k + (j + 1 - i)
        /\ o[l] = IF l < i THEN l ELSE l + (j + 1 - i)
    OBVIOUS
  <2>2. k \in Int /\ l \in Int /\ i \in Int /\ j \in Int /\ i <= j
    BY <1>1
  <2> HIDE DEF o
  <2> QED
    BY <1>6, <2>1, <2>2
<1>7. o \in [1..Len(s) -> 1..Len(q)]
  BY <1>5
<1> HIDE DEF o
<1>8. Embeds(s, q)
  BY <1>5, <1>6, <1>7 DEF Embeds
<1> QED
  BY <1>4, <1>8 DEF s, a, b

\* The oldest frame under way is delivered: the path is the same.
LEMMA DeliverKeepsPath ==
    ASSUME NEW F, NEW r \in Seq(F), NEW q \in Seq(F), q # <<>>
    PROVE  Embeds(Append(r, Head(q)) \o Tail(q), r \o q)
<1> DEFINE t == Append(r, Head(q))
           u == Tail(q)
           x == t \o u
           y == r \o q
           n == Len(r)
<1>1. /\ Len(q) \in Nat \ {0} /\ Head(q) = q[1] /\ Head(q) \in F
      /\ u \in Seq(F) /\ Len(u) = Len(q) - 1
      /\ \A k \in 1..Len(u) : u[k] = q[k + 1]
  BY HeadTailProperties, EmptySeq, LenProperties
<1>2. /\ t \in Seq(F) /\ n \in Nat /\ Len(t) = n + 1 /\ t[n + 1] = q[1]
      /\ \A k \in 1..n : t[k] = r[k]
  BY <1>1, AppendProperties, LenProperties
<1> HIDE DEF t, u
<1>3. /\ Len(x) = Len(t) + Len(u)
      /\ \A k \in 1..Len(t) : x[k] = t[k]
      /\ \A k \in 1..Len(u) : x[Len(t) + k] = u[k]
  <2>1. t \in Seq(F) /\ u \in Seq(F)
    BY <1>1, <1>2
  <2> QED
    BY <2>1, JoinFacts
<1>4. /\ Len(y) = n + Len(q)
      /\ \A k \in 1..n : y[k] = r[k]
      /\ \A k \in 1..Len(q) : y[n + k] = q[k]
  BY JoinFacts
<1> HIDE DEF x, y, n
<1>5. Len(x) = Len(y) /\ Len(x) \in Nat
  BY <1>1, <1>2, <1>3, <1>4
<1>6. ASSUME NEW k \in 1..Len(x) PROVE x[k] = y[k]
  <2>1. CASE k \in 1..n
    BY <1>2, <1>3, <1>4, <2>1
  <2>2. CASE k = n + 1
    <3>1. 1 \in 1..Len(q) /\ n + 1 \in 1..Len(t)
      BY <1>1, <1>2
    <3> QED
      BY <1>2, <1>3, <1>4, <2>2, <3>1
  <2>3. CASE ~(k \in 1..n) /\ k # n + 1
    <3> DEFINE m == k - (n + 1)
    <3>1. /\ m \in 1..Len(u) /\ Len(t) + m = k /\ m + 1 \in 1..Len(q)
          /\ n + (m + 1) = k
      BY <1>1, <1>2, <1>3, <2>3
    <3> HIDE DEF m
    <3>2. x[k] = u[m] /\ y[k] = q[m + 1]
      BY <1>3, <1>4, <3>1
    <3> QED
      BY <1>1, <3>1, <3>2
  <2> QED
    BY <2>1, <2>2, <2>3
<1> DEFINE o == [k \in 1..Len(x) |-> k]
<1>7. o \in [1..Len(x) -> 1..Len(y)] /\ \A k \in 1..Len(x) : o[k] = k
  BY <1>5
<1> HIDE DEF o
<1>8. Embeds(x, y)
  BY <1>6, <1>7 DEF Embeds
<1> QED
  BY <1>8 DEF x, y, t, u

\* What a step of the kernel half does to the frames of an index that is denied
\* before and after it: none is let in; one may leave its stack for the ring.
LEMMA DenyEffect ==
    ASSUME K!IInv, KernelStep, NEW i \in DENY_MAP \cap DENY_MAP'
    PROVE  \/ Stacked(i)' \subseteq Stacked(i) /\ UNCHANGED ring
           \/ \E c \in CPUS :
                 /\ frame[c] \in K!Frames
                 /\ ring' = Append(ring, K!Record(frame[c]))
                 /\ Stacked(i)' = Stacked(i) \ {c}
                 /\ Index(frame[c]) = i => c \in Stacked(i)
<1>1. /\ pc \in [CPUS -> {"idle", "stamp", "output"}]
      /\ frame \in [CPUS -> K!Frames \cup {None}]
      /\ \A c \in CPUS : PPS_COUNTERS[c] \in Nat
      /\ K!StackInv
  BY TotalFacts DEF K!IInv, K!TypeOK
<1>2. K!KernelStep
  BY SameStep DEF KernelStep
<1>3. CASE UNCHANGED <<frame, ring>>
  BY <1>3 DEF Stacked, Index
<1>4. ASSUME NEW c \in CPUS, NEW p \in Packets, K!Accept(c, p)
      PROVE  Stacked(i)' \subseteq Stacked(i) /\ UNCHANGED ring
  <2>1. /\ frame' = [frame EXCEPT ![c] = K!BuildFrame(c, K!inspect(p))]
        /\ UNCHANGED ring /\ ~K!OverThreshold(c) /\ K!inspect(p) # None
        /\ K!flow_hash(K!inspect(p)) % DENY_ENTRIES # i
    BY <1>4 DEF K!Accept, K!Inspected, K!Denied, K!deny_check
  <2>2. K!inspect(p) \in K!Views
    BY <2>1, KernelAssumption, K!InspectedView
  <2>3. K!BuildFrame(c, K!inspect(p)).flow_hash = K!flow_hash(K!inspect(p))
    BY <1>1, <2>1, <2>2, KernelAssumption, K!BuildFacts
  <2>4. Index(frame'[c]) # i /\ \A d \in CPUS \ {c} : frame'[d] = frame[d]
    BY <1>1, <2>1, <2>3 DEF Index
  <2> QED
    BY <2>1, <2>4 DEF Stacked, Index
<1>5. ASSUME NEW c \in CPUS, K!Stamp(c)
      PROVE  Stacked(i)' \subseteq Stacked(i) /\ UNCHANGED ring
  <2>1. /\ frame' = [frame EXCEPT ![c] = [frame[c] EXCEPT !.timestamp_ns = clock]]
        /\ UNCHANGED ring /\ frame[c] \in K!Frames
    BY <1>1, <1>5 DEF K!Stamp, K!bpf_ktime_get_ns, K!StackInv
  <2>2. /\ Index(frame'[c]) = Index(frame[c]) /\ frame[c] # None
        /\ \A d \in CPUS \ {c} : frame'[d] = frame[d]
    BY <1>1, <2>1, KernelAssumption DEF Index, K!Frames
  <2> QED
    BY <2>1, <2>2 DEF Stacked, Index
<1>6. ASSUME NEW c \in CPUS, K!Return(c) PROVE Stacked(i)' = Stacked(i) \ {c}
  BY <1>1, <1>6 DEF K!Return, Stacked, Index
<1>7. ASSUME NEW c \in CPUS, K!OutputFull(c)
      PROVE  Stacked(i)' \subseteq Stacked(i) /\ UNCHANGED ring
  BY <1>6, <1>7 DEF K!OutputFull, K!Refuse
<1>8. ASSUME NEW c \in CPUS, K!OutputOk(c)
      PROVE  /\ frame[c] \in K!Frames
             /\ ring' = Append(ring, K!Record(frame[c]))
             /\ Stacked(i)' = Stacked(i) \ {c}
             /\ Index(frame[c]) = i => c \in Stacked(i)
  <2>1. /\ frame[c] \in K!Frames /\ K!Return(c)
        /\ ring' = Append(ring, K!Record(frame[c]))
    BY <1>1, <1>8 DEF K!OutputOk, K!StackInv
  <2> QED
    BY <1>6, <2>1, KernelAssumption DEF Stacked
<1>9. ASSUME \/ K!Tick
             \/ \E k \in 0..(DENY_ENTRIES - 1) : K!WriteDeny(k)
             \/ \E c \in CPUS, p \in Packets :
                   \/ K!PassNonSignal(c, p) \/ K!PassDenied(c, p)
                   \/ K!PassRateLimited(c, p)
      PROVE  Stacked(i)' \subseteq Stacked(i) /\ UNCHANGED ring
  BY <1>3, <1>9 DEF K!Tick, K!WriteDeny, K!PassNonSignal, K!PassDenied,
                    K!PassRateLimited, K!vars, K!kernelVars
<1>10. CASE \E c \in CPUS, p \in Packets : K!Arrive(c, p)
  BY <1>4, <1>9, <1>10 DEF K!Arrive
<1>11. CASE \E c \in CPUS : K!Finish(c)
  BY <1>5, <1>7, <1>8, <1>11 DEF K!Finish
<1> QED
  BY <1>2, <1>9, <1>10, <1>11 DEF K!KernelStep

\* No step of the system lets the arena expect more of a denied flow.
LEMMA DenyPathStep ==
    ASSUME PInv, PInv', [Next]_vars, NEW i \in DENY_MAP \cap DENY_MAP'
    PROVE  Reaching(i)' <= Reaching(i)
<1> DEFINE q == W!InTransit
           r == received
           F == W!Frames
           x == Path
           y == Path'
<1>1. /\ q \in Seq(F) /\ r \in Seq(F) /\ q' \in Seq(F) /\ r' \in Seq(F)
  <2>1. /\ q \in Seq(F) /\ q' = channel' \o (batch' \o W!Strip(ring'))
        /\ channel' \in Seq(F) /\ batch' \in Seq(F) /\ W!Strip(ring') \in Seq(F)
    BY WorkerAssumption, W!QueueFacts DEF PInv
  <2>2. r \in Seq(F) /\ r' \in Seq(F)
    BY DEF PInv, W!IInv, W!TypeOK
  <2>3. batch' \o W!Strip(ring') \in Seq(F)
    BY <2>1, ConcatProperties
  <2> QED
    BY <2>1, <2>2, <2>3, ConcatProperties
<1>2. x = r \o q /\ y = r' \o q'
  BY DEF Path, W!InTransit, Worker!InTransit
<1>3. x \in Seq(F) /\ y \in Seq(F)
  BY <1>1, <1>2, JoinFacts
<1> DEFINE s == Cardinality(Stacked(i))
           t == Cardinality(Stacked(i)')
           m == Cardinality(Places(x, i))
           n == Cardinality(Places(y, i))
<1>4. /\ s \in Nat /\ t \in Nat /\ m \in Nat /\ n \in Nat
      /\ Reaching(i) = s + m /\ Reaching(i)' = t + n
  BY <1>3, ReachingSplit, StackedFinite, PlacesFinite
<1>5. SUFFICES t + n <= s + m
  BY <1>4
<1>6. ASSUME Stacked(i)' \subseteq Stacked(i), Embeds(y, x) PROVE t + n <= s + m
  <2>1. t <= s
    BY <1>6, StackedFinite, FS_Subset
  <2> HIDE DEF x, y, F
  <2>2. n <= m
    BY <1>3, <1>6, EmbedsCount
  <2> HIDE DEF s, t, m, n
  <2> QED
    BY <1>4, <2>1, <2>2
<1>7. ASSUME NEW v \in Seq(F) PROVE Embeds(v, v)
  <2> DEFINE o == [k \in 1..Len(v) |-> k]
  <2>1. o \in [1..Len(v) -> 1..Len(v)] /\ \A k \in 1..Len(v) : o[k] = k
    OBVIOUS
  <2> HIDE DEF o
  <2> QED
    BY <2>1 DEF Embeds
<1>8. CASE KernelStep
  <2>1. r' = r /\ UNCHANGED userVars
    BY <1>8 DEF KernelStep, userVars
  <2>2. CASE Stacked(i)' \subseteq Stacked(i) /\ UNCHANGED ring
    <3>1. y = x
      BY <1>2, <2>1, <2>2 DEF userVars, W!InTransit
    <3> QED
      BY <1>3, <1>6, <1>7, <2>2, <3>1
  <2>3. ASSUME NEW c \in CPUS, frame[c] \in K!Frames,
               ring' = Append(ring, K!Record(frame[c])),
               Stacked(i)' = Stacked(i) \ {c},
               Index(frame[c]) = i => c \in Stacked(i)
        PROVE  t + n <= s + m
    <3>1. W!Commit(K!Record(frame[c]))
      <4>1. ring' # ring
        <5>1. ring \in Seq(SignalRecords) /\ K!Record(frame[c]) \in SignalRecords
          BY <2>3, RecordFacts DEF PInv, W!IInv, W!TypeOK
        <5>2. Len(ring') = Len(ring) + 1 /\ Len(ring) \in Nat
          BY <2>3, <5>1, AppendProperties, LenProperties
        <5> QED
          BY <5>2
      <4>2. PICK d \in CPUS : frame[d] \in K!Frames /\ W!Commit(K!Record(frame[d]))
        BY <1>8, <4>1, OutputIsCommit DEF W!vars
      <4> QED
        BY <2>3, <4>2 DEF W!Commit
    <3>2. q' = Append(q, frame[c]) /\ frame[c] \in F
      <4>1. W!Feed!Offer(K!Record(frame[c]).frame)
        BY <2>3, <3>1, RecordFacts, WorkerAssumption, W!CommitOffers DEF PInv
      <4> QED
        BY <2>3, <4>1, RecordFacts DEF W!Feed!Offer
    <3> HIDE DEF F
    <3>3. y = Append(x, frame[c])
      <4> DEFINE f == frame[c]
      <4> HIDE DEF f, q, r, x, y
      <4>1. r \o Append(q, f) = Append(r \o q, f)
        BY <1>1, <3>2, AppendConcat DEF f
      <4> QED
        BY <1>2, <2>1, <3>2, <4>1 DEF f
    <3>4. n = m + (IF Index(frame[c]) = i THEN 1 ELSE 0)
      BY <1>3, <3>2, <3>3, JoinCount
    <3>5. t = IF c \in Stacked(i) THEN s - 1 ELSE s
      BY <2>3, StackedFinite, FS_RemoveElement
    <3> HIDE DEF s, t, m, n
    <3> QED
      BY <1>4, <2>3, <3>4, <3>5
  <2> QED
    BY <1>8, <2>2, <2>3, DenyEffect DEF PInv
<1>9. CASE ~KernelStep
  <2>1. UNCHANGED kernelVars
        /\ \/ W!WorkerStep \/ W!ArenaStep \/ W!RequestShutdown \/ W!ProcessEnds
           \/ UNCHANGED W!vars
    BY <1>9, SameThreads
       DEF Next, WorkerStep, ArenaStep, RequestShutdown, ProcessEnds, vars,
           kernelVars, userVars, W!vars, W!workerVars, W!channelVars, W!metricVars,
           W!historyVars
  <2>2. Stacked(i)' = Stacked(i)
    BY <2>1 DEF kernelVars, Stacked, Index
  <2>3. W!Feed!Lose \/ W!Feed!Deliver \/ UNCHANGED W!Feed!feedVars
    BY <2>1, WorkerAssumption, W!ThreadsMoveQueue DEF PInv
  <2>4. SUFFICES Embeds(y, x)
    BY <1>6, <2>2
  <2>5. CASE W!Feed!Lose
    <3>1. /\ \E k \in 1..Len(q) : \E j \in k..Len(q) :
                q' = SubSeq(q, 1, k - 1) \o SubSeq(q, j + 1, Len(q))
          /\ r' = r
      BY <2>5 DEF W!Feed!Lose
    <3> HIDE DEF q, r, F, x, y
    <3>2. PICK k \in 1..Len(q) : \E j \in k..Len(q) :
             q' = SubSeq(q, 1, k - 1) \o SubSeq(q, j + 1, Len(q))
      BY <3>1
    <3>3. PICK j \in k..Len(q) :
             q' = SubSeq(q, 1, k - 1) \o SubSeq(q, j + 1, Len(q))
      BY <3>2
    <3>4. Embeds(q', q)
      BY <1>1, <3>3, EmbedsLose
    <3> QED
      BY <1>1, <1>2, <3>1, <3>4, EmbedsRight
  <2>6. CASE W!Feed!Deliver
    <3>1. q # <<>> /\ q' = Tail(q) /\ r' = Append(r, Head(q))
      BY <2>6 DEF W!Feed!Deliver
    <3> HIDE DEF q, r, F, x, y
    <3> QED
      BY <1>1, <1>2, <3>1, DeliverKeepsPath
  <2>7. CASE UNCHANGED W!Feed!feedVars
    <3>1. q' = q /\ r' = r
      BY <2>7 DEF W!Feed!feedVars
    <3> HIDE DEF q, r, F, x, y
    <3> QED
      BY <1>2, <1>3, <1>7, <3>1
  <2> QED
    BY <2>3, <2>5, <2>6, <2>7
<1> QED
  BY <1>8, <1>9

\* While a deny entry stands, the arena gets no frame of its flows but those
\* that were past the deny check when it was written.
THEOREM DenyHoldsToArenaAlways == Spec => DenyHoldsToArena
<1>1. PInv /\ PInv' /\ [Next]_vars
        => [\A i \in DENY_MAP \cap DENY_MAP' : Reaching(i)' <= Reaching(i)]_vars
  BY DenyPathStep
<1> QED
  BY <1>1, PInvAlways, PTL DEF Spec, DenyHoldsToArena
=============================================================================

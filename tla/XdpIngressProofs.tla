-------------------------- MODULE XdpIngressProofs --------------------------
(***************************************************************************)
(* Proofs about XdpIngress, for every set of CPUs and of packets, every    *)
(* hash into u32, every threshold, ring capacity and size of the deny      *)
(* list.                                                                   *)
(***************************************************************************)
EXTENDS XdpIngress, SequenceTheorems, FiniteSetTheorems, TLAPS

(***************************************************************************)
(* Facts about the data.                                                   *)
(***************************************************************************)

\* The set of frames, field by field.
LEMMA FrameFields ==
    ASSUME NEW f \in Frames
    PROVE  /\ f.timestamp_ns \in 0..MaxClock
           /\ f.pps_delta \in 0..(MAXPPS_THRESHOLD - 1)
           /\ f.cpu_id \in CPUS
           /\ \E v \in Views : f.flow_hash = flow_hash(v)
BY DEF Frames

\* A record wraps a frame, and only that.
LEMMA RecordFacts ==
    /\ \A f \in Frames : Record(f) \in Records /\ Record(f).frame = f
    /\ \A r \in Records : r.frame \in Frames
BY DEF Records, Record

\* What xdp_ingress builds of an accepted packet: its own flow's hash, its CPU
\* and the counter as it was before the charge, which the u32 cap leaves alone.
LEMMA BuildFacts ==
    ASSUME NEW c \in CPUS, NEW v \in Views,
           PPS_COUNTERS[c] \in Nat, ~OverThreshold(c)
    PROVE  /\ BuildFrame(c, v) \in Frames
           /\ BuildFrame(c, v).flow_hash = flow_hash(v)
           /\ BuildFrame(c, v).cpu_id = c
           /\ BuildFrame(c, v).pps_delta = PPS_COUNTERS[c]
<1>1. /\ MAXPPS_THRESHOLD \in Nat /\ MAXPPS_THRESHOLD <= U32
      /\ U32 \in Nat /\ MaxClock \in Nat
  BY XdpAssumption
<1>2. PPS_COUNTERS[c] \in 0..(MAXPPS_THRESHOLD - 1)
  BY <1>1 DEF OverThreshold
<1>3. pps_delta(c) = PPS_COUNTERS[c]
  BY <1>1, <1>2 DEF pps_delta, AtMost
<1>4. BuildFrame(c, v) = [flow_hash |-> flow_hash(v), timestamp_ns |-> 0,
                          l3_hdr |-> v.l3_hdr,
                          l4_flags |-> flow_hash(v) \div U32,
                          pps_delta |-> PPS_COUNTERS[c], cpu_id |-> c]
  <2> DEFINE h == flow_hash(v)
             l == v.l3_hdr
             n == PPS_COUNTERS[c]
             z == [i \in 0..19 |-> 0]
  <2>1. BuildFrame(c, v) =
            [[flow_hash |-> 0, timestamp_ns |-> 0, l3_hdr |-> z,
              l4_flags |-> 0, pps_delta |-> 0, cpu_id |-> 0]
                EXCEPT !.flow_hash = h, !.l3_hdr = l, !.l4_flags = h \div U32,
                       !.pps_delta = n, !.cpu_id = c]
    BY <1>3, Zenon DEF BuildFrame, zeroed
  <2> HIDE DEF h, l, n, z
  <2>2. BuildFrame(c, v) = [flow_hash |-> h, timestamp_ns |-> 0, l3_hdr |-> l,
                            l4_flags |-> h \div U32, pps_delta |-> n,
                            cpu_id |-> c]
    BY <2>1
  <2> QED
    BY <2>2 DEF h, l, n
<1>5. 0 \in 0..MaxClock
  BY <1>1
<1>6. BuildFrame(c, v) \in Frames
  BY <1>2, <1>4, <1>5 DEF Frames
<1> QED
  BY <1>4, <1>6

\* Stamping a frame sets its timestamp to the clock and nothing else.
LEMMA StampFacts ==
    ASSUME NEW f \in Frames, clock \in 0..MaxClock
    PROVE  /\ [f EXCEPT !.timestamp_ns = clock] \in Frames
           /\ [f EXCEPT !.timestamp_ns = clock].timestamp_ns = clock
           /\ [f EXCEPT !.timestamp_ns = clock].cpu_id = f.cpu_id
           /\ [f EXCEPT !.timestamp_ns = clock].pps_delta = f.pps_delta
           /\ [f EXCEPT !.timestamp_ns = clock].flow_hash = f.flow_hash
BY DEF Frames

\* A packet that is inspected has a view.
LEMMA InspectedView ==
    ASSUME NEW p \in Packets, inspect(p) # None
    PROVE  inspect(p) \in Views
BY DEF Views

(***************************************************************************)
(* Type correctness.                                                       *)
(***************************************************************************)

\* A frame is on a CPU's stack exactly while it handles an accepted packet.
StackInv == \A c \in CPUS : pc[c] = "idle" <=> frame[c] = None

\* The maps start empty and every CPU idle.
LEMMA TypeInit == Init => TypeOK /\ StackInv
<1> SUFFICES ASSUME Init PROVE TypeOK /\ StackInv
  OBVIOUS
<1>1. ring \in Seq(Records) /\ Len(ring) = 0
  BY EmptySeq DEF Init
<1>2. 0 \in 0..MaxClock /\ 0 \in 0..MAXPPS_THRESHOLD /\ 0 <= RING_CAPACITY
  BY XdpAssumption
<1> QED
  BY <1>1, <1>2 DEF Init, TypeOK, StackInv

\* Every step of a CPU, of the clock, of the operator and of the consumer keeps
\* the types: in particular the ring within capacity and each counter at most
\* at the threshold.
LEMMA TypeStep == TypeOK /\ StackInv /\ [Next]_vars => TypeOK' /\ StackInv'
<1> SUFFICES ASSUME TypeOK, StackInv, [Next]_vars PROVE TypeOK' /\ StackInv'
  OBVIOUS
<1>1. CASE UNCHANGED vars
  BY <1>1 DEF TypeOK, StackInv, vars, kernelVars
<1>2. ASSUME NEW c \in CPUS, NEW p \in Packets, Accept(c, p)
      PROVE  TypeOK' /\ StackInv'
  <2>1. PPS_COUNTERS[c] \in Nat /\ PPS_COUNTERS[c] < MAXPPS_THRESHOLD
    BY <1>2, XdpAssumption DEF TypeOK, Accept, OverThreshold
  <2>2. BuildFrame(c, inspect(p)) \in Frames
    BY <1>2, <2>1, InspectedView, BuildFacts DEF Accept, Inspected
  <2>3. PPS_COUNTERS' \in [CPUS -> 0..MAXPPS_THRESHOLD]
    BY <1>2, <2>1, XdpAssumption DEF TypeOK, Accept, Charge
  <2>4. pc' = [pc EXCEPT ![c] = "stamp"]
        /\ frame' = [frame EXCEPT ![c] = BuildFrame(c, inspect(p))]
    BY <1>2 DEF Accept
  <2>5. TypeOK'
    BY <1>2, <2>2, <2>3, <2>4 DEF TypeOK, Accept
  <2>6. StackInv'
    BY <2>2, <2>4, NoneAssumption DEF TypeOK, StackInv
  <2> QED
    BY <2>5, <2>6
<1>3. ASSUME NEW c \in CPUS, Stamp(c) PROVE TypeOK' /\ StackInv'
  <2>1. frame[c] \in Frames
    BY <1>3 DEF TypeOK, StackInv, Stamp
  <2>2. [frame[c] EXCEPT !.timestamp_ns = clock] \in Frames
    BY <2>1, StampFacts DEF TypeOK
  <2>3. /\ frame' = [frame EXCEPT ![c] = [frame[c] EXCEPT !.timestamp_ns = clock]]
        /\ pc' = [pc EXCEPT ![c] = "output"]
    BY <1>3 DEF Stamp, bpf_ktime_get_ns, TypeOK
  <2>4. TypeOK'
    <3>1. /\ frame' \in [CPUS -> Frames \cup {None}]
          /\ pc' \in [CPUS -> {"idle", "stamp", "output"}]
      BY <2>2, <2>3 DEF TypeOK
    <3>2. UNCHANGED <<clock, PPS_COUNTERS, DENY_MAP, ring, written, ring_lost>>
      BY <1>3 DEF Stamp
    <3> QED
      BY <3>1, <3>2 DEF TypeOK
  <2>5. StackInv'
    BY <2>2, <2>3, NoneAssumption DEF TypeOK, StackInv
  <2> QED
    BY <2>4, <2>5
<1>4. ASSUME NEW c \in CPUS, Return(c) PROVE StackInv' /\
        pc' \in [CPUS -> {"idle", "stamp", "output"}] /\
        frame' \in [CPUS -> Frames \cup {None}]
  BY <1>4 DEF TypeOK, StackInv, Return
<1>5. ASSUME NEW c \in CPUS, OutputOk(c) PROVE TypeOK' /\ StackInv'
  <2>1. Record(frame[c]) \in Records
    BY <1>5, RecordFacts DEF TypeOK, StackInv, OutputOk
  <2>2. ring' \in Seq(Records) /\ Len(ring') = Len(ring) + 1
    BY <1>5, <2>1, AppendProperties DEF TypeOK, OutputOk
  <2>3. Len(ring') <= RING_CAPACITY
    BY <1>5, <2>2, LenProperties, XdpAssumption DEF TypeOK, OutputOk
  <2>4. written' \in [CPUS -> Nat]
    BY <1>5 DEF TypeOK, OutputOk
  <2> QED
    BY <1>4, <1>5, <2>2, <2>3, <2>4 DEF TypeOK, OutputOk, Return
<1>6. ASSUME NEW c \in CPUS, OutputFull(c) PROVE TypeOK' /\ StackInv'
  <2>1. ring_lost' \in [CPUS -> Nat]
    BY <1>6 DEF TypeOK, OutputFull
  <2> QED
    BY <1>4, <1>6, <2>1 DEF TypeOK, OutputFull, Refuse, Return
<1>7. CASE Tick
  BY <1>7, XdpAssumption DEF TypeOK, StackInv, Tick
<1>8. ASSUME NEW i \in 0..(DENY_ENTRIES - 1), WriteDeny(i)
      PROVE  TypeOK' /\ StackInv'
  BY <1>8 DEF TypeOK, StackInv, WriteDeny
<1>9. CASE Consume
  <2>1. ring' \in Seq(Records) /\ Len(ring') = Len(ring) - 1
    BY <1>9, HeadTailProperties DEF TypeOK, Consume
  <2>2. Len(ring') <= RING_CAPACITY
    BY <2>1, LenProperties, XdpAssumption DEF TypeOK
  <2> QED
    BY <1>9, <2>1, <2>2 DEF TypeOK, StackInv, Consume, kernelVars
<1> QED
  BY <1>1, <1>2, <1>3, <1>5, <1>6, <1>7, <1>8, <1>9
     DEF Next, KernelStep, Arrive, Finish, PassNonSignal, PassDenied,
         PassRateLimited

\* Every variable keeps its type, the ring its capacity, the counters the
\* threshold.
THEOREM TypeCorrect == Spec => []TypeOK
<1>1. Spec => [](TypeOK /\ StackInv)
  BY TypeInit, TypeStep, PTL DEF Spec
<1> QED
  BY <1>1, PTL

(***************************************************************************)
(* The packet counter.                                                     *)
(***************************************************************************)

\* Every step that charges a CPU's counter builds a frame there, and every
\* step that ends a frame counts it as written or as lost.
LEMMA CounterStep ==
    TypeOK /\ CounterIsFrames /\ [Next]_vars => CounterIsFrames'
<1> SUFFICES ASSUME TypeOK, CounterIsFrames, [Next]_vars,
                    NEW d \in CPUS
             PROVE  (PPS_COUNTERS[d] = written[d] + ring_lost[d] + InFlight(d))'
  BY DEF CounterIsFrames
<1>0. /\ PPS_COUNTERS[d] \in Nat /\ written[d] \in Nat /\ ring_lost[d] \in Nat
      /\ PPS_COUNTERS[d] = written[d] + ring_lost[d] + InFlight(d)
  BY XdpAssumption DEF TypeOK, CounterIsFrames
<1>1. CASE UNCHANGED <<pc, PPS_COUNTERS, written, ring_lost>>
  BY <1>0, <1>1 DEF InFlight
<1>2. ASSUME NEW c \in CPUS, NEW p \in Packets, Accept(c, p)
      PROVE  (PPS_COUNTERS[d] = written[d] + ring_lost[d] + InFlight(d))'
  BY <1>0, <1>2 DEF TypeOK, Accept, Inspected, Charge, InFlight
<1>3. ASSUME NEW c \in CPUS, Stamp(c)
      PROVE  (PPS_COUNTERS[d] = written[d] + ring_lost[d] + InFlight(d))'
  BY <1>0, <1>3 DEF TypeOK, Stamp, InFlight
<1>4. ASSUME NEW c \in CPUS, OutputOk(c)
      PROVE  (PPS_COUNTERS[d] = written[d] + ring_lost[d] + InFlight(d))'
  <2>1. /\ pc[c] = "output" /\ pc' = [pc EXCEPT ![c] = "idle"]
        /\ PPS_COUNTERS' = PPS_COUNTERS
    BY <1>4 DEF OutputOk, Return
  <2>2. (InFlight(d))' = IF d = c THEN 0 ELSE InFlight(d)
    BY <2>1 DEF TypeOK, InFlight
  <2>3. InFlight(c) = 1 /\ InFlight(d) \in {0, 1}
    BY <2>1 DEF InFlight
  <2>4. /\ written'[d] + ring_lost'[d]
               = IF d = c THEN written[d] + ring_lost[d] + 1
                          ELSE written[d] + ring_lost[d]
        /\ written'[d] \in Nat /\ ring_lost'[d] \in Nat
    <3>1. /\ written' = [written EXCEPT ![c] = written[c] + 1]
          /\ ring_lost' = ring_lost /\ written \in [CPUS -> Nat]
      BY <1>4 DEF TypeOK, OutputOk
    <3>2. written'[d] = IF d = c THEN written[d] + 1 ELSE written[d]
      BY <3>1
    <3> QED
      BY <1>0, <3>1, <3>2
  <2> QED
    BY <1>0, <2>1, <2>2, <2>3, <2>4
<1>5. ASSUME NEW c \in CPUS, OutputFull(c)
      PROVE  (PPS_COUNTERS[d] = written[d] + ring_lost[d] + InFlight(d))'
  <2>1. /\ pc[c] = "output" /\ pc' = [pc EXCEPT ![c] = "idle"]
        /\ PPS_COUNTERS' = PPS_COUNTERS
    BY <1>5 DEF OutputFull, Return
  <2>2. (InFlight(d))' = IF d = c THEN 0 ELSE InFlight(d)
    BY <2>1 DEF TypeOK, InFlight
  <2>3. InFlight(c) = 1 /\ InFlight(d) \in {0, 1}
    BY <2>1 DEF InFlight
  <2>4. /\ written'[d] + ring_lost'[d]
               = IF d = c THEN written[d] + ring_lost[d] + 1
                          ELSE written[d] + ring_lost[d]
        /\ written'[d] \in Nat /\ ring_lost'[d] \in Nat
    BY <1>0, <1>5 DEF TypeOK, OutputFull
  <2> QED
    BY <1>0, <2>1, <2>2, <2>3, <2>4
<1>6. CASE Tick \/ Consume \/ UNCHANGED vars
  BY <1>1, <1>6 DEF Tick, Consume, vars, kernelVars
<1>7. ASSUME NEW i \in 0..(DENY_ENTRIES - 1), WriteDeny(i)
      PROVE  (PPS_COUNTERS[d] = written[d] + ring_lost[d] + InFlight(d))'
  BY <1>1, <1>7 DEF WriteDeny
<1> QED
  BY <1>2, <1>3, <1>4, <1>5, <1>6, <1>7
     DEF Next, KernelStep, Arrive, Finish, PassNonSignal, PassDenied,
         PassRateLimited

(***************************************************************************)
(* Order.  A frame's place among those of its CPU is fixed when its packet *)
(* is charged and its time when it is stamped; both happen before it is in *)
(* the ring, and other CPUs may act in between.                            *)
(***************************************************************************)

\* Packets of CPU c whose frame has left its stack.
Finished(c) == PPS_COUNTERS[c] - InFlight(c)

RingInv ==
    \A i \in 1..Len(ring) :
        /\ ring[i].frame.timestamp_ns <= clock
        /\ \A c \in CPUS : ring[i].frame.cpu_id = c =>
                             ring[i].frame.pps_delta < Finished(c)

FlightInv ==
    \A c \in CPUS :
        /\ pc[c] # "idle" => /\ frame[c].cpu_id = c
                             /\ frame[c].pps_delta = Finished(c)
        /\ pc[c] = "output" =>
               /\ frame[c].timestamp_ns <= clock
               /\ \A i \in 1..Len(ring) : ring[i].frame.cpu_id = c =>
                      ring[i].frame.timestamp_ns <= frame[c].timestamp_ns

InOrder(e, f) ==
    e.cpu_id = f.cpu_id => /\ e.timestamp_ns <= f.timestamp_ns
                           /\ e.pps_delta < f.pps_delta

OrderInv ==
    /\ RingInv
    /\ FlightInv
    /\ \A i, j \in 1..Len(ring) :
           i < j => InOrder(ring[i].frame, ring[j].frame)

\* The frames in the ring, and the one in flight on each CPU, have their types.
LEMMA OrderTypes ==
    ASSUME TypeOK, StackInv
    PROVE  /\ Len(ring) \in Nat /\ DOMAIN ring = 1..Len(ring)
           /\ clock \in Nat
           /\ \A i \in 1..Len(ring) : /\ ring[i] \in Records
                                      /\ ring[i].frame \in Frames
                                      /\ ring[i].frame.timestamp_ns \in Nat
                                      /\ ring[i].frame.pps_delta \in Nat
                                      /\ ring[i].frame.cpu_id \in CPUS
           /\ \A c \in CPUS : /\ PPS_COUNTERS[c] \in Nat
                              /\ InFlight(c) \in {0, 1}
                              /\ Finished(c) \in Int
           /\ \A c \in CPUS : pc[c] # "idle" => /\ frame[c] \in Frames
                                                /\ frame[c].timestamp_ns \in Nat
                                                /\ frame[c].pps_delta \in Nat
<1>1. ring \in Seq(Records)
  BY DEF TypeOK
<1>2. Len(ring) \in Nat /\ DOMAIN ring = 1..Len(ring)
  BY <1>1, LenProperties
<1>3. \A f \in Frames : /\ f.timestamp_ns \in Nat /\ f.pps_delta \in Nat
                        /\ f.cpu_id \in CPUS
  BY FrameFields, XdpAssumption
<1>4. \A i \in 1..Len(ring) : ring[i] \in Records /\ ring[i].frame \in Frames
  BY <1>1, ElementOfSeq, RecordFacts
<1>5. clock \in Nat /\ \A c \in CPUS : PPS_COUNTERS[c] \in Nat
  BY XdpAssumption DEF TypeOK
<1>6. \A c \in CPUS : InFlight(c) \in {0, 1}
  BY DEF InFlight
<1>7. \A c \in CPUS : Finished(c) \in Int
  BY <1>5, <1>6 DEF Finished
<1>8. \A c \in CPUS : pc[c] # "idle" => frame[c] \in Frames
  BY DEF TypeOK, StackInv
<1> QED
  BY <1>2, <1>3, <1>4, <1>5, <1>6, <1>7, <1>8

\* Every step keeps the order of each CPU's frames.
LEMMA OrderStep == TypeOK /\ StackInv /\ OrderInv /\ [Next]_vars => OrderInv'
<1> SUFFICES ASSUME TypeOK, StackInv, OrderInv, [Next]_vars PROVE OrderInv'
  OBVIOUS
<1>1. CASE UNCHANGED vars
  BY <1>1 DEF OrderInv, RingInv, FlightInv, InOrder, Finished, InFlight, vars,
              kernelVars
<1>2. ASSUME NEW c \in CPUS, NEW p \in Packets, Accept(c, p) PROVE OrderInv'
  <2>1. /\ pc[c] = "idle" /\ pc' = [pc EXCEPT ![c] = "stamp"]
        /\ PPS_COUNTERS' = [PPS_COUNTERS EXCEPT ![c] = @ + 1]
        /\ frame' = [frame EXCEPT ![c] = BuildFrame(c, inspect(p))]
        /\ UNCHANGED <<clock, ring>>
    BY <1>2 DEF Accept, Inspected, Charge
  <2>2. \A d \in CPUS : Finished(d)' = Finished(d)
    <3>1. /\ PPS_COUNTERS \in [CPUS -> Nat]
          /\ pc \in [CPUS -> {"idle", "stamp", "output"}]
      BY XdpAssumption DEF TypeOK
    <3> QED
      BY <2>1, <3>1 DEF Finished, InFlight
  <2>3. /\ frame'[c].cpu_id = c
        /\ frame'[c].pps_delta = PPS_COUNTERS[c]
    BY <1>2, <2>1, InspectedView, BuildFacts, OrderTypes
       DEF TypeOK, Accept, Inspected
  <2>4. Finished(c) = PPS_COUNTERS[c]
    BY <2>1, OrderTypes DEF Finished, InFlight
  <2>5. RingInv'
    BY <2>1, <2>2, OrderTypes DEF OrderInv, RingInv
  <2>6. FlightInv'
    BY <2>1, <2>2, <2>3, <2>4 DEF TypeOK, OrderInv, FlightInv
  <2> QED
    BY <2>1, <2>5, <2>6 DEF OrderInv
<1>3. ASSUME NEW c \in CPUS, Stamp(c) PROVE OrderInv'
  <2>1. /\ pc[c] = "stamp" /\ pc' = [pc EXCEPT ![c] = "output"]
        /\ frame' = [frame EXCEPT ![c] = [frame[c] EXCEPT !.timestamp_ns = clock]]
        /\ UNCHANGED <<clock, ring, PPS_COUNTERS>>
    BY <1>3 DEF Stamp, bpf_ktime_get_ns, TypeOK
  <2>2. \A d \in CPUS : Finished(d)' = Finished(d)
    BY <2>1 DEF TypeOK, Finished, InFlight
  <2>3. frame'[c] = [frame[c] EXCEPT !.timestamp_ns = clock]
    BY <2>1 DEF TypeOK
  <2>4. frame[c] \in Frames /\ clock \in 0..MaxClock
    BY <2>1, OrderTypes DEF TypeOK
  <2>5. /\ frame'[c].cpu_id = frame[c].cpu_id
        /\ frame'[c].pps_delta = frame[c].pps_delta
        /\ frame'[c].timestamp_ns = clock
    BY <2>3, <2>4, StampFacts
  <2>6. clock <= clock
    BY OrderTypes
  <2>7. RingInv'
    BY <2>1, <2>2, OrderTypes DEF OrderInv, RingInv
  <2>8. FlightInv'
    BY <2>1, <2>2, <2>5, <2>6, OrderTypes, SMTT(30)
       DEF TypeOK, OrderInv, FlightInv, RingInv
  <2> QED
    BY <2>1, <2>7, <2>8 DEF OrderInv
<1>4. ASSUME NEW c \in CPUS, pc[c] = "output", Return(c)
      PROVE  /\ Finished(c)' = Finished(c) + 1
             /\ \A d \in CPUS \ {c} : /\ Finished(d)' = Finished(d)
                                      /\ pc'[d] = pc[d] /\ frame'[d] = frame[d]
             /\ pc'[c] = "idle"
  BY <1>4, OrderTypes DEF TypeOK, Return, Finished, InFlight
<1>5. ASSUME NEW c \in CPUS, OutputOk(c) PROVE OrderInv'
  <2> DEFINE n == Len(ring)
             f == frame[c]
  <2>1. pc[c] = "output" /\ Return(c) /\ UNCHANGED clock
        /\ ring' = Append(ring, Record(f))
    BY <1>5 DEF OutputOk, Return
  <2>2. f \in Frames /\ Record(f) \in Records /\ Record(f).frame = f
    BY <2>1, OrderTypes, RecordFacts
  <2>3. /\ Len(ring') = n + 1 /\ n \in Nat
        /\ \A i \in 1..n : ring'[i] = ring[i]
        /\ ring'[n + 1] = Record(f)
    BY <2>1, <2>2, AppendProperties, LenProperties DEF TypeOK
  <2>4. /\ f.cpu_id = c /\ f.pps_delta = Finished(c) /\ f.timestamp_ns <= clock
        /\ f.timestamp_ns \in Nat /\ f.pps_delta \in Nat
        /\ \A i \in 1..n : ring[i].frame.cpu_id = c =>
               ring[i].frame.timestamp_ns <= f.timestamp_ns
    BY <2>1, OrderTypes DEF OrderInv, FlightInv
  <2>5. \A i \in 1..Len(ring') : i \in 1..n \/ i = n + 1
    BY <2>3
  <2> HIDE DEF n, f
  <2>6. \A d \in CPUS : Finished(d) <= Finished(d)'
                        /\ Finished(d) \in Int /\ Finished(d)' \in Int
    BY <1>4, <2>1, OrderTypes
  <2>7. RingInv'
    <3> SUFFICES ASSUME NEW i \in 1..Len(ring')
                 PROVE  /\ ring'[i].frame.timestamp_ns <= clock'
                        /\ \A d \in CPUS : ring'[i].frame.cpu_id = d =>
                               ring'[i].frame.pps_delta < Finished(d)'
      BY DEF RingInv
    <3>1. CASE i \in 1..n
      <4>1. ring'[i] = ring[i] /\ i \in 1..Len(ring) /\ clock' = clock
        BY <2>1, <2>3, <3>1 DEF n
      <4>2. /\ ring[i].frame.pps_delta \in Nat
            /\ ring[i].frame.timestamp_ns <= clock
            /\ \A d \in CPUS : ring[i].frame.cpu_id = d =>
                   ring[i].frame.pps_delta < Finished(d)
        BY <4>1, OrderTypes DEF OrderInv, RingInv
      <4> QED
        BY <2>6, <4>1, <4>2
    <3>2. CASE i = n + 1
      <4>1. ring'[i].frame = f /\ clock' = clock
        BY <2>1, <2>2, <2>3, <3>2
      <4>2. f.pps_delta < Finished(c)'
        BY <1>4, <2>1, <2>4, <2>6
      <4> QED
        BY <2>4, <4>1, <4>2
    <3> QED
      BY <2>5, <3>1, <3>2
  <2>8. FlightInv'
    <3> SUFFICES ASSUME NEW d \in CPUS
                 PROVE  /\ pc'[d] # "idle" => /\ frame'[d].cpu_id = d
                                              /\ frame'[d].pps_delta = Finished(d)'
                        /\ pc'[d] = "output" =>
                            /\ frame'[d].timestamp_ns <= clock'
                            /\ \A i \in 1..Len(ring') : ring'[i].frame.cpu_id = d =>
                                 ring'[i].frame.timestamp_ns <= frame'[d].timestamp_ns
      BY DEF FlightInv
    <3>1. CASE d = c
      BY <1>4, <2>1, <3>1
    <3>2. CASE d # c
      <4>1. Finished(d)' = Finished(d) /\ pc'[d] = pc[d] /\ frame'[d] = frame[d]
        BY <1>4, <2>1, <3>2
      <4>2. \A i \in 1..Len(ring') : ring'[i].frame.cpu_id = d => i \in 1..n
        BY <2>2, <2>3, <2>4, <2>5, <3>2
      <4> QED
        BY <2>1, <2>3, <4>1, <4>2 DEF OrderInv, FlightInv, n
    <3> QED
      BY <3>1, <3>2
  <2>9. ASSUME NEW i \in 1..Len(ring'), NEW j \in 1..Len(ring'), i < j
        PROVE  InOrder(ring'[i].frame, ring'[j].frame)
    <3>1. i \in 1..n
      BY <2>3, <2>9
    <3>2. CASE j \in 1..n
      BY <2>3, <2>9, <3>1, <3>2 DEF OrderInv, n
    <3>3. CASE j = n + 1
      BY <2>2, <2>3, <2>4, <3>1, <3>3 DEF OrderInv, RingInv, InOrder, n
    <3> QED
      BY <2>5, <3>2, <3>3
  <2> QED
    BY <2>7, <2>8, <2>9 DEF OrderInv
<1>6. ASSUME NEW c \in CPUS, OutputFull(c) PROVE OrderInv'
  <2>1. pc[c] = "output" /\ Return(c) /\ UNCHANGED <<clock, ring>>
    BY <1>6 DEF OutputFull, Refuse, Return
  <2>2. \A d \in CPUS : Finished(d) <= Finished(d)'
                        /\ Finished(d) \in Int /\ Finished(d)' \in Int
    BY <1>4, <2>1, OrderTypes
  <2>3. RingInv'
    BY <2>1, <2>2, OrderTypes, SMTT(30) DEF OrderInv, RingInv
  <2>4. FlightInv'
    <3> SUFFICES ASSUME NEW d \in CPUS
                 PROVE  /\ pc'[d] # "idle" => /\ frame'[d].cpu_id = d
                                              /\ frame'[d].pps_delta = Finished(d)'
                        /\ pc'[d] = "output" =>
                            /\ frame'[d].timestamp_ns <= clock'
                            /\ \A i \in 1..Len(ring') : ring'[i].frame.cpu_id = d =>
                                 ring'[i].frame.timestamp_ns <= frame'[d].timestamp_ns
      BY DEF FlightInv
    <3> QED
      BY <1>4, <2>1 DEF OrderInv, FlightInv
  <2> QED
    BY <2>1, <2>3, <2>4 DEF OrderInv
<1>7. CASE Tick
  <2>1. clock' = clock + 1 /\ UNCHANGED <<pc, frame, PPS_COUNTERS, ring>>
    BY <1>7 DEF Tick
  <2>2. \A d \in CPUS : Finished(d)' = Finished(d)
    BY <2>1 DEF Finished, InFlight
  <2>3. RingInv'
    BY <2>1, <2>2, OrderTypes DEF OrderInv, RingInv
  <2>4. FlightInv'
    BY <2>1, <2>2, OrderTypes DEF OrderInv, FlightInv
  <2> QED
    BY <2>1, <2>3, <2>4 DEF OrderInv
<1>8. ASSUME NEW i \in 0..(DENY_ENTRIES - 1), WriteDeny(i) PROVE OrderInv'
  BY <1>8 DEF WriteDeny, OrderInv, RingInv, FlightInv, InOrder, Finished,
              InFlight
<1>9. CASE Consume
  <2>1. /\ ring # <<>> /\ ring' = Tail(ring)
        /\ UNCHANGED <<pc, frame, clock, PPS_COUNTERS>>
    BY <1>9 DEF Consume, kernelVars
  <2>2. Len(ring') = Len(ring) - 1 /\ Len(ring) \in Nat
        /\ \A i \in 1..Len(ring') : ring'[i] = ring[i + 1]
    BY <2>1, HeadTailProperties, LenProperties DEF TypeOK
  <2>3. \A i \in 1..Len(ring') : i + 1 \in 1..Len(ring) /\ ring'[i] = ring[i + 1]
    BY <2>2
  <2>4. \A d \in CPUS : Finished(d)' = Finished(d)
    BY <2>1 DEF Finished, InFlight
  <2>5. RingInv'
    BY <2>1, <2>3, <2>4, OrderTypes DEF OrderInv, RingInv
  <2>6. FlightInv'
    BY <2>1, <2>3, <2>4 DEF OrderInv, FlightInv
  <2>7. ASSUME NEW i \in 1..Len(ring'), NEW j \in 1..Len(ring'), i < j
        PROVE  InOrder(ring'[i].frame, ring'[j].frame)
    <3>1. i + 1 < j + 1
      BY <2>7
    <3> QED
      BY <2>3, <3>1 DEF OrderInv
  <2> QED
    BY <2>5, <2>6, <2>7 DEF OrderInv
<1> QED
  BY <1>1, <1>2, <1>3, <1>5, <1>6, <1>7, <1>8, <1>9
     DEF Next, KernelStep, Arrive, Finish, PassNonSignal, PassDenied,
         PassRateLimited

(***************************************************************************)
(* The deny list.                                                          *)
(***************************************************************************)

\* The CPUs with a frame of a deny index on their stack, and the places of
\* such frames in the ring: the two sets ToCome counts.
OnStack(i) == {c \in CPUS : frame[c] # None /\ DenyIndex(frame[c]) = i}
InRing(i) == {n \in DOMAIN ring : DenyIndex(ring[n].frame) = i}

ToComeSplit(i) ==
    /\ IsFiniteSet(OnStack(i)) /\ Cardinality(OnStack(i)) \in Nat
    /\ IsFiniteSet(InRing(i)) /\ Cardinality(InRing(i)) \in Nat
    /\ ToCome(i) = Cardinality(OnStack(i)) + Cardinality(InRing(i))

\* Both sets are finite, so ToCome is a number.
LEMMA ToComeFinite == TypeOK => \A i : ToComeSplit(i)
<1> SUFFICES ASSUME TypeOK, NEW i PROVE ToComeSplit(i)
  OBVIOUS
<1>1. OnStack(i) \in SUBSET CPUS
  BY DEF OnStack
<1>2. IsFiniteSet(OnStack(i))
  BY <1>1, XdpAssumption, FS_Subset
<1>3. DOMAIN ring = 1..Len(ring) /\ Len(ring) \in Int
  BY LenProperties DEF TypeOK
<1>4. IsFiniteSet(1..Len(ring)) /\ InRing(i) \in SUBSET (1..Len(ring))
  BY <1>3, FS_Interval DEF InRing
<1>5. IsFiniteSet(InRing(i))
  BY <1>4, FS_Subset
<1> QED
  BY <1>2, <1>5, FS_CardinalityType DEF ToComeSplit, ToCome, OnStack, InRing

\* ... in the next state, too.
LEMMA ToComeFiniteNext == (TypeOK => \A i : ToComeSplit(i))'
BY ToComeFinite, PTL

\* A frame keeps its deny index while it is stamped.
LEMMA DenyIndexKept ==
    ASSUME NEW f \in Frames, NEW t
    PROVE  DenyIndex([f EXCEPT !.timestamp_ns = t]) = DenyIndex(f)
BY DEF DenyIndex, Frames

\* No step adds a frame of a flow whose entry stands before and after it: one
\* that is output moves from the stack to the ring, or is gone.
LEMMA DenyStep ==
    ASSUME TypeOK, TypeOK', StackInv, [Next]_vars,
           NEW i \in DENY_MAP \cap DENY_MAP'
    PROVE  ToCome(i)' <= ToCome(i)
<1>0. /\ IsFiniteSet(OnStack(i)) /\ Cardinality(OnStack(i)) \in Nat
      /\ IsFiniteSet(InRing(i)) /\ Cardinality(InRing(i)) \in Nat
      /\ ToCome(i) = Cardinality(OnStack(i)) + Cardinality(InRing(i))
      /\ Cardinality(OnStack(i)') \in Nat /\ Cardinality(InRing(i)') \in Nat
      /\ ToCome(i)' = Cardinality(OnStack(i)') + Cardinality(InRing(i)')
  BY ToComeFinite, ToComeFiniteNext DEF ToComeSplit
<1>1. ASSUME OnStack(i)' \subseteq OnStack(i), InRing(i)' = InRing(i)
      PROVE  ToCome(i)' <= ToCome(i)
  <2>1. Cardinality(OnStack(i)') <= Cardinality(OnStack(i))
    BY <1>0, <1>1, FS_Subset
  <2> QED
    BY <1>0, <1>1, <2>1
<1>2. ASSUME UNCHANGED ring PROVE InRing(i)' = InRing(i)
  BY <1>2 DEF InRing, DenyIndex
<1>3. ASSUME UNCHANGED frame PROVE OnStack(i)' = OnStack(i)
  BY <1>3 DEF OnStack, DenyIndex
<1>4. CASE UNCHANGED <<frame, ring>>
  BY <1>1, <1>2, <1>3, <1>4
<1>5. ASSUME NEW c \in CPUS, NEW p \in Packets, Accept(c, p)
      PROVE  ToCome(i)' <= ToCome(i)
  <2>1. /\ frame' = [frame EXCEPT ![c] = BuildFrame(c, inspect(p))]
        /\ UNCHANGED ring
        /\ flow_hash(inspect(p)) % DENY_ENTRIES # i
    BY <1>5 DEF Accept, Inspected, Denied, deny_check
  <2>2. BuildFrame(c, inspect(p)).flow_hash = flow_hash(inspect(p))
    BY <1>5, InspectedView, BuildFacts, XdpAssumption
       DEF TypeOK, Accept, Inspected
  <2>3. DenyIndex(frame'[c]) # i /\ \A d \in CPUS \ {c} : frame'[d] = frame[d]
    BY <2>1, <2>2 DEF TypeOK, DenyIndex
  <2>4. OnStack(i)' \subseteq OnStack(i)
    BY <2>3 DEF OnStack, DenyIndex
  <2> QED
    BY <1>1, <1>2, <2>1, <2>4
<1>6. ASSUME NEW c \in CPUS, Stamp(c) PROVE ToCome(i)' <= ToCome(i)
  <2>1. /\ frame' = [frame EXCEPT ![c] = [frame[c] EXCEPT !.timestamp_ns = clock]]
        /\ UNCHANGED ring /\ frame[c] \in Frames
    BY <1>6 DEF Stamp, bpf_ktime_get_ns, TypeOK, StackInv
  <2>2. DenyIndex(frame'[c]) = DenyIndex(frame[c])
        /\ \A d \in CPUS \ {c} : frame'[d] = frame[d]
    BY <2>1, DenyIndexKept DEF TypeOK
  <2>3. OnStack(i)' \subseteq OnStack(i)
    BY <2>1, <2>2, NoneAssumption DEF OnStack, DenyIndex
  <2> QED
    BY <1>1, <1>2, <2>1, <2>3
<1>7. ASSUME NEW c \in CPUS, Return(c)
      PROVE  OnStack(i)' = OnStack(i) \ {c}
  BY <1>7 DEF TypeOK, Return, OnStack, DenyIndex
<1>8. ASSUME NEW c \in CPUS, OutputFull(c) PROVE ToCome(i)' <= ToCome(i)
  <2>1. Return(c) /\ UNCHANGED ring
    BY <1>8 DEF OutputFull, Refuse
  <2> QED
    BY <1>1, <1>2, <1>7, <2>1
<1>9. ASSUME NEW c \in CPUS, OutputOk(c) PROVE ToCome(i)' <= ToCome(i)
  <2> DEFINE n == Len(ring)
  <2>1. /\ Return(c) /\ frame[c] \in Frames
        /\ ring' = Append(ring, Record(frame[c]))
    BY <1>9 DEF OutputOk, TypeOK, StackInv
  <2>2. Record(frame[c]) \in Records /\ Record(frame[c]).frame = frame[c]
    BY <2>1, RecordFacts
  <2>3. ring \in Seq(Records) /\ ring' \in Seq(Records)
    BY DEF TypeOK
  <2>4. /\ Len(ring') = n + 1 /\ n \in Nat
        /\ \A k \in 1..n : ring'[k] = ring[k]
        /\ ring'[n + 1] = Record(frame[c])
    BY <2>1, <2>2, <2>3, AppendProperties, LenProperties
  <2>5. DOMAIN ring = 1..n /\ DOMAIN ring' = 1..(n + 1)
    BY <2>3, <2>4, LenProperties
  <2>6. n + 1 \notin InRing(i)
    BY <2>4, <2>5 DEF InRing
  <2> HIDE DEF n
  <2>7. CASE DenyIndex(frame[c]) = i
    <3>1. InRing(i)' = InRing(i) \cup {n + 1}
      BY <2>2, <2>4, <2>5, <2>7 DEF InRing, DenyIndex
    <3>2. c \in OnStack(i)
      BY <2>1, <2>7, NoneAssumption DEF OnStack
    <3>3. Cardinality(InRing(i)') = Cardinality(InRing(i)) + 1
      BY <1>0, <2>6, <3>1, FS_AddElement
    <3>4. Cardinality(OnStack(i)') = Cardinality(OnStack(i)) - 1
      BY <1>0, <1>7, <2>1, <3>2, FS_RemoveElement
    <3> QED
      BY <1>0, <3>3, <3>4
  <2>8. CASE DenyIndex(frame[c]) # i
    <3>1. InRing(i)' = InRing(i)
      BY <2>2, <2>4, <2>5, <2>8 DEF InRing, DenyIndex
    <3> QED
      BY <1>1, <1>7, <2>1, <3>1
  <2> QED
    BY <2>7, <2>8
<1>10. CASE Consume
  <2>1. ring # <<>> /\ ring' = Tail(ring) /\ UNCHANGED frame
    BY <1>10 DEF Consume, kernelVars
  <2>2. ring \in Seq(Records) /\ ring' \in Seq(Records)
    BY DEF TypeOK
  <2>3. /\ Len(ring') = Len(ring) - 1 /\ Len(ring) \in Nat
        /\ DOMAIN ring = 1..Len(ring) /\ DOMAIN ring' = 1..Len(ring')
        /\ \A k \in 1..Len(ring') : ring'[k] = ring[k + 1]
    BY <2>1, <2>2, HeadTailProperties, LenProperties
  <2> DEFINE shift == [k \in InRing(i)' |-> k + 1]
  <2>4. \A k \in InRing(i)' : k \in Nat /\ k + 1 \in InRing(i)
    BY <2>3 DEF InRing, DenyIndex
  <2>5. shift \in Injection(InRing(i)', InRing(i))
    BY <2>4 DEF Injection, IsInjective
  <2> HIDE DEF shift
  <2>6. Cardinality(InRing(i)') <= Cardinality(InRing(i))
    BY <1>0, <2>5, FS_Injection
  <2> QED
    BY <1>0, <1>3, <2>1, <2>6
<1>11. CASE Tick \/ UNCHANGED vars
  BY <1>4, <1>11 DEF Tick, vars, kernelVars
<1>12. ASSUME NEW k \in 0..(DENY_ENTRIES - 1), WriteDeny(k)
       PROVE  ToCome(i)' <= ToCome(i)
  BY <1>4, <1>12 DEF WriteDeny
<1> QED
  BY <1>5, <1>6, <1>8, <1>9, <1>10, <1>11, <1>12
     DEF Next, KernelStep, Arrive, Finish, PassNonSignal, PassDenied,
         PassRateLimited

(***************************************************************************)
(* The inductive invariant and what follows from it.                       *)
(***************************************************************************)

IInv ==
    /\ TypeOK
    /\ StackInv
    /\ CounterIsFrames
    /\ OrderInv

\* No CPU has charged, built or output anything yet.
LEMMA IInvInit == Init => IInv
<1> SUFFICES ASSUME Init PROVE IInv
  OBVIOUS
<1>1. ring = <<>> /\ Len(ring) = 0
  BY EmptySeq DEF Init
<1>2. CounterIsFrames
  BY DEF Init, CounterIsFrames, InFlight
<1>3. OrderInv
  BY <1>1 DEF Init, OrderInv, RingInv, FlightInv
<1> QED
  BY <1>2, <1>3, TypeInit DEF IInv

\* Every step preserves the inductive invariant.
LEMMA IInvStep == IInv /\ [Next]_vars => IInv'
BY TypeStep, CounterStep, OrderStep DEF IInv

\* The inductive invariant holds throughout every behaviour.
LEMMA IInvAlways == Spec => []IInv
BY IInvInit, IInvStep, PTL DEF Spec

\* The per-CPU packet counter is the number of frames that CPU has built:
\* written, refused by the ring, or in flight.
THEOREM CounterIsFramesHolds == Spec => []CounterIsFrames
<1>1. IInv => CounterIsFrames
  BY DEF IInv
<1> QED
  BY <1>1, IInvAlways, PTL

\* However the CPUs interleave, each CPU's frames stand in the ring in the
\* order of their timestamps and of their pps_delta.
THEOREM PerCpuOrderHolds == Spec => []PerCpuOrder
<1>1. IInv => PerCpuOrder
  BY OrderTypes DEF IInv, OrderInv, InOrder, PerCpuOrder
<1> QED
  BY <1>1, IInvAlways, PTL

\* While a deny entry stands, the frames of its flows only run out.
THEOREM DenyOnlyDrainsHolds == Spec => DenyOnlyDrains
<1>1. IInv /\ IInv' /\ [Next]_vars
        => [\A i \in DENY_MAP \cap DENY_MAP' : ToCome(i)' <= ToCome(i)]_vars
  BY DenyStep DEF IInv
<1> QED
  BY <1>1, IInvAlways, PTL DEF Spec, DenyOnlyDrains
=============================================================================

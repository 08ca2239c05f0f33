----------------------------- MODULE XdpIngress -----------------------------
(***************************************************************************)
(* The kernel half of the capture path (sg-ebpf): on every CPU, packets    *)
(* are run through inspect, the deny list and the packet counter of        *)
(* filter::select, turned into a SignalFrame, and output to SIGNAL_RING.   *)
(*                                                                         *)
(* XDP does not preempt itself on a CPU, so one CPU handles one packet at  *)
(* a time; different CPUs interleave wherever they touch what they share:  *)
(* the clock (bpf_ktime_get_ns) and the ring (bpf_ringbuf_output).  Every  *)
(* path returns XDP_PASS, which is therefore not recorded.                 *)
(***************************************************************************)
EXTENDS ProtoView, Sequences, FiniteSets

CONSTANTS
    CPUS,                \* ids bpf_get_smp_processor_id may return
    Packets,             \* packets the NIC may deliver
    Hash(_),             \* murmur3_13 of a 5-tuple, a u32
    U32,                 \* 2^32: how many values a u32 has
    DENY_ENTRIES,        \* 65536, a divisor of 2^32
    MAXPPS_THRESHOLD,
    RING_CAPACITY,       \* records SIGNAL_RING holds before output() fails
    SIGNAL_FRAME_SIZE,
    MaxClock             \* bound on the clock

Views == {inspect(p) : p \in Packets} \ {None}

FiveTuple(v) == <<v.src_ip, v.dst_ip, v.src_port, v.dst_port, v.proto>>

\* The u32 hash zero-extended to u64.
flow_hash(v) == Hash(FiveTuple(v))

ASSUME XdpAssumption ==
    /\ CPUS \subseteq Nat /\ IsFiniteSet(CPUS)
    /\ U32 \in Nat \ {0}
    /\ DENY_ENTRIES \in Nat \ {0}
    /\ MAXPPS_THRESHOLD \in 1..U32
    /\ RING_CAPACITY \in Nat \ {0}
    /\ SIGNAL_FRAME_SIZE \in Nat
    /\ MaxClock \in Nat
    /\ \A v \in Views : flow_hash(v) \in 0..(U32 - 1)

VARIABLES
    pc,              \* per CPU: "idle", "stamp" or "output"
    frame,           \* per CPU: the SignalFrame on the stack, or None
    clock,           \* CLOCK_MONOTONIC
    PPS_COUNTERS,    \* PerCpuArray<u64>, its only slot
    DENY_MAP,        \* indices whose byte is non-zero
    ring,            \* SIGNAL_RING, shared with the vacuum worker
    \* History variables: the program keeps no such counts.
    written,         \* per CPU: frames output() accepted
    ring_lost        \* per CPU: frames output() refused

kernelVars == <<pc, frame, clock, PPS_COUNTERS, DENY_MAP, written, ring_lost>>
vars == <<kernelVars, ring>>

\* SignalFrame::zeroed(); the padding is left out.
zeroed ==
    [flow_hash |-> 0, timestamp_ns |-> 0, l3_hdr |-> [i \in 0..19 |-> 0],
     l4_flags |-> 0, pps_delta |-> 0, cpu_id |-> 0]

Init ==
    /\ pc = [c \in CPUS |-> "idle"]
    /\ frame = [c \in CPUS |-> None]
    /\ clock = 0
    /\ PPS_COUNTERS = [c \in CPUS |-> 0]
    /\ DENY_MAP = {}
    /\ ring = <<>>
    /\ written = [c \in CPUS |-> 0]
    /\ ring_lost = [c \in CPUS |-> 0]

-----------------------------------------------------------------------------
(* filter::select: deny list first, then the per-CPU counter.              *)

\* Mutant: the hash itself is looked up, and misses the map.
DenyCheckUnmasked(h) == h \in DENY_MAP

\* The mask & 0xFFFF; the lookup cannot miss.
deny_check(h) == h % DENY_ENTRIES \in DENY_MAP

\* Mutant: one frame too many.
OverThresholdLate(c) == PPS_COUNTERS[c] > MAXPPS_THRESHOLD
OverThreshold(c) == PPS_COUNTERS[c] >= MAXPPS_THRESHOLD

AtMost(a, b) == IF a <= b THEN a ELSE b

pps_delta(c) == AtMost(PPS_COUNTERS[c], U32 - 1)

PassNonSignal(c, p) ==
    /\ pc[c] = "idle"
    /\ inspect(p) = None
    /\ UNCHANGED vars

Inspected(c, p) == pc[c] = "idle" /\ inspect(p) # None
Denied(p) == deny_check(flow_hash(inspect(p)))

Charge(c) == PPS_COUNTERS' = [PPS_COUNTERS EXCEPT ![c] = @ + 1]

\* Mutant: the counter is charged before the deny list is consulted.
PassDeniedCharged(c, p) ==
    /\ Inspected(c, p) /\ Denied(p) /\ ~OverThreshold(c)
    /\ Charge(c)
    /\ UNCHANGED <<pc, frame, clock, DENY_MAP, ring, written, ring_lost>>

PassDenied(c, p) ==
    /\ Inspected(c, p) /\ Denied(p)
    /\ UNCHANGED vars

PassRateLimited(c, p) ==
    /\ Inspected(c, p) /\ ~Denied(p) /\ OverThreshold(c)
    /\ UNCHANGED vars

\* Steps 4 and 5 of xdp_ingress, all fields but the timestamp.
BuildFrame(c, v) ==
    [zeroed EXCEPT !.flow_hash = flow_hash(v),
                   !.l3_hdr    = v.l3_hdr,
                   !.l4_flags  = flow_hash(v) \div U32,
                   !.pps_delta = pps_delta(c),
                   !.cpu_id    = c]

Accept(c, p) ==
    /\ Inspected(c, p) /\ ~Denied(p) /\ ~OverThreshold(c)
    /\ Charge(c)
    /\ frame' = [frame EXCEPT ![c] = BuildFrame(c, inspect(p))]
    /\ pc' = [pc EXCEPT ![c] = "stamp"]
    /\ UNCHANGED <<clock, DENY_MAP, ring, written, ring_lost>>

\* Mutant: the clock is kept in a type too narrow for it.
ktime_truncated == clock % MaxClock
bpf_ktime_get_ns == clock

\* frame.timestamp_ns = bpf_ktime_get_ns()
Stamp(c) ==
    /\ pc[c] = "stamp"
    /\ frame' = [frame EXCEPT ![c].timestamp_ns = bpf_ktime_get_ns]
    /\ pc' = [pc EXCEPT ![c] = "output"]
    /\ UNCHANGED <<clock, PPS_COUNTERS, DENY_MAP, ring, written, ring_lost>>

-----------------------------------------------------------------------------
(* maps::ring_output: one helper call, serialised by the kernel's ring     *)
(* lock; the invocation ends either way and its stack is gone.             *)

Record(f) == [len |-> SIGNAL_FRAME_SIZE, frame |-> f]

Return(c) ==
    /\ pc' = [pc EXCEPT ![c] = "idle"]
    /\ frame' = [frame EXCEPT ![c] = None]
    /\ UNCHANGED <<clock, PPS_COUNTERS, DENY_MAP>>

OutputOk(c) ==
    /\ pc[c] = "output"
    /\ Len(ring) < RING_CAPACITY
    /\ ring' = Append(ring, Record(frame[c]))
    /\ written' = [written EXCEPT ![c] = @ + 1]
    /\ Return(c)
    /\ UNCHANGED ring_lost

\* Mutant: a full ring overwrites its oldest record.
OverwriteOldest(c) == ring' = Append(Tail(ring), Record(frame[c]))
Refuse(c) == UNCHANGED ring

OutputFull(c) ==
    /\ pc[c] = "output"
    /\ Len(ring) = RING_CAPACITY
    /\ Refuse(c)
    /\ ring_lost' = [ring_lost EXCEPT ![c] = @ + 1]
    /\ Return(c)
    /\ UNCHANGED written

\* An invocation, once its packet is accepted, runs to the end.
Finish(c) == Stamp(c) \/ OutputOk(c) \/ OutputFull(c)

Arrive(c, p) ==
    \/ PassNonSignal(c, p)
    \/ PassDenied(c, p)
    \/ PassRateLimited(c, p)
    \/ Accept(c, p)

-----------------------------------------------------------------------------
(* The environment: time, the operator's writes to the deny list, and the  *)
(* consumer of the ring.                                                   *)

Tick ==
    /\ clock < MaxClock
    /\ clock' = clock + 1
    /\ UNCHANGED <<pc, frame, PPS_COUNTERS, DENY_MAP, ring, written, ring_lost>>

WriteDeny(i) ==
    /\ DENY_MAP' \in {DENY_MAP \cup {i}, DENY_MAP \ {i}}
    /\ UNCHANGED <<pc, frame, clock, PPS_COUNTERS, ring, written, ring_lost>>

Consume ==
    /\ ring # <<>>
    /\ ring' = Tail(ring)
    /\ UNCHANGED kernelVars

KernelStep ==
    \/ \E c \in CPUS, p \in Packets : Arrive(c, p)
    \/ \E c \in CPUS : Finish(c)
    \/ Tick
    \/ \E i \in 0..(DENY_ENTRIES - 1) : WriteDeny(i)

Next == KernelStep \/ Consume

Spec == Init /\ [][Next]_vars

\* An XDP invocation runs to completion, time passes, the ring is read, and
\* packets keep arriving on every CPU.
Fairness ==
    /\ \A c \in CPUS : WF_vars(Finish(c))
    /\ WF_vars(Tick)
    /\ WF_vars(Consume)
    /\ \A c \in CPUS : SF_vars(\E p \in Packets : Accept(c, p))

FairSpec == Spec /\ Fairness

-----------------------------------------------------------------------------
(* Safety.                                                                 *)

Frames ==
    [flow_hash : {flow_hash(v) : v \in Views}, timestamp_ns : 0..MaxClock,
     l3_hdr : {v.l3_hdr : v \in Views},
     l4_flags : {flow_hash(v) \div U32 : v \in Views},
     pps_delta : 0..(MAXPPS_THRESHOLD - 1), cpu_id : CPUS]

Records == {Record(f) : f \in Frames}

\* An absent frame is told apart from every frame.
ASSUME NoneAssumption == None \notin Frames

\* Every variable has its type; the counters stop at the threshold.
TypeOK ==
    /\ pc \in [CPUS -> {"idle", "stamp", "output"}]
    /\ frame \in [CPUS -> Frames \cup {None}]
    /\ clock \in 0..MaxClock
    /\ PPS_COUNTERS \in [CPUS -> 0..MAXPPS_THRESHOLD]
    /\ DENY_MAP \subseteq 0..(DENY_ENTRIES - 1)
    /\ ring \in Seq(Records) /\ Len(ring) <= RING_CAPACITY
    /\ written \in [CPUS -> Nat]
    /\ ring_lost \in [CPUS -> Nat]

InFlight(c) == IF pc[c] = "idle" THEN 0 ELSE 1

\* The packet counter is charged once for every frame that is built, and for
\* nothing else: not for denied flows, not for packets over the threshold.
CounterIsFrames ==
    \A c \in CPUS : PPS_COUNTERS[c] = written[c] + ring_lost[c] + InFlight(c)

\* Whatever the CPUs do between them, the frames of one CPU stand in the ring
\* in the order of their timestamps and in the order in which they were built,
\* each once.  The latter is what pps_delta counts in the code, whatever
\* SignalFrame says of the field (DeltaSinceLastFrame below).
PerCpuOrder ==
    \A i, j \in DOMAIN ring :
        i < j /\ ring[i].frame.cpu_id = ring[j].frame.cpu_id =>
            /\ ring[i].frame.timestamp_ns <= ring[j].frame.timestamp_ns
            /\ ring[i].frame.pps_delta < ring[j].frame.pps_delta

DenyIndex(f) == f.flow_hash % DENY_ENTRIES

\* What consumers will still see of the flows of a deny index: the frames that
\* are past the deny check, on a CPU's stack or in the ring.
ToCome(i) ==
    Cardinality({c \in CPUS : frame[c] # None /\ DenyIndex(frame[c]) = i})
    + Cardinality({n \in DOMAIN ring : DenyIndex(ring[n].frame) = i})

\* The deny list is read once per packet, before its frame is built, so frames
\* of a flow still reach the ring after it is denied; but as long as the entry
\* stands they only run out: no CPU lets another one in.
DenyOnlyDrains ==
    [][\A i \in DENY_MAP \cap DENY_MAP' : ToCome(i)' <= ToCome(i)]_vars

-----------------------------------------------------------------------------
(* What the comments say of the kernel half and the code does not do.      *)

\* SignalFrame documents l4_flags as carrying the protocol in bits 16-23; the
\* protocol of the packet is byte 9 of the IPv4 header beside it.
L4FlagsCarryProtocol ==
    \A i \in DOMAIN ring :
        (ring[i].frame.l4_flags \div 65536) % 256 = ring[i].frame.l3_hdr[9]

\* SignalFrame documents pps_delta as counting the packets since the last frame
\* of the same flow.  A packet that passes the filter builds a frame, so after
\* a frame of its flow there are this packet and those whose frames output()
\* refused (on one CPU: on several, frames of others may be under way).
DeltaSinceLastFrame ==
    \A i, j \in DOMAIN ring :
        LET f == ring[i].frame
            g == ring[j].frame
        IN  i < j /\ f.flow_hash = g.flow_hash =>
                \/ g.pps_delta <= 1 + ring_lost[g.cpu_id]
                \/ \E k \in (i + 1)..(j - 1) : ring[k].frame.flow_hash = f.flow_hash

\* SignalFrame documents both fields, so the frames in the ring agree with the
\* one comment and with the other.  The weaker "or" is stated because the state
\* that violates it disagrees with each of the two.
FieldsAsDocumented == L4FlagsCarryProtocol \/ DeltaSinceLastFrame

\* A packet RATE counter lets packets through again after the busy second: a
\* CPU that is over the threshold does not stay over it for ever.
GateReopens ==
    \A c \in CPUS : OverThreshold(c) ~> ~OverThreshold(c)
=============================================================================

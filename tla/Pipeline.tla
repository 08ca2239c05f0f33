------------------------------ MODULE Pipeline ------------------------------
(***************************************************************************)
(* The whole capture path: the XDP program on every CPU, the one           *)
(* SIGNAL_RING they share, and the single vacuum worker that               *)
(* loader::build_ring_handles gives the ring to (worker 0), with its       *)
(* dispatch channel and consumer thread.                                   *)
(*                                                                         *)
(* Kernel steps are those of XdpIngress, userspace steps those of Vacuum;  *)
(* the ring is the only variable both touch.  Neither half runs against    *)
(* its own stand-in for the other any more: what the worker reads is what  *)
(* xdp_ingress wrote.                                                      *)
(***************************************************************************)
EXTENDS Naturals, Sequences, FiniteSets, Tally

CONSTANTS
    None, CPUS, Packets, Hash(_), U32, DENY_ENTRIES, MAXPPS_THRESHOLD,
    RING_CAPACITY, SIGNAL_FRAME_SIZE, MaxClock,
    BATCH_SIZE, DISPATCH_CAPACITY

VARIABLES
    pc, frame, clock, PPS_COUNTERS, DENY_MAP, written, ring_lost,
    ring,
    shutdown, worker_pc, batch, drained, last_ts_ns, channel, tx, rx,
    frames_ok, frames_dropped, channel_full,
    taken, received, disconnected, purged, taken_at_stop

Kernel == INSTANCE XdpIngress

\* What a CPU may commit.
SignalRecords == Kernel!Records

\* The counters never let a CPU build more than MAXPPS_THRESHOLD frames.
Worker == INSTANCE Vacuum WITH
    Records      <- SignalRecords,
    ArenaMayExit <- FALSE,
    MaxProduced  <- Cardinality(CPUS) * MAXPPS_THRESHOLD

\* What XdpIngress and Vacuum assume of the constants.
ASSUME PipelineAssumption ==
    /\ CPUS \subseteq Nat /\ IsFiniteSet(CPUS)
    /\ U32 \in Nat \ {0}
    /\ DENY_ENTRIES \in Nat \ {0}
    /\ MAXPPS_THRESHOLD \in 1..U32
    /\ RING_CAPACITY \in Nat \ {0}
    /\ SIGNAL_FRAME_SIZE \in Nat
    /\ MaxClock \in Nat
    /\ \A v \in Kernel!Views : Kernel!flow_hash(v) \in 0..(U32 - 1)
    /\ None \notin Kernel!Frames
    /\ BATCH_SIZE \in Nat \ {0}
    /\ DISPATCH_CAPACITY \in Nat \ {0}

kernelVars == <<pc, frame, clock, PPS_COUNTERS, DENY_MAP, written, ring_lost>>

userVars ==
    <<shutdown, worker_pc, batch, drained, last_ts_ns, channel, tx, rx,
      frames_ok, frames_dropped, channel_full,
      taken, received, disconnected, purged, taken_at_stop>>

vars == <<kernelVars, ring, userVars>>

Init == Kernel!Init /\ Worker!Init

KernelStep == Kernel!KernelStep /\ UNCHANGED userVars

WorkerStep == Worker!WorkerStep /\ UNCHANGED kernelVars

ArenaStep == Worker!ArenaStep /\ UNCHANGED kernelVars

RequestShutdown == Worker!RequestShutdown /\ UNCHANGED kernelVars

ProcessEnds == Worker!ProcessEnds /\ UNCHANGED kernelVars

Next == KernelStep \/ WorkerStep \/ ArenaStep \/ RequestShutdown \/ ProcessEnds

Spec == Init /\ [][Next]_vars

-----------------------------------------------------------------------------
(* The userspace half, seen on its own, is the component checked alone.    *)

\* The userspace half behaves as Vacuum although its records come from the
\* XDP program: every frame the CPUs commit is one Vacuum was prepared for.
ImplementsVacuum == Worker!Spec

-----------------------------------------------------------------------------
(* End to end.                                                             *)

Total(f) == SumOver(f, CPUS)

\* Every packet that was charged to a CPU's counter is, at any instant, in
\* exactly one place: on that CPU's stack, refused by the ring, in the ring,
\* dropped by the worker, refused by the channel, in the batch, or sent.
EndToEndAccounting ==
    Total(PPS_COUNTERS) =
        Total([c \in CPUS |-> Kernel!InFlight(c)]) + Total(ring_lost)
        + Len(ring) + frames_dropped + channel_full + Len(batch)
        + Len(channel) + Len(received)

\* The arena is given the frames of one CPU in the order that CPU built them,
\* and none twice.  They are told apart by pps_delta, into which the code puts
\* the number of frames the CPU had built before (SignalFrame documents the
\* field otherwise: DeltaSinceLastFrame of XdpIngress).
PerCpuDelivery ==
    \A i, j \in DOMAIN received :
        i < j /\ received[i].cpu_id = received[j].cpu_id =>
            received[i].pps_delta < received[j].pps_delta

\* A CPU that has been charged nothing has put nothing on the path.
Silent(c) == PPS_COUNTERS[c] = 0

\* The monotonicity check of the vacuum drops nothing as long as the packets
\* all come by one CPU: that CPU's frames are stamped, output and read in one
\* order.  When a frame has been dropped, two CPUs have built frames.
DropsNeedTwoCpus ==
    (\E c \in CPUS : \A d \in CPUS \ {c} : Silent(d)) => frames_dropped = 0

\* What the arena has been given and what is on its way to it, oldest first.
Path == received \o Worker!InTransit

\* How many frames of the flows of a deny index the arena has been given or
\* may still be: on a CPU's stack or anywhere on the path.
Reaching(i) ==
    Cardinality({c \in CPUS : frame[c] # None /\ Kernel!DenyIndex(frame[c]) = i})
    + Cardinality({n \in DOMAIN Path : Kernel!DenyIndex(Path[n]) = i})

\* While a deny entry stands, the arena is given no frame of its flows that was
\* not past the deny check when it was written: no CPU lets another one in, and
\* neither the worker nor the channel doubles one that is under way.
DenyHoldsToArena ==
    [][\A i \in DENY_MAP \cap DENY_MAP' : Reaching(i)' <= Reaching(i)]_vars

-----------------------------------------------------------------------------
(* What the comments say of the whole path and the code does not do.       *)

\* A frame is dropped as a clock anomaly only if its OWN CPU's timestamps went
\* backwards.  The clock of the model never does, so nothing is dropped.
OnlyClockAnomaliesDropped == frames_dropped = 0
=============================================================================

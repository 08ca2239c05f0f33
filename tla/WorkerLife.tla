----------------------------- MODULE WorkerLife -----------------------------
(***************************************************************************)
(* The life of a vacuum worker, of the channel it sends into and of the    *)
(* consumer thread at its other end, with the frames forgotten: where the  *)
(* two threads are, and how many frames wait between them.                 *)
(*                                                                         *)
(* Vacuum is shown to implement it, and Capture builds the life of the     *)
(* whole process from its actions.                                         *)
(***************************************************************************)
EXTENDS Naturals

CONSTANT DISPATCH_CAPACITY   \* capacity of the crossbeam channel, in frames

VARIABLES
    worker,      \* "pinning", "running", "exited" or "panicked"
    consumer,    \* "running" or "exited"
    queued,      \* frames in the dispatch channel
    shutdown     \* the AtomicBool the worker polls

lifeVars == <<worker, consumer, queued, shutdown>>

LifeInit ==
    /\ worker = "pinning"
    /\ consumer = "running"
    /\ queued = 0
    /\ shutdown = FALSE

Pin ==
    /\ worker = "pinning"
    /\ worker' = "running"
    /\ UNCHANGED <<consumer, queued, shutdown>>

\* core_affinity::set_for_current returned false: panic!.
PinFails ==
    /\ worker = "pinning"
    /\ worker' = "panicked"
    /\ UNCHANGED <<consumer, queued, shutdown>>

\* Mutant: the channel takes one frame more than its capacity.
HasRoomLate == queued <= DISPATCH_CAPACITY
HasRoom == queued < DISPATCH_CAPACITY

\* A frame of the batch at hand, the flag set or not.
Send ==
    /\ worker = "running"
    /\ HasRoom
    /\ queued' = queued + 1
    /\ UNCHANGED <<worker, consumer, shutdown>>

\* The flag is seen between two batches; the sender goes with the worker.
Stop ==
    /\ worker = "running"
    /\ shutdown
    /\ worker' = "exited"
    /\ UNCHANGED <<consumer, queued, shutdown>>

Receive ==
    /\ consumer = "running"
    /\ worker # "panicked"
    /\ queued > 0
    /\ queued' = queued - 1
    /\ UNCHANGED <<worker, consumer, shutdown>>

\* Mutant: the consumer gives up as soon as its channel is empty.
SenderIgnored == TRUE
SenderGone == worker = "exited"

\* recv() is Err once the channel is empty and the worker's sender is gone.
HangUp ==
    /\ consumer = "running"
    /\ queued = 0
    /\ SenderGone
    /\ consumer' = "exited"
    /\ UNCHANGED <<worker, queued, shutdown>>

RequestShutdown ==
    /\ worker # "panicked"
    /\ ~shutdown
    /\ shutdown' = TRUE
    /\ UNCHANGED <<worker, consumer, queued>>

LifeNext ==
    \/ Pin \/ PinFails \/ Send \/ Stop \/ Receive \/ HangUp \/ RequestShutdown

LifeSpec == LifeInit /\ [][LifeNext]_lifeVars
=============================================================================

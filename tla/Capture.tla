------------------------------ MODULE Capture -------------------------------
(***************************************************************************)
(* The life of the sg-capture process: main() with its fallible calls and  *)
(* early returns (sg-capture/src/main.rs), the XDP hook that loader.rs     *)
(* attaches and detaches, and the threads main starts: the vacuum worker   *)
(* (spawn_blocking), the arena consumer and the metrics reporter.          *)
(*                                                                         *)
(* What the worker does with frames is Vacuum's subject and what the       *)
(* reporter logs that of Metrics; here the worker, its channel and the     *)
(* consumer take the steps of WorkerLife, which Vacuum implements.         *)
(***************************************************************************)
EXTENDS Naturals

CONSTANTS
    WorkerCounts,        \* worker counts the command line may ask for
    NCPU,                \* slots of the ring handle list
    MayFail,             \* calls of main that may return an error
    DISPATCH_CAPACITY

Calls == {"args", "load", "attach_drv", "attach_skb", "rings", "consumer",
          "reporter", "sigint", "sigterm", "detach"}

Signals == {"SIGINT", "SIGTERM"}

ASSUME CaptureAssumption ==
    /\ WorkerCounts \subseteq Nat
    /\ NCPU \in Nat \ {0}
    /\ MayFail \subseteq Calls
    /\ DISPATCH_CAPACITY \in Nat \ {0}

VARIABLES
    process,         \* "running", "exited", "aborted" (panic) or "killed"
    main_pc,         \* the call main is about to make
    result,          \* what main returned: "none", "ok" or "err"
    worker_count,    \* workers requested, after .min(NCPU)
    slot,            \* ring handles the spawn loop has looked at
    hook,            \* the XDP hook: "none", "attached" or "detached"
    installed,       \* signals that have a Tokio handler
    pending,         \* signals delivered to their handler
    watch,           \* value of the reporter's watch channel
    reporter,        \* "none", "running" or "exited"
    worker,          \* a phase of WorkerLife, before it "none" or "spawned"
    consumer,        \* "none", "running" or "exited"
    queued,          \* frames in the dispatch channel
    shutdown         \* the worker's AtomicBool

Life == INSTANCE WorkerLife

controlVars  == <<process, main_pc, result>>
setupVars    == <<worker_count, slot, hook>>
signalVars   == <<installed, pending>>
reporterVars == <<watch, reporter>>
lifeVars     == <<worker, consumer, queued, shutdown>>
vars == <<controlVars, setupVars, signalVars, reporterVars, lifeVars>>

Init ==
    /\ process = "running" /\ main_pc = "args" /\ result = "none"
    /\ worker_count = 0 /\ slot = 0 /\ hook = "none"
    /\ installed = {} /\ pending = {}
    /\ watch = FALSE /\ reporter = "none"
    /\ worker = "none" /\ consumer = "none" /\ queued = 0
    /\ shutdown = FALSE

-----------------------------------------------------------------------------
(* main(), up to the wait for a signal.                                    *)

At(call) == process = "running" /\ main_pc = call

Goto(call) == main_pc' = call /\ UNCHANGED <<process, result>>

Return(r) == main_pc' = "returned" /\ result' = r /\ UNCHANGED process

\* main goes on, and touches nothing but its own position.
Step(call, next) ==
    /\ At(call)
    /\ Goto(next)
    /\ UNCHANGED <<setupVars, signalVars, reporterVars, lifeVars>>

\* A missing argument, a missing or rejected object, both attach modes
\* failing, no usable SIGNAL_RING, no consumer thread, no signal handler: `?`.
CallFails(call) ==
    /\ At(call)
    /\ call \in MayFail \ {"attach_drv", "reporter", "detach"}
    /\ Return("err")
    /\ UNCHANGED <<setupVars, signalVars, reporterVars, lifeVars>>

ParseArgs(n) ==
    /\ At("args")
    /\ worker_count' = IF n < NCPU THEN n ELSE NCPU
    /\ Goto("load")
    /\ UNCHANGED <<slot, hook, signalVars, reporterVars, lifeVars>>

Load == Step("load", "attach_drv")

AttachIn(mode) ==
    /\ At(mode)
    /\ hook' = "attached"
    /\ Goto("rings")
    /\ UNCHANGED <<worker_count, slot, signalVars, reporterVars, lifeVars>>

\* DRV_MODE failed: one more attempt, in SKB_MODE.
FallBack == "attach_drv" \in MayFail /\ Step("attach_drv", "attach_skb")

Attach == AttachIn("attach_drv") \/ FallBack \/ AttachIn("attach_skb")

\* The one SIGNAL_RING is handles[0]; every other slot stays None.
Populated == {0}

build_ring_handles == Step("rings", "slots")

\* .enumerate().take(worker_count): a slot with a ring gets a worker ...
FindSlot ==
    slot < worker_count /\ slot \in Populated /\ Step("slots", "consumer")

\* ... and one without is passed over.
SkipSlot ==
    /\ At("slots")
    /\ slot < worker_count /\ slot \notin Populated
    /\ slot' = slot + 1
    /\ UNCHANGED <<controlVars, worker_count, hook, signalVars, reporterVars,
                   lifeVars>>

SpawnConsumer ==
    /\ At("consumer")
    /\ consumer' = "running"
    /\ Goto("worker")
    /\ UNCHANGED <<setupVars, signalVars, reporterVars, worker, queued, shutdown>>

SpawnWorker ==
    /\ At("worker")
    /\ worker' = "spawned"
    /\ slot' = slot + 1
    /\ Goto("slots")
    /\ UNCHANGED <<worker_count, hook, signalVars, reporterVars, consumer,
                   queued, shutdown>>

\* Mutant: no safety check, main goes on without a worker.
AfterSlotsUnchecked == "reporter"
AfterSlots == IF worker = "none" THEN "bail" ELSE "reporter"

\* The loop is over; without a single worker main bails out.
EndOfSlots == slot = worker_count /\ Step("slots", AfterSlots)

\* detach, whose error is only logged here, then bail!.
Bail ==
    /\ At("bail")
    /\ \/ hook' = "detached"
       \/ "detach" \in MayFail /\ UNCHANGED hook
    /\ Return("err")
    /\ UNCHANGED <<worker_count, slot, signalVars, reporterVars, lifeVars>>

SpawnReporter ==
    /\ At("reporter")
    /\ reporter' = "running"
    /\ Goto("sigint")
    /\ UNCHANGED <<setupVars, signalVars, watch, lifeVars>>

\* .expect("failed to spawn sg-metrics reporter thread")
ReporterPanics ==
    /\ At("reporter")
    /\ "reporter" \in MayFail
    /\ process' = "aborted"
    /\ UNCHANGED <<main_pc, result, setupVars, signalVars, reporterVars,
                   lifeVars>>

InstallHandler(call, sig, next) ==
    /\ At(call)
    /\ installed' = installed \cup {sig}
    /\ Goto(next)
    /\ UNCHANGED <<setupVars, pending, reporterVars, lifeVars>>

-----------------------------------------------------------------------------
(* The shutdown sequence.                                                  *)

\* tokio::select! on the two signals.
SignalReceived == pending # {} /\ Step("await", "stop")

\* Mutant: the flag is never set.
FlagForgotten == UNCHANGED lifeVars
SetFlag == Life!RequestShutdown

StopWorkers ==
    /\ At("stop")
    /\ SetFlag
    /\ Goto("stop_reporter")
    /\ UNCHANGED <<setupVars, signalVars, reporterVars>>

StopReporter ==
    /\ At("stop_reporter")
    /\ watch' = TRUE
    /\ Goto("join")
    /\ UNCHANGED <<setupVars, signalVars, reporter, lifeVars>>

\* Mutant: the join handles are dropped instead of awaited.
JoinedAtOnce == TRUE
Joined == worker = "exited"

\* Under panic = "abort" no handle ever yields an error.
JoinWorkers == Joined /\ Step("join", "detach")

DetachOk ==
    /\ At("detach")
    /\ hook' = "detached"
    /\ Return("ok")
    /\ UNCHANGED <<worker_count, slot, signalVars, reporterVars, lifeVars>>

\* Mutant: the error of detach is logged and forgotten here too.
DetachErrorLogged == "ok"
DetachError == "err"

DetachFails ==
    /\ At("detach")
    /\ "detach" \in MayFail
    /\ Return(DetachError)
    /\ UNCHANGED <<setupVars, signalVars, reporterVars, lifeVars>>

\* #[tokio::main] drops the runtime, which waits for blocking tasks that have
\* started; then the process ends, whatever its other threads are doing.
ExitProcess ==
    /\ At("returned")
    /\ worker \in {"none", "exited"}
    /\ process' = "exited"
    /\ UNCHANGED <<main_pc, result, setupVars, signalVars, reporterVars,
                   lifeVars>>

MainStep ==
    \/ \E call \in Calls : CallFails(call)
    \/ \E n \in WorkerCounts : ParseArgs(n)
    \/ Load \/ Attach \/ build_ring_handles
    \/ FindSlot \/ SkipSlot \/ SpawnConsumer \/ SpawnWorker \/ EndOfSlots
    \/ Bail \/ SpawnReporter \/ ReporterPanics
    \/ InstallHandler("sigint", "SIGINT", "sigterm")
    \/ InstallHandler("sigterm", "SIGTERM", "await")
    \/ SignalReceived \/ StopWorkers \/ StopReporter \/ JoinWorkers
    \/ DetachOk \/ DetachFails
    \/ ExitProcess

-----------------------------------------------------------------------------
(* The threads.                                                            *)

WorkerTo(phase) ==
    /\ worker = "spawned"
    /\ worker' = phase
    /\ UNCHANGED <<controlVars, setupVars, signalVars, reporterVars, consumer,
                   queued, shutdown>>

StartWorker == process = "running" /\ WorkerTo("pinning")

\* A runtime that is being dropped discards tasks it has not started.
CancelWorker == At("returned") /\ WorkerTo("exited")

\* A step of WorkerLife that leaves the rest of the process alone.
Lives(step) ==
    /\ process = "running"
    /\ step
    /\ UNCHANGED <<controlVars, setupVars, signalVars, reporterVars>>

PinFails ==
    /\ process = "running"
    /\ Life!PinFails
    /\ process' = "aborted"
    /\ UNCHANGED <<main_pc, result, setupVars, signalVars, reporterVars>>

PinWorker == Lives(Life!Pin) \/ PinFails
Send == Lives(Life!Send)
StopWorker == Lives(Life!Stop)
Consume == Lives(Life!Receive) \/ Lives(Life!HangUp)

\* One second later the loop reads the watch value (Metrics); the sender being
\* gone does not change what borrow() returns.
ReporterExits ==
    /\ process = "running"
    /\ reporter = "running"
    /\ watch
    /\ reporter' = "exited"
    /\ UNCHANGED <<controlVars, setupVars, signalVars, watch, lifeVars>>

ThreadStep ==
    \/ StartWorker \/ CancelWorker \/ PinWorker \/ Send \/ StopWorker
    \/ Consume \/ ReporterExits

\* The operating system delivers a signal: to its handler, or fatally.
Deliver(sig) ==
    /\ process = "running"
    /\ IF sig \in installed
       THEN pending' = pending \cup {sig} /\ UNCHANGED process
       ELSE process' = "killed" /\ UNCHANGED pending
    /\ UNCHANGED <<main_pc, result, setupVars, installed, reporterVars,
                   lifeVars>>

Next == MainStep \/ ThreadStep \/ \E sig \in Signals : Deliver(sig)

Spec == Init /\ [][Next]_vars

\* main and every thread are scheduled; the worker looks at the flag between
\* batches and the reporter at the watch value every second.
Fairness ==
    /\ WF_vars(MainStep)
    /\ WF_vars(StartWorker \/ CancelWorker)
    /\ WF_vars(PinWorker)
    /\ WF_vars(StopWorker)
    /\ WF_vars(Consume)
    /\ WF_vars(ReporterExits)

FairSpec == Spec /\ Fairness

-----------------------------------------------------------------------------
(* Safety.                                                                 *)

MainPcs == Calls \cup {"slots", "worker", "bail", "await", "stop",
                       "stop_reporter", "join", "returned"}

\* Every variable has its type, and the channel its capacity.
TypeOK ==
    /\ process \in {"running", "exited", "aborted", "killed"}
    /\ main_pc \in MainPcs
    /\ result \in {"none", "ok", "err"}
    /\ worker_count \in 0..NCPU /\ slot \in 0..worker_count
    /\ hook \in {"none", "attached", "detached"}
    /\ installed \subseteq Signals /\ pending \subseteq installed
    /\ watch \in BOOLEAN /\ shutdown \in BOOLEAN
    /\ worker \in {"none", "spawned", "pinning", "running", "exited",
                   "panicked"}
    /\ consumer \in {"none", "running", "exited"}
    /\ reporter \in {"none", "running", "exited"}
    /\ queued \in 0..DISPATCH_CAPACITY

\* The hook goes only after the worker: nobody drains a ring whose program is
\* gone, and the restored interface is not reported while frames are handled.
DetachAfterWorkers ==
    hook = "detached" => worker \in {"none", "exited"}

\* sg-capture never waits for a signal with the hook attached and nobody to
\* drain the ring ("silently idle", main.rs).
NeverIdle ==
    main_pc = "await" => worker # "none" /\ hook = "attached"

\* A run that reports success has stopped its worker and restored the
\* interface, whatever else failed or was signalled on the way.
SuccessIsClean ==
    result = "ok" => hook = "detached" /\ worker = "exited" /\ shutdown

\* While a worker may still send, the consumer of its channel is there to
\* receive: what Vacuum assumes of main.rs when ArenaMayExit is FALSE.
ConsumerOutlivesWorker ==
    worker \in {"spawned", "pinning", "running"} => consumer = "running"

-----------------------------------------------------------------------------
(* Liveness, under FairSpec.                                               *)

Ended == process # "running"

\* Once both handlers are installed, a signal that reached one of them (before
\* or after the second was installed) ends the process, whatever fails on the
\* way: the worker is stopped and joined, main returns, the runtime is dropped.
SignalEndsProcess == (installed = Signals /\ pending # {}) ~> Ended

-----------------------------------------------------------------------------
(* What the comments say of the process and the code does not do.          *)

\* Every return of main, error exits included, has detached the hook (when
\* detach itself cannot fail).
HookReleased == main_pc = "returned" => hook # "attached"

\* Whatever main returns, the process is torn down.
ReturnEndsProcess == (main_pc = "returned") ~> Ended
=============================================================================

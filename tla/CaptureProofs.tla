---------------------------- MODULE CaptureProofs ---------------------------
(***************************************************************************)
(* Proofs about Capture, for every number of CPUs and of workers asked     *)
(* for, every capacity of the channel, and every set of calls that may     *)
(* fail.                                                                   *)
(***************************************************************************)
EXTENDS Capture, TLAPS

(***************************************************************************)
(* What the position of main says of everything it has started.            *)
(***************************************************************************)

BeforeAttach == {"args", "load", "attach_drv", "attach_skb"}
Starting == {"rings", "slots", "consumer", "worker"}
Serving == {"reporter", "sigint", "sigterm", "await", "stop"}
Stopping == {"stop_reporter", "join", "detach"}

\* The hook is there from attach until main returns.
HookInv ==
    /\ main_pc \in BeforeAttach => hook = "none"
    /\ main_pc \in Starting \cup {"bail"} \cup Serving \cup Stopping
           => hook = "attached"

\* One worker at most, spawned in slot 0 after its consumer; beyond the loop
\* main goes on only with a worker.
SpawnInv ==
    /\ main_pc \in BeforeAttach \cup {"rings", "consumer", "worker"}
           => slot = 0 /\ worker = "none"
    /\ main_pc \in {"consumer", "worker"} => slot < worker_count
    /\ main_pc \in BeforeAttach \cup {"rings", "consumer"} => consumer = "none"
    /\ main_pc = "worker" => consumer = "running"
    /\ main_pc = "slots" /\ slot = 0 => worker = "none" /\ consumer = "none"
    /\ main_pc = "bail" => worker = "none"
    /\ main_pc \in Serving \cup Stopping => worker # "none"

\* The flag is set on the way out and nowhere else, and a worker that has
\* gone has seen it, or was discarded after main returned.
FlagInv ==
    /\ main_pc \in Stopping => shutdown
    /\ shutdown => main_pc \in Stopping \cup {"returned"}
    /\ worker = "exited" => shutdown \/ main_pc = "returned"
    /\ main_pc = "detach" => worker = "exited"
    /\ worker = "panicked" => process = "aborted"

\* main has a result when it has returned.
ResultInv == result # "none" <=> main_pc = "returned"

ControlInv ==
    /\ HookInv /\ SpawnInv /\ FlagInv /\ ResultInv
    /\ DetachAfterWorkers
    /\ SuccessIsClean
    /\ ConsumerOutlivesWorker

IInv == TypeOK /\ ControlInv

\* Nothing has been started yet.
LEMMA IInvInit == Init => IInv
<1> SUFFICES ASSUME Init PROVE IInv
  OBVIOUS
<1>1. TypeOK
  <2>1. worker_count \in 0..NCPU /\ slot \in 0..worker_count
        /\ queued \in 0..DISPATCH_CAPACITY
    BY CaptureAssumption DEF Init
  <2> QED
    BY <2>1 DEF Init, TypeOK, MainPcs, Calls
<1>2. HookInv /\ SpawnInv
  BY DEF Init, HookInv, SpawnInv, BeforeAttach, Starting, Serving, Stopping
<1>3. FlagInv /\ ResultInv
  BY DEF Init, FlagInv, ResultInv, Stopping
<1>4. DetachAfterWorkers /\ SuccessIsClean /\ ConsumerOutlivesWorker
  BY DEF Init, DetachAfterWorkers, SuccessIsClean, ConsumerOutlivesWorker
<1> QED
  BY <1>1, <1>2, <1>3, <1>4 DEF IInv, ControlInv

(***************************************************************************)
(* One step of main, of a thread or of the operating system.               *)
(***************************************************************************)

\* Every step keeps the types: the loop over the ring handles stops at the
\* worker count, and the channel within its capacity.
LEMMA TypeStep == TypeOK /\ SpawnInv /\ [Next]_vars => TypeOK'
<1> SUFFICES ASSUME TypeOK, SpawnInv, [Next]_vars PROVE TypeOK'
  OBVIOUS
<1> USE DEF TypeOK, MainPcs, Calls, At, Goto, Return, Step, controlVars,
            setupVars, signalVars, reporterVars, lifeVars
<1>1. CASE UNCHANGED vars
  BY <1>1 DEF vars
<1>2. ASSUME NEW call \in Calls, CallFails(call) PROVE TypeOK'
  BY <1>2 DEF CallFails
<1>3. ASSUME NEW n \in WorkerCounts, ParseArgs(n) PROVE TypeOK'
  <2>1. worker_count' \in 0..NCPU /\ slot' = 0
    BY <1>3, CaptureAssumption DEF ParseArgs, SpawnInv, BeforeAttach
  <2>2. slot' \in 0..worker_count'
    BY <2>1, CaptureAssumption
  <2> QED
    BY <1>3, <2>1, <2>2 DEF ParseArgs
<1>4. CASE Load \/ FallBack \/ build_ring_handles
  BY <1>4 DEF Load, FallBack, build_ring_handles
<1>5. ASSUME NEW mode \in {"attach_drv", "attach_skb"}, AttachIn(mode)
      PROVE  TypeOK'
  BY <1>5 DEF AttachIn
<1>6. CASE FindSlot
  BY <1>6 DEF FindSlot, Populated
<1>7. CASE SkipSlot
  BY <1>7 DEF SkipSlot, Populated
<1>8. CASE SpawnConsumer
  BY <1>8 DEF SpawnConsumer
<1>9. CASE SpawnWorker
  <2>1. slot' \in 0..worker_count'
    BY <1>9, CaptureAssumption DEF SpawnWorker, SpawnInv
  <2> QED
    BY <1>9, <2>1 DEF SpawnWorker
<1>10. CASE EndOfSlots
  BY <1>10 DEF EndOfSlots, AfterSlots
<1>11. CASE Bail
  BY <1>11 DEF Bail
<1>12. CASE SpawnReporter
  BY <1>12 DEF SpawnReporter
<1>13. CASE ReporterPanics
  BY <1>13 DEF ReporterPanics
<1>14. CASE InstallHandler("sigint", "SIGINT", "sigterm")
  BY <1>14 DEF InstallHandler, Signals
<1>15. CASE InstallHandler("sigterm", "SIGTERM", "await")
  BY <1>15 DEF InstallHandler, Signals
<1>16. CASE SignalReceived
  BY <1>16 DEF SignalReceived
<1>17. CASE StopWorkers
  BY <1>17 DEF StopWorkers, SetFlag, Life!RequestShutdown
<1>18. CASE StopReporter
  BY <1>18 DEF StopReporter
<1>19. CASE JoinWorkers
  BY <1>19 DEF JoinWorkers, Joined
<1>20. CASE DetachOk
  BY <1>20 DEF DetachOk
<1>21. CASE DetachFails
  BY <1>21 DEF DetachFails, DetachError
<1>22. CASE ExitProcess
  BY <1>22 DEF ExitProcess
<1>23. CASE StartWorker \/ CancelWorker
  BY <1>23 DEF StartWorker, CancelWorker, WorkerTo
<1>24. CASE Lives(Life!Pin)
  BY <1>24 DEF Lives, Life!Pin
<1>25. CASE PinFails
  BY <1>25 DEF PinFails, Life!PinFails
<1>26. CASE Send
  BY <1>26, CaptureAssumption DEF Send, Lives, Life!Send, Life!HasRoom
<1>27. CASE StopWorker
  BY <1>27 DEF StopWorker, Lives, Life!Stop
<1>28. CASE Lives(Life!Receive)
  BY <1>28, CaptureAssumption DEF Lives, Life!Receive
<1>29. CASE Lives(Life!HangUp)
  BY <1>29 DEF Lives, Life!HangUp, Life!SenderGone
<1>30. CASE ReporterExits
  BY <1>30 DEF ReporterExits
<1>31. ASSUME NEW sig \in Signals, Deliver(sig) PROVE TypeOK'
  BY <1>31 DEF Deliver
<1>32. CASE MainStep
  BY <1>2, <1>3, <1>4, <1>5, <1>6, <1>7, <1>8, <1>9, <1>10, <1>11, <1>12,
     <1>13, <1>14, <1>15, <1>16, <1>17, <1>18, <1>19, <1>20, <1>21, <1>22,
     <1>32, Zenon DEF MainStep, Attach
<1>33. CASE ThreadStep
  BY <1>23, <1>24, <1>25, <1>26, <1>27, <1>28, <1>29, <1>30, <1>33
     DEF ThreadStep, PinWorker, Consume
<1> QED
  BY <1>1, <1>31, <1>32, <1>33 DEF Next

\* Every step keeps what is started in line with the position of main.
LEMMA ControlStep == TypeOK /\ ControlInv /\ [Next]_vars => ControlInv'
<1> SUFFICES ASSUME TypeOK, ControlInv, [Next]_vars PROVE ControlInv'
  OBVIOUS
<1>0. slot \in Nat /\ worker_count \in Nat
  BY CaptureAssumption DEF TypeOK
<1> USE DEF ControlInv, HookInv, SpawnInv, FlagInv, ResultInv,
            DetachAfterWorkers, SuccessIsClean, ConsumerOutlivesWorker,
            BeforeAttach, Starting, Serving, Stopping,
            At, Goto, Return, Step, controlVars, setupVars, signalVars,
            reporterVars, lifeVars
<1>1. CASE UNCHANGED vars
  BY <1>1 DEF vars
<1>2. ASSUME NEW call \in Calls, CallFails(call) PROVE ControlInv'
  BY <1>2 DEF CallFails
<1>3. ASSUME NEW n \in WorkerCounts, ParseArgs(n) PROVE ControlInv'
  BY <1>3, <1>0 DEF ParseArgs
<1>4. CASE Load \/ FallBack \/ build_ring_handles
  BY <1>4 DEF Load, FallBack, build_ring_handles
<1>5. ASSUME NEW mode \in {"attach_drv", "attach_skb"}, AttachIn(mode)
      PROVE  ControlInv'
  BY <1>5 DEF AttachIn
<1>6. CASE FindSlot
  BY <1>6 DEF FindSlot, Populated
<1>7. CASE SkipSlot
  BY <1>0, <1>7 DEF SkipSlot, Populated
<1>8. CASE SpawnConsumer
  BY <1>8 DEF SpawnConsumer
<1>9. CASE SpawnWorker
  BY <1>0, <1>9 DEF SpawnWorker
<1>10. CASE EndOfSlots
  BY <1>0, <1>10 DEF EndOfSlots, AfterSlots
<1>11. CASE Bail
  BY <1>11 DEF Bail
<1>12. CASE SpawnReporter
  BY <1>12 DEF SpawnReporter
<1>13. CASE ReporterPanics
  BY <1>13 DEF ReporterPanics
<1>14. CASE InstallHandler("sigint", "SIGINT", "sigterm")
  BY <1>14 DEF InstallHandler
<1>15. CASE InstallHandler("sigterm", "SIGTERM", "await")
  BY <1>15 DEF InstallHandler
<1>16. CASE SignalReceived
  BY <1>16 DEF SignalReceived
<1>17. CASE StopWorkers
  BY <1>17 DEF StopWorkers, SetFlag, Life!RequestShutdown
<1>18. CASE StopReporter
  BY <1>18 DEF StopReporter
<1>19. CASE JoinWorkers
  BY <1>19 DEF JoinWorkers, Joined
<1>20. CASE DetachOk
  BY <1>20 DEF DetachOk
<1>21. CASE DetachFails
  BY <1>21 DEF DetachFails, DetachError
<1>22. CASE ExitProcess
  BY <1>22 DEF ExitProcess
<1>23. CASE StartWorker \/ CancelWorker
  BY <1>23 DEF StartWorker, CancelWorker, WorkerTo
<1>24. CASE Lives(Life!Pin)
  BY <1>24 DEF Lives, Life!Pin
<1>25. CASE PinFails
  BY <1>25 DEF PinFails, Life!PinFails
<1>26. CASE Send
  BY <1>26, CaptureAssumption DEF Send, Lives, Life!Send, Life!HasRoom
<1>27. CASE StopWorker
  BY <1>27 DEF StopWorker, Lives, Life!Stop
<1>28. CASE Lives(Life!Receive)
  BY <1>28, CaptureAssumption DEF Lives, Life!Receive
<1>29. CASE Lives(Life!HangUp)
  BY <1>29 DEF Lives, Life!HangUp, Life!SenderGone
<1>30. CASE ReporterExits
  BY <1>30 DEF ReporterExits
<1>31. ASSUME NEW sig \in Signals, Deliver(sig) PROVE ControlInv'
  BY <1>31 DEF Deliver
<1>32. CASE MainStep
  BY <1>2, <1>3, <1>4, <1>5, <1>6, <1>7, <1>8, <1>9, <1>10, <1>11, <1>12,
     <1>13, <1>14, <1>15, <1>16, <1>17, <1>18, <1>19, <1>20, <1>21, <1>22,
     <1>32, Zenon DEF MainStep, Attach
<1>33. CASE ThreadStep
  BY <1>23, <1>24, <1>25, <1>26, <1>27, <1>28, <1>29, <1>30, <1>33
     DEF ThreadStep, PinWorker, Consume
<1> QED
  BY <1>1, <1>31, <1>32, <1>33 DEF Next

(***************************************************************************)
(* What follows from the inductive invariant.                              *)
(***************************************************************************)

\* Every step preserves the inductive invariant.
LEMMA IInvStep == IInv /\ [Next]_vars => IInv'
BY TypeStep, ControlStep DEF IInv, ControlInv

\* The inductive invariant holds throughout every behaviour.
LEMMA IInvAlways == Spec => []IInv
BY IInvInit, IInvStep, PTL DEF Spec

\* Every variable keeps its type, the slot loop its bound and the channel its
\* capacity, whatever fails and whenever signals arrive.
THEOREM TypeCorrect == Spec => []TypeOK
<1>1. IInv => TypeOK
  BY DEF IInv
<1> QED
  BY <1>1, IInvAlways, PTL

\* On every path through main, the hook is detached only when no worker runs.
THEOREM DetachAfterWorkersHolds == Spec => []DetachAfterWorkers
<1>1. IInv => DetachAfterWorkers
  BY DEF IInv, ControlInv
<1> QED
  BY <1>1, IInvAlways, PTL

\* main waits for a signal only with the hook attached and a worker started,
\* whatever number of workers was asked for.
THEOREM NeverIdleHolds == Spec => []NeverIdle
<1>1. IInv => NeverIdle
  BY DEF IInv, ControlInv, HookInv, SpawnInv, Serving, NeverIdle
<1> QED
  BY <1>1, IInvAlways, PTL

\* Ok(()) is returned only after the flag was set, the worker has gone and the
\* hook was detached.
THEOREM SuccessIsCleanHolds == Spec => []SuccessIsClean
<1>1. IInv => SuccessIsClean
  BY DEF IInv, ControlInv
<1> QED
  BY <1>1, IInvAlways, PTL

\* As long as a worker may send, the consumer of its channel receives.
THEOREM ConsumerOutlivesWorkerHolds == Spec => []ConsumerOutlivesWorker
<1>1. IInv => ConsumerOutlivesWorker
  BY DEF IInv, ControlInv
<1> QED
  BY <1>1, IInvAlways, PTL

=============================================================================

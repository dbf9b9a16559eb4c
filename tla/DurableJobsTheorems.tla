------------------------- MODULE DurableJobsTheorems -------------------------
(***************************************************************************)
(* Proofs of the safety properties of the durable job lifecycle: first the *)
(* type invariant and the inductive invariant LifecycleInv, then what      *)
(* rests on them.  Each invariant and each property has one lemma per part *)
(* of the system, with one step per action of that part.                   *)
(***************************************************************************)
EXTENDS DurableJobsProperties, TLAPS

USE ConstantsAssumption
USE DEF jobRow, slotVars, redisVars, cloudVars, execLocals, watchers, botVars, counters
USE DEF Statuses, QueuedStatuses, ActiveStatuses, TerminalStatuses, ExecPoints,
        LockedPoints, ObserverPoints, ReconcilerPoints, CancelPoints, CloudTerminal
USE DEF Exec, Goto, Return, Transition, Moved, Allowed, Enqueue, LockFree,
     Unlock, MarkFinalized, Claimed, Open, Observe, Reconcile, Fault,
     ActiveJobs, Blocks, FinalizerAt, ReleaseSlot, FinalStatus, Launched,
     RunsInFlight, LeftToReconciler

-----------------------------------------------------------------------------
(* Type correctness *)

USE DEF TypeOK

LEMMA TypeInit == Init => TypeOK
<1>1. Init => card \in [Jobs -> BOOLEAN] /\ finalized \in [Jobs -> BOOLEAN]
  BY DEF Init
<1>2. Init => cancelFlag \in BOOLEAN
  BY DEF Init
<1>3. QED BY <1>1, <1>2 DEF Init

LEMMA TypeExecuteStep ==
  ASSUME TypeOK, NEW j \in Jobs, ExecuteStep(j)
  PROVE  TypeOK'
<1>1. CASE Pickup(j)
  BY <1>1 DEF Pickup
<1>2. CASE CheckCancelFlag(j)
  BY <1>2 DEF CheckCancelFlag
<1>3. CASE BusyGatePass(j)
  BY <1>3 DEF BusyGatePass
<1>4. CASE BusyGateDefer(j)
  BY <1>4 DEF BusyGateDefer
<1>5. CASE CloseZombie(j)
  BY <1>5 DEF CloseZombie
<1>6. CASE AcquireLock(j)
  BY <1>6 DEF AcquireLock
<1>7. CASE LockTimeout(j)
  BY <1>7 DEF LockTimeout
<1>8. CASE StartJob(j)
  BY <1>8 DEF StartJob
<1>9. CASE ClearCancel(j)
  BY <1>9 DEF ClearCancel
<1>10. CASE CreateRun(j)
  BY <1>10 DEF CreateRun
<1>11. CASE BindSlot(j)
  BY <1>11 DEF BindSlot
<1>12. CASE BindJob(j)
  BY <1>12 DEF BindJob
<1>13. CASE SendCard(j)
  BY <1>13 DEF SendCard
<1>14. CASE LeaveToReconciler(j)
  BY <1>14 DEF LeaveToReconciler
<1>15. CASE RequeueJob(j)
  BY <1>15 DEF RequeueJob
<1>16. CASE EnqueueDeferred(j)
  BY <1>16 DEF EnqueueDeferred
<1>17. CASE FailJob(j)
  BY <1>17 DEF FailJob
<1>18. CASE CloseFailed(j)
  BY <1>18 DEF CloseFailed
<1>19. QED BY <1>1, <1>2, <1>3, <1>4, <1>5, <1>6, <1>7, <1>8, <1>9, <1>10,
     <1>11, <1>12, <1>13, <1>14, <1>15, <1>16, <1>17, <1>18 DEF ExecuteStep

LEMMA TypeExecuteFault ==
  ASSUME TypeOK, NEW j \in Jobs, ExecuteFault(j)
  PROVE  TypeOK'
<1>1. CASE BusyGateZombie(j)
  BY <1>1 DEF BusyGateZombie
<1>2. CASE FailContext(j)
  BY <1>2 DEF FailContext
<1>3. CASE CursorError(j)
  BY <1>3 DEF CursorError
<1>4. CASE TelegramError(j)
  BY <1>4 DEF TelegramError
<1>5. CASE JobTimeout(j)
  BY <1>5 DEF JobTimeout
<1>6. QED BY <1>1, <1>2, <1>3, <1>4, <1>5 DEF ExecuteFault

LEMMA TypeObserverStep ==
  ASSUME TypeOK, NEW j \in Jobs, ObserverStep(j)
  PROVE  TypeOK'
<1>1. CASE ObserveCancel(j)
  BY <1>1 DEF ObserveCancel
<1>2. CASE ObserveTerminal(j)
  BY <1>2 DEF ObserveTerminal
<1>3. CASE ObserverCancelJob(j)
  BY <1>3 DEF ObserverCancelJob
<1>4. CASE ObserverCloseCancelled(j)
  BY <1>4 DEF ObserverCloseCancelled
<1>5. CASE ObserverCleanup(j)
  BY <1>5 DEF ObserverCleanup
<1>6. QED BY <1>1, <1>2, <1>3, <1>4, <1>5 DEF ObserverStep

LEMMA TypeObserverFault ==
  ASSUME TypeOK, NEW j \in Jobs, ObserverFault(j)
  PROVE  TypeOK'
<1>1. CASE ObservePause(j)
  BY <1>1 DEF ObservePause
<1>2. CASE ObserveError(j)
  BY <1>2 DEF ObserveError
<1>3. CASE ApprovalNotSent(j)
  BY <1>3 DEF ApprovalNotSent
<1>4. QED BY <1>1, <1>2, <1>3 DEF ObserverFault

LEMMA TypeFinalizerStep ==
  ASSUME TypeOK, NEW j \in Jobs, FinalizerStep(j)
  PROVE  TypeOK'
<1>1. CASE FinalizeClaim(j)
  BY <1>1 DEF FinalizeClaim
<1>2. CASE FinalizeEffects(j)
  BY <1>2 DEF FinalizeEffects
<1>3. CASE FinalizeSettle(j)
  BY <1>3 DEF FinalizeSettle
<1>4. CASE FinalizeUnbind(j)
  BY <1>4 DEF FinalizeUnbind
<1>5. QED BY <1>1, <1>2, <1>3, <1>4 DEF FinalizerStep

LEMMA TypeReconcilerStep ==
  ASSUME TypeOK, NEW j \in Jobs, ReconcilerStep(j)
  PROVE  TypeOK'
<1>1. CASE ReconcileList(j)
  BY <1>1 DEF ReconcileList
<1>2. CASE ReconcileFetch(j)
  BY <1>2 DEF ReconcileFetch
<1>3. CASE ReconcileCloseFailed(j)
  BY <1>3 DEF ReconcileCloseFailed
<1>4. CASE RespawnObserver(j)
  BY <1>4 DEF RespawnObserver
<1>5. QED BY <1>1, <1>2, <1>3, <1>4 DEF ReconcilerStep

LEMMA TypeReconcilerFault ==
  ASSUME TypeOK, NEW j \in Jobs, ReconcilerFault(j)
  PROVE  TypeOK'
<1>1. CASE ReconcileFetchError(j)
  BY <1>1 DEF ReconcileFetchError
<1>2. CASE ReconcileTimeout(j)
  BY <1>2 DEF ReconcileTimeout
<1>3. QED BY <1>1, <1>2 DEF ReconcilerFault

LEMMA TypeStartupStep ==
  ASSUME TypeOK, StartupStep
  PROVE  TypeOK'
<1>1. CASE WorkerStart
  BY <1>1 DEF WorkerStart
<1>2. CASE ListActive
  BY <1>2 DEF ListActive
<1>3. CASE WorkerReady
  BY <1>3 DEF WorkerReady
<1>4. ASSUME NEW j \in Jobs, RecoverQueued(j) PROVE TypeOK'
  BY <1>4 DEF RecoverQueued
<1>5. ASSUME NEW j \in Jobs, RecoverEnqueue(j) PROVE TypeOK'
  BY <1>5 DEF RecoverEnqueue
<1>6. ASSUME NEW j \in Jobs, RecoverObserved(j) PROVE TypeOK'
  BY <1>6 DEF RecoverObserved
<1>7. QED BY <1>1, <1>2, <1>3, <1>4, <1>5, <1>6 DEF StartupStep

LEMMA TypeCancelStep ==
  ASSUME TypeOK, CancelStep
  PROVE  TypeOK'
<1>1. CASE RequestCancel
  BY <1>1 DEF RequestCancel
<1>2. CASE ListQueued
  BY <1>2 DEF ListQueued
<1>3. ASSUME NEW j \in Jobs, CancelQueued(j) PROVE TypeOK'
  BY <1>3 DEF CancelQueued
<1>4. CASE ReadSlot
  BY <1>4 DEF ReadSlot
<1>5. CASE CancelLatestActive
  BY <1>5 DEF CancelLatestActive
<1>6. CASE StopRun
  BY <1>6 DEF StopRun
<1>7. CASE CancelUnbind
  BY <1>7 DEF CancelUnbind
<1>8. QED BY <1>1, <1>2, <1>3, <1>4, <1>5, <1>6, <1>7 DEF CancelStep

LEMMA TypeOthers ==
  ASSUME TypeOK,
         (\E j \in Jobs : CreateJob(j) \/ EnqueueJob(j))
            \/ ListForRespawn \/ WorkerCrash \/ BotCrash \/ CancelBegin
            \/ (\E r \in Runs : RunEnds(r)) \/ LockExpires \/ FlagExpires
            \/ UNCHANGED vars
  PROVE  TypeOK'
<1>1. ASSUME NEW j \in Jobs, CreateJob(j) PROVE TypeOK'
  BY <1>1 DEF CreateJob
<1>2. ASSUME NEW j \in Jobs, EnqueueJob(j) PROVE TypeOK'
  BY <1>2 DEF EnqueueJob
<1>3. CASE ListForRespawn
  BY <1>3 DEF ListForRespawn
<1>4. CASE WorkerCrash
  <2>1. cancelFlag' \in BOOLEAN BY <1>4 DEF WorkerCrash
  <2>2. QED BY <1>4, <2>1 DEF WorkerCrash
<1>5. CASE BotCrash
  BY <1>5 DEF BotCrash
<1>6. CASE CancelBegin
  BY <1>6 DEF CancelBegin
<1>7. ASSUME NEW r \in Runs, RunEnds(r) PROVE TypeOK'
  BY <1>7 DEF RunEnds
<1>8. CASE LockExpires
  BY <1>8 DEF LockExpires
<1>9. CASE FlagExpires
  <2>1. cancelFlag' \in BOOLEAN BY <1>9 DEF FlagExpires
  <2>2. QED BY <1>9, <2>1 DEF FlagExpires
<1>10. CASE UNCHANGED vars
  BY <1>10 DEF vars
<1>11. QED BY <1>1, <1>2, <1>3, <1>4, <1>5, <1>6, <1>7, <1>8, <1>9, <1>10

LEMMA TypeNext ==
  ASSUME TypeOK, [Next]_vars
  PROVE  TypeOK'
<1>1. ASSUME NEW j \in Jobs,
             ExecuteStep(j) \/ ExecuteFault(j) \/ ObserverStep(j) \/
             ObserverFault(j) \/ FinalizerStep(j) \/ ReconcilerStep(j)
             \/ ReconcilerFault(j)
      PROVE  TypeOK'
  BY <1>1, TypeExecuteStep, TypeExecuteFault, TypeObserverStep,
       TypeObserverFault, TypeFinalizerStep, TypeReconcilerStep,
       TypeReconcilerFault
<1>2. CASE StartupStep \/ CancelStep
  BY <1>2, TypeStartupStep, TypeCancelStep
<1>3. CASE (\E j \in Jobs : CreateJob(j) \/ EnqueueJob(j))
            \/ ListForRespawn \/ WorkerCrash \/ BotCrash \/ CancelBegin
            \/ (\E r \in Runs : RunEnds(r)) \/ LockExpires \/ FlagExpires
            \/ UNCHANGED vars
  BY <1>3, TypeOthers
<1>4. QED BY <1>1, <1>2, <1>3 DEF Next

(* Every variable of the bot, the worker, Redis and the database keeps its   *)
(* type, and a launch past create_run holds the id of a run: on_update never *)
(* binds a slot or a job to nothing (durable_run.launch_durable_cloud_job).  *)
THEOREM TypeCorrect == Spec => []TypeOK
<1>1. TypeOK /\ [Next]_vars => TypeOK' BY TypeNext
<1>2. QED BY <1>1, TypeInit, PTL DEF Spec

-----------------------------------------------------------------------------
(* Where the ticket, the run ids and finalized_at of a job may be *)

USE DEF LifecycleInv, OneTicket, HasTicket, WaitingPoints, UnboundPoints, Tally

LEMMA LifecycleInit == Init => LifecycleInv
BY DEF Init

LEMMA LifecycleExecuteStep ==
  ASSUME TypeOK, LifecycleInv, NEW j \in Jobs, ExecuteStep(j)
  PROVE  LifecycleInv'
<1>1. CASE Pickup(j)
  BY <1>1 DEF Pickup
<1>2. CASE CheckCancelFlag(j)
  BY <1>2 DEF CheckCancelFlag
<1>3. CASE BusyGatePass(j)
  BY <1>3 DEF BusyGatePass
<1>4. CASE BusyGateDefer(j)
  BY <1>4 DEF BusyGateDefer
<1>5. CASE CloseZombie(j)
  BY <1>5 DEF CloseZombie
<1>6. CASE AcquireLock(j)
  BY <1>6 DEF AcquireLock
<1>7. CASE LockTimeout(j)
  BY <1>7 DEF LockTimeout
<1>8. CASE StartJob(j)
  BY <1>8 DEF StartJob
<1>9. CASE ClearCancel(j)
  BY <1>9 DEF ClearCancel
<1>10. CASE CreateRun(j)
  BY <1>10 DEF CreateRun
<1>11. CASE BindSlot(j)
  BY <1>11 DEF BindSlot
<1>12. CASE BindJob(j)
  BY <1>12 DEF BindJob
<1>13. CASE SendCard(j)
  BY <1>13 DEF SendCard
<1>14. CASE LeaveToReconciler(j)
  BY <1>14 DEF LeaveToReconciler
<1>15. CASE RequeueJob(j)
  BY <1>15 DEF RequeueJob
<1>16. CASE EnqueueDeferred(j)
  BY <1>16 DEF EnqueueDeferred
<1>17. CASE FailJob(j)
  BY <1>17 DEF FailJob
<1>18. CASE CloseFailed(j)
  BY <1>18 DEF CloseFailed
<1>19. QED BY <1>1, <1>2, <1>3, <1>4, <1>5, <1>6, <1>7, <1>8, <1>9, <1>10,
     <1>11, <1>12, <1>13, <1>14, <1>15, <1>16, <1>17, <1>18 DEF ExecuteStep

LEMMA LifecycleExecuteFault ==
  ASSUME TypeOK, LifecycleInv, NEW j \in Jobs, ExecuteFault(j)
  PROVE  LifecycleInv'
<1>1. CASE BusyGateZombie(j)
  BY <1>1 DEF BusyGateZombie
<1>2. CASE FailContext(j)
  BY <1>2 DEF FailContext
<1>3. CASE CursorError(j)
  BY <1>3 DEF CursorError
<1>4. CASE TelegramError(j)
  BY <1>4 DEF TelegramError
<1>5. CASE JobTimeout(j)
  BY <1>5 DEF JobTimeout
<1>6. QED BY <1>1, <1>2, <1>3, <1>4, <1>5 DEF ExecuteFault

LEMMA LifecycleObserverStep ==
  ASSUME TypeOK, LifecycleInv, NEW j \in Jobs, ObserverStep(j)
  PROVE  LifecycleInv'
<1>1. CASE ObserveCancel(j)
  BY <1>1 DEF ObserveCancel
<1>2. CASE ObserveTerminal(j)
  BY <1>2 DEF ObserveTerminal
<1>3. CASE ObserverCancelJob(j)
  BY <1>3 DEF ObserverCancelJob
<1>4. CASE ObserverCloseCancelled(j)
  BY <1>4 DEF ObserverCloseCancelled
<1>5. CASE ObserverCleanup(j)
  BY <1>5 DEF ObserverCleanup
<1>6. QED BY <1>1, <1>2, <1>3, <1>4, <1>5 DEF ObserverStep

LEMMA LifecycleObserverFault ==
  ASSUME TypeOK, LifecycleInv, NEW j \in Jobs, ObserverFault(j)
  PROVE  LifecycleInv'
<1>1. CASE ObservePause(j)
  BY <1>1 DEF ObservePause
<1>2. CASE ObserveError(j)
  BY <1>2 DEF ObserveError
<1>3. CASE ApprovalNotSent(j)
  BY <1>3 DEF ApprovalNotSent
<1>4. QED BY <1>1, <1>2, <1>3 DEF ObserverFault

LEMMA LifecycleFinalizerStep ==
  ASSUME TypeOK, LifecycleInv, NEW j \in Jobs, FinalizerStep(j)
  PROVE  LifecycleInv'
<1>1. CASE FinalizeClaim(j)
  BY <1>1 DEF FinalizeClaim
<1>2. CASE FinalizeEffects(j)
  BY <1>2 DEF FinalizeEffects
<1>3. CASE FinalizeSettle(j)
  BY <1>3 DEF FinalizeSettle
<1>4. CASE FinalizeUnbind(j)
  BY <1>4 DEF FinalizeUnbind
<1>5. QED BY <1>1, <1>2, <1>3, <1>4 DEF FinalizerStep

LEMMA LifecycleReconcilerStep ==
  ASSUME TypeOK, LifecycleInv, NEW j \in Jobs, ReconcilerStep(j)
  PROVE  LifecycleInv'
<1>1. CASE ReconcileList(j)
  BY <1>1 DEF ReconcileList
<1>2. CASE ReconcileFetch(j)
  BY <1>2 DEF ReconcileFetch
<1>3. CASE ReconcileCloseFailed(j)
  BY <1>3 DEF ReconcileCloseFailed
<1>4. CASE RespawnObserver(j)
  BY <1>4 DEF RespawnObserver
<1>5. QED BY <1>1, <1>2, <1>3, <1>4 DEF ReconcilerStep

LEMMA LifecycleReconcilerFault ==
  ASSUME TypeOK, LifecycleInv, NEW j \in Jobs, ReconcilerFault(j)
  PROVE  LifecycleInv'
<1>1. CASE ReconcileFetchError(j)
  BY <1>1 DEF ReconcileFetchError
<1>2. CASE ReconcileTimeout(j)
  BY <1>2 DEF ReconcileTimeout
<1>3. QED BY <1>1, <1>2 DEF ReconcilerFault

LEMMA LifecycleStartupStep ==
  ASSUME TypeOK, LifecycleInv, StartupStep
  PROVE  LifecycleInv'
<1>1. CASE WorkerStart
  BY <1>1 DEF WorkerStart
<1>2. CASE ListActive
  BY <1>2 DEF ListActive
<1>3. CASE WorkerReady
  BY <1>3 DEF WorkerReady
<1>4. ASSUME NEW j \in Jobs, RecoverQueued(j) PROVE LifecycleInv'
  BY <1>4 DEF RecoverQueued
<1>5. ASSUME NEW j \in Jobs, RecoverEnqueue(j) PROVE LifecycleInv'
  BY <1>5 DEF RecoverEnqueue
<1>6. ASSUME NEW j \in Jobs, RecoverObserved(j) PROVE LifecycleInv'
  BY <1>6 DEF RecoverObserved
<1>7. QED BY <1>1, <1>2, <1>3, <1>4, <1>5, <1>6 DEF StartupStep

LEMMA LifecycleCancelStep ==
  ASSUME TypeOK, LifecycleInv, CancelStep
  PROVE  LifecycleInv'
<1>1. CASE RequestCancel
  BY <1>1 DEF RequestCancel
<1>2. CASE ListQueued
  BY <1>2 DEF ListQueued
<1>3. ASSUME NEW j \in Jobs, CancelQueued(j) PROVE LifecycleInv'
  BY <1>3 DEF CancelQueued
<1>4. CASE ReadSlot
  BY <1>4 DEF ReadSlot
<1>5. CASE CancelLatestActive
  BY <1>5 DEF CancelLatestActive
<1>6. CASE StopRun
  BY <1>6 DEF StopRun
<1>7. CASE CancelUnbind
  BY <1>7 DEF CancelUnbind
<1>8. QED BY <1>1, <1>2, <1>3, <1>4, <1>5, <1>6, <1>7 DEF CancelStep

LEMMA LifecycleOthers ==
  ASSUME TypeOK, LifecycleInv,
         (\E j \in Jobs : CreateJob(j) \/ EnqueueJob(j))
            \/ ListForRespawn \/ WorkerCrash \/ BotCrash \/ CancelBegin
            \/ (\E r \in Runs : RunEnds(r)) \/ LockExpires \/ FlagExpires
            \/ UNCHANGED vars
  PROVE  LifecycleInv'
<1>1. ASSUME NEW j \in Jobs, CreateJob(j) PROVE LifecycleInv'
  BY <1>1 DEF CreateJob
<1>2. ASSUME NEW j \in Jobs, EnqueueJob(j) PROVE LifecycleInv'
  BY <1>2 DEF EnqueueJob
<1>3. CASE ListForRespawn
  BY <1>3 DEF ListForRespawn
<1>4. CASE WorkerCrash
  BY <1>4 DEF WorkerCrash
<1>5. CASE BotCrash
  BY <1>5 DEF BotCrash
<1>6. CASE CancelBegin
  BY <1>6 DEF CancelBegin
<1>7. ASSUME NEW r \in Runs, RunEnds(r) PROVE LifecycleInv'
  BY <1>7 DEF RunEnds
<1>8. CASE LockExpires
  BY <1>8 DEF LockExpires
<1>9. CASE FlagExpires
  BY <1>9 DEF FlagExpires
<1>10. CASE UNCHANGED vars
  BY <1>10 DEF vars
<1>11. QED BY <1>1, <1>2, <1>3, <1>4, <1>5, <1>6, <1>7, <1>8, <1>9, <1>10

LEMMA LifecycleNext ==
  ASSUME TypeOK, LifecycleInv, [Next]_vars
  PROVE  LifecycleInv'
<1>1. ASSUME NEW j \in Jobs,
             ExecuteStep(j) \/ ExecuteFault(j) \/ ObserverStep(j) \/
             ObserverFault(j) \/ FinalizerStep(j) \/ ReconcilerStep(j)
             \/ ReconcilerFault(j)
      PROVE  LifecycleInv'
  BY <1>1, LifecycleExecuteStep, LifecycleExecuteFault, LifecycleObserverStep,
       LifecycleObserverFault, LifecycleFinalizerStep, LifecycleReconcilerStep,
       LifecycleReconcilerFault
<1>2. CASE StartupStep \/ CancelStep
  BY <1>2, LifecycleStartupStep, LifecycleCancelStep
<1>3. CASE (\E j \in Jobs : CreateJob(j) \/ EnqueueJob(j))
            \/ ListForRespawn \/ WorkerCrash \/ BotCrash \/ CancelBegin
            \/ (\E r \in Runs : RunEnds(r)) \/ LockExpires \/ FlagExpires
            \/ UNCHANGED vars
  BY <1>3, LifecycleOthers
<1>4. QED BY <1>1, <1>2, <1>3 DEF Next

(* The inductive invariant of the lifecycle holds in every reachable state.  *)
THEOREM LifecycleCorrect == Spec => []LifecycleInv
<1>1. TypeOK /\ LifecycleInv /\ [Next]_vars => LifecycleInv' BY LifecycleNext
<1>2. QED BY <1>1, LifecycleInit, TypeCorrect, PTL DEF Spec

(* No job is ever advanced by two parties at once: its insertion, its ARQ    *)
(* message and its execution exclude each other, across re-enqueues, lock    *)
(* timeouts and startup recovery (worker.execute_job, worker.startup).       *)
THEOREM TicketsAreUnique == Spec => []OneTicket
<1>1. LifecycleInv => OneTicket OBVIOUS
<1>2. QED BY <1>1, LifecycleCorrect, PTL

HIDE DEF LifecycleInv, OneTicket, HasTicket, WaitingPoints, UnboundPoints, Tally

-----------------------------------------------------------------------------
(* Terminal statuses *)

USE DEF KeepsTerminal

LEMMA TerminalExecuteStep ==
  ASSUME TypeOK, NEW j \in Jobs, ExecuteStep(j)
  PROVE  KeepsTerminal
BY SMTT(30) DEF ExecuteStep, Pickup, CheckCancelFlag, BusyGatePass,
     BusyGateDefer, CloseZombie, AcquireLock, LockTimeout, StartJob,
     ClearCancel, CreateRun, BindSlot, BindJob, SendCard, LeaveToReconciler,
     RequeueJob, EnqueueDeferred, FailJob, CloseFailed

LEMMA TerminalExecuteFault ==
  ASSUME TypeOK, NEW j \in Jobs, ExecuteFault(j)
  PROVE  KeepsTerminal
BY SMTT(30) DEF ExecuteFault, BusyGateZombie, FailContext, CursorError,
     TelegramError, JobTimeout

LEMMA TerminalObserverStep ==
  ASSUME TypeOK, NEW j \in Jobs, ObserverStep(j)
  PROVE  KeepsTerminal
BY SMTT(30) DEF ObserverStep, ObserveCancel, ObserveTerminal, ObserverCancelJob,
     ObserverCloseCancelled, ObserverCleanup

LEMMA TerminalObserverFault ==
  ASSUME TypeOK, NEW j \in Jobs, ObserverFault(j)
  PROVE  KeepsTerminal
BY SMTT(30) DEF ObserverFault, ObservePause, ObserveError, ApprovalNotSent

LEMMA TerminalFinalizerStep ==
  ASSUME TypeOK, NEW j \in Jobs, FinalizerStep(j)
  PROVE  KeepsTerminal
BY SMTT(30) DEF FinalizerStep, FinalizeClaim, FinalizeEffects, FinalizeSettle,
     FinalizeUnbind

LEMMA TerminalReconcilerStep ==
  ASSUME TypeOK, NEW j \in Jobs, ReconcilerStep(j)
  PROVE  KeepsTerminal
BY SMTT(30) DEF ReconcilerStep, ReconcileList, ReconcileFetch,
     ReconcileCloseFailed, RespawnObserver

LEMMA TerminalReconcilerFault ==
  ASSUME TypeOK, NEW j \in Jobs, ReconcilerFault(j)
  PROVE  KeepsTerminal
BY SMTT(30) DEF ReconcilerFault, ReconcileFetchError, ReconcileTimeout

LEMMA TerminalStartupStep ==
  ASSUME TypeOK, StartupStep
  PROVE  KeepsTerminal
BY SMTT(30) DEF StartupStep, WorkerStart, ListActive, WorkerReady,
     RecoverQueued, RecoverEnqueue, RecoverObserved

LEMMA TerminalCancelStep ==
  ASSUME TypeOK, CancelStep
  PROVE  KeepsTerminal
<1>1. CASE ListQueued
  BY <1>1 DEF ListQueued
<1>2. ASSUME NEW j \in Jobs, CancelQueued(j) PROVE KeepsTerminal
  BY <1>2 DEF CancelQueued
<1>3. CASE RequestCancel \/ ReadSlot \/ CancelLatestActive \/ StopRun \/
           CancelUnbind
  BY <1>3 DEF RequestCancel, ReadSlot, CancelLatestActive, StopRun, CancelUnbind
<1>4. QED BY <1>1, <1>2, <1>3 DEF CancelStep

LEMMA TerminalOthers ==
  ASSUME TypeOK,
         (\E j \in Jobs : CreateJob(j) \/ EnqueueJob(j))
            \/ ListForRespawn \/ WorkerCrash \/ BotCrash \/ CancelBegin
            \/ (\E r \in Runs : RunEnds(r)) \/ LockExpires \/ FlagExpires
            \/ UNCHANGED vars
  PROVE  KeepsTerminal
BY SMTT(30) DEF CreateJob, EnqueueJob, ListForRespawn, WorkerCrash, BotCrash,
     CancelBegin, RunEnds, LockExpires, FlagExpires, vars

LEMMA TerminalNext ==
  ASSUME TypeOK, [Next]_vars
  PROVE  KeepsTerminal
<1>1. ASSUME NEW j \in Jobs,
             ExecuteStep(j) \/ ExecuteFault(j) \/ ObserverStep(j) \/
             ObserverFault(j) \/ FinalizerStep(j) \/ ReconcilerStep(j)
             \/ ReconcilerFault(j)
      PROVE  KeepsTerminal
  BY <1>1, TerminalExecuteStep, TerminalExecuteFault, TerminalObserverStep,
       TerminalObserverFault, TerminalFinalizerStep, TerminalReconcilerStep,
       TerminalReconcilerFault
<1>2. CASE StartupStep \/ CancelStep
  BY <1>2, TerminalStartupStep, TerminalCancelStep
<1>3. CASE (\E j \in Jobs : CreateJob(j) \/ EnqueueJob(j))
            \/ ListForRespawn \/ WorkerCrash \/ BotCrash \/ CancelBegin
            \/ (\E r \in Runs : RunEnds(r)) \/ LockExpires \/ FlagExpires
            \/ UNCHANGED vars
  BY <1>3, TerminalOthers
<1>4. QED BY <1>1, <1>2, <1>3 DEF Next

(* Succeeded, failed and cancelled are final whoever writes last: no source  *)
(* status that a step of the worker, the finalizer, the busy-gate or /cancel *)
(* expects is terminal, even when it was read long before (jobs.transition). *)
THEOREM TerminalStatusesAreFinal == Spec => TerminalIsFinal
<1>1. TypeOK /\ [Next]_vars => [KeepsTerminal]_vars BY TerminalNext
<1>2. QED BY <1>1, TypeCorrect, PTL DEF Spec, TerminalIsFinal

HIDE DEF KeepsTerminal

-----------------------------------------------------------------------------
(* Run ids *)

USE DEF KeepsRun, LifecycleInv, UnboundPoints, WaitingPoints

LEMMA BindingExecuteStep ==
  ASSUME TypeOK, LifecycleInv, NEW j \in Jobs, ExecuteStep(j)
  PROVE  KeepsRun
BY SMTT(30) DEF ExecuteStep, Pickup, CheckCancelFlag, BusyGatePass,
     BusyGateDefer, CloseZombie, AcquireLock, LockTimeout, StartJob,
     ClearCancel, CreateRun, BindSlot, BindJob, SendCard, LeaveToReconciler,
     RequeueJob, EnqueueDeferred, FailJob, CloseFailed

LEMMA BindingExecuteFault ==
  ASSUME TypeOK, LifecycleInv, NEW j \in Jobs, ExecuteFault(j)
  PROVE  KeepsRun
BY SMTT(30) DEF ExecuteFault, BusyGateZombie, FailContext, CursorError,
     TelegramError, JobTimeout

LEMMA BindingObserverStep ==
  ASSUME TypeOK, LifecycleInv, NEW j \in Jobs, ObserverStep(j)
  PROVE  KeepsRun
BY SMTT(30) DEF ObserverStep, ObserveCancel, ObserveTerminal, ObserverCancelJob,
     ObserverCloseCancelled, ObserverCleanup

LEMMA BindingObserverFault ==
  ASSUME TypeOK, LifecycleInv, NEW j \in Jobs, ObserverFault(j)
  PROVE  KeepsRun
BY SMTT(30) DEF ObserverFault, ObservePause, ObserveError, ApprovalNotSent

LEMMA BindingFinalizerStep ==
  ASSUME TypeOK, LifecycleInv, NEW j \in Jobs, FinalizerStep(j)
  PROVE  KeepsRun
BY SMTT(30) DEF FinalizerStep, FinalizeClaim, FinalizeEffects, FinalizeSettle,
     FinalizeUnbind

LEMMA BindingReconcilerStep ==
  ASSUME TypeOK, LifecycleInv, NEW j \in Jobs, ReconcilerStep(j)
  PROVE  KeepsRun
BY SMTT(30) DEF ReconcilerStep, ReconcileList, ReconcileFetch,
     ReconcileCloseFailed, RespawnObserver

LEMMA BindingReconcilerFault ==
  ASSUME TypeOK, LifecycleInv, NEW j \in Jobs, ReconcilerFault(j)
  PROVE  KeepsRun
BY SMTT(30) DEF ReconcilerFault, ReconcileFetchError, ReconcileTimeout

LEMMA BindingStartupStep ==
  ASSUME TypeOK, LifecycleInv, StartupStep
  PROVE  KeepsRun
BY SMTT(30) DEF StartupStep, WorkerStart, ListActive, WorkerReady,
     RecoverQueued, RecoverEnqueue, RecoverObserved

LEMMA BindingCancelStep ==
  ASSUME TypeOK, LifecycleInv, CancelStep
  PROVE  KeepsRun
<1>1. CASE ListQueued
  BY <1>1 DEF ListQueued
<1>2. ASSUME NEW j \in Jobs, CancelQueued(j) PROVE KeepsRun
  BY <1>2 DEF CancelQueued
<1>3. CASE RequestCancel \/ ReadSlot \/ CancelLatestActive \/ StopRun \/
           CancelUnbind
  BY <1>3 DEF RequestCancel, ReadSlot, CancelLatestActive, StopRun, CancelUnbind
<1>4. QED BY <1>1, <1>2, <1>3 DEF CancelStep

LEMMA BindingOthers ==
  ASSUME TypeOK, LifecycleInv,
         (\E j \in Jobs : CreateJob(j) \/ EnqueueJob(j))
            \/ ListForRespawn \/ WorkerCrash \/ BotCrash \/ CancelBegin
            \/ (\E r \in Runs : RunEnds(r)) \/ LockExpires \/ FlagExpires
            \/ UNCHANGED vars
  PROVE  KeepsRun
BY SMTT(30) DEF CreateJob, EnqueueJob, ListForRespawn, WorkerCrash, BotCrash,
     CancelBegin, RunEnds, LockExpires, FlagExpires, vars

LEMMA BindingNext ==
  ASSUME TypeOK, LifecycleInv, [Next]_vars
  PROVE  KeepsRun
<1>1. ASSUME NEW j \in Jobs,
             ExecuteStep(j) \/ ExecuteFault(j) \/ ObserverStep(j) \/
             ObserverFault(j) \/ FinalizerStep(j) \/ ReconcilerStep(j)
             \/ ReconcilerFault(j)
      PROVE  KeepsRun
  BY <1>1, BindingExecuteStep, BindingExecuteFault, BindingObserverStep,
       BindingObserverFault, BindingFinalizerStep, BindingReconcilerStep,
       BindingReconcilerFault
<1>2. CASE StartupStep \/ CancelStep
  BY <1>2, BindingStartupStep, BindingCancelStep
<1>3. CASE (\E j \in Jobs : CreateJob(j) \/ EnqueueJob(j))
            \/ ListForRespawn \/ WorkerCrash \/ BotCrash \/ CancelBegin
            \/ (\E r \in Runs : RunEnds(r)) \/ LockExpires \/ FlagExpires
            \/ UNCHANGED vars
  BY <1>3, BindingOthers
<1>4. QED BY <1>1, <1>2, <1>3 DEF Next

(* A job that has a Cursor run keeps it: no retry and no recovery starts a   *)
(* second run for it (durable_run, worker._execute_locked, worker.startup).  *)
THEOREM RunsAreBoundOnce == Spec => RunBoundOnce
<1>1. TypeOK /\ LifecycleInv /\ [Next]_vars => [KeepsRun]_vars BY BindingNext
<1>2. QED BY <1>1, TypeCorrect, LifecycleCorrect, PTL DEF Spec, RunBoundOnce

HIDE DEF KeepsRun, LifecycleInv, UnboundPoints, WaitingPoints

-----------------------------------------------------------------------------
(* Finalized jobs *)

USE DEF KeepsClosed, LifecycleInv, OneTicket, HasTicket, UnboundPoints, WaitingPoints, Tally

LEMMA ClosedExecuteStep ==
  ASSUME TypeOK, LifecycleInv, NEW j \in Jobs, ExecuteStep(j)
  PROVE  KeepsClosed
BY SMTT(30) DEF ExecuteStep, Pickup, CheckCancelFlag, BusyGatePass,
     BusyGateDefer, CloseZombie, AcquireLock, LockTimeout, StartJob,
     ClearCancel, CreateRun, BindSlot, BindJob, SendCard, LeaveToReconciler,
     RequeueJob, EnqueueDeferred, FailJob, CloseFailed

LEMMA ClosedExecuteFault ==
  ASSUME TypeOK, LifecycleInv, NEW j \in Jobs, ExecuteFault(j)
  PROVE  KeepsClosed
BY SMTT(30) DEF ExecuteFault, BusyGateZombie, FailContext, CursorError,
     TelegramError, JobTimeout

LEMMA ClosedObserverStep ==
  ASSUME TypeOK, LifecycleInv, NEW j \in Jobs, ObserverStep(j)
  PROVE  KeepsClosed
BY SMTT(30) DEF ObserverStep, ObserveCancel, ObserveTerminal, ObserverCancelJob,
     ObserverCloseCancelled, ObserverCleanup

LEMMA ClosedObserverFault ==
  ASSUME TypeOK, LifecycleInv, NEW j \in Jobs, ObserverFault(j)
  PROVE  KeepsClosed
BY SMTT(30) DEF ObserverFault, ObservePause, ObserveError, ApprovalNotSent

LEMMA ClosedFinalizerStep ==
  ASSUME TypeOK, LifecycleInv, NEW j \in Jobs, FinalizerStep(j)
  PROVE  KeepsClosed
BY SMTT(30) DEF FinalizerStep, FinalizeClaim, FinalizeEffects, FinalizeSettle,
     FinalizeUnbind

LEMMA ClosedReconcilerStep ==
  ASSUME TypeOK, LifecycleInv, NEW j \in Jobs, ReconcilerStep(j)
  PROVE  KeepsClosed
BY SMTT(30) DEF ReconcilerStep, ReconcileList, ReconcileFetch,
     ReconcileCloseFailed, RespawnObserver

LEMMA ClosedReconcilerFault ==
  ASSUME TypeOK, LifecycleInv, NEW j \in Jobs, ReconcilerFault(j)
  PROVE  KeepsClosed
BY SMTT(30) DEF ReconcilerFault, ReconcileFetchError, ReconcileTimeout

LEMMA ClosedStartupStep ==
  ASSUME TypeOK, LifecycleInv, StartupStep
  PROVE  KeepsClosed
BY SMTT(30) DEF StartupStep, WorkerStart, ListActive, WorkerReady,
     RecoverQueued, RecoverEnqueue, RecoverObserved

LEMMA ClosedCancelStep ==
  ASSUME TypeOK, LifecycleInv, CancelStep
  PROVE  KeepsClosed
<1>1. CASE ListQueued
  BY <1>1 DEF ListQueued
<1>2. ASSUME NEW j \in Jobs, CancelQueued(j) PROVE KeepsClosed
  BY <1>2 DEF CancelQueued
<1>3. CASE RequestCancel \/ ReadSlot \/ CancelLatestActive \/ StopRun \/
           CancelUnbind
  BY <1>3 DEF RequestCancel, ReadSlot, CancelLatestActive, StopRun, CancelUnbind
<1>4. QED BY <1>1, <1>2, <1>3 DEF CancelStep

LEMMA ClosedOthers ==
  ASSUME TypeOK, LifecycleInv,
         (\E j \in Jobs : CreateJob(j) \/ EnqueueJob(j))
            \/ ListForRespawn \/ WorkerCrash \/ BotCrash \/ CancelBegin
            \/ (\E r \in Runs : RunEnds(r)) \/ LockExpires \/ FlagExpires
            \/ UNCHANGED vars
  PROVE  KeepsClosed
BY SMTT(30) DEF CreateJob, EnqueueJob, ListForRespawn, WorkerCrash, BotCrash,
     CancelBegin, RunEnds, LockExpires, FlagExpires, vars

LEMMA ClosedNext ==
  ASSUME TypeOK, LifecycleInv, [Next]_vars
  PROVE  KeepsClosed
<1>1. ASSUME NEW j \in Jobs,
             ExecuteStep(j) \/ ExecuteFault(j) \/ ObserverStep(j) \/
             ObserverFault(j) \/ FinalizerStep(j) \/ ReconcilerStep(j)
             \/ ReconcilerFault(j)
      PROVE  KeepsClosed
  BY <1>1, ClosedExecuteStep, ClosedExecuteFault, ClosedObserverStep,
       ClosedObserverFault, ClosedFinalizerStep, ClosedReconcilerStep,
       ClosedReconcilerFault
<1>2. CASE StartupStep \/ CancelStep
  BY <1>2, ClosedStartupStep, ClosedCancelStep
<1>3. CASE (\E j \in Jobs : CreateJob(j) \/ EnqueueJob(j))
            \/ ListForRespawn \/ WorkerCrash \/ BotCrash \/ CancelBegin
            \/ (\E r \in Runs : RunEnds(r)) \/ LockExpires \/ FlagExpires
            \/ UNCHANGED vars
  BY <1>3, ClosedOthers
<1>4. QED BY <1>1, <1>2, <1>3 DEF Next

(* finalized_at is never cleared, and a finalized job is never queued or     *)
(* started again (jobs.mark_finalized against requeue and recovery).         *)
THEOREM FinalizedJobsStayClosed == Spec => FinalizedStaysClosed
<1>1. TypeOK /\ LifecycleInv /\ [Next]_vars => [KeepsClosed]_vars BY ClosedNext
<1>2. QED BY <1>1, TypeCorrect, LifecycleCorrect, PTL DEF Spec, FinalizedStaysClosed

HIDE DEF KeepsClosed, LifecycleInv, OneTicket, HasTicket, UnboundPoints, WaitingPoints, Tally

-----------------------------------------------------------------------------
(* Side effects *)

USE DEF ClaimInv, Tally

LEMMA ClaimInit == Init => ClaimInv
BY DEF Init

LEMMA ClaimExecuteStep ==
  ASSUME TypeOK, ClaimInv, NEW j \in Jobs, ExecuteStep(j)
  PROVE  ClaimInv'
BY SMTT(30) DEF ExecuteStep, Pickup, CheckCancelFlag, BusyGatePass,
     BusyGateDefer, CloseZombie, AcquireLock, LockTimeout, StartJob,
     ClearCancel, CreateRun, BindSlot, BindJob, SendCard, LeaveToReconciler,
     RequeueJob, EnqueueDeferred, FailJob, CloseFailed

LEMMA ClaimExecuteFault ==
  ASSUME TypeOK, ClaimInv, NEW j \in Jobs, ExecuteFault(j)
  PROVE  ClaimInv'
BY SMTT(30) DEF ExecuteFault, BusyGateZombie, FailContext, CursorError,
     TelegramError, JobTimeout

LEMMA ClaimObserverStep ==
  ASSUME TypeOK, ClaimInv, NEW j \in Jobs, ObserverStep(j)
  PROVE  ClaimInv'
BY SMTT(30) DEF ObserverStep, ObserveCancel, ObserveTerminal, ObserverCancelJob,
     ObserverCloseCancelled, ObserverCleanup

LEMMA ClaimObserverFault ==
  ASSUME TypeOK, ClaimInv, NEW j \in Jobs, ObserverFault(j)
  PROVE  ClaimInv'
BY SMTT(30) DEF ObserverFault, ObservePause, ObserveError, ApprovalNotSent

LEMMA ClaimFinalizerStep ==
  ASSUME TypeOK, ClaimInv, NEW j \in Jobs, FinalizerStep(j)
  PROVE  ClaimInv'
BY SMTT(30) DEF FinalizerStep, FinalizeClaim, FinalizeEffects, FinalizeSettle,
     FinalizeUnbind

LEMMA ClaimReconcilerStep ==
  ASSUME TypeOK, ClaimInv, NEW j \in Jobs, ReconcilerStep(j)
  PROVE  ClaimInv'
BY SMTT(30) DEF ReconcilerStep, ReconcileList, ReconcileFetch,
     ReconcileCloseFailed, RespawnObserver

LEMMA ClaimReconcilerFault ==
  ASSUME TypeOK, ClaimInv, NEW j \in Jobs, ReconcilerFault(j)
  PROVE  ClaimInv'
BY SMTT(30) DEF ReconcilerFault, ReconcileFetchError, ReconcileTimeout

LEMMA ClaimStartupStep ==
  ASSUME TypeOK, ClaimInv, StartupStep
  PROVE  ClaimInv'
BY SMTT(30) DEF StartupStep, WorkerStart, ListActive, WorkerReady,
     RecoverQueued, RecoverEnqueue, RecoverObserved

LEMMA ClaimCancelStep ==
  ASSUME TypeOK, ClaimInv, CancelStep
  PROVE  ClaimInv'
<1>1. CASE ListQueued
  BY <1>1 DEF ListQueued
<1>2. ASSUME NEW j \in Jobs, CancelQueued(j) PROVE ClaimInv'
  BY <1>2 DEF CancelQueued
<1>3. CASE RequestCancel \/ ReadSlot \/ CancelLatestActive \/ StopRun \/
           CancelUnbind
  BY <1>3 DEF RequestCancel, ReadSlot, CancelLatestActive, StopRun, CancelUnbind
<1>4. QED BY <1>1, <1>2, <1>3 DEF CancelStep

LEMMA ClaimOthers ==
  ASSUME TypeOK, ClaimInv,
         (\E j \in Jobs : CreateJob(j) \/ EnqueueJob(j))
            \/ ListForRespawn \/ WorkerCrash \/ BotCrash \/ CancelBegin
            \/ (\E r \in Runs : RunEnds(r)) \/ LockExpires \/ FlagExpires
            \/ UNCHANGED vars
  PROVE  ClaimInv'
BY SMTT(30) DEF CreateJob, EnqueueJob, ListForRespawn, WorkerCrash, BotCrash,
     CancelBegin, RunEnds, LockExpires, FlagExpires, vars

LEMMA ClaimNext ==
  ASSUME TypeOK, ClaimInv, [Next]_vars
  PROVE  ClaimInv'
<1>1. ASSUME NEW j \in Jobs,
             ExecuteStep(j) \/ ExecuteFault(j) \/ ObserverStep(j) \/
             ObserverFault(j) \/ FinalizerStep(j) \/ ReconcilerStep(j)
             \/ ReconcilerFault(j)
      PROVE  ClaimInv'
  BY <1>1, ClaimExecuteStep, ClaimExecuteFault, ClaimObserverStep,
       ClaimObserverFault, ClaimFinalizerStep, ClaimReconcilerStep,
       ClaimReconcilerFault
<1>2. CASE StartupStep \/ CancelStep
  BY <1>2, ClaimStartupStep, ClaimCancelStep
<1>3. CASE (\E j \in Jobs : CreateJob(j) \/ EnqueueJob(j))
            \/ ListForRespawn \/ WorkerCrash \/ BotCrash \/ CancelBegin
            \/ (\E r \in Runs : RunEnds(r)) \/ LockExpires \/ FlagExpires
            \/ UNCHANGED vars
  BY <1>3, ClaimOthers
<1>4. QED BY <1>1, <1>2, <1>3 DEF Next

(* The terminal side effects of a job are applied at most once, although     *)
(* observer and reconciler finalize independently (jobs.mark_finalized).     *)
THEOREM SideEffectsAppliedOnce == Spec => []SideEffectsOnce
<1>1. TypeOK /\ ClaimInv /\ [Next]_vars => ClaimInv' BY ClaimNext
<1>2. TypeOK /\ ClaimInv => SideEffectsOnce BY DEF SideEffectsOnce
<1>3. QED BY <1>1, <1>2, ClaimInit, TypeCorrect, PTL DEF Spec

HIDE DEF ClaimInv, Tally

-----------------------------------------------------------------------------
(* The actor lock *)

USE DEF LaunchHoldsLock

LEMMA LockInit == Init => LaunchHoldsLock
BY DEF Init

LEMMA LockExecuteStep ==
  ASSUME TypeOK, LaunchHoldsLock, NEW j \in Jobs, ExecuteStep(j)
  PROVE  LaunchHoldsLock'
<1>1. CASE Pickup(j)
  BY <1>1 DEF Pickup
<1>2. CASE CheckCancelFlag(j)
  BY <1>2 DEF CheckCancelFlag
<1>3. CASE BusyGatePass(j)
  BY <1>3 DEF BusyGatePass
<1>4. CASE BusyGateDefer(j)
  BY <1>4 DEF BusyGateDefer
<1>5. CASE CloseZombie(j)
  BY <1>5 DEF CloseZombie
<1>6. CASE AcquireLock(j)
  BY <1>6 DEF AcquireLock
<1>7. CASE LockTimeout(j)
  BY <1>7 DEF LockTimeout
<1>8. CASE StartJob(j)
  BY <1>8 DEF StartJob
<1>9. CASE ClearCancel(j)
  BY <1>9 DEF ClearCancel
<1>10. CASE CreateRun(j)
  BY <1>10 DEF CreateRun
<1>11. CASE BindSlot(j)
  BY <1>11 DEF BindSlot
<1>12. CASE BindJob(j)
  BY <1>12 DEF BindJob
<1>13. CASE SendCard(j)
  BY <1>13 DEF SendCard
<1>14. CASE LeaveToReconciler(j)
  BY <1>14 DEF LeaveToReconciler
<1>15. CASE RequeueJob(j)
  BY <1>15 DEF RequeueJob
<1>16. CASE EnqueueDeferred(j)
  BY <1>16 DEF EnqueueDeferred
<1>17. CASE FailJob(j)
  BY <1>17 DEF FailJob
<1>18. CASE CloseFailed(j)
  BY <1>18 DEF CloseFailed
<1>19. QED BY <1>1, <1>2, <1>3, <1>4, <1>5, <1>6, <1>7, <1>8, <1>9, <1>10,
     <1>11, <1>12, <1>13, <1>14, <1>15, <1>16, <1>17, <1>18 DEF ExecuteStep

LEMMA LockExecuteFault ==
  ASSUME TypeOK, LaunchHoldsLock, NEW j \in Jobs, ExecuteFault(j)
  PROVE  LaunchHoldsLock'
BY SMTT(30) DEF ExecuteFault, BusyGateZombie, FailContext, CursorError,
     TelegramError, JobTimeout

LEMMA LockObserverStep ==
  ASSUME TypeOK, LaunchHoldsLock, NEW j \in Jobs, ObserverStep(j)
  PROVE  LaunchHoldsLock'
BY SMTT(30) DEF ObserverStep, ObserveCancel, ObserveTerminal, ObserverCancelJob,
     ObserverCloseCancelled, ObserverCleanup

LEMMA LockObserverFault ==
  ASSUME TypeOK, LaunchHoldsLock, NEW j \in Jobs, ObserverFault(j)
  PROVE  LaunchHoldsLock'
BY SMTT(30) DEF ObserverFault, ObservePause, ObserveError, ApprovalNotSent

LEMMA LockFinalizerStep ==
  ASSUME TypeOK, LaunchHoldsLock, NEW j \in Jobs, FinalizerStep(j)
  PROVE  LaunchHoldsLock'
BY SMTT(30) DEF FinalizerStep, FinalizeClaim, FinalizeEffects, FinalizeSettle,
     FinalizeUnbind

LEMMA LockReconcilerStep ==
  ASSUME TypeOK, LaunchHoldsLock, NEW j \in Jobs, ReconcilerStep(j)
  PROVE  LaunchHoldsLock'
BY SMTT(30) DEF ReconcilerStep, ReconcileList, ReconcileFetch,
     ReconcileCloseFailed, RespawnObserver

LEMMA LockReconcilerFault ==
  ASSUME TypeOK, LaunchHoldsLock, NEW j \in Jobs, ReconcilerFault(j)
  PROVE  LaunchHoldsLock'
BY SMTT(30) DEF ReconcilerFault, ReconcileFetchError, ReconcileTimeout

LEMMA LockStartupStep ==
  ASSUME TypeOK, LaunchHoldsLock, StartupStep
  PROVE  LaunchHoldsLock'
BY SMTT(30) DEF StartupStep, WorkerStart, ListActive, WorkerReady,
     RecoverQueued, RecoverEnqueue, RecoverObserved

LEMMA LockCancelStep ==
  ASSUME TypeOK, LaunchHoldsLock, CancelStep
  PROVE  LaunchHoldsLock'
<1>1. CASE ListQueued
  BY <1>1 DEF ListQueued
<1>2. ASSUME NEW j \in Jobs, CancelQueued(j) PROVE LaunchHoldsLock'
  BY <1>2 DEF CancelQueued
<1>3. CASE RequestCancel \/ ReadSlot \/ CancelLatestActive \/ StopRun \/
           CancelUnbind
  BY <1>3 DEF RequestCancel, ReadSlot, CancelLatestActive, StopRun, CancelUnbind
<1>4. QED BY <1>1, <1>2, <1>3 DEF CancelStep

LEMMA LockOthers ==
  ASSUME TypeOK, LaunchHoldsLock,
         (\E j \in Jobs : CreateJob(j) \/ EnqueueJob(j))
            \/ ListForRespawn \/ WorkerCrash \/ BotCrash \/ CancelBegin
            \/ (\E r \in Runs : RunEnds(r)) \/ LockExpires \/ FlagExpires
            \/ UNCHANGED vars
  PROVE  LaunchHoldsLock'
BY SMTT(30) DEF CreateJob, EnqueueJob, ListForRespawn, WorkerCrash, BotCrash,
     CancelBegin, RunEnds, LockExpires, FlagExpires, vars

LEMMA LockNext ==
  ASSUME TypeOK, LaunchHoldsLock, [Next]_vars
  PROVE  LaunchHoldsLock'
<1>1. ASSUME NEW j \in Jobs,
             ExecuteStep(j) \/ ExecuteFault(j) \/ ObserverStep(j) \/
             ObserverFault(j) \/ FinalizerStep(j) \/ ReconcilerStep(j)
             \/ ReconcilerFault(j)
      PROVE  LaunchHoldsLock'
  BY <1>1, LockExecuteStep, LockExecuteFault, LockObserverStep,
       LockObserverFault, LockFinalizerStep, LockReconcilerStep,
       LockReconcilerFault
<1>2. CASE StartupStep \/ CancelStep
  BY <1>2, LockStartupStep, LockCancelStep
<1>3. CASE (\E j \in Jobs : CreateJob(j) \/ EnqueueJob(j))
            \/ ListForRespawn \/ WorkerCrash \/ BotCrash \/ CancelBegin
            \/ (\E r \in Runs : RunEnds(r)) \/ LockExpires \/ FlagExpires
            \/ UNCHANGED vars
  BY <1>3, LockOthers
<1>4. QED BY <1>1, <1>2, <1>3 DEF Next

(* While the lock does not expire under its holder, launches of the actor    *)
(* are exclusive: whoever is between acquire and release owns the lock       *)
(* (worker.execute_job).                                                     *)
THEOREM LaunchesAreExclusive == Spec => []LaunchHoldsLock
<1>1. TypeOK /\ LaunchHoldsLock /\ [Next]_vars => LaunchHoldsLock' BY LockNext
<1>2. QED BY <1>1, LockInit, TypeCorrect, PTL DEF Spec

HIDE DEF LaunchHoldsLock

-----------------------------------------------------------------------------
(* Tickets of queued jobs *)

USE DEF QueuedHasTicket, LifecycleInv, OneTicket, HasTicket, UnboundPoints, WaitingPoints, Tally

LEMMA DeliveryInit == Init => QueuedHasTicket
BY DEF Init

LEMMA DeliveryExecuteStep ==
  ASSUME TypeOK, LifecycleInv, QueuedHasTicket, NEW j \in Jobs, ExecuteStep(j)
  PROVE  QueuedHasTicket'
BY SMTT(30) DEF ExecuteStep, Pickup, CheckCancelFlag, BusyGatePass,
     BusyGateDefer, CloseZombie, AcquireLock, LockTimeout, StartJob,
     ClearCancel, CreateRun, BindSlot, BindJob, SendCard, LeaveToReconciler,
     RequeueJob, EnqueueDeferred, FailJob, CloseFailed

LEMMA DeliveryExecuteFault ==
  ASSUME TypeOK, LifecycleInv, QueuedHasTicket, NEW j \in Jobs, ExecuteFault(j)
  PROVE  QueuedHasTicket'
<1>1. CASE BusyGateZombie(j)
  BY <1>1 DEF BusyGateZombie
<1>2. CASE FailContext(j)
  BY <1>2 DEF FailContext
<1>3. CASE CursorError(j)
  BY <1>3 DEF CursorError
<1>4. CASE TelegramError(j)
  BY <1>4 DEF TelegramError
<1>5. CASE JobTimeout(j)
  BY <1>5 DEF JobTimeout
<1>6. QED BY <1>1, <1>2, <1>3, <1>4, <1>5 DEF ExecuteFault

LEMMA DeliveryObserverStep ==
  ASSUME TypeOK, LifecycleInv, QueuedHasTicket, NEW j \in Jobs, ObserverStep(j)
  PROVE  QueuedHasTicket'
BY SMTT(30) DEF ObserverStep, ObserveCancel, ObserveTerminal, ObserverCancelJob,
     ObserverCloseCancelled, ObserverCleanup

LEMMA DeliveryObserverFault ==
  ASSUME TypeOK, LifecycleInv, QueuedHasTicket, NEW j \in Jobs, ObserverFault(j)
  PROVE  QueuedHasTicket'
BY SMTT(30) DEF ObserverFault, ObservePause, ObserveError, ApprovalNotSent

LEMMA DeliveryFinalizerStep ==
  ASSUME TypeOK, LifecycleInv, QueuedHasTicket, NEW j \in Jobs, FinalizerStep(j)
  PROVE  QueuedHasTicket'
BY SMTT(30) DEF FinalizerStep, FinalizeClaim, FinalizeEffects, FinalizeSettle,
     FinalizeUnbind

LEMMA DeliveryReconcilerStep ==
  ASSUME TypeOK, LifecycleInv, QueuedHasTicket, NEW j \in Jobs, ReconcilerStep(j)
  PROVE  QueuedHasTicket'
BY SMTT(30) DEF ReconcilerStep, ReconcileList, ReconcileFetch,
     ReconcileCloseFailed, RespawnObserver

LEMMA DeliveryReconcilerFault ==
  ASSUME TypeOK, LifecycleInv, QueuedHasTicket, NEW j \in Jobs, ReconcilerFault(j)
  PROVE  QueuedHasTicket'
BY SMTT(30) DEF ReconcilerFault, ReconcileFetchError, ReconcileTimeout

LEMMA DeliveryStartupStep ==
  ASSUME TypeOK, LifecycleInv, QueuedHasTicket, StartupStep
  PROVE  QueuedHasTicket'
BY SMTT(30) DEF StartupStep, WorkerStart, ListActive, WorkerReady,
     RecoverQueued, RecoverEnqueue, RecoverObserved

LEMMA DeliveryCancelStep ==
  ASSUME TypeOK, LifecycleInv, QueuedHasTicket, CancelStep
  PROVE  QueuedHasTicket'
<1>1. CASE RequestCancel
  BY <1>1 DEF RequestCancel
<1>2. CASE ListQueued
  BY <1>2 DEF ListQueued
<1>3. ASSUME NEW j \in Jobs, CancelQueued(j) PROVE QueuedHasTicket'
  BY <1>3 DEF CancelQueued
<1>4. CASE ReadSlot
  BY <1>4 DEF ReadSlot
<1>5. CASE CancelLatestActive
  BY <1>5 DEF CancelLatestActive
<1>6. CASE StopRun
  BY <1>6 DEF StopRun
<1>7. CASE CancelUnbind
  BY <1>7 DEF CancelUnbind
<1>8. QED BY <1>1, <1>2, <1>3, <1>4, <1>5, <1>6, <1>7 DEF CancelStep

LEMMA DeliveryOthers ==
  ASSUME TypeOK, LifecycleInv, QueuedHasTicket,
         (\E j \in Jobs : CreateJob(j) \/ EnqueueJob(j))
            \/ ListForRespawn \/ WorkerCrash \/ BotCrash \/ CancelBegin
            \/ (\E r \in Runs : RunEnds(r)) \/ LockExpires \/ FlagExpires
            \/ UNCHANGED vars
  PROVE  QueuedHasTicket'
BY SMTT(30) DEF CreateJob, EnqueueJob, ListForRespawn, WorkerCrash, BotCrash,
     CancelBegin, RunEnds, LockExpires, FlagExpires, vars

LEMMA DeliveryNext ==
  ASSUME TypeOK, LifecycleInv, QueuedHasTicket, [Next]_vars
  PROVE  QueuedHasTicket'
<1>1. ASSUME NEW j \in Jobs,
             ExecuteStep(j) \/ ExecuteFault(j) \/ ObserverStep(j) \/
             ObserverFault(j) \/ FinalizerStep(j) \/ ReconcilerStep(j)
             \/ ReconcilerFault(j)
      PROVE  QueuedHasTicket'
  BY <1>1, DeliveryExecuteStep, DeliveryExecuteFault, DeliveryObserverStep,
       DeliveryObserverFault, DeliveryFinalizerStep, DeliveryReconcilerStep,
       DeliveryReconcilerFault
<1>2. CASE StartupStep \/ CancelStep
  BY <1>2, DeliveryStartupStep, DeliveryCancelStep
<1>3. CASE (\E j \in Jobs : CreateJob(j) \/ EnqueueJob(j))
            \/ ListForRespawn \/ WorkerCrash \/ BotCrash \/ CancelBegin
            \/ (\E r \in Runs : RunEnds(r)) \/ LockExpires \/ FlagExpires
            \/ UNCHANGED vars
  BY <1>3, DeliveryOthers
<1>4. QED BY <1>1, <1>2, <1>3 DEF Next

(* Without crashes and timeouts a queued job is always on its way to an      *)
(* execution (worker.execute_job, worker._execute_locked).                   *)
THEOREM QueuedJobsHaveTickets == Spec => []QueuedHasTicket
<1>1. TypeOK /\ LifecycleInv /\ QueuedHasTicket /\ [Next]_vars => QueuedHasTicket'
  BY DeliveryNext
<1>2. QED BY <1>1, DeliveryInit, TypeCorrect, LifecycleCorrect, PTL DEF Spec

HIDE DEF QueuedHasTicket, LifecycleInv, OneTicket, HasTicket, UnboundPoints, WaitingPoints, Tally

-----------------------------------------------------------------------------
(* Cancelled jobs *)

USE DEF KeepsUnlaunched, LaunchPoints

LEMMA UnlaunchedExecuteStep ==
  ASSUME TypeOK, NEW j \in Jobs, ExecuteStep(j)
  PROVE  KeepsUnlaunched
BY SMTT(30) DEF ExecuteStep, Pickup, CheckCancelFlag, BusyGatePass,
     BusyGateDefer, CloseZombie, AcquireLock, LockTimeout, StartJob,
     ClearCancel, CreateRun, BindSlot, BindJob, SendCard, LeaveToReconciler,
     RequeueJob, EnqueueDeferred, FailJob, CloseFailed

LEMMA UnlaunchedExecuteFault ==
  ASSUME TypeOK, NEW j \in Jobs, ExecuteFault(j)
  PROVE  KeepsUnlaunched
BY SMTT(30) DEF ExecuteFault, BusyGateZombie, FailContext, CursorError,
     TelegramError, JobTimeout

LEMMA UnlaunchedObserverStep ==
  ASSUME TypeOK, NEW j \in Jobs, ObserverStep(j)
  PROVE  KeepsUnlaunched
BY SMTT(30) DEF ObserverStep, ObserveCancel, ObserveTerminal, ObserverCancelJob,
     ObserverCloseCancelled, ObserverCleanup

LEMMA UnlaunchedObserverFault ==
  ASSUME TypeOK, NEW j \in Jobs, ObserverFault(j)
  PROVE  KeepsUnlaunched
BY SMTT(30) DEF ObserverFault, ObservePause, ObserveError, ApprovalNotSent

LEMMA UnlaunchedFinalizerStep ==
  ASSUME TypeOK, NEW j \in Jobs, FinalizerStep(j)
  PROVE  KeepsUnlaunched
BY SMTT(30) DEF FinalizerStep, FinalizeClaim, FinalizeEffects, FinalizeSettle,
     FinalizeUnbind

LEMMA UnlaunchedReconcilerStep ==
  ASSUME TypeOK, NEW j \in Jobs, ReconcilerStep(j)
  PROVE  KeepsUnlaunched
BY SMTT(30) DEF ReconcilerStep, ReconcileList, ReconcileFetch,
     ReconcileCloseFailed, RespawnObserver

LEMMA UnlaunchedReconcilerFault ==
  ASSUME TypeOK, NEW j \in Jobs, ReconcilerFault(j)
  PROVE  KeepsUnlaunched
BY SMTT(30) DEF ReconcilerFault, ReconcileFetchError, ReconcileTimeout

LEMMA UnlaunchedStartupStep ==
  ASSUME TypeOK, StartupStep
  PROVE  KeepsUnlaunched
BY SMTT(30) DEF StartupStep, WorkerStart, ListActive, WorkerReady,
     RecoverQueued, RecoverEnqueue, RecoverObserved

LEMMA UnlaunchedCancelStep ==
  ASSUME TypeOK, CancelStep
  PROVE  KeepsUnlaunched
<1>1. CASE ListQueued
  BY <1>1 DEF ListQueued
<1>2. ASSUME NEW j \in Jobs, CancelQueued(j) PROVE KeepsUnlaunched
  BY <1>2 DEF CancelQueued
<1>3. CASE RequestCancel \/ ReadSlot \/ CancelLatestActive \/ StopRun \/
           CancelUnbind
  BY <1>3 DEF RequestCancel, ReadSlot, CancelLatestActive, StopRun, CancelUnbind
<1>4. QED BY <1>1, <1>2, <1>3 DEF CancelStep

LEMMA UnlaunchedOthers ==
  ASSUME TypeOK,
         (\E j \in Jobs : CreateJob(j) \/ EnqueueJob(j))
            \/ ListForRespawn \/ WorkerCrash \/ BotCrash \/ CancelBegin
            \/ (\E r \in Runs : RunEnds(r)) \/ LockExpires \/ FlagExpires
            \/ UNCHANGED vars
  PROVE  KeepsUnlaunched
BY SMTT(30) DEF CreateJob, EnqueueJob, ListForRespawn, WorkerCrash, BotCrash,
     CancelBegin, RunEnds, LockExpires, FlagExpires, vars

LEMMA UnlaunchedNext ==
  ASSUME TypeOK, [Next]_vars
  PROVE  KeepsUnlaunched
<1>1. ASSUME NEW j \in Jobs,
             ExecuteStep(j) \/ ExecuteFault(j) \/ ObserverStep(j) \/
             ObserverFault(j) \/ FinalizerStep(j) \/ ReconcilerStep(j)
             \/ ReconcilerFault(j)
      PROVE  KeepsUnlaunched
  BY <1>1, UnlaunchedExecuteStep, UnlaunchedExecuteFault,
       UnlaunchedObserverStep, UnlaunchedObserverFault, UnlaunchedFinalizerStep,
       UnlaunchedReconcilerStep, UnlaunchedReconcilerFault
<1>2. CASE StartupStep \/ CancelStep
  BY <1>2, UnlaunchedStartupStep, UnlaunchedCancelStep
<1>3. CASE (\E j \in Jobs : CreateJob(j) \/ EnqueueJob(j))
            \/ ListForRespawn \/ WorkerCrash \/ BotCrash \/ CancelBegin
            \/ (\E r \in Runs : RunEnds(r)) \/ LockExpires \/ FlagExpires
            \/ UNCHANGED vars
  BY <1>3, UnlaunchedOthers
<1>4. QED BY <1>1, <1>2, <1>3 DEF Next

(* A job cancelled before worker.started is never launched, whatever status  *)
(* its execution still has in memory (worker._execute_locked).               *)
THEOREM CancelledJobsAreNotLaunched == Spec => CancelledIsNotLaunched
<1>1. TypeOK /\ [Next]_vars => [KeepsUnlaunched]_vars BY UnlaunchedNext
<1>2. QED BY <1>1, TypeCorrect, PTL DEF Spec, CancelledIsNotLaunched

HIDE DEF KeepsUnlaunched, LaunchPoints

-----------------------------------------------------------------------------
(* Runs of different jobs *)

USE DEF RunsInv, RunsNotShared

LEMMA RunsInit == Init => RunsInv
BY DEF Init

LEMMA RunsExecuteStep ==
  ASSUME TypeOK, RunsInv, NEW j \in Jobs, ExecuteStep(j)
  PROVE  RunsInv'
<1>1. CASE Pickup(j)
  BY <1>1 DEF Pickup
<1>2. CASE CheckCancelFlag(j)
  <2>1. run' = run /\ cloud' = cloud /\ mine' \in {mine, [mine EXCEPT ![j] = NoRun]}
    BY <1>2 DEF CheckCancelFlag
  <2>2. QED BY <2>1
<1>3. CASE BusyGatePass(j)
  BY <1>3 DEF BusyGatePass
<1>4. CASE BusyGateDefer(j)
  BY <1>4 DEF BusyGateDefer
<1>5. CASE CloseZombie(j)
  BY <1>5 DEF CloseZombie
<1>6. CASE AcquireLock(j)
  BY <1>6 DEF AcquireLock
<1>7. CASE LockTimeout(j)
  BY <1>7 DEF LockTimeout
<1>8. CASE StartJob(j)
  <2>1. run' = run /\ cloud' = cloud /\ mine' \in {mine, [mine EXCEPT ![j] = NoRun]}
    BY <1>8 DEF StartJob
  <2>2. QED BY <2>1
<1>9. CASE ClearCancel(j)
  BY <1>9 DEF ClearCancel
<1>10. CASE CreateRun(j)
  BY <1>10 DEF CreateRun
<1>11. CASE BindSlot(j)
  BY <1>11 DEF BindSlot
<1>12. CASE BindJob(j)
  BY <1>12 DEF BindJob
<1>13. CASE SendCard(j)
  BY <1>13 DEF SendCard
<1>14. CASE LeaveToReconciler(j)
  BY <1>14 DEF LeaveToReconciler
<1>15. CASE RequeueJob(j)
  BY <1>15 DEF RequeueJob
<1>16. CASE EnqueueDeferred(j)
  BY <1>16 DEF EnqueueDeferred
<1>17. CASE FailJob(j)
  BY <1>17 DEF FailJob
<1>18. CASE CloseFailed(j)
  BY <1>18 DEF CloseFailed
<1>19. QED BY <1>1, <1>2, <1>3, <1>4, <1>5, <1>6, <1>7, <1>8, <1>9, <1>10,
     <1>11, <1>12, <1>13, <1>14, <1>15, <1>16, <1>17, <1>18 DEF ExecuteStep

LEMMA RunsExecuteFault ==
  ASSUME TypeOK, RunsInv, NEW j \in Jobs, ExecuteFault(j)
  PROVE  RunsInv'
<1>1. CASE BusyGateZombie(j)
  BY <1>1 DEF BusyGateZombie
<1>2. CASE FailContext(j)
  BY <1>2 DEF FailContext
<1>3. CASE CursorError(j)
  BY <1>3 DEF CursorError
<1>4. CASE TelegramError(j)
  BY <1>4 DEF TelegramError
<1>5. CASE JobTimeout(j)
  <2>1. run' = run /\ cloud' = cloud /\ mine' \in {mine, [mine EXCEPT ![j] = NoRun]}
    BY <1>5 DEF JobTimeout
  <2>2. QED BY <2>1
<1>6. QED BY <1>1, <1>2, <1>3, <1>4, <1>5 DEF ExecuteFault

LEMMA RunsObserverStep ==
  ASSUME TypeOK, RunsInv, NEW j \in Jobs, ObserverStep(j)
  PROVE  RunsInv'
BY SMTT(30) DEF ObserverStep, ObserveCancel, ObserveTerminal, ObserverCancelJob,
     ObserverCloseCancelled, ObserverCleanup

LEMMA RunsObserverFault ==
  ASSUME TypeOK, RunsInv, NEW j \in Jobs, ObserverFault(j)
  PROVE  RunsInv'
BY SMTT(30) DEF ObserverFault, ObservePause, ObserveError, ApprovalNotSent

LEMMA RunsFinalizerStep ==
  ASSUME TypeOK, RunsInv, NEW j \in Jobs, FinalizerStep(j)
  PROVE  RunsInv'
BY SMTT(30) DEF FinalizerStep, FinalizeClaim, FinalizeEffects, FinalizeSettle,
     FinalizeUnbind

LEMMA RunsReconcilerStep ==
  ASSUME TypeOK, RunsInv, NEW j \in Jobs, ReconcilerStep(j)
  PROVE  RunsInv'
BY SMTT(30) DEF ReconcilerStep, ReconcileList, ReconcileFetch,
     ReconcileCloseFailed, RespawnObserver

LEMMA RunsReconcilerFault ==
  ASSUME TypeOK, RunsInv, NEW j \in Jobs, ReconcilerFault(j)
  PROVE  RunsInv'
BY SMTT(30) DEF ReconcilerFault, ReconcileFetchError, ReconcileTimeout

LEMMA RunsStartupStep ==
  ASSUME TypeOK, RunsInv, StartupStep
  PROVE  RunsInv'
BY SMTT(30) DEF StartupStep, WorkerStart, ListActive, WorkerReady,
     RecoverQueued, RecoverEnqueue, RecoverObserved

LEMMA RunsCancelStep ==
  ASSUME TypeOK, RunsInv, CancelStep
  PROVE  RunsInv'
<1>1. CASE ListQueued
  BY <1>1 DEF ListQueued
<1>2. ASSUME NEW j \in Jobs, CancelQueued(j) PROVE RunsInv'
  BY <1>2 DEF CancelQueued
<1>3. CASE RequestCancel \/ ReadSlot \/ CancelLatestActive \/ StopRun \/
           CancelUnbind
  BY <1>3 DEF RequestCancel, ReadSlot, CancelLatestActive, StopRun, CancelUnbind
<1>4. QED BY <1>1, <1>2, <1>3 DEF CancelStep

LEMMA RunsOthers ==
  ASSUME TypeOK, RunsInv,
         (\E j \in Jobs : CreateJob(j) \/ EnqueueJob(j))
            \/ ListForRespawn \/ WorkerCrash \/ BotCrash \/ CancelBegin
            \/ (\E r \in Runs : RunEnds(r)) \/ LockExpires \/ FlagExpires
            \/ UNCHANGED vars
  PROVE  RunsInv'
BY SMTT(30) DEF CreateJob, EnqueueJob, ListForRespawn, WorkerCrash, BotCrash,
     CancelBegin, RunEnds, LockExpires, FlagExpires, vars

LEMMA RunsNext ==
  ASSUME TypeOK, RunsInv, [Next]_vars
  PROVE  RunsInv'
<1>1. ASSUME NEW j \in Jobs,
             ExecuteStep(j) \/ ExecuteFault(j) \/ ObserverStep(j) \/
             ObserverFault(j) \/ FinalizerStep(j) \/ ReconcilerStep(j)
             \/ ReconcilerFault(j)
      PROVE  RunsInv'
  BY <1>1, RunsExecuteStep, RunsExecuteFault, RunsObserverStep,
       RunsObserverFault, RunsFinalizerStep, RunsReconcilerStep,
       RunsReconcilerFault
<1>2. CASE StartupStep \/ CancelStep
  BY <1>2, RunsStartupStep, RunsCancelStep
<1>3. CASE (\E j \in Jobs : CreateJob(j) \/ EnqueueJob(j))
            \/ ListForRespawn \/ WorkerCrash \/ BotCrash \/ CancelBegin
            \/ (\E r \in Runs : RunEnds(r)) \/ LockExpires \/ FlagExpires
            \/ UNCHANGED vars
  BY <1>3, RunsOthers
<1>4. QED BY <1>1, <1>2, <1>3 DEF Next

(* No two jobs have the same Cursor run, in their rows or in launches.       *)
THEOREM RunsAreNotShared == Spec => []RunsNotShared
<1>1. TypeOK /\ RunsInv /\ [Next]_vars => RunsInv' BY RunsNext
<1>2. RunsInv => RunsNotShared OBVIOUS
<1>3. QED BY <1>1, <1>2, RunsInit, TypeCorrect, PTL DEF Spec

HIDE DEF RunsInv, RunsNotShared

-----------------------------------------------------------------------------
(* Success *)

USE DEF EarnedInv, SuccessIsEarned, LifecycleInv, UnboundPoints, WaitingPoints

LEMMA EarnedInit == Init => EarnedInv
BY DEF Init

LEMMA EarnedExecuteStep ==
  ASSUME TypeOK, LifecycleInv, EarnedInv, NEW j \in Jobs, ExecuteStep(j)
  PROVE  EarnedInv'
BY SMTT(30) DEF ExecuteStep, Pickup, CheckCancelFlag, BusyGatePass,
     BusyGateDefer, CloseZombie, AcquireLock, LockTimeout, StartJob,
     ClearCancel, CreateRun, BindSlot, BindJob, SendCard, LeaveToReconciler,
     RequeueJob, EnqueueDeferred, FailJob, CloseFailed

LEMMA EarnedExecuteFault ==
  ASSUME TypeOK, LifecycleInv, EarnedInv, NEW j \in Jobs, ExecuteFault(j)
  PROVE  EarnedInv'
BY SMTT(30) DEF ExecuteFault, BusyGateZombie, FailContext, CursorError,
     TelegramError, JobTimeout

LEMMA EarnedObserverStep ==
  ASSUME TypeOK, LifecycleInv, EarnedInv, NEW j \in Jobs, ObserverStep(j)
  PROVE  EarnedInv'
BY SMTT(30) DEF ObserverStep, ObserveCancel, ObserveTerminal, ObserverCancelJob,
     ObserverCloseCancelled, ObserverCleanup

LEMMA EarnedObserverFault ==
  ASSUME TypeOK, LifecycleInv, EarnedInv, NEW j \in Jobs, ObserverFault(j)
  PROVE  EarnedInv'
BY SMTT(30) DEF ObserverFault, ObservePause, ObserveError, ApprovalNotSent

LEMMA EarnedFinalizerStep ==
  ASSUME TypeOK, LifecycleInv, EarnedInv, NEW j \in Jobs, FinalizerStep(j)
  PROVE  EarnedInv'
BY SMTT(30) DEF FinalizerStep, FinalizeClaim, FinalizeEffects, FinalizeSettle,
     FinalizeUnbind

LEMMA EarnedReconcilerStep ==
  ASSUME TypeOK, LifecycleInv, EarnedInv, NEW j \in Jobs, ReconcilerStep(j)
  PROVE  EarnedInv'
BY SMTT(30) DEF ReconcilerStep, ReconcileList, ReconcileFetch,
     ReconcileCloseFailed, RespawnObserver

LEMMA EarnedReconcilerFault ==
  ASSUME TypeOK, LifecycleInv, EarnedInv, NEW j \in Jobs, ReconcilerFault(j)
  PROVE  EarnedInv'
BY SMTT(30) DEF ReconcilerFault, ReconcileFetchError, ReconcileTimeout

LEMMA EarnedStartupStep ==
  ASSUME TypeOK, LifecycleInv, EarnedInv, StartupStep
  PROVE  EarnedInv'
BY SMTT(30) DEF StartupStep, WorkerStart, ListActive, WorkerReady,
     RecoverQueued, RecoverEnqueue, RecoverObserved

LEMMA EarnedCancelStep ==
  ASSUME TypeOK, LifecycleInv, EarnedInv, CancelStep
  PROVE  EarnedInv'
<1>1. CASE ListQueued
  BY <1>1 DEF ListQueued
<1>2. ASSUME NEW j \in Jobs, CancelQueued(j) PROVE EarnedInv'
  BY <1>2 DEF CancelQueued
<1>3. CASE RequestCancel \/ ReadSlot \/ CancelLatestActive \/ StopRun \/
           CancelUnbind
  BY <1>3 DEF RequestCancel, ReadSlot, CancelLatestActive, StopRun, CancelUnbind
<1>4. QED BY <1>1, <1>2, <1>3 DEF CancelStep

LEMMA EarnedOthers ==
  ASSUME TypeOK, LifecycleInv, EarnedInv,
         (\E j \in Jobs : CreateJob(j) \/ EnqueueJob(j))
            \/ ListForRespawn \/ WorkerCrash \/ BotCrash \/ CancelBegin
            \/ (\E r \in Runs : RunEnds(r)) \/ LockExpires \/ FlagExpires
            \/ UNCHANGED vars
  PROVE  EarnedInv'
BY SMTT(30) DEF CreateJob, EnqueueJob, ListForRespawn, WorkerCrash, BotCrash,
     CancelBegin, RunEnds, LockExpires, FlagExpires, vars

LEMMA EarnedNext ==
  ASSUME TypeOK, LifecycleInv, EarnedInv, [Next]_vars
  PROVE  EarnedInv'
<1>1. ASSUME NEW j \in Jobs,
             ExecuteStep(j) \/ ExecuteFault(j) \/ ObserverStep(j) \/
             ObserverFault(j) \/ FinalizerStep(j) \/ ReconcilerStep(j)
             \/ ReconcilerFault(j)
      PROVE  EarnedInv'
  BY <1>1, EarnedExecuteStep, EarnedExecuteFault, EarnedObserverStep,
       EarnedObserverFault, EarnedFinalizerStep, EarnedReconcilerStep,
       EarnedReconcilerFault
<1>2. CASE StartupStep \/ CancelStep
  BY <1>2, EarnedStartupStep, EarnedCancelStep
<1>3. CASE (\E j \in Jobs : CreateJob(j) \/ EnqueueJob(j))
            \/ ListForRespawn \/ WorkerCrash \/ BotCrash \/ CancelBegin
            \/ (\E r \in Runs : RunEnds(r)) \/ LockExpires \/ FlagExpires
            \/ UNCHANGED vars
  BY <1>3, EarnedOthers
<1>4. QED BY <1>1, <1>2, <1>3 DEF Next

(* A job succeeds, or its plan awaits approval, only when its own Cursor run *)
(* has finished and its row is claimed (run_finalizer.RunFinalizer).         *)
THEOREM SuccessesAreEarned == Spec => []SuccessIsEarned
<1>1. TypeOK /\ LifecycleInv /\ EarnedInv /\ [Next]_vars => EarnedInv' BY EarnedNext
<1>2. EarnedInv => SuccessIsEarned OBVIOUS
<1>3. QED BY <1>1, <1>2, EarnedInit, TypeCorrect, LifecycleCorrect, PTL DEF Spec
=============================================================================

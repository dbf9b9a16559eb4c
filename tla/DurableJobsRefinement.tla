------------------------ MODULE DurableJobsRefinement ------------------------
(***************************************************************************)
(* DurableJobs implements JobLife, for any number of jobs, runs, crashes    *)
(* and cancellations.  First, which changes of the rows are which steps of  *)
(* JobLife; then each action of the processes is one of those changes.      *)
(***************************************************************************)
EXTENDS DurableJobsTheorems

USE ConstantsAssumption
USE DEF jobRow, slotVars, redisVars, cloudVars, execLocals, watchers, botVars, counters
USE DEF Statuses, QueuedStatuses, ActiveStatuses, TerminalStatuses, ExecPoints,
        LockedPoints, ObserverPoints, ReconcilerPoints, CancelPoints, CloudTerminal
USE DEF TypeOK

LifeStep == [Life!LifeNext]_(Life!lifeVars)

-----------------------------------------------------------------------------
(* Changes of the rows *)

USE DEF PhaseOf, Life!lifeVars, LifeStep

LEMMA UnseenStep ==
  ASSUME UNCHANGED <<status, run, finalized, effects>>,
         \A r \in Runs : cloud'[r] = "finished" <=> cloud[r] = "finished"
  PROVE  LifeStep
OBVIOUS

(* status' = s for one job is the abstract step into the phase of s           *)
LEMMA PhaseStep ==
  ASSUME TypeOK, NEW j \in Jobs, NEW s \in Statuses,
         status' = [status EXCEPT ![j] = s]
  PROVE  Life!Enters(j, PhaseOf(s))
<1>1. \A k \in Jobs : status'[k] = IF k = j THEN s ELSE status[k]
  OBVIOUS
<1> HIDE DEF PhaseOf
<1>2. [k \in Jobs |-> PhaseOf(status'[k])]
        = [[k \in Jobs |-> PhaseOf(status[k])] EXCEPT ![j] = PhaseOf(s)]
  BY <1>1
<1>3. QED BY <1>2 DEF Life!Enters

(* the changes of a status that JobLife knows *)
MayBecome(j, s) ==
  \/ status[j] = "absent" /\ s \in QueuedStatuses
  \/ status[j] \in QueuedStatuses /\ s \in ActiveStatuses
  \/ /\ status[j] \in ActiveStatuses /\ s \in QueuedStatuses
     /\ run[j] = NoRun /\ ~finalized[j]
  \/ /\ status[j] \in ActiveStatuses /\ s \in {"succeeded", "awaiting_approval"}
     /\ finalized[j] /\ run[j] \in Runs /\ cloud[run[j]] = "finished"
  \/ status[j] \in QueuedStatuses \cup ActiveStatuses /\ s \in {"failed", "cancelled"}

USE DEF MayBecome

LEMMA StatusStep ==
  ASSUME TypeOK, UNCHANGED <<run, finalized, effects, cloud>>,
         NEW j \in Jobs, NEW s \in Statuses,
         status' = [status EXCEPT ![j] = s],
         MayBecome(j, s)
  PROVE  LifeStep
<1>0. Life!Enters(j, PhaseOf(s)) BY PhaseStep
<1>1. CASE status[j] = "absent" /\ s \in QueuedStatuses
  <2>1. Life!Submit(j) BY <1>0, <1>1 DEF Life!Submit
  <2>2. QED BY <2>1 DEF Life!LifeNext
<1>2. CASE status[j] \in QueuedStatuses /\ s \in ActiveStatuses
  <2>1. Life!Begin(j) BY <1>0, <1>2 DEF Life!Begin
  <2>2. QED BY <2>1 DEF Life!LifeNext
<1>3. CASE /\ status[j] \in ActiveStatuses /\ s \in QueuedStatuses
           /\ run[j] = NoRun /\ ~finalized[j]
  <2>1. Life!PutBack(j) BY <1>0, <1>3 DEF Life!PutBack
  <2>2. QED BY <2>1 DEF Life!LifeNext
<1>4. CASE /\ status[j] \in ActiveStatuses /\ s \in {"succeeded", "awaiting_approval"}
           /\ finalized[j] /\ run[j] \in Runs /\ cloud[run[j]] = "finished"
  <2>1. Life!Succeed(j) BY <1>0, <1>4 DEF Life!Succeed
  <2>2. QED BY <2>1 DEF Life!LifeNext
<1>5. CASE /\ status[j] \in QueuedStatuses \cup ActiveStatuses
           /\ s \in {"failed", "cancelled"}
  <2>1. Life!GiveUp(j) BY <1>0, <1>5 DEF Life!GiveUp
  <2>2. QED BY <2>1 DEF Life!LifeNext
<1>6. QED BY <1>1, <1>2, <1>3, <1>4, <1>5

(* JobRepository.transition: where the status is not the expected one,        *)
(* nothing happens                                                           *)
LEMMA TransitionStep ==
  ASSUME TypeOK, UNCHANGED <<run, finalized, effects, cloud>>,
         NEW j \in Jobs, NEW from, NEW to \in Statuses,
         Transition(j, from, to),
         status[j] \in from => MayBecome(j, to)
  PROVE  LifeStep
<1> USE DEF Transition, Moved
<1>1. CASE status[j] \in from
  <2>1. status' = [status EXCEPT ![j] = to] BY <1>1
  <2>2. QED BY <1>1, <2>1, StatusStep
<1>2. CASE status[j] \notin from
  <2>1. UNCHANGED status BY <1>2
  <2>2. QED BY <2>1, UnseenStep
<1>3. QED BY <1>1, <1>2

LEMMA BindingStep ==
  ASSUME TypeOK, UNCHANGED <<status, finalized, effects, cloud>>,
         NEW j \in Jobs, NEW r \in Runs,
         run' = [run EXCEPT ![j] = r],
         status[j] \notin QueuedStatuses \cup {"absent"},
         run[j] = NoRun, \A k \in Jobs : run[k] # r
  PROVE  LifeStep
<1>1. Life!Bind(j, r) BY DEF Life!Bind
<1>2. QED BY <1>1 DEF Life!LifeNext

LEMMA ClosingStep ==
  ASSUME TypeOK, UNCHANGED <<status, run, effects, cloud>>,
         NEW j \in Jobs,
         finalized' = [finalized EXCEPT ![j] = TRUE],
         status[j] \notin QueuedStatuses \cup {"absent"}
  PROVE  LifeStep
<1>1. CASE finalized[j] BY <1>1
<1>2. CASE ~finalized[j]
  <2>1. Life!Close(j) BY <1>2 DEF Life!Close
  <2>2. QED BY <2>1 DEF Life!LifeNext
<1>3. QED BY <1>1, <1>2

LEMMA RecordingStep ==
  ASSUME TypeOK, UNCHANGED <<status, run, finalized, cloud>>,
         NEW j \in Jobs, finalized[j], effects[j] = 0,
         effects' = [effects EXCEPT ![j] = 1]
  PROVE  LifeStep
<1>1. Life!Record(j) BY DEF Life!Record
<1>2. QED BY <1>1 DEF Life!LifeNext

LEMMA EndingStep ==
  ASSUME TypeOK, UNCHANGED <<status, run, finalized, effects>>,
         NEW r \in Runs, cloud[r] = "running",
         NEW s \in {"finished", "error"}, cloud' = [cloud EXCEPT ![r] = s]
  PROVE  LifeStep
<1>1. CASE s = "finished"
  <2>1. {q \in Runs : cloud'[q] = "finished"} = {q \in Runs : cloud[q] = "finished"} \cup {r}
    BY <1>1
  <2>2. Life!RunFinishes(r) BY <2>1 DEF Life!RunFinishes
  <2>3. QED BY <2>2 DEF Life!LifeNext
<1>2. CASE s = "error" BY <1>2, UnseenStep
<1>3. QED BY <1>1, <1>2

HIDE DEF PhaseOf, Life!lifeVars, LifeStep

-----------------------------------------------------------------------------
(* Steps of the processes *)

USE DEF Exec, Goto, Return, Allowed, Enqueue, LockFree, Unlock, MarkFinalized,
     Claimed, Open, Observe, Reconcile, Fault, ActiveJobs, Blocks, FinalizerAt,
     ReleaseSlot, LeftToReconciler
USE DEF LifecycleInv, WaitingPoints, UnboundPoints, HasTicket, OneTicket, Tally

LEMMA ExecuteIsLife ==
  ASSUME TypeOK, LifecycleInv, RunsNotShared, NEW j \in Jobs, ExecuteStep(j)
  PROVE  LifeStep
<1>1. CASE \/ Pickup(j) \/ BusyGatePass(j) \/ BusyGateDefer(j) \/ AcquireLock(j)
           \/ LockTimeout(j) \/ ClearCancel(j) \/ BindSlot(j) \/ SendCard(j)
           \/ LeaveToReconciler(j) \/ EnqueueDeferred(j)
  BY <1>1, UnseenStep DEF Pickup, BusyGatePass, BusyGateDefer, AcquireLock,
     LockTimeout, ClearCancel, BindSlot, SendCard, LeaveToReconciler, EnqueueDeferred
<1>2. CASE CheckCancelFlag(j)
  <2>1. CASE cancelFlag
    <3>1. Transition(j, {seen[j]}, "cancelled") BY <1>2, <2>1 DEF CheckCancelFlag
    <3>2. status[j] \in {seen[j]} => MayBecome(j, "cancelled") BY <1>2 DEF CheckCancelFlag
    <3>3. QED BY <1>2, <3>1, <3>2, TransitionStep DEF CheckCancelFlag
  <2>2. CASE ~cancelFlag BY <1>2, <2>2, UnseenStep DEF CheckCancelFlag
  <2>3. QED BY <2>1, <2>2
<1>3. CASE CloseZombie(j)
  <2>1. CASE victim[j] = NoJob
    <3>1. UNCHANGED finalized BY <1>3, <2>1 DEF CloseZombie
    <3>2. QED BY <1>3, <3>1, UnseenStep DEF CloseZombie
  <2>2. CASE victim[j] # NoJob
    <3>1. victim[j] \in Jobs /\ run[victim[j]] # NoRun BY <2>2
    <3>2. status[victim[j]] \notin QueuedStatuses \cup {"absent"} BY <3>1
    <3>3. QED BY <1>3, <3>1, <3>2, ClosingStep DEF CloseZombie
  <2>3. QED BY <2>1, <2>2
<1>4. CASE StartJob(j)
  <2> DEFINE to == IF j \in PlanJobs THEN "planning" ELSE "running"
  <2>1. status[j] \in {seen[j]} => MayBecome(j, to) BY <1>4 DEF StartJob
  <2>2. Transition(j, {seen[j]}, to) /\ UNCHANGED <<run, finalized, effects, cloud>>
    BY <1>4 DEF StartJob
  <2>3. to \in Statuses OBVIOUS
  <2> HIDE DEF to
  <2>4. QED BY <2>1, <2>2, <2>3, TransitionStep
<1>5. CASE CreateRun(j)
  <2>1. \A r \in Runs : cloud'[r] = "finished" <=> cloud[r] = "finished"
    BY <1>5 DEF CreateRun, Launched, RunsInFlight
  <2>2. QED BY <1>5, <2>1, UnseenStep DEF CreateRun
<1>6. CASE BindJob(j)
  <2>1. \A k \in Jobs : run[k] # mine[j]
    BY <1>6 DEF BindJob, RunsNotShared
  <2>2. run[j] = NoRun /\ status[j] \notin QueuedStatuses \cup {"absent"} /\ mine[j] \in Runs
    BY <1>6 DEF BindJob
  <2>3. /\ UNCHANGED <<status, finalized, effects, cloud>>
        /\ run' = [run EXCEPT ![j] = mine[j]]
    BY <1>6 DEF BindJob
  <2> HIDE DEF LifecycleInv
  <2>4. QED BY <2>1, <2>2, <2>3, BindingStep
<1>7. CASE RequeueJob(j)
  <2>1. status[j] \in ActiveStatuses => MayBecome(j, "queued") BY <1>7 DEF RequeueJob
  <2>2. QED BY <1>7, <2>1, TransitionStep DEF RequeueJob
<1>8. CASE FailJob(j)
  <2>1. status[j] \in QueuedStatuses \cup ActiveStatuses => MayBecome(j, "failed")
    OBVIOUS
  <2>2. QED BY <1>8, <2>1, TransitionStep DEF FailJob
<1>9. CASE CloseFailed(j)
  <2>1. status[j] \notin QueuedStatuses \cup {"absent"} BY <1>9 DEF CloseFailed
  <2>2. QED BY <1>9, <2>1, ClosingStep DEF CloseFailed
<1>10. QED BY <1>1, <1>2, <1>3, <1>4, <1>5, <1>6, <1>7, <1>8, <1>9 DEF ExecuteStep

LEMMA ExecuteFaultIsLife ==
  ASSUME TypeOK, NEW j \in Jobs, ExecuteFault(j)
  PROVE  LifeStep
<1>1. CASE CursorError(j) \/ TelegramError(j) \/ JobTimeout(j)
  BY <1>1, UnseenStep DEF CursorError, TelegramError, JobTimeout
<1>2. CASE BusyGateZombie(j)
  <2>1. PICK a \in ActiveJobs : Transition(a, ActiveStatuses, "failed")
    BY <1>2 DEF BusyGateZombie
  <2>2. QED BY <1>2, <2>1, TransitionStep DEF BusyGateZombie
<1>3. CASE FailContext(j)
  BY <1>3, TransitionStep DEF FailContext
<1>4. QED BY <1>1, <1>2, <1>3 DEF ExecuteFault

LEMMA ObserverIsLife ==
  ASSUME TypeOK, LifecycleInv, NEW j \in Jobs, ObserverStep(j) \/ ObserverFault(j)
  PROVE  LifeStep
<1>1. CASE ObserveCancel(j) \/ ObserveTerminal(j) \/ ObserverCleanup(j) \/ ObserverFault(j)
  BY <1>1, UnseenStep DEF ObserveCancel, ObserveTerminal, ObserverCleanup,
     ObserverFault, ObservePause, ObserveError, ApprovalNotSent
<1>2. CASE ObserverCancelJob(j)
  BY <1>2, TransitionStep DEF ObserverCancelJob
<1>3. CASE ObserverCloseCancelled(j)
  <2>1. status[j] \notin QueuedStatuses \cup {"absent"} BY <1>3 DEF ObserverCloseCancelled
  <2>2. QED BY <1>3, <2>1, ClosingStep DEF ObserverCloseCancelled
<1>4. QED BY <1>1, <1>2, <1>3 DEF ObserverStep

LEMMA FinalizerIsLife ==
  ASSUME TypeOK, LifecycleInv, ClaimInv, EarnedInv, NEW j \in Jobs, FinalizerStep(j)
  PROVE  LifeStep
<1>1. CASE FinalizeClaim(j)
  <2>1. status[j] \notin QueuedStatuses \cup {"absent"} BY <1>1 DEF FinalizeClaim
  <2>2. QED BY <1>1, <2>1, ClosingStep DEF FinalizeClaim
<1>2. CASE FinalizeEffects(j)
  <2>1. finalized[j] /\ effects[j] = 0
    BY <1>2 DEF FinalizeEffects, ClaimInv
  <2>2. effects' = [effects EXCEPT ![j] = 1]
    BY <1>2, <2>1 DEF FinalizeEffects
  <2>3. QED BY <1>2, <2>1, <2>2, RecordingStep DEF FinalizeEffects
<1>3. CASE FinalizeSettle(j)
  <2>1. finalized[j] /\ run[j] \in Runs
    BY <1>3 DEF FinalizeSettle, EarnedInv
  <2>2. FinalStatus(j) \in Statuses /\ (status[j] \in ActiveStatuses => MayBecome(j, FinalStatus(j)))
    BY <2>1 DEF FinalStatus
  <2>3. QED BY <1>3, <2>2, TransitionStep DEF FinalizeSettle
<1>4. CASE FinalizeUnbind(j)
  BY <1>4, UnseenStep DEF FinalizeUnbind
<1>5. QED BY <1>1, <1>2, <1>3, <1>4 DEF FinalizerStep

LEMMA ReconcilerIsLife ==
  ASSUME TypeOK, LifecycleInv, NEW j \in Jobs, ReconcilerStep(j) \/ ReconcilerFault(j)
  PROVE  LifeStep
<1>1. CASE ReconcileList(j) \/ ReconcileFetch(j) \/ RespawnObserver(j) \/ ReconcilerFault(j)
  BY <1>1, UnseenStep DEF ReconcileList, ReconcileFetch, RespawnObserver,
     ReconcilerFault, ReconcileFetchError, ReconcileTimeout
<1>2. CASE ReconcileCloseFailed(j)
  <2>1. status[j] \notin QueuedStatuses \cup {"absent"} BY <1>2 DEF ReconcileCloseFailed
  <2>2. QED BY <1>2, <2>1, ClosingStep DEF ReconcileCloseFailed
<1>3. QED BY <1>1, <1>2 DEF ReconcilerStep

LEMMA StartupIsLife ==
  ASSUME TypeOK, LifecycleInv, StartupStep
  PROVE  LifeStep
<1>1. CASE WorkerStart \/ ListActive \/ WorkerReady
  BY <1>1, UnseenStep DEF WorkerStart, ListActive, WorkerReady
<1>2. ASSUME NEW j \in Jobs, RecoverEnqueue(j) \/ RecoverObserved(j) PROVE LifeStep
  BY <1>2, UnseenStep DEF RecoverEnqueue, RecoverObserved
<1>3. ASSUME NEW j \in Jobs, RecoverQueued(j) PROVE LifeStep
  <2>1. status[j] \in ActiveStatuses => MayBecome(j, "queued") BY <1>3 DEF RecoverQueued
  <2>2. QED BY <1>3, <2>1, TransitionStep DEF RecoverQueued
<1>4. QED BY <1>1, <1>2, <1>3 DEF StartupStep

LEMMA CancelIsLife ==
  ASSUME TypeOK, CancelStep
  PROVE  LifeStep
<1>1. CASE RequestCancel \/ ListQueued \/ ReadSlot \/ CancelUnbind
  BY <1>1, UnseenStep DEF RequestCancel, ListQueued, ReadSlot, CancelUnbind
<1>2. ASSUME NEW j \in Jobs, CancelQueued(j) PROVE LifeStep
  <2>1. PICK s \in QueuedStatuses : Transition(j, {s}, "cancelled")
    BY <1>2 DEF CancelQueued
  <2>2. status[j] \in {s} => MayBecome(j, "cancelled") OBVIOUS
  <2>3. QED BY <1>2, <2>1, <2>2, TransitionStep DEF CancelQueued
<1>3. CASE CancelLatestActive
  <2>1. CASE UNCHANGED status
    BY <1>3, <2>1, UnseenStep DEF CancelLatestActive
  <2>2. CASE \E a \in ActiveJobs : Transition(a, ActiveStatuses, "cancelled")
    BY <1>3, <2>2, TransitionStep DEF CancelLatestActive
  <2>3. QED BY <1>3, <2>1, <2>2 DEF CancelLatestActive
<1>4. CASE StopRun
  <2>1. \A r \in Runs : cloud'[r] = "finished" <=> cloud[r] = "finished"
    BY <1>4 DEF StopRun
  <2>2. QED BY <1>4, <2>1, UnseenStep DEF StopRun
<1>5. QED BY <1>1, <1>2, <1>3, <1>4 DEF CancelStep

LEMMA OthersAreLife ==
  ASSUME TypeOK,
         (\E j \in Jobs : CreateJob(j) \/ EnqueueJob(j))
            \/ ListForRespawn \/ WorkerCrash \/ BotCrash \/ CancelBegin
            \/ (\E r \in Runs : RunEnds(r)) \/ LockExpires \/ FlagExpires
            \/ UNCHANGED vars
  PROVE  LifeStep
<1>1. ASSUME NEW j \in Jobs, CreateJob(j) PROVE LifeStep
  <2>1. PICK s \in EntryStatuses : status' = [status EXCEPT ![j] = s]
    BY <1>1 DEF CreateJob
  <2>2. QED BY <1>1, <2>1, StatusStep DEF CreateJob
<1>2. ASSUME NEW r \in Runs, RunEnds(r) PROVE LifeStep
  BY <1>2, EndingStep DEF RunEnds
<1>3. CASE (\E j \in Jobs : EnqueueJob(j)) \/ ListForRespawn \/ WorkerCrash
             \/ BotCrash \/ CancelBegin \/ LockExpires \/ FlagExpires \/ UNCHANGED vars
  BY <1>3, UnseenStep DEF EnqueueJob, ListForRespawn, WorkerCrash, BotCrash,
     CancelBegin, LockExpires, FlagExpires, vars
<1>4. QED BY <1>1, <1>2, <1>3

-----------------------------------------------------------------------------
LEMMA LifeInitially == Init => Life!LifeInit
<1>1. Init => [j \in Jobs |-> PhaseOf(status[j])] = [j \in Jobs |-> "new"]
  BY DEF Init, PhaseOf
<1>2. Init => {r \in Runs : cloud[r] = "finished"} = {}
  BY DEF Init
<1>3. QED BY <1>1, <1>2 DEF Init, Life!LifeInit

LEMMA ClaimsHold == Spec => []ClaimInv
<1>1. TypeOK /\ ClaimInv /\ [Next]_vars => ClaimInv' BY ClaimNext
<1>2. QED BY <1>1, ClaimInit, TypeCorrect, PTL DEF Spec

LEMMA EarningsHold == Spec => []EarnedInv
<1>1. TypeOK /\ LifecycleInv /\ EarnedInv /\ [Next]_vars => EarnedInv' BY EarnedNext
<1>2. QED BY <1>1, EarnedInit, TypeCorrect, LifecycleCorrect, PTL DEF Spec

LEMMA NextIsLife ==
  ASSUME TypeOK, LifecycleInv, RunsNotShared, ClaimInv, EarnedInv, [Next]_vars
  PROVE  LifeStep
<1>1. ASSUME NEW j \in Jobs,
             ExecuteStep(j) \/ ExecuteFault(j) \/ ObserverStep(j) \/
             ObserverFault(j) \/ FinalizerStep(j) \/ ReconcilerStep(j)
             \/ ReconcilerFault(j)
      PROVE  LifeStep
  BY <1>1, ExecuteIsLife, ExecuteFaultIsLife, ObserverIsLife, FinalizerIsLife,
     ReconcilerIsLife
<1>2. CASE StartupStep \/ CancelStep
  BY <1>2, StartupIsLife, CancelIsLife
<1>3. CASE (\E j \in Jobs : CreateJob(j) \/ EnqueueJob(j))
            \/ ListForRespawn \/ WorkerCrash \/ BotCrash \/ CancelBegin
            \/ (\E r \in Runs : RunEnds(r)) \/ LockExpires \/ FlagExpires
            \/ UNCHANGED vars
  BY <1>3, OthersAreLife
<1>4. QED BY <1>1, <1>2, <1>3 DEF Next

(* Every behaviour of the worker, the observers, the reconciler, the bot and *)
(* Cursor, with all their crashes, timeouts and retries, is a behaviour of   *)
(* JobLife: one life per job, one run, one recorded result, one end.         *)
THEOREM JobsLiveAsPromised == Spec => ImplementsJobLife
<1>1. TypeOK /\ LifecycleInv /\ RunsNotShared /\ ClaimInv /\ EarnedInv /\ [Next]_vars
        => [Life!LifeNext]_(Life!lifeVars)
  BY NextIsLife DEF LifeStep
<1>2. QED BY <1>1, LifeInitially, TypeCorrect, LifecycleCorrect, RunsAreNotShared,
             ClaimsHold, EarningsHold, PTL DEF Spec, ImplementsJobLife, Life!LifeSpec
=============================================================================

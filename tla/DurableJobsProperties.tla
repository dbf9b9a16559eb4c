----------------------- MODULE DurableJobsProperties -----------------------
(***************************************************************************)
(* What the durable job lifecycle promises: invariants, action properties, *)
(* liveness under the fairness of the worker's scheduling, and the         *)
(* statements of the repository's documents that the code does not keep.   *)
(***************************************************************************)
EXTENDS DurableJobs

Tally(P) == IF P THEN 1 ELSE 0

(* A job is advanced by one party at a time: at most one of its insertion    *)
(* waiting for enqueue, its ARQ message and its execution exists, so two     *)
(* executions of the same job never race for its row (durable_dispatch,      *)
(* worker.execute_job re-enqueues, worker.startup recovery).                 *)
OneTicket ==
  \A j \in Jobs :
    Tally(j \in dispatching) + arq[j] + Tally(pc[j] # "idle") <= 1

(* The history behind OneTicket, RunBoundOnce and FinalizedStaysClosed, as   *)
(* an inductive invariant: where the ticket, the run ids and finalized_at of *)
(* a job may be in each status and at each control point of the worker.      *)
WaitingPoints == {"flag", "gate", "zombie", "lock", "start"}
UnboundPoints == WaitingPoints \cup {"clear", "create", "bind_slot", "bind_job"}
HasTicket(j) == j \in dispatching \/ arq[j] > 0 \/ pc[j] # "idle"

LifecycleInv ==
  /\ OneTicket
  /\ \A j \in Jobs :
       /\ status[j] = "absent" => ~HasTicket(j)
       /\ status[j] \in ActiveStatuses =>
            /\ j \notin dispatching /\ arq[j] = 0
            /\ pc[j] \in {"idle", "clear", "create", "bind_slot", "bind_job", "card",
                          "failed", "flooded"}
       /\ status[j] \in QueuedStatuses =>
            /\ pc[j] \in WaitingPoints => seen[j] = status[j]
            /\ pc[j] \in WaitingPoints \cup {"idle", "requeue", "boot_requeue"}
       /\ status[j] \in QueuedStatuses \cup {"absent"} => run[j] = NoRun
       /\ pc[j] \in UnboundPoints => run[j] = NoRun
       /\ pc[j] = "card" => run[j] # NoRun
       /\ finalized[j] => /\ run[j] = NoRun => status[j] \notin ActiveStatuses
                          /\ status[j] \notin QueuedStatuses \cup {"absent"}
       /\ obs[j] # "none" \/ rec[j] # "idle" \/ j \in respawn => run[j] # NoRun
       /\ victim[j] # NoJob => run[victim[j]] # NoRun
       /\ worker \in {"down", "starting"} => pc[j] = "idle"
       /\ worker = "recovering" => pc[j] \in {"idle", "boot_requeue"}
       /\ pc[j] = "boot_requeue" => j \notin boot
  /\ worker # "recovering" => boot = {}
  /\ worker \in {"down", "starting"} => respawn = {}

(* The claim behind SideEffectsOnce: each application of the side effects,   *)
(* done or under way, has its own claim of the row.                          *)
ClaimInv ==
  \A j \in Jobs :
    effects[j] + Tally(obs[j] = "effects") + Tally(rec[j] = "effects")
      <= Tally(finalized[j])

(* Memory, artifacts and results of a run are recorded at most once although *)
(* the observer and the reconciler finalize independently and the worker     *)
(* restarts between their steps (jobs.mark_finalized as the claim).          *)
SideEffectsOnce == \A j \in Jobs : effects[j] <= 1

(* A job is reported done, or its plan put up for approval, only when its    *)
(* own Cursor run finished and the row has been claimed (run_finalizer).     *)
SuccessIsEarned ==
  \A j \in Jobs : status[j] \in {"succeeded", "awaiting_approval"} =>
    /\ run[j] # NoRun
    /\ cloud[run[j]] = "finished"
    /\ finalized[j]

(* Two jobs never share a Cursor run, in the rows or in the memory of a      *)
(* launch, however often launches are retried (durable_run).                 *)
RunsNotShared ==
  /\ \A j, k \in Jobs : j # k /\ run[j] = run[k] => run[j] = NoRun
  /\ \A j, k \in Jobs : j # k /\ mine[j] = mine[k] => mine[j] = NoRun
  /\ \A j, k \in Jobs : j # k /\ mine[j] = run[k] => mine[j] = NoRun

(* What keeps them apart: a run in a row or a launch was created by Cursor,  *)
(* so a run created later is another one; what keeps success earned: a       *)
(* finalizer past its claim works on a finalized row.                        *)
RunsInv ==
  /\ RunsNotShared
  /\ \A j \in Jobs :
       /\ run[j] # NoRun => cloud[run[j]] # "unused"
       /\ mine[j] # NoRun => cloud[mine[j]] # "unused"

EarnedInv ==
  /\ SuccessIsEarned
  /\ \A j \in Jobs :
       obs[j] \in {"effects", "settle"} \/ rec[j] \in {"effects", "settle"} => finalized[j]

(* While the lock does not outlive its 120 seconds, every execution between  *)
(* acquire and release of the actor lock owns it, so launches of one actor   *)
(* are exclusive, also across crashes that leave the lock behind             *)
(* (worker.execute_job).                                                     *)
LaunchHoldsLock ==
  "lock_ttl" \notin Faults => \A j \in Jobs : pc[j] \in LockedPoints => lock = j

(* While neither the worker nor the bot dies or times out in between, a      *)
(* queued job always has its ticket: deferring, lock timeouts and requeues   *)
(* for floods and capacity never lose it (worker.execute_job).               *)
QueuedHasTicket ==
  Faults \cap {"crash", "bot_crash", "timeout"} = {} =>
    \A j \in Jobs : status[j] \in QueuedStatuses => HasTicket(j)

(* Succeeded, failed and cancelled are final, whichever of the worker, the   *)
(* observer, the reconciler, the busy-gate and /cancel writes last           *)
(* (jobs.transition with its from_statuses).                                 *)
KeepsTerminal ==
  \A j \in Jobs : status[j] \in TerminalStatuses => status'[j] = status[j]
TerminalIsFinal == [][KeepsTerminal]_vars

(* The run ids of a job are written once: neither a retry after a flood nor  *)
(* startup recovery relaunches a job that has a run (set_runtime).           *)
KeepsRun == \A j \in Jobs : run[j] # NoRun => run'[j] = run[j]
RunBoundOnce == [][KeepsRun]_vars

(* A finalized row stays finalized, and its job is never queued or started   *)
(* again (mark_finalized against the requeue and recovery paths).            *)
KeepsClosed ==
  \A j \in Jobs : finalized[j] =>
    /\ finalized'[j]
    /\ status'[j] \in QueuedStatuses \cup ActiveStatuses => status'[j] = status[j]
FinalizedStaysClosed == [][KeepsClosed]_vars

LaunchPoints == {"clear", "create", "bind_slot", "bind_job", "card"}

(* /cancel against a job that waits: once cancelled, a job that was not yet  *)
(* marked started never enters the launch, although its message, or its      *)
(* execution with the old status in memory, is still on its way to the lock  *)
(* (cancel_queued_for_actor against worker.started).                         *)
KeepsUnlaunched ==
  \A j \in Jobs : status[j] = "cancelled" /\ pc[j] \notin LaunchPoints
                    => pc'[j] \notin LaunchPoints
CancelledIsNotLaunched == [][KeepsUnlaunched]_vars

-----------------------------------------------------------------------------
(* DurableJobs implements JobLife: the rows, and the runs that finished, are *)
(* what a user sees of a job.                                                *)
PhaseOf(s) ==
  CASE s = "absent" -> "new"
    [] s \in QueuedStatuses -> "waiting"
    [] s \in ActiveStatuses -> "working"
    [] s = "awaiting_approval" -> "review"
    [] OTHER -> s

Life == INSTANCE JobLife WITH
  phase <- [j \in Jobs |-> PhaseOf(status[j])],
  bound <- run,
  closed <- finalized,
  recorded <- effects,
  finished <- {r \in Runs : cloud[r] = "finished"}

(* Every step of the worker, its observers, the reconciler, the bot and      *)
(* Cursor, crashes and restarts included, is one step of the job's promised  *)
(* life or none of it: e.g. a job is put back only while it has no run, and  *)
(* its result is stored once, after it was closed (worker.py, run_finalizer, *)
(* run_reconciler, cancel_service).                                          *)
ImplementsJobLife == Life!LifeSpec

-----------------------------------------------------------------------------
(* Fairness.  The processes run every step they can, ARQ delivers waiting    *)
(* messages, the cron comes back every 30 seconds, Cursor ends every run and *)
(* Redis expires the lock of a dead holder.  Users and failures owe nothing. *)
Fairness ==
  /\ \A j \in Jobs :
       /\ WF_vars(EnqueueJob(j))
       /\ WF_vars(ExecuteStep(j))
       /\ WF_vars(ObserverStep(j))
       /\ WF_vars(FinalizerStep(j))
       /\ WF_vars(ReconcileList(j) \/ ReconcileFetch(j) \/ ReconcileCloseFailed(j))
       /\ WF_vars(RespawnObserver(j))
  /\ WF_vars(ListForRespawn)
  /\ WF_vars(StartupStep)
  /\ WF_vars(CancelStep)
  /\ \A r \in Runs : WF_vars(RunEnds(r))
  /\ WF_vars(LockExpires /\ UNCHANGED faults)

FairSpec == Spec /\ Fairness

Settled(j) == status[j] \in TerminalStatuses \cup {"awaiting_approval"}

(* While the worker stays up, every job reaches an end: two jobs that find   *)
(* each other at the busy-gate or on the lock both get through, and capacity *)
(* and flood retries, a lost stream or a failed card park neither            *)
(* (worker.execute_job, reconcile_jobs).                                     *)
EveryJobSettles == \A j \in Jobs : (status[j] = "queued") ~> Settled(j)


(* Across a worker restart, a job that has a Cursor run and is not claimed   *)
(* is settled, or at least claimed by a finalizer: the run is not orphaned   *)
(* (worker.startup, run_reconciler).                                         *)
BoundRunIsClosed ==
  \A j \in Jobs :
    (status[j] \in ActiveStatuses /\ run[j] # NoRun /\ ~finalized[j])
      ~> (Settled(j) \/ finalized[j])

-----------------------------------------------------------------------------
(* Statements of the repository's documents that the code does not keep      *)

(* docs/ARCHITECTURE.md: the busy-gate keeps the next job of the actor from  *)
(* starting until the finalized_at of the running one.                       *)
BusyGateHolds ==
  [][\A j, a \in Jobs :
       (status[j] \in QueuedStatuses /\ status'[j] \in ActiveStatuses)
         => ~(status[a] \in ActiveStatuses /\ Blocks(a, j))]_vars

(* docs/USER_GUIDE.md: one actor executes at most one Cursor run at a time.  *)
OneRunAtATime == Cardinality({r \in Runs : cloud[r] = "running"}) <= 1

(* docs/USER_GUIDE.md: the queue is restored after a restart.                *)
QueueSurvivesRestart == \A j \in Jobs : (status[j] = "queued") ~> (status[j] # "queued")

(* docs/USER_GUIDE.md: /cancel cancels the run.  A job cancelled by it must  *)
(* not be bound to a new Cursor run afterwards.                              *)
CancelledJobGetsNoRun ==
  [][\A j \in Jobs : status[j] = "cancelled" => run'[j] = run[j]]_vars

(* docs/USER_GUIDE.md: /cancel concerns the active run, the queue and the    *)
(* buffers.  A job created after the last /cancel returned is none of them.  *)
LaterJobsSurviveCancel ==
  \A j \in Jobs :
    []((cancels = MaxCancels /\ cancelPc = "idle" /\ status[j] = "absent")
         => [](status[j] # "cancelled"))

(* run_reconciler.py: "recover success after premature failure".  A job the  *)
(* reconciler lists as failed while its Cursor run has finished succeeds.    *)
ReconcilerRecoversSuccess ==
  \A j \in Jobs \ PlanJobs :
    (rec[j] = "fetch_failed" /\ cloud[run[j]] = "finished") ~> (status[j] = "succeeded")
=============================================================================

---------------------------- MODULE DurableJobs ----------------------------
(***************************************************************************)
(* The durable job lifecycle of one actor: the beachops_jobs rows in       *)
(* Postgres, the ARQ messages, cancel flag and actor lock in Redis, the    *)
(* worker's execute_job executions, in-process observers, startup recovery *)
(* and periodic reconciler, the bot's dispatch and /cancel handlers, and   *)
(* the Cursor Cloud runs they drive.                                       *)
(*                                                                         *)
(* Every key of the real system carries the actor id, so actors do not     *)
(* interact and one actor is modelled.  One action is one step between two *)
(* awaits that another process can observe; awaits that nothing can tell   *)
(* apart share an action.  The actor has one agent slot here.              *)
(***************************************************************************)
EXTENDS Naturals, FiniteSets

CONSTANTS
  Jobs,           (* job ids this actor may create                            *)
  PlanJobs,       (* the jobs whose payload mode is "plan"                    *)
  Runs,           (* Cursor run ids                                           *)
  NoRun, NoJob,   (* NULL run id, no job                                      *)
  EntryStatuses,  (* statuses a job is created with by the callers in scope   *)
  Faults,         (* kinds of failure that may happen                         *)
  MaxFaults,      (* how many of them happen in a behaviour                   *)
  MaxCancels,     (* how many times /cancel is handled in a behaviour         *)
  BufferedInput   (* whether the bot holds a buffered prompt, which lets      *)
                  (* /cancel through its guard with no active run             *)

QueuedStatuses == {"queued", "approved", "revision_requested"}
ActiveStatuses == {"running", "planning"}
TerminalStatuses == {"succeeded", "failed", "cancelled"}
Statuses == {"absent", "awaiting_approval"}
              \cup QueuedStatuses \cup ActiveStatuses \cup TerminalStatuses

FaultKinds == {"crash", "bot_crash", "timeout", "cursor", "agent_gone", "telegram",
               "stream", "context", "lock_ttl", "flag_ttl", "zombie_age"}

ASSUME ConstantsAssumption ==
  /\ PlanJobs \subseteq Jobs
  /\ NoRun \notin Runs
  /\ NoJob \notin Jobs
  /\ EntryStatuses \subseteq QueuedStatuses
  /\ Faults \subseteq FaultKinds
  /\ MaxFaults \in Nat
  /\ MaxCancels \in Nat
  /\ BufferedInput \in BOOLEAN

VARIABLES
  (* beachops_jobs *)
  status,       (* [Jobs -> Statuses]                                         *)
  run,          (* cursor_run_id, written together with cursor_agent_id       *)
  card,         (* telegram_message_id is set                                 *)
  finalized,    (* finalized_at is set                                        *)
  (* user_agent_slots: the actor's slot *)
  slotRun,      (* active_run_id                                              *)
  slotAgent,    (* cursor_agent_id, named by the run that created the agent   *)
  (* Redis *)
  arq,          (* [Jobs -> Nat] execute_job messages waiting in the queue    *)
  cancelFlag,   (* beachops:cancel:{actor}                                    *)
  lock,         (* holder of beachops:actor-lock:{actor}                      *)
  (* Cursor Cloud *)
  cloud,        (* [Runs -> run status]                                       *)
  agentOf,      (* [Runs -> agent of the run, named by its first run]         *)
  (* worker process *)
  worker,       (* phase of the process                                       *)
  boot,         (* active jobs listed at startup and not yet recovered        *)
  pc,           (* [Jobs -> control point of execute_job]                     *)
  seen,         (* [Jobs -> job.status read by execute_job]                   *)
  victim,       (* [Jobs -> stale job being failed by the busy-gate]          *)
  base,         (* [Jobs -> agent of the slot in run_context of the launch]   *)
  mine,         (* [Jobs -> run id in memory of the launch]                   *)
  obs,          (* [Jobs -> control point of observe_and_finalize]            *)
  rec,          (* [Jobs -> control point of reconcile_job]                   *)
  respawn,      (* jobs reconcile_jobs listed to have an observer             *)
  (* bot process *)
  dispatching,  (* jobs inserted and not yet enqueued                         *)
  cancelPc,     (* control point of the /cancel handler                       *)
  todo,         (* <<job, status>> pairs listed by cancel_queued_for_actor    *)
  target,       (* run id /cancel will stop                                   *)
  (* bookkeeping of the model *)
  effects,      (* [Jobs -> times the terminal side effects were applied]     *)
  faults,       (* failures that happened                                     *)
  cancels       (* /cancel commands handled                                   *)

jobRow     == <<status, run, card, finalized>>
slotVars   == <<slotRun, slotAgent>>
redisVars  == <<arq, cancelFlag, lock>>
cloudVars  == <<cloud, agentOf>>
execLocals == <<seen, victim, base, mine>>
watchers   == <<obs, rec, respawn>>
botVars    == <<dispatching, cancelPc, todo, target>>
counters   == <<effects, faults, cancels>>
vars == <<status, run, card, finalized, slotRun, slotAgent, arq, cancelFlag, lock,
          cloud, agentOf, worker, boot, pc, seen, victim, base, mine, obs, rec, respawn,
          dispatching, cancelPc, todo, target, effects, faults, cancels>>

(* execute_job holds the actor lock at these control points *)
LockedPoints == {"start", "clear", "create", "bind_slot", "bind_job", "card",
                 "failed", "flooded", "requeue", "close"}
ExecPoints == {"idle", "flag", "gate", "zombie", "lock", "boot_requeue"} \cup LockedPoints
ObserverPoints == {"none", "watch", "claim", "effects", "settle", "unbind",
                   "cancelled", "cancel_close", "cleanup"}
ReconcilerPoints == {"idle", "fetch", "fetch_failed", "claim", "effects", "settle",
                     "unbind", "close"}
CancelPoints == {"idle", "set_flag", "list", "queued", "slot", "latest", "stop", "unbind"}
CloudTerminal == {"finished", "error", "cancelled"}

TypeOK ==
  /\ status \in [Jobs -> Statuses]
  /\ run \in [Jobs -> Runs \cup {NoRun}]
  /\ card \in [Jobs -> BOOLEAN]
  /\ finalized \in [Jobs -> BOOLEAN]
  /\ slotRun \in Runs \cup {NoRun}
  /\ slotAgent \in Runs \cup {NoRun}
  /\ arq \in [Jobs -> Nat]
  /\ cancelFlag \in BOOLEAN
  /\ lock \in Jobs \cup {NoJob}
  /\ cloud \in [Runs -> {"unused", "running"} \cup CloudTerminal]
  /\ agentOf \in [Runs -> Runs \cup {NoRun}]
  /\ worker \in {"down", "starting", "recovering", "up"}
  /\ boot \in SUBSET Jobs
  /\ pc \in [Jobs -> ExecPoints]
  /\ seen \in [Jobs -> QueuedStatuses \cup {"absent"}]
  /\ victim \in [Jobs -> Jobs \cup {NoJob}]
  /\ base \in [Jobs -> Runs \cup {NoRun}]
  /\ mine \in [Jobs -> Runs \cup {NoRun}]
  /\ \A j \in Jobs : pc[j] \in {"bind_slot", "bind_job"} => mine[j] # NoRun
  /\ obs \in [Jobs -> ObserverPoints]
  /\ rec \in [Jobs -> ReconcilerPoints]
  /\ respawn \in SUBSET Jobs
  /\ dispatching \in SUBSET Jobs
  /\ cancelPc \in CancelPoints
  /\ todo \in SUBSET (Jobs \X QueuedStatuses)
  /\ target \in Runs \cup {NoRun}
  /\ effects \in [Jobs -> Nat]
  /\ faults \in Nat
  /\ cancels \in Nat

Init ==
  /\ status = [j \in Jobs |-> "absent"]
  /\ run = [j \in Jobs |-> NoRun]
  /\ card = [j \in Jobs |-> FALSE]
  /\ finalized = [j \in Jobs |-> FALSE]
  /\ slotRun = NoRun /\ slotAgent = NoRun
  /\ arq = [j \in Jobs |-> 0]
  /\ cancelFlag = FALSE
  /\ lock = NoJob
  /\ cloud = [r \in Runs |-> "unused"]
  /\ agentOf = [r \in Runs |-> NoRun]
  /\ worker = "up" /\ boot = {}
  /\ pc = [j \in Jobs |-> "idle"]
  /\ seen = [j \in Jobs |-> "absent"]
  /\ victim = [j \in Jobs |-> NoJob]
  /\ base = [j \in Jobs |-> NoRun]
  /\ mine = [j \in Jobs |-> NoRun]
  /\ obs = [j \in Jobs |-> "none"]
  /\ rec = [j \in Jobs |-> "idle"] /\ respawn = {}
  /\ dispatching = {}
  /\ cancelPc = "idle" /\ todo = {} /\ target = NoRun
  /\ effects = [j \in Jobs |-> 0]
  /\ faults = 0 /\ cancels = 0

-----------------------------------------------------------------------------
(* Operators shared by the actions *)

(* JobsRepository.transition: a row lock, a check of the status, an update   *)
MovedUnchecked(j, from, to) == [status EXCEPT ![j] = to]
Moved(j, from, to) == [status EXCEPT ![j] = IF @ \in from THEN to ELSE @]
Transition(j, from, to) == status' = Moved(j, from, to)
(* It returns the row, not None *)
AllowedIgnored(j, from) == TRUE
Allowed(j, from) == status[j] \in from

(* JobsRepository.mark_finalized; it reports a claim iff the row was open    *)
MarkFinalized(j) == finalized' = [finalized EXCEPT ![j] = TRUE]
ClaimedAlways(j) == TRUE
Claimed(j) == ~finalized[j]

(* The row has Cursor ids and finalized_at is not set                        *)
OpenIfCarded(j) == run[j] # NoRun /\ ~finalized[j] /\ card[j]
Open(j) == run[j] # NoRun /\ ~finalized[j]

ActiveJobs == {j \in Jobs : status[j] \in ActiveStatuses}

Enqueue(j) == arq' = [arq EXCEPT ![j] = @ + 1]

(* lock.acquire() takes the free key, lock.release() deletes the key only    *)
(* while this execution still owns it                                        *)
LockFreeIgnored == TRUE
LockFree == lock = NoJob
Unlock(j) == lock' = IF lock = j THEN NoJob ELSE lock

Goto(j, p) == pc' = [pc EXCEPT ![j] = p]
ReturnMissing(j) == Goto(j, "lock") /\ UNCHANGED execLocals
(* The execution of j returns and its locals are gone *)
Return(j) ==
  /\ Goto(j, "idle")
  /\ seen' = [seen EXCEPT ![j] = "absent"]
  /\ victim' = [victim EXCEPT ![j] = NoJob]
  /\ base' = [base EXCEPT ![j] = NoRun]
  /\ mine' = [mine EXCEPT ![j] = NoRun]
Observe(j, p) == obs' = [obs EXCEPT ![j] = p]
Reconcile(j, p) == rec' = [rec EXCEPT ![j] = p]

Fault(kind) ==
  /\ kind \in Faults
  /\ faults < MaxFaults
  /\ faults' = faults + 1

Exec(j, p) == worker = "up" /\ pc[j] = p

FinalStatusRaw(j) == cloud[run[j]]
FinalStatusLenient(j) == IF cloud[run[j]] = "cancelled" THEN "cancelled" ELSE "succeeded"
(* What the finalizer makes of a job, given the terminal status of its run   *)
FinalStatus(j) ==
  IF cloud[run[j]] = "cancelled" THEN "cancelled"
  ELSE IF cloud[run[j]] # "finished" THEN "failed"
  ELSE IF j \in PlanJobs THEN "awaiting_approval" ELSE "succeeded"

ReleaseSlotOfLaunch(j) == slotRun' = IF slotRun = mine[j] THEN NoRun ELSE slotRun
(* set_active_run(slot, None) when the slot is still bound to this run       *)
ReleaseSlot(j) == slotRun' = IF slotRun = run[j] THEN NoRun ELSE slotRun
-----------------------------------------------------------------------------
(* Bot and web processes: a prompt is stored, then its message is enqueued.  *)
CreateJob(j) ==
  /\ status[j] = "absent"
  /\ \E s \in EntryStatuses : status' = [status EXCEPT ![j] = s]
  /\ dispatching' = dispatching \cup {j}
  /\ UNCHANGED <<run, card, finalized, slotVars, redisVars, cloudVars, worker, boot,
                 pc, execLocals, watchers, cancelPc, todo, target, counters>>

EnqueueJob(j) ==
  /\ j \in dispatching
  /\ dispatching' = dispatching \ {j}
  /\ Enqueue(j)
  /\ UNCHANGED <<jobRow, slotVars, cancelFlag, lock, cloudVars, worker, boot, pc,
                 execLocals, watchers, cancelPc, todo, target, counters>>

BotCrash ==
  /\ Fault("bot_crash")
  /\ dispatching' = {}
  /\ cancelPc' = "idle" /\ todo' = {} /\ target' = NoRun
  /\ UNCHANGED <<jobRow, slotVars, redisVars, cloudVars, worker, boot, pc, execLocals,
                 watchers, effects, cancels>>

-----------------------------------------------------------------------------
(* Worker: execute_job, from the message to the start of the observer        *)

(* A message is consumed when its execution starts: with max_tries = 1 ARQ   *)
(* never runs it again.  A job that is not queued is dropped.                *)
Pickup(j) ==
  /\ Exec(j, "idle")
  /\ arq[j] > 0
  /\ arq' = [arq EXCEPT ![j] = @ - 1]
  /\ IF status[j] \in QueuedStatuses
       THEN /\ Goto(j, "flag")
            /\ seen' = [seen EXCEPT ![j] = status[j]]
       ELSE UNCHANGED <<pc, seen>>
  /\ UNCHANGED <<jobRow, slotVars, cancelFlag, lock, cloudVars, worker, boot, victim,
                 base, mine, watchers, botVars, counters>>

CheckCancelFlag(j) ==
  /\ Exec(j, "flag")
  /\ IF cancelFlag
       THEN Transition(j, {seen[j]}, "cancelled") /\ Return(j)
       ELSE Goto(j, "gate") /\ UNCHANGED <<status, execLocals>>
  /\ UNCHANGED <<run, card, finalized, slotVars, redisVars, cloudVars, worker, boot,
                 watchers, botVars, counters>>

(* Another job of the actor that the busy-gate waits for *)
Blocks(a, j) == a # j /\ Open(a)

(* latest_active_for_actor returns one active job.  Which one is the latest  *)
(* updated depends on the SSE traffic, so any active job may be returned.    *)
BusyGatePass(j) ==
  /\ Exec(j, "gate")
  /\ ActiveJobs = {} \/ \E a \in ActiveJobs : ~Blocks(a, j)
  /\ Goto(j, "lock")
  /\ UNCHANGED <<jobRow, slotVars, redisVars, cloudVars, worker, boot, execLocals,
                 watchers, botVars, counters>>

BusyGateDefer(j) ==
  /\ Exec(j, "gate")
  /\ \E a \in ActiveJobs : Blocks(a, j)
  /\ Enqueue(j)
  /\ Return(j)
  /\ UNCHANGED <<jobRow, slotVars, cancelFlag, lock, cloudVars, worker, boot,
                 watchers, botVars, counters>>

(* The blocker has not been updated for 20 minutes *)
BusyGateZombie(j) ==
  /\ Exec(j, "gate")
  /\ Fault("zombie_age")
  /\ \E a \in ActiveJobs :
       /\ Blocks(a, j)
       /\ Transition(a, ActiveStatuses, "failed")
       /\ victim' = [victim EXCEPT ![j] = a]
  /\ Goto(j, "zombie")
  /\ UNCHANGED <<run, card, finalized, slotVars, redisVars, cloudVars, worker, boot,
                 seen, base, mine, watchers, botVars, effects, cancels>>

CloseZombie(j) ==
  /\ Exec(j, "zombie")
  /\ MarkFinalized(victim[j])
  /\ victim' = [victim EXCEPT ![j] = NoJob]
  /\ Goto(j, "lock")
  /\ UNCHANGED <<status, run, card, slotVars, redisVars, cloudVars, worker, boot,
                 seen, base, mine, watchers, botVars, counters>>

AcquireLock(j) ==
  /\ Exec(j, "lock")
  /\ LockFree
  /\ lock' = j
  /\ Goto(j, "start")
  /\ UNCHANGED <<jobRow, slotVars, arq, cancelFlag, cloudVars, worker, boot, execLocals,
                 watchers, botVars, counters>>

LockTimeoutDropped(j) ==
  /\ Exec(j, "lock")
  /\ ~LockFree
  /\ Return(j)
  /\ UNCHANGED <<jobRow, slotVars, redisVars, cloudVars, worker, boot, watchers, botVars,
                 counters>>

(* blocking_timeout passed: the job goes back to the queue *)
LockTimeout(j) ==
  /\ Exec(j, "lock")
  /\ ~LockFree
  /\ Enqueue(j)
  /\ Return(j)
  /\ UNCHANGED <<jobRow, slotVars, cancelFlag, lock, cloudVars, worker, boot,
                 watchers, botVars, counters>>

(* _fail_job before the job is started: bad payload, bad images, no context  *)
FailContext(j) ==
  /\ Exec(j, "start")
  /\ Fault("context")
  /\ Transition(j, QueuedStatuses \cup ActiveStatuses, "failed")
  /\ Goto(j, "close")
  /\ UNCHANGED <<run, card, finalized, slotVars, redisVars, cloudVars, worker, boot,
                 execLocals, watchers, botVars, effects, cancels>>

StartJob(j) ==
  /\ Exec(j, "start")
  /\ Transition(j, {seen[j]}, IF j \in PlanJobs THEN "planning" ELSE "running")
  /\ IF Allowed(j, {seen[j]})
       THEN /\ Goto(j, "clear")
            /\ base' = [base EXCEPT ![j] = slotAgent]
            /\ UNCHANGED <<lock, seen, victim, mine>>
       ELSE Return(j) /\ Unlock(j)
  /\ UNCHANGED <<run, card, finalized, slotVars, arq, cancelFlag, cloudVars, worker,
                 boot, watchers, botVars, counters>>

-----------------------------------------------------------------------------
(* launch_durable_cloud_job *)

ClearCancel(j) ==
  /\ Exec(j, "clear")
  /\ cancelFlag' = FALSE
  /\ Goto(j, "create")
  /\ UNCHANGED <<jobRow, slotVars, arq, lock, cloudVars, worker, boot, execLocals, watchers, botVars, counters>>

RunsInFlight(agent) == {q \in Runs : cloud[q] = "running" /\ agentOf[q] = agent}

(* Runs of a busy agent are cancelled before it gets the new run             *)
Launched(r, agent, stopped) ==
  /\ cloud' = [q \in Runs |-> IF q = r THEN "running"
                              ELSE IF q \in stopped THEN "cancelled" ELSE cloud[q]]
  /\ agentOf' = [agentOf EXCEPT ![r] = agent]

(* start_run: a follow-up of the agent in run_context, or a new agent if     *)
(* there is none, if Cursor no longer knows it ("agent_gone"), or if it      *)
(* stays busy because some of its runs could not be cancelled.               *)
CreateRun(j) ==
  /\ Exec(j, "create")
  /\ \E r \in Runs :
       /\ cloud[r] = "unused"
       /\ \/ /\ base[j] # NoRun
             /\ Launched(r, base[j], RunsInFlight(base[j]))
             /\ UNCHANGED faults
          \/ base[j] = NoRun /\ Launched(r, r, {}) /\ UNCHANGED faults
          \/ /\ base[j] # NoRun
             /\ Fault("agent_gone")
             /\ \E S \in SUBSET RunsInFlight(base[j]) : Launched(r, r, S)
       /\ mine' = [mine EXCEPT ![j] = r]
  /\ Goto(j, "bind_slot")
  /\ UNCHANGED <<jobRow, slotVars, redisVars, worker, boot, seen, victim, base, watchers,
                 botVars, effects, cancels>>

(* Cursor refuses the run; capacity errors are retried, others are final     *)
CursorError(j) ==
  /\ Exec(j, "create")
  /\ Fault("cursor")
  /\ \E p \in {"failed", "flooded"} : Goto(j, p)
  /\ UNCHANGED <<jobRow, slotVars, redisVars, cloudVars, worker, boot, execLocals, watchers, botVars, effects, cancels>>

(* on_update of start_run: the cancel check, then the ids of the slot        *)
BindSlot(j) ==
  /\ Exec(j, "bind_slot")
  /\ IF cancelFlag
       THEN Goto(j, "failed") /\ UNCHANGED slotVars
       ELSE /\ Goto(j, "bind_job")
            /\ slotRun' = mine[j]
            /\ slotAgent' = agentOf[mine[j]]
  /\ UNCHANGED <<jobRow, redisVars, cloudVars, worker, boot, execLocals, watchers,
                 botVars, counters>>

BindJobToSlotRun(j) ==
  /\ Exec(j, "bind_job")
  /\ run' = [run EXCEPT ![j] = slotRun]
  /\ Goto(j, "card")
  /\ UNCHANGED <<status, card, finalized, slotVars, redisVars, cloudVars, worker, boot,
                 execLocals, watchers, botVars, counters>>

(* set_runtime with the ids of the run, whatever the status of the job is    *)
BindJob(j) ==
  /\ Exec(j, "bind_job")
  /\ run' = [run EXCEPT ![j] = mine[j]]
  /\ Goto(j, "card")
  /\ UNCHANGED <<status, card, finalized, slotVars, redisVars, cloudVars, worker, boot,
                 execLocals, watchers, botVars, counters>>

(* The Telegram card is sent and recorded, the observer spawned unless one   *)
(* is there already, and the execution returns.                              *)
SendCard(j) ==
  /\ Exec(j, "card")
  /\ card' = [card EXCEPT ![j] = TRUE]
  /\ Observe(j, IF obs[j] = "none" THEN "watch" ELSE obs[j])
  /\ Return(j)
  /\ Unlock(j)
  /\ UNCHANGED <<status, run, finalized, slotVars, arq, cancelFlag, cloudVars, worker,
                 boot, rec, respawn, botVars, counters>>

(* Telegram refuses the card: flood control is retried, other errors not     *)
TelegramError(j) ==
  /\ Exec(j, "card")
  /\ Fault("telegram")
  /\ \E p \in {"failed", "flooded"} : Goto(j, p)
  /\ UNCHANGED <<jobRow, slotVars, redisVars, cloudVars, worker, boot, execLocals, watchers, botVars, effects, cancels>>

-----------------------------------------------------------------------------
(* The except clause of _execute_locked *)

LeftWithCard(j) == run[j] # NoRun /\ card[j] /\ status[j] \in ActiveStatuses
LeftIfActive(j) == status[j] \in ActiveStatuses
LeftToReconciler(j) == run[j] # NoRun /\ status[j] \in ActiveStatuses

LeaveToReconciler(j) ==
  /\ Exec(j, "failed") \/ Exec(j, "flooded")
  /\ LeftToReconciler(j)
  /\ Return(j)
  /\ Unlock(j)
  /\ UNCHANGED <<jobRow, slotVars, arq, cancelFlag, cloudVars, worker, boot, watchers, botVars, counters>>

RequeueJob(j) ==
  /\ Exec(j, "flooded")
  /\ ~LeftToReconciler(j)
  /\ Transition(j, ActiveStatuses, "queued")
  /\ Goto(j, "requeue")
  /\ UNCHANGED <<run, card, finalized, slotVars, redisVars, cloudVars, worker, boot,
                 execLocals, watchers, botVars, counters>>

RequeueForgotten(j) ==
  /\ Exec(j, "requeue")
  /\ Return(j)
  /\ Unlock(j)
  /\ UNCHANGED <<jobRow, slotVars, arq, cancelFlag, cloudVars, worker, boot, watchers,
                 botVars, counters>>

EnqueueDeferred(j) ==
  /\ Exec(j, "requeue")
  /\ Enqueue(j)
  /\ Return(j)
  /\ Unlock(j)
  /\ UNCHANGED <<jobRow, slotVars, cancelFlag, cloudVars, worker, boot, watchers, botVars, counters>>

FailJob(j) ==
  /\ Exec(j, "failed")
  /\ ~LeftToReconciler(j)
  /\ Transition(j, QueuedStatuses \cup ActiveStatuses, "failed")
  /\ Goto(j, "close")
  /\ UNCHANGED <<run, card, finalized, slotVars, redisVars, cloudVars, worker, boot,
                 execLocals, watchers, botVars, counters>>

CloseFailed(j) ==
  /\ Exec(j, "close")
  /\ MarkFinalized(j)
  /\ Return(j)
  /\ Unlock(j)
  /\ UNCHANGED <<status, run, card, slotVars, arq, cancelFlag, cloudVars, worker, boot,
                 watchers, botVars, counters>>

(* job_timeout: the execution is cancelled at whatever await it has reached; *)
(* CancelledError passes the except clause and only the lock is released.    *)
JobTimeout(j) ==
  /\ worker = "up"
  /\ pc[j] # "idle"
  /\ Fault("timeout")
  /\ Return(j)
  /\ IF pc[j] \in LockedPoints THEN Unlock(j) ELSE UNCHANGED lock
  /\ UNCHANGED <<jobRow, slotVars, arq, cancelFlag, cloudVars, worker, boot, watchers, botVars, effects, cancels>>
-----------------------------------------------------------------------------
(* observe_and_finalize.  Its run id is an argument equal to run[j].         *)

(* Every update checks the flag first, the one of the terminal event too     *)
ObserveCancel(j) ==
  /\ worker # "down" /\ obs[j] = "watch"
  /\ cancelFlag
  /\ Observe(j, "cancelled")
  /\ UNCHANGED <<jobRow, slotVars, redisVars, cloudVars, worker, boot, pc, execLocals,
                 rec, respawn, botVars, counters>>

ObserveTerminal(j) ==
  /\ worker # "down" /\ obs[j] = "watch"
  /\ ~cancelFlag
  /\ cloud[run[j]] \in CloudTerminal
  /\ Observe(j, "claim")
  /\ UNCHANGED <<jobRow, slotVars, redisVars, cloudVars, worker, boot, pc, execLocals,
                 rec, respawn, botVars, counters>>

(* The stream and the polling gave up while the run is still going           *)
ObservePause(j) ==
  /\ worker # "down" /\ obs[j] = "watch"
  /\ cloud[run[j]] = "running"
  /\ Fault("stream")
  /\ Observe(j, "none")
  /\ UNCHANGED <<jobRow, slotVars, redisVars, cloudVars, worker, boot, pc, execLocals,
                 rec, respawn, botVars, effects, cancels>>

(* An exception out of the stream ends the observer through its finally      *)
ObserveError(j) ==
  /\ worker # "down" /\ obs[j] = "watch"
  /\ Fault("stream")
  /\ Observe(j, "cleanup")
  /\ UNCHANGED <<jobRow, slotVars, redisVars, cloudVars, worker, boot, pc, execLocals,
                 rec, respawn, botVars, effects, cancels>>

ObserverCancelJob(j) ==
  /\ obs[j] = "cancelled"
  /\ Transition(j, ActiveStatuses, "cancelled")
  /\ Observe(j, "cancel_close")
  /\ UNCHANGED <<run, card, finalized, slotVars, redisVars, cloudVars, worker, boot, pc,
                 execLocals, rec, respawn, botVars, counters>>

ObserverCloseCancelled(j) ==
  /\ obs[j] = "cancel_close"
  /\ MarkFinalized(j)
  /\ Observe(j, "cleanup")
  /\ UNCHANGED <<status, run, card, slotVars, redisVars, cloudVars, worker, boot, pc,
                 execLocals, rec, respawn, botVars, counters>>

(* The finally clause clears the flag of the actor, whoever set it           *)
ObserverCleanup(j) ==
  /\ obs[j] = "cleanup"
  /\ cancelFlag' = FALSE
  /\ Observe(j, "none")
  /\ UNCHANGED <<jobRow, slotVars, arq, lock, cloudVars, worker, boot, pc, execLocals,
                 rec, respawn, botVars, counters>>

-----------------------------------------------------------------------------
(* RunFinalizer.finalize, called by the observer and by the reconciler       *)

(* Whoever claims the open row applies the terminal side effects             *)
FinalizeClaim(j) ==
  /\ \/ /\ obs[j] = "claim"
        /\ Observe(j, IF Claimed(j) THEN "effects" ELSE "cleanup")
        /\ UNCHANGED rec
     \/ /\ rec[j] = "claim"
        /\ Reconcile(j, IF Claimed(j) THEN "effects" ELSE "idle")
        /\ UNCHANGED obs
  /\ MarkFinalized(j)
  /\ UNCHANGED <<status, run, card, slotVars, redisVars, cloudVars, worker, boot, pc,
                 execLocals, respawn, botVars, counters>>

FinalizerAt(j, p, next) ==
  \/ obs[j] = p /\ Observe(j, next) /\ UNCHANGED rec
  \/ rec[j] = p /\ Reconcile(j, next) /\ UNCHANGED obs

(* set_result, memory index and artifacts *)
FinalizeEffects(j) ==
  /\ FinalizerAt(j, "effects", "settle")
  /\ effects' = [effects EXCEPT ![j] = @ + 1]
  /\ UNCHANGED <<jobRow, slotVars, redisVars, cloudVars, worker, boot, pc, execLocals,
                 respawn, botVars, faults, cancels>>

FinalizeSettle(j) ==
  /\ FinalizerAt(j, "settle", "unbind")
  /\ Transition(j, ActiveStatuses, FinalStatus(j))
  /\ UNCHANGED <<run, card, finalized, slotVars, redisVars, cloudVars, worker, boot, pc,
                 execLocals, respawn, botVars, counters>>

FinalizeUnbind(j) ==
  /\ \/ obs[j] = "unbind" /\ Observe(j, "cleanup") /\ UNCHANGED rec
     \/ rec[j] = "unbind" /\ Reconcile(j, "idle") /\ UNCHANGED obs
  /\ ReleaseSlot(j)
  /\ UNCHANGED <<jobRow, slotAgent, redisVars, cloudVars, worker, boot, pc, execLocals,
                 respawn, botVars, counters>>

(* _finalize_plan: the plan waits for approval and the message to an owner   *)
(* is refused, so the slot stays bound.  The exception ends the observer     *)
(* through its finally; the cron drops it, startup recovery attaches an      *)
(* observer.                                                                 *)
ApprovalNotSent(j) ==
  /\ "unbind" \in {obs[j], rec[j]}
  /\ FinalStatus(j) = "awaiting_approval"
  /\ Fault("telegram")
  /\ \/ obs[j] = "unbind" /\ Observe(j, "cleanup") /\ UNCHANGED rec
     \/ /\ rec[j] = "unbind" /\ Reconcile(j, "idle")
        /\ Observe(j, IF worker = "recovering" /\ obs[j] = "none" THEN "watch" ELSE obs[j])
  /\ UNCHANGED <<jobRow, slotVars, redisVars, cloudVars, worker, boot, pc, execLocals,
                 respawn, botVars, effects, cancels>>

-----------------------------------------------------------------------------
(* RunReconciler, at startup and every 30 seconds.  A listed row is a copy:  *)
(* what happens between the listing and the fetch is not seen.               *)
ReconcileList(j) ==
  /\ worker \in {"starting", "up"}
  /\ rec[j] = "idle"
  /\ status[j] \in ActiveStatuses \cup {"failed"}
  /\ Open(j)
  /\ Reconcile(j, IF status[j] = "failed" THEN "fetch_failed" ELSE "fetch")
  /\ UNCHANGED <<jobRow, slotVars, redisVars, cloudVars, worker, boot, pc, execLocals,
                 obs, respawn, botVars, counters>>

ReconcileFetch(j) ==
  /\ \/ /\ rec[j] \in {"fetch", "fetch_failed"}
        /\ cloud[run[j]] = "running"
        /\ Reconcile(j, "idle")
     \/ /\ rec[j] = "fetch"
        /\ cloud[run[j]] \in CloudTerminal
        /\ Reconcile(j, "claim")
     \/ /\ rec[j] = "fetch_failed"
        /\ cloud[run[j]] \in CloudTerminal
        /\ Reconcile(j, IF cloud[run[j]] = "error" THEN "close" ELSE "claim")
  /\ UNCHANGED <<jobRow, slotVars, redisVars, cloudVars, worker, boot, pc, execLocals,
                 obs, respawn, botVars, counters>>

ReconcileFetchError(j) ==
  /\ rec[j] \in {"fetch", "fetch_failed"}
  /\ Fault("cursor")
  /\ Reconcile(j, "idle")
  /\ UNCHANGED <<jobRow, slotVars, redisVars, cloudVars, worker, boot, pc, execLocals,
                 obs, respawn, botVars, effects, cancels>>

ReconcileCloseFailed(j) ==
  /\ rec[j] = "close"
  /\ MarkFinalized(j)
  /\ Reconcile(j, "idle")
  /\ UNCHANGED <<status, run, card, slotVars, redisVars, cloudVars, worker, boot, pc,
                 execLocals, obs, respawn, botVars, counters>>

(* job_timeout ends a reconcile_jobs whatever it was doing with the job      *)
ReconcileTimeout(j) ==
  /\ worker = "up"
  /\ rec[j] # "idle"
  /\ Fault("timeout")
  /\ Reconcile(j, "idle")
  /\ UNCHANGED <<jobRow, slotVars, redisVars, cloudVars, worker, boot, pc, execLocals,
                 obs, respawn, botVars, effects, cancels>>

(* reconcile_jobs gives an observer to each active job that has none.  The   *)
(* rows are copies of the listing, the observer registry is read for each.   *)
ListForRespawn ==
  /\ worker = "up"
  /\ respawn = {}
  /\ respawn' = {j \in ActiveJobs : Open(j) /\ card[j]}
  /\ UNCHANGED <<jobRow, slotVars, redisVars, cloudVars, worker, boot, pc, execLocals,
                 obs, rec, botVars, counters>>

RespawnObserver(j) ==
  /\ j \in respawn
  /\ respawn' = respawn \ {j}
  /\ Observe(j, IF obs[j] = "none" THEN "watch" ELSE obs[j])
  /\ UNCHANGED <<jobRow, slotVars, redisVars, cloudVars, worker, boot, pc, execLocals,
                 rec, botVars, counters>>

-----------------------------------------------------------------------------
(* Worker restart *)

(* The process ends: its tasks and locals are gone, a message being executed *)
(* is not run again.  An orderly shutdown cancels the observers, whose       *)
(* finally clause clears the cancel flag; a kill does not.                   *)
WorkerCrash ==
  /\ worker # "down"
  /\ Fault("crash")
  /\ worker' = "down" /\ boot' = {}
  /\ pc' = [j \in Jobs |-> "idle"]
  /\ seen' = [j \in Jobs |-> "absent"]
  /\ victim' = [j \in Jobs |-> NoJob]
  /\ base' = [j \in Jobs |-> NoRun]
  /\ mine' = [j \in Jobs |-> NoRun]
  /\ obs' = [j \in Jobs |-> "none"]
  /\ rec' = [j \in Jobs |-> "idle"] /\ respawn' = {}
  /\ \/ UNCHANGED cancelFlag
     \/ (\E j \in Jobs : obs[j] # "none") /\ cancelFlag' = FALSE
  /\ UNCHANGED <<jobRow, slotVars, arq, lock, cloudVars, botVars, effects, cancels>>

WorkerStart ==
  /\ worker = "down"
  /\ worker' = "starting"
  /\ UNCHANGED <<jobRow, slotVars, redisVars, cloudVars, boot, pc, execLocals, watchers,
                 botVars, counters>>

(* reconcile_stale is done: the active jobs are listed *)
ListActive ==
  /\ worker = "starting"
  /\ \A j \in Jobs : rec[j] = "idle"
  /\ worker' = "recovering"
  /\ boot' = ActiveJobs
  /\ UNCHANGED <<jobRow, slotVars, redisVars, cloudVars, pc, execLocals, watchers,
                 botVars, counters>>

(* A listed job without run ids goes back to the queue *)
RecoverQueued(j) ==
  /\ worker = "recovering" /\ j \in boot
  /\ run[j] = NoRun
  /\ boot' = boot \ {j}
  /\ Transition(j, ActiveStatuses, "queued")
  /\ Goto(j, IF status[j] \in ActiveStatuses THEN "boot_requeue" ELSE "idle")
  /\ UNCHANGED <<run, card, finalized, slotVars, redisVars, cloudVars, worker,
                 execLocals, watchers, botVars, counters>>

RecoverEnqueue(j) ==
  /\ worker = "recovering" /\ pc[j] = "boot_requeue"
  /\ Enqueue(j)
  /\ Goto(j, "idle")
  /\ UNCHANGED <<jobRow, slotVars, cancelFlag, lock, cloudVars, worker, boot, execLocals,
                 watchers, botVars, counters>>

(* A listed job with run ids is reconciled or observed again, unless its     *)
(* Telegram card was never recorded.  An unknown run status is "not ended".  *)
RecoverObserved(j) ==
  /\ worker = "recovering" /\ j \in boot
  /\ run[j] # NoRun
  /\ boot' = boot \ {j}
  /\ \/ ~card[j] /\ UNCHANGED <<obs, rec, faults>>
     \/ /\ card[j] /\ cloud[run[j]] \in CloudTerminal
        /\ Reconcile(j, "fetch")
        /\ UNCHANGED <<obs, faults>>
     \/ /\ card[j] /\ cloud[run[j]] = "running"
        /\ Observe(j, "watch")
        /\ UNCHANGED <<rec, faults>>
     \/ /\ card[j] /\ cloud[run[j]] \in CloudTerminal
        /\ Fault("cursor")
        /\ Observe(j, "watch")
        /\ UNCHANGED rec
  /\ UNCHANGED <<jobRow, slotVars, redisVars, cloudVars, worker, pc, execLocals, respawn,
                 botVars, effects, cancels>>

WorkerReady ==
  /\ worker = "recovering"
  /\ boot = {}
  /\ \A j \in Jobs : pc[j] = "idle" /\ rec[j] = "idle"
  /\ worker' = "up"
  /\ UNCHANGED <<jobRow, slotVars, redisVars, cloudVars, boot, pc, execLocals, watchers,
                 botVars, counters>>

-----------------------------------------------------------------------------
(* Bot: the /cancel handler and cancel_user_work *)

CancelBegin ==
  /\ cancelPc = "idle"
  /\ cancels < MaxCancels
  /\ slotRun # NoRun \/ BufferedInput
  /\ cancels' = cancels + 1
  /\ cancelPc' = "set_flag"
  /\ UNCHANGED <<jobRow, slotVars, redisVars, cloudVars, worker, boot, pc, execLocals,
                 watchers, dispatching, todo, target, effects, faults>>

RequestCancel ==
  /\ cancelPc = "set_flag"
  /\ cancelFlag' = TRUE
  /\ cancelPc' = "list"
  /\ UNCHANGED <<jobRow, slotVars, arq, lock, cloudVars, worker, boot, pc, execLocals,
                 watchers, dispatching, todo, target, counters>>

ListQueued ==
  /\ cancelPc = "list"
  /\ todo' = {<<j, status[j]>> : j \in {k \in Jobs : status[k] \in QueuedStatuses}}
  /\ cancelPc' = "queued"
  /\ UNCHANGED <<jobRow, slotVars, redisVars, cloudVars, worker, boot, pc, execLocals,
                 watchers, dispatching, target, counters>>

CancelQueued(j) ==
  /\ cancelPc = "queued"
  /\ \E s \in QueuedStatuses :
       /\ <<j, s>> \in todo
       /\ Transition(j, {s}, "cancelled")
       /\ todo' = todo \ {<<j, s>>}
  /\ UNCHANGED <<run, card, finalized, slotVars, redisVars, cloudVars, worker, boot, pc,
                 execLocals, watchers, dispatching, cancelPc, target, counters>>

(* The run bound to the slot; without one, the latest active job is asked    *)
ReadSlot ==
  /\ cancelPc = "queued" /\ todo = {}
  /\ target' = slotRun
  /\ cancelPc' = IF slotRun = NoRun THEN "latest" ELSE "stop"
  /\ UNCHANGED <<jobRow, slotVars, redisVars, cloudVars, worker, boot, pc, execLocals,
                 watchers, dispatching, todo, counters>>

(* The agent of the slot is preferred to the one of the job: Cursor finds no *)
(* run of the job under another agent.                                       *)
CancelLatestActive ==
  /\ cancelPc = "latest"
  /\ \/ ActiveJobs = {} /\ UNCHANGED <<status, target>>
     \/ \E a \in ActiveJobs :
          /\ Transition(a, ActiveStatuses, "cancelled")
          /\ target' = IF run[a] # NoRun /\ slotAgent \in {NoRun, agentOf[run[a]]}
                          THEN run[a] ELSE NoRun
  /\ cancelPc' = "stop"
  /\ UNCHANGED <<run, card, finalized, slotVars, redisVars, cloudVars, worker, boot, pc,
                 execLocals, watchers, dispatching, todo, counters>>

(* cursor.cancel_run, when both the agent and the run are known *)
StopRun ==
  /\ cancelPc = "stop"
  /\ \/ /\ cloud' = [r \in Runs |-> IF r = target /\ cloud[r] = "running"
                                     THEN "cancelled" ELSE cloud[r]]
        /\ UNCHANGED faults
     \/ Fault("cursor") /\ UNCHANGED cloud
  /\ cancelPc' = "unbind"
  /\ UNCHANGED <<jobRow, slotVars, redisVars, agentOf, worker, boot, pc, execLocals, watchers, dispatching, todo, target, effects, cancels>>

CancelUnbind ==
  /\ cancelPc = "unbind"
  /\ slotRun' = NoRun
  /\ target' = NoRun
  /\ cancelPc' = "idle"
  /\ UNCHANGED <<jobRow, slotAgent, redisVars, cloudVars, worker, boot, pc, execLocals,
                 watchers, dispatching, todo, counters>>

-----------------------------------------------------------------------------
(* Environment: Cursor Cloud and the TTLs of the Redis keys *)

RunEnds(r) ==
  /\ cloud[r] = "running"
  /\ \E s \in {"finished", "error"} : cloud' = [cloud EXCEPT ![r] = s]
  /\ UNCHANGED <<jobRow, slotVars, redisVars, agentOf, worker, boot, pc, execLocals, watchers, botVars, counters>>

(* The lock of a worker that died, or of a launch longer than 120 seconds    *)
LockExpires ==
  /\ lock # NoJob
  /\ \/ pc[lock] \notin LockedPoints /\ UNCHANGED faults
     \/ pc[lock] \in LockedPoints /\ Fault("lock_ttl")
  /\ lock' = NoJob
  /\ UNCHANGED <<jobRow, slotVars, arq, cancelFlag, cloudVars, worker, boot, pc,
                 execLocals, watchers, botVars, effects, cancels>>

FlagExpires ==
  /\ cancelFlag
  /\ Fault("flag_ttl")
  /\ cancelFlag' = FALSE
  /\ UNCHANGED <<jobRow, slotVars, arq, lock, cloudVars, worker, boot, pc, execLocals,
                 watchers, botVars, effects, cancels>>

-----------------------------------------------------------------------------
ExecuteStep(j) ==
  \/ Pickup(j) \/ CheckCancelFlag(j)
  \/ BusyGatePass(j) \/ BusyGateDefer(j) \/ CloseZombie(j)
  \/ AcquireLock(j) \/ LockTimeout(j) \/ StartJob(j)
  \/ ClearCancel(j) \/ CreateRun(j) \/ BindSlot(j) \/ BindJob(j) \/ SendCard(j)
  \/ LeaveToReconciler(j) \/ RequeueJob(j) \/ EnqueueDeferred(j)
  \/ FailJob(j) \/ CloseFailed(j)

ExecuteFault(j) ==
  \/ BusyGateZombie(j) \/ FailContext(j) \/ CursorError(j) \/ TelegramError(j)
  \/ JobTimeout(j)

ObserverStep(j) ==
  \/ ObserveCancel(j) \/ ObserveTerminal(j) \/ ObserverCancelJob(j)
  \/ ObserverCloseCancelled(j) \/ ObserverCleanup(j)

ObserverFault(j) == ObservePause(j) \/ ObserveError(j) \/ ApprovalNotSent(j)

FinalizerStep(j) ==
  FinalizeClaim(j) \/ FinalizeEffects(j) \/ FinalizeSettle(j) \/ FinalizeUnbind(j)

ReconcilerStep(j) ==
  \/ ReconcileList(j) \/ ReconcileFetch(j) \/ ReconcileCloseFailed(j)
  \/ RespawnObserver(j)

ReconcilerFault(j) == ReconcileFetchError(j) \/ ReconcileTimeout(j)

StartupStep ==
  \/ WorkerStart \/ ListActive \/ WorkerReady
  \/ \E j \in Jobs : RecoverQueued(j) \/ RecoverEnqueue(j) \/ RecoverObserved(j)

CancelStep ==
  \/ RequestCancel \/ ListQueued \/ (\E j \in Jobs : CancelQueued(j)) \/ ReadSlot
  \/ CancelLatestActive \/ StopRun \/ CancelUnbind

Next ==
  \/ \E j \in Jobs : \/ CreateJob(j) \/ EnqueueJob(j)
                     \/ ExecuteStep(j) \/ ExecuteFault(j)
                     \/ ObserverStep(j) \/ ObserverFault(j) \/ FinalizerStep(j)
                     \/ ReconcilerStep(j) \/ ReconcilerFault(j)
  \/ ListForRespawn \/ StartupStep \/ WorkerCrash \/ BotCrash
  \/ CancelBegin \/ CancelStep
  \/ \E r \in Runs : RunEnds(r)
  \/ LockExpires \/ FlagExpires

Spec == Init /\ [][Next]_vars
=============================================================================

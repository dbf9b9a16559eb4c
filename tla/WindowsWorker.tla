---------------------------- MODULE WindowsWorker ----------------------------
(***************************************************************************)
(* The Windows execution plane that the code keeps for jobs with            *)
(* runtime='windows': daemons on users' machines claim a job over HTTP, run  *)
(* it and report events; the web process records them, closes the job and    *)
(* writes the notification.  The ARQ worker meets the same rows: it recovers *)
(* jobs at startup, reconciles runs with Cursor Cloud and drains the outbox. *)
(* CursorAgentService replaces the runtime WINDOWS by CLOUD                  *)
(* (cursor_agent.py:168-170), so a daemon's run is a cloud run too.          *)
(***************************************************************************)
EXTENDS Outbox

CONSTANTS
  NumJobs,     (* jobs, numbered in the order of created_at                   *)
  Nodes,       (* machines with a daemon                                      *)
  Faults,      (* kinds of failure that may happen                            *)
  MaxFaults    (* how many of them happen in a behaviour                      *)

Jobs == 1..NumJobs
NoNode == "no_node"
NoJob == 0
Terminal == {"run.finished", "run.failed"}

ASSUME WindowsWorkerAssumption ==
  /\ NumJobs \in Nat /\ MaxFaults \in Nat
  /\ NoNode \notin Nodes
  /\ Notes = Jobs \X Terminal

VARIABLES
  job,        (* [Jobs -> status of the row]                                  *)
  node,       (* [Jobs -> worker_node_id]                                     *)
  bound,      (* jobs with cursor_agent_id and cursor_run_id                  *)
  closed,     (* jobs with finalized_at                                       *)
  ticket,     (* jobs with an execute_job message in ARQ                      *)
  run,        (* [Jobs -> state of its latest Cursor run]                     *)
  executions, (* [Jobs -> runs created for it]                                *)
  daemon,     (* [Nodes -> control point of run_daemon]                       *)
  at,         (* [Nodes -> job it executes]                                   *)
  request,    (* events the web process is handling                           *)
  faults,     (* the failures that happened, each at most once                *)
  launched    (* jobs the ARQ worker has executed                             *)

rows == <<job, node, bound, closed>>
cloud == <<run, executions>>
machines == <<daemon, at>>
arq == <<ticket, launched>>
vars == <<rows, arq, cloud, machines, request, faults, outbox>>

JobStatuses == {"queued", "running", "succeeded", "failed", "cancelled"}
Settled == {"succeeded", "failed", "cancelled"}
Events == {"run.started", "run.progress"} \cup Terminal
Steps == {"append", "index", "transition", "enqueue"}
Points == {"off", "register", "beat", "claim", "start", "launch", "progress",
           "watch", "finish", "except"}

TypeOK ==
  /\ OutboxTypeOK
  /\ job \in [Jobs -> JobStatuses]
  /\ node \in [Jobs -> Nodes \cup {NoNode}]
  /\ bound \in SUBSET Jobs /\ closed \in SUBSET Jobs /\ ticket \in SUBSET Jobs
  /\ launched \in SUBSET Jobs
  /\ run \in [Jobs -> {"none", "active", "finished", "error", "cancelled"}]
  /\ executions \in [Jobs -> Nat]
  /\ daemon \in [Nodes -> Points]
  /\ at \in [Nodes -> Jobs \cup {NoJob}]
  /\ request \in SUBSET [by : Nodes, job : Jobs, event : Events, ids : BOOLEAN,
                         step : Steps, awaited : BOOLEAN]
  /\ faults \in SUBSET Faults

Init ==
  /\ OutboxInit
  /\ job = [j \in Jobs |-> "queued"]
  /\ node = [j \in Jobs |-> NoNode]
  /\ bound = {} /\ closed = {} /\ ticket = {} /\ launched = {}
  /\ run = [j \in Jobs |-> "none"]
  /\ executions = [j \in Jobs |-> 0]
  /\ daemon = [n \in Nodes |-> "register"]
  /\ at = [n \in Nodes |-> NoJob]
  /\ request = {}
  /\ faults = {}

Fault(kind) ==
  /\ kind \in Faults \ faults
  /\ Cardinality(faults) < MaxFaults
  /\ faults' = faults \cup {kind}

MovedUnchecked(j, from, to) == [job EXCEPT ![j] = to]
(* JobRepository.transition *)
Moved(j, from, to) == [job EXCEPT ![j] = IF @ \in from THEN to ELSE @]

-----------------------------------------------------------------------------
(* The daemon: register or use the saved token, then heartbeat and claim     *)

Goto(n, point) == daemon' = [daemon EXCEPT ![n] = point] /\ UNCHANGED at
Leave(n) ==
  /\ daemon' = [daemon EXCEPT ![n] = "beat"]
  /\ at' = [at EXCEPT ![n] = NoJob]

Register(n) ==
  /\ daemon[n] = "register"
  /\ Goto(n, "beat")
  /\ UNCHANGED <<rows, arq, cloud, request, faults, outbox>>

(* a heartbeat is sent between jobs only; without an answer there is no claim *)
Heartbeat(n) ==
  /\ daemon[n] = "beat"
  /\ Goto(n, "claim")
  /\ UNCHANGED <<rows, arq, cloud, request, faults, outbox>>

Unclaimed(n) == {j \in Jobs : job[j] = "queued" /\ node[j] \in {NoNode, n}}
Reclaimable(n) == {j \in Jobs : job[j] \in {"queued", "running"} /\ node[j] \in {NoNode, n}}
(* the rows claim_for_worker selects *)
ClaimableJobs(n) == Unclaimed(n)

ClaimRow(n, j) ==
  /\ job' = [job EXCEPT ![j] = "running"]
  /\ node' = [node EXCEPT ![j] = n]
  /\ UNCHANGED <<bound, closed>>

(* worker_claim: the oldest row is taken in one transaction *)
Claim(n) ==
  /\ daemon[n] = "claim"
  /\ ClaimableJobs(n) # {}
  /\ \E j \in ClaimableJobs(n) :
       /\ \A i \in ClaimableJobs(n) : j <= i
       /\ ClaimRow(n, j)
       /\ \/ /\ daemon' = [daemon EXCEPT ![n] = "start"]
             /\ at' = [at EXCEPT ![n] = j]
             /\ UNCHANGED faults
          \/ \* the payload does not decrypt, memory fails, the answer is lost
             /\ Fault("claim_lost")
             /\ Goto(n, "beat")
  /\ UNCHANGED <<arq, cloud, request, outbox>>

ClaimNothing(n) ==
  /\ daemon[n] = "claim"
  /\ ClaimableJobs(n) = {}
  /\ Goto(n, "beat")
  /\ UNCHANGED <<rows, arq, cloud, request, faults, outbox>>

(* post_event; the daemon awaits the answer *)
Post(n, event, ids) ==
  request' = request \cup {[by |-> n, job |-> at[n], event |-> event, ids |-> ids,
                            step |-> "append", awaited |-> TRUE]}

Awaits(n) == \E r \in request : r.by = n /\ r.awaited

(* execute_claimed_job; a job without localPath fails at once *)
Start(n) ==
  /\ daemon[n] = "start" /\ ~Awaits(n)
  /\ \/ Post(n, "run.started", FALSE) /\ Goto(n, "launch")
     \/ Post(n, "run.failed", FALSE) /\ Goto(n, "finish")
  /\ UNCHANGED <<rows, arq, cloud, faults, outbox>>

Launched(j) ==
  /\ run' = [run EXCEPT ![j] = "active"]
  /\ executions' = [executions EXCEPT ![j] = @ + 1]

(* run_prompt: a run is created, or the images do not decode or the launch   *)
(* fails, and there is no run                                                *)
Launch(n) ==
  /\ daemon[n] = "launch" /\ ~Awaits(n)
  /\ \/ /\ Launched(at[n])
        /\ Goto(n, "progress")
        /\ UNCHANGED request
     \/ /\ Post(n, "run.failed", FALSE)
        /\ Goto(n, "finish")
        /\ UNCHANGED cloud
  /\ UNCHANGED <<rows, arq, faults, outbox>>

(* on_update; later progress events change nothing that is modelled *)
Progress(n) ==
  /\ daemon[n] = "progress" /\ ~Awaits(n)
  /\ Post(n, "run.progress", TRUE)
  /\ Goto(n, "watch")
  /\ UNCHANGED <<rows, arq, cloud, faults, outbox>>

Reported(j) == IF run[j] = "error" THEN "run.failed" ELSE "run.finished"
(* the outcome of the run is reported *)
Watch(n) ==
  /\ daemon[n] = "watch" /\ ~Awaits(n)
  /\ run[at[n]] # "active"
  /\ Post(n, Reported(at[n]), TRUE)
  /\ Goto(n, "finish")
  /\ UNCHANGED <<rows, arq, cloud, faults, outbox>>

Finish(n) ==
  /\ daemon[n] = "finish" /\ ~Awaits(n)
  /\ Leave(n)
  /\ UNCHANGED <<rows, arq, cloud, request, faults, outbox>>

(* run_daemon reports the exception of execute_claimed_job *)
Except(n) ==
  /\ daemon[n] = "except" /\ ~Awaits(n)
  /\ Post(n, "run.failed", FALSE)
  /\ Goto(n, "finish")
  /\ UNCHANGED <<rows, arq, cloud, faults, outbox>>

(* a post that got no answer raises; the report of an exception is only logged *)
Raise(n) ==
  IF daemon[n] = "finish" /\ \E r \in request : r.by = n /\ r.awaited
                                              /\ r.event = "run.failed" /\ ~r.ids
  THEN Leave(n)
  ELSE Goto(n, "except")

(* the request never arrives *)
PostLost(n) ==
  /\ Fault("post_lost")
  /\ \E r \in request : r.by = n /\ r.awaited /\ r.step = "append"
                        /\ request' = request \ {r}
  /\ Raise(n)
  /\ UNCHANGED <<rows, arq, cloud, outbox>>

(* no answer within 60 s: the handler goes on *)
PostTimesOut(n) ==
  /\ Fault("timeout")
  /\ \E r \in request : /\ r.by = n /\ r.awaited
                        /\ request' = (request \ {r}) \cup {[r EXCEPT !.awaited = FALSE]}
  /\ Raise(n)
  /\ UNCHANGED <<rows, arq, cloud, outbox>>

(* the container is restarted: what it executed is forgotten *)
DaemonCrash(n) ==
  /\ Fault("daemon_crash")
  /\ daemon[n] # "register"
  /\ Leave(n)
  /\ request' = {IF r.by = n THEN [r EXCEPT !.awaited = FALSE] ELSE r : r \in request}
  /\ UNCHANGED <<rows, arq, cloud, outbox>>

-----------------------------------------------------------------------------
(* worker_run_events, one step per statement that commits                    *)

StepTo(r, step) == request' = (request \ {r}) \cup {[r EXCEPT !.step = step]}
Answer(r) == request' = request \ {r}
IsFailure(r) == r.event = "run.failed"

(* run_events.append, idempotent by its key, and jobs.set_runtime; the event *)
(* of another node's job is refused                                          *)
Append(r) ==
  /\ r.step = "append"
  /\ IF node[r.job] \notin {NoNode, r.by} THEN Answer(r) /\ UNCHANGED bound
     ELSE /\ bound' = IF r.ids THEN bound \cup {r.job} ELSE bound
          /\ IF r.event \notin Terminal THEN Answer(r)
             ELSE StepTo(r, IF IsFailure(r) THEN "transition" ELSE "index")
  /\ UNCHANGED <<job, node, closed, arq, cloud, machines, faults, outbox>>

(* memory.index_run and set_result: nothing asks whether the job still runs *)
Index(r) ==
  /\ r.step = "index"
  /\ StepTo(r, "transition")
  /\ UNCHANGED <<rows, arq, cloud, machines, faults, outbox>>

Transition(r) ==
  /\ r.step = "transition"
  /\ job' = Moved(r.job, {"running"}, IF IsFailure(r) THEN "failed" ELSE "succeeded")
  /\ StepTo(r, "enqueue")
  /\ UNCHANGED <<node, bound, closed, arq, cloud, machines, faults, outbox>>

(* the notification is written whatever the transition returned *)
Notify(r) ==
  /\ r.step = "enqueue"
  /\ Enqueue(<<r.job, r.event>>)
  /\ Answer(r)
  /\ UNCHANGED <<rows, arq, cloud, machines, faults>>

(* the web process dies with what it was handling *)
WebCrash ==
  /\ Fault("web_crash")
  /\ request # {}
  /\ request' = {}
  /\ daemon' = [n \in Nodes |->
       IF ~Awaits(n) THEN daemon[n]
       ELSE IF daemon[n] = "finish" /\ \E r \in request : r.by = n /\ r.awaited /\ ~r.ids
                                                          /\ IsFailure(r)
            THEN "beat" ELSE "except"]
  /\ at' = [n \in Nodes |-> IF daemon'[n] = "beat" THEN NoJob ELSE at[n]]
  /\ UNCHANGED <<rows, arq, cloud, outbox>>

-----------------------------------------------------------------------------
(* Cursor Cloud, the user, the ARQ worker                                    *)

(* external: the run ends *)
RunEnds(j) ==
  /\ run[j] = "active"
  /\ \E outcome \in {"finished", "error"} : run' = [run EXCEPT ![j] = outcome]
  /\ UNCHANGED <<rows, arq, executions, machines, request, faults, outbox>>

(* cancel_user_work: queued jobs, then the active one with its cloud run *)
UserCancels(j) ==
  /\ Fault("cancel")
  /\ job[j] \in {"queued", "running"}
  /\ job' = Moved(j, {job[j]}, "cancelled")
  /\ run' = IF j \in bound /\ run[j] = "active" THEN [run EXCEPT ![j] = "cancelled"]
            ELSE run
  /\ UNCHANGED <<node, bound, closed, arq, executions, machines, request, outbox>>

ReconciledStatus(gone, j) ==
  IF gone \/ run[j] = "error" THEN "failed"
  ELSE IF run[j] = "cancelled" THEN "cancelled" ELSE "succeeded"

ReconcilableHere(j) == j \in bound \ closed /\ node[j] = NoNode
(* the rows of reconcile_stale: claimed by a daemon or not *)
Reconcilable(j) == j \in bound \ closed /\ job[j] \in {"running", "failed"}

(* RunReconciler.reconcile_job and RunFinalizer.finalize (module DurableJobs *)
(* has their steps); the server's key may not see the run of a daemon's key  *)
Reconcile(j) ==
  /\ Reconcilable(j)
  /\ \E gone \in BOOLEAN :
       /\ IF gone THEN Fault("other_key")
          ELSE run[j] \in {"finished", "error", "cancelled"} /\ UNCHANGED faults
       /\ job' = Moved(j, {"running"}, ReconciledStatus(gone, j))
  /\ closed' = closed \cup {j}
  /\ UNCHANGED <<node, bound, arq, cloud, machines, request, outbox>>

Orphans == {j \in Jobs : job[j] = "running" /\ j \notin bound}

(* the ARQ worker restarts: startup queues every active job without a run    *)
(* and sends it to ARQ, whatever its runtime (worker.py:55-62)               *)
WorkerRestart ==
  /\ Fault("worker_restart")
  /\ job' = [j \in Jobs |-> IF j \in Orphans THEN "queued" ELSE job[j]]
  /\ ticket' = ticket \cup Orphans
  /\ DrainsDie
  /\ UNCHANGED <<node, bound, closed, launched, cloud, machines, request>>

(* execute_job, whose steps are those of module DurableJobs *)
Execute(j) ==
  /\ j \in ticket
  /\ ticket' = ticket \ {j}
  /\ IF job[j] = "queued"
     THEN /\ job' = [job EXCEPT ![j] = "running"]
          /\ launched' = launched \cup {j}
          /\ bound' = bound \cup {j}
          /\ Launched(j)
     ELSE UNCHANGED <<job, launched, bound, cloud>>
  /\ UNCHANGED <<node, closed, machines, request, faults, outbox>>

DrainStep(d) ==
  \/ ClaimPending(d)
  \/ Deliver(d)
  \/ MarkSent(d)
  \/ MarkFailed(d)

OutboxStep ==
  /\ \E d \in Drains : DrainStep(d)
  /\ UNCHANGED <<rows, arq, cloud, machines, request, faults>>

OutboxClock ==
  /\ \E n \in Notes : BecomesDue(n)
  /\ UNCHANGED <<rows, arq, cloud, machines, request, faults>>

OutboxFault ==
  /\ Fault("database")
  /\ \E d \in Drains : MarkSentFails(d)
  /\ UNCHANGED <<rows, arq, cloud, machines, request>>

DaemonStep(n) ==
  \/ Register(n)
  \/ Heartbeat(n)
  \/ Claim(n)
  \/ ClaimNothing(n)
  \/ Start(n)
  \/ Launch(n)
  \/ Progress(n)
  \/ Watch(n)
  \/ Finish(n)
  \/ Except(n)

DaemonFault(n) ==
  \/ PostLost(n)
  \/ PostTimesOut(n)
  \/ DaemonCrash(n)

Handle(r) ==
  \/ Append(r)
  \/ Index(r)
  \/ Transition(r)
  \/ Notify(r)

Daemons == \E n \in Nodes : DaemonStep(n)
Handlers == \E r \in request : Handle(r)
Server == \E j \in Jobs : Reconcile(j) \/ Execute(j)

Next ==
  \/ Daemons
  \/ \E n \in Nodes : DaemonFault(n)
  \/ Handlers
  \/ WebCrash
  \/ \E j \in Jobs : RunEnds(j)
  \/ \E j \in Jobs : UserCancels(j)
  \/ Server
  \/ WorkerRestart
  \/ OutboxStep
  \/ OutboxClock
  \/ OutboxFault

Spec == Init /\ [][Next]_vars

(* Daemons keep polling; whoever else can act keeps acting, and runs end.    *)
(* Nothing is owed to a single row: what is not a daemon's loop comes to rest *)
Rest == Handlers \/ Server \/ OutboxStep \/ OutboxClock \/ \E j \in Jobs : RunEnds(j)

Fairness ==
  /\ \A n \in Nodes : WF_vars(DaemonStep(n))
  /\ WF_vars(Rest)

FairSpec == Spec /\ Fairness

-----------------------------------------------------------------------------
(* A claimed job is never handed out again by a daemon's claim; a second run *)
(* exists only after a restart of the ARQ worker (jobs.py:346-390,            *)
(* worker.py:55-62).                                                          *)
OneRunPerClaim ==
  \A j \in Jobs : executions[j] > 1 => "worker_restart" \in faults

(* A late or repeated report, a cancellation and the reconciler never reopen *)
(* or change a job that has ended (web/app.py:1361-1367).                     *)
EndedStaysEnded ==
  [][\A j \in Jobs : job[j] \in Settled => job'[j] = job[j]]_vars

(* nobody will report on the job: its daemon lost it before its run was known *)
Forgotten(j) ==
  /\ job[j] = "running" /\ j \notin bound
  /\ \A n \in Nodes : at[n] # j
  /\ \A r \in request : r.job # j

(* A running job ends, or is queued again, unless its daemon lost it before  *)
(* the first progress report: from then on the reconciler closes it even if   *)
(* every report is lost.                                                      *)
RunningJobsEnd ==
  \A j \in Jobs : job[j] = "running" ~> (job[j] # "running" \/ Forgotten(j))

(* docs/OPERATIONS.md:56: jobs with runtime=windows do not go to ARQ, the     *)
(* Windows daemon claims them.                                                *)
WindowsJobsStayOffArq == ticket = {}
=============================================================================

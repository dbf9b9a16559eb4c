----------------------- MODULE WindowsWorkerTheorems ------------------------
(***************************************************************************)
(* Proofs of the safety properties of the Windows plane and of the outbox,   *)
(* for any number of jobs, nodes, notifications, overlapping drains and      *)
(* faults.                                                                   *)
(***************************************************************************)
EXTENDS WindowsWorker, TLAPS

-----------------------------------------------------------------------------
(* Outbox *)

(* A row that is not doubtful is in the hands of one drain at most, which    *)
(* found it pending; a message that is out is recorded, or its drain is      *)
(* about to record it.                                                       *)
RowInv(n) ==
  /\ sends[n] <= 1
  /\ \A d \in Drains : n \in Held(d) => row[n] = "pending"
  /\ \A d, e \in Drains : n \in Held(d) /\ n \in Held(e) => d = e
  /\ sends[n] = 1 => \/ row[n] = "sent"
                     \/ \E d \in Drains : drain[d].at = "sent" /\ drain[d].note = n

OutboxTypes ==
  /\ row \in [Notes -> {"none", "pending", "sent", "failed"}]
  /\ sends \in [Notes -> 0..2]
  /\ drain \in [Drains -> [at : {"idle", "deliver", "sent", "failed"},
                           left : SUBSET Notes, note : Notes \cup {NoNote}]]
  /\ \A d \in Drains :
       /\ drain[d].at \in {"sent", "failed"} <=> drain[d].note \in Notes
       /\ drain[d].note \notin drain[d].left

OutboxInductive == OutboxTypes /\ \A n \in Notes \ doubtful : RowInv(n)

USE OutboxAssumption
USE DEF OutboxTypes, RowInv, Held, Resting

LEMMA OutboxInitially == OutboxInit => OutboxInductive
BY DEF OutboxInit, OutboxInductive

LEMMA EnqueueKeeps ==
  ASSUME OutboxInductive, NEW n, Enqueue(n)
  PROVE  OutboxInductive'
<1>1. UNCHANGED <<sends, doubtful, drain>>
  BY DEF Enqueue
<1>2. /\ row' \in [Notes -> {"none", "pending", "sent", "failed"}]
      /\ \A m \in Notes : row[m] # "none" => row'[m] = row[m]
  <2>1. row' = row \/ (row[n] = "none" /\ row' = [row EXCEPT ![n] = "pending"])
    BY DEF Enqueue
  <2>2. row \in [Notes -> {"none", "pending", "sent", "failed"}]
    BY DEF OutboxInductive
  <2>3. QED BY <2>1, <2>2
<1>3. OutboxTypes'
  BY <1>1, <1>2 DEF OutboxInductive
<1>4. ASSUME NEW m \in Notes \ doubtful' PROVE RowInv(m)'
  BY <1>1, <1>2, <1>4 DEF OutboxInductive
<1>5. QED BY <1>3, <1>4 DEF OutboxInductive

LEMMA ClaimPendingKeeps ==
  ASSUME OutboxInductive, NEW d \in Drains, ClaimPending(d)
  PROVE  OutboxInductive'
<1> USE DEF OutboxInductive
<1>1. /\ drain[d] = Resting /\ UNCHANGED <<row, sends>>
      /\ drain' = [drain EXCEPT ![d] = [at |-> "deliver", left |-> Claimable, note |-> NoNote]]
      /\ doubtful' = doubtful \cup (Claimable \cap UNION {Held(e) : e \in Drains})
  BY DEF ClaimPending
<1>2. Claimable \subseteq Notes /\ \A n \in Claimable : row[n] = "pending"
  BY DEF Claimable
<1>3. OutboxTypes'
  BY <1>1, <1>2
<1>4. ASSUME NEW n \in Notes \ doubtful' PROVE RowInv(n)'
  <2>1. n \notin doubtful /\ (n \in Claimable => \A e \in Drains : n \notin Held(e))
    BY <1>1, <1>4
  <2>2. Held(d)' = Claimable \cup {NoNote} /\ \A e \in Drains \ {d} : Held(e)' = Held(e)
    BY <1>1
  <2>3. RowInv(n) BY <2>1
  <2>4. \A e \in Drains : drain[e].at = "sent" => e # d /\ drain'[e] = drain[e]
    BY <1>1
  <2> HIDE DEF Held
  <2>5. QED BY <1>1, <1>2, <2>1, <2>2, <2>3, <2>4 DEF OutboxTypes
<1>5. QED BY <1>3, <1>4

LEMMA DeliverKeeps ==
  ASSUME OutboxInductive, NEW d \in Drains, Deliver(d)
  PROVE  OutboxInductive'
<1> USE DEF OutboxInductive
<1>1. PICK n \in drain[d].left :
        \/ sends' = SentNow(n) /\ Record(d, n, "sent") /\ UNCHANGED doubtful
        \/ UNCHANGED <<sends, doubtful>> /\ Record(d, n, "failed")
        \/ /\ sends' = SentNow(n)
           /\ doubtful' = doubtful \cup {n}
           /\ Record(d, n, "failed")
  BY DEF Deliver
<1>2. n \in Notes /\ drain[d].at = "deliver" /\ UNCHANGED row
  BY DEF Deliver
<1>3. OutboxTypes'
  BY <1>1, <1>2, SMTT(30) DEF SentNow, Record
<1>4. ASSUME NEW m \in Notes \ doubtful' PROVE RowInv(m)'
  <2>1. m \notin doubtful BY <1>1, <1>4
  <2>2. \A e \in Drains : m \in Held(e)' <=> m \in Held(e)
    BY <1>1, <1>2 DEF Record
  <2>3. CASE m = n
    <3>1. sends[n] = 0 BY <1>2, <2>1, <2>3
    <3>2. \/ sends'[n] = 0 
          \/ sends'[n] = 1 /\ drain'[d].at = "sent" /\ drain'[d].note = n
      BY <1>1, <1>2, <1>4, <2>3, <3>1 DEF SentNow, Record
    <3>3. QED BY <1>2, <2>1, <2>2, <2>3, <3>2
  <2>4. CASE m # n
    <3>1. sends'[m] = sends[m] BY <1>1, <1>2, <2>4 DEF SentNow
    <3>2. \A e \in Drains : drain[e].at = "sent" => drain'[e] = drain[e]
      BY <1>1, <1>2 DEF Record
    <3>3. QED BY <1>2, <2>1, <2>2, <3>1, <3>2
  <2>5. QED BY <2>3, <2>4
<1>5. QED BY <1>3, <1>4

(* a drain lets go of the row it has recorded                                *)
LEMMA MarkKeeps ==
  ASSUME OutboxInductive, NEW d \in Drains, MarkSent(d) \/ MarkFailed(d)
  PROVE  OutboxInductive'
<1> USE DEF OutboxInductive
<1> DEFINE n == drain[d].note
<1>1. PICK s \in {"pending", "sent", "failed"} :
        /\ row' = [row EXCEPT ![n] = s]
        /\ drain[d].at = "sent" => s = "sent"
  BY DEF MarkSent, MarkFailed, AfterFailure
<1>2. n \in Notes /\ drain[d].at \in {"sent", "failed"} /\ UNCHANGED <<sends, doubtful>>
  BY DEF MarkSent, MarkFailed
<1>3. /\ drain'[d].left = drain[d].left /\ drain'[d].note = NoNote
      /\ drain'[d].at \in {"idle", "deliver"}
      /\ \A e \in Drains \ {d} : drain'[e] = drain[e]
  <2>1. \/ drain' = [drain EXCEPT ![d] = Resting] /\ drain[d].left = {}
        \/ drain' = [drain EXCEPT ![d] = [at |-> "deliver", left |-> drain[d].left,
                                         note |-> NoNote]]
    BY DEF MarkSent, MarkFailed, Continue
  <2>2. PICK next \in {Resting, [at |-> "deliver", left |-> drain[d].left, note |-> NoNote]} :
          drain' = [drain EXCEPT ![d] = next] /\ next.left = drain[d].left
    BY <2>1
  <2>3. next.note = NoNote /\ next.at \in {"idle", "deliver"}
    OBVIOUS
  <2>4. drain'[d] = next /\ \A e \in Drains \ {d} : drain'[e] = drain[e]
    BY <2>2
  <2>5. QED BY <2>2, <2>3, <2>4
<1>4. OutboxTypes'
  BY <1>1, <1>2, SMTT(30) DEF Continue, MarkSent, MarkFailed
<1>5. ASSUME NEW m \in Notes \ doubtful' PROVE RowInv(m)'
  <2>1. RowInv(m) BY <1>2, <1>5
  <2>2. \A e \in Drains : m \in Held(e)' => m \in Held(e) /\ (m = n => e # d)
    BY <1>2, <1>3
  <2>3. CASE m = n
    <3>1. \A e \in Drains : m \notin Held(e)' BY <2>1, <2>2, <2>3
    <3>2. sends[m] = 1 => drain[d].at = "sent" BY <1>2, <2>1, <2>3
    <3>3. QED BY <1>1, <1>2, <2>1, <2>3, <3>1, <3>2
  <2>4. CASE m # n
    BY <1>1, <1>2, <1>3, <2>1, <2>2, <2>4
  <2>5. QED BY <2>3, <2>4
<1>6. QED BY <1>4, <1>5

LEMMA MarkSentFailsKeeps ==
  ASSUME OutboxInductive, NEW d \in Drains, MarkSentFails(d)
  PROVE  OutboxInductive'
BY SMTT(30) DEF MarkSentFails, OutboxInductive

LEMMA DrainsDieKeeps ==
  ASSUME OutboxInductive, DrainsDie
  PROVE  OutboxInductive'
BY SMTT(30) DEF DrainsDie, OutboxInductive

LEMMA OutboxRests ==
  ASSUME OutboxInductive, UNCHANGED <<row, sends, doubtful, drain>>
  PROVE  OutboxInductive'
BY DEF OutboxInductive

HIDE DEF OutboxTypes, RowInv, Held, Resting

-----------------------------------------------------------------------------
(* Jobs *)

Restarted == "worker_restart" \in faults

(* Without a restart of the ARQ worker a queued job has no run and no        *)
(* daemon, a job has one daemon at most, and its daemon has no run before it *)
(* launches one.                                                             *)
JobsInductive ==
  /\ job = [j \in Jobs |-> job[j]]
  /\ daemon = [n \in Nodes |-> daemon[n]]
  /\ at = [n \in Nodes |-> at[n]]
  /\ executions \in [Jobs -> Nat]
  /\ ~Restarted =>
       /\ ticket = {}
       /\ \A j \in Jobs :
            /\ executions[j] <= 1
            /\ job[j] = "queued" => executions[j] = 0
       /\ \A n \in Nodes :
            /\ at[n] \in Jobs => job[at[n]] # "queued"
            /\ at[n] \in Jobs /\ daemon[n] \in {"start", "launch"} => executions[at[n]] = 0
            /\ \A m \in Nodes : at[n] \in Jobs /\ at[m] = at[n] => m = n
  /\ \A n \in Nodes : daemon[n] \in {"start", "launch"} => at[n] \in Jobs

USE WindowsWorkerAssumption
USE DEF JobsInductive, Restarted, Goto, Leave, Fault, rows, cloud, machines, arq

LEMMA ZeroIsNoJob == NoJob \notin Jobs
BY DEF NoJob, Jobs

LEMMA JobsInitially == Init => JobsInductive
BY ZeroIsNoJob DEF Init

(* steps that neither queue, claim nor launch a job; a job leaves the queue  *)
(* for good                                                                  *)
LEMMA JobsRest ==
  ASSUME JobsInductive,
         faults' = faults \/ \E kind \in Faults : faults' = faults \cup {kind},
         UNCHANGED <<ticket, executions>>,
         job' = [j \in Jobs |-> job'[j]],
         \A j \in Jobs : job'[j] = "queued" => job[j] = "queued",
         daemon' = [n \in Nodes |-> daemon'[n]],
         at' = [n \in Nodes |-> at'[n]],
         \A n \in Nodes : at'[n] = at[n] \/ at'[n] = NoJob,
         \A n \in Nodes : daemon'[n] \in {"start", "launch"} =>
                            daemon[n] \in {"start", "launch"} /\ at'[n] = at[n]
  PROVE  JobsInductive'
<1>1. Restarted => Restarted' OBVIOUS
<1>2. QED BY <1>1, ZeroIsNoJob, SMTT(30)

LEMMA ClaimKeeps ==
  ASSUME JobsInductive, NEW n \in Nodes, Claim(n)
  PROVE  JobsInductive'
<1>1. PICK j \in ClaimableJobs(n) :
        /\ ClaimRow(n, j)
        /\ \/ /\ daemon' = [daemon EXCEPT ![n] = "start"]
              /\ at' = [at EXCEPT ![n] = j]
              /\ UNCHANGED faults
           \/ Fault("claim_lost") /\ Goto(n, "beat")
  BY DEF Claim
<1>2. /\ j \in Jobs /\ job[j] = "queued" /\ UNCHANGED <<ticket, executions>>
      /\ job' = [job EXCEPT ![j] = "running"]
  BY <1>1 DEF Claim, ClaimableJobs, Unclaimed, ClaimRow
<1>3. CASE daemon' = [daemon EXCEPT ![n] = "start"] /\ at' = [at EXCEPT ![n] = j]
           /\ UNCHANGED faults
  <2>1. /\ daemon' = [m \in Nodes |-> IF m = n THEN "start" ELSE daemon[m]]
        /\ at' = [m \in Nodes |-> IF m = n THEN j ELSE at[m]]
        /\ job' = [i \in Jobs |-> IF i = j THEN "running" ELSE job[i]]
    BY <1>2, <1>3
  <2>2. ~Restarted => executions[j] = 0 /\ \A m \in Nodes : at[m] # j
    BY <1>2
  <2>3. UNCHANGED <<ticket, executions, faults>>
    BY <1>2, <1>3
  <2>4. QED BY <1>2, <2>1, <2>2, <2>3, SMTT(30)
<1>4. CASE Fault("claim_lost") /\ Goto(n, "beat")
  BY <1>2, <1>4, JobsRest
<1>5. QED BY <1>1, <1>3, <1>4

LEMMA StartKeeps ==
  ASSUME JobsInductive, NEW n \in Nodes, Start(n)
  PROVE  JobsInductive'
<1>1. Goto(n, "launch") \/ Goto(n, "finish")
  BY DEF Start
<1>2. QED BY <1>1, JobsRest DEF Start

LEMMA LaunchKeeps ==
  ASSUME JobsInductive, NEW n \in Nodes, Launch(n)
  PROVE  JobsInductive'
<1>1. CASE Launched(at[n]) /\ Goto(n, "progress")
  <2>1. at[n] \in Jobs /\ daemon[n] = "launch" /\ UNCHANGED <<ticket, faults, job, at>>
    BY <1>1 DEF Launch
  <2>2. /\ executions' = [j \in Jobs |-> IF j = at[n] THEN executions[j] + 1 ELSE executions[j]]
        /\ daemon' = [m \in Nodes |-> IF m = n THEN "progress" ELSE daemon[m]]
    BY <1>1, <2>1 DEF Launched
  <2>3. ~Restarted => executions[at[n]] = 0 /\ job[at[n]] # "queued"
    BY <2>1
  <2>4. QED BY <2>1, <2>2, <2>3, SMTT(30)
<1>2. CASE Goto(n, "finish") /\ UNCHANGED cloud
  BY <1>2, JobsRest DEF Launch
<1>3. QED BY <1>1, <1>2 DEF Launch

LEMMA OtherDaemonStepsKeep ==
  ASSUME JobsInductive, NEW n \in Nodes,
         \/ Register(n) \/ Heartbeat(n) \/ ClaimNothing(n) \/ Progress(n) \/ Watch(n)
         \/ Finish(n) \/ Except(n) \/ DaemonFault(n)
  PROVE  JobsInductive'
<1>1. UNCHANGED <<ticket, executions, job>>
  BY DEF Register, Heartbeat, ClaimNothing, Progress, Watch, Finish, Except, DaemonFault,
     PostLost, PostTimesOut, DaemonCrash
<1>2. faults' = faults \/ \E kind \in Faults : faults' = faults \cup {kind}
  BY DEF Register, Heartbeat, ClaimNothing, Progress, Watch, Finish, Except, DaemonFault,
     PostLost, PostTimesOut, DaemonCrash
<1>3. \/ Goto(n, "beat") \/ Goto(n, "claim") \/ Goto(n, "watch") \/ Goto(n, "finish")
      \/ Goto(n, "except") \/ Leave(n)
  BY DEF Register, Heartbeat, ClaimNothing, Progress, Watch, Finish, Except, DaemonFault,
     PostLost, PostTimesOut, DaemonCrash, Raise
<1>4. QED BY <1>1, <1>2, <1>3, JobsRest

LEMMA WebCrashKeeps ==
  ASSUME JobsInductive, WebCrash
  PROVE  JobsInductive'
<1>1. /\ daemon' = [n \in Nodes |-> daemon'[n]] /\ at' = [n \in Nodes |-> at'[n]]
      /\ \A n \in Nodes : daemon'[n] \in {daemon[n], "beat", "except"}
      /\ \A n \in Nodes : at'[n] = IF daemon'[n] = "beat" THEN NoJob ELSE at[n]
  BY DEF WebCrash
<1>2. QED BY <1>1, JobsRest DEF WebCrash

LEMMA HandlersKeep ==
  ASSUME JobsInductive, NEW r \in request, Handle(r)
  PROVE  JobsInductive'
<1>1. UNCHANGED <<ticket, executions, faults, daemon, at>>
  BY DEF Handle, Append, Index, Transition, Notify
<1>2. \/ UNCHANGED job
      \/ \E s \in {"failed", "succeeded"} : job' = Moved(r.job, {"running"}, s)
  BY DEF Handle, Append, Index, Transition, Notify
<1>3. job' = [j \in Jobs |-> job'[j]] /\ \A j \in Jobs : job'[j] = "queued" => job[j] = "queued"
  BY <1>2 DEF Moved
<1>4. QED BY <1>1, <1>3, JobsRest

LEMMA CancelOrReconcileKeeps ==
  ASSUME JobsInductive, NEW j \in Jobs, UserCancels(j) \/ Reconcile(j)
  PROVE  JobsInductive'
<1>1. UNCHANGED <<ticket, executions, daemon, at>>
  BY DEF UserCancels, Reconcile
<1>2. faults' = faults \/ \E kind \in Faults : faults' = faults \cup {kind}
  BY DEF UserCancels, Reconcile
<1>3. \E from \in {{"running"}, {job[j]}}, s \in {"failed", "succeeded", "cancelled"} :
        job' = Moved(j, from, s)
  BY DEF UserCancels, Reconcile, ReconciledStatus
<1>4. job' = [i \in Jobs |-> job'[i]] /\ \A i \in Jobs : job'[i] = "queued" => job[i] = "queued"
  BY <1>3 DEF Moved
<1>5. QED BY <1>1, <1>2, <1>4, JobsRest

(* from here on nothing is claimed of a job that is launched twice           *)
LEMMA RestartKeeps ==
  ASSUME JobsInductive, WorkerRestart
  PROVE  JobsInductive'
BY DEF WorkerRestart

LEMMA ExecuteKeeps ==
  ASSUME JobsInductive, NEW j \in Jobs, Execute(j)
  PROVE  JobsInductive'
<1>1. Restarted /\ Restarted' BY DEF Execute
<1>2. job' = [i \in Jobs |-> job'[i]] /\ executions' \in [Jobs -> Nat]
      /\ UNCHANGED <<daemon, at>>
  BY DEF Execute, Launched
<1>3. QED BY <1>1, <1>2

LEMMA NextKeepsJobs ==
  ASSUME JobsInductive, [Next]_vars
  PROVE  JobsInductive'
<1> USE DEF Next, Daemons, Handlers, Server
<1>1. CASE \E n \in Nodes : DaemonStep(n) \/ DaemonFault(n)
  BY <1>1, ClaimKeeps, StartKeeps, LaunchKeeps, OtherDaemonStepsKeep DEF DaemonStep
<1>2. CASE Handlers \/ WebCrash
  BY <1>2, HandlersKeep, WebCrashKeeps
<1>3. CASE \E j \in Jobs : UserCancels(j) \/ Reconcile(j) \/ Execute(j)
  BY <1>3, CancelOrReconcileKeeps, ExecuteKeeps
<1>4. CASE WorkerRestart
  BY <1>4, RestartKeeps
<1>5. CASE (\E j \in Jobs : RunEnds(j)) \/ OutboxStep \/ OutboxClock \/ OutboxFault \/ UNCHANGED vars
  <2>1. UNCHANGED <<ticket, executions, job, daemon, at>>
    BY <1>5 DEF RunEnds, OutboxStep, OutboxClock, OutboxFault, vars
  <2>2. faults' = faults \/ \E kind \in Faults : faults' = faults \cup {kind}
    BY <1>5 DEF RunEnds, OutboxStep, OutboxClock, OutboxFault, vars
  <2>3. QED BY <2>1, <2>2, JobsRest
<1> HIDE DEF JobsInductive
<1>6. QED BY <1>1, <1>2, <1>3, <1>4, <1>5

LEMMA NextKeepsOutbox ==
  ASSUME OutboxInductive, [Next]_vars
  PROVE  OutboxInductive'
<1> USE DEF Next, Daemons, Handlers, Server
<1>1. CASE OutboxStep
  BY <1>1, ClaimPendingKeeps, DeliverKeeps, MarkKeeps DEF OutboxStep, DrainStep
<1>2. CASE OutboxClock
  BY <1>2, OutboxRests DEF OutboxClock, BecomesDue
<1>3. CASE OutboxFault
  BY <1>3, MarkSentFailsKeeps DEF OutboxFault
<1>4. CASE WorkerRestart
  BY <1>4, DrainsDieKeeps DEF WorkerRestart
<1>5. CASE Handlers
  <2>1. UNCHANGED outbox \/ \E n : Enqueue(n)
    BY <1>5 DEF Handle, Append, Index, Transition, Notify
  <2>2. QED BY <2>1, EnqueueKeeps, OutboxRests DEF outbox
<1>6. CASE \/ \E n \in Nodes : DaemonStep(n) \/ DaemonFault(n)
           \/ WebCrash \/ UNCHANGED vars
           \/ \E j \in Jobs : RunEnds(j) \/ UserCancels(j) \/ Reconcile(j) \/ Execute(j)
  <2>1. UNCHANGED outbox
    BY <1>6 DEF DaemonStep, DaemonFault, Register, Heartbeat, Claim, ClaimNothing, Start,
       Launch, Progress, Watch, Finish, Except, PostLost, PostTimesOut, DaemonCrash,
       WebCrash, RunEnds, UserCancels, Reconcile, Execute, vars
  <2>2. QED BY <2>1, OutboxRests DEF outbox
<1>7. QED BY <1>1, <1>2, <1>3, <1>4, <1>5, <1>6

-----------------------------------------------------------------------------

(* A job is executed a second time only after a restart of the ARQ worker,   *)
(* whatever else fails and however many daemons poll (jobs.py:346-390,        *)
(* worker.py:55-62).                                                         *)
THEOREM ClaimsRunOnce == Spec => []OneRunPerClaim
<1>1. Init => JobsInductive
  BY JobsInitially
<1>2. JobsInductive /\ [Next]_vars => JobsInductive'
  BY NextKeepsJobs
<1>3. JobsInductive => OneRunPerClaim
  BY DEF OneRunPerClaim
<1>4. QED BY <1>1, <1>2, <1>3, PTL DEF Spec

(* No step of any process changes a job that has ended                       *)
(* (web/app.py:1361-1367).                                                   *)
THEOREM EndedJobsStayEnded == Spec => EndedStaysEnded
<1>1. Init => JobsInductive
  BY JobsInitially
<1>2. JobsInductive /\ [Next]_vars => JobsInductive'
  BY NextKeepsJobs
<1>3. ASSUME JobsInductive, [Next]_vars, NEW j \in Jobs, job[j] \in Settled
      PROVE  job'[j] = job[j]
  <2> USE DEF Next, Daemons, Handlers, Server, Settled
  <2>1. ASSUME NEW n \in Nodes, Claim(n) PROVE job'[j] = job[j]
    BY <1>3, <2>1 DEF Claim, ClaimRow, ClaimableJobs, Unclaimed
  <2>2. ASSUME NEW r \in request, Handle(r) PROVE job'[j] = job[j]
    BY <1>3, <2>2 DEF Handle, Append, Index, Transition, Notify, Moved
  <2>3. ASSUME NEW i \in Jobs, UserCancels(i) \/ Reconcile(i) \/ Execute(i)
        PROVE  job'[j] = job[j]
    BY <1>3, <2>3 DEF UserCancels, Reconcile, Execute, Moved
  <2>4. CASE WorkerRestart
    BY <1>3, <2>4 DEF WorkerRestart, Orphans
  <2>5. CASE \/ \E n \in Nodes : (DaemonStep(n) /\ ~Claim(n)) \/ DaemonFault(n)
             \/ WebCrash \/ OutboxStep \/ OutboxClock \/ OutboxFault \/ UNCHANGED vars
             \/ \E i \in Jobs : RunEnds(i)
    BY <2>5 DEF DaemonStep, DaemonFault, Register, Heartbeat, ClaimNothing, Start, Launch,
       Progress, Watch, Finish, Except, PostLost, PostTimesOut, DaemonCrash, WebCrash,
       RunEnds, OutboxStep, OutboxClock, OutboxFault, vars
  <2>6. QED BY <1>3, <2>1, <2>2, <2>3, <2>4, <2>5
<1>4. JobsInductive /\ [Next]_vars =>
        [\A j \in Jobs : job[j] \in Settled => job'[j] = job[j]]_vars
  BY <1>3
<1>5. QED BY <1>1, <1>2, <1>4, PTL DEF Spec, EndedStaysEnded

(* A user gets a message twice only if its row was in two drains' hands or   *)
(* its delivery was not recorded (orchestration.py:140-202).                  *)
THEOREM DuplicatesHaveACause == Spec => []DuplicatesAreExplained
<1>1. Init => OutboxInductive
  BY OutboxInitially DEF Init
<1>2. OutboxInductive /\ [Next]_vars => OutboxInductive'
  BY NextKeepsOutbox
<1>3. OutboxInductive => DuplicatesAreExplained
  BY DEF OutboxInductive, OutboxTypes, RowInv, DuplicatesAreExplained
<1>4. QED BY <1>1, <1>2, <1>3, PTL DEF Spec
=============================================================================

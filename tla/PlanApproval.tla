--------------------------- MODULE PlanApproval ----------------------------
(***************************************************************************)
(* What follows a finished plan: the finalizer asks for approval (or        *)
(* approves by itself), owners decide with a one-time button in Telegram or *)
(* in the web application, and an approval creates the job that executes    *)
(* the plan.  Finalizer, bot and web application are different processes.   *)
(* Result reviews and revisions are left out: nothing creates a             *)
(* RESULT_REVIEW approval or sets REVIEW_REQUIRED.                          *)
(***************************************************************************)
EXTENDS Naturals, FiniteSets

CONSTANTS
  Plans,       (* plan jobs whose run has finished and was claimed            *)
  AutoPlans,   (* those of an owner, or of any actor under AUTO_APPROVE_PLANS *)
  Owners,      (* owners that get buttons                                     *)
  Requests,    (* idempotency keys of web decisions                           *)
  Faults,      (* kinds of failure that may happen                            *)
  MaxFaults    (* how many of them happen in a behaviour                       *)

Bot == "bot"
Deciders == Requests \cup {Bot}
NoPlan == "no_plan"

ASSUME PlanApprovalAssumption ==
  /\ AutoPlans \subseteq Plans
  /\ NoPlan \notin Plans
  /\ Bot \notin Requests
  /\ MaxFaults \in Nat

VARIABLES
  plan,       (* [Plans -> status of the plan's row]                          *)
  approval,   (* [Plans -> decision column of its approval, "none": no row]   *)
  expired,    (* plans whose approval's expires_at has passed                 *)
  tokens,     (* unconsumed and unexpired <<owner, plan, action>> buttons     *)
  child,      (* [Plans -> status of the execution job]                       *)
  ticket,     (* [Plans -> execute_job messages of the execution job]         *)
  fin,        (* [Plans -> control point of _finalize_plan]                   *)
  toNotify,   (* [Plans -> owners that have not been sent their buttons]      *)
  pc,         (* [Deciders -> control point of the decision handler]          *)
  on,         (* [Deciders -> plan it decides]                                *)
  faults      (* the failures that happened, each at most once                 *)

vars == <<plan, approval, expired, tokens, child, ticket, fin, toNotify, pc, on, faults>>
rows == <<plan, approval, expired>>
execution == <<child, ticket>>
finalizer == <<fin, toNotify>>
handlers == <<pc, on>>

Actions == {"approve", "reject"}
Buttons == Owners \X Plans \X Actions
Settled == {"approved", "rejected"}
Closed == {"rejected", "cancelled", "failed"}
ApprovePoints == {"policy", "create", "accept", "enqueue"}

TypeOK ==
  /\ plan \in [Plans -> {"running", "awaiting_approval", "approved"} \cup Closed]
  /\ approval \in [Plans -> {"none", "pending"} \cup Settled]
  /\ expired \in SUBSET Plans
  /\ tokens \in SUBSET Buttons
  /\ child \in [Plans -> {"absent", "approved", "started", "cancelled"}]
  /\ ticket \in [Plans -> Nat]
  /\ fin \in [Plans -> {"begin", "request", "notify", "done"} \cup ApprovePoints]
  /\ toNotify \in [Plans -> SUBSET Owners]
  /\ pc \in [Deciders -> {"idle", "decide_approve", "decide_reject", "reject", "done"}
                          \cup ApprovePoints]
  /\ on \in [Deciders -> Plans \cup {NoPlan}]
  /\ faults \in SUBSET Faults

Init ==
  /\ plan = [p \in Plans |-> "running"]
  /\ approval = [p \in Plans |-> "none"]
  /\ expired = {}
  /\ tokens = {}
  /\ child = [p \in Plans |-> "absent"]
  /\ ticket = [p \in Plans |-> 0]
  /\ fin = [p \in Plans |-> "begin"]
  /\ toNotify = [p \in Plans |-> Owners]
  /\ pc = [d \in Deciders |-> "idle"]
  /\ on = [d \in Deciders |-> NoPlan]
  /\ faults = {}

-----------------------------------------------------------------------------
MovedUnchecked(p, from, to) == [plan EXCEPT ![p] = to]
(* JobRepository.transition *)
Moved(p, from, to) == [plan EXCEPT ![p] = IF @ \in from THEN to ELSE @]

DecidableTwice(p) == approval[p] # "none" /\ p \notin expired
(* ApprovalRepository.decide finds a row to update *)
Decidable(p) == approval[p] = "pending" /\ p \notin expired
Decide(p, decision) == approval' = [approval EXCEPT ![p] = decision]

(* a web request has used up its idempotency key, the bot takes a new update *)
Rest(d) == IF d = Bot THEN "idle" ELSE "done"
Goto(d, point) == pc' = [pc EXCEPT ![d] = point] /\ UNCHANGED on
Finish(d) ==
  /\ pc' = [pc EXCEPT ![d] = Rest(d)]
  /\ on' = [on EXCEPT ![d] = NoPlan]
Serve(d, p, point) ==
  /\ pc' = [pc EXCEPT ![d] = point]
  /\ on' = [on EXCEPT ![d] = p]
FinGoto(p, point) == fin' = [fin EXCEPT ![p] = point] /\ UNCHANGED toNotify

Fault(kind) ==
  /\ kind \in Faults \ faults
  /\ Cardinality(faults) < MaxFaults
  /\ faults' = faults \cup {kind}

(* JobRepository.create under the unique key "approval:{plan}" *)
CreateChild(p) ==
  /\ child[p] = "absent"
  /\ child' = [child EXCEPT ![p] = "approved"]

-----------------------------------------------------------------------------
(* RunFinalizer._finalize_plan, after mark_finalized *)

FinalizeAuto(p) ==
  /\ fin[p] = "begin" /\ p \in AutoPlans
  /\ plan' = Moved(p, {"running"}, "awaiting_approval")
  /\ FinGoto(p, "policy")
  /\ UNCHANGED <<approval, expired, tokens, execution, handlers, faults>>

CreateApproval(p) ==
  /\ fin[p] = "begin" /\ p \notin AutoPlans
  /\ Decide(p, "pending")
  /\ FinGoto(p, "request")
  /\ UNCHANGED <<plan, expired, tokens, execution, handlers, faults>>

RequestApproval(p) ==
  /\ fin[p] = "request"
  /\ plan' = Moved(p, {"running"}, "awaiting_approval")
  /\ FinGoto(p, "notify")
  /\ UNCHANGED <<approval, expired, tokens, execution, handlers, faults>>

(* both buttons of an owner are issued, then sent to it *)
NotifyOwner(p, o) ==
  /\ fin[p] = "notify" /\ o \in toNotify[p]
  /\ tokens' = tokens \cup ({o} \X {p} \X Actions)
  /\ toNotify' = [toNotify EXCEPT ![p] = @ \ {o}]
  /\ fin' = [fin EXCEPT ![p] = IF toNotify[p] = {o} THEN "done" ELSE @]
  /\ UNCHANGED <<rows, execution, handlers, faults>>

(* sending to an owner that has not started the bot raises *)
NotifyFails(p) ==
  /\ fin[p] = "notify"
  /\ Fault("telegram")
  /\ FinGoto(p, "done")
  /\ UNCHANGED <<rows, tokens, execution, handlers>>

-----------------------------------------------------------------------------
(* approve_job, run by the finalizer (auto) and by the decision handlers.    *)
(* Each step of it goes from one point to the next and acts on a plan.       *)

Allowed(p) == UNCHANGED <<rows, execution>>

Create(p) == CreateChild(p) /\ UNCHANGED <<rows, ticket>>

Accept(p) ==
  /\ plan' = Moved(p, {"awaiting_approval"}, "approved")
  /\ UNCHANGED <<approval, expired, execution>>

EnqueueForgotten(p) == UNCHANGED <<rows, execution>>

Enqueue(p) ==
  /\ ticket' = [ticket EXCEPT ![p] = @ + 1]
  /\ UNCHANGED <<rows, child>>

ApproveStep(p, from, to) ==
  \/ from = "policy" /\ to = "create" /\ Allowed(p)
  \/ from = "create" /\ to = "accept" /\ Create(p)
  \/ from = "accept" /\ to = "enqueue" /\ Accept(p)
  \/ from = "enqueue" /\ to = "done" /\ Enqueue(p)

AutoApprove(p) ==
  /\ \E to \in ApprovePoints \cup {"done"} : ApproveStep(p, fin[p], to) /\ FinGoto(p, to)
  /\ UNCHANGED <<tokens, handlers, faults>>

Approve(d) ==
  /\ on[d] \in Plans
  /\ \E to \in ApprovePoints \cup {"done"} :
       /\ ApproveStep(on[d], pc[d], to)
       /\ IF to = "done" THEN Finish(d) ELSE Goto(d, to)
  /\ UNCHANGED <<tokens, finalizer, faults>>

(* require_allowed raises: the repository is no longer writable *)
PolicyRefuses(d) ==
  /\ pc[d] = "policy"
  /\ Fault("policy")
  /\ Finish(d)
  /\ UNCHANGED <<rows, tokens, execution, finalizer>>

PolicyRefusesAuto(p) ==
  /\ fin[p] = "policy"
  /\ Fault("policy")
  /\ FinGoto(p, "done")
  /\ UNCHANGED <<rows, tokens, execution, handlers>>

-----------------------------------------------------------------------------
(* The web application: decide_approval.  A row is listed, and can be        *)
(* decided, as soon as it exists.                                            *)

WebApproveUndecided(r, p) ==
  /\ pc[r] = "idle"
  /\ approval[p] # "none"
  /\ IF Decidable(p) THEN Decide(p, "approved") ELSE UNCHANGED approval
  /\ Serve(r, p, "policy")
  /\ UNCHANGED <<plan, expired, tokens, execution, finalizer, faults>>

WebApprove(r, p) ==
  /\ pc[r] = "idle"
  /\ Decidable(p)
  /\ Decide(p, "approved")
  /\ Serve(r, p, "policy")
  /\ UNCHANGED <<plan, expired, tokens, execution, finalizer, faults>>

(* "approval expired or consumed": the key is spent, nothing happens *)
WebApproveRefused(r, p) ==
  /\ pc[r] = "idle"
  /\ approval[p] # "none" /\ ~Decidable(p)
  /\ Finish(r)
  /\ UNCHANGED <<rows, tokens, execution, finalizer, faults>>

(* a rejection goes on whatever decide returned *)
WebReject(r, p) ==
  /\ pc[r] = "idle"
  /\ approval[p] # "none"
  /\ IF Decidable(p) THEN Decide(p, "rejected") ELSE UNCHANGED approval
  /\ Serve(r, p, "reject")
  /\ UNCHANGED <<plan, expired, tokens, execution, finalizer, faults>>

(* reject_job *)
Reject(d) ==
  /\ pc[d] = "reject"
  /\ plan' = Moved(on[d], {"awaiting_approval"}, "rejected")
  /\ Finish(d)
  /\ UNCHANGED <<approval, expired, tokens, execution, finalizer, faults>>

-----------------------------------------------------------------------------
(* The bot: _handle_job_action.  Updates are handled one after another.      *)

(* consume_opaque, then the row decides which approval is looked for; there  *)
(* is none for a plan that is not awaiting approval                          *)
PressButton(o, p, a) ==
  /\ pc[Bot] = "idle"
  /\ <<o, p, a>> \in tokens
  /\ tokens' = tokens \ {<<o, p, a>>}
  /\ IF plan[p] = "awaiting_approval" /\ approval[p] # "none"
       THEN Serve(Bot, p, IF a = "approve" THEN "decide_approve" ELSE "decide_reject")
       ELSE UNCHANGED handlers
  /\ UNCHANGED <<rows, execution, finalizer, faults>>

BotDecide ==
  /\ pc[Bot] \in {"decide_approve", "decide_reject"}
  /\ LET p == on[Bot]
         approving == pc[Bot] = "decide_approve"
     IN IF Decidable(p)
          THEN /\ Decide(p, IF approving THEN "approved" ELSE "rejected")
               /\ Goto(Bot, IF approving THEN "policy" ELSE "reject")
          ELSE Finish(Bot) /\ UNCHANGED approval
  /\ UNCHANGED <<plan, expired, tokens, execution, finalizer, faults>>

-----------------------------------------------------------------------------
(* Surroundings: /cancel, the worker, time, failures                         *)

(* cancel_queued_for_actor: approved rows count as queued ones, the plan's   *)
(* own row included                                                          *)
CancelRow(p) ==
  /\ \/ /\ plan[p] = "approved"
        /\ plan' = [plan EXCEPT ![p] = "cancelled"]
        /\ UNCHANGED child
     \/ /\ child[p] = "approved"
        /\ child' = [child EXCEPT ![p] = "cancelled"]
        /\ UNCHANGED plan
  /\ UNCHANGED <<approval, expired, tokens, ticket, finalizer, handlers, faults>>

(* execute_job of the execution job: dropped unless the row is queued *)
StartChild(p) ==
  /\ ticket[p] > 0
  /\ ticket' = [ticket EXCEPT ![p] = @ - 1]
  /\ child' = [child EXCEPT ![p] = IF @ = "approved" THEN "started" ELSE @]
  /\ UNCHANGED <<rows, tokens, finalizer, handlers, faults>>

(* 30 minutes pass since the approval was requested *)
ApprovalExpires(p) ==
  /\ approval[p] # "none" /\ p \notin expired
  /\ expired' = expired \cup {p}
  /\ UNCHANGED <<plan, approval, tokens, execution, finalizer, handlers, faults>>

TokenExpires(b) ==
  /\ b \in tokens
  /\ tokens' = tokens \ {b}
  /\ UNCHANGED <<rows, execution, finalizer, handlers, faults>>

(* the busy-gate read the row before the claim and fails it as stale *)
ZombieTimeout(p) ==
  /\ plan[p] = "running"
  /\ Fault("zombie")
  /\ plan' = [plan EXCEPT ![p] = "failed"]
  /\ UNCHANGED <<approval, expired, tokens, execution, finalizer, handlers>>

(* nobody finalizes a claimed plan again *)
WorkerCrash ==
  /\ Fault("worker_crash")
  /\ fin' = [p \in Plans |-> "done"]
  /\ UNCHANGED <<rows, tokens, execution, toNotify, handlers>>

HandlersCrash(kind, who) ==
  /\ \E d \in who : on[d] # NoPlan
  /\ Fault(kind)
  /\ pc' = [d \in Deciders |-> IF d \in who /\ on[d] # NoPlan THEN Rest(d) ELSE pc[d]]
  /\ on' = [d \in Deciders |-> IF d \in who THEN NoPlan ELSE on[d]]
  /\ UNCHANGED <<rows, tokens, execution, finalizer>>

-----------------------------------------------------------------------------
Next ==
  \/ \E p \in Plans :
       \/ FinalizeAuto(p) \/ CreateApproval(p) \/ RequestApproval(p)
       \/ \E o \in Owners : NotifyOwner(p, o)
       \/ NotifyFails(p) \/ AutoApprove(p) \/ PolicyRefusesAuto(p)
       \/ \E r \in Requests : WebApprove(r, p) \/ WebApproveRefused(r, p) \/ WebReject(r, p)
       \/ \E o \in Owners, a \in Actions : PressButton(o, p, a)
       \/ CancelRow(p) \/ StartChild(p) \/ ApprovalExpires(p) \/ ZombieTimeout(p)
  \/ \E d \in Deciders : Approve(d) \/ PolicyRefuses(d) \/ Reject(d)
  \/ BotDecide
  \/ \E b \in Buttons : TokenExpires(b)
  \/ WorkerCrash
  \/ HandlersCrash("bot_crash", {Bot})
  \/ HandlersCrash("web_crash", Requests)

(* Coroutines that no one blocks go on; people and time owe nothing *)
Fairness ==
  /\ \A p \in Plans :
       /\ WF_vars(FinalizeAuto(p)) /\ WF_vars(AutoApprove(p))
       /\ WF_vars(StartChild(p))
  /\ \A d \in Deciders : WF_vars(Approve(d)) /\ WF_vars(Reject(d))
  /\ WF_vars(BotDecide)

Spec == Init /\ [][Next]_vars
FairSpec == Spec /\ Fairness

-----------------------------------------------------------------------------
(* The execution job of a plan exists only after an owner's approval has     *)
(* been recorded, or where approval is automatic: approve_job is behind      *)
(* decide in both channels, whoever else decides at the same time.           *)
ExecutionIsApproved ==
  \A p \in Plans : child[p] # "absent" => p \in AutoPlans \/ approval[p] = "approved"

(* At most one party is inside approve_job for a plan, and it finds the      *)
(* execution job absent: the unique key never raises on a decided approval.  *)
(* It is inductive together with what the control points say of the rows.    *)
ApproversOf(p) == {d \in Deciders : on[d] = p /\ pc[d] \in ApprovePoints}
Creating(point) == point \in {"policy", "create"}
ApprovalInv ==
  /\ TypeOK
  /\ \A d \in Deciders :
       /\ on[d] \in Plans <=> pc[d] \notin {"idle", "done"}
       /\ pc[d] \in {"decide_approve", "decide_reject"} => d = Bot
       /\ on[d] \in Plans => approval[on[d]] # "none"
       /\ pc[d] \in ApprovePoints =>
            /\ approval[on[d]] = "approved"
            /\ Creating(pc[d]) <=> child[on[d]] = "absent"
  /\ \A p \in Plans :
       /\ \A d, e \in ApproversOf(p) : d = e
       /\ p \in AutoPlans => approval[p] = "none"
       /\ fin[p] \in ApprovePoints => p \in AutoPlans
       /\ fin[p] \in ApprovePoints => (Creating(fin[p]) <=> child[p] = "absent")
       /\ fin[p] = "begin" => approval[p] = "none" /\ child[p] = "absent"
       /\ approval[p] \in {"pending", "rejected"} => child[p] = "absent"
       /\ approval[p] = "none" /\ p \notin AutoPlans => child[p] = "absent"

(* The first decision on an approval stands, and closed plans stay closed:   *)
(* late buttons, second owners and the finalizer's own late transition find  *)
(* another status than they expect.                                          *)
DecisionsAreFinal ==
  [][\A p \in Plans :
       /\ approval[p] \in Settled => approval'[p] = approval[p]
       /\ plan[p] \in Closed => plan'[p] = plan[p]]_vars

(* An approved plan is executed: its job is started, or the user cancelled   *)
(* it first.  Only a crash inside the few awaits of approve_job, or a        *)
(* repository that stopped being writable, loses a decided approval.         *)
Losses == {"worker_crash", "bot_crash", "web_crash", "policy"}
ApprovedIsExecuted ==
  \A p \in Plans :
    approval[p] = "approved" \/ fin[p] = "policy"
      ~> child[p] \in {"started", "cancelled"} \/ faults \cap Losses # {}

(* docs/KNOWLEDGE_BASE.md:109: approve and reject are one-time decisions     *)
(* with a TTL.  The code rejects a plan whose approval was decided or has    *)
(* expired, while its execution may already be created.                      *)
RejectedIsNotExecuted ==
  \A p \in Plans : plan[p] = "rejected" => child[p] = "absent"
=============================================================================

------------------------ MODULE PlanApprovalTheorems ------------------------
(***************************************************************************)
(* Proofs of the safety properties of plan approval, for any number of      *)
(* plans, owners, web requests and failures.  ApprovalInv is inductive: an  *)
(* approval that was decided admits one handler to approve_job, and the     *)
(* point this handler is at says whether the execution job exists.          *)
(***************************************************************************)
EXTENDS PlanApproval, TLAPS

USE PlanApprovalAssumption
USE DEF Bot, Deciders, NoPlan, rows, execution, finalizer, handlers,
        Actions, Buttons, Settled, Closed, ApprovePoints
USE DEF Moved, Decidable, Decide, Rest, Goto, Finish, Serve, FinGoto, Fault,
        CreateChild, Creating

LEMMA InitiallyApproval == Init => ApprovalInv
BY DEF Init, ApprovalInv, TypeOK, ApproversOf

-----------------------------------------------------------------------------
(* ApprovalInv, one lemma per process *)

USE DEF ApprovalInv, TypeOK, ApproversOf

LEMMA FinalizerKeepsApproval ==
  ASSUME ApprovalInv, NEW p \in Plans,
         \/ FinalizeAuto(p) \/ CreateApproval(p) \/ RequestApproval(p)
         \/ \E o \in Owners : NotifyOwner(p, o)
         \/ NotifyFails(p) \/ PolicyRefusesAuto(p)
  PROVE  ApprovalInv'
<1>1. CASE FinalizeAuto(p) BY <1>1 DEF FinalizeAuto
<1>2. CASE CreateApproval(p) BY <1>2, SMTT(30) DEF CreateApproval
<1>3. CASE RequestApproval(p) BY <1>3 DEF RequestApproval
<1>4. CASE \E o \in Owners : NotifyOwner(p, o) BY <1>4, SMTT(30) DEF NotifyOwner
<1>5. CASE NotifyFails(p) BY <1>5 DEF NotifyFails
<1>6. CASE PolicyRefusesAuto(p) BY <1>6 DEF PolicyRefusesAuto
<1>7. QED BY <1>1, <1>2, <1>3, <1>4, <1>5, <1>6

(* approve_job run by the finalizer: no owner can be inside it as well,      *)
(* because an automatic plan has no approval to decide on                    *)
LEMMA AutoApproveKeepsApproval ==
  ASSUME ApprovalInv, NEW p \in Plans, AutoApprove(p)
  PROVE  ApprovalInv'
BY SMTT(60) DEF AutoApprove, ApproveStep, Allowed, Create, Accept, Enqueue

LEMMA ApproveKeepsApproval ==
  ASSUME ApprovalInv, NEW d \in Deciders, Approve(d)
  PROVE  ApprovalInv'
BY SMTT(60) DEF Approve, ApproveStep, Allowed, Create, Accept, Enqueue

LEMMA WebKeepsApproval ==
  ASSUME ApprovalInv, NEW r \in Requests, NEW p \in Plans,
         WebApprove(r, p) \/ WebApproveRefused(r, p) \/ WebReject(r, p)
  PROVE  ApprovalInv'
<1>1. CASE WebApprove(r, p) BY <1>1, SMTT(30) DEF WebApprove
<1>2. CASE WebApproveRefused(r, p) BY <1>2, SMTT(30) DEF WebApproveRefused
<1>3. CASE WebReject(r, p) BY <1>3, SMTT(30) DEF WebReject
<1>4. QED BY <1>1, <1>2, <1>3

LEMMA BotKeepsApproval ==
  ASSUME ApprovalInv,
         \/ \E o \in Owners, p \in Plans, a \in Actions : PressButton(o, p, a)
         \/ BotDecide
  PROVE  ApprovalInv'
<1>1. ASSUME NEW o \in Owners, NEW p \in Plans, NEW a \in Actions, PressButton(o, p, a)
      PROVE  ApprovalInv'
  BY <1>1, SMTT(30) DEF PressButton
<1>2. CASE BotDecide
  BY <1>2, SMTT(30) DEF BotDecide
<1>3. QED BY <1>1, <1>2

LEMMA RefusalsKeepApproval ==
  ASSUME ApprovalInv, NEW d \in Deciders, PolicyRefuses(d) \/ Reject(d)
  PROVE  ApprovalInv'
BY SMTT(30) DEF PolicyRefuses, Reject

LEMMA SurroundingsKeepApproval ==
  ASSUME ApprovalInv,
         \/ \E p \in Plans : CancelRow(p) \/ StartChild(p) \/ ApprovalExpires(p)
                               \/ ZombieTimeout(p)
         \/ \E b \in Buttons : TokenExpires(b)
  PROVE  ApprovalInv'
<1>1. ASSUME NEW p \in Plans, CancelRow(p) PROVE ApprovalInv'
  BY <1>1, SMTT(30) DEF CancelRow
<1>2. ASSUME NEW p \in Plans, StartChild(p) PROVE ApprovalInv'
  BY <1>2, SMTT(30) DEF StartChild
<1>3. ASSUME NEW p \in Plans, ApprovalExpires(p) \/ ZombieTimeout(p) PROVE ApprovalInv'
  BY <1>3, SMTT(30) DEF ApprovalExpires, ZombieTimeout
<1>4. ASSUME NEW b \in Buttons, TokenExpires(b) PROVE ApprovalInv'
  BY <1>4, SMTT(30) DEF TokenExpires
<1>5. QED BY <1>1, <1>2, <1>3, <1>4

LEMMA CrashesKeepApproval ==
  ASSUME ApprovalInv,
         \/ WorkerCrash
         \/ HandlersCrash("bot_crash", {Bot})
         \/ HandlersCrash("web_crash", Requests)
  PROVE  ApprovalInv'
<1>1. CASE WorkerCrash BY <1>1, SMTT(30) DEF WorkerCrash
<1>2. CASE HandlersCrash("bot_crash", {Bot}) BY <1>2, SMTT(30) DEF HandlersCrash
<1>3. CASE HandlersCrash("web_crash", Requests) BY <1>3, SMTT(30) DEF HandlersCrash
<1>4. QED BY <1>1, <1>2, <1>3

HIDE DEF ApprovalInv

(* At most one handler is ever inside approve_job for a plan, in Telegram,   *)
(* the web application and the finalizer together, and it never runs into    *)
(* the unique key of an execution job that exists (approval_actions).        *)
THEOREM OneApprover == Spec => []ApprovalInv
<1>1. ApprovalInv /\ [Next]_vars => ApprovalInv'
  <2> SUFFICES ASSUME ApprovalInv, [Next]_vars PROVE ApprovalInv'
    OBVIOUS
  <2>1. CASE UNCHANGED vars BY <2>1 DEF vars, ApprovalInv
  <2>2. CASE Next
    BY <2>2, FinalizerKeepsApproval, AutoApproveKeepsApproval, ApproveKeepsApproval,
       WebKeepsApproval, BotKeepsApproval, RefusalsKeepApproval,
       SurroundingsKeepApproval, CrashesKeepApproval DEF Next
  <2>3. QED BY <2>1, <2>2
<1>2. QED BY InitiallyApproval, <1>1, PTL DEF Spec

(* The execution job of a plan was approved by an owner, or needed nobody.   *)
THEOREM ExecutionsAreApproved == Spec => []ExecutionIsApproved
<1>1. ApprovalInv => ExecutionIsApproved
  BY DEF ApprovalInv, ExecutionIsApproved
<1>2. QED BY <1>1, OneApprover, PTL

-----------------------------------------------------------------------------
(* Decisions and closed plans *)

KeepsDecision ==
  \A p \in Plans :
    /\ approval[p] \in Settled => approval'[p] = approval[p]
    /\ plan[p] \in Closed => plan'[p] = plan[p]

USE DEF KeepsDecision, ApprovalInv

LEMMA FinalizerKeepsDecision ==
  ASSUME ApprovalInv, NEW p \in Plans,
         \/ FinalizeAuto(p) \/ CreateApproval(p) \/ RequestApproval(p)
         \/ \E o \in Owners : NotifyOwner(p, o)
         \/ NotifyFails(p) \/ PolicyRefusesAuto(p) \/ AutoApprove(p)
  PROVE  KeepsDecision
BY SMTT(30) DEF FinalizeAuto, CreateApproval, RequestApproval, NotifyOwner,
     NotifyFails, PolicyRefusesAuto, AutoApprove, ApproveStep, Allowed, Create,
     Accept, Enqueue

LEMMA HandlersKeepDecision ==
  ASSUME ApprovalInv,
         \/ \E d \in Deciders : Approve(d) \/ PolicyRefuses(d) \/ Reject(d)
         \/ \E r \in Requests, p \in Plans :
              WebApprove(r, p) \/ WebApproveRefused(r, p) \/ WebReject(r, p)
         \/ \E o \in Owners, p \in Plans, a \in Actions : PressButton(o, p, a)
         \/ BotDecide
  PROVE  KeepsDecision
<1>1. ASSUME NEW d \in Deciders, Approve(d) \/ PolicyRefuses(d) \/ Reject(d)
      PROVE  KeepsDecision
  BY <1>1, SMTT(30) DEF Approve, PolicyRefuses, Reject, ApproveStep, Allowed,
     Create, Accept, Enqueue
<1>2. ASSUME NEW r \in Requests, NEW p \in Plans,
             WebApprove(r, p) \/ WebApproveRefused(r, p) \/ WebReject(r, p)
      PROVE  KeepsDecision
  BY <1>2 DEF WebApprove, WebApproveRefused, WebReject
<1>3. ASSUME NEW o \in Owners, NEW p \in Plans, NEW a \in Actions, PressButton(o, p, a)
      PROVE  KeepsDecision
  BY <1>3 DEF PressButton
<1>4. CASE BotDecide BY <1>4 DEF BotDecide
<1>5. QED BY <1>1, <1>2, <1>3, <1>4

LEMMA SurroundingsKeepDecision ==
  ASSUME ApprovalInv,
         \/ \E p \in Plans : CancelRow(p) \/ StartChild(p) \/ ApprovalExpires(p)
                               \/ ZombieTimeout(p)
         \/ \E b \in Buttons : TokenExpires(b)
         \/ WorkerCrash
         \/ HandlersCrash("bot_crash", {Bot})
         \/ HandlersCrash("web_crash", Requests)
         \/ UNCHANGED vars
  PROVE  KeepsDecision
BY SMTT(30) DEF CancelRow, StartChild, ApprovalExpires, ZombieTimeout,
     TokenExpires, WorkerCrash, HandlersCrash, vars

HIDE DEF KeepsDecision, ApprovalInv

(* The first decision stands and a rejected, cancelled or failed plan is     *)
(* never put up or accepted again, whatever late button, second owner or     *)
(* finalizer comes after (ApprovalRepository.decide, jobs.transition).       *)
THEOREM FirstDecisionStands == Spec => DecisionsAreFinal
<1>1. ApprovalInv /\ [Next]_vars => [KeepsDecision]_vars
  BY FinalizerKeepsDecision, HandlersKeepDecision, SurroundingsKeepDecision DEF Next
<1>2. QED BY <1>1, OneApprover, PTL DEF Spec, DecisionsAreFinal, KeepsDecision
=============================================================================

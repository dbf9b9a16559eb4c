----------------------------- MODULE Deployments -----------------------------
(***************************************************************************)
(* Production deploys and rollbacks: the web application dispatches the      *)
(* GitHub workflow once per idempotency key, the bot once per confirmed      *)
(* /rollback.  Both record what they dispatched in a Redis list from which   *)
(* /rollback takes its target.  Web handlers run concurrently with each      *)
(* other and with the bot, which handles one update at a time.               *)
(***************************************************************************)
EXTENDS Naturals, Sequences, FiniteSets

CONSTANTS
  Shas,          (* commits that may be deployed                              *)
  Keys,          (* idempotency keys of web dispatches                        *)
  Calls,         (* HTTP requests: a client repeats a request with its key    *)
  Rollbacks,     (* /rollback commands                                        *)
  MaxEntries     (* _MAX_ENTRIES of the history                               *)

NoSha == "no_sha"
NoKey == "no_key"
NoRollback == "no_rollback"

ASSUME DeploymentsAssumption ==
  /\ NoSha \notin Shas /\ NoKey \notin Keys /\ NoRollback \notin Rollbacks
  /\ Keys \cap Rollbacks = {}
  /\ MaxEntries \in Nat \ {0}

VARIABLES
  history,     (* the list, newest first                                      *)
  claimed,     (* idempotency keys in Redis                                   *)
  web,         (* [Calls -> control point, key and sha of deploy_dispatch]    *)
  bot,         (* control point of the bot, its rollback and its tip or target *)
  button,      (* [Rollbacks -> "none", "live", "spent"]                      *)
  target,      (* [Rollbacks -> sha in Redis or NoSha]                        *)
  shown,       (* [Rollbacks -> sha in the confirmation message]              *)
  dispatches,  (* [Keys \cup Rollbacks -> workflow dispatches made for it]     *)
  deployed     (* the shas that were dispatched                               *)

deployVars == <<history, claimed, web, bot, button, target, shown, dispatches, deployed>>
confirmation == <<button, target, shown>>
workflow == <<dispatches, deployed>>

Idle == [at |-> "idle", roll |-> NoRollback, sha |-> NoSha]

DeploymentsTypeOK ==
  /\ history \in Seq(Shas)
  /\ claimed \in SUBSET Keys
  /\ web \in [Calls -> [at : {"new", "trigger", "record", "trim", "done"},
                        key : Keys \cup {NoKey}, sha : Shas \cup {NoSha}]]
  /\ bot \in [at : {"idle", "previous", "issue", "load", "trigger", "record", "trim"},
              roll : Rollbacks \cup {NoRollback}, sha : Shas \cup {NoSha}]
  /\ button \in [Rollbacks -> {"none", "live", "spent"}]
  /\ target \in [Rollbacks -> Shas \cup {NoSha}]
  /\ shown \in [Rollbacks -> Shas \cup {NoSha}]
  /\ dispatches \in [Keys \cup Rollbacks -> Nat]
  /\ deployed \in SUBSET Shas

DeploymentsInit ==
  /\ history = << >> /\ claimed = {}
  /\ web = [c \in Calls |-> [at |-> "new", key |-> NoKey, sha |-> NoSha]]
  /\ bot = Idle
  /\ button = [r \in Rollbacks |-> "none"]
  /\ target = [r \in Rollbacks |-> NoSha]
  /\ shown = [r \in Rollbacks |-> NoSha]
  /\ dispatches = [d \in Keys \cup Rollbacks |-> 0]
  /\ deployed = {}

Push(sha) == history' = <<sha>> \o history
(* the second command of DeployHistory.record *)
Trim == history' = SubSeq(history, 1, IF Len(history) < MaxEntries THEN Len(history)
                                      ELSE MaxEntries)

(* trigger_prod_deploy reached GitHub on behalf of d *)
Dispatch(d, sha) ==
  /\ dispatches' = [dispatches EXCEPT ![d] = @ + 1]
  /\ deployed' = deployed \cup {sha}

-----------------------------------------------------------------------------
(* deploy_dispatch *)

FreeAlways(k) == TRUE
(* IdempotencyStore.claim: SET NX; calls are repeated within its 3600 s *)
Free(k) == k \notin claimed

WebAt(c, at) == web' = [web EXCEPT ![c].at = at]

DispatchRequest(c, k, sha) ==
  /\ web[c].at = "new"
  /\ IF Free(k)
     THEN /\ claimed' = claimed \cup {k}
          /\ web' = [web EXCEPT ![c] = [at |-> "trigger", key |-> k, sha |-> sha]]
     ELSE /\ WebAt(c, "done")
          /\ UNCHANGED claimed
  /\ UNCHANGED <<history, bot, confirmation, workflow>>

WebTrigger(c) ==
  /\ web[c].at = "trigger"
  /\ \/ Dispatch(web[c].key, web[c].sha) /\ WebAt(c, "record")
     \/ Dispatch(web[c].key, web[c].sha) /\ WebAt(c, "done")   \* the answer is lost, or a crash
     \/ WebAt(c, "done") /\ UNCHANGED workflow                   \* DeployTriggerError
  /\ UNCHANGED <<history, claimed, bot, confirmation>>

WebRecord(c) ==
  /\ web[c].at = "record"
  /\ Push(web[c].sha)
  /\ WebAt(c, "trim")
  /\ UNCHANGED <<claimed, bot, confirmation, workflow>>

WebTrim(c) ==
  /\ web[c].at = "trim"
  /\ Trim
  /\ WebAt(c, "done")
  /\ UNCHANGED <<claimed, bot, confirmation, workflow>>

-----------------------------------------------------------------------------
(* /rollback and its button *)

BotAt(at, sha) == bot' = [at |-> at, roll |-> bot.roll, sha |-> sha]

(* an explicit sha, or the tip of the history *)
RollbackCommand(r) ==
  /\ bot = Idle /\ button[r] = "none"
  /\ \/ \E sha \in Shas : bot' = [at |-> "issue", roll |-> r, sha |-> sha]
     \/ /\ history # << >>
        /\ bot' = [at |-> "previous", roll |-> r, sha |-> history[1]]
  /\ UNCHANGED <<history, claimed, web, confirmation, workflow>>

(* previous_sha(current_hint=tip): the newest other sha.  The list is read   *)
(* again, so a deploy that was recorded meanwhile is taken for the previous  *)
Others(tip) == {i \in 1..Len(history) : history[i] # tip}
PreviousSha(tip) == history[CHOOSE i \in Others(tip) : \A j \in Others(tip) : i <= j]

Previous ==
  /\ bot.at = "previous"
  /\ IF Others(bot.sha) = {} THEN bot' = Idle
     ELSE BotAt("issue", PreviousSha(bot.sha))
  /\ UNCHANGED <<history, claimed, web, confirmation, workflow>>

(* the DRAFT job, the target in Redis, the one-time button, the message      *)
Issue ==
  /\ bot.at = "issue"
  /\ target' = [target EXCEPT ![bot.roll] = bot.sha]
  /\ shown' = [shown EXCEPT ![bot.roll] = bot.sha]
  /\ button' = [button EXCEPT ![bot.roll] = "live"]
  /\ bot' = Idle
  /\ UNCHANGED <<history, claimed, web, workflow>>

ButtonExpires(r) ==
  /\ button[r] = "live"
  /\ button' = [button EXCEPT ![r] = "spent"]
  /\ UNCHANGED <<history, claimed, web, bot, target, shown, workflow>>

(* the target's TTL is started a little before the button's *)
TargetExpires(r) ==
  /\ target[r] # NoSha
  /\ target' = [target EXCEPT ![r] = NoSha]
  /\ UNCHANGED <<history, claimed, web, bot, button, shown, workflow>>

(* _handle_rollback: consume_opaque *)
Confirm(r) ==
  /\ bot = Idle /\ button[r] = "live"
  /\ button' = [button EXCEPT ![r] = "spent"]
  /\ bot' = [at |-> "load", roll |-> r, sha |-> NoSha]
  /\ UNCHANGED <<history, claimed, web, target, shown, workflow>>

LoadedByHistory(r) == IF target[r] = NoSha \/ history = << >> THEN NoSha
                      ELSE IF Others(history[1]) = {} THEN NoSha ELSE PreviousSha(history[1])
(* load_rollback_target *)
Loaded(r) == target[r]

Load ==
  /\ bot.at = "load"
  /\ IF Loaded(bot.roll) = NoSha THEN bot' = Idle
     ELSE BotAt("trigger", Loaded(bot.roll))
  /\ target' = [target EXCEPT ![bot.roll] = NoSha]
  /\ UNCHANGED <<history, claimed, web, button, shown, workflow>>

BotTrigger ==
  /\ bot.at = "trigger"
  /\ \/ Dispatch(bot.roll, bot.sha) /\ BotAt("record", bot.sha)
     \/ Dispatch(bot.roll, bot.sha) /\ bot' = Idle       \* the answer is lost, or a crash
     \/ bot' = Idle /\ UNCHANGED workflow                  \* DeployTriggerError
  /\ UNCHANGED <<history, claimed, web, confirmation>>

BotRecord ==
  /\ bot.at = "record"
  /\ Push(bot.sha)
  /\ BotAt("trim", bot.sha)
  /\ UNCHANGED <<claimed, web, confirmation, workflow>>

BotTrim ==
  /\ bot.at = "trim"
  /\ Trim
  /\ bot' = Idle
  /\ UNCHANGED <<claimed, web, confirmation, workflow>>

DeploymentsNext ==
  \/ \E c \in Calls, k \in Keys, sha \in Shas : DispatchRequest(c, k, sha)
  \/ \E c \in Calls :
       \/ WebTrigger(c)
       \/ WebRecord(c)
       \/ WebTrim(c)
  \/ \E r \in Rollbacks :
       \/ RollbackCommand(r)
       \/ ButtonExpires(r)
       \/ TargetExpires(r)
       \/ Confirm(r)
  \/ Previous
  \/ Issue
  \/ Load
  \/ BotTrigger
  \/ BotRecord
  \/ BotTrim

(* A repeated request or a second press never deploys twice.                 *)
DispatchedOnce == \A d \in Keys \cup Rollbacks : dispatches[d] <= 1

(* A press deploys the sha its message showed, whatever was deployed since.  *)
RollbackIsAsShown ==
  bot.at \in {"trigger", "record", "trim"} => bot.sha = shown[bot.roll]

(* What the history offers for a rollback was dispatched.                    *)
HistoryWasDeployed == \A i \in 1..Len(history) : history[i] \in deployed

(* Deploys and rollbacks happen once, as confirmed, and are recorded after   *)
(* they were dispatched (web/app.py:906-954, callbacks.py:372-447).          *)
DeploymentInv == DispatchedOnce /\ RollbackIsAsShown /\ HistoryWasDeployed
=============================================================================

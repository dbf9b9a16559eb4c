----------------------------- MODULE RunStream -----------------------------
(***************************************************************************)
(* Watching one Cursor run: CursorAgentService.observe_run reads the       *)
(* server-sent events of the run into a StreamState, reconnects with       *)
(* Last-Event-ID, polls the run until it is terminal, finishes a plan and  *)
(* fetches the usage, and calls on_update after each step, which looks for *)
(* a cancel, stores the cursor of the stream and draws the card (RunCard). *)
(*                                                                         *)
(* The coroutine is the observer of the worker (observe_and_finalize),     *)
(* which is spawned again when it is gone, or the run of a prompt inside   *)
(* the bot (_run_job through run_prompt), whose card starts as an          *)
(* animation.  What is done with the outcome of a durable job is the       *)
(* subject of DurableJobs.                                                 *)
(***************************************************************************)
EXTENDS RunCard, Sequences

CONSTANTS
  PlanModes,      (* whether the run plans: what Init chooses from            *)
  Kinds,          (* kinds of events Cursor emits before the last one        *)
  MaxEvents,      (* how many of them                                        *)
  MaxReconnects,  (* max_reconnects of observe_run, 8 in the code            *)
  MaxPolls,       (* attempts of _poll_until_terminal, 90 in the code        *)
  MaxWatchers     (* observers started for the run, one after the other      *)

StreamFaults == {"expired", "http", "network", "drop", "error_event", "crash"}

(* "text" stands for assistant, thinking and tool_call events, "extra" for *)
(* interaction_update, "plan" for a create_plan call with the plan in its  *)
(* arguments and "plan_call" for one without.                              *)
EventKinds == {"text", "extra", "plan", "plan_call"}
LastKinds == {"status", "result"}

ASSUME StreamAssumption ==
  /\ Faults \subseteq TelegramFaults \cup StreamFaults
  /\ MaxFaults \in Nat
  /\ PlanModes \subseteq BOOLEAN
  /\ Kinds \subseteq EventKinds
  /\ MaxEvents \in Nat
  /\ MaxReconnects \in Nat
  /\ MaxPolls \in Nat \ {0}
  /\ MaxWatchers \in Nat \ {0}

VARIABLES
  (* Cursor Cloud *)
  cloud,      (* status of the run                                           *)
  log,        (* the events of the stream; the id of an event is its index   *)
  (* the coroutine *)
  inBot,      (* it is _run_job, not an observer                             *)
  planMode,   (* the run plans                                               *)
  st,         (* StreamState                                                 *)
  pos,        (* last event read on the open connection                      *)
  eventId,    (* event_id of observe_run: 0 for None                         *)
  reconnects,
  polls,
  back,       (* where on_update returns to                                  *)
  outcome,    (* status of the RunOutcome                                    *)
  (* outside of it *)
  stored,     (* cursor_last_event_id of the job row                         *)
  cancelled,  (* the cancel flag of the actor                                *)
  watchers    (* observers started                                           *)

cloudVars  == <<cloud, log>>
pathVars   == <<inBot, planMode>>
loopVars   == <<pos, eventId, reconnects, polls>>
outsideVars == <<stored, cancelled, watchers>>
streamVars == <<cloudVars, pathVars, st, loopVars, back, outcome, outsideVars>>
vars == <<at, faults, cardVars, streamVars>>

CloudTerminal == {"finished", "error", "cancelled"}

Returns == {"read", "stream_end", "poll", "plan", "usage", "outcome", "paused"}
CardPoints == {"preset", "preset_edit", "aborted", "update", "update_lock", "update_edit",
               "updated", "close", "close_lock", "close_edit", "close_plain", "close_again",
               "closed", "card_failed"}
Points == Returns \cup CardPoints \cup {"open", "retry", "raised", "crashed", "stop", "gone", "end"}

Fresh(id) == [status |-> "running", lastId |-> id, from |-> id, seen |-> <<>>,
              plan |-> FALSE, planCall |-> FALSE, text |-> "none"]

TypeOK ==
  /\ CardTypeOK
  /\ at \in Points
  /\ cloud \in {"running"} \cup CloudTerminal
  /\ log \in Seq(EventKinds \cup LastKinds)
  /\ {inBot, planMode, cancelled} \subseteq BOOLEAN
  /\ st.status \in {"running"} \cup CloudTerminal
  /\ st.text \in {"none", "result", "error", "plan"}
  /\ {pos, eventId, st.lastId, st.from, stored} \subseteq 0..Len(log)
  /\ reconnects \in 0..(MaxReconnects + 1)
  /\ polls \in 0..MaxPolls
  /\ back \in Returns
  /\ outcome \in {"none", "running"} \cup CloudTerminal
  /\ watchers \in 1..MaxWatchers

Init ==
  /\ at = "open"
  /\ faults = 0
  /\ cloud = "running"
  /\ log = <<>>
  /\ inBot \in BOOLEAN
  /\ planMode \in PlanModes
  /\ st = Fresh(0)
  /\ pos = 0
  /\ eventId = 0
  /\ reconnects = 0
  /\ polls = 0
  /\ back = "read"
  /\ outcome = "none"
  /\ stored = 0
  /\ cancelled = FALSE
  /\ watchers = 1
  /\ shown = IF inBot THEN "status" ELSE "live"
  /\ closed = FALSE
  /\ pending = FALSE
  /\ lock = "free"
  /\ pulse = "sleep"
  /\ delayed = "none"
  /\ hasAnim = inBot
  /\ anim = IF inBot THEN "sleep" ELSE "none"
  /\ preset = FALSE
  /\ final = "answer"

-----------------------------------------------------------------------------
(* Cursor Cloud and the user *)

Emit ==
  /\ cloud = "running"
  /\ Len(log) < MaxEvents
  /\ \E kind \in Kinds :
       /\ kind \in {"plan", "plan_call"} => planMode
       /\ log' = Append(log, kind)
  /\ UNCHANGED <<at, faults, cardVars, cloud, pathVars, st, loopVars, back, outcome, outsideVars>>

(* The run ends with its result, with a status only, or silently. *)
Finish ==
  /\ cloud = "running"
  /\ cloud' \in CloudTerminal
  /\ \E last \in {<<>>} \cup { <<kind>> : kind \in LastKinds } : log' = log \o last
  /\ UNCHANGED <<at, faults, cardVars, pathVars, st, loopVars, back, outcome, outsideVars>>

CancelIsAsked ==
  /\ ~cancelled
  /\ at # "end"
  /\ cancelled' = TRUE
  /\ UNCHANGED <<at, faults, cardVars, cloudVars, pathVars, st, loopVars, back, outcome,
                 stored, watchers>>

-----------------------------------------------------------------------------
(* on_update *)

(* has_visible_output: words or a tool, which the text of an error is not *)
Visible(s) == s.text = "result" \/ \E i \in 1..Len(s.seen) : log[s.seen[i]] \in {"text", "plan", "plan_call"}

(* on_update(s), to return to r: a cancel stops the run, else the cursor   *)
(* of the stream is stored (by the observer) and the card is drawn.        *)
OnUpdate(s, r) ==
  /\ st' = s
  /\ back' = r
  /\ IF cancelled
       THEN /\ at' = "stop"
            /\ UNCHANGED stored
       ELSE /\ at' = IF inBot /\ ~Visible(s) THEN "preset" ELSE "update"
            /\ stored' = IF inBot \/ s.lastId = 0 THEN stored ELSE s.lastId
  /\ UNCHANGED <<cancelled, watchers>>

DrawCard ==
  /\ Update(Visible(st))
  /\ UNCHANGED streamVars

Updated ==
  /\ at = "updated"
  /\ at' = back
  /\ UNCHANGED <<faults, cardVars, streamVars>>

-----------------------------------------------------------------------------
(* _consume_sse *)

(* normalize_run_status of the run, as events and snapshots carry it *)
StatusOf(kind, s) == IF kind \in LastKinds THEN cloud ELSE s.status

(* The id is taken before the event is looked at. *)
Applied(s, id) ==
  LET kind == log[id] IN
  [status |-> StatusOf(kind, s), lastId |-> id, from |-> s.from, seen |-> Append(s.seen, id),
   plan |-> s.plan \/ kind = "plan",
   planCall |-> s.planCall \/ kind \in {"plan", "plan_call"},
   text |-> IF kind = "result" THEN "result" ELSE s.text]

(* s without a new event *)
Says(s, status, plan, text) ==
  [status |-> status, lastId |-> s.lastId, from |-> s.from, seen |-> s.seen,
   plan |-> plan, planCall |-> s.planCall, text |-> text]

Terminal(s) == s.status \in CloudTerminal

Deliver ==
  /\ at = "read"
  /\ pos < Len(log)
  /\ pos' = pos + 1
  /\ LET s == Applied(st, pos + 1) IN
       IF log[pos + 1] = "extra"
         THEN /\ st' = s
              /\ UNCHANGED <<at, back, outsideVars>>
         ELSE OnUpdate(s, IF log[pos + 1] = "result" THEN "stream_end" ELSE "read")
  /\ UNCHANGED <<faults, cardVars, cloudVars, pathVars, eventId, reconnects, polls, outcome>>

(* "done", when all is sent or because Cursor closes early: the run is     *)
(* over only if its status or its text says so.                            *)
Done ==
  /\ at = "read"
  /\ \/ cloud # "running" /\ pos = Len(log) /\ UNCHANGED faults
     \/ Fault("drop")
  /\ IF Terminal(st) \/ st.text # "none"
       THEN OnUpdate(st, "stream_end")
       ELSE /\ at' = "retry"
            /\ UNCHANGED <<st, back, outsideVars>>
  /\ UNCHANGED <<cardVars, cloudVars, pathVars, loopVars, outcome>>

(* The stream ends without a "done". *)
Cut ==
  /\ at = "read"
  /\ Fault("drop")
  /\ at' = "retry"
  /\ UNCHANGED <<cardVars, streamVars>>

(* An error event ends the stream, not necessarily the run. *)
ErrorEvent ==
  /\ at = "read"
  /\ Fault("error_event")
  /\ OnUpdate(Says(st, "error", st.plan, "error"), "stream_end")
  /\ UNCHANGED <<cardVars, cloudVars, pathVars, loopVars, outcome>>

(* 410, or an error event that says the stream expired *)
Expired ==
  /\ at \in {"open", "read"}
  /\ Fault("expired")
  /\ at' = "poll"
  /\ UNCHANGED <<cardVars, streamVars>>

-----------------------------------------------------------------------------
(* observe_run *)

Open ==
  /\ at = "open"
  /\ at' = "read"
  /\ pos' = eventId
  /\ UNCHANGED <<faults, cardVars, cloudVars, pathVars, st, eventId, reconnects, polls, back,
                 outcome, outsideVars>>

(* Mutant: a reconnect resumes where the first connection started. *)
ResumeFromStart == eventId

Resume == st.lastId

(* A refused connection: one too many is the error of the run. *)
OpenRefused ==
  /\ at = "open"
  /\ Fault("http")
  /\ reconnects' = reconnects + 1
  /\ IF reconnects' > MaxReconnects
       THEN at' = "raised" /\ UNCHANGED eventId
       ELSE at' = "open" /\ eventId' = Resume
  /\ UNCHANGED <<cardVars, cloudVars, pathVars, st, pos, polls, back, outcome, outsideVars>>

(* After the stream ended without a result *)
Retry ==
  /\ at = "retry"
  /\ eventId' = Resume
  /\ reconnects' = IF Terminal(st) THEN reconnects ELSE reconnects + 1
  /\ at' = IF ~Terminal(st) /\ reconnects' <= MaxReconnects THEN "open" ELSE "poll"
  /\ UNCHANGED <<faults, cardVars, cloudVars, pathVars, st, pos, polls, back, outcome, outsideVars>>

(* Mutant: a stream that ended with a result is not checked. *)
StreamEndTrusted ==
  /\ at = "stream_end"
  /\ at' = IF Terminal(st) THEN "plan" ELSE "poll"
  /\ eventId' = Resume
  /\ UNCHANGED <<faults, cardVars, cloudVars, pathVars, st, pos, reconnects, polls, back, outcome,
                 outsideVars>>

StreamEnd ==
  /\ at = "stream_end"
  /\ at' = "poll"
  /\ UNCHANGED <<faults, cardVars, streamVars>>

(* Connections that fail or fall silent raise httpx errors, which nothing  *)
(* on the way catches; the read timeout of a silent stream is one.         *)
NetworkFails ==
  /\ \/ at \in {"open", "read", "poll", "usage"} /\ Fault("network")
     \/ at = "plan" /\ planMode /\ ~st.plan /\ st.planCall /\ Fault("network")
     \/ at = "read" /\ cloud = "running" /\ pos = Len(log) /\ UNCHANGED faults
  /\ at' = "crashed"
  /\ UNCHANGED <<cardVars, streamVars>>

(* Snapshot of GET run: it replaces the status, whatever it was. *)
Snapshot(s) ==
  Says(s, cloud, s.plan, IF cloud = "finished" THEN "result" ELSE s.text)

(* Mutant: the polls are not counted. *)
PollUnbounded ==
  /\ at = "poll"
  /\ LET s == Snapshot(st) IN OnUpdate(s, IF Terminal(s) THEN "plan" ELSE "poll")
  /\ UNCHANGED <<faults, cardVars, cloudVars, pathVars, loopVars, outcome>>

Poll ==
  /\ at = "poll"
  /\ polls' = polls + 1
  /\ LET s == Snapshot(st) IN
       OnUpdate(s, IF Terminal(s) \/ polls' >= MaxPolls THEN "plan" ELSE "poll")
  /\ UNCHANGED <<faults, cardVars, cloudVars, pathVars, pos, eventId, reconnects, outcome>>

PollRefused ==
  /\ at = "poll"
  /\ Fault("http")
  /\ at' = "raised"
  /\ UNCHANGED <<cardVars, streamVars>>

(* The newest plan artifact; there may be none, or Cursor may refuse.      *)
FetchPlanArtifact(s) == {s.plan, TRUE}

(* _finalize_plan: the artifact is fetched if create_plan was called       *)
(* without a plan; having none is not an error.                            *)
FinalizePlan ==
  /\ at = "plan"
  /\ IF planMode
       THEN \E plan \in IF ~st.plan /\ st.planCall THEN FetchPlanArtifact(st) ELSE {st.plan} :
              OnUpdate(Says(st, st.status, plan, IF plan THEN "plan" ELSE st.text), "usage")
       ELSE /\ at' = "usage"
            /\ UNCHANGED <<st, back, outsideVars>>
  /\ UNCHANGED <<faults, cardVars, cloudVars, pathVars, loopVars, outcome>>

FetchUsage ==
  /\ at = "usage"
  /\ \/ /\ OnUpdate(st, "outcome")
        /\ UNCHANGED faults
     \/ /\ Fault("http")
        /\ at' = "outcome"
        /\ UNCHANGED <<st, back, outsideVars>>
  /\ UNCHANGED <<cardVars, cloudVars, pathVars, loopVars, outcome>>

(* A run that is still going on is left to the reconciler by the observer, *)
(* which draws the card once more; in the bot it is finished all the same. *)
Outcome ==
  /\ at = "outcome"
  /\ outcome' = st.status
  /\ IF ~Terminal(st) /\ ~inBot
       THEN at' = "update" /\ back' = "paused" /\ UNCHANGED final
       ELSE at' = "close" /\ final' = "answer" /\ UNCHANGED back
  /\ UNCHANGED <<faults, shown, closed, pending, lock, tasks, placeholder, cloudVars, pathVars,
                 st, loopVars, outsideVars>>

-----------------------------------------------------------------------------
(* observe_and_finalize and _run_job around it *)

(* The finally clause of an observer: shutdown of the renderer and, unless *)
(* the run goes on, the cancel flag.                                       *)
Leave(keepFlag) ==
  /\ Shutdown
  /\ at' = "gone"
  /\ cancelled' = IF keepFlag THEN cancelled ELSE FALSE
  /\ UNCHANGED <<pending, placeholder, final, cloudVars, pathVars, st, loopVars, back, outcome,
                 stored, watchers>>

Paused ==
  /\ at = "paused"
  /\ Leave(TRUE)
  /\ UNCHANGED faults

(* RunCancelled *)
Stop ==
  /\ at = "stop"
  /\ at' = "close"
  /\ final' = "cancelled"
  /\ UNCHANGED <<faults, shown, closed, pending, lock, tasks, placeholder, streamVars>>

(* An error leaves the observer. run_prompt turns an error of Cursor into  *)
(* an outcome; any other error is the error card of _run_job.              *)
ObserverFails ==
  /\ ~inBot
  /\ at \in {"raised", "crashed", "card_failed"}
  /\ Leave(FALSE)
  /\ UNCHANGED faults

BotFails ==
  /\ inBot
  /\ \/ /\ at = "raised"
        /\ at' = "close"
        /\ final' = "answer"
        /\ outcome' = "error"
     \/ /\ at \in {"crashed", "aborted"}
        /\ at' = "close"
        /\ final' = "error"
        /\ UNCHANGED outcome
     \/ /\ at = "card_failed"
        /\ final # "error"
        /\ at' = "close"
        /\ final' = "error"
        /\ UNCHANGED outcome
  /\ UNCHANGED <<faults, shown, closed, pending, lock, tasks, placeholder, cloudVars, pathVars,
                 st, loopVars, back, outsideVars>>

(* The error card fails too: the error leaves _run_job through its finally *)
(* clause, which stops the tasks of the card.                              *)
Escapes ==
  /\ inBot
  /\ at = "card_failed"
  /\ final = "error"
  /\ at' = "end"
  /\ Shutdown
  /\ cancelled' = FALSE
  /\ UNCHANGED <<faults, pending, placeholder, final, cloudVars, pathVars, st, loopVars, back,
                 outcome, stored, watchers>>

Closed ==
  /\ at = "closed"
  /\ at' = "end"
  /\ cancelled' = FALSE
  /\ UNCHANGED <<faults, cardVars, cloudVars, pathVars, st, loopVars, back, outcome, stored, watchers>>

(* The worker dies with the observer, whose requests are as good as cut. *)
Crash ==
  /\ ~inBot
  /\ at \notin {"gone", "end"}
  /\ Fault("crash")
  /\ Shutdown
  /\ at' = "gone"
  /\ UNCHANGED <<pending, placeholder, final, streamVars>>

(* Startup and the cron spawn an observer that resumes the stream from the *)
(* stored cursor with an empty state.                                      *)
Respawn ==
  /\ at = "gone"
  /\ watchers < MaxWatchers
  /\ watchers' = watchers + 1
  /\ NewRenderer
  /\ at' = IF cancelled THEN "stop" ELSE "open"
  /\ st' = Fresh(stored)
  /\ eventId' = stored
  /\ pos' = stored
  /\ reconnects' = 0
  /\ polls' = 0
  /\ UNCHANGED <<faults, cloudVars, pathVars, back, outcome, stored, cancelled>>

-----------------------------------------------------------------------------
Card == (Drawing \/ Background) /\ UNCHANGED streamVars

Watch ==
  \/ DrawCard \/ Updated
  \/ Deliver \/ Done \/ Cut \/ ErrorEvent \/ Expired
  \/ Open \/ OpenRefused \/ Retry \/ StreamEnd \/ NetworkFails
  \/ Poll \/ PollRefused \/ FinalizePlan \/ FetchUsage \/ Outcome
  \/ Paused \/ Stop \/ ObserverFails \/ BotFails \/ Escapes \/ Closed

Next ==
  \/ Emit \/ Finish \/ CancelIsAsked
  \/ Card \/ Watch
  \/ Crash \/ Respawn

(* The coroutine and the tasks of the renderer run when they can: they are *)
(* tasks of one event loop and every await of theirs is answered or times  *)
(* out; asyncio.Lock serves its waiters in turn.  Cursor, the user, the    *)
(* cron and failures owe nothing.                                          *)
Fairness ==
  /\ WF_vars(Watch \/ (Drawing /\ UNCHANGED streamVars))
  /\ SF_vars(UpdateFlushes /\ UNCHANGED streamVars)
  /\ WF_vars((PulseAnswered \/ DelayedAnswered) /\ UNCHANGED streamVars)

Spec == Init /\ [][Next]_vars
FairSpec == Spec /\ Fairness

-----------------------------------------------------------------------------
(* A watcher applies the events of the run one by one, none twice and none *)
(* left out, over any number of reconnects (observe_run resumes with the   *)
(* last event id it has seen, which is taken before the event is applied). *)
ResumesInOrder == st.seen = [i \in 1..Len(st.seen) |-> st.from + i]

(* A run is reported as over only as Cursor says it is over: an error of   *)
(* the stream, a status in it or an early "done" never end a job by        *)
(* themselves (_poll_until_terminal is asked in every case).  Inside the   *)
(* bot an error of the API counts as an error of the run.                  *)
OutcomeIsCloud ==
  outcome \in CloudTerminal => (outcome = cloud \/ (inBot /\ outcome = "error"))

(* No task of the renderer or of the animation writes over the last text   *)
(* of a card: "after finalize/shutdown never re-apply the cancel keyboard" *)
(* (_flush_locked).                                                        *)
FinalTextStays == [][(at \in {"closed", "end"}) => (shown' = shown)]_vars

(* Whatever Cursor and Telegram answer, no coroutine watches a run for     *)
(* ever: reconnects and polls are bounded, and the flush lock is let go of *)
(* by whoever held it.                                                     *)
WatchingEnds == []<>(at \in {"gone", "end"})

(* docs/ARCHITECTURE.md:172 of a plan: it comes with create_plan in the    *)
(* stream or as an artifact, "only if create_plan was in this run".        *)
PlanIsKept ==
  at = "end" /\ final = "answer" /\ outcome = "finished" /\ planMode /\
    (\E i \in 1..Len(log) : log[i] = "plan")
  => st.plan

(* services/telegram_renderer.py:291: "Telegram flakiness must never abort *)
(* an in-flight Cursor run."                                               *)
TelegramAbortsNothing == at # "aborted"
=============================================================================

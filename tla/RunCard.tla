------------------------------ MODULE RunCard ------------------------------
(***************************************************************************)
(* The Telegram message that shows one run: TelegramStreamRenderer with    *)
(* its flush lock, its activity loop and its delayed edit, and the         *)
(* AnimatedStatus that owns the message until there is something to show.  *)
(* Four tasks of one event loop edit the same message; the caller (the     *)
(* coroutine that watches the run, at control point "at") enters at        *)
(* "preset", "update" or "close" and is given back control at "updated",   *)
(* "closed", "card_failed" or "aborted".                                   *)
(*                                                                         *)
(* An edit is a request and an answer.  A request whose task is cancelled, *)
(* or that timed out, was applied or was not; it is not applied later than *)
(* that.  Texts are kept only as far as they tell who wrote the message.   *)
(***************************************************************************)
EXTENDS Naturals

CONSTANTS
  Faults,      (* kinds of failure that may happen                           *)
  MaxFaults    (* how many of them happen in a behaviour                     *)

(* Answers of Telegram other than success: the text is unchanged, the text *)
(* is refused, RetryAfter, TimedOut or NetworkError, any other error.      *)
TelegramFaults == {"unmodified", "bad", "flood", "timeout", "refused"}

VARIABLES
  at,        (* control point of the caller                                  *)
  faults,    (* failures that happened                                       *)
  shown,     (* what the message shows                                       *)
  closed,    (* _closed                                                      *)
  pending,   (* _pending is not None                                         *)
  lock,      (* holder of _flush_lock                                        *)
  pulse,     (* _activity_task                                               *)
  delayed,   (* _edit_task                                                   *)
  hasAnim,   (* _placeholder_animation is not None                           *)
  anim,      (* the AnimatedStatus: its loop, or how it ended                *)
  preset,    (* set_preset was already called with the current preset        *)
  final      (* which text finalize is writing                               *)

tasks == <<pulse, delayed>>
placeholder == <<hasAnim, anim, preset>>
cardVars == <<shown, closed, pending, lock, pulse, delayed, hasAnim, anim, preset, final>>

Finals == {"answer", "cancelled", "error"}
Views == {"status", "live"} \cup Finals

(* "status" has no keyboard, "live" has the cancel button of a run that is *)
(* going on, the others have the keyboard of a finished run.               *)
CardTypeOK ==
  /\ faults \in 0..MaxFaults
  /\ shown \in Views
  /\ {closed, pending, hasAnim, preset} \subseteq BOOLEAN
  /\ lock \in {"free", "main", "pulse", "delayed"}
  /\ pulse \in {"off", "sleep", "edit"}
  /\ delayed \in {"none", "sleep", "edit"}
  /\ anim \in {"none", "sleep", "edit", "dead", "stopped"}
  /\ final \in Finals

Fault(kind) ==
  /\ kind \in Faults
  /\ faults < MaxFaults
  /\ faults' = faults + 1

(* message.edit_text was answered *)
Answered(view, answer) ==
  \/ /\ answer = "ok"
     /\ shown' = view
     /\ UNCHANGED faults
  \/ /\ answer = "timeout"
     /\ Fault(answer)
     /\ shown' \in {shown, view}
  \/ /\ answer \in {"unmodified", "bad", "flood", "refused"}
     /\ Fault(answer)
     /\ UNCHANGED shown

Answers == {"ok"} \cup TelegramFaults

(* The edits of cancelled tasks: the request may have reached Telegram.    *)
InFlight == { v \in {"live", "status"} :
                \/ v = "live" /\ "edit" \in {pulse, delayed}
                \/ v = "status" /\ anim = "edit" }

-----------------------------------------------------------------------------
(* AnimatedStatus *)

(* _loop wakes and edits the message without the flush lock. *)
AnimTicks ==
  /\ anim = "sleep"
  /\ anim' = "edit"
  /\ UNCHANGED <<at, faults, shown, closed, pending, lock, tasks, hasAnim, preset, final>>

(* _tick survives BadRequest and RetryAfter; any other error ends the loop *)
(* and waits in the task for whoever stops it.                             *)
AnimAnswered ==
  /\ anim = "edit"
  /\ \E answer \in Answers :
       /\ Answered("status", answer)
       /\ anim' = IF answer \in {"timeout", "refused"} THEN "dead" ELSE "sleep"
  /\ UNCHANGED <<at, closed, pending, lock, tasks, hasAnim, preset, final>>

(* set_preset of the caller: a tick of its own when the preset changes. *)
PresetStarts ==
  /\ at = "preset"
  /\ preset' = TRUE
  /\ at' = IF preset \/ anim = "stopped" THEN "update" ELSE "preset_edit"
  /\ UNCHANGED <<faults, shown, closed, pending, lock, tasks, hasAnim, anim, final>>

PresetAnswered ==
  /\ at = "preset_edit"
  /\ \E answer \in Answers :
       /\ Answered("status", answer)
       /\ at' = CASE answer \in {"timeout", "refused"} -> "aborted"
                  [] answer = "flood" -> "preset_edit"
                  [] OTHER -> "update"
  /\ UNCHANGED <<closed, pending, lock, tasks, placeholder, final>>

(* stop() raises the error the loop died of, the first time it is called. *)
StopRaises == hasAnim /\ anim = "dead"

-----------------------------------------------------------------------------
(* The activity loop and the delayed edit *)

CanFlush == ~closed /\ pending /\ lock = "free"

(* The activity loop leaves the message alone while the animation has it. *)
PulseFlushes ==
  /\ pulse = "sleep"
  /\ ~hasAnim
  /\ CanFlush
  /\ pulse' = "edit"
  /\ lock' = "pulse"
  /\ UNCHANGED <<at, faults, shown, closed, pending, delayed, placeholder, final>>

PulseAnswered ==
  /\ pulse = "edit"
  /\ \E answer \in Answers : Answered("live", answer)
  /\ pulse' = "sleep"
  /\ lock' = "free"
  /\ UNCHANGED <<at, closed, pending, delayed, placeholder, final>>

DelayedFlushes ==
  /\ delayed = "sleep"
  /\ CanFlush
  /\ delayed' = "edit"
  /\ lock' = "delayed"
  /\ UNCHANGED <<at, faults, shown, closed, pending, pulse, placeholder, final>>

DelayedAnswered ==
  /\ delayed = "edit"
  /\ \E answer \in Answers : Answered("live", answer)
  /\ delayed' = "none"
  /\ lock' = "free"
  /\ UNCHANGED <<at, closed, pending, pulse, placeholder, final>>

(* A delayed edit that wakes after the card was closed does nothing. *)
DelayedIsLate ==
  /\ delayed = "sleep"
  /\ closed
  /\ delayed' = "none"
  /\ UNCHANGED <<at, faults, shown, closed, pending, lock, pulse, placeholder, final>>

-----------------------------------------------------------------------------
(* update(state): visible says whether the state has anything to show *)

(* The interval since the last edit has passed, or the edit is put off.    *)
Draw ==
  /\ pending' = TRUE
  /\ \/ at' = "update_lock" /\ UNCHANGED delayed
     \/ /\ at' = "updated"
        /\ delayed' = IF delayed = "none" THEN "sleep" ELSE delayed

Update(visible) ==
  /\ at = "update"
  /\ \/ /\ visible
        /\ StopRaises
        /\ anim' = "stopped"
        /\ at' = "updated"
        /\ UNCHANGED <<shown, pending, delayed, hasAnim>>
     \/ /\ visible
        /\ ~StopRaises
        /\ hasAnim' = FALSE
        /\ anim' = IF hasAnim THEN "stopped" ELSE anim
        /\ shown' \in {shown} \cup (InFlight \cap {"status"})
        /\ Draw
     \/ /\ ~visible
        /\ UNCHANGED <<shown, hasAnim, anim>>
        /\ Draw
  /\ UNCHANGED <<faults, closed, lock, pulse, preset, final>>

UpdateFlushes ==
  /\ at = "update_lock"
  /\ lock = "free"
  /\ lock' = "main"
  /\ at' = "update_edit"
  /\ UNCHANGED <<faults, shown, closed, pending, tasks, placeholder, final>>

UpdateAnswered ==
  /\ at = "update_edit"
  /\ \E answer \in Answers : Answered("live", answer)
  /\ lock' = "free"
  /\ at' = "updated"
  /\ UNCHANGED <<closed, pending, tasks, placeholder, final>>

-----------------------------------------------------------------------------
(* finalize(state, footer) and shutdown() *)

Released(holders) == IF lock \in holders THEN "free" ELSE lock

(* Mutant: the animation is not stopped. *)
FinalizeBegunAnimated ==
  /\ at = "close"
  /\ closed' = TRUE
  /\ pulse' = "off"
  /\ at' = "close_lock"
  /\ shown' \in {shown} \cup (InFlight \cap {"live"})
  /\ lock' = Released({"pulse", "delayed"})
  /\ pending' = TRUE
  /\ delayed' = "none"
  /\ hasAnim' = FALSE
  /\ UNCHANGED <<faults, anim, preset, final>>

(* The activity loop, the animation and the delayed edit are cancelled and *)
(* awaited in this order; an animation that had died raises in between.    *)
FinalizeBegun ==
  /\ at = "close"
  /\ closed' = TRUE
  /\ pulse' = "off"
  /\ anim' = IF hasAnim THEN "stopped" ELSE anim
  /\ IF StopRaises
       THEN /\ at' = "card_failed"
            /\ shown' \in {shown} \cup (IF pulse = "edit" THEN {"live"} ELSE {})
            /\ lock' = Released({"pulse"})
            /\ UNCHANGED <<pending, delayed, hasAnim>>
       ELSE /\ at' = "close_lock"
            /\ shown' \in {shown} \cup InFlight
            /\ lock' = Released({"pulse", "delayed"})
            /\ pending' = TRUE
            /\ delayed' = "none"
            /\ hasAnim' = FALSE
  /\ UNCHANGED <<faults, preset, final>>

FinalizeFlushes ==
  /\ at = "close_lock"
  /\ lock = "free"
  /\ lock' = "main"
  /\ at' = "close_edit"
  /\ UNCHANGED <<faults, shown, closed, pending, tasks, placeholder, final>>

(* RetryAfter is slept and tried again; a refused formatted text is sent   *)
(* once more as plain text, and a lost answer is tried once more.  Notices *)
(* have no body to format and are given up when refused.                   *)
FinalizeAnswered ==
  /\ at = "close_edit"
  /\ \E answer \in Answers :
       /\ Answered(final, answer)
       /\ at' = CASE answer = "flood" -> "close_lock"
                  [] answer = "bad" /\ final = "answer" -> "close_plain"
                  [] answer = "timeout" -> "close_again"
                  [] OTHER -> "closed"
       /\ lock' = IF at' \in {"close_plain", "close_again"} THEN lock ELSE "free"
  /\ UNCHANGED <<closed, pending, tasks, placeholder, final>>

(* The plain text may fail with anything: only an unchanged text is taken  *)
(* as success.                                                             *)
PlainAnswered ==
  /\ at = "close_plain"
  /\ \E answer \in Answers :
       /\ Answered(final, answer)
       /\ at' = IF answer \in {"ok", "unmodified"} THEN "closed" ELSE "card_failed"
  /\ lock' = "free"
  /\ UNCHANGED <<closed, pending, tasks, placeholder, final>>

AgainAnswered ==
  /\ at = "close_again"
  /\ \E answer \in Answers : Answered(final, answer)
  /\ at' = "closed"
  /\ lock' = "free"
  /\ UNCHANGED <<closed, pending, tasks, placeholder, final>>

(* shutdown(): the tasks are cancelled and the message is left as it is. *)
Shutdown ==
  /\ closed' = TRUE
  /\ pulse' = "off"
  /\ delayed' = "none"
  /\ lock' = Released({"pulse", "delayed"})
  /\ shown' \in {shown} \cup (InFlight \cap {"live"})

(* A renderer of the same message for the next observer. *)
NewRenderer ==
  /\ closed' = FALSE
  /\ pending' = FALSE
  /\ lock' = "free"
  /\ pulse' = "sleep"
  /\ delayed' = "none"
  /\ UNCHANGED <<shown, placeholder, final>>

Background ==
  \/ AnimTicks \/ AnimAnswered
  \/ PulseFlushes \/ PulseAnswered
  \/ DelayedFlushes \/ DelayedAnswered \/ DelayedIsLate

Drawing ==
  \/ PresetStarts \/ PresetAnswered
  \/ UpdateFlushes \/ UpdateAnswered
  \/ FinalizeBegun \/ FinalizeFlushes \/ FinalizeAnswered \/ PlainAnswered \/ AgainAnswered
=============================================================================

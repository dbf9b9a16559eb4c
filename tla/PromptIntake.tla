---------------------------- MODULE PromptIntake ----------------------------
(***************************************************************************)
(* How the messages of one Telegram user become prompts.  Texts and        *)
(* pictures wait in a quiet-period buffer (prompt_coalesce), the pictures  *)
(* of an album in a collector before it (telegram_images), forwarded       *)
(* messages in a buffer that the next question or a timeout sends          *)
(* (forward_context).  A prompt without pictures is dispatched as a        *)
(* durable job, one with pictures goes through the queue of the bot        *)
(* process (job_queue, run_executor).                                      *)
(*                                                                         *)
(* python-telegram-bot handles the updates of the bot one after another,   *)
(* so there is one `handler'.  Beside it run the timer tasks, the flushes  *)
(* they start, and the worker task of the queue; they interleave at every  *)
(* await.  A region under an asyncio.Lock with no await in it is atomic;   *)
(* the lock of the forward buffer is also held while Telegram is called.   *)
(***************************************************************************)
EXTENDS Naturals, FiniteSets, Sequences

CONSTANTS
  Texts, Photos,      \* plain texts and single pictures
  GroupPhotos,        \* the parts of one album
  Forwards,           \* forwarded messages that are not part of an album
  AlbumForwards,      \* the parts of one forwarded album
  Voices, Documents,  \* voice messages, PDF and DOCX files
  NoMsg,              \* the handler works on no message
  MaxPhotos,          \* PHOTO_MAX_COUNT
  MaxItems,           \* FORWARD_CONTEXT_MAX_ITEMS
  QueueDepth,         \* JOB_QUEUE_DEPTH
  VoiceConfirm,       \* VOICE_REQUIRE_CONFIRM
  Faults,             \* kinds of failure that may happen
  MaxMessages,        \* bound: messages the user sends
  MaxCommands         \* bound: /cancel, the cancel button and /new together

Pictures == Photos \cup GroupPhotos \cup AlbumForwards
Messages == Texts \cup Photos \cup GroupPhotos \cup Forwards \cup AlbumForwards
              \cup Voices \cup Documents
Commands == {"cancel", "button", "new"}

(* invalid: no repository, mode or policy; blocked: the policy refuses the  *)
(* job; telegram: a call raises before the prompt is handed over; late:     *)
(* after it; download: a picture; mute: no speech recognised; setup:        *)
(* memory or brief raise between the placeholder and the try block.         *)
FaultKinds == {"invalid", "blocked", "telegram", "late", "download", "mute", "setup"}

ASSUME IntakeAssumption ==
  /\ MaxPhotos \in Nat \ {0} /\ MaxItems \in Nat \ {0}
  /\ QueueDepth \in Nat /\ MaxCommands \in Nat /\ MaxMessages \in Nat
  /\ VoiceConfirm \in BOOLEAN
  /\ Faults \subseteq FaultKinds
  /\ NoMsg \notin Messages

VARIABLES
  received,   \* messages the handler has begun to work on
  handler,    \* the update being handled: where it is and its message
  commands,   \* commands so far
  coalesce,   \* PromptCoalesceBuffer._pending of the user
  coTimer,    \* its flush_task is alive
  group,      \* MediaGroupCollector._buffers of the album
  groupTimer,
  adding,     \* on_media_group_flush: pictures not yet handed to the buffer
  forward,    \* ForwardContextBuffer._buffers: a set of items
  fwTimer,    \* the flush_task the buffer knows of is alive
  stray,      \* timeout tasks no buffer knows of any more
  album,      \* ForwardContextBuffer._albums of the forwarded album
  albumTimer,
  albumTask,  \* _flush_album_group: where it is and its messages
  lock,       \* ForwardContextBuffer._lock while it is held across an await
  flights,    \* flushes under way
  drafts,     \* voice drafts waiting for a confirmation in Redis
  queue,      \* JobQueue._pending of the user
  running,    \* the prompt the queue's worker works on
  runAt,      \* where _run_job is
  stop,       \* cancel requested: JobQueue._cancel_requested or the Redis flag
  slotRun,    \* the slot's active_run_id is bound by this run
  activeRun,  \* app.active_runs has an entry for the user
  given,      \* history: how often a message was handed to an agent
  cleared,    \* history: /cancel or /new took it back
  vanished,   \* history: it left the program without a word
  redo        \* history: it was handed over and the flush failed afterwards

intake == <<received, handler, commands>>
coVars == <<coalesce, coTimer>>
groupVars == <<group, groupTimer, adding>>
fwVars == <<forward, fwTimer, stray>>
albumVars == <<album, albumTimer, albumTask>>
runVars == <<queue, running, runAt, stop, slotRun, activeRun>>
fate == <<given, cleared, vanished, redo>>
vars == <<intake, coVars, groupVars, fwVars, albumVars, lock, flights, drafts, runVars, fate>>

Idle == [at |-> "idle", msg |-> NoMsg]
NoTask == [at |-> "none", msgs |-> {}]
Msgs(f) == (UNION f.items) \cup f.trigger
HasTexts(ms) == ms \ Pictures # {}
Active == runAt # "none"

Init ==
  /\ received = {} /\ handler = Idle /\ commands = 0
  /\ coalesce = {} /\ coTimer = FALSE
  /\ group = {} /\ groupTimer = FALSE /\ adding = {}
  /\ forward = {} /\ fwTimer = FALSE /\ stray = 0
  /\ album = {} /\ albumTimer = FALSE /\ albumTask = NoTask
  /\ lock = FALSE /\ flights = {} /\ drafts = {}
  /\ queue = <<>> /\ running = {} /\ runAt = "none"
  /\ stop = FALSE /\ slotRun = FALSE /\ activeRun = FALSE
  /\ given = [m \in Messages |-> 0]
  /\ cleared = {} /\ vanished = {} /\ redo = {}


(* The user is sent a message that says ms were not taken; nothing else     *)
(* remembers them.                                                          *)
Tell(ms) == ms # {} /\ UNCHANGED fate

Give(ms) == given' = [m \in Messages |-> given[m] + IF m \in ms THEN 1 ELSE 0]

-----------------------------------------------------------------------------
(* The handler takes the next update                                         *)

Receive(m) ==
  /\ handler = Idle /\ m \notin received /\ Cardinality(received) < MaxMessages
  /\ received' = received \cup {m}

Begin(m, at) ==
  /\ Receive(m)
  /\ handler' = [at |-> at, msg |-> m]
  /\ UNCHANGED commands

(* text_handler looks into the forward buffer, then awaits the reaction: the *)
(* text becomes the question of the forwards or a part of the next prompt.   *)
TakeText(m) ==
  /\ m \in Texts /\ Begin(m, IF forward # {} THEN "trigger" ELSE "append")
  /\ UNCHANGED <<coVars, groupVars, fwVars, albumVars, lock, flights, drafts, runVars, fate>>

(* The request is refused before anything is buffered.                       *)
Refused(m) ==
  /\ "invalid" \in Faults
  /\ m \in Photos \cup Voices \cup Documents /\ Receive(m) /\ Tell({m})
  /\ UNCHANGED <<handler, commands, coVars, groupVars, fwVars, albumVars, lock, flights,
                 drafts, runVars>>

TakePhoto(m) ==
  /\ m \in Photos /\ Begin(m, "append")
  /\ UNCHANGED <<coVars, groupVars, fwVars, albumVars, lock, flights, drafts, runVars, fate>>

(* A voice message asks the forwards' question, or first sends what the      *)
(* quiet-period buffer holds (flush_now) and waits for that.                 *)
TakeVoice(m) ==
  /\ m \in Voices
  /\ \/ forward # {} /\ Begin(m, "trigger") /\ UNCHANGED <<coVars, flights>>
     \/ forward = {} /\ coalesce = {} /\ Begin(m, "direct") /\ UNCHANGED <<coVars, flights>>
     \/ /\ forward = {} /\ coalesce # {} /\ Begin(m, "flushing")
        /\ flights' = flights \cup {[src |-> "coalesce", by |-> "handler", items |-> {coalesce},
                                     trigger |-> {}, at |-> "build"]}
        /\ coalesce' = {} /\ coTimer' = FALSE
  /\ UNCHANGED <<groupVars, fwVars, albumVars, lock, drafts, runVars, fate>>

TakeDocument(m) ==
  /\ m \in Documents /\ Begin(m, "direct")
  /\ UNCHANGED <<coVars, groupVars, fwVars, albumVars, lock, flights, drafts, runVars, fate>>

(* MediaGroupCollector.add: a part beyond the limit is not kept; the timer   *)
(* starts again with every part.                                             *)
TakeGroupPart(m) ==
  /\ m \in GroupPhotos /\ Receive(m)
  /\ \/ Cardinality(group) < MaxPhotos /\ group' = group \cup {m} /\ UNCHANGED fate
     \/ /\ Cardinality(group) >= MaxPhotos /\ group' = group
        /\ vanished' = vanished \cup {m} /\ UNCHANGED <<given, cleared, redo>>
  /\ groupTimer' = TRUE
  /\ UNCHANGED <<handler, commands, adding, coVars, fwVars, albumVars, lock, flights, drafts,
                 runVars>>

(* add_forward: one more item, the timeout starts again; a full buffer only  *)
(* updates its hint.                                                         *)
TakeForward(m) ==
  /\ m \in Forwards /\ lock = FALSE
  /\ Begin(m, "hint")
  /\ \/ /\ Cardinality(forward) < MaxItems
        /\ forward' = forward \cup {{m}} /\ fwTimer' = TRUE
        /\ UNCHANGED <<stray, fate>>
     \/ Cardinality(forward) >= MaxItems /\ Tell({m}) /\ UNCHANGED fwVars
  /\ UNCHANGED <<coVars, groupVars, albumVars, lock, flights, drafts, runVars>>

(* _add_album_part: a part that comes while its album is being added is      *)
(* dropped.                                                                  *)
TakeAlbumForward(m) ==
  /\ m \in AlbumForwards /\ lock = FALSE /\ Receive(m)
  /\ \/ /\ albumTask = NoTask /\ album' = album \cup {m} /\ albumTimer' = TRUE
        /\ UNCHANGED fate
     \/ /\ albumTask # NoTask /\ UNCHANGED <<album, albumTimer>>
        /\ vanished' = vanished \cup {m} /\ UNCHANGED <<given, cleared, redo>>
  /\ UNCHANGED <<handler, commands, albumTask, coVars, groupVars, fwVars, lock, flights, drafts,
                 runVars>>

-----------------------------------------------------------------------------
(* The handler goes on after an await                                        *)

(* add_text and add_photo: the old timer is cancelled, a new one created.    *)
RescheduledLost == coTimer' = FALSE \* a bug: cancelled, none created
Rescheduled == coTimer' = TRUE

AppendPart ==
  /\ handler.at = "append"
  /\ coalesce' = coalesce \cup {handler.msg} /\ Rescheduled
  /\ handler' = Idle
  /\ UNCHANGED <<received, commands, groupVars, fwVars, albumVars, lock, flights, drafts,
                 runVars, fate>>

(* _update_hint: nothing to do when the buffer has gone; otherwise Telegram  *)
(* is called with the lock held.                                             *)
HintBegins ==
  /\ handler.at = "hint" /\ lock = FALSE
  /\ \/ forward = {} /\ handler' = Idle /\ UNCHANGED lock
     \/ forward # {} /\ handler' = [handler EXCEPT !.at = "hinting"] /\ lock' = TRUE
  /\ UNCHANGED <<received, commands, coVars, groupVars, fwVars, albumVars, flights, drafts,
                 runVars, fate>>

HintEnds ==
  /\ handler.at = "hinting" /\ handler' = Idle /\ lock' = FALSE
  /\ UNCHANGED <<received, commands, coVars, groupVars, fwVars, albumVars, flights, drafts,
                 runVars, fate>>

(* _flush under the lock: the buffer is taken out as a whole and its timer   *)
(* cancelled, so no other flush finds it.                                    *)
PoppedCopied == UNCHANGED forward /\ fwTimer' = FALSE  \* a bug: read, not taken
Popped == forward' = {} /\ fwTimer' = FALSE

Launch(by, trigger) ==
  flights' = flights \cup {[src |-> "forward", by |-> by, items |-> forward,
                            trigger |-> trigger, at |-> "build"]}

(* flush_with_trigger.  The timeout may have taken the buffer since the      *)
(* handler saw items in it: then the question goes nowhere.                  *)
Trigger ==
  /\ handler.at = "trigger" /\ lock = FALSE
  /\ \/ /\ forward # {} /\ Launch("handler", {handler.msg}) /\ Popped
        /\ handler' = [handler EXCEPT !.at = "flight"]
        /\ UNCHANGED <<stray, fate>>
     \/ /\ forward = {} /\ handler' = Idle
        /\ vanished' = vanished \cup {handler.msg}
        /\ UNCHANGED <<fwVars, flights, given, cleared, redo>>
  /\ UNCHANGED <<received, commands, coVars, groupVars, albumVars, lock, drafts, runVars>>

(* A voice message by itself: transcribed, then dispatched or put up for     *)
(* confirmation, or reported.                                                *)
DirectVoice ==
  /\ handler.at = "direct" /\ handler.msg \in Voices /\ handler' = Idle
  /\ \/ /\ ~VoiceConfirm /\ Give({handler.msg})
        /\ UNCHANGED <<cleared, vanished, redo, drafts>>
     \/ VoiceConfirm /\ drafts' = drafts \cup {handler.msg} /\ UNCHANGED fate
     \/ /\ Faults \cap {"telegram", "mute", "blocked", "invalid"} # {}
        /\ Tell({handler.msg}) /\ UNCHANGED drafts
  /\ UNCHANGED <<received, commands, coVars, groupVars, fwVars, albumVars, lock, flights, runVars>>

(* A document is fetched, extracted and dispatched, or reported.             *)
Unreadable == Faults \cap {"download", "telegram"} # {}

DirectDocument ==
  /\ handler.at = "direct" /\ handler.msg \in Documents /\ handler' = Idle
  /\ \/ Give({handler.msg}) /\ UNCHANGED <<cleared, vanished, redo>>
     \/ /\ Unreadable \/ Faults \cap {"blocked", "invalid"} # {}
        /\ Tell({handler.msg})
  /\ UNCHANGED <<received, commands, coVars, groupVars, fwVars, albumVars, lock, flights, drafts,
                 runVars>>

(* The buttons of a voice draft: GETDEL makes the first one count.           *)
ConfirmDraft(m, confirm) ==
  /\ handler = Idle /\ m \in drafts /\ drafts' = drafts \ {m}
  /\ \/ confirm /\ Give({m}) /\ UNCHANGED <<cleared, vanished, redo>>
     \/ ~confirm /\ cleared' = cleared \cup {m} /\ UNCHANGED <<given, vanished, redo>>
  /\ UNCHANGED <<intake, coVars, groupVars, fwVars, albumVars, lock, flights, runVars>>

DraftExpires(m) ==
  /\ m \in drafts /\ drafts' = drafts \ {m} /\ Tell({m})
  /\ UNCHANGED <<intake, coVars, groupVars, fwVars, albumVars, lock, flights, runVars>>

-----------------------------------------------------------------------------
(* Timer tasks.  The quiet period ends and the buffer is taken out.          *)
CoalesceFires ==
  /\ coTimer /\ coTimer' = FALSE
  /\ coalesce' = {}
  /\ flights' = flights \cup {[src |-> "coalesce", by |-> "timer", items |-> {coalesce},
                               trigger |-> {}, at |-> "build"]}
  /\ UNCHANGED <<intake, groupVars, fwVars, albumVars, lock, drafts, runVars, fate>>

(* _flush_group and on_media_group_flush: the album leaves the collector and *)
(* its parts join the quiet-period buffer one by one.                        *)
GroupFires ==
  /\ groupTimer /\ groupTimer' = FALSE
  /\ group' = {}
  /\ \/ adding' = adding \cup group /\ UNCHANGED fate
     \/ "invalid" \in Faults /\ Tell(group) /\ UNCHANGED adding
  /\ UNCHANGED <<intake, coVars, fwVars, albumVars, lock, flights, drafts, runVars>>

AddFromGroup(m) ==
  /\ m \in adding /\ adding' = adding \ {m}
  /\ coalesce' = coalesce \cup {m} /\ Rescheduled
  /\ UNCHANGED <<intake, group, groupTimer, fwVars, albumVars, lock, flights, drafts, runVars,
                 fate>>

(* The timeout of the forwards, or of a buffer that was overwritten: either  *)
(* sends what is there.                                                      *)
TimeoutFires ==
  /\ lock = FALSE
  /\ \/ fwTimer /\ UNCHANGED stray
     \/ stray > 0 /\ stray' = stray - 1
  /\ IF forward # {} THEN Launch("timer", {}) ELSE UNCHANGED flights
  /\ IF forward # {} THEN Popped ELSE UNCHANGED <<forward, fwTimer>>
  /\ UNCHANGED <<intake, coVars, groupVars, albumVars, lock, drafts, runVars, fate>>

(* _flush_album_group takes the album out, add_album makes one item of it.   *)
AlbumFires ==
  /\ albumTimer /\ lock = FALSE /\ albumTask = NoTask
  /\ albumTimer' = FALSE /\ album' = {}
  /\ albumTask' = [at |-> "add", msgs |-> album]
  /\ UNCHANGED <<intake, coVars, groupVars, fwVars, lock, flights, drafts, runVars, fate>>

AddAlbum ==
  /\ albumTask.at = "add" /\ lock = FALSE
  /\ \/ /\ Cardinality(forward) < MaxItems
        /\ forward' = forward \cup {albumTask.msgs} /\ fwTimer' = TRUE
        /\ UNCHANGED <<stray, fate>>
     \/ Cardinality(forward) >= MaxItems /\ Tell(albumTask.msgs) /\ UNCHANGED fwVars
  /\ albumTask' = [albumTask EXCEPT !.at = "hint"] /\ lock' = TRUE
  /\ UNCHANGED <<intake, coVars, groupVars, album, albumTimer, flights, drafts, runVars>>

AlbumHintEnds ==
  /\ albumTask.at = "hint" /\ albumTask' = NoTask /\ lock' = FALSE
  /\ UNCHANGED <<intake, coVars, groupVars, fwVars, album, albumTimer, flights, drafts, runVars,
                 fate>>

-----------------------------------------------------------------------------
(* Flushes                                                                   *)

(* A flush of the handler lets it go on: to the next update, or to the voice *)
(* message it was sent ahead of.                                             *)
Returns(f) ==
  handler' = IF f.by = "timer" THEN handler
             ELSE IF handler.at = "flushing" THEN [handler EXCEPT !.at = "direct"]
             ELSE Idle

Lands(f) == /\ flights' = flights \ {f} /\ Returns(f)
            /\ UNCHANGED <<received, commands, groupVars, albumVars, lock, drafts>>

(* A flush of the quiet-period buffer that fails tells the user; the parts   *)
(* are not put back.                                                         *)
CoalesceFails(f) ==
  /\ f.src = "coalesce" /\ f.at # "late"
  /\ f.at = "build" => Faults \cap {"invalid", "telegram", "download"} # {}
  /\ f.at = "submit" => \/ Faults \cap {"invalid", "blocked"} # {}
                        \/ Msgs(f) \cap Pictures # {} /\ Active /\ Len(queue) >= QueueDepth
  /\ Lands(f) /\ Tell(Msgs(f))
  /\ UNCHANGED <<coVars, fwVars, runVars>>

(* The items go back when nothing newer waits; otherwise they are lost.  No  *)
(* timer is started for them.                                                *)
RestoreIfAbsent(f) ==
  /\ forward' = IF forward = {} THEN f.items ELSE forward
  /\ vanished' = IF forward = {} THEN vanished ELSE vanished \cup UNION f.items
  /\ UNCHANGED <<fwTimer, stray>>

(* The items replace what came in the meantime, whose timer goes on ticking  *)
(* unknown to the buffer.                                                    *)
Overwrite(f) ==
  /\ forward' = f.items
  /\ vanished' = vanished \cup ((UNION forward) \ UNION f.items)
  /\ stray' = stray + IF fwTimer THEN 1 ELSE 0
  /\ fwTimer' = FALSE

(* A flush of forwards that fails: refused or raising, the items go back     *)
(* where there is room; not understood or rejected, they go back regardless. *)
ForwardFails(f) ==
  /\ f.src = "forward" /\ lock = FALSE /\ f.at # "late"
  /\ \/ /\ f.at = "build" /\ Faults \cap {"invalid", "telegram", "download"} # {}
        /\ RestoreIfAbsent(f)
     \/ /\ \/ f.at = "build" /\ "mute" \in Faults /\ f.trigger \cap Voices # {}
           \/ f.at = "submit" /\ Faults \cap {"invalid", "blocked"} # {}
           \/ /\ f.at = "submit" /\ Msgs(f) \cap Pictures # {}
              /\ Active /\ Len(queue) >= QueueDepth
        /\ Overwrite(f)
  /\ Lands(f)
  /\ UNCHANGED <<coVars, runVars, given, cleared, redo>>

(* The request is valid; pictures and documents are fetched.                 *)
Fetched(pics) == IF "download" \in Faults THEN SUBSET pics ELSE {pics}

Limited(pics) == {kept \in SUBSET pics : /\ Cardinality(kept) <= MaxPhotos
                                         /\ kept = pics \/ Cardinality(kept) = MaxPhotos}

(* Without pictures that cannot be fetched or are too many, of which the     *)
(* user is told.                                                             *)
CoalesceBuilt(f) ==
  /\ f.at = "build" /\ f.src = "coalesce"
  /\ LET pics == Msgs(f) \cap Pictures IN
     \E got \in Fetched(pics) : \E kept \in Limited(got) :
       /\ kept # {} \/ HasTexts(Msgs(f))
       /\ flights' = (flights \ {f})
            \cup {[f EXCEPT !.at = "submit", !.items = {(Msgs(f) \ pics) \cup kept}]}
  /\ UNCHANGED <<intake, coVars, groupVars, fwVars, albumVars, lock, drafts, runVars, fate>>

(* A forward is quoted in the prompt with or without its picture.            *)
ForwardBuilt(f) ==
  /\ f.at = "build" /\ f.src = "forward"
  /\ flights' = (flights \ {f}) \cup {[f EXCEPT !.at = "submit"]}
  /\ UNCHANGED <<intake, coVars, groupVars, fwVars, albumVars, lock, drafts, runVars, fate>>

(* submit_user_prompt without pictures: a durable job; with pictures         *)
(* JobQueue.submit, which starts a worker or queues behind it.  After either *)
(* the user is sent a notice, and that may raise: state "late".              *)
Submitted(f) ==
  \/ /\ f.src = "coalesce" => Msgs(f) \cap Pictures = {}
     /\ Give(Msgs(f)) /\ UNCHANGED runVars
  \/ /\ Msgs(f) \cap Pictures # {} /\ UNCHANGED given
     /\ \/ /\ ~Active /\ queue = <<>>
           /\ running' = Msgs(f) /\ runAt' = "context" /\ UNCHANGED queue
        \/ /\ Active \/ queue # <<>>
           /\ Len(queue) < QueueDepth
           /\ queue' = Append(queue, Msgs(f)) /\ UNCHANGED <<running, runAt>>
     /\ UNCHANGED <<stop, slotRun, activeRun>>

Submit(f) ==
  /\ f.at = "submit" /\ Submitted(f)
  /\ \/ Lands(f)
     \/ /\ "late" \in Faults
        /\ flights' = (flights \ {f}) \cup {[f EXCEPT !.at = "late"]}
        /\ UNCHANGED <<intake, groupVars, albumVars, lock, drafts>>
  /\ UNCHANGED <<coVars, fwVars, cleared, vanished, redo>>

(* The exception clause of a flush cannot know that the prompt has been      *)
(* handed over: pictures and texts are reported as failed, forwards go back. *)
LateFailure(f) ==
  /\ f.at = "late" /\ Lands(f)
  /\ \/ f.src = "coalesce" /\ Tell(Msgs(f)) /\ UNCHANGED fwVars
     \/ /\ f.src = "forward" /\ lock = FALSE
        /\ forward' = IF forward = {} THEN f.items ELSE forward
        /\ redo' = IF forward = {} THEN redo \cup UNION f.items ELSE redo
        /\ UNCHANGED <<fwTimer, stray, given, cleared, vanished>>
  /\ UNCHANGED <<coVars, runVars>>

-----------------------------------------------------------------------------
(* JobQueue._worker and _run_job                                             *)

(* The prompt is over, the worker takes the next one or ends.                *)
NextPromptForgotten == \* a bug: the worker ends after its first prompt
  running' = {} /\ runAt' = "none" /\ UNCHANGED queue
NextPrompt ==
  IF queue = <<>> THEN running' = {} /\ runAt' = "none" /\ UNCHANGED queue
  ELSE running' = Head(queue) /\ runAt' = "context" /\ queue' = Tail(queue)

(* The finally clause of _run_job.                                           *)
RunCleanupUnbound == UNCHANGED slotRun /\ activeRun' = FALSE /\ stop' = FALSE \* a bug
RunCleanup == slotRun' = FALSE /\ activeRun' = FALSE /\ stop' = FALSE

QueueRest == <<intake, coVars, groupVars, fwVars, albumVars, lock, flights, drafts>>

(* Repository and slot are looked up again when the prompt's turn comes; the *)
(* run starts by erasing what /cancel requested.                             *)
RunStarts ==
  /\ runAt = "context"
  /\ \/ /\ runAt' = "placeholder" /\ stop' = FALSE
        /\ UNCHANGED <<queue, running, slotRun, activeRun, fate>>
     \/ /\ "invalid" \in Faults /\ NextPrompt /\ Tell(running)
        /\ UNCHANGED <<stop, slotRun, activeRun>>
  /\ UNCHANGED QueueRest

(* Neither a placeholder that cannot be sent nor an exception while memory   *)
(* and brief are collected reaches a clause that would tell the user or      *)
(* clean up: only the worker's log has it.                                   *)
RunPlaceholder ==
  /\ runAt = "placeholder"
  /\ \/ /\ runAt' = "setup" /\ activeRun' = TRUE
        /\ UNCHANGED <<queue, running, stop, slotRun, fate>>
     \/ /\ "telegram" \in Faults /\ NextPrompt /\ vanished' = vanished \cup running
        /\ UNCHANGED <<stop, slotRun, activeRun, given, cleared, redo>>
  /\ UNCHANGED QueueRest

RunSetup ==
  /\ runAt = "setup"
  /\ \/ /\ ~stop /\ runAt' = "update" /\ Give(running)
        /\ UNCHANGED <<queue, running, stop, slotRun, activeRun, cleared, vanished, redo>>
     \/ stop /\ RunCleanup /\ NextPrompt /\ Tell(running)
     \/ /\ "setup" \in Faults /\ NextPrompt /\ vanished' = vanished \cup running
        /\ UNCHANGED <<stop, slotRun, activeRun, given, cleared, redo>>
  /\ UNCHANGED QueueRest

(* on_update raises when a cancel is requested; otherwise it binds the run   *)
(* to the slot, some awaits later.  Further updates write the same again.    *)
RunUpdate ==
  /\ runAt = "update" /\ ~stop /\ ~slotRun /\ runAt' = "bind"
  /\ UNCHANGED <<queue, running, stop, slotRun, activeRun, fate, QueueRest>>

RunBind ==
  /\ runAt = "bind" /\ runAt' = "update" /\ slotRun' = TRUE
  /\ UNCHANGED <<queue, running, stop, activeRun, fate, QueueRest>>

RunEnds ==
  /\ runAt = "update" /\ RunCleanup /\ NextPrompt
  /\ UNCHANGED <<fate, QueueRest>>

-----------------------------------------------------------------------------
(* /cancel, the cancel button and /new                                       *)

Command(c) ==
  /\ handler = Idle /\ commands < MaxCommands /\ commands' = commands + 1
  /\ handler' = [at |-> "clear_forward", msg |-> c]
  /\ UNCHANGED <<received, coVars, groupVars, fwVars, albumVars, lock, flights, drafts, runVars,
                 fate>>

AfterForwards == IF handler.msg # "new" THEN "clear_coalesce"
                 ELSE IF Active \/ queue # <<>> THEN "clear_queue" ELSE "unbind_new"

(* ForwardContextBuffer.clear: items, timer and the albums still collecting. *)
ForwardsCounted == \* a bug: the items are counted and reported, the buffer stays
  /\ fwTimer' = FALSE /\ album' = {} /\ albumTimer' = FALSE /\ UNCHANGED forward
  /\ cleared' = cleared \cup (UNION forward) \cup album
ForwardsCleared == /\ forward' = {} /\ fwTimer' = FALSE /\ album' = {} /\ albumTimer' = FALSE
                   /\ cleared' = cleared \cup (UNION forward) \cup album

ClearForwards ==
  /\ handler.at = "clear_forward" /\ lock = FALSE
  /\ ForwardsCleared
  /\ handler' = [handler EXCEPT !.at = AfterForwards]
  /\ UNCHANGED <<received, commands, coVars, groupVars, stray, albumTask, lock, flights, drafts,
                 runVars, given, vanished, redo>>

(* The button leaves the albums that are still collecting alone.             *)
ClearCoalesce ==
  /\ handler.at = "clear_coalesce"
  /\ coalesce' = {} /\ coTimer' = FALSE
  /\ cleared' = cleared \cup coalesce
  /\ handler' = [handler EXCEPT !.at = IF handler.msg = "cancel" THEN "clear_group"
                                       ELSE "clear_queue"]
  /\ UNCHANGED <<received, commands, groupVars, fwVars, albumVars, lock, flights, drafts, runVars,
                 given, vanished, redo>>

ClearGroup ==
  /\ handler.at = "clear_group" /\ group' = {} /\ groupTimer' = FALSE
  /\ cleared' = cleared \cup group
  /\ handler' = [handler EXCEPT !.at = "clear_queue"]
  /\ UNCHANGED <<received, commands, adding, coVars, fwVars, albumVars, lock, flights, drafts,
                 runVars, given, vanished, redo>>

(* cancel_user_work                                                          *)
ClearQueue ==
  /\ handler.at = "clear_queue"
  /\ queue' = <<>> /\ stop' = TRUE
  /\ cleared' = cleared \cup UNION {queue[i] : i \in DOMAIN queue}
  /\ handler' = [handler EXCEPT !.at = "unbind"]
  /\ UNCHANGED <<received, commands, coVars, groupVars, fwVars, albumVars, lock, flights, drafts,
                 running, runAt, slotRun, activeRun, given, vanished, redo>>

Unbind ==
  /\ handler.at \in {"unbind", "unbind_new"} /\ handler' = Idle
  /\ slotRun' = IF handler.at = "unbind" THEN FALSE ELSE slotRun
  /\ activeRun' = FALSE
  /\ UNCHANGED <<received, commands, coVars, groupVars, fwVars, albumVars, lock, flights, drafts,
                 queue, running, runAt, stop, fate>>

-----------------------------------------------------------------------------
Handling ==
  \/ AppendPart \/ HintBegins \/ HintEnds \/ Trigger \/ DirectVoice \/ DirectDocument
  \/ ClearForwards \/ ClearCoalesce \/ ClearGroup \/ ClearQueue \/ Unbind
Timers ==
  \/ CoalesceFires \/ GroupFires \/ TimeoutFires \/ AlbumFires \/ AddAlbum \/ AlbumHintEnds
  \/ \E m \in GroupPhotos : AddFromGroup(m)
Flushing ==
  \E f \in flights : CoalesceFails(f) \/ ForwardFails(f) \/ CoalesceBuilt(f) \/ ForwardBuilt(f)
                       \/ Submit(f) \/ LateFailure(f)
Running == RunStarts \/ RunPlaceholder \/ RunSetup \/ RunUpdate \/ RunBind \/ RunEnds

Next ==
  \/ \E m \in Messages :
       \/ TakeText(m) \/ TakePhoto(m) \/ TakeVoice(m) \/ TakeDocument(m) \/ Refused(m)
       \/ TakeGroupPart(m) \/ TakeForward(m) \/ TakeAlbumForward(m)
       \/ DraftExpires(m) \/ \E c \in BOOLEAN : ConfirmDraft(m, c)
  \/ \E c \in Commands : Command(c)
  \/ Handling \/ Timers \/ Flushing \/ Running

Spec == Init /\ [][Next]_vars

-----------------------------------------------------------------------------
(* Properties                                                                *)

(* Whatever waits has somebody who will come for it: content and timer of    *)
(* the buffers go together, a queued prompt has a worker ahead of it, and    *)
(* the slot is bound only while the worker runs (prompt_coalesce,            *)
(* telegram_images, forward_context, job_queue, run_executor).               *)
WaitingIsArmed ==
  /\ (coalesce # {}) = coTimer
  /\ (group # {}) = groupTimer
  /\ (album # {}) = albumTimer
  /\ fwTimer => forward # {}
  /\ queue # <<>> => Active
  /\ Len(queue) <= QueueDepth
  /\ slotRun => Active

(* A message is in one prompt only, in the queue, with the worker or handed  *)
(* to an agent: buffers are taken out before the awaits of a flush.  The     *)
(* exception is a forward put back by a flush that failed after the prompt   *)
(* had been handed over.                                                     *)
Copies(m) ==
  given[m] + Cardinality({i \in DOMAIN queue : m \in queue[i]})
    + IF m \in running /\ runAt \in {"context", "placeholder", "setup"} THEN 1 ELSE 0

SubmittedOnce == \A m \in Messages \ redo : Copies(m) <= 1

(* What /cancel, the cancel button or /new took back never reaches an agent, *)
(* although timers, flushes and the worker go on beside the command.         *)
ClearedIsNotSent ==
  [][\A m \in cleared \ redo : given'[m] = given[m]]_vars

(* Fairness: as long as a task of the event loop can go on, one of them      *)
(* does; a timer that has run down and a Cursor run that ends count as such. *)
FairSpec == Spec /\ WF_vars(Handling \/ Timers \/ Flushing \/ Running)

(* After the user's last message nothing stays on the way for ever: every    *)
(* message is handed over, reported, taken back or lost, or it lies with     *)
(* forwards that were put back and wait, as the user was told, for the next  *)
(* question.                                                                 *)
OnItsWay(m) ==
  \/ handler.msg = m \/ m \in coalesce \cup group \cup adding \cup album \cup albumTask.msgs
  \/ \E f \in flights : m \in Msgs(f)
  \/ \E i \in DOMAIN queue : m \in queue[i]
  \/ m \in running
  \/ fwTimer /\ m \in UNION forward

NothingStaysPending == <>[](\A m \in Messages : ~OnItsWay(m))

-----------------------------------------------------------------------------
(* Statements of the documents that the code does not keep                   *)

(* docs/USER_GUIDE.md: the next text or voice message goes to the agent      *)
(* together with the forwards.  A question does not get lost.                *)
QuestionIsAnswered == vanished \cap (Texts \cup Voices) = {}

(* docs/USER_GUIDE.md: pictures beyond the limit are refused with an error,  *)
(* not cut off silently.                                                     *)
ExcessIsReported == vanished \cap GroupPhotos = {}
=============================================================================

----------------------- MODULE PromptIntakeTheorems -------------------------
(***************************************************************************)
(* Proofs, for any number of messages, commands, flushes and failures: that  *)
(* nothing waits without somebody who will come for it, that a message is in *)
(* one prompt only, and that what was taken back is never sent.              *)
(***************************************************************************)
EXTENDS PromptIntake, FiniteSetTheorems, SequenceTheorems, TLAPS

(* content and timer of the buffers                                          *)
BuffersArmed ==
  /\ (coalesce # {}) = coTimer
  /\ (group # {}) = groupTimer
  /\ (album # {}) = albumTimer
  /\ fwTimer => forward # {}

(* The queue has its worker; the slot is bound only between the first update *)
(* and the cleanup of the run.                                               *)
IsSequence(q) == \E S : q \in Seq(S)
WorkerArmed ==
  /\ IsSequence(queue)
  /\ queue # <<>> => Active
  /\ Len(queue) <= QueueDepth
  /\ slotRun => runAt \in {"update", "bind"}

buffers == <<coalesce, coTimer, group, groupTimer, album, albumTimer, forward, fwTimer>>
worker == <<queue, runAt, slotRun>>

USE IntakeAssumption
USE DEF intake, coVars, groupVars, fwVars, albumVars, runVars, fate, QueueRest

-----------------------------------------------------------------------------
(* Buffers *)

LEMMA BuffersInitially == Init => BuffersArmed
BY DEF Init, BuffersArmed

LEMMA BuffersRest ==
  ASSUME BuffersArmed, UNCHANGED buffers
  PROVE  BuffersArmed'
BY DEF BuffersArmed, buffers

(* the handler begins with a message                                         *)
LEMMA TakingKeepsBuffers ==
  ASSUME BuffersArmed, NEW m \in Messages,
         \/ TakeText(m) \/ TakePhoto(m) \/ TakeVoice(m) \/ TakeDocument(m) \/ Refused(m)
         \/ TakeGroupPart(m) \/ TakeForward(m) \/ TakeAlbumForward(m)
  PROVE  BuffersArmed'
<1>1. CASE TakeText(m) \/ TakePhoto(m) \/ TakeDocument(m) \/ Refused(m)
  <2>1. UNCHANGED buffers
    BY <1>1 DEF TakeText, TakePhoto, TakeDocument, Refused, buffers
  <2>2. QED BY <2>1, BuffersRest
<1>2. CASE TakeVoice(m)
  BY <1>2 DEF TakeVoice, BuffersArmed
<1>3. CASE TakeGroupPart(m)
  <2>1. group' # {}
    <3>1. CASE group' = group \cup {m} BY <3>1
    <3>2. CASE Cardinality(group) >= MaxPhotos /\ group' = group
      BY <3>2, FS_EmptySet
    <3>3. QED BY <1>3, <3>1, <3>2 DEF TakeGroupPart
  <2>2. QED BY <1>3, <2>1 DEF TakeGroupPart, BuffersArmed
<1>4. CASE TakeForward(m)
  BY <1>4 DEF TakeForward, BuffersArmed
<1>5. CASE TakeAlbumForward(m)
  BY <1>5 DEF TakeAlbumForward, BuffersArmed
<1>6. QED BY <1>1, <1>2, <1>3, <1>4, <1>5

LEMMA HandlingKeepsBuffers ==
  ASSUME BuffersArmed, Handling
  PROVE  BuffersArmed'
<1>1. CASE AppendPart
  BY <1>1 DEF AppendPart, Rescheduled, BuffersArmed
<1>2. CASE Trigger
  BY <1>2 DEF Trigger, Popped, BuffersArmed
<1>3. CASE ClearForwards
  BY <1>3 DEF ClearForwards, ForwardsCleared, BuffersArmed
<1>4. CASE ClearCoalesce \/ ClearGroup
  <2>1. CASE ClearCoalesce BY <2>1 DEF ClearCoalesce, BuffersArmed
  <2>2. CASE ClearGroup BY <2>2 DEF ClearGroup, BuffersArmed
  <2>3. QED BY <1>4, <2>1, <2>2
<1>5. CASE HintBegins \/ HintEnds \/ DirectVoice \/ DirectDocument \/ ClearQueue \/ Unbind
  <2>1. UNCHANGED buffers
    BY <1>5 DEF HintBegins, HintEnds, DirectVoice, DirectDocument, ClearQueue, Unbind, buffers
  <2>2. QED BY <2>1, BuffersRest
<1>6. QED BY <1>1, <1>2, <1>3, <1>4, <1>5 DEF Handling

LEMMA TimersKeepBuffers ==
  ASSUME BuffersArmed, Timers
  PROVE  BuffersArmed'
<1>1. CASE CoalesceFires BY <1>1 DEF CoalesceFires, BuffersArmed
<1>2. CASE GroupFires BY <1>2 DEF GroupFires, BuffersArmed
<1>3. CASE TimeoutFires BY <1>3 DEF TimeoutFires, Popped, BuffersArmed
<1>4. CASE AlbumFires BY <1>4 DEF AlbumFires, BuffersArmed
<1>5. CASE AddAlbum BY <1>5 DEF AddAlbum, BuffersArmed
<1>6. CASE AlbumHintEnds
  BY <1>6, BuffersRest DEF AlbumHintEnds, buffers
<1>7. ASSUME NEW m \in GroupPhotos, AddFromGroup(m) PROVE BuffersArmed'
  BY <1>7 DEF AddFromGroup, Rescheduled, BuffersArmed
<1>8. QED BY <1>1, <1>2, <1>3, <1>4, <1>5, <1>6, <1>7 DEF Timers

(* what a failed flush puts back has no timer                                *)
LEMMA FlushingKeepsBuffers ==
  ASSUME BuffersArmed, Flushing
  PROVE  BuffersArmed'
<1>1. PICK f \in flights : \/ CoalesceFails(f) \/ ForwardFails(f) \/ CoalesceBuilt(f)
                           \/ ForwardBuilt(f) \/ Submit(f) \/ LateFailure(f)
  BY DEF Flushing
<1>2. CASE ForwardFails(f)
  BY <1>2 DEF ForwardFails, RestoreIfAbsent, Overwrite, Lands, BuffersArmed
<1>3. CASE LateFailure(f)
  BY <1>3 DEF LateFailure, Lands, BuffersArmed
<1>4. CASE CoalesceFails(f) \/ CoalesceBuilt(f) \/ ForwardBuilt(f) \/ Submit(f)
  <2>1. UNCHANGED buffers
    BY <1>4 DEF CoalesceFails, CoalesceBuilt, ForwardBuilt, Submit, Lands, buffers
  <2>2. QED BY <2>1, BuffersRest
<1>5. QED BY <1>1, <1>2, <1>3, <1>4

LEMMA OtherStepsKeepBuffers ==
  ASSUME BuffersArmed,
         \/ \E m \in Messages : DraftExpires(m) \/ \E c \in BOOLEAN : ConfirmDraft(m, c)
         \/ \E c \in Commands : Command(c)
         \/ Running \/ UNCHANGED vars
  PROVE  BuffersArmed'
<1>1. UNCHANGED buffers
  BY DEF DraftExpires, ConfirmDraft, Command, Running, RunStarts, RunPlaceholder, RunSetup,
     RunUpdate, RunBind, RunEnds, vars, buffers
<1>2. QED BY <1>1, BuffersRest

-----------------------------------------------------------------------------
(* Queue and worker *)

LEMMA EmptyQueue == IsSequence(<<>>) /\ Len(<<>>) = 0
BY DEF IsSequence

LEMMA LongerQueue ==
  ASSUME NEW q, IsSequence(q), NEW x
  PROVE  IsSequence(Append(q, x)) /\ Len(Append(q, x)) = Len(q) + 1 /\ Len(q) \in Nat
<1>1. PICK S : q \in Seq(S) BY DEF IsSequence
<1>2. q \in Seq(S \cup {x}) BY <1>1
<1>3. Append(q, x) \in Seq(S \cup {x}) BY <1>2
<1>4. QED BY <1>2, <1>3 DEF IsSequence

LEMMA ShorterQueue ==
  ASSUME NEW q, IsSequence(q), q # <<>>
  PROVE  IsSequence(Tail(q)) /\ Len(Tail(q)) = Len(q) - 1 /\ Len(q) \in Nat
<1>1. PICK S : q \in Seq(S) BY DEF IsSequence
<1>2. Tail(q) \in Seq(S) BY <1>1
<1>3. QED BY <1>1, <1>2 DEF IsSequence

LEMMA WorkerInitially == Init => WorkerArmed
BY EmptyQueue DEF Init, WorkerArmed

LEMMA WorkerRests ==
  ASSUME WorkerArmed, UNCHANGED worker
  PROVE  WorkerArmed'
BY DEF WorkerArmed, worker, Active

LEMMA NextPromptKeepsWorker ==
  ASSUME WorkerArmed, NextPrompt, slotRun' = FALSE
  PROVE  WorkerArmed'
<1>1. CASE queue = <<>>
  BY <1>1 DEF NextPrompt, WorkerArmed, Active
<1>2. CASE queue # <<>>
  <2>1. queue' = Tail(queue) /\ runAt' = "context"
    BY <1>2 DEF NextPrompt
  <2>2. QED BY <1>2, <2>1, ShorterQueue DEF WorkerArmed, Active
<1>3. QED BY <1>1, <1>2

LEMMA RunningKeepsWorker ==
  ASSUME WorkerArmed, Running
  PROVE  WorkerArmed'
<1>1. \/ NextPrompt /\ slotRun' = FALSE
      \/ /\ UNCHANGED queue
         /\ \/ runAt' \in {"placeholder", "setup"} /\ slotRun' = FALSE
            \/ runAt' \in {"update", "bind"}
  <2>1. CASE RunStarts BY <2>1 DEF RunStarts, WorkerArmed
  <2>2. CASE RunPlaceholder BY <2>2 DEF RunPlaceholder, WorkerArmed
  <2>3. CASE RunSetup BY <2>3 DEF RunSetup, RunCleanup, WorkerArmed
  <2>4. CASE RunUpdate \/ RunBind \/ RunEnds
    BY <2>4 DEF RunUpdate, RunBind, RunEnds, RunCleanup
  <2>5. QED BY <2>1, <2>2, <2>3, <2>4 DEF Running
<1>2. CASE NextPrompt /\ slotRun' = FALSE
  BY <1>2, NextPromptKeepsWorker
<1>3. CASE ~(NextPrompt /\ slotRun' = FALSE)
  BY <1>1, <1>3 DEF WorkerArmed, Active
<1>4. QED BY <1>2, <1>3

LEMMA SubmitKeepsWorker ==
  ASSUME WorkerArmed, NEW f \in flights, Submit(f)
  PROVE  WorkerArmed'
<1>1. Submitted(f) BY DEF Submit
<1>2. CASE UNCHANGED runVars
  BY <1>2, WorkerRests DEF worker
<1>3. CASE ~Active /\ queue = <<>> /\ runAt' = "context" /\ UNCHANGED <<queue, slotRun>>
  BY <1>3 DEF WorkerArmed, Active
<1>4. CASE /\ Active \/ queue # <<>>
           /\ Len(queue) < QueueDepth
           /\ queue' = Append(queue, Msgs(f)) /\ UNCHANGED <<running, runAt, slotRun>>
  BY <1>4, LongerQueue DEF WorkerArmed, Active
<1>5. QED BY <1>1, <1>2, <1>3, <1>4 DEF Submitted

LEMMA ClearQueueKeepsWorker ==
  ASSUME WorkerArmed, ClearQueue \/ Unbind
  PROVE  WorkerArmed'
<1>1. CASE ClearQueue
  <2>1. queue' = <<>> /\ UNCHANGED <<runAt, slotRun>>
    BY <1>1 DEF ClearQueue
  <2>2. QED BY <2>1, EmptyQueue DEF WorkerArmed
<1>2. CASE Unbind
  <2>1. UNCHANGED <<queue, runAt>> /\ (slotRun' => slotRun)
    BY <1>2 DEF Unbind
  <2>2. QED BY <2>1 DEF WorkerArmed, Active
<1>3. QED BY <1>1, <1>2

LEMMA OtherStepsKeepWorker ==
  ASSUME WorkerArmed,
         \/ \E m \in Messages :
              \/ TakeText(m) \/ TakePhoto(m) \/ TakeVoice(m) \/ TakeDocument(m) \/ Refused(m)
              \/ TakeGroupPart(m) \/ TakeForward(m) \/ TakeAlbumForward(m)
              \/ DraftExpires(m) \/ \E c \in BOOLEAN : ConfirmDraft(m, c)
         \/ \E c \in Commands : Command(c)
         \/ Handling /\ ~ClearQueue /\ ~Unbind
         \/ Timers
         \/ \E f \in flights : CoalesceFails(f) \/ ForwardFails(f) \/ CoalesceBuilt(f)
                                 \/ ForwardBuilt(f) \/ LateFailure(f)
         \/ UNCHANGED vars
  PROVE  WorkerArmed'
<1>1. UNCHANGED worker
  BY DEF TakeText, TakePhoto, TakeVoice, TakeDocument, Refused, TakeGroupPart, TakeForward,
     TakeAlbumForward, DraftExpires, ConfirmDraft, Command, Handling, AppendPart, HintBegins,
     HintEnds, Trigger, DirectVoice, DirectDocument, ClearForwards, ClearCoalesce, ClearGroup,
     Timers, CoalesceFires, GroupFires, TimeoutFires, AlbumFires, AddAlbum, AlbumHintEnds,
     AddFromGroup, CoalesceFails, ForwardFails, CoalesceBuilt, ForwardBuilt, LateFailure,
     vars, worker
<1>2. QED BY <1>1, WorkerRests

-----------------------------------------------------------------------------

(* Content and timers of the buffers go together, a queued prompt has a      *)
(* worker ahead of it and the slot is bound only while it runs               *)
(* (prompt_coalesce, telegram_images, forward_context, job_queue,            *)
(* run_executor).                                                            *)
THEOREM WaitingStaysArmed == Spec => []WaitingIsArmed
<1>1. Init => BuffersArmed /\ WorkerArmed
  BY BuffersInitially, WorkerInitially
<1>2. BuffersArmed /\ [Next]_vars => BuffersArmed'
  BY TakingKeepsBuffers, HandlingKeepsBuffers, TimersKeepBuffers, FlushingKeepsBuffers,
     OtherStepsKeepBuffers DEF Next
<1>3. WorkerArmed /\ [Next]_vars => WorkerArmed'
  BY RunningKeepsWorker, SubmitKeepsWorker, ClearQueueKeepsWorker, OtherStepsKeepWorker
  DEF Next, Flushing
<1>4. BuffersArmed /\ WorkerArmed => WaitingIsArmed
  BY DEF BuffersArmed, WorkerArmed, WaitingIsArmed, Active
<1>5. QED BY <1>1, <1>2, <1>3, <1>4, PTL DEF Spec

-----------------------------------------------------------------------------
(* Where a message is *)

PlaceNames == {"handler", "coalesce", "group", "adding", "forward", "album", "task", "flight",
               "draft", "queue", "worker", "agent", "cleared"}

(* a flight that is "late" has handed its prompt over                        *)
Carries(f, m) == f.at # "late" /\ m \in Msgs(f)

At(m, p) ==
  \/ p = "handler" /\ handler.msg = m /\ handler.at \in {"append", "trigger", "flushing", "direct"}
  \/ p = "coalesce" /\ m \in coalesce
  \/ p = "group" /\ m \in group
  \/ p = "adding" /\ m \in adding
  \/ p = "forward" /\ m \in UNION forward
  \/ p = "album" /\ m \in album
  \/ p = "task" /\ albumTask.at = "add" /\ m \in albumTask.msgs
  \/ p = "flight" /\ \E f \in flights : Carries(f, m)
  \/ p = "draft" /\ m \in drafts
  \/ p = "queue" /\ \E i \in DOMAIN queue : m \in queue[i]
  \/ p = "worker" /\ m \in running /\ runAt \in {"context", "placeholder", "setup"}
  \/ p = "agent" /\ given[m] # 0
  \/ p = "cleared" /\ m \in cleared

OneFlight(m) == \A f, g \in flights : Carries(f, m) /\ Carries(g, m) => f = g
OneTurn(m) == \A i, j \in DOMAIN queue : m \in queue[i] /\ m \in queue[j] => i = j

(* A message is in one place, there once, and given to an agent once.        *)
OnePlace(m) ==
  /\ \A p, q \in PlaceNames : At(m, p) /\ At(m, q) => p = q
  /\ OneFlight(m) /\ OneTurn(m) /\ given[m] <= 1

Settled(m) ==
  /\ m \notin received => /\ \A p \in PlaceNames : ~At(m, p)
                          /\ \A f \in flights : m \notin Msgs(f)
  /\ m \notin redo => OnePlace(m)

Flights == [src : {"coalesce", "forward"}, by : {"handler", "timer"},
            items : SUBSET SUBSET Messages, trigger : SUBSET Messages,
            at : {"build", "submit", "late"}]

HandlerStates == {"idle", "append", "trigger", "flushing", "direct", "hint", "hinting", "flight",
                  "clear_forward", "clear_coalesce", "clear_group", "clear_queue", "unbind",
                  "unbind_new"}

IntakeTypeOK ==
  /\ received \subseteq Messages
  /\ handler \in [at : HandlerStates, msg : Messages \cup Commands \cup {NoMsg}]
  /\ handler.at \in {"append", "trigger", "flushing", "direct"} => handler.msg \in Messages
  /\ coalesce \subseteq Messages /\ group \subseteq Messages /\ adding \subseteq Messages
  /\ forward \subseteq SUBSET Messages /\ album \subseteq Messages
  /\ albumTask \in [at : {"none", "add", "hint"}, msgs : SUBSET Messages]
  /\ flights \subseteq Flights /\ drafts \subseteq Messages
  /\ queue \in Seq(SUBSET Messages) /\ running \subseteq Messages
  /\ given \in [Messages -> Nat]

Placed == IntakeTypeOK /\ \A m \in Messages : Settled(m)

(* A step that gives a message no new place keeps it settled.                *)
LEMMA NoNewPlace ==
  ASSUME NEW m \in Messages, Settled(m), received \subseteq received', redo \subseteq redo',
         \A p \in PlaceNames : At(m, p)' => At(m, p),
         \A g \in flights' : m \in Msgs(g) => \E f \in flights : m \in Msgs(f),
         OneFlight(m) => OneFlight(m)', OneTurn(m) => OneTurn(m)', given'[m] = given[m]
  PROVE  Settled(m)'
BY DEF Settled, OnePlace

(* So does a step that takes it from one place to another,                   *)
LEMMA OneNewPlace ==
  ASSUME NEW m \in Messages, Settled(m), received \subseteq received', redo \subseteq redo',
         NEW from \in PlaceNames, NEW to \in PlaceNames,
         At(m, from), \A p \in PlaceNames : At(m, p)' => p = to \/ At(m, p),
         OnePlace(m) => ~At(m, from)' /\ OneFlight(m)' /\ OneTurn(m)' /\ given'[m] <= 1
  PROVE  Settled(m)'
BY DEF Settled, OnePlace

(* and the step in which it is received.                                     *)
LEMMA FirstPlace ==
  ASSUME NEW m \in Messages, Settled(m), received \subseteq received', redo \subseteq redo',
         m \notin received, m \in received',
         NEW to \in PlaceNames,
         \A p \in PlaceNames : At(m, p)' => p = to \/ At(m, p),
         OneFlight(m) => OneFlight(m)', OneTurn(m) => OneTurn(m)', given'[m] = given[m]
  PROVE  Settled(m)'
BY DEF Settled, OnePlace

LEMMA FlightsRest ==
  ASSUME NEW m, flights' \subseteq flights, OneFlight(m)
  PROVE  OneFlight(m)'
BY DEF OneFlight, Carries, Msgs

LEMMA FlightStarts ==
  ASSUME NEW m, NEW g, flights' = flights \cup {g}, OneFlight(m),
         Carries(g, m) => \A f \in flights : ~Carries(f, m)
  PROVE  OneFlight(m)'
BY DEF OneFlight, Carries, Msgs

LEMMA FlightGoesOn ==
  ASSUME NEW m, NEW f \in flights, NEW g, flights' = (flights \ {f}) \cup {g}, OneFlight(m),
         Carries(g, m) => Carries(f, m)
  PROVE  OneFlight(m)'
BY DEF OneFlight, Carries, Msgs

LEMMA TurnsRest ==
  ASSUME NEW m, UNCHANGED queue, OneTurn(m)
  PROVE  OneTurn(m)'
BY DEF OneTurn

LEMMA BeginKeeps ==
  ASSUME Placed, NEW t \in Messages, TakeText(t) \/ TakePhoto(t) \/ TakeDocument(t)
  PROVE  Placed'
<1>1. /\ received' = received \cup {t} /\ t \notin received /\ handler.msg = NoMsg
      /\ handler' \in [at : {"append", "trigger", "direct"}, msg : {t}]
      /\ UNCHANGED <<coVars, groupVars, fwVars, albumVars, flights, drafts, runVars, fate>>
  BY DEF TakeText, TakePhoto, TakeDocument, Begin, Receive, Idle
<1>2. IntakeTypeOK'
  BY <1>1 DEF Placed, IntakeTypeOK, HandlerStates
<1>3. ASSUME NEW m \in Messages PROVE Settled(m)'
  <2>1. Settled(m) BY DEF Placed
  <2>2. (OneFlight(m) => OneFlight(m)') /\ (OneTurn(m) => OneTurn(m)')
    BY <1>1, FlightsRest, TurnsRest
  <2>3. \A p \in PlaceNames : At(m, p)' => (m = t /\ p = "handler") \/ At(m, p)
    BY <1>1 DEF At, Carries, Msgs
  <2>4. QED BY <1>1, <2>1, <2>2, <2>3, FirstPlace, NoNewPlace DEF PlaceNames
<1>4. QED BY <1>2, <1>3 DEF Placed

(* A voice message behind the parts it sends ahead: both move.               *)
LEMMA TakeVoiceKeeps ==
  ASSUME Placed, NEW t \in Messages, TakeVoice(t)
  PROVE  Placed'
<1> DEFINE ahead == [src |-> "coalesce", by |-> "handler", items |-> {coalesce},
                     trigger |-> {}, at |-> "build"]
<1>1. /\ received' = received \cup {t} /\ t \notin received /\ handler.msg = NoMsg
      /\ handler' \in [at : {"flushing", "trigger", "direct"}, msg : {t}]
      /\ \/ UNCHANGED <<coVars, flights>>
         \/ flights' = flights \cup {ahead} /\ coalesce' = {}
      /\ UNCHANGED <<groupVars, fwVars, albumVars, drafts, runVars, fate>>
  BY DEF TakeVoice, Begin, Receive, Idle
<1>2. Msgs(ahead) = coalesce /\ \A m : Carries(ahead, m) <=> m \in coalesce
  BY DEF Carries, Msgs
<1>3. IntakeTypeOK'
  BY <1>1 DEF Placed, IntakeTypeOK, HandlerStates, Flights
<1>4. ASSUME NEW m \in Messages PROVE Settled(m)'
  <2>1. Settled(m) BY DEF Placed
  <2>2. OneTurn(m) => OneTurn(m)' BY <1>1, TurnsRest
  <2>3. CASE UNCHANGED <<coVars, flights>>
    <3>1. OneFlight(m) => OneFlight(m)' BY <2>3, FlightsRest
    <3>2. \A p \in PlaceNames : At(m, p)' => (m = t /\ p = "handler") \/ At(m, p)
      BY <1>1, <2>3 DEF At, Carries, Msgs
    <3>3. CASE m = t
      BY <1>1, <2>1, <2>2, <3>1, <3>2, <3>3, FirstPlace DEF PlaceNames
    <3>4. CASE m # t
      BY <1>1, <2>1, <2>2, <2>3, <3>1, <3>2, <3>4, NoNewPlace
    <3>5. QED BY <3>3, <3>4
  <2>4. CASE flights' = flights \cup {ahead} /\ coalesce' = {}
    <3> HIDE DEF ahead
    <3>1. \A p \in PlaceNames : At(m, p)' =>
            (m = t /\ p = "handler") \/ (m \in coalesce /\ p = "flight")
              \/ (At(m, p) /\ p # "coalesce")
      <4>1. (\E f \in flights' : Carries(f, m)') => m \in coalesce \/ \E f \in flights : Carries(f, m)
        BY <1>2, <2>4 DEF Carries, Msgs
      <4>2. QED BY <1>1, <2>4, <4>1 DEF At
    <3>2. m \in coalesce => At(m, "coalesce") /\ m # t
      BY <1>1, <2>1 DEF At, Settled, PlaceNames
    <3>3. /\ OnePlace(m) => OneFlight(m)'
          /\ m \notin coalesce /\ OneFlight(m) => OneFlight(m)'
      <4>1. OnePlace(m) /\ m \in coalesce => \A f \in flights : ~Carries(f, m)
        BY <3>2 DEF OnePlace, At, PlaceNames
      <4>2. QED BY <1>2, <2>4, <4>1, FlightStarts DEF OnePlace
    <3>4. CASE m \in coalesce
      <4>1. OnePlace(m) => ~At(m, "coalesce")' /\ OneFlight(m)' /\ OneTurn(m)' /\ given'[m] <= 1
        BY <1>1, <2>2, <2>4, <3>3 DEF OnePlace, At
      <4>2. \A p \in PlaceNames : At(m, p)' => p = "flight" \/ At(m, p)
        BY <3>1, <3>2, <3>4
      <4>3. received \subseteq received' /\ redo \subseteq redo' /\ At(m, "coalesce")
        BY <1>1, <3>2, <3>4
      <4>4. {"coalesce", "flight"} \subseteq PlaceNames BY DEF PlaceNames
      <4>5. QED BY <2>1, <4>1, <4>2, <4>3, <4>4, OneNewPlace
    <3>5. CASE m \notin coalesce
      BY <1>1, <1>2, <2>1, <2>2, <2>4, <3>1, <3>3, <3>5, FirstPlace, NoNewPlace DEF PlaceNames
    <3>6. QED BY <3>4, <3>5
  <2>5. QED BY <1>1, <2>3, <2>4
<1>5. QED BY <1>3, <1>4 DEF Placed

(* A part of an album comes in: kept, or dropped because the album is full   *)
(* or being added; or the request is refused.                                *)
LEMMA TakePartKeeps ==
  ASSUME Placed, NEW t \in Messages, Refused(t) \/ TakeGroupPart(t) \/ TakeAlbumForward(t)
  PROVE  Placed'
<1>1. /\ received' = received \cup {t} /\ t \notin received
      /\ group' \subseteq group \cup {t} /\ album' \subseteq album \cup {t}
      /\ group' = group \/ album' = album
      /\ UNCHANGED <<handler, adding, coVars, fwVars, albumTask, flights, drafts, runVars, given,
                     cleared, redo>>
  BY DEF Refused, TakeGroupPart, TakeAlbumForward, Receive, Tell
<1>2. IntakeTypeOK'
  BY <1>1 DEF Placed, IntakeTypeOK
<1>3. ASSUME NEW m \in Messages PROVE Settled(m)'
  <2>1. Settled(m) BY DEF Placed
  <2>2. (OneFlight(m) => OneFlight(m)') /\ (OneTurn(m) => OneTurn(m)')
    BY <1>1, FlightsRest, TurnsRest
  <2>3. PICK to \in {"group", "album"} :
          \A p \in PlaceNames : At(m, p)' => (m = t /\ p = to) \/ At(m, p)
    BY <1>1 DEF At, Carries, Msgs
  <2>4. QED BY <1>1, <2>1, <2>2, <2>3, FirstPlace, NoNewPlace DEF PlaceNames
<1>4. QED BY <1>2, <1>3 DEF Placed

LEMMA TakeForwardKeeps ==
  ASSUME Placed, NEW t \in Messages, TakeForward(t)
  PROVE  Placed'
<1>1. /\ received' = received \cup {t} /\ t \notin received
      /\ handler' = [at |-> "hint", msg |-> t]
      /\ forward' \in {forward, forward \cup {{t}}}
      /\ UNCHANGED <<coVars, groupVars, albumVars, flights, drafts, runVars, given, cleared, redo>>
  BY DEF TakeForward, Begin, Receive, Tell
<1>2. IntakeTypeOK'
  BY <1>1 DEF Placed, IntakeTypeOK, HandlerStates
<1>3. ASSUME NEW m \in Messages PROVE Settled(m)'
  <2>1. Settled(m) BY DEF Placed
  <2>2. (OneFlight(m) => OneFlight(m)') /\ (OneTurn(m) => OneTurn(m)')
    BY <1>1, FlightsRest, TurnsRest
  <2>3. \A p \in PlaceNames : At(m, p)' => (m = t /\ p = "forward") \/ At(m, p)
    <3>1. m \in UNION forward' => m = t \/ m \in UNION forward BY <1>1
    <3>2. QED BY <1>1, <3>1 DEF At, Carries, Msgs
  <2>4. QED BY <1>1, <2>1, <2>2, <2>3, FirstPlace, NoNewPlace DEF PlaceNames
<1>4. QED BY <1>2, <1>3 DEF Placed

LEMMA AppendKeeps ==
  ASSUME Placed, NEW t \in Messages, NEW from \in {"handler", "adding"},
         \/ AppendPart /\ t = handler.msg /\ from = "handler"
         \/ AddFromGroup(t) /\ from = "adding"
  PROVE  Placed'
<1>1. /\ coalesce' = coalesce \cup {t} /\ At(t, from)
      /\ \/ handler' = Idle /\ adding' = adding /\ from = "handler"
         \/ handler' = handler /\ adding' = adding \ {t} /\ from = "adding"
      /\ UNCHANGED <<received, group, fwVars, albumVars, flights, drafts, runVars, fate>>
  BY DEF AppendPart, AddFromGroup, At
<1>2. IntakeTypeOK'
  BY <1>1 DEF Placed, IntakeTypeOK, HandlerStates, Idle
<1>3. ASSUME NEW m \in Messages PROVE Settled(m)'
  <2>1. Settled(m) BY DEF Placed
  <2>2. (OneFlight(m) => OneFlight(m)') /\ (OneTurn(m) => OneTurn(m)')
    BY <1>1, FlightsRest, TurnsRest
  <2>3. \A p \in PlaceNames :
          At(m, p)' => (m = t /\ p = "coalesce") \/ (At(m, p) /\ (m = t => p # from))
    BY <1>1 DEF At, Carries, Msgs, Idle
  <2>4. CASE m = t
    <3>1. OnePlace(m) => ~At(m, from)' /\ OneFlight(m)' /\ OneTurn(m)' /\ given'[m] <= 1
      BY <1>1, <2>2, <2>3, <2>4 DEF OnePlace, PlaceNames
    <3>2. {"coalesce", from} \subseteq PlaceNames BY DEF PlaceNames
    <3>3. QED BY <1>1, <2>1, <2>3, <2>4, <3>1, <3>2, OneNewPlace
  <2>5. CASE m # t
    BY <1>1, <2>1, <2>2, <2>3, <2>5, NoNewPlace
  <2>6. QED BY <2>4, <2>5
<1>4. QED BY <1>2, <1>3 DEF Placed

(* Nothing moves, or only out of sight: a hint, a command that begins, the   *)
(* stations of a run before and after its prompt is given away.              *)
LEMMA NothingMoves ==
  ASSUME Placed,
         handler' = handler \/ handler' = Idle
           \/ (handler' \in [at : HandlerStates \ {"append", "trigger", "flushing", "direct"},
                             msg : Messages \cup Commands \cup {NoMsg}])
           \/ (handler.at = "flushing" /\ handler' = [handler EXCEPT !.at = "direct"]),
         albumTask' \in {albumTask, NoTask},
         runAt' \in {"context", "placeholder", "setup"} => runAt \in {"context", "placeholder", "setup"},
         flights' \subseteq flights, drafts' \subseteq drafts,
         coalesce' \subseteq coalesce, group' \subseteq group, adding' \subseteq adding,
         forward' \subseteq forward, album' \subseteq album,
         UNCHANGED <<received, queue, running, given, cleared, redo>>
  PROVE  Placed'
<1>1. IntakeTypeOK'
  BY SMTT(30) DEF Placed, IntakeTypeOK, Idle, NoTask, HandlerStates
<1>2. ASSUME NEW m \in Messages PROVE Settled(m)'
  <2>1. Settled(m) BY DEF Placed
  <2>2. (OneFlight(m) => OneFlight(m)') /\ (OneTurn(m) => OneTurn(m)')
    BY FlightsRest, TurnsRest
  <2>3. \A p \in PlaceNames : At(m, p)' => At(m, p)
    BY DEF At, Carries, Msgs, Idle, NoTask, Placed, IntakeTypeOK
  <2>4. QED BY <2>1, <2>2, <2>3, NoNewPlace
<1>3. QED BY <1>1, <1>2 DEF Placed

(* Messages that leave one place together arrive at the next one.            *)
Moves(m, from, to) ==
  /\ At(m, from)
  /\ \A p \in PlaceNames : At(m, p)' => p = to \/ At(m, p)
  /\ OnePlace(m) => ~At(m, from)' /\ OneFlight(m)' /\ OneTurn(m)' /\ given'[m] <= 1

Stays(m) ==
  /\ \A p \in PlaceNames : At(m, p)' => At(m, p)
  /\ \A g \in flights' : m \in Msgs(g) => \E f \in flights : m \in Msgs(f)
  /\ (OneFlight(m) => OneFlight(m)') /\ (OneTurn(m) => OneTurn(m)')
  /\ given'[m] = given[m]

LEMMA MovingKeeps ==
  ASSUME Placed, IntakeTypeOK', UNCHANGED <<received, redo>>,
         \A m \in Messages : Stays(m) \/ \E from, to \in PlaceNames : Moves(m, from, to)
  PROVE  Placed'
<1>1. ASSUME NEW m \in Messages, Stays(m) PROVE Settled(m)'
  BY <1>1, NoNewPlace DEF Placed, Stays
<1>2. ASSUME NEW m \in Messages, NEW from \in PlaceNames, NEW to \in PlaceNames, Moves(m, from, to)
      PROVE  Settled(m)'
  BY <1>2, OneNewPlace DEF Placed, Moves
<1>3. QED BY <1>1, <1>2 DEF Placed

(* A flush takes off with the messages its caller has taken out.             *)
LEMMA TakeOffKeeps ==
  ASSUME Placed, IntakeTypeOK', NEW g, flights' = flights \cup {g},
         \A m \in Messages : \A p \in PlaceNames \ {"flight"} : At(m, p)' => At(m, p),
         \A m \in Msgs(g) : \E from \in PlaceNames \ {"flight"} : At(m, from) /\ ~At(m, from)',
         UNCHANGED <<received, queue, given, redo>>
  PROVE  Placed'
<1>1. ASSUME NEW m \in Messages PROVE Stays(m) \/ \E from, to \in PlaceNames : Moves(m, from, to)
  <2>1. At(m, "flight")' <=> At(m, "flight") \/ Carries(g, m)
    BY DEF At, Carries, Msgs
  <2>2. OneTurn(m) => OneTurn(m)' BY TurnsRest
  <2>3. CASE m \in Msgs(g)
    <3>1. PICK from \in PlaceNames \ {"flight"} : At(m, from) /\ ~At(m, from)'
      BY <2>3
    <3>2. OnePlace(m) => \A f \in flights : ~Carries(f, m)
      <4>1. OnePlace(m) => ~At(m, "flight") BY <3>1 DEF OnePlace, PlaceNames
      <4>2. QED BY <4>1 DEF At
    <3>3. OnePlace(m) => OneFlight(m)' /\ OneTurn(m)' /\ given'[m] <= 1
      BY <2>2, <3>2, FlightStarts DEF OnePlace
    <3>4. \A p \in PlaceNames : At(m, p)' => p = "flight" \/ At(m, p)
      BY <3>1
    <3>5. Moves(m, from, "flight") BY <3>1, <3>3, <3>4 DEF Moves
    <3>6. QED BY <3>5 DEF PlaceNames
  <2>4. CASE m \notin Msgs(g)
    <3>1. ~Carries(g, m) BY <2>4 DEF Carries
    <3>2. OneFlight(m) => OneFlight(m)' BY <3>1, FlightStarts
    <3>3. Stays(m) BY <2>1, <2>2, <2>4, <3>1, <3>2 DEF Stays
    <3>4. QED BY <3>3
  <2>5. QED BY <2>3, <2>4
<1>2. QED BY <1>1, MovingKeeps

LEMMA TriggerKeeps ==
  ASSUME Placed, Trigger
  PROVE  Placed'
<1>1. CASE forward = {}
  BY <1>1, NothingMoves DEF Trigger, Idle, Popped, Launch
<1>2. CASE forward # {}
  <2> DEFINE g == [src |-> "forward", by |-> "handler", items |-> forward,
                   trigger |-> {handler.msg}, at |-> "build"]
  <2>1. /\ handler.at = "trigger" /\ flights' = flights \cup {g} /\ forward' = {}
        /\ handler' = [handler EXCEPT !.at = "flight"]
        /\ UNCHANGED <<received, coVars, groupVars, albumVars, drafts, runVars, fate>>
    BY <1>2 DEF Trigger, Launch, Popped
  <2>2. IntakeTypeOK'
    BY <2>1 DEF Placed, IntakeTypeOK, Flights, HandlerStates
  <2>3. Msgs(g) = (UNION forward) \cup {handler.msg} BY DEF Msgs
  <2> HIDE DEF g
  <2>4. ASSUME NEW m, m \in Msgs(g)
        PROVE  \E from \in PlaceNames \ {"flight"} : At(m, from) /\ ~At(m, from)'
    <3>1. CASE m \in UNION forward
      <4>1. At(m, "forward") /\ ~At(m, "forward")' BY <2>1, <3>1 DEF At
      <4>2. QED BY <4>1 DEF PlaceNames
    <3>2. CASE m = handler.msg
      <4>1. At(m, "handler") /\ ~At(m, "handler")' BY <2>1, <3>2 DEF At, Placed, IntakeTypeOK
      <4>2. QED BY <4>1 DEF PlaceNames
    <3>3. m \in (UNION forward) \cup {handler.msg} BY <2>3, <2>4, Zenon
    <3>4. QED BY <3>1, <3>2, <3>3
  <2>5. ASSUME NEW m \in Messages, NEW p \in PlaceNames \ {"flight"}, At(m, p)' PROVE At(m, p)
    BY <2>1, <2>5 DEF At, Placed, IntakeTypeOK
  <2>6. QED BY <2>1, <2>2, <2>4, <2>5, TakeOffKeeps
<1>3. QED BY <1>1, <1>2

LEMMA TimeoutKeeps ==
  ASSUME Placed, TimeoutFires
  PROVE  Placed'
<1>1. CASE forward = {}
  BY <1>1, NothingMoves DEF TimeoutFires
<1>2. CASE forward # {}
  <2> DEFINE g == [src |-> "forward", by |-> "timer", items |-> forward,
                   trigger |-> {}, at |-> "build"]
  <2>1. /\ flights' = flights \cup {g} /\ forward' = {}
        /\ UNCHANGED <<intake, coVars, groupVars, albumVars, drafts, runVars, fate>>
    BY <1>2 DEF TimeoutFires, Launch, Popped
  <2>2. IntakeTypeOK'
    BY <2>1 DEF Placed, IntakeTypeOK, Flights
  <2>3. \A m \in Msgs(g) : At(m, "forward") /\ ~At(m, "forward")'
    BY <2>1 DEF Msgs, At
  <2>4. ASSUME NEW m \in Messages, NEW p \in PlaceNames \ {"flight"}, At(m, p)' PROVE At(m, p)
    BY <2>1, <2>4 DEF At
  <2> HIDE DEF g
  <2>5. QED BY <2>1, <2>2, <2>3, <2>4, TakeOffKeeps DEF PlaceNames
<1>3. QED BY <1>1, <1>2

LEMMA CoalesceFiresKeeps ==
  ASSUME Placed, CoalesceFires
  PROVE  Placed'
<1> DEFINE g == [src |-> "coalesce", by |-> "timer", items |-> {coalesce},
                 trigger |-> {}, at |-> "build"]
<1>1. /\ flights' = flights \cup {g} /\ coalesce' = {}
      /\ UNCHANGED <<intake, groupVars, fwVars, albumVars, drafts, runVars, fate>>
  BY DEF CoalesceFires
<1>2. IntakeTypeOK'
  BY <1>1 DEF Placed, IntakeTypeOK, Flights
<1>3. \A m \in Msgs(g) : At(m, "coalesce") /\ ~At(m, "coalesce")'
  BY <1>1 DEF Msgs, At
<1>4. ASSUME NEW m \in Messages, NEW p \in PlaceNames \ {"flight"}, At(m, p)' PROVE At(m, p)
  BY <1>1, <1>4 DEF At
<1> HIDE DEF g
<1>5. QED BY <1>1, <1>2, <1>3, <1>4, TakeOffKeeps DEF PlaceNames

(* Flights and queue stay; the messages in S go from one place to another.   *)
BufferMove(S, from, to) ==
  /\ \A m \in S : At(m, from)
  /\ \A m \in Messages : \A p \in PlaceNames :
       At(m, p)' => (m \in S /\ p = to) \/ (At(m, p) /\ (m \in S => p # from))
  /\ \A m \in Messages : given'[m] = given[m] + IF m \in S /\ to = "agent" THEN 1 ELSE 0
  /\ UNCHANGED <<received, flights, queue, redo>>

LEMMA BufferMoveKeeps ==
  ASSUME Placed, IntakeTypeOK', NEW S, NEW from \in PlaceNames \ {"agent"},
         NEW to \in PlaceNames \ {from}, BufferMove(S, from, to)
  PROVE  Placed'
<1>1. ASSUME NEW m \in Messages PROVE Stays(m) \/ \E q, r \in PlaceNames : Moves(m, q, r)
  <2>1. (OneFlight(m) => OneFlight(m)') /\ (OneTurn(m) => OneTurn(m)')
    BY FlightsRest, TurnsRest DEF BufferMove
  <2>2. given'[m] = given[m] + (IF m \in S /\ to = "agent" THEN 1 ELSE 0) /\ given[m] \in Nat
    BY DEF BufferMove, Placed, IntakeTypeOK
  <2>3. CASE m \in S
    <3>1. At(m, from) BY <2>3 DEF BufferMove
    <3>2. OnePlace(m) => given[m] = 0
      BY <3>1 DEF OnePlace, At, PlaceNames
    <3>3. OnePlace(m) => OneFlight(m)' /\ OneTurn(m)' /\ given'[m] <= 1
      BY <2>1, <2>2, <3>2 DEF OnePlace
    <3>4. ~At(m, from)' BY <2>3 DEF BufferMove
    <3>5. Moves(m, from, to)
      BY <2>3, <3>1, <3>3, <3>4 DEF Moves, BufferMove
    <3>6. QED BY <3>5
  <2>4. CASE m \notin S
    BY <2>1, <2>2, <2>4 DEF Stays, BufferMove
  <2>5. QED BY <2>3, <2>4
<1>2. QED BY <1>1, MovingKeeps DEF BufferMove

LEMMA GivingKeepsType ==
  ASSUME given \in [Messages -> Nat], NEW S, Give(S)
  PROVE  /\ given' \in [Messages -> Nat]
         /\ \A m \in Messages : given'[m] = given[m] + IF m \in S THEN 1 ELSE 0
BY DEF Give

LEMMA DirectKeeps ==
  ASSUME Placed, DirectVoice \/ DirectDocument
  PROVE  Placed'
<1> DEFINE t == handler.msg
<1>1. /\ handler.at = "direct" /\ handler' = Idle /\ t \in Messages
      /\ UNCHANGED <<received, coVars, groupVars, fwVars, albumVars, flights, runVars, cleared, redo>>
  BY DEF DirectVoice, DirectDocument, Tell, Placed, IntakeTypeOK
<1>2. \/ UNCHANGED <<given, drafts>>
      \/ UNCHANGED given /\ drafts' = drafts \cup {t}
      \/ Give({t}) /\ UNCHANGED drafts
  BY DEF DirectVoice, DirectDocument, Tell
<1>3. IntakeTypeOK'
  <2>1. given' \in [Messages -> Nat] /\ drafts' \subseteq Messages
    BY <1>1, <1>2, GivingKeepsType DEF Placed, IntakeTypeOK
  <2>2. QED BY <1>1, <2>1 DEF Placed, IntakeTypeOK, HandlerStates, Idle
<1>4. CASE UNCHANGED <<given, drafts>>
  BY <1>1, <1>4, NothingMoves
<1>5. CASE UNCHANGED given /\ drafts' = drafts \cup {t}
  <2>1. BufferMove({t}, "handler", "draft")
    BY <1>1, <1>5 DEF BufferMove, At, Carries, Msgs, Idle, Placed, IntakeTypeOK
  <2>2. QED BY <1>3, <2>1, BufferMoveKeeps DEF PlaceNames
<1>6. CASE Give({t}) /\ UNCHANGED drafts
  <2>1. \A m \in Messages : given'[m] = given[m] + IF m \in {t} THEN 1 ELSE 0
    BY <1>6, GivingKeepsType DEF Placed, IntakeTypeOK
  <2>2. BufferMove({t}, "handler", "agent")
    BY <1>1, <1>6, <2>1 DEF BufferMove, At, Carries, Msgs, Idle, Placed, IntakeTypeOK
  <2>3. QED BY <1>3, <2>2, BufferMoveKeeps DEF PlaceNames
<1>7. QED BY <1>2, <1>4, <1>5, <1>6

LEMMA DraftKeeps ==
  ASSUME Placed, NEW t \in Messages,
         DraftExpires(t) \/ \E c \in BOOLEAN : ConfirmDraft(t, c)
  PROVE  Placed'
<1>1. /\ t \in drafts /\ drafts' = drafts \ {t}
      /\ UNCHANGED <<intake, coVars, groupVars, fwVars, albumVars, flights, runVars, redo>>
  BY DEF DraftExpires, ConfirmDraft, Tell
<1>2. \/ UNCHANGED <<given, cleared>>
      \/ UNCHANGED given /\ cleared' = cleared \cup {t}
      \/ Give({t}) /\ UNCHANGED cleared
  BY DEF DraftExpires, ConfirmDraft, Tell
<1>3. IntakeTypeOK'
  <2>1. given' \in [Messages -> Nat]
    BY <1>2, GivingKeepsType DEF Placed, IntakeTypeOK
  <2>2. QED BY <1>1, <2>1 DEF Placed, IntakeTypeOK
<1>4. CASE UNCHANGED <<given, cleared>>
  BY <1>1, <1>4, NothingMoves
<1>5. CASE UNCHANGED given /\ cleared' = cleared \cup {t}
  <2>1. BufferMove({t}, "draft", "cleared")
    BY <1>1, <1>5 DEF BufferMove, At, Carries, Msgs, Placed, IntakeTypeOK
  <2>2. QED BY <1>3, <2>1, BufferMoveKeeps DEF PlaceNames
<1>6. CASE Give({t}) /\ UNCHANGED cleared
  <2>1. \A m \in Messages : given'[m] = given[m] + IF m \in {t} THEN 1 ELSE 0
    BY <1>6, GivingKeepsType DEF Placed, IntakeTypeOK
  <2>2. BufferMove({t}, "draft", "agent")
    BY <1>1, <1>6, <2>1 DEF BufferMove, At, Carries, Msgs, Placed, IntakeTypeOK
  <2>3. QED BY <1>3, <2>2, BufferMoveKeeps DEF PlaceNames
<1>7. QED BY <1>2, <1>4, <1>5, <1>6

(* an album leaves its collector                                             *)
LEMMA CollectorKeeps ==
  ASSUME Placed, GroupFires \/ AlbumFires \/ AddAlbum \/ AlbumHintEnds
  PROVE  Placed'
<1>1. CASE GroupFires
  <2>1. /\ group' = {} /\ adding' \in {adding, adding \cup group}
        /\ UNCHANGED <<intake, coVars, fwVars, albumVars, flights, drafts, runVars, fate>>
    BY <1>1 DEF GroupFires, Tell
  <2>2. IntakeTypeOK'
    BY <2>1 DEF Placed, IntakeTypeOK
  <2>3. BufferMove(group, "group", "adding")
    BY <2>1 DEF BufferMove, At, Carries, Msgs, Placed, IntakeTypeOK
  <2>4. QED BY <2>2, <2>3, BufferMoveKeeps DEF PlaceNames
<1>2. CASE AlbumFires
  <2>1. /\ albumTask = NoTask /\ album' = {} /\ albumTask' = [at |-> "add", msgs |-> album]
        /\ UNCHANGED <<intake, coVars, groupVars, fwVars, flights, drafts, runVars, fate>>
    BY <1>2 DEF AlbumFires
  <2>2. IntakeTypeOK'
    BY <2>1 DEF Placed, IntakeTypeOK
  <2>3. BufferMove(album, "album", "task")
    BY <2>1 DEF BufferMove, At, Carries, Msgs, Placed, IntakeTypeOK
  <2>4. QED BY <2>2, <2>3, BufferMoveKeeps DEF PlaceNames
<1>3. CASE AddAlbum
  <2>1. /\ albumTask.at = "add" /\ albumTask' = [albumTask EXCEPT !.at = "hint"]
        /\ forward' \in {forward, forward \cup {albumTask.msgs}}
        /\ UNCHANGED <<intake, coVars, groupVars, album, albumTimer, flights, drafts, runVars,
                       given, cleared, redo>>
    BY <1>3 DEF AddAlbum, Tell
  <2>2. IntakeTypeOK'
    BY <2>1 DEF Placed, IntakeTypeOK
  <2>3. BufferMove(albumTask.msgs, "task", "forward")
    <3>1. \A m : m \in UNION forward' => m \in UNION forward \/ m \in albumTask.msgs
      BY <2>1
    <3>2. albumTask'.at = "hint"
      BY <2>1 DEF Placed, IntakeTypeOK
    <3>3. QED BY <2>1, <3>1, <3>2 DEF BufferMove, At, Carries, Msgs, Placed, IntakeTypeOK
  <2>4. QED BY <2>2, <2>3, BufferMoveKeeps DEF PlaceNames
<1>4. CASE AlbumHintEnds
  BY <1>4, NothingMoves DEF AlbumHintEnds
<1>5. QED BY <1>1, <1>2, <1>3, <1>4

(* /cancel, the button and /new take everything back that waits in a buffer. *)
LEMMA ClearBuffersKeeps ==
  ASSUME Placed, ClearForwards \/ ClearCoalesce \/ ClearGroup
  PROVE  Placed'
<1>1. handler.at \in {"clear_forward", "clear_coalesce", "clear_group"}
  BY DEF ClearForwards, ClearCoalesce, ClearGroup
<1>2. /\ handler' \in [at : {"clear_coalesce", "clear_group", "clear_queue", "unbind_new"},
                       msg : {handler.msg}]
      /\ UNCHANGED <<received, adding, albumTask, flights, drafts, runVars, given, redo>>
  BY DEF ClearForwards, ClearCoalesce, ClearGroup, AfterForwards, Placed, IntakeTypeOK
<1>3. /\ coalesce' \subseteq coalesce /\ group' \subseteq group
      /\ forward' \subseteq forward /\ album' \subseteq album
      /\ \A m : m \in cleared' => m \in cleared \/ (m \in UNION forward /\ forward' = {})
                  \/ (m \in album /\ album' = {}) \/ (m \in coalesce /\ coalesce' = {})
                  \/ (m \in group /\ group' = {})
  <2>1. CASE ClearForwards
    <3>1. /\ forward' = {} /\ album' = {} /\ cleared' = cleared \cup (UNION forward) \cup album
          /\ UNCHANGED <<coalesce, group>>
      BY <2>1 DEF ClearForwards, ForwardsCleared
    <3>2. QED BY <3>1
  <2>2. CASE ClearCoalesce BY <2>2 DEF ClearCoalesce
  <2>3. CASE ClearGroup BY <2>3 DEF ClearGroup
  <2>4. QED BY <2>1, <2>2, <2>3
<1>4. IntakeTypeOK'
  BY <1>2, <1>3 DEF Placed, IntakeTypeOK, HandlerStates
<1>5. ASSUME NEW m \in Messages PROVE Stays(m) \/ \E q, r \in PlaceNames : Moves(m, q, r)
  <2>1. (OneFlight(m) => OneFlight(m)') /\ (OneTurn(m) => OneTurn(m)')
    BY <1>2, FlightsRest, TurnsRest
  <2>2. \A p \in PlaceNames \ {"cleared"} : At(m, p)' => At(m, p)
    BY <1>1, <1>2, <1>3 DEF At, Carries, Msgs
  <2>3. CASE m \in cleared' /\ m \notin cleared
    <3>1. PICK from \in PlaceNames \ {"cleared"} : At(m, from) /\ ~At(m, from)'
      <4>1. CASE m \in UNION forward /\ forward' = {}
        <5>1. At(m, "forward") /\ ~At(m, "forward")' BY <4>1 DEF At
        <5>2. QED BY <5>1 DEF PlaceNames
      <4>2. CASE m \in album /\ album' = {}
        <5>1. At(m, "album") /\ ~At(m, "album")' BY <4>2 DEF At
        <5>2. QED BY <5>1 DEF PlaceNames
      <4>3. CASE m \in coalesce /\ coalesce' = {}
        <5>1. At(m, "coalesce") /\ ~At(m, "coalesce")' BY <4>3 DEF At
        <5>2. QED BY <5>1 DEF PlaceNames
      <4>4. CASE m \in group /\ group' = {}
        <5>1. At(m, "group") /\ ~At(m, "group")' BY <4>4 DEF At
        <5>2. QED BY <5>1 DEF PlaceNames
      <4>5. QED BY <1>3, <2>3, <4>1, <4>2, <4>3, <4>4
    <3>2. OnePlace(m) => OneFlight(m)' /\ OneTurn(m)' /\ given'[m] <= 1
      BY <1>2, <2>1 DEF OnePlace
    <3>3. Moves(m, from, "cleared")
      BY <2>2, <3>1, <3>2 DEF Moves
    <3>4. QED BY <3>3 DEF PlaceNames
  <2>4. CASE ~(m \in cleared' /\ m \notin cleared)
    <3>1. At(m, "cleared")' => At(m, "cleared") BY <2>4 DEF At
    <3>2. Stays(m) BY <1>2, <2>1, <2>2, <3>1 DEF Stays
    <3>3. QED BY <3>2
  <2>5. QED BY <2>3, <2>4
<1>6. QED BY <1>2, <1>4, <1>5, MovingKeeps

-----------------------------------------------------------------------------
(* The queue and its worker *)

LEMMA QueueShrinks ==
  ASSUME NEW S, NEW q \in Seq(S), q # <<>>
  PROVE  /\ Tail(q) \in Seq(S) /\ Head(q) = q[1] /\ 1 \in DOMAIN q /\ Head(q) \in S
         /\ \A i \in DOMAIN Tail(q) : i + 1 \in DOMAIN q /\ Tail(q)[i] = q[i + 1] /\ i + 1 # 1
         /\ \A i, j \in DOMAIN Tail(q) : i + 1 = j + 1 => i = j
<1>1. /\ Len(q) \in Nat \ {0} /\ DOMAIN q = 1..Len(q)
      /\ Tail(q) \in Seq(S) /\ Len(Tail(q)) = Len(q) - 1
      /\ \A i \in 1..Len(Tail(q)) : Tail(q)[i] = q[i + 1]
  BY LenProperties, EmptySeq, HeadTailProperties
<1>2. DOMAIN Tail(q) = 1..Len(Tail(q)) BY <1>1, LenProperties
<1>3. Head(q) = q[1] /\ q[1] \in S BY <1>1
<1>4. QED BY <1>1, <1>2, <1>3

LEMMA QueueGrows ==
  ASSUME NEW S, NEW q \in Seq(S), NEW e \in S
  PROVE  /\ Append(q, e) \in Seq(S)
         /\ \A i \in DOMAIN Append(q, e) : \/ i \in DOMAIN q /\ Append(q, e)[i] = q[i]
                                           \/ i = Len(q) + 1 /\ Append(q, e)[i] = e
BY LenProperties, AppendProperties

(* The worker takes the next prompt: it leaves the queue.                    *)
LEMMA NextPromptType ==
  ASSUME IntakeTypeOK, NextPrompt
  PROVE  queue' \in Seq(SUBSET Messages) /\ running' \subseteq Messages
<1>1. CASE queue = <<>> BY <1>1 DEF NextPrompt, IntakeTypeOK
<1>2. CASE queue # <<>>
  <2>1. Tail(queue) \in Seq(SUBSET Messages) /\ Head(queue) \in SUBSET Messages
    BY <1>2, QueueShrinks DEF IntakeTypeOK
  <2>2. QED BY <1>2, <2>1 DEF NextPrompt
<1>3. QED BY <1>1, <1>2

LEMMA NextPromptMoves ==
  ASSUME IntakeTypeOK, NextPrompt, NEW m \in Messages
  PROVE  /\ OneTurn(m) => OneTurn(m)'
         /\ At(m, "queue")' => At(m, "queue")
         /\ At(m, "worker")' => At(m, "queue")
         /\ OneTurn(m) /\ At(m, "worker")' => ~At(m, "queue")'
<1>1. CASE queue = <<>>
  BY <1>1 DEF NextPrompt, At, OneTurn, IntakeTypeOK
<1>2. CASE queue # <<>>
  <2>1. running' = Head(queue) /\ runAt' = "context" /\ queue' = Tail(queue)
    BY <1>2 DEF NextPrompt
  <2>2. /\ Tail(queue) \in Seq(SUBSET Messages) /\ Head(queue) = queue[1] /\ 1 \in DOMAIN queue
        /\ Head(queue) \in SUBSET Messages
        /\ \A i \in DOMAIN Tail(queue) : i + 1 \in DOMAIN queue /\ Tail(queue)[i] = queue[i + 1]
                                         /\ i + 1 # 1
        /\ \A i, j \in DOMAIN Tail(queue) : i + 1 = j + 1 => i = j
    BY <1>2, QueueShrinks DEF IntakeTypeOK
  <2>3. OneTurn(m) => OneTurn(m)'
    BY <2>1, <2>2 DEF OneTurn
  <2>4. (At(m, "queue")' => At(m, "queue")) /\ (At(m, "worker")' => At(m, "queue"))
    BY <2>1, <2>2 DEF At
  <2>5. OneTurn(m) /\ At(m, "worker")' => ~At(m, "queue")'
    BY <2>1, <2>2 DEF At, OneTurn
  <2>6. QED BY <2>3, <2>4, <2>5
<1>3. QED BY <1>1, <1>2

(* The worker goes on to the next prompt.                                    *)
LEMMA NextPromptKeeps ==
  ASSUME Placed, NextPrompt,
         UNCHANGED <<intake, coVars, groupVars, fwVars, albumVars, flights, drafts, given, cleared,
                     redo>>
  PROVE  Placed'
<1>1. IntakeTypeOK'
  BY NextPromptType DEF Placed, IntakeTypeOK
<1>2. ASSUME NEW m \in Messages PROVE Stays(m) \/ \E q, r \in PlaceNames : Moves(m, q, r)
  <2>1. OneFlight(m) => OneFlight(m)' BY FlightsRest
  <2>2. /\ OneTurn(m) => OneTurn(m)'
        /\ At(m, "queue")' => At(m, "queue")
        /\ At(m, "worker")' => At(m, "queue")
        /\ OneTurn(m) /\ At(m, "worker")' => ~At(m, "queue")'
    BY NextPromptMoves DEF Placed
  <2>3. \A p \in PlaceNames \ {"queue", "worker"} : At(m, p)' => At(m, p)
    BY DEF At, Carries, Msgs
  <2>4. CASE At(m, "worker")'
    <3>1. \A p \in PlaceNames : At(m, p)' => p = "worker" \/ At(m, p)
      BY <2>2, <2>3
    <3>2. OnePlace(m) => ~At(m, "queue")' /\ OneFlight(m)' /\ OneTurn(m)' /\ given'[m] <= 1
      BY <2>1, <2>2, <2>4 DEF OnePlace
    <3>3. Moves(m, "queue", "worker") BY <2>2, <2>4, <3>1, <3>2 DEF Moves
    <3>4. QED BY <3>3 DEF PlaceNames
  <2>5. CASE ~At(m, "worker")'
    <3>1. \A p \in PlaceNames : At(m, p)' => At(m, p)
      BY <2>2, <2>3, <2>5
    <3>2. Stays(m) BY <2>1, <2>2, <3>1 DEF Stays
    <3>3. QED BY <3>2
  <2>6. QED BY <2>4, <2>5
<1>3. QED BY <1>1, <1>2, MovingKeeps

LEMMA RunningKeeps ==
  ASSUME Placed, Running
  PROVE  Placed'
<1>1. CASE NextPrompt /\ UNCHANGED given
  <2>1. UNCHANGED <<intake, coVars, groupVars, fwVars, albumVars, flights, drafts, cleared, redo>>
    BY DEF Running, RunStarts, RunPlaceholder, RunSetup, RunUpdate, RunBind, RunEnds, Tell
  <2>2. QED BY <1>1, <2>1, NextPromptKeeps
<1>2. CASE RunSetup /\ runAt' = "update" /\ Give(running)
  <2>1. /\ runAt = "setup" /\ UNCHANGED <<queue, running, cleared, redo>> /\ UNCHANGED QueueRest
    BY <1>2 DEF RunSetup, NextPrompt
  <2>2. /\ given' \in [Messages -> Nat]
        /\ \A m \in Messages : given'[m] = given[m] + IF m \in running THEN 1 ELSE 0
    BY <1>2, GivingKeepsType DEF Placed, IntakeTypeOK
  <2>3. IntakeTypeOK'
    BY <2>1, <2>2 DEF Placed, IntakeTypeOK
  <2>4. BufferMove(running, "worker", "agent")
    BY <1>2, <2>1, <2>2 DEF BufferMove, At, Carries, Msgs, Placed, IntakeTypeOK
  <2>5. QED BY <2>3, <2>4, BufferMoveKeeps DEF PlaceNames
<1>3. CASE /\ runAt' \in {"context", "placeholder", "setup"} => runAt \in {"context", "placeholder"}
           /\ UNCHANGED <<queue, running, fate, QueueRest>>
  BY <1>3, NothingMoves
<1>4. QED
  <2>1. CASE RunStarts BY <1>1, <1>3, <2>1 DEF RunStarts, Tell
  <2>2. CASE RunPlaceholder BY <1>1, <1>3, <2>2 DEF RunPlaceholder
  <2>3. CASE RunSetup BY <1>1, <1>2, <2>3 DEF RunSetup, Tell
  <2>4. CASE RunUpdate \/ RunBind BY <1>3, <2>4 DEF RunUpdate, RunBind
  <2>5. CASE RunEnds BY <1>1, <2>5 DEF RunEnds
  <2>6. QED BY <2>1, <2>2, <2>3, <2>4, <2>5 DEF Running

LEMMA ClearQueueKeeps ==
  ASSUME Placed, ClearQueue
  PROVE  Placed'
<1>1. /\ handler.at = "clear_queue" /\ handler' = [handler EXCEPT !.at = "unbind"]
      /\ queue' = <<>> /\ cleared' = cleared \cup UNION {queue[i] : i \in DOMAIN queue}
      /\ UNCHANGED <<received, coVars, groupVars, fwVars, albumVars, flights, drafts, running, runAt,
                     given, redo>>
  BY DEF ClearQueue
<1>2. IntakeTypeOK'
  BY <1>1 DEF Placed, IntakeTypeOK, HandlerStates
<1>3. ASSUME NEW m \in Messages PROVE Stays(m) \/ \E q, r \in PlaceNames : Moves(m, q, r)
  <2>1. (OneFlight(m) => OneFlight(m)') /\ OneTurn(m)'
    BY <1>1, FlightsRest DEF OneTurn
  <2>2. ~At(m, "queue")' BY <1>1 DEF At
  <2>3. \A p \in PlaceNames \ {"queue", "cleared"} : At(m, p)' => At(m, p)
    BY <1>1 DEF At, Carries, Msgs, Placed, IntakeTypeOK
  <2>4. At(m, "cleared")' => At(m, "cleared") \/ At(m, "queue")
    BY <1>1 DEF At
  <2>5. CASE At(m, "queue")
    <3>1. OnePlace(m) => ~At(m, "queue")' /\ OneFlight(m)' /\ OneTurn(m)' /\ given'[m] <= 1
      BY <1>1, <2>1, <2>2 DEF OnePlace
    <3>2. Moves(m, "queue", "cleared") BY <2>2, <2>3, <2>5, <3>1 DEF Moves
    <3>3. QED BY <3>2 DEF PlaceNames
  <2>6. CASE ~At(m, "queue")
    <3>1. Stays(m) BY <1>1, <2>1, <2>2, <2>3, <2>4, <2>6 DEF Stays
    <3>2. QED BY <3>1
  <2>7. QED BY <2>5, <2>6
<1>4. QED BY <1>1, <1>2, <1>3, MovingKeeps

-----------------------------------------------------------------------------
(* Flushes *)

(* A flush is built: what it carries may only shrink.                        *)
LEMMA BuiltKeeps ==
  ASSUME Placed, NEW f \in flights, CoalesceBuilt(f) \/ ForwardBuilt(f)
  PROVE  Placed'
<1>1. PICK g : /\ flights' = (flights \ {f}) \cup {g} /\ f.at = "build"
               /\ g \in Flights /\ g.at = "submit" /\ Msgs(g) \subseteq Msgs(f)
  <2>1. f \in Flights BY DEF Placed, IntakeTypeOK
  <2>2. CASE ForwardBuilt(f)
    <3> DEFINE g == [f EXCEPT !.at = "submit"]
    <3>1. /\ flights' = (flights \ {f}) \cup {g} /\ f.at = "build"
          /\ g \in Flights /\ g.at = "submit" /\ g.items = f.items /\ g.trigger = f.trigger
      BY <2>1, <2>2 DEF ForwardBuilt, Flights
    <3>2. Msgs(g) = Msgs(f) BY <3>1 DEF Msgs
    <3>3. QED BY <3>1, <3>2
  <2>3. CASE CoalesceBuilt(f)
    <3>1. PICK kept \in SUBSET (Msgs(f) \cap Pictures) :
            flights' = (flights \ {f}) \cup
              {[f EXCEPT !.at = "submit", !.items = {(Msgs(f) \ (Msgs(f) \cap Pictures)) \cup kept}]}
      BY <2>3 DEF CoalesceBuilt, Limited, Fetched
    <3> DEFINE items == {(Msgs(f) \ (Msgs(f) \cap Pictures)) \cup kept}
    <3> DEFINE g == [f EXCEPT !.at = "submit", !.items = items]
    <3>2. Msgs(f) \subseteq Messages /\ f.trigger \subseteq Msgs(f)
      BY <2>1 DEF Msgs, Flights
    <3>3. items \in SUBSET SUBSET Messages /\ UNION items \subseteq Msgs(f)
      BY <3>2
    <3> HIDE DEF items
    <3>4. g \in Flights /\ g.at = "submit" /\ g.items = items /\ g.trigger = f.trigger
      BY <2>1, <3>3 DEF Flights
    <3>5. Msgs(g) \subseteq Msgs(f) BY <3>2, <3>3, <3>4 DEF Msgs
    <3>6. QED BY <2>3, <3>1, <3>4, <3>5 DEF CoalesceBuilt, items
  <2>4. QED BY <2>2, <2>3
<1>2. UNCHANGED <<intake, coVars, groupVars, fwVars, albumVars, drafts, runVars, fate>>
  BY DEF CoalesceBuilt, ForwardBuilt
<1>3. IntakeTypeOK'
  BY <1>1, <1>2 DEF Placed, IntakeTypeOK
<1>4. ASSUME NEW m \in Messages PROVE Stays(m)
  <2>1. Carries(g, m) => Carries(f, m) BY <1>1 DEF Carries
  <2>2. OneFlight(m) => OneFlight(m)' BY <1>1, <2>1, FlightGoesOn
  <2>3. OneTurn(m) => OneTurn(m)' BY <1>2, TurnsRest
  <2>4. At(m, "flight")' => At(m, "flight")
    <3>1. \A h \in flights' : Carries(h, m) => \E k \in flights : Carries(k, m)
      BY <1>1, <2>1
    <3>2. QED BY <3>1 DEF At, Carries, Msgs
  <2>5. \A p \in PlaceNames \ {"flight"} : At(m, p)' => At(m, p)
    BY <1>2 DEF At
  <2>6. QED BY <1>1, <1>2, <2>2, <2>3, <2>4, <2>5 DEF Stays
<1>5. QED BY <1>2, <1>3, <1>4, MovingKeeps

(* A flight that is over, or late, carries nothing any more.                 *)
Over(f) ==
  /\ f.at # "late"
  /\ \/ flights' = flights \ {f}
     \/ flights' = (flights \ {f}) \cup {[f EXCEPT !.at = "late"]}

LEMMA OverFlights ==
  ASSUME Placed, NEW f \in flights, Over(f), NEW m \in Messages
  PROVE  /\ flights' \subseteq Flights
         /\ \A g \in flights' : m \in Msgs(g) => \E h \in flights : m \in Msgs(h)
         /\ At(m, "flight")' => At(m, "flight")
         /\ OneFlight(m) => OneFlight(m)'
         /\ OneFlight(m) /\ m \in Msgs(f) => ~At(m, "flight")'
         /\ m \in Msgs(f) => At(m, "flight")
<1> DEFINE g == [f EXCEPT !.at = "late"]
<1>0. f \in Flights /\ flights \subseteq Flights BY DEF Placed, IntakeTypeOK
<1>1. g \in Flights /\ g.at = "late" /\ g.items = f.items /\ g.trigger = f.trigger
  BY <1>0 DEF Flights
<1>2. Msgs(g) = Msgs(f) /\ ~Carries(g, m) BY <1>1 DEF Msgs, Carries
<1>3. flights' = flights \ {f} \/ flights' = (flights \ {f}) \cup {g} BY DEF Over
<1> HIDE DEF g
<1>4. flights' \subseteq Flights /\ \A h \in flights' : m \in Msgs(h) => \E k \in flights : m \in Msgs(k)
  BY <1>0, <1>1, <1>2, <1>3
<1>5. OneFlight(m) => OneFlight(m)'
  BY <1>2, <1>3, FlightsRest, FlightGoesOn
<1>6. \A h \in flights' : Carries(h, m) => h \in flights /\ h # f
  BY <1>2, <1>3
<1>7. At(m, "flight")' <=> \E h \in flights' : Carries(h, m)
  BY DEF At, Carries, Msgs
<1>8. m \in Msgs(f) => Carries(f, m) BY DEF Carries, Over
<1>9. QED BY <1>4, <1>5, <1>6, <1>7, <1>8 DEF At, OneFlight

(* The messages of a flight arrive somewhere, or nowhere.                    *)
LEMMA ArrivalKeeps ==
  ASSUME Placed, IntakeTypeOK', NEW f \in flights, Over(f), NEW to \in PlaceNames \ {"flight"},
         \A m \in Messages : \A p \in PlaceNames \ {"flight"} :
           At(m, p)' => (p = to /\ m \in Msgs(f)) \/ At(m, p),
         \A m \in Messages : OneTurn(m) => OneTurn(m)' \/ (At(m, "queue") /\ m \in Msgs(f)),
         \A m \in Messages : given'[m] = given[m] + IF m \in Msgs(f) /\ to = "agent" THEN 1 ELSE 0,
         UNCHANGED <<received, redo>>
  PROVE  Placed'
<1>1. ASSUME NEW m \in Messages PROVE Stays(m) \/ \E q, r \in PlaceNames : Moves(m, q, r)
  <2>1. /\ \A g \in flights' : m \in Msgs(g) => \E h \in flights : m \in Msgs(h)
        /\ At(m, "flight")' => At(m, "flight")
        /\ OneFlight(m) => OneFlight(m)'
        /\ OneFlight(m) /\ m \in Msgs(f) => ~At(m, "flight")'
        /\ m \in Msgs(f) => At(m, "flight")
    BY OverFlights
  <2>2. given[m] \in Nat BY DEF Placed, IntakeTypeOK
  <2>3. CASE m \in Msgs(f)
    <3>1. OnePlace(m) => given[m] = 0 /\ ~At(m, "queue")
      BY <2>1, <2>3 DEF OnePlace, At, PlaceNames
    <3>2. OnePlace(m) => ~At(m, "flight")' /\ OneFlight(m)' /\ OneTurn(m)' /\ given'[m] <= 1
      BY <2>1, <2>2, <2>3, <3>1 DEF OnePlace
    <3>3. \A p \in PlaceNames : At(m, p)' => p = to \/ At(m, p)
      BY <2>1
    <3>4. Moves(m, "flight", to) BY <2>1, <2>3, <3>2, <3>3 DEF Moves
    <3>5. QED BY <3>4 DEF PlaceNames
  <2>4. CASE m \notin Msgs(f)
    <3>1. given'[m] = given[m] BY <2>2, <2>4
    <3>2. Stays(m) BY <2>1, <2>4, <3>1 DEF Stays
    <3>3. QED BY <3>2
  <2>5. QED BY <2>3, <2>4
<1>2. QED BY <1>1, MovingKeeps

LEMMA HandlerReturns ==
  ASSUME Placed, NEW f, Returns(f) \/ UNCHANGED handler
  PROVE  /\ handler' \in [at : HandlerStates, msg : Messages \cup Commands \cup {NoMsg}]
         /\ handler'.at \in {"append", "trigger", "flushing", "direct"} => handler'.msg \in Messages
         /\ \A m \in Messages : At(m, "handler")' => At(m, "handler")
<1>1. CASE UNCHANGED handler
  BY <1>1 DEF Placed, IntakeTypeOK, At
<1>2. CASE handler.at = "flushing" /\ handler' = [handler EXCEPT !.at = "direct"]
  BY <1>2 DEF Placed, IntakeTypeOK, At, HandlerStates
<1>3. CASE handler' = Idle
  BY <1>3 DEF Idle, At, HandlerStates
<1>4. QED BY <1>1, <1>2, <1>3 DEF Returns

LEMMA SubmitKeeps ==
  ASSUME Placed, NEW f \in flights, Submit(f)
  PROVE  Placed'
<1>1. /\ f.at = "submit" /\ Submitted(f) /\ Over(f) /\ (Returns(f) \/ UNCHANGED handler)
      /\ UNCHANGED <<received, coVars, groupVars, fwVars, albumVars, drafts, cleared, redo>>
  BY DEF Submit, Lands, Over
<1>2. flights' \subseteq Flights
  BY <1>1, OverFlights DEF Over, Placed, IntakeTypeOK, Flights
<1>3. Msgs(f) \subseteq Messages
  BY DEF Msgs, Placed, IntakeTypeOK, Flights
<1>4. \A m \in Messages : \A p \in PlaceNames \ {"flight", "agent", "worker", "queue"} :
        At(m, p)' => At(m, p)
  <2>1. \A m \in Messages : At(m, "handler")' => At(m, "handler")
    BY <1>1, HandlerReturns
  <2>2. \A m \in Messages : \A p \in PlaceNames \ {"flight", "agent", "worker", "queue", "handler"} :
          At(m, p)' => At(m, p)
    BY <1>1 DEF At
  <2>3. QED BY <2>1, <2>2
<1>5. CASE Give(Msgs(f)) /\ UNCHANGED runVars
  <2>1. /\ given' \in [Messages -> Nat]
        /\ \A m \in Messages : given'[m] = given[m] + IF m \in Msgs(f) THEN 1 ELSE 0
    BY <1>5, GivingKeepsType DEF Placed, IntakeTypeOK
  <2>2. IntakeTypeOK'
    BY <1>1, <1>2, <1>5, <2>1, HandlerReturns DEF Placed, IntakeTypeOK
  <2>3. \A m \in Messages : \A p \in PlaceNames \ {"flight"} :
          At(m, p)' => (p = "agent" /\ m \in Msgs(f)) \/ At(m, p)
    <3>1. \A m \in Messages : \A p \in {"agent", "worker", "queue"} :
            At(m, p)' => (p = "agent" /\ m \in Msgs(f)) \/ At(m, p)
      BY <1>5, <2>1 DEF At, Placed, IntakeTypeOK
    <3>2. QED BY <1>4, <3>1
  <2>4. \A m \in Messages : given'[m] = given[m] + IF m \in Msgs(f) /\ "agent" = "agent" THEN 1 ELSE 0
    BY <2>1
  <2>5. \A m \in Messages : OneTurn(m) => OneTurn(m)' \/ (At(m, "queue") /\ m \in Msgs(f))
    BY <1>5, TurnsRest
  <2>6. "agent" \in PlaceNames \ {"flight"} BY DEF PlaceNames
  <2>7. QED BY <1>1, <2>2, <2>3, <2>4, <2>5, <2>6, ArrivalKeeps
<1>6. CASE running' = Msgs(f) /\ UNCHANGED <<queue, given>>
  <2>1. IntakeTypeOK'
    BY <1>1, <1>2, <1>3, <1>6, HandlerReturns DEF Placed, IntakeTypeOK
  <2>2. \A m \in Messages : \A p \in PlaceNames \ {"flight"} :
          At(m, p)' => (p = "worker" /\ m \in Msgs(f)) \/ At(m, p)
    <3>1. \A m \in Messages : \A p \in {"agent", "worker", "queue"} :
            At(m, p)' => (p = "worker" /\ m \in Msgs(f)) \/ At(m, p)
      BY <1>6 DEF At
    <3>2. QED BY <1>4, <3>1
  <2>3. \A m \in Messages : given'[m] = given[m] + IF m \in Msgs(f) /\ "worker" = "agent" THEN 1 ELSE 0
    BY <1>6 DEF Placed, IntakeTypeOK
  <2>4. \A m \in Messages : OneTurn(m) => OneTurn(m)' \/ (At(m, "queue") /\ m \in Msgs(f))
    BY <1>6, TurnsRest
  <2>5. "worker" \in PlaceNames \ {"flight"} BY DEF PlaceNames
  <2>6. QED BY <1>1, <2>1, <2>2, <2>3, <2>4, <2>5, ArrivalKeeps
<1>7. CASE queue' = Append(queue, Msgs(f)) /\ UNCHANGED <<running, runAt, given>>
  <2>1. /\ queue' \in Seq(SUBSET Messages)
        /\ \A i \in DOMAIN queue' : \/ i \in DOMAIN queue /\ queue'[i] = queue[i]
                                    \/ i = Len(queue) + 1 /\ queue'[i] = Msgs(f)
    BY <1>3, <1>7, QueueGrows DEF Placed, IntakeTypeOK
  <2>2. IntakeTypeOK'
    BY <1>1, <1>2, <1>7, <2>1, HandlerReturns DEF Placed, IntakeTypeOK
  <2>3. \A m \in Messages : \A p \in PlaceNames \ {"flight"} :
          At(m, p)' => (p = "queue" /\ m \in Msgs(f)) \/ At(m, p)
    <3>1. \A m \in Messages : \A p \in {"agent", "worker", "queue"} :
            At(m, p)' => (p = "queue" /\ m \in Msgs(f)) \/ At(m, p)
      BY <1>7, <2>1 DEF At
    <3>2. QED BY <1>4, <3>1
  <2>4. \A m \in Messages : OneTurn(m) => OneTurn(m)' \/ (At(m, "queue") /\ m \in Msgs(f))
    <3> SUFFICES ASSUME NEW m \in Messages, OneTurn(m), ~(At(m, "queue") /\ m \in Msgs(f))
                 PROVE  OneTurn(m)'
      OBVIOUS
    <3>1. m \in Msgs(f) => \A k \in DOMAIN queue : m \notin queue[k] BY DEF At
    <3>2. \A i, j \in DOMAIN queue' : m \in queue'[i] /\ m \in queue'[j] => i = j
      BY <2>1, <3>1 DEF OneTurn
    <3>3. QED BY <3>2 DEF OneTurn
  <2>5. \A m \in Messages : given'[m] = given[m] + IF m \in Msgs(f) /\ "queue" = "agent" THEN 1 ELSE 0
    BY <1>7 DEF Placed, IntakeTypeOK
  <2>6. "queue" \in PlaceNames \ {"flight"} BY DEF PlaceNames
  <2>7. QED BY <1>1, <2>2, <2>3, <2>4, <2>5, <2>6, ArrivalKeeps
<1>8. QED BY <1>1, <1>5, <1>6, <1>7 DEF Submitted

(* A flush of forwards that fails puts them back, in place of nothing or of  *)
(* what came in the meantime.                                                *)
LEMMA ForwardFailsKeeps ==
  ASSUME Placed, NEW f \in flights, ForwardFails(f)
  PROVE  Placed'
<1>1. /\ Over(f) /\ Returns(f) /\ flights' \subseteq Flights
      /\ UNCHANGED <<received, coVars, groupVars, albumVars, drafts, runVars, given, cleared, redo>>
  BY DEF ForwardFails, Lands, Over, Placed, IntakeTypeOK
<1>2. forward' = forward \/ forward' = f.items
  BY DEF ForwardFails, RestoreIfAbsent, Overwrite
<1>3. f.items \in SUBSET SUBSET Messages /\ UNION f.items \subseteq Msgs(f)
  BY DEF Msgs, Placed, IntakeTypeOK, Flights
<1>4. IntakeTypeOK'
  BY <1>1, <1>2, <1>3, HandlerReturns DEF Placed, IntakeTypeOK
<1>5. \A m \in Messages : \A p \in PlaceNames \ {"flight"} :
        At(m, p)' => (p = "forward" /\ m \in Msgs(f)) \/ At(m, p)
  <2>1. \A m \in Messages : At(m, "handler")' => At(m, "handler")
    BY <1>1, HandlerReturns
  <2>2. \A m \in Messages : At(m, "forward")' => m \in Msgs(f) \/ At(m, "forward")
    BY <1>2, <1>3 DEF At
  <2>3. \A m \in Messages : \A p \in PlaceNames \ {"flight", "forward", "handler"} :
          At(m, p)' => At(m, p)
    BY <1>1 DEF At
  <2>4. QED BY <2>1, <2>2, <2>3
<1>6. \A m \in Messages : given'[m] = given[m] + IF m \in Msgs(f) /\ "forward" = "agent" THEN 1 ELSE 0
  BY <1>1 DEF Placed, IntakeTypeOK
<1>7. \A m \in Messages : OneTurn(m) => OneTurn(m)' \/ (At(m, "queue") /\ m \in Msgs(f))
  BY <1>1, TurnsRest
<1>8. "forward" \in PlaceNames \ {"flight"} BY DEF PlaceNames
<1>9. QED BY <1>1, <1>4, <1>5, <1>6, <1>7, <1>8, ArrivalKeeps

(* After the prompt has been handed over only forwards come back, and those  *)
(* are remembered in redo.                                                   *)
LEMMA LateFailureKeeps ==
  ASSUME Placed, NEW f \in flights, LateFailure(f)
  PROVE  Placed'
<1>1. /\ f.at = "late" /\ flights' = flights \ {f} /\ Returns(f)
      /\ UNCHANGED <<received, coVars, groupVars, albumVars, drafts, runVars, given, cleared>>
      /\ \/ UNCHANGED <<forward, redo>>
         \/ forward' = f.items /\ redo' = redo \cup UNION f.items
  BY DEF LateFailure, Lands, Tell
<1>2. f.items \in SUBSET SUBSET Messages /\ UNION f.items \subseteq Msgs(f)
  BY DEF Msgs, Placed, IntakeTypeOK, Flights
<1>3. IntakeTypeOK'
  BY <1>1, <1>2, HandlerReturns DEF Placed, IntakeTypeOK
<1>4. ASSUME NEW m \in Messages PROVE Settled(m)'
  <2>1. Settled(m) BY DEF Placed
  <2>2. (OneFlight(m) => OneFlight(m)') /\ (OneTurn(m) => OneTurn(m)')
    BY <1>1, FlightsRest, TurnsRest
  <2>3. At(m, "handler")' => At(m, "handler") BY <1>1, HandlerReturns
  <2>4. \A p \in PlaceNames \ {"forward", "handler"} : At(m, p)' => At(m, p)
    BY <1>1 DEF At, Carries, Msgs
  <2>5. At(m, "forward")' => At(m, "forward") \/ (m \in UNION f.items /\ m \in redo')
    BY <1>1 DEF At
  <2>6. CASE m \in UNION f.items /\ m \in redo'
    BY <1>1, <1>2, <2>1, <2>6 DEF Settled
  <2>7. CASE ~(m \in UNION f.items /\ m \in redo')
    BY <1>1, <2>1, <2>2, <2>3, <2>4, <2>5, <2>7, NoNewPlace
  <2>8. QED BY <2>6, <2>7
<1>5. QED BY <1>3, <1>4 DEF Placed

LEMMA CoalesceFailsKeeps ==
  ASSUME Placed, NEW f \in flights, CoalesceFails(f)
  PROVE  Placed'
<1>1. \/ UNCHANGED handler \/ handler' = Idle
      \/ handler.at = "flushing" /\ handler' = [handler EXCEPT !.at = "direct"]
  BY DEF CoalesceFails, Lands, Returns
<1>2. flights' \subseteq flights
      /\ UNCHANGED <<received, coVars, groupVars, fwVars, albumVars, drafts, runVars, fate>>
  BY DEF CoalesceFails, Lands, Tell
<1>3. QED BY <1>1, <1>2, NothingMoves

LEMMA HandlingKeepsPlaces ==
  ASSUME Placed, Handling
  PROVE  Placed'
<1>1. CASE AppendPart
  <2>1. handler.msg \in Messages BY <1>1 DEF AppendPart, Placed, IntakeTypeOK
  <2>2. QED BY <1>1, <2>1, AppendKeeps
<1>2. CASE HintBegins \/ HintEnds \/ Unbind
  <2>1. /\ handler' = Idle \/ handler' \in [at : {"hinting"}, msg : {handler.msg}]
        /\ UNCHANGED <<received, coVars, groupVars, fwVars, albumVars, flights, drafts, fate, queue,
                       running, runAt>>
    BY <1>2 DEF HintBegins, HintEnds, Unbind, Placed, IntakeTypeOK
  <2>2. handler' = Idle \/ handler' \in [at : HandlerStates \ {"append", "trigger", "flushing", "direct"},
                                         msg : Messages \cup Commands \cup {NoMsg}]
    BY <2>1 DEF HandlerStates, Placed, IntakeTypeOK
  <2>3. QED BY <2>1, <2>2, NothingMoves
<1>3. QED
  BY <1>1, <1>2, TriggerKeeps, DirectKeeps, ClearBuffersKeeps, ClearQueueKeeps DEF Handling

LEMMA CommandKeeps ==
  ASSUME Placed, NEW c \in Commands, Command(c)
  PROVE  Placed'
<1>1. handler' \in [at : HandlerStates \ {"append", "trigger", "flushing", "direct"},
                    msg : Messages \cup Commands \cup {NoMsg}]
  BY DEF Command, HandlerStates
<1>2. UNCHANGED <<received, coVars, groupVars, fwVars, albumVars, flights, drafts, runVars, fate>>
  BY DEF Command
<1>3. QED BY <1>1, <1>2, NothingMoves

LEMMA PlacedInitially == Init => Placed
<1> SUFFICES ASSUME Init PROVE Placed OBVIOUS
<1>1. IntakeTypeOK
  BY EmptySeq DEF Init, IntakeTypeOK, HandlerStates, Idle, NoTask
<1>2. \A m \in Messages : \A p \in PlaceNames : ~At(m, p)
  BY DEF Init, At, Idle, NoTask
<1>3. ASSUME NEW m \in Messages PROVE OneFlight(m) /\ OneTurn(m) /\ given[m] <= 1
  BY DEF Init, OneFlight, OneTurn
<1>4. flights = {} BY DEF Init
<1>5. QED BY <1>1, <1>2, <1>3, <1>4 DEF Placed, Settled, OnePlace

LEMMA StepKeepsPlaces == Placed /\ [Next]_vars => Placed'
<1> SUFFICES ASSUME Placed, [Next]_vars PROVE Placed' OBVIOUS
<1>1. CASE UNCHANGED vars
  BY <1>1, NothingMoves DEF vars
<1>2. ASSUME NEW m \in Messages,
             \/ TakeText(m) \/ TakePhoto(m) \/ TakeVoice(m) \/ TakeDocument(m) \/ Refused(m)
             \/ TakeGroupPart(m) \/ TakeForward(m) \/ TakeAlbumForward(m)
             \/ DraftExpires(m) \/ \E c \in BOOLEAN : ConfirmDraft(m, c)
      PROVE  Placed'
  BY <1>2, BeginKeeps, TakeVoiceKeeps, TakePartKeeps, TakeForwardKeeps, DraftKeeps
<1>3. CASE Timers
  <2>1. ASSUME NEW m \in GroupPhotos, AddFromGroup(m) PROVE Placed'
    BY <2>1, AppendKeeps DEF Messages
  <2>2. QED BY <1>3, <2>1, CoalesceFiresKeeps, TimeoutKeeps, CollectorKeeps DEF Timers
<1>4. CASE Flushing
  BY <1>4, CoalesceFailsKeeps, ForwardFailsKeeps, BuiltKeeps, SubmitKeeps, LateFailureKeeps
  DEF Flushing
<1>5. QED
  BY <1>1, <1>2, <1>3, <1>4, CommandKeeps, HandlingKeepsPlaces, RunningKeeps DEF Next

-----------------------------------------------------------------------------

(* A message is in one prompt only, in the queue, with the worker or handed  *)
(* to an agent, unless a forward was put back by a flush that failed after   *)
(* its prompt had been handed over (prompt_coalesce, forward_context,        *)
(* job_queue, run_executor).                                                 *)
THEOREM MessagesAreSubmittedOnce == Spec => []SubmittedOnce
<1>1. Placed => SubmittedOnce
  <2> SUFFICES ASSUME Placed, NEW m \in Messages \ redo PROVE Copies(m) <= 1
    BY DEF SubmittedOnce
  <2> DEFINE turns == {i \in DOMAIN queue : m \in queue[i]}
  <2>1. OnePlace(m) /\ given[m] \in Nat BY DEF Placed, Settled, IntakeTypeOK
  <2>2. Cardinality(turns) \in {0, 1} /\ (Cardinality(turns) = 1 => At(m, "queue"))
    <3>1. CASE turns = {} BY <3>1, FS_EmptySet
    <3>2. ASSUME NEW i \in turns PROVE Cardinality(turns) = 1 /\ At(m, "queue")
      <4>1. turns = {i} BY <2>1, <3>2 DEF OnePlace, OneTurn
      <4>2. QED BY <3>2, <4>1, FS_Singleton DEF At
    <3>3. QED BY <3>1, <3>2
  <2> HIDE DEF turns
  <2>3. m \in running /\ runAt \in {"context", "placeholder", "setup"} => At(m, "worker")
    BY DEF At
  <2>4. given[m] # 0 => At(m, "agent") BY DEF At
  <2>5. given[m] <= 1 /\ \A p, q \in {"queue", "worker", "agent"} : At(m, p) /\ At(m, q) => p = q
    BY <2>1 DEF OnePlace, PlaceNames
  <2>6. Copies(m) = given[m] + Cardinality(turns)
                      + IF m \in running /\ runAt \in {"context", "placeholder", "setup"} THEN 1 ELSE 0
    BY DEF Copies, turns
  <2>7. QED BY <2>1, <2>2, <2>3, <2>4, <2>5, <2>6
<1>2. QED BY <1>1, PlacedInitially, StepKeepsPlaces, PTL DEF Spec

-----------------------------------------------------------------------------
(* What was taken back *)

ClearedTyped == cleared \subseteq Messages

LEMMA ClearingKeepsType ==
  ASSUME Placed, ClearedTyped, [Next]_vars
  PROVE  ClearedTyped'
<1>1. CASE UNCHANGED cleared BY <1>1 DEF ClearedTyped
<1>2. ASSUME NEW m \in Messages,
             \/ TakeText(m) \/ TakePhoto(m) \/ TakeVoice(m) \/ TakeDocument(m) \/ Refused(m)
             \/ TakeGroupPart(m) \/ TakeForward(m) \/ TakeAlbumForward(m) \/ DraftExpires(m)
      PROVE  UNCHANGED cleared
  BY <1>2 DEF TakeText, TakePhoto, TakeVoice, TakeDocument, Refused, TakeGroupPart, TakeForward,
              TakeAlbumForward, DraftExpires, Tell
<1>3. ASSUME NEW m \in Messages, NEW c \in BOOLEAN, ConfirmDraft(m, c)
      PROVE  cleared' \subseteq cleared \cup {m}
  BY <1>3 DEF ConfirmDraft
<1>4. CASE \E c \in Commands : Command(c) BY <1>1, <1>4 DEF Command
<1>5. CASE AppendPart \/ HintBegins \/ HintEnds \/ Trigger \/ DirectVoice \/ DirectDocument \/ Unbind
  BY <1>1, <1>5 DEF AppendPart, HintBegins, HintEnds, Trigger, DirectVoice,
                    DirectDocument, Unbind, Tell
<1>6. CASE ClearForwards \/ ClearCoalesce \/ ClearGroup \/ ClearQueue
  <2>1. /\ UNION forward \subseteq Messages /\ album \subseteq Messages /\ coalesce \subseteq Messages
        /\ group \subseteq Messages
    BY DEF Placed, IntakeTypeOK
  <2>2. UNION {queue[i] : i \in DOMAIN queue} \subseteq Messages
    <3>1. \A i \in DOMAIN queue : queue[i] \subseteq Messages
      BY ElementOfSeq DEF Placed, IntakeTypeOK
    <3>2. QED BY <3>1
  <2>3. QED BY <1>6, <2>1, <2>2 DEF ClearForwards, ForwardsCleared, ClearCoalesce, ClearGroup,
                                    ClearQueue, ClearedTyped
<1>7. CASE Timers
  <2>1. UNCHANGED cleared
    BY <1>7 DEF Timers, CoalesceFires, GroupFires, TimeoutFires, AlbumFires, AddAlbum, AlbumHintEnds,
                AddFromGroup, Tell
  <2>2. QED BY <1>1, <2>1
<1>8. CASE Flushing
  <2>1. ASSUME NEW f \in flights,
               \/ CoalesceFails(f) \/ ForwardFails(f) \/ CoalesceBuilt(f) \/ ForwardBuilt(f)
               \/ Submit(f) \/ LateFailure(f)
        PROVE  UNCHANGED cleared
    BY <2>1 DEF CoalesceFails, ForwardFails, CoalesceBuilt, ForwardBuilt, Submit, LateFailure, Tell
  <2>2. QED BY <1>1, <1>8, <2>1 DEF Flushing
<1>9. CASE Running
  BY <1>1, <1>9 DEF Running, RunStarts, RunPlaceholder, RunSetup, RunUpdate, RunBind, RunEnds, Tell
<1>10. CASE UNCHANGED vars BY <1>1, <1>10 DEF vars
<1>11. QED
  BY <1>1, <1>2, <1>3, <1>4, <1>5, <1>6, <1>7, <1>8, <1>9, <1>10 DEF Next, Handling, ClearedTyped

(* Only a message that is somewhere else is given to an agent.               *)
LEMMA StepSparesCleared ==
  ASSUME Placed, ClearedTyped, [Next]_vars
  PROVE  \A m \in cleared \ redo : given'[m] = given[m]
<1> SUFFICES ASSUME NEW m \in cleared, m \notin redo PROVE given'[m] = given[m] OBVIOUS
<1>1. m \in Messages /\ given[m] \in Nat BY DEF ClearedTyped, Placed, IntakeTypeOK
<1>2. OnePlace(m) /\ At(m, "cleared") BY <1>1 DEF Placed, Settled, At
<1>3. ~At(m, "handler") /\ ~At(m, "draft") /\ ~At(m, "flight") /\ ~At(m, "worker")
  BY <1>2 DEF OnePlace, PlaceNames
<1>4. ASSUME NEW ms, Give(ms), m \notin ms PROVE given'[m] = given[m]
  BY <1>1, <1>4 DEF Give
<1>5. CASE UNCHANGED given BY <1>5
<1>6. ASSUME NEW n \in Messages,
             \/ TakeText(n) \/ TakePhoto(n) \/ TakeVoice(n) \/ TakeDocument(n) \/ Refused(n)
             \/ TakeGroupPart(n) \/ TakeForward(n) \/ TakeAlbumForward(n) \/ DraftExpires(n)
      PROVE  UNCHANGED given
  BY <1>6 DEF TakeText, TakePhoto, TakeVoice, TakeDocument, Refused, TakeGroupPart, TakeForward,
              TakeAlbumForward, DraftExpires, Tell
<1>7. ASSUME NEW n \in Messages, NEW c \in BOOLEAN, ConfirmDraft(n, c) PROVE given'[m] = given[m]
  BY <1>3, <1>4, <1>7 DEF ConfirmDraft, At
<1>8. CASE \E c \in Commands : Command(c) BY <1>5, <1>8 DEF Command
<1>9. CASE DirectVoice \/ DirectDocument
  <2>1. UNCHANGED given \/ (Give({handler.msg}) /\ handler.at = "direct")
    BY <1>9 DEF DirectVoice, DirectDocument, Tell
  <2>2. QED BY <1>3, <1>4, <1>5, <2>1 DEF At
<1>10. CASE Handling /\ ~DirectVoice /\ ~DirectDocument
  BY <1>5, <1>10 DEF Handling, AppendPart, HintBegins, HintEnds, Trigger,
                     ClearForwards, ClearCoalesce, ClearGroup, ClearQueue, Unbind
<1>11. CASE Timers
  BY <1>5, <1>11 DEF Timers, CoalesceFires, GroupFires, TimeoutFires, AlbumFires, AddAlbum,
                     AlbumHintEnds, AddFromGroup, Tell
<1>12. ASSUME NEW f \in flights,
              CoalesceFails(f) \/ ForwardFails(f) \/ CoalesceBuilt(f) \/ ForwardBuilt(f) \/ LateFailure(f)
       PROVE  UNCHANGED given
  BY <1>12 DEF CoalesceFails, ForwardFails, CoalesceBuilt, ForwardBuilt, LateFailure, Tell
<1>13. ASSUME NEW f \in flights, Submit(f) PROVE given'[m] = given[m]
  BY <1>3, <1>4, <1>13 DEF Submit, Submitted, At, Carries
<1>14. CASE RunSetup
  BY <1>3, <1>4, <1>14 DEF RunSetup, Tell, At
<1>15. CASE RunStarts \/ RunPlaceholder \/ RunUpdate \/ RunBind \/ RunEnds
  BY <1>5, <1>15 DEF RunStarts, RunPlaceholder, RunUpdate, RunBind, RunEnds, Tell
<1>16. CASE UNCHANGED vars BY <1>5, <1>16 DEF vars
<1>17. QED
  BY <1>5, <1>6, <1>7, <1>8, <1>9, <1>10, <1>11, <1>12, <1>13, <1>14, <1>15, <1>16
  DEF Next, Flushing, Running

(* What /cancel, the cancel button or /new took back never reaches an agent, *)
(* however late the command, the timers, the flushes and the worker take     *)
(* their steps (cancel_handler, PromptCoalesceBuffer.clear,                  *)
(* cancel_user_work).                                                        *)
THEOREM ClearedStaysHome == Spec => ClearedIsNotSent
<1>1. Init => Placed /\ ClearedTyped
  BY PlacedInitially DEF Init, ClearedTyped
<1>2. Placed /\ ClearedTyped /\ [Next]_vars => (Placed /\ ClearedTyped)'
  BY StepKeepsPlaces, ClearingKeepsType
<1>3. Placed /\ ClearedTyped /\ [Next]_vars => [\A m \in cleared \ redo : given'[m] = given[m]]_vars
  BY StepSparesCleared
<1>4. QED BY <1>1, <1>2, <1>3, PTL DEF Spec, ClearedIsNotSent
=============================================================================

------------------------- MODULE RunStreamTheorems --------------------------
(***************************************************************************)
(* Proofs of the safety properties of a watched run, for streams of any      *)
(* length and any number of reconnects, polls, watchers and failures.        *)
(***************************************************************************)
EXTENDS RunStream, TLAPS

(* the steps of the card, taken by the watcher or by another task            *)
CardStep == (Drawing \/ Background) /\ UNCHANGED streamVars

USE DEF streamVars, cardVars, cloudVars, pathVars, loopVars, outsideVars, tasks, placeholder

-----------------------------------------------------------------------------
(* Resuming *)

(* The id of the last event is where the connection stands and where the     *)
(* next one starts.                                                          *)
Resuming ==
  /\ st = [status |-> st.status, lastId |-> st.lastId, from |-> st.from, seen |-> st.seen,
           plan |-> st.plan, planCall |-> st.planCall, text |-> st.text]
  /\ st.from \in Nat /\ st.seen \in Seq(Nat)
  /\ st.lastId = st.from + Len(st.seen)
  /\ pos = st.lastId
  /\ at = "open" => eventId = st.lastId
  /\ stored \in Nat
  /\ back # "open"
  /\ ResumesInOrder

USE DEF Resuming, ResumesInOrder, Resume, Fresh

LEMMA ResumingInitially == Init => Resuming
BY DEF Init

(* a new StreamState that knows the same events                              *)
SameEvents(s) ==
  s = [status |-> s.status, lastId |-> st.lastId, from |-> st.from, seen |-> st.seen,
       plan |-> s.plan, planCall |-> s.planCall, text |-> s.text]

LEMMA ResumingRests ==
  ASSUME Resuming, SameEvents(st'), UNCHANGED pos,
         at' = "open" => eventId' = st.lastId,
         stored' \in Nat, back' # "open"
  PROVE  Resuming'
BY DEF SameEvents

LEMMA OnUpdateRests ==
  ASSUME Resuming, NEW s, NEW r \in Returns, OnUpdate(s, r), SameEvents(s)
  PROVE  SameEvents(st') /\ at' # "open" /\ stored' \in Nat /\ back' # "open"
<1>1. st' = s /\ at' # "open" /\ back' # "open" BY DEF OnUpdate, Returns
<1>2. s.lastId = st.lastId /\ st.lastId \in Nat BY DEF SameEvents
<1>3. stored' \in {stored, s.lastId} BY DEF OnUpdate
<1>4. QED BY <1>1, <1>2, <1>3

LEMMA DeliverKeepsResuming ==
  ASSUME Resuming, Deliver
  PROVE  Resuming'
<1> DEFINE s == Applied(st, pos + 1)
<1>1. /\ s = [status |-> StatusOf(log[pos + 1], st), lastId |-> pos + 1, from |-> st.from,
              seen |-> Append(st.seen, pos + 1), plan |-> s.plan, planCall |-> s.planCall,
              text |-> s.text]
  BY DEF Applied
<1>2. st' = s /\ pos' = pos + 1 /\ at' # "open" /\ back' # "open" /\ stored' \in {stored, s.lastId}
  BY DEF Deliver, OnUpdate
<1>3. s.lastId = pos + 1 /\ s.from = st.from /\ s.seen = Append(st.seen, pos + 1)
  BY <1>1
<1> HIDE DEF s
<1>4. /\ pos + 1 \in Nat /\ pos + 1 = st.from + Len(st.seen) + 1
      /\ Len(st.seen) \in Nat
  OBVIOUS
<1>5. Len(Append(st.seen, pos + 1)) = Len(st.seen) + 1
      /\ Append(st.seen, pos + 1) \in Seq(Nat)
      /\ \A i \in 1..Len(st.seen) : Append(st.seen, pos + 1)[i] = st.seen[i]
      /\ Append(st.seen, pos + 1)[Len(st.seen) + 1] = pos + 1
  BY <1>4
<1>6. Append(st.seen, pos + 1) = [i \in 1..Len(Append(st.seen, pos + 1)) |-> st.from + i]
  <2> DEFINE longer == Append(st.seen, pos + 1)
  <2>1. \A i \in 1..Len(st.seen) : st.seen[i] = st.from + i
    OBVIOUS
  <2>2. \A i \in 1..(Len(st.seen) + 1) : longer[i] = st.from + i
    BY <1>4, <1>5, <2>1
  <2>3. longer = [i \in 1..Len(longer) |-> longer[i]] /\ Len(longer) = Len(st.seen) + 1
    BY <1>5
  <2> HIDE DEF longer
  <2>4. longer = [i \in 1..Len(longer) |-> st.from + i]
    BY <2>2, <2>3
  <2>5. QED BY <2>4 DEF longer
<1>7. stored' \in Nat
  BY <1>2, <1>3, <1>4
<1>8. st' = [status |-> st'.status, lastId |-> st'.lastId, from |-> st'.from,
             seen |-> st'.seen, plan |-> st'.plan, planCall |-> st'.planCall,
             text |-> st'.text]
  BY <1>1, <1>2
<1>9. QED BY <1>2, <1>3, <1>4, <1>5, <1>6, <1>7, <1>8

(* steps that say something else about the run                               *)
LEMMA SnapshotsKeepResuming ==
  ASSUME Resuming, Done \/ ErrorEvent \/ Poll \/ FinalizePlan \/ FetchUsage
  PROVE  Resuming'
<1>1. SameEvents(st) /\ \A status, plan, text : SameEvents(Says(st, status, plan, text))
  BY DEF SameEvents, Says
<1>2. \/ UNCHANGED <<st, stored, back>> /\ at' # "open"
      \/ \E r \in Returns : OnUpdate(st, r)
      \/ \E r \in Returns : \E status, plan, text : OnUpdate(Says(st, status, plan, text), r)
  BY DEF Done, ErrorEvent, Poll, Snapshot, FinalizePlan, FetchUsage, Returns
<1>3. UNCHANGED pos
  BY DEF Done, ErrorEvent, Poll, FinalizePlan, FetchUsage
<1> HIDE DEF Resuming
<1>4. SameEvents(st') /\ at' # "open" /\ stored' \in Nat /\ back' # "open"
  <2>1. CASE UNCHANGED <<st, stored, back>> /\ at' # "open"
    BY <1>1, <2>1 DEF Resuming
  <2>2. QED BY <1>1, <1>2, <2>1, OnUpdateRests
<1>5. QED BY <1>3, <1>4, ResumingRests

LEMMA ConnectionsKeepResuming ==
  ASSUME Resuming, Open \/ OpenRefused \/ Retry
  PROVE  Resuming'
BY DEF Open, OpenRefused, Retry

LEMMA RespawnKeepsResuming ==
  ASSUME Resuming, Respawn
  PROVE  Resuming'
BY DEF Respawn

LEMMA OtherStepsKeepResuming ==
  ASSUME Resuming,
         \/ Emit \/ Finish \/ CancelIsAsked \/ CardStep \/ DrawCard \/ Updated
         \/ Cut \/ Expired \/ StreamEnd \/ NetworkFails \/ PollRefused \/ Outcome
         \/ Paused \/ Stop \/ ObserverFails \/ BotFails \/ Escapes \/ Closed \/ Crash
         \/ UNCHANGED vars
  PROVE  Resuming'
<1>1. UNCHANGED <<st, pos, eventId, stored>> /\ (back' = back \/ back' = "paused")
  BY DEF Emit, Finish, CancelIsAsked, CardStep, DrawCard, Updated, Cut, Expired, StreamEnd,
     NetworkFails, PollRefused, Outcome, Paused, Stop, ObserverFails, BotFails, Escapes,
     Closed, Crash, Leave, vars
<1>2. at' = "open" => at = "open"
  <2>1. CASE CardStep
    BY <2>1 DEF CardStep, Drawing, Background, AnimTicks, AnimAnswered, PulseFlushes,
       PulseAnswered, DelayedFlushes, DelayedAnswered, DelayedIsLate, PresetStarts,
       PresetAnswered, UpdateFlushes, UpdateAnswered, FinalizeBegun, FinalizeFlushes,
       FinalizeAnswered, PlainAnswered, AgainAnswered
  <2>2. CASE DrawCard \/ Updated
    BY <2>2 DEF DrawCard, Update, Draw, Updated
  <2>3. QED BY <2>1, <2>2 DEF Emit, Finish, CancelIsAsked, Cut, Expired, StreamEnd,
     NetworkFails, PollRefused, Outcome, Paused, Stop, ObserverFails, BotFails, Escapes,
     Closed, Crash, Leave, vars
<1>3. QED BY <1>1, <1>2

LEMMA NextKeepsResuming ==
  ASSUME Resuming, [Next]_vars
  PROVE  Resuming'
<1> HIDE DEF Resuming
<1>1. QED BY DeliverKeepsResuming, SnapshotsKeepResuming, ConnectionsKeepResuming,
          RespawnKeepsResuming, OtherStepsKeepResuming DEF Next, Watch, Card, CardStep

HIDE DEF Resuming, ResumesInOrder, Resume, Fresh

-----------------------------------------------------------------------------
(* The outcome *)

UpdatePoints == {"preset", "preset_edit", "update", "update_lock", "update_edit", "updated"}
Concluding == {"plan", "usage", "outcome"}

(* From the last poll on the status of the StreamState is that of the run,   *)
(* if it is terminal, also while the card is drawn in between.               *)
Concluded ==
  /\ cloud \in {"running"} \cup CloudTerminal
  /\ back \in Returns
  /\ at \in Concluding \/ (at \in UpdatePoints /\ back \in Concluding) =>
       (Terminal(st) => st.status = cloud)
  /\ OutcomeIsCloud

USE DEF Concluded, OutcomeIsCloud, Concluding, UpdatePoints, Terminal, CloudTerminal, Returns

LEMMA ConcludedInitially == Init => Concluded
BY DEF Init, Fresh

(* a step that begins nothing of the conclusion                              *)
LEMMA ConcludedRests ==
  ASSUME Concluded, UNCHANGED <<cloud, outcome, inBot>>, back' \in Returns,
         at' \notin Concluding,
         ~(at' \in UpdatePoints /\ back' \in Concluding)
  PROVE  Concluded'
OBVIOUS

(* or that goes on with it                                                   *)
LEMMA ConcludedGoesOn ==
  ASSUME Concluded, UNCHANGED <<cloud, outcome, inBot>>, back' \in Returns,
         at \in Concluding, st'.status = st.status
  PROVE  Concluded'
OBVIOUS

LEMMA OnUpdateGoesTo ==
  ASSUME NEW s, NEW r \in Returns, OnUpdate(s, r)
  PROVE  st' = s /\ back' = r /\ at' \in UpdatePoints \cup {"stop"}
BY DEF OnUpdate

LEMMA WatchKeepsConcluded ==
  ASSUME Concluded, Deliver \/ Done \/ ErrorEvent
  PROVE  Concluded'
<1>1. /\ UNCHANGED <<cloud, outcome, inBot>>
      /\ \/ at' \in {"read", "retry"} /\ UNCHANGED back
         \/ \E s : \E r \in {"read", "stream_end"} : OnUpdate(s, r)
  <2>1. CASE Deliver BY <2>1 DEF Deliver
  <2>2. CASE Done BY <2>2 DEF Done
  <2>3. CASE ErrorEvent BY <2>3 DEF ErrorEvent
  <2>4. QED BY <2>1, <2>2, <2>3
<1>2. CASE at' \in {"read", "retry"} /\ UNCHANGED back
  BY <1>1, <1>2, ConcludedRests
<1>3. CASE \E s : \E r \in {"read", "stream_end"} : OnUpdate(s, r)
  <2>1. back' \in {"read", "stream_end"} /\ at' \in UpdatePoints \cup {"stop"}
    BY <1>3, OnUpdateGoesTo
  <2>2. QED BY <1>1, <2>1, ConcludedRests
<1>4. QED BY <1>1, <1>2, <1>3

LEMMA PollKeepsConcluded ==
  ASSUME Concluded, Poll
  PROVE  Concluded'
<1>1. PICK r \in {"plan", "poll"} : OnUpdate(Snapshot(st), r)
  BY DEF Poll
<1>2. st' = Snapshot(st) /\ back' = r /\ at' \in UpdatePoints \cup {"stop"}
  BY <1>1, OnUpdateGoesTo
<1>3. st'.status = cloud
  BY <1>2 DEF Snapshot, Says
<1>4. UNCHANGED <<cloud, outcome, inBot>>
  BY DEF Poll
<1>5. QED BY <1>2, <1>3, <1>4

LEMMA ConclusionKeepsConcluded ==
  ASSUME Concluded, FinalizePlan \/ FetchUsage
  PROVE  Concluded'
<1>1. /\ UNCHANGED <<cloud, outcome, inBot>> /\ at \in Concluding
      /\ \/ UNCHANGED <<st, back>>
         \/ \E r \in Returns : OnUpdate(st, r)
         \/ \E r \in Returns : \E plan, text : OnUpdate(Says(st, st.status, plan, text), r)
  <2>1. CASE FinalizePlan BY <2>1 DEF FinalizePlan
  <2>2. CASE FetchUsage BY <2>2 DEF FetchUsage
  <2>3. QED BY <2>1, <2>2
<1>2. \A plan, text : Says(st, st.status, plan, text).status = st.status
  BY DEF Says
<1>3. st'.status = st.status /\ back' \in Returns
  BY <1>1, <1>2, OnUpdateGoesTo
<1>4. QED BY <1>1, <1>3, ConcludedGoesOn

LEMMA OutcomeKeepsConcluded ==
  ASSUME Concluded, Outcome
  PROVE  Concluded'
BY DEF Outcome

LEMMA CloudKeepsConcluded ==
  ASSUME Concluded, Emit \/ Finish \/ CancelIsAsked
  PROVE  Concluded'
BY DEF Emit, Finish, CancelIsAsked

LEMMA CardKeepsConcluded ==
  ASSUME Concluded, CardStep \/ DrawCard
  PROVE  Concluded'
<1>1. UNCHANGED <<st, cloud, outcome, inBot, back>>
  BY DEF CardStep, DrawCard
<1>2. \/ UNCHANGED at
      \/ at \in UpdatePoints /\ at' \in UpdatePoints
      \/ at' \notin Concluding \cup UpdatePoints
  BY DEF CardStep, DrawCard, Update, Draw, Drawing, Background, AnimTicks, AnimAnswered,
     PulseFlushes, PulseAnswered, DelayedFlushes, DelayedAnswered, DelayedIsLate, PresetStarts,
     PresetAnswered, UpdateFlushes, UpdateAnswered, FinalizeBegun, FinalizeFlushes,
     FinalizeAnswered, PlainAnswered, AgainAnswered
<1>3. QED BY <1>1, <1>2

LEMMA OtherStepsKeepConcluded ==
  ASSUME Concluded,
         \/ Updated \/ Cut \/ Expired \/ Open \/ OpenRefused \/ Retry \/ StreamEnd
         \/ NetworkFails \/ PollRefused \/ Paused \/ Stop \/ ObserverFails \/ BotFails
         \/ Escapes \/ Closed \/ Crash \/ Respawn \/ UNCHANGED vars
  PROVE  Concluded'
<1>1. CASE Updated BY <1>1 DEF Updated
<1>2. CASE BotFails BY <1>2 DEF BotFails
<1>3. CASE UNCHANGED vars BY <1>3 DEF vars
<1>4. CASE ~(Updated \/ BotFails \/ UNCHANGED vars)
  <2>1. /\ UNCHANGED <<cloud, outcome, inBot, back>>
        /\ at' \notin Concluding \cup UpdatePoints
    BY <1>4 DEF Cut, Expired, Open, OpenRefused, Retry, StreamEnd, NetworkFails, PollRefused,
       Paused, Stop, ObserverFails, Escapes, Closed, Crash, Respawn, Leave
  <2>2. QED BY <2>1, ConcludedRests
<1>5. QED BY <1>1, <1>2, <1>3, <1>4

LEMMA NextKeepsConcluded ==
  ASSUME Concluded, [Next]_vars
  PROVE  Concluded'
<1> HIDE DEF Concluded
<1>1. QED BY WatchKeepsConcluded, PollKeepsConcluded, ConclusionKeepsConcluded,
          OutcomeKeepsConcluded, CloudKeepsConcluded, CardKeepsConcluded,
          OtherStepsKeepConcluded DEF Next, Watch, Card, CardStep

HIDE DEF Concluded, OutcomeIsCloud, Concluding, UpdatePoints, Terminal, CloudTerminal, Returns

-----------------------------------------------------------------------------
(* The last text *)

Closing == {"close_lock", "close_edit", "close_plain", "close_again", "closed", "end"}

(* When finalize writes the last text no other task is left to write.        *)
NobodyElse ==
  /\ ~hasAnim => anim \notin {"sleep", "edit"}
  /\ at \in Closing \cup {"card_failed"} => anim \notin {"sleep", "edit"}
  /\ at \in Closing => closed /\ pulse = "off" /\ delayed = "none"
  /\ back \in Returns

USE DEF NobodyElse, Closing, Returns

LEMMA NobodyInitially == Init => NobodyElse
BY DEF Init

LEMMA CardKeepsNobody ==
  ASSUME NobodyElse, CardStep \/ DrawCard
  PROVE  NobodyElse'
<1>1. UNCHANGED back BY DEF CardStep, DrawCard
<1>2. CASE Background
  BY <1>1, <1>2 DEF Background, AnimTicks, AnimAnswered, PulseFlushes, PulseAnswered,
     DelayedFlushes, DelayedAnswered, DelayedIsLate, CanFlush
<1>3. CASE Drawing
  <2>1. CASE PresetStarts \/ PresetAnswered \/ UpdateFlushes \/ UpdateAnswered
    BY <1>1, <2>1 DEF PresetStarts, PresetAnswered, UpdateFlushes, UpdateAnswered
  <2>2. CASE FinalizeBegun
    BY <1>1, <2>2 DEF FinalizeBegun, StopRaises
  <2>3. CASE FinalizeFlushes \/ FinalizeAnswered \/ PlainAnswered \/ AgainAnswered
    BY <1>1, <2>3 DEF FinalizeFlushes, FinalizeAnswered, PlainAnswered, AgainAnswered
  <2>4. QED BY <1>3, <2>1, <2>2, <2>3 DEF Drawing
<1>4. CASE DrawCard
  BY <1>1, <1>4 DEF DrawCard, Update, Draw
<1>5. QED BY <1>2, <1>3, <1>4 DEF CardStep

(* steps of the watcher that leave the tasks of the card alone               *)
LEMMA NobodyRests ==
  ASSUME NobodyElse, UNCHANGED <<hasAnim, anim>>, back' \in Returns,
         \/ at' \notin Closing \cup {"card_failed"}
         \/ UNCHANGED <<at, closed, pulse, delayed>>
  PROVE  NobodyElse'
OBVIOUS

LEMMA WatchKeepsNobody ==
  ASSUME NobodyElse,
         \/ Updated \/ Deliver \/ Done \/ Cut \/ ErrorEvent \/ Expired \/ Open \/ OpenRefused
         \/ Retry \/ StreamEnd \/ NetworkFails \/ Poll \/ PollRefused \/ FinalizePlan
         \/ FetchUsage \/ Outcome \/ Paused \/ Stop \/ ObserverFails \/ BotFails \/ Crash
         \/ Respawn
  PROVE  NobodyElse'
<1>1. UNCHANGED <<hasAnim, anim>>
  BY DEF Updated, Deliver, Done, Cut, ErrorEvent, Expired, Open, OpenRefused, Retry, StreamEnd,
     NetworkFails, Poll, PollRefused, FinalizePlan, FetchUsage, Outcome, Paused, Stop,
     ObserverFails, BotFails, Crash, Respawn, NewRenderer, Leave
<1>2. CASE \/ Deliver \/ Done \/ ErrorEvent \/ Poll \/ FinalizePlan \/ FetchUsage
  <2>1. \/ UNCHANGED back /\ at' \notin Closing \cup {"card_failed"}
        \/ UNCHANGED <<back, at, closed, pulse, delayed>>
        \/ \E s : \E r \in Returns : OnUpdate(s, r)
    <3>1. CASE Deliver BY <3>1 DEF Deliver
    <3>2. CASE Done BY <3>2 DEF Done
    <3>3. CASE ErrorEvent BY <3>3 DEF ErrorEvent
    <3>4. CASE Poll BY <3>4 DEF Poll
    <3>5. CASE FinalizePlan BY <3>5 DEF FinalizePlan
    <3>6. CASE FetchUsage BY <3>6 DEF FetchUsage
    <3>7. QED BY <1>2, <3>1, <3>2, <3>3, <3>4, <3>5, <3>6
  <2>2. ASSUME NEW s, NEW r \in Returns, OnUpdate(s, r)
        PROVE  back' \in Returns /\ at' \notin Closing \cup {"card_failed"}
    BY <2>2 DEF OnUpdate
  <2>3. QED BY <1>1, <2>1, <2>2, NobodyRests
<1>3. CASE ~(\/ Deliver \/ Done \/ ErrorEvent \/ Poll \/ FinalizePlan \/ FetchUsage)
  <2>1. back' \in Returns /\ at' \notin Closing \cup {"card_failed"}
    BY <1>3 DEF Updated, Cut, Expired, Open, OpenRefused, Retry, StreamEnd, NetworkFails,
       PollRefused, Outcome, Paused, Stop, ObserverFails, BotFails, Crash, Respawn, Leave
  <2>2. QED BY <1>1, <2>1, NobodyRests
<1>4. QED BY <1>2, <1>3

LEMMA EndKeepsNobody ==
  ASSUME NobodyElse,
         Escapes \/ Closed \/ Emit \/ Finish \/ CancelIsAsked \/ UNCHANGED vars
  PROVE  NobodyElse'
BY DEF Escapes, Shutdown, Closed, Emit, Finish, CancelIsAsked, vars

LEMMA NextKeepsNobody ==
  ASSUME NobodyElse, [Next]_vars
  PROVE  NobodyElse'
<1> HIDE DEF NobodyElse
<1>1. QED BY CardKeepsNobody, WatchKeepsNobody, EndKeepsNobody DEF Next, Watch, Card, CardStep

(* what is left to happen to a card that has its last text                   *)
LEMMA LastTextStays ==
  ASSUME NobodyElse, [Next]_vars, at \in {"closed", "end"}
  PROVE  shown' = shown
<1>1. CASE CardStep \/ DrawCard
  <2>1. ~Drawing /\ ~DrawCard
    BY DEF Drawing, PresetStarts, PresetAnswered, UpdateFlushes, UpdateAnswered, FinalizeBegun,
       FinalizeFlushes, FinalizeAnswered, PlainAnswered, AgainAnswered, DrawCard, Update
  <2>2. QED BY <1>1, <2>1 DEF CardStep, Background, AnimTicks, AnimAnswered, PulseFlushes,
       PulseAnswered, DelayedFlushes, DelayedAnswered, DelayedIsLate
<1>2. CASE Closed \/ Emit \/ Finish \/ CancelIsAsked \/ UNCHANGED vars
  BY <1>2 DEF Closed, Emit, Finish, CancelIsAsked, vars
<1>3. CASE Crash \/ Escapes \/ Paused \/ ObserverFails
  <2>1. Crash /\ shown' \in {shown} \cup (InFlight \cap {"live"})
    BY <1>3 DEF Crash, Shutdown, Escapes, Paused, ObserverFails
  <2>2. "live" \notin InFlight
    BY DEF InFlight
  <2>3. QED BY <2>1, <2>2
<1>4. CASE \/ Updated \/ Deliver \/ Done \/ Cut \/ ErrorEvent \/ Expired \/ Open \/ OpenRefused
           \/ Retry \/ StreamEnd \/ NetworkFails \/ Poll \/ PollRefused \/ FinalizePlan
           \/ FetchUsage \/ Outcome \/ Stop \/ BotFails \/ Respawn
  BY <1>4 DEF Updated, Deliver, Done, Cut, ErrorEvent, Expired, Open, OpenRefused, Retry,
     StreamEnd, NetworkFails, Poll, PollRefused, FinalizePlan, FetchUsage, Outcome, Stop,
     BotFails, Respawn, NewRenderer
<1>5. QED BY <1>1, <1>2, <1>3, <1>4 DEF Next, Watch, Card, CardStep

HIDE DEF NobodyElse

-----------------------------------------------------------------------------

(* Over any number of broken connections and watchers each watcher applies   *)
(* the events after its cursor in order, none twice and none left out        *)
(* (cursor_agent.py:367-463).                                                *)
THEOREM EventsComeInOrder == Spec => []ResumesInOrder
<1>1. Resuming => ResumesInOrder
  BY DEF Resuming
<1>2. QED BY <1>1, ResumingInitially, NextKeepsResuming, PTL DEF Spec

(* A run is reported as over only as Cursor says it is, however its stream   *)
(* broke (cursor_agent.py:465-500).                                          *)
THEOREM OutcomesComeFromCursor == Spec => []OutcomeIsCloud
<1>1. Concluded => OutcomeIsCloud
  BY DEF Concluded
<1>2. QED BY <1>1, ConcludedInitially, NextKeepsConcluded, PTL DEF Spec

(* No task writes over the last text of a card                               *)
(* (telegram_renderer.py:202-260).                                           *)
THEOREM LastTextsStay == Spec => FinalTextStays
<1>1. NobodyElse /\ [Next]_vars => [(at \in {"closed", "end"}) => (shown' = shown)]_vars
  BY LastTextStays
<1>2. QED BY <1>1, NobodyInitially, NextKeepsNobody, PTL DEF Spec, FinalTextStays
=============================================================================

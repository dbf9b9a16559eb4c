---------------------------- MODULE VoiceSession -----------------------------
(***************************************************************************)
(* The voice tab of the Mini App: recordings go over a web socket through    *)
(* the gateway to a transcription provider, a final transcript comes back    *)
(* and is sent as a request by the browser itself, the gateway dispatches it *)
(* as a job, and a task per job polls it and speaks the result on the same   *)
(* socket.  Audio is counted in chunks of MIN_COMMIT_AUDIO_BYTES / MinAudio. *)
(* VOICE_REQUIRE_CONFIRM and VOICE_MILESTONE_TTS are off, as by default;     *)
(* messages are never stale, the browser numbers them for all its sockets.   *)
(***************************************************************************)
EXTENDS Naturals, Sequences, FiniteSets

CONSTANTS
  MaxTurns,      (* recordings of a behaviour                                 *)
  MinAudio,      (* chunks the provider wants in a commit                     *)
  SessionLimit,  (* chunks the gateway takes in a session                    *)
  MaxInFlight,   (* messages on their way to the gateway                      *)
  MaxVoiceFaults (* connections lost, providers gone, speech failed           *)

ASSUME VoiceAssumption ==
  /\ MaxTurns \in Nat /\ MinAudio \in Nat \ {0} /\ SessionLimit \in Nat
  /\ MaxInFlight \in Nat /\ MaxVoiceFaults \in Nat

Turns == 1..MaxTurns

VARIABLES
  (* browser *)
  phase,       (* VoiceState.phase                                            *)
  turn,        (* the latest recording                                        *)
  mics,        (* recordings whose audio worklet is connected                 *)
  capturing,   (* captureOpenRef                                              *)
  recorded,    (* bytesSentRef                                                *)
  timers,      (* recordings whose maximum duration has not passed            *)
  discarded,   (* recordings the user cancelled, or that were too short       *)
  overtaken,   (* an answer changed the phase of an open recording            *)
  (* socket and gateway *)
  upstream,    (* messages to the gateway, in order                           *)
  socket,      (* "open" or "none"; the gateway's session lives as long     *)
  buffered,    (* buffered_bytes                                              *)
  received,    (* session_bytes                                               *)
  (* provider *)
  hearing,     (* its input buffer: the recording each chunk is of            *)
  items,       (* committed buffers without a transcript                      *)
  provider,    (* its connection is alive                                     *)
  (* requests *)
  request,     (* [Turns -> state of the request made from its transcript]    *)
  job,         (* [Turns -> what the jobs table and memory show of its job]   *)
  voiceFaults  (* connections, providers and speech that failed so far        *)

browser == <<phase, turn, mics, capturing, recorded, timers, discarded, overtaken>>
gateway == <<upstream, socket, buffered, received>>
stt == <<hearing, items, provider>>
voiceVars == <<browser, gateway, stt, request, job, voiceFaults>>

(* "lost" and "ended" with the session, before and after the dispatch;        *)
(* "silent" and "broken" while it goes on, with nothing to poll and with      *)
(* nobody to speak                                                            *)
RequestStates == {"none", "sent", "dispatching", "orphaned", "polled", "spoken",
                  "answered", "refused", "lost", "ended", "silent", "broken"}

(* What a poll makes of a job that ended: "failed" for FAILED, BLOCKED and    *)
(* CANCELLED, "indexed" and "unindexed" for one that finished with and        *)
(* without a result in memory, "wordless" when the result leaves nothing to   *)
(* say, "unread" for a status that the poll does not end at (REJECTED, and    *)
(* ACCEPTED or PAUSED for good)                                               *)
Ends == {"failed", "unindexed", "indexed", "wordless", "unread"}

VoiceTypeOK ==
  /\ phase \in {"idle", "listening", "transcribing", "planning", "speaking", "error"}
  /\ turn \in 0..MaxTurns /\ recorded \in 0..MinAudio
  /\ mics \cup timers \cup discarded \subseteq Turns
  /\ {capturing, overtaken, provider} \subseteq BOOLEAN
  /\ socket \in {"open", "none"}
  /\ hearing \in Seq(Turns) /\ items \subseteq SUBSET Turns
  /\ request \in [Turns -> RequestStates]
  /\ job \in [Turns -> {"none", "running"} \cup Ends]

VoiceInit ==
  /\ phase = "idle" /\ turn = 0 /\ mics = {} /\ capturing = FALSE /\ recorded = 0
  /\ timers = {} /\ discarded = {} /\ overtaken = FALSE
  /\ upstream = <<>> /\ socket = "open" /\ buffered = 0 /\ received = 0
  /\ hearing = <<>> /\ items = {} /\ provider = TRUE
  /\ request = [t \in Turns |-> "none"] /\ job = [t \in Turns |-> "none"]
  /\ voiceFaults = 0

Fails == voiceFaults < MaxVoiceFaults /\ voiceFaults' = voiceFaults + 1

-----------------------------------------------------------------------------
(* Browser *)

Msg(type, of) == [type |-> type, of |-> of]
Control(type) == Msg(type, {})

(* sendJson: nothing is sent, and nothing is kept, while the socket is not open *)
Sends(messages) ==
  upstream' = IF socket = "open" THEN upstream \o messages ELSE upstream

HasRoom == Len(upstream) < MaxInFlight

(* an event of the gateway shows a phase, whatever the user is doing *)
Shows(p) ==
  /\ phase' = p
  /\ overtaken' = (overtaken \/ (capturing /\ phase = "listening"))

(* startListening.  A recording that is still open goes on beside the new one *)
StartListening ==
  /\ phase \in {"idle", "error", "planning", "speaking"}
  /\ socket = "open" /\ turn < MaxTurns /\ HasRoom
  /\ turn' = turn + 1
  /\ mics' = mics \cup {turn'} /\ capturing' = TRUE /\ recorded' = 0
  /\ timers' = timers \cup {turn'}
  /\ phase' = "listening"
  /\ Sends(<<Control("barge_in"), Control("audio.start")>>)
  /\ UNCHANGED <<discarded, overtaken, socket, buffered, received, stt,
                 request, job, voiceFaults>>

(* worklet.port.onmessage: counted and sent only while the socket is open *)
SendChunk(t) ==
  /\ t \in mics /\ capturing /\ socket = "open" /\ HasRoom
  /\ recorded' = IF recorded < MinAudio THEN recorded + 1 ELSE recorded
  /\ Sends(<<Msg("audio", {t})>>)
  /\ UNCHANGED <<phase, turn, mics, capturing, timers, discarded, overtaken, socket,
                 buffered, received, stt, request, job, voiceFaults>>

(* stopCapture closes the audio context, which all worklets share, and clears *)
(* the timer of the latest recording                                          *)
StopCapture(messages) ==
  /\ capturing' = FALSE /\ mics' = {}
  /\ Sends(messages)
  /\ UNCHANGED <<turn, recorded, socket, buffered, received, stt, request, job,
                 voiceFaults>>

Discard(messages, p) ==
  /\ StopCapture(messages)
  /\ timers' = timers \ {turn}
  /\ discarded' = discarded \cup {turn}
  /\ phase' = p
  /\ UNCHANGED overtaken

DiscardShort == Discard(<<Control("session.cancel")>>, "error")

(* finishListening: too short in time, or in bytes *)
FinishListening ==
  /\ phase = "listening" /\ HasRoom
  /\ \/ DiscardShort
     \/ /\ recorded >= MinAudio
        /\ StopCapture(<<Control("audio.end")>>)
        /\ timers' = timers \ {turn} /\ phase' = "transcribing"
        /\ UNCHANGED <<discarded, overtaken>>

CancelListening ==
  /\ phase = "listening" /\ HasRoom
  /\ Discard(<<Control("session.cancel"), Control("barge_in")>>, "idle")

(* MAX_RECORDING_MS have passed; only the timer of the latest recording was   *)
(* ever cleared                                                               *)
MaxDuration(t) ==
  /\ t \in timers /\ HasRoom
  /\ IF recorded < MinAudio
     THEN /\ StopCapture(<<Control("session.cancel")>>)
          /\ discarded' = discarded \cup {turn} /\ phase' = "error"
     ELSE /\ StopCapture(<<Control("audio.end")>>)
          /\ phase' = IF phase = "listening" THEN "transcribing" ELSE phase
          /\ UNCHANGED discarded
  /\ timers' = timers \ {t, turn}
  /\ UNCHANGED overtaken

PlaybackDone ==
  /\ phase = "speaking" /\ \A t \in Turns : request[t] # "spoken"
  /\ phase' = "idle"
  /\ UNCHANGED <<turn, mics, capturing, recorded, timers, discarded, overtaken, gateway, stt,
                 request, job, voiceFaults>>

-----------------------------------------------------------------------------
(* Gateway *)

Busy == \E t \in Turns : request[t] = "dispatching"

InFlight == UNION {m.of : m \in {n \in {upstream[i] : i \in DOMAIN upstream} :
                                  n.type = "plan.request"}}

(* The session is over: its result tasks are cancelled, its events with them; *)
(* a dispatch under way goes on after the browser has left                    *)
AfterSession(dispatch) ==
  [t \in Turns |->
     IF request[t] = "dispatching" THEN dispatch
     ELSE IF request[t] \in {"polled", "spoken"} THEN "ended"
     ELSE IF t \in InFlight THEN "lost" ELSE request[t]]

SessionOver(dispatch) ==
  /\ socket' = "none" /\ upstream' = <<>>
  /\ request' = AfterSession(dispatch)
  /\ buffered' = 0 /\ received' = 0 /\ hearing' = <<>> /\ items' = {} /\ provider' = TRUE

(* the gateway reports an error and closes the socket *)
CloseWithError(dispatch) ==
  /\ SessionOver(dispatch)
  /\ Shows("error")

(* input_audio_buffer.clear, and buffered_bytes with it *)
ClearCountOnly == hearing' = hearing /\ buffered' = 0
ClearBuffer == hearing' = <<>> /\ buffered' = 0

BrowserKept == UNCHANGED <<turn, mics, capturing, recorded, timers, discarded>>
Consumed == upstream' = Tail(upstream) /\ UNCHANGED socket

TakeAudio(m) ==
  /\ m.type = "audio"
  /\ IF received = SessionLimit \/ ~provider
     THEN CloseWithError("refused") /\ UNCHANGED job
     ELSE /\ Consumed
          /\ received' = received + 1 /\ buffered' = buffered + 1
          /\ hearing' = hearing \o <<CHOOSE t \in m.of : TRUE>>
          /\ UNCHANGED <<phase, overtaken, items, provider, request, job>>

(* A commit the provider would refuse is answered here and the rest dropped *)
TakeEnd(m) ==
  /\ m.type = "audio.end"
  /\ IF buffered < MinAudio
     THEN IF buffered > 0 /\ ~provider
          THEN CloseWithError("refused")
          ELSE /\ ClearBuffer /\ Consumed /\ Shows("error")
               /\ UNCHANGED <<received, items, provider, request>>
     ELSE IF ~provider
          THEN CloseWithError("refused")
          ELSE /\ Consumed /\ ClearBuffer
               /\ items' = items \cup {{hearing[i] : i \in DOMAIN hearing}}
               /\ UNCHANGED <<phase, overtaken, received, provider, request>>
  /\ UNCHANGED job

TakeClear(m) ==
  /\ m.type \in {"session.cancel", "barge_in", "audio.start"}
  /\ IF ~provider /\ (m.type # "audio.start" \/ buffered > 0)
     THEN CloseWithError("refused")
     ELSE /\ Consumed
          /\ IF m.type = "audio.start" /\ buffered = 0
             THEN UNCHANGED <<hearing, buffered>> ELSE ClearBuffer
          /\ UNCHANGED <<phase, overtaken, received, items, provider, request>>
  /\ UNCHANGED job

TakeRequest(m) ==
  /\ m.type = "plan.request" /\ Consumed
  /\ request' = [t \in Turns |-> IF t \in m.of THEN "dispatching" ELSE request[t]]
  /\ UNCHANGED <<phase, overtaken, buffered, received, stt, job>>

(* one message at a time: nothing is received while a request is dispatched *)
Receive ==
  /\ socket = "open" /\ ~Busy /\ upstream # <<>>
  /\ LET m == Head(upstream) IN TakeAudio(m) \/ TakeEnd(m) \/ TakeClear(m) \/ TakeRequest(m)
  /\ BrowserKept /\ UNCHANGED voiceFaults

(* on_plan_request: the job is queued and a task speaks its result; if the    *)
(* socket is gone the job is queued all the same                              *)
Dispatched(t) ==
  /\ request[t] \in {"dispatching", "orphaned"}
  /\ job' = [job EXCEPT ![t] = "running"]
  /\ request' = [request EXCEPT ![t] = IF @ = "dispatching" THEN "polled" ELSE "ended"]
  /\ UNCHANGED <<browser, gateway, stt, voiceFaults>>

(* no repository, mode not allowed, blocked by the policy: the exception      *)
(* leaves run and ends the session, and the result tasks of earlier requests  *)
DispatchRefused(t) ==
  /\ \/ request[t] = "dispatching" /\ CloseWithError("refused")
     \/ /\ request[t] = "orphaned"
        /\ request' = [request EXCEPT ![t] = "refused"]
        /\ UNCHANGED <<phase, overtaken, gateway, stt>>
  /\ BrowserKept /\ UNCHANGED <<job, voiceFaults>>

(* transcript.final.  Without words the browser shows "planning" and asks for *)
(* nothing; with words it sends the request                                   *)
Transcript(item) ==
  /\ item \in items /\ provider
  /\ items' = items \ {item}
  /\ Shows("planning")
  /\ \/ UNCHANGED <<upstream, request>>
     \/ /\ Sends(<<Msg("plan.request", item)>>)
        /\ request' = [t \in Turns |-> IF t \in item THEN "sent" ELSE request[t]]
  /\ BrowserKept
  /\ UNCHANGED <<socket, buffered, received, hearing, provider, job, voiceFaults>>

(* _forward_provider_events ends; run notices at its next call *)
ProviderGone ==
  /\ socket = "open" /\ provider /\ Fails
  /\ provider' = FALSE
  /\ UNCHANGED <<browser, gateway, hearing, items, request, job>>

ConnectionLost ==
  /\ socket = "open" /\ Fails
  /\ SessionOver("orphaned")
  /\ UNCHANGED <<browser, job>>

(* socket.onclose reconnects after a delay, the button at once *)
Reconnect ==
  /\ socket = "none" /\ socket' = "open"
  /\ UNCHANGED <<browser, upstream, buffered, received, stt, request, job, voiceFaults>>

(* not authenticated, too many sessions, or no attempts left; the microphone  *)
(* may be open                                                                *)
ReconnectRefused ==
  /\ socket = "none"
  /\ Shows("error")
  /\ BrowserKept /\ UNCHANGED <<gateway, stt, request, job, voiceFaults>>

-----------------------------------------------------------------------------
(* Jobs and their spoken results *)

(* RunFinalizer.apply indexes the result before the status, and the indexing  *)
(* may fail; a plan may be rejected between two polls                         *)
JobEnds(t) ==
  /\ job[t] = "running"
  /\ \E end \in Ends : job' = [job EXCEPT ![t] = end]
  /\ UNCHANGED <<browser, gateway, stt, request, voiceFaults>>

ReportsUnindexed == {"unindexed"}
Reports == {"failed", "unindexed"}

(* _speak_job_result: an error for a job that failed or left no result *)
SpeakError(t) ==
  /\ request[t] = "polled" /\ job[t] \in Reports
  /\ request' = [request EXCEPT ![t] = "answered"]
  /\ Shows("error") /\ BrowserKept
  /\ UNCHANGED <<gateway, stt, job, voiceFaults>>

(* _stream_voice_pcm: every chunk shows "speaking"; another task may be       *)
(* sending chunks of another job at the same time                             *)
SpeakResult(t) ==
  /\ \/ request[t] = "polled" /\ job[t] = "indexed"
     \/ request[t] = "spoken" /\ phase # "speaking"
  /\ request' = [request EXCEPT ![t] = "spoken"]
  /\ Shows("speaking") /\ BrowserKept
  /\ UNCHANGED <<gateway, stt, job, voiceFaults>>

SpeakEnds(t) ==
  /\ request[t] = "spoken"
  /\ request' = [request EXCEPT ![t] = "answered"]
  /\ UNCHANGED <<browser, gateway, stt, job, voiceFaults>>

(* _speak_job_result returns and has sent nothing: 1800 polls saw no end of   *)
(* the job, or _stream_voice_pcm found no words in its result                 *)
FallsSilent(t) ==
  /\ request[t] = "polled" /\ job[t] \notin Reports \cup {"indexed"}
  /\ request' = [request EXCEPT ![t] = "silent"]
  /\ UNCHANGED <<browser, gateway, stt, job, voiceFaults>>

(* the speech service raises, and nothing in the task catches it *)
SpeakFails(t) ==
  /\ \/ request[t] = "polled" /\ job[t] = "indexed"
     \/ request[t] = "spoken"
  /\ Fails
  /\ request' = [request EXCEPT ![t] = "broken"]
  /\ UNCHANGED <<browser, gateway, stt, job>>

-----------------------------------------------------------------------------
User == StartListening \/ FinishListening \/ CancelListening
Browser == User \/ PlaybackDone \/ \E t \in Turns : SendChunk(t) \/ MaxDuration(t)
Dispatching(t) == Dispatched(t) \/ DispatchRefused(t)
Speaking(t) == SpeakError(t) \/ SpeakResult(t) \/ SpeakEnds(t) \/ FallsSilent(t)
Served(t) == Dispatching(t) \/ JobEnds(t) \/ Speaking(t)
Network == ProviderGone \/ ConnectionLost \/ Reconnect \/ ReconnectRefused
Transcribing == \E item \in SUBSET Turns : Transcript(item)

VoiceNext ==
  \/ Browser \/ Receive \/ Transcribing \/ Network
  \/ \E t \in Turns : Served(t) \/ SpeakFails(t)

-----------------------------------------------------------------------------
(* A transcript is of one recording. *)
OneTurnPerTranscript == \A item \in items : Cardinality(item) = 1

(* What the user cancelled, or was told is too short, is never sent.        *)
DiscardedIsNotSent == \A t \in discarded : request[t] = "none" /\ \A item \in items : t \notin item

(* What was sent is on its way or has left; only an open session works on a *)
(* request or speaks.                                                       *)
NoRequestVanishes ==
  \A t \in Turns :
    /\ request[t] = "sent" => t \in InFlight
    /\ request[t] \in {"dispatching", "polled", "spoken"} => socket = "open"

(* useVoiceSession.ts:465, gateway.py:225 and web/app.py:1114: the three      *)
(* counts of browser, gateway and provider agree on what a recording is.      *)
(* Recordings may mix once an answer has taken the phase from an open one:    *)
(* the button then starts another beside it.                                  *)
VoiceInv ==
  /\ DiscardedIsNotSent
  /\ ~overtaken => OneTurnPerTranscript
  /\ NoRequestVanishes

(* A request that was sent is answered by speech or by an error, or its      *)
(* session ends, or one of two things leaves the user in an open session     *)
(* with nothing said: the speech service failed, or the job never showed the *)
(* polls an end with words to say.  A failed, blocked or cancelled job, and  *)
(* one without a result, is never among them (web/app.py:1902).              *)
NothingToReport(t) == request[t] = "silent" /\ job[t] \in {"running", "unread", "wordless"}
SpeechFailed(t) == request[t] = "broken" /\ job[t] = "indexed"

RequestsAreAnswered ==
  \A t \in Turns :
    request[t] = "sent" ~> \/ request[t] \in {"answered", "refused", "lost", "ended"}
                           \/ NothingToReport(t) \/ SpeechFailed(t)

(* tests/test_voice_session_sim.py:189, "blocked dispatch must not kill      *)
(* channel": a request the dispatch refuses leaves the session open.         *)
RefusalKeepsSession ==
  [][\A t \in Turns : request[t] = "dispatching" /\ request'[t] = "refused"
                          => socket' = socket]_voiceVars
=============================================================================

---------------------------- MODULE BrowserCall -----------------------------
(***************************************************************************)
(* One browser call: handle_connection of src/server.py.                   *)
(*                                                                         *)
(* Four asyncio tasks share the state of a call: the main loop reading the *)
(* socket, process_events consuming event_queue, tts_worker consuming      *)
(* tts_queue, and silence_policy.  A task runs until it awaits, so a step  *)
(* here is what the code does between two awaits at which another task can *)
(* make a difference.  The LLM calls, Deepgram, Cartesia, the VAD and the  *)
(* user are the environment.                                               *)
(***************************************************************************)
EXTENDS StateMachine, Sequences, FiniteSets

CONSTANTS
  MaxTurns,    \* bound: StartOfTurn signals Deepgram sends in the call
  MaxVad,      \* bound: speech starts the VAD reports in the call
  MaxBacklog,  \* bound: the user's events wait behind fewer events than this
  FalseTurns,  \* whether Deepgram may hear a turn the VAD does not confirm
  Breaks       \* whether the browser may go away, or Deepgram take no more audio

ASSUME BoundsAssumption ==
  /\ MaxTurns \in Nat
  /\ MaxVad \in Nat
  /\ MaxBacklog \in Nat
  /\ FalseTurns \in BOOLEAN
  /\ Breaks \in BOOLEAN

VARIABLES
  event_queue,        \* [type, task]: what process_events has still to handle
  tts_queue,          \* [kind, cut, task]: what tts_worker has still to speak
  pc,                 \* process_events: "ready", or where cancel_pipeline awaits
  vad_speech_active,
  last_vad,           \* last_vad_speech_start_ms: "recent" (< 200 ms), else "old"
  pending_barge_in,   \* "fresh" (< 200 ms), else "none"
  llm_task,           \* the LLM task the handler holds; 0 is None
  llm_cancelled,
  haiku,              \* LLM tasks whose Haiku call is still running
  sonnet,             \* LLM tasks whose Sonnet call is still running
  asked,              \* LLM tasks created so far
  worker,             \* tts_worker: "idle", "requested", "streaming", "stopped"
  speaking,           \* the item tts_worker is synthesizing
  first_byte_of_turn,
  tts_cancel_event,
  silence,            \* silence_policy: "off", or the sleep it is in
  loop,               \* main loop and its "finally": "reading", "draining",
                      \* "joining", "closing", "closed", "aborted"
  socket,             \* whether the browser's socket is open
  playbackEnabled,    \* the page: whether audio frames are played
  cut,                \* stop_playback messages sent so far
  vad_in_speech,      \* the VAD's _is_speaking
  dg_in_turn,         \* Deepgram: between a StartOfTurn and its EndOfTurn
  turn_index,         \* Deepgram: StartOfTurn signals so far
  vad_starts          \* speech starts so far

vadVars     == <<vad_speech_active, last_vad, pending_barge_in>>
llmVars     == <<llm_task, llm_cancelled, haiku, sonnet, asked>>
workerVars  == <<worker, speaking, first_byte_of_turn, tts_cancel_event>>
browserVars == <<playbackEnabled, cut>>
callVars    == <<loop, socket>>
envVars     == <<vad_in_speech, dg_in_turn, turn_index, vad_starts>>
vars == <<smVars, event_queue, tts_queue, pc, vadVars, llmVars, workerVars,
          silence, callVars, browserVars, envVars>>

-----------------------------------------------------------------------------
\* Events and speech items.  "task" says which LLM task an event or the words
\* of an answer come from (0: none) and "cut" how many barge-ins preceded an
\* item: the program keeps neither, which some of its hazards come from.

EventType == {"vad_speech_start", "vad_speech_end", "start_of_turn", "end_of_turn",
              "llm_filler_ready", "llm_full_ready", "tts_first_byte", "tts_playback_done"}

\* Slip: an event pushed without its payload.
SignalBare(type) == [type |-> type]

Signal(type)    == [type |-> type, task |-> 0]
Reply(type, t)  == [type |-> type, task |-> t]
Push(e)         == event_queue' = Append(event_queue, e)

Item(kind, t) == [kind |-> kind, cut |-> cut, task |-> t]
Speech        == Item("speech", 0)
Answer(t)     == <<Item("speech", t), Item("turn_end", t)>>
Nothing       == [kind |-> "speech", cut |-> 0, task |-> 0]

LlmTaskRunning  == llm_task \in haiku \cup sonnet
Synthesizing    == worker \in {"requested", "streaming"}
AwaitingReply   == current_state \in {"PROCESSING", "FILLER_RESPONSE"}
VadRecentlyActive == vad_speech_active \/ last_vad = "recent"
\* A send on a socket that is gone raises; on an open one it goes through.
CanSend         == socket

Init ==
  /\ InitialState
  /\ event_queue = <<>> /\ tts_queue = <<>> /\ pc = "ready"
  /\ vad_speech_active = FALSE /\ last_vad = "old" /\ pending_barge_in = "none"
  /\ llm_task = 0 /\ llm_cancelled = FALSE /\ haiku = {} /\ sonnet = {} /\ asked = 0
  /\ worker = "idle" /\ speaking = Nothing
  /\ first_byte_of_turn = TRUE /\ tts_cancel_event = FALSE
  /\ silence = "off" /\ loop = "reading" /\ socket = TRUE
  /\ playbackEnabled = TRUE /\ cut = 0
  /\ vad_in_speech = FALSE /\ dg_in_turn = FALSE /\ turn_index = 0 /\ vad_starts = 0

-----------------------------------------------------------------------------
\* cancel_pipeline and what its two callers do after it.  It awaits the LLM
\* task only if one is running and Cartesia only if a synthesis is under way.
\* active: vad_speech_active as long as the barge-in is not complete.

\* Slip: the timer is left running.
StopPlaybackTimerOn(active) ==
  /\ pc' = "ready"
  /\ IF CanSend
     THEN /\ current_state' = "USER_SPEAKING"
          /\ playbackEnabled' = FALSE
          /\ cut' = cut + 1
          /\ vad_in_speech' = FALSE
          /\ vad_speech_active' = FALSE
          /\ UNCHANGED silence
     ELSE /\ current_state' = "BARGE_IN_DETECTED"
          /\ vad_speech_active' = active
          /\ UNCHANGED <<browserVars, vad_in_speech, silence>>

\* Slip: START_OF_TURN is not sent after the barge-in.
StopPlaybackNoTurn(active) ==
  /\ pc' = "ready"
  /\ current_state' = "BARGE_IN_DETECTED"
  /\ vad_speech_active' = FALSE
  /\ IF CanSend
     THEN /\ playbackEnabled' = FALSE
          /\ cut' = cut + 1
          /\ vad_in_speech' = FALSE
          /\ silence' = "off"
     ELSE UNCHANGED <<browserVars, vad_in_speech, silence>>

\* The stop_playback message, and on success the rest of the barge-in.
StopPlayback(active) ==
  /\ pc' = "ready"
  /\ IF CanSend
     THEN /\ current_state' = "USER_SPEAKING"
          /\ playbackEnabled' = FALSE
          /\ cut' = cut + 1
          /\ vad_in_speech' = FALSE
          /\ vad_speech_active' = FALSE
          /\ silence' = "off"
     ELSE /\ current_state' = "BARGE_IN_DETECTED"
          /\ vad_speech_active' = active
          /\ UNCHANGED <<browserVars, vad_in_speech, silence>>

\* Slip: the worker is not signalled.
DrainSpeechUnsignalled(active) ==
  /\ tts_queue' = <<>>
  /\ UNCHANGED tts_cancel_event
  /\ IF Synthesizing
     THEN /\ pc' = "await_tts"
          /\ current_state' = "BARGE_IN_DETECTED"
          /\ vad_speech_active' = active
          /\ UNCHANGED <<browserVars, vad_in_speech, silence>>
     ELSE StopPlayback(active)

\* Emptying tts_queue and signalling the worker.
DrainSpeech(active) ==
  /\ tts_queue' = <<>>
  /\ tts_cancel_event' = TRUE
  /\ IF Synthesizing
     THEN /\ pc' = "await_tts"
          /\ current_state' = "BARGE_IN_DETECTED"
          /\ vad_speech_active' = active
          /\ UNCHANGED <<browserVars, vad_in_speech, silence>>
     ELSE StopPlayback(active)

BargeIn(active) ==
  /\ pending_barge_in' = "none"
  /\ llm_cancelled' = TRUE
  /\ UNCHANGED <<turn_id, llm_task, asked>>
  /\ IF LlmTaskRunning
     THEN /\ haiku' = haiku \ {llm_task}
          /\ sonnet' = sonnet \ {llm_task}
          /\ pc' = "await_llm"
          /\ current_state' = "BARGE_IN_DETECTED"
          /\ vad_speech_active' = active
          /\ UNCHANGED <<tts_queue, tts_cancel_event, browserVars, vad_in_speech, silence>>
     ELSE /\ UNCHANGED <<haiku, sonnet>>
          /\ DrainSpeech(active)

\* The awaited LLM task is gone.
LlmTaskCancelled ==
  /\ pc = "await_llm"
  /\ llm_task' = 0
  /\ DrainSpeech(vad_speech_active)
  /\ UNCHANGED <<turn_id, event_queue, last_vad, pending_barge_in, llm_cancelled, haiku,
                 sonnet, asked, worker, speaking, first_byte_of_turn, callVars,
                 dg_in_turn, turn_index, vad_starts>>

\* Cartesia has taken the cancellation.
SynthesisCancelled ==
  /\ pc = "await_tts"
  /\ StopPlayback(vad_speech_active)
  /\ UNCHANGED <<turn_id, event_queue, tts_queue, last_vad, pending_barge_in, llmVars,
                 workerVars, callVars, dg_in_turn, turn_index, vad_starts>>

-----------------------------------------------------------------------------
\* process_events: one action per event type.

Take(type) ==
  /\ pc = "ready"
  /\ event_queue # <<>>
  /\ Head(event_queue).type = type
  /\ event_queue' = Tail(event_queue)

OnVadSpeechStart ==
  /\ Take("vad_speech_start")
  /\ last_vad' = "recent"
  /\ \/ /\ pending_barge_in = "fresh"
        /\ current_state \in Replying
        /\ BargeIn(TRUE)
     \/ /\ pending_barge_in # "fresh" \/ current_state \notin Replying
        /\ vad_speech_active' = TRUE
        /\ UNCHANGED <<smVars, tts_queue, pc, pending_barge_in, llmVars,
                       tts_cancel_event, silence, browserVars, vad_in_speech>>
  /\ UNCHANGED <<worker, speaking, first_byte_of_turn, callVars, dg_in_turn, turn_index,
                 vad_starts>>

OnVadSpeechEnd ==
  /\ Take("vad_speech_end")
  /\ vad_speech_active' = FALSE
  /\ UNCHANGED <<smVars, tts_queue, pc, last_vad, pending_barge_in, llmVars, workerVars,
                 silence, callVars, browserVars, envVars>>

OnStartOfTurn ==
  /\ Take("start_of_turn")
  /\ \/ /\ current_state \in Replying          \* confirmed barge-in
        /\ VadRecentlyActive
        /\ BargeIn(vad_speech_active)
     \/ /\ current_state \in Replying          \* Deepgram first: wait for the VAD
        /\ ~VadRecentlyActive
        /\ pending_barge_in' = "fresh"
        /\ UNCHANGED <<smVars, tts_queue, pc, vad_speech_active, llmVars,
                       tts_cancel_event, silence, browserVars, vad_in_speech>>
     \/ /\ current_state \in {"IDLE", "BARGE_IN_DETECTED"}
        /\ Handle("START_OF_TURN")
        /\ silence' = "off"
        /\ UNCHANGED <<tts_queue, pc, vad_speech_active, pending_barge_in, llmVars,
                       tts_cancel_event, browserVars, vad_in_speech>>
     \/ /\ current_state = "USER_SPEAKING"     \* dropped
        /\ UNCHANGED <<smVars, tts_queue, pc, vad_speech_active, pending_barge_in, llmVars,
                       tts_cancel_event, silence, browserVars, vad_in_speech>>
  /\ UNCHANGED <<last_vad, worker, speaking, first_byte_of_turn, callVars, dg_in_turn,
                 turn_index, vad_starts>>

\* A non-empty transcript that asks for a human: the message and its end are
\* queued, then LLM_FILLER_READY, which only PROCESSING accepts, is sent.
Handoff ==
  /\ tts_queue' = tts_queue \o Answer(0)
  /\ current_state' = IF current_state \in {"USER_SPEAKING", "PROCESSING"}
                      THEN "FILLER_RESPONSE" ELSE current_state
  /\ turn_id' = IF current_state \in {"USER_SPEAKING", "PROCESSING"}
                THEN turn_id + 1 ELSE turn_id
  /\ UNCHANGED <<llmVars, silence>>

\* Any other non-empty transcript.  The task llm_task held is not cancelled, and
\* replies that were to be dropped are accepted again.
AskLlm ==
  /\ Handle("END_OF_TURN")
  /\ llm_cancelled' = FALSE
  /\ asked' = asked + 1
  /\ llm_task' = asked + 1
  /\ haiku' = haiku \cup {asked + 1}
  /\ sonnet' = sonnet \cup {asked + 1}
  /\ silence' = "2s"
  /\ UNCHANGED tts_queue

OnEndOfTurn ==
  /\ Take("end_of_turn")
  /\ \/ CanSend /\ Accepts("END_OF_TURN") /\ (Handoff \/ AskLlm)
     \/ /\ TryHandle("END_OF_TURN")    \* ValueError, no socket or no words
        /\ UNCHANGED <<tts_queue, llmVars, silence>>
  /\ UNCHANGED <<pc, vadVars, workerVars, callVars, browserVars, envVars>>

OnLlmFillerReady ==
  /\ Take("llm_filler_ready")
  /\ \/ /\ llm_cancelled \/ ~Accepts("LLM_FILLER_READY")
        /\ UNCHANGED <<smVars, tts_queue, silence>>
     \/ /\ ~llm_cancelled
        /\ Handle("LLM_FILLER_READY")
        /\ silence' = "off"
        /\ tts_queue' = IF CanSend THEN Append(tts_queue, Speech) ELSE tts_queue
  /\ UNCHANGED <<pc, vadVars, llmVars, workerVars, callVars, browserVars, envVars>>

\* Slip: the end sentinel is forgotten.
OnLlmFullReadyNoEnd ==
  /\ Take("llm_full_ready")
  /\ \/ /\ llm_cancelled
        /\ UNCHANGED <<smVars, tts_queue>>
     \/ /\ ~llm_cancelled
        /\ tts_queue' = Append(tts_queue, Item("speech", Head(event_queue).task))
        /\ TryHandle("LLM_FULL_READY")
  /\ UNCHANGED <<pc, vadVars, llmVars, workerVars, silence, callVars, browserVars, envVars>>

\* Slip: the end sentinel goes before the text.
OnLlmFullReadyEndFirst ==
  /\ Take("llm_full_ready")
  /\ \/ /\ llm_cancelled
        /\ UNCHANGED <<smVars, tts_queue>>
     \/ /\ ~llm_cancelled
        /\ tts_queue' = tts_queue \o <<Item("turn_end", Head(event_queue).task),
                                     Item("speech", Head(event_queue).task)>>
        /\ TryHandle("LLM_FULL_READY")
  /\ UNCHANGED <<pc, vadVars, llmVars, workerVars, silence, callVars, browserVars, envVars>>

\* The text is queued before handle can raise.
OnLlmFullReady ==
  /\ Take("llm_full_ready")
  /\ \/ /\ llm_cancelled
        /\ UNCHANGED <<smVars, tts_queue>>
     \/ /\ ~llm_cancelled
        /\ tts_queue' = tts_queue \o Answer(Head(event_queue).task)
        /\ TryHandle("LLM_FULL_READY")
  /\ UNCHANGED <<pc, vadVars, llmVars, workerVars, silence, callVars, browserVars, envVars>>

OnTtsFirstByte ==
  /\ Take("tts_first_byte")
  /\ \/ /\ ~Accepts("TTS_AUDIO_READY")
        /\ UNCHANGED <<smVars, silence>>
     \/ /\ Handle("TTS_AUDIO_READY")
        /\ silence' = "off"
  /\ UNCHANGED <<tts_queue, pc, vadVars, llmVars, workerVars, callVars, browserVars, envVars>>

OnTtsPlaybackDone ==
  /\ Take("tts_playback_done")
  /\ TryHandle("TTS_PLAYBACK_DONE")
  /\ UNCHANGED <<tts_queue, pc, vadVars, llmVars, workerVars, silence, callVars, browserVars,
                 envVars>>

ProcessEvents ==
  \/ OnVadSpeechStart \/ OnVadSpeechEnd \/ OnStartOfTurn \/ OnEndOfTurn
  \/ OnLlmFillerReady \/ OnLlmFullReady \/ OnTtsFirstByte \/ OnTtsPlaybackDone
  \/ LlmTaskCancelled \/ SynthesisCancelled

-----------------------------------------------------------------------------
\* tts_worker.

Get(kind) ==
  /\ worker = "idle"
  /\ tts_queue # <<>>
  /\ Head(tts_queue).kind = kind
  /\ tts_queue' = Tail(tts_queue)
  /\ UNCHANGED <<smVars, pc, vadVars, llmVars, silence, callVars, browserVars, envVars>>

GetShutdown ==
  /\ Get("shutdown")
  /\ worker' = "stopped"
  /\ UNCHANGED <<event_queue, speaking, first_byte_of_turn, tts_cancel_event>>

GetTurnEnd ==
  /\ Get("turn_end")
  /\ Push(Reply("tts_playback_done", Head(tts_queue).task))
  /\ first_byte_of_turn' = TRUE
  /\ UNCHANGED <<worker, speaking, tts_cancel_event>>

GetSpeech ==
  /\ Get("speech")
  /\ worker' = "requested"
  /\ speaking' = Head(tts_queue)
  /\ tts_cancel_event' = FALSE
  /\ UNCHANGED <<event_queue, first_byte_of_turn>>

\* The first chunk of an item.  A send that raises ends the item.
FirstChunk ==
  /\ worker = "requested"
  /\ ~tts_cancel_event
  /\ worker' = IF CanSend THEN "streaming" ELSE "idle"
  /\ speaking' = IF CanSend THEN speaking ELSE Nothing
  /\ first_byte_of_turn' = FALSE
  /\ IF first_byte_of_turn
     THEN /\ Push(Signal("tts_first_byte"))
          /\ playbackEnabled' = (playbackEnabled \/ CanSend)   \* tts_start
     ELSE UNCHANGED <<event_queue, playbackEnabled>>
  /\ UNCHANGED <<smVars, tts_queue, pc, vadVars, llmVars, tts_cancel_event, silence, callVars,
                 cut, envVars>>

\* The stream ends, fails, or its next chunk finds tts_cancel_event set.
SynthesisEnds ==
  /\ Synthesizing
  /\ worker' = "idle"
  /\ speaking' = Nothing
  /\ first_byte_of_turn' = (first_byte_of_turn \/ tts_cancel_event)
  /\ UNCHANGED <<smVars, event_queue, tts_queue, pc, vadVars, llmVars, tts_cancel_event,
                 silence, callVars, browserVars, envVars>>

TtsWorker == GetShutdown \/ GetTurnEnd \/ GetSpeech \/ FirstChunk \/ SynthesisEnds

-----------------------------------------------------------------------------
\* The LLM task t: each of its two calls settles once, with a reply or without.

HaikuSettles(t) ==
  /\ t \in haiku
  /\ haiku' = haiku \ {t}
  /\ \/ Push(Reply("llm_filler_ready", t))
     \/ UNCHANGED event_queue
  /\ UNCHANGED <<smVars, tts_queue, pc, vadVars, llm_task, llm_cancelled, sonnet, asked,
                 workerVars, silence, callVars, browserVars, envVars>>

SonnetSettles(t) ==
  /\ t \in sonnet
  /\ sonnet' = sonnet \ {t}
  /\ \/ Push(Reply("llm_full_ready", t))
     \/ UNCHANGED event_queue
  /\ UNCHANGED <<smVars, tts_queue, pc, vadVars, llm_task, llm_cancelled, haiku, asked,
                 workerVars, silence, callVars, browserVars, envVars>>

-----------------------------------------------------------------------------
\* silence_policy: each action is the end of one of its sleeps.

\* "Are you still there?" after 2 s, the goodbye after 3 more.  A send that
\* raises ends the policy.
Prompt(sleep, next) ==
  /\ silence = sleep
  /\ AwaitingReply
  /\ tts_queue' = Append(tts_queue, Speech)
  /\ silence' = IF CanSend THEN next ELSE "off"
  /\ UNCHANGED callVars

\* Nobody is kept waiting when the sleep ends.
NoPrompt(sleep, next) ==
  /\ silence = sleep
  /\ ~AwaitingReply
  /\ silence' = next
  /\ UNCHANGED <<tts_queue, callVars>>

HangUp ==
  /\ silence = "bye"
  /\ silence' = "off"
  /\ socket' = FALSE
  /\ UNCHANGED <<tts_queue, loop>>

SilencePolicy ==
  /\ \/ Prompt("2s", "5s")
     \/ NoPrompt("2s", "5s")
     \/ Prompt("5s", "bye")
     \/ NoPrompt("5s", "off")
     \/ HangUp
  /\ UNCHANGED <<smVars, event_queue, pc, vadVars, llmVars, workerVars, browserVars,
                 envVars>>

-----------------------------------------------------------------------------
\* The end of the call.

Disconnect ==
  /\ Breaks
  /\ socket /\ loop \notin {"closed", "aborted"}
  /\ socket' = FALSE
  /\ UNCHANGED <<smVars, event_queue, tts_queue, pc, vadVars, llmVars, workerVars, silence,
                 loop, browserVars, envVars>>

\* The main loop ends, because the socket is gone or because dg.send_audio or
\* the answer to a ping raised; then the socket is still open.  "finally" stops
\* the timer and asks the worker to stop.
MainLoopEnds ==
  /\ loop = "reading" /\ (~socket \/ Breaks)
  /\ loop' = "draining"
  /\ silence' = "off"
  /\ tts_queue' = Append(tts_queue, Item("shutdown", 0))
  /\ UNCHANGED <<smVars, event_queue, pc, vadVars, llmVars, workerVars, socket, browserVars,
                 envVars>>

\* wait_for(tts_task, 5.0) gives up and cancels the worker.
WorkerTimeout ==
  /\ loop = "draining"
  /\ worker # "stopped"
  /\ worker' = "stopped"
  /\ speaking' = Nothing
  /\ UNCHANGED <<smVars, event_queue, tts_queue, pc, vadVars, llmVars, first_byte_of_turn,
                 tts_cancel_event, silence, callVars, browserVars, envVars>>

\* event_task.cancel().  The CancelledError ends the task unless it arrives
\* where cancel_pipeline suppresses it, waiting for the LLM task; "finally"
\* waits until the task has ended.  LLM tasks are left running, and so is a
\* timer that an end of turn has started since the main loop ended.
StopEventTask ==
  /\ loop = "draining"
  /\ worker = "stopped"
  /\ IF pc = "await_llm"
     THEN loop' = "joining" /\ UNCHANGED pc
     ELSE loop' = "closing" /\ pc' = "stopped"
  /\ UNCHANGED <<smVars, event_queue, tts_queue, vadVars, llmVars, workerVars, silence,
                 socket, browserVars, envVars>>

\* Slip: the state machine is not reset.
CleanUpKeepsState ==
  /\ loop = "closing"
  /\ loop' \in {"closed", "aborted"}
  /\ socket' = FALSE
  /\ UNCHANGED <<smVars, event_queue, tts_queue, pc, vadVars, llmVars, workerVars, silence,
                 browserVars, envVars>>

\* The services have been closed, and the state machine is reset; or closing one
\* raised, and nothing more is done.  Either way the handler returns and the
\* socket is closed.
CleanUp ==
  /\ loop = "closing"
  /\ \/ loop' = "closed" /\ Reset
     \/ loop' = "aborted" /\ UNCHANGED smVars
  /\ socket' = FALSE
  /\ UNCHANGED <<event_queue, tts_queue, pc, vadVars, llmVars, workerVars, silence,
                 browserVars, envVars>>

EndOfCall == MainLoopEnds \/ WorkerTimeout \/ StopEventTask \/ CleanUp

-----------------------------------------------------------------------------
\* The user, the VAD and Deepgram.  Their callbacks only push an event.

UserEvent ==
  /\ Len(event_queue) < MaxBacklog
  /\ UNCHANGED <<smVars, tts_queue, pc, vadVars, llmVars, workerVars, silence, callVars,
                 browserVars>>

VadSpeechStarts ==
  /\ UserEvent
  /\ loop = "reading"
  /\ ~vad_in_speech /\ vad_starts < MaxVad
  /\ Push(Signal("vad_speech_start"))
  /\ vad_in_speech' = TRUE
  /\ vad_starts' = vad_starts + 1
  /\ UNCHANGED <<dg_in_turn, turn_index>>

VadSpeechEnds ==
  /\ UserEvent
  /\ loop = "reading"
  /\ vad_in_speech
  /\ Push(Signal("vad_speech_end"))
  /\ vad_in_speech' = FALSE
  /\ UNCHANGED <<dg_in_turn, turn_index, vad_starts>>

DeepgramStartOfTurn ==
  /\ UserEvent
  /\ loop \in {"reading", "draining", "joining"}
  /\ ~dg_in_turn /\ turn_index < MaxTurns
  /\ FalseTurns \/ vad_in_speech
  /\ Push(Signal("start_of_turn"))
  /\ dg_in_turn' = TRUE
  /\ turn_index' = turn_index + 1
  /\ UNCHANGED <<vad_in_speech, vad_starts>>

DeepgramEndOfTurn ==
  /\ UserEvent
  /\ loop \in {"reading", "draining", "joining"}
  /\ dg_in_turn
  /\ Push(Signal("end_of_turn"))
  /\ dg_in_turn' = FALSE
  /\ UNCHANGED <<vad_in_speech, turn_index, vad_starts>>

\* 200 ms pass.  A pending barge-in that is still fresh is always older than a
\* recent speech start: it is only recorded when there was none.
GraceEnds ==
  /\ \/ /\ pending_barge_in = "fresh"
        /\ pending_barge_in' = "none"
        /\ UNCHANGED last_vad
     \/ /\ last_vad = "recent" /\ pending_barge_in # "fresh"
        /\ last_vad' = "old"
        /\ UNCHANGED pending_barge_in
  /\ UNCHANGED <<smVars, event_queue, tts_queue, pc, vad_speech_active, llmVars, workerVars,
                 silence, callVars, browserVars, envVars>>

Environment ==
  \/ VadSpeechStarts \/ VadSpeechEnds \/ DeepgramStartOfTurn \/ DeepgramEndOfTurn
  \/ GraceEnds \/ Disconnect

-----------------------------------------------------------------------------
\* Once the event processor has stopped nobody takes their events.
LlmCalls == pc # "stopped" /\ \E t \in 1..MaxTurns : HaikuSettles(t) \/ SonnetSettles(t)

Next ==
  \/ ProcessEvents
  \/ TtsWorker
  \/ LlmCalls
  \/ SilencePolicy
  \/ EndOfCall
  \/ Environment

Spec == Init /\ [][Next]_vars

\* The event loop runs every task that is ready, a sleep ends, and a network
\* call that has been made is assumed to settle.  The user owes nothing, nor
\* does Deepgram fail.
Fairness ==
  /\ WF_vars(ProcessEvents)
  /\ WF_vars(TtsWorker)
  /\ WF_vars(LlmCalls)
  /\ WF_vars(SilencePolicy)
  /\ WF_vars(~socket /\ MainLoopEnds)
  /\ WF_vars(WorkerTimeout \/ StopEventTask \/ CleanUp)

FairSpec == Spec /\ Fairness

-----------------------------------------------------------------------------
\* Types.

FlagsOK ==
  /\ vad_speech_active \in BOOLEAN /\ llm_cancelled \in BOOLEAN
  /\ first_byte_of_turn \in BOOLEAN /\ tts_cancel_event \in BOOLEAN
  /\ playbackEnabled \in BOOLEAN
  /\ vad_in_speech \in BOOLEAN /\ dg_in_turn \in BOOLEAN /\ socket \in BOOLEAN

ItemType == [kind : {"speech", "turn_end", "shutdown"}, cut : Nat, task : Nat]

DataOK ==
  /\ StateTypeOK
  /\ event_queue \in Seq([type : EventType, task : Nat])
  /\ tts_queue \in Seq(ItemType)
  /\ pc \in {"ready", "await_llm", "await_tts", "stopped"}
  /\ last_vad \in {"recent", "old"}
  /\ pending_barge_in \in {"none", "fresh"}
  /\ llm_task \in Nat /\ asked \in Nat
  /\ haiku \subseteq Nat /\ sonnet \subseteq Nat
  /\ worker \in {"idle", "requested", "streaming", "stopped"} /\ speaking \in ItemType
  /\ silence \in {"off", "2s", "5s", "bye"}
  /\ loop \in {"reading", "draining", "joining", "closing", "closed", "aborted"}
  /\ cut \in Nat /\ turn_index \in Nat /\ vad_starts \in Nat

\* Every variable has its type (the closures of server.py:115-187).
TypeOK == FlagsOK /\ DataOK

-----------------------------------------------------------------------------
\* Safety, whatever the user, the VAD, Deepgram and the two LLM calls do.

\* Speech queued before a barge-in is never synthesized to the browser after
\* its stop_playback: the drain, the cancel event and its reset per item in
\* tts_worker (server.py:217-224, 556-579) leave no item of theirs behind.
NothingStaleIsSpoken ==
  Synthesizing /\ ~tts_cancel_event => speaking.cut = cut

\* Its inductive strengthening.  While cancel_pipeline awaits, the state is
\* BARGE_IN_DETECTED, in which neither a handler nor the silence policy queues
\* speech; while it awaits Cartesia nothing is left to speak; and what is queued
\* was queued after the last stop_playback.
Awaiting == pc \in {"await_llm", "await_tts"}
NoSpeechQueued == \A i \in 1..Len(tts_queue) : tts_queue[i].kind # "speech"
QueuedSpeechIsCurrent ==
  \A i \in 1..Len(tts_queue) : tts_queue[i].kind = "speech" => tts_queue[i].cut = cut
CutInv ==
  /\ Awaiting => current_state = "BARGE_IN_DETECTED"
  /\ pc = "await_tts" => NoSpeechQueued /\ (Synthesizing => tts_cancel_event)
  /\ QueuedSpeechIsCurrent
  /\ NothingStaleIsSpoken

\* A call that is in BOT_SPEAKING has what will take it out of it: an end
\* sentinel still queued for the worker or the playback event it produced
\* (server.py:489-491, 549-553).
HasTurnEnd == \E i \in 1..Len(tts_queue) : tts_queue[i].kind = "turn_end"
HasPlaybackDone == \E i \in 1..Len(event_queue) : event_queue[i].type = "tts_playback_done"
BotSpeakingWillEnd ==
  current_state = "BOT_SPEAKING" /\ worker # "stopped" => HasTurnEnd \/ HasPlaybackDone

\* While the user speaks no silence prompt and no hang-up is under way: every
\* path to USER_SPEAKING, the barge-in across its awaits included, stops the
\* timer (server.py:304, 344, 368).
NoTimerWhileUserSpeaks == current_state = "USER_SPEAKING" => silence = "off"

\* What silences the call in the end is the reset of the state machine.  "finally"
\* cancels the silence timer first (server.py:614), but while it waits for the worker
\* an end of turn may start the timer again; a timer that outlives the clean-up finds
\* nobody waiting (server.py:247-252, 632-633).
QuietAfterCleanUp == [][loop = "closed" => UNCHANGED tts_queue]_vars

\* The end of an answer is reported after its last word, through both queues and
\* whatever is cut off or queued in between (server.py:487-489, 549-553).
EndFollowsItsWords ==
  \A i \in 1..Len(event_queue) :
    LET done == event_queue[i] IN
    done.type = "tts_playback_done" /\ done.task # 0 =>
      /\ \A j \in 1..Len(tts_queue) :
           ~(tts_queue[j].kind = "speech" /\ tts_queue[j].task = done.task)
      /\ Synthesizing => speaking.task # done.task

-----------------------------------------------------------------------------
\* Liveness under FairSpec.

\* BOT_SPEAKING is left, by the playback event, a barge-in or the end of the call,
\* unless "finally" itself was cut short (server.py:489, 515-519, 624-633).
BotSpeakingEnds ==
  current_state = "BOT_SPEAKING" ~>
    current_state # "BOT_SPEAKING" \/ loop \in {"joining", "aborted"}

\* A barge-in always gives the floor to the user unless the call is over.
BargeInCompletes ==
  current_state = "BARGE_IN_DETECTED" ~>
    current_state = "USER_SPEAKING" \/ ~socket \/ loop # "reading"

-----------------------------------------------------------------------------
\* What comments and documents say and the code does not do.

\* server.py:566-568 and index.html:161: audio of a turn that is not cancelled
\* reaches a browser that plays it.
AudioIsHeard == worker = "streaming" /\ ~tts_cancel_event => playbackEnabled

\* phase7_summary.md:50: once the caller was asked "Are you still there?" and no
\* reply is coming, the wait ends, by the caller or by the hang-up.
SilenceEndsTheCall ==
  silence = "5s" /\ haiku = {} /\ sonnet = {} ~> ~AwaitingReply \/ ~socket \/ loop # "reading"

\* server.py:621: the event processor stops, so a call that is over is cleaned up.
LostCallIsClosed == loop = "draining" ~> loop \in {"closed", "aborted"}

\* state_machine.py:84: a turn Deepgram hears by mistake during a reply is absorbed:
\* the answer that is accepted is the one to the last question, and no second one is
\* being prepared.
OneAnswerAtATime ==
  /\ sonnet \subseteq {llm_task}
  /\ \A i \in 1..Len(event_queue) :
       event_queue[i].type = "llm_full_ready" /\ ~llm_cancelled =>
         event_queue[i].task = llm_task
=============================================================================

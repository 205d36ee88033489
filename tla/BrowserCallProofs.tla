------------------------- MODULE BrowserCallProofs --------------------------
(***************************************************************************)
(* Proofs about BrowserCall, for every number of turns and speech starts   *)
(* and every backlog, with and without false turns and broken connections. *)
(***************************************************************************)
EXTENDS BrowserCall, TLAPS

\* The events that are queued.
QueuedEvent == [type : EventType, task : Nat]

-----------------------------------------------------------------------------
\* The state machine.

\* What handle does, event by event, read off the transition table.
LEMMA HandleCases ==
  ASSUME NEW event, Handle(event), StateTypeOK
  PROVE  /\ StateTypeOK'
         /\ current_state' = "USER_SPEAKING" =>
              event = "START_OF_TURN" /\ current_state \in {"IDLE", "BARGE_IN_DETECTED"}
         /\ event = "TTS_PLAYBACK_DONE" => current_state' # "BOT_SPEAKING"
         /\ current_state' = "BOT_SPEAKING" =>
              current_state = "BOT_SPEAKING" \/ event = "LLM_FULL_READY"
         /\ event \in {"END_OF_TURN", "LLM_FILLER_READY", "LLM_FULL_READY",
                       "TTS_AUDIO_READY"} => current_state' \in Replying
<1>1. PICK to \in State : /\ <<current_state, event, to>> \in transitions
                          /\ current_state' = to
                          /\ turn_id' = IF to = "PROCESSING" THEN turn_id + 1 ELSE turn_id
  BY DEF Handle
<1>2. StateTypeOK'
  BY <1>1 DEF StateTypeOK
<1>3. \/ <<current_state, event, to>> \in
            { <<"IDLE",              "START_OF_TURN",     "USER_SPEAKING">>,
              <<"USER_SPEAKING",     "END_OF_TURN",       "PROCESSING">>,
              <<"PROCESSING",        "LLM_FILLER_READY",  "FILLER_RESPONSE">>,
              <<"PROCESSING",        "LLM_FULL_READY",    "BOT_SPEAKING">>,
              <<"FILLER_RESPONSE",   "LLM_FULL_READY",    "BOT_SPEAKING">>,
              <<"FILLER_RESPONSE",   "TTS_PLAYBACK_DONE", "FILLER_RESPONSE">>,
              <<"BOT_SPEAKING",      "TTS_PLAYBACK_DONE", "IDLE">>,
              <<"BARGE_IN_DETECTED", "START_OF_TURN",     "USER_SPEAKING">>,
              <<"BARGE_IN_DETECTED", "SILENCE_TIMEOUT",   "IDLE">>,
              <<"USER_SPEAKING",     "SILENCE_TIMEOUT",   "IDLE">> }
      \/ event = "BARGE_IN_DETECTED" /\ to = "BARGE_IN_DETECTED"
      \/ /\ to = current_state /\ current_state \in Replying
         /\ event \in {"START_OF_TURN", "END_OF_TURN", "TTS_AUDIO_READY"}
  BY <1>1 DEF transitions
<1>4. QED
  BY <1>1, <1>2, <1>3 DEF Replying

LEMMA TryHandleType ==
  ASSUME NEW event, TryHandle(event), StateTypeOK
  PROVE  StateTypeOK'
  BY HandleCases DEF TryHandle, smVars, StateTypeOK

-----------------------------------------------------------------------------
\* Queues.

LEMMA TailItem ==
  ASSUME NEW S, NEW q \in Seq(S), q # <<>>
  PROVE  /\ Head(q) \in S
         /\ Tail(q) \in Seq(S)
         /\ Len(Tail(q)) = Len(q) - 1
         /\ \A i \in 1..Len(Tail(q)) : i + 1 \in 1..Len(q) /\ Tail(q)[i] = q[i + 1]
         /\ 1 \in 1..Len(q) /\ Head(q) = q[1]
  OBVIOUS

LEMMA AppendItem ==
  ASSUME NEW S, NEW q \in Seq(S), NEW e \in S
  PROVE  /\ Append(q, e) \in Seq(S)
         /\ Len(Append(q, e)) = Len(q) + 1
         /\ \A i \in 1..Len(q) : Append(q, e)[i] = q[i]
         /\ Append(q, e)[Len(q) + 1] = e
  OBVIOUS

LEMMA AppendTwo ==
  ASSUME NEW S, NEW q \in Seq(S), NEW d \in S, NEW e \in S
  PROVE  /\ q \o <<d, e>> \in Seq(S)
         /\ Len(q \o <<d, e>>) = Len(q) + 2
         /\ \A i \in 1..Len(q) : (q \o <<d, e>>)[i] = q[i]
         /\ (q \o <<d, e>>)[Len(q) + 1] = d
         /\ (q \o <<d, e>>)[Len(q) + 2] = e
  OBVIOUS

-----------------------------------------------------------------------------
\* Types, the Boolean variables first: no step gives one another value.

LEMMA FlagsStep ==
  ASSUME FlagsOK, [Next]_vars
  PROVE  FlagsOK'
<1> USE DEF FlagsOK, vars, smVars, vadVars, llmVars, workerVars, browserVars, callVars, envVars
<1>1. ASSUME NEW active \in BOOLEAN, StopPlayback(active)
      PROVE  /\ vad_speech_active' \in BOOLEAN /\ vad_in_speech' \in BOOLEAN
             /\ playbackEnabled' \in BOOLEAN
  BY <1>1, Zenon DEF StopPlayback
<1>2. ASSUME NEW active \in BOOLEAN, DrainSpeech(active)
      PROVE  /\ vad_speech_active' \in BOOLEAN /\ vad_in_speech' \in BOOLEAN
             /\ playbackEnabled' \in BOOLEAN
             /\ tts_cancel_event' \in BOOLEAN
  BY <1>1, <1>2, Zenon DEF DrainSpeech
<1>3. ASSUME NEW active \in BOOLEAN, BargeIn(active)
      PROVE  /\ vad_speech_active' \in BOOLEAN /\ vad_in_speech' \in BOOLEAN
             /\ playbackEnabled' \in BOOLEAN
             /\ tts_cancel_event' \in BOOLEAN /\ llm_cancelled' \in BOOLEAN
  BY <1>2, <1>3, Zenon DEF BargeIn
<1>4. CASE OnVadSpeechStart
  BY <1>3, <1>4, Zenon DEF OnVadSpeechStart
<1>5. CASE OnVadSpeechEnd
  BY <1>5, Zenon DEF OnVadSpeechEnd
<1>6. CASE OnStartOfTurn
  BY <1>3, <1>6, Zenon DEF OnStartOfTurn
<1>7. CASE OnEndOfTurn
  BY <1>7, Zenon DEF OnEndOfTurn, Handoff, AskLlm
<1>8. CASE OnLlmFillerReady \/ OnLlmFullReady \/ OnTtsFirstByte \/ OnTtsPlaybackDone
  BY <1>8, Zenon DEF OnLlmFillerReady, OnLlmFullReady, OnTtsFirstByte, OnTtsPlaybackDone
<1>9. CASE LlmTaskCancelled
  BY <1>2, <1>9, Zenon DEF LlmTaskCancelled
<1>10. CASE SynthesisCancelled
  BY <1>1, <1>10, Zenon DEF SynthesisCancelled
<1>11. CASE TtsWorker
  <2>1. CASE GetShutdown \/ GetTurnEnd \/ GetSpeech
    BY <2>1, Zenon DEF GetShutdown, GetTurnEnd, GetSpeech, Get
  <2>2. CASE FirstChunk
    <3>1. /\ first_byte_of_turn' \in BOOLEAN
          /\ playbackEnabled' \in BOOLEAN
      BY <2>2, Zenon DEF FirstChunk
    <3>2. QED
      BY <2>2, <3>1, Zenon DEF FirstChunk
  <2>3. CASE SynthesisEnds
    BY <2>3, Zenon DEF SynthesisEnds
  <2>4. QED
    BY <1>11, <2>1, <2>2, <2>3, Zenon DEF TtsWorker
<1>12. CASE LlmCalls
  BY <1>12, Zenon DEF LlmCalls, HaikuSettles, SonnetSettles
<1>13. CASE SilencePolicy
  <2>1. socket' \in BOOLEAN
    BY <1>13, Zenon DEF SilencePolicy, Prompt, NoPrompt, HangUp, callVars
  <2>2. QED
    BY <1>13, <2>1, Zenon DEF SilencePolicy
<1>14. CASE EndOfCall
  BY <1>14, Zenon DEF EndOfCall, MainLoopEnds, WorkerTimeout, StopEventTask, CleanUp
<1>15. CASE Environment
  BY <1>15, Zenon DEF Environment, VadSpeechStarts, VadSpeechEnds, DeepgramStartOfTurn,
                      DeepgramEndOfTurn, UserEvent, GraceEnds, Disconnect
<1>16. CASE UNCHANGED vars
  BY <1>16, Zenon
<1>17. QED
  BY <1>4, <1>5, <1>6, <1>7, <1>8, <1>9, <1>10, <1>11, <1>12, <1>13, <1>14, <1>15, <1>16
     DEF Next, ProcessEvents

-----------------------------------------------------------------------------
\* The other variables: cancel_pipeline, which two handlers and two awaits share.

LEMMA StopPlaybackType ==
  ASSUME DataOK, NEW active, StopPlayback(active)
  PROVE  /\ current_state' \in State /\ pc' = "ready"
         /\ silence' \in {"off", "2s", "5s", "bye"}
         /\ cut' \in Nat
  BY DEF DataOK, StateTypeOK, StopPlayback, CanSend, State, browserVars

LEMMA DrainSpeechType ==
  ASSUME DataOK, NEW active, DrainSpeech(active)
  PROVE  /\ current_state' \in State /\ pc' \in {"ready", "await_tts"}
         /\ tts_queue' \in Seq(ItemType)
         /\ silence' \in {"off", "2s", "5s", "bye"}
         /\ cut' \in Nat
<1>1. CASE Synthesizing
  BY <1>1 DEF DataOK, DrainSpeech, State, browserVars
<1>2. CASE ~Synthesizing
  BY <1>2, StopPlaybackType DEF DrainSpeech
<1>3. QED
  BY <1>1, <1>2

LEMMA BargeInType ==
  ASSUME DataOK, NEW active, BargeIn(active)
  PROVE  /\ StateTypeOK' /\ pc' \in {"ready", "await_llm", "await_tts"}
         /\ tts_queue' \in Seq(ItemType)
         /\ pending_barge_in' = "none"
         /\ llm_task' \in Nat /\ asked' \in Nat
         /\ haiku' \subseteq Nat /\ sonnet' \subseteq Nat
         /\ silence' \in {"off", "2s", "5s", "bye"}
         /\ cut' \in Nat
<1>1. CASE LlmTaskRunning
  BY <1>1 DEF DataOK, StateTypeOK, BargeIn, State, ItemType, browserVars
<1>2. CASE ~LlmTaskRunning
  <2>1. DrainSpeech(active) /\ UNCHANGED <<turn_id, llm_task, asked, haiku, sonnet>>
        /\ pending_barge_in' = "none" /\ llm_cancelled' = TRUE
    BY <1>2 DEF BargeIn
  <2>2. QED
    BY <2>1, DrainSpeechType DEF DataOK, StateTypeOK
<1>3. QED
  BY <1>1, <1>2

\* The items and events the actions add to the queues.
LEMMA QueueTypes ==
  ASSUME DataOK
  PROVE  /\ Speech \in ItemType /\ Nothing \in ItemType /\ Item("shutdown", 0) \in ItemType
         /\ \A t \in Nat : /\ Item("speech", t) \in ItemType
                           /\ Item("turn_end", t) \in ItemType
         /\ \A type \in EventType : /\ Signal(type) \in QueuedEvent
                                    /\ \A t \in Nat : Reply(type, t) \in QueuedEvent
         /\ tts_queue \in Seq(ItemType) /\ event_queue \in Seq(QueuedEvent)
  BY DEF DataOK, Speech, Nothing, Item, ItemType, QueuedEvent, Signal, Reply

LEMMA HeadTypes ==
  ASSUME DataOK
  PROVE  /\ event_queue # <<>> => Head(event_queue).task \in Nat
         /\ tts_queue # <<>> => Head(tts_queue).task \in Nat
<1>1. /\ event_queue # <<>> => Head(event_queue) \in QueuedEvent
      /\ tts_queue # <<>> => Head(tts_queue) \in ItemType
  BY QueueTypes, TailItem
<1>2. QED
  BY <1>1 DEF QueuedEvent, ItemType

LEMMA TakeType ==
  ASSUME DataOK, NEW type, Take(type)
  PROVE  event_queue' \in Seq(QueuedEvent)
  BY QueueTypes, TailItem DEF Take

LEMMA ProcessEventsType ==
  ASSUME DataOK, ProcessEvents
  PROVE  DataOK'
<1> USE DEF vadVars, llmVars, workerVars, browserVars, callVars, envVars, smVars
<1>1. CASE OnVadSpeechStart
  <2>1. event_queue' \in Seq(QueuedEvent)
    BY <1>1, TakeType DEF OnVadSpeechStart
  <2>2. CASE BargeIn(TRUE)
    BY <1>1, <2>1, <2>2, BargeInType DEF OnVadSpeechStart, DataOK, QueuedEvent
  <2>3. CASE ~BargeIn(TRUE)
    BY <1>1, <2>1, <2>3 DEF OnVadSpeechStart, DataOK, StateTypeOK, QueuedEvent
  <2>4. QED
    BY <2>2, <2>3
<1>2. CASE OnVadSpeechEnd
  <2>1. event_queue' \in Seq(QueuedEvent)
    BY <1>2, TakeType DEF OnVadSpeechEnd
  <2>2. QED
    BY <1>2, <2>1 DEF OnVadSpeechEnd, DataOK, StateTypeOK, QueuedEvent
<1>3. CASE OnStartOfTurn
  <2>1. event_queue' \in Seq(QueuedEvent)
    BY <1>3, TakeType DEF OnStartOfTurn
  <2>2. CASE BargeIn(vad_speech_active)
    BY <1>3, <2>1, <2>2, BargeInType DEF OnStartOfTurn, DataOK, QueuedEvent
  <2>3. CASE ~BargeIn(vad_speech_active)
    <3>1. StateTypeOK'
      BY <1>3, <2>3, HandleCases DEF OnStartOfTurn, DataOK, StateTypeOK
    <3>2. QED
      BY <1>3, <2>1, <2>3, <3>1 DEF OnStartOfTurn, DataOK, QueuedEvent
  <2>4. QED
    BY <2>2, <2>3
<1>4. CASE OnEndOfTurn
  <2>1. event_queue' \in Seq(QueuedEvent)
    BY <1>4, TakeType DEF OnEndOfTurn
  <2>2. CASE Handoff
    <3>1. tts_queue' \in Seq(ItemType)
      BY <2>2, QueueTypes, AppendTwo DEF Handoff, Answer
    <3>2. StateTypeOK'
      BY <2>2 DEF Handoff, DataOK, StateTypeOK, State
    <3>3. UNCHANGED <<llmVars, silence, pc, vadVars, workerVars, callVars, browserVars, envVars>>
      BY <1>4, <2>2, Zenon DEF OnEndOfTurn, Handoff
    <3>4. QED
      BY <2>1, <3>1, <3>2, <3>3 DEF DataOK, QueuedEvent
  <2>3. CASE AskLlm
    <3>1. StateTypeOK'
      BY <2>3, HandleCases DEF AskLlm, DataOK
    <3>2. /\ llm_task' \in Nat /\ asked' \in Nat
          /\ haiku' \subseteq Nat /\ sonnet' \subseteq Nat
          /\ silence' \in {"off", "2s", "5s", "bye"}
      BY <2>3 DEF AskLlm, DataOK
    <3>3. UNCHANGED <<tts_queue, pc, last_vad, pending_barge_in, worker, speaking, callVars, cut,
                      turn_index, vad_starts>>
      BY <1>4, <2>3, Zenon DEF OnEndOfTurn, AskLlm
    <3>4. QED
      BY <2>1, <3>1, <3>2, <3>3 DEF DataOK, StateTypeOK, QueuedEvent
  <2>4. CASE ~Handoff /\ ~AskLlm
    <3>1. StateTypeOK'
      BY <1>4, <2>4, TryHandleType DEF OnEndOfTurn, DataOK
    <3>2. UNCHANGED <<tts_queue, llmVars, silence, pc, vadVars, workerVars, callVars,
                      browserVars, envVars>>
      BY <1>4, <2>4, Zenon DEF OnEndOfTurn
    <3>3. QED
      BY <2>1, <3>1, <3>2 DEF DataOK, QueuedEvent
  <2>5. QED
    BY <2>2, <2>3, <2>4
<1>5. CASE OnLlmFillerReady
  <2>1. event_queue' \in Seq(QueuedEvent)
    BY <1>5, TakeType DEF OnLlmFillerReady
  <2>2. StateTypeOK'
    BY <1>5, HandleCases DEF OnLlmFillerReady, DataOK, StateTypeOK
  <2>3. tts_queue' \in Seq(ItemType)
    BY <1>5, QueueTypes, AppendItem DEF OnLlmFillerReady
  <2>4. QED
    BY <1>5, <2>1, <2>2, <2>3 DEF OnLlmFillerReady, DataOK, QueuedEvent
<1>6. CASE OnLlmFullReady
  <2>1. event_queue' \in Seq(QueuedEvent)
    BY <1>6, TakeType DEF OnLlmFullReady
  <2>2. StateTypeOK'
    BY <1>6, TryHandleType DEF OnLlmFullReady, DataOK, StateTypeOK
  <2>3. tts_queue' \in Seq(ItemType)
    <3>1. Head(event_queue).task \in Nat
      BY <1>6, HeadTypes DEF OnLlmFullReady, Take
    <3>2. tts_queue \o Answer(Head(event_queue).task) \in Seq(ItemType)
      BY <3>1, QueueTypes, AppendTwo DEF Answer
    <3>3. QED
      BY <1>6, <3>2, QueueTypes DEF OnLlmFullReady
  <2>4. QED
    BY <1>6, <2>1, <2>2, <2>3 DEF OnLlmFullReady, DataOK, QueuedEvent
<1>7. CASE OnTtsFirstByte
  <2>1. event_queue' \in Seq(QueuedEvent)
    BY <1>7, TakeType DEF OnTtsFirstByte
  <2>2. StateTypeOK'
    BY <1>7, HandleCases DEF OnTtsFirstByte, DataOK, StateTypeOK
  <2>3. QED
    BY <1>7, <2>1, <2>2 DEF OnTtsFirstByte, DataOK, QueuedEvent
<1>8. CASE OnTtsPlaybackDone
  <2>1. event_queue' \in Seq(QueuedEvent)
    BY <1>8, TakeType DEF OnTtsPlaybackDone
  <2>2. StateTypeOK'
    BY <1>8, TryHandleType DEF OnTtsPlaybackDone, DataOK
  <2>3. QED
    BY <1>8, <2>1, <2>2 DEF OnTtsPlaybackDone, DataOK, QueuedEvent
<1>9. CASE LlmTaskCancelled
  <2>1. DrainSpeech(vad_speech_active)
    BY <1>9 DEF LlmTaskCancelled
  <2>2. QED
    BY <1>9, <2>1, DrainSpeechType DEF LlmTaskCancelled, DataOK, StateTypeOK
<1>10. CASE SynthesisCancelled
  BY <1>10, StopPlaybackType DEF SynthesisCancelled, DataOK, StateTypeOK
<1>11. QED
  BY <1>1, <1>2, <1>3, <1>4, <1>5, <1>6, <1>7, <1>8, <1>9, <1>10 DEF ProcessEvents

LEMMA TtsWorkerType ==
  ASSUME DataOK, TtsWorker
  PROVE  DataOK'
<1> USE DEF vadVars, llmVars, workerVars, browserVars, callVars, envVars, smVars
<1>1. ASSUME NEW kind, Get(kind)
      PROVE  tts_queue' \in Seq(ItemType) /\ Head(tts_queue) \in ItemType
  BY <1>1, QueueTypes, TailItem DEF Get
<1>2. CASE GetShutdown
  BY <1>2, <1>1 DEF GetShutdown, Get, DataOK, StateTypeOK
<1>3. CASE GetTurnEnd
  <2>1. event_queue' \in Seq(QueuedEvent)
    <3>1. Head(tts_queue).task \in Nat
      BY <1>1, <1>3 DEF GetTurnEnd, ItemType
    <3>2. Reply("tts_playback_done", Head(tts_queue).task) \in QueuedEvent
      BY <3>1, QueueTypes DEF EventType
    <3>3. QED
      BY <1>3, <3>2, QueueTypes, AppendItem DEF GetTurnEnd, Push
  <2>2. QED
    BY <1>3, <1>1, <2>1 DEF GetTurnEnd, Get, DataOK, StateTypeOK, QueuedEvent
<1>4. CASE GetSpeech
  BY <1>4, <1>1 DEF GetSpeech, Get, DataOK, StateTypeOK
<1>5. CASE FirstChunk
  <2>1. event_queue' \in Seq(QueuedEvent)
    BY <1>5, QueueTypes, AppendItem DEF FirstChunk, Push, EventType
  <2>2. QED
    BY <1>5, <2>1, QueueTypes DEF FirstChunk, DataOK, StateTypeOK, QueuedEvent
<1>6. CASE SynthesisEnds
  BY <1>6, QueueTypes DEF SynthesisEnds, DataOK, StateTypeOK
<1>7. QED
  BY <1>2, <1>3, <1>4, <1>5, <1>6 DEF TtsWorker

LEMMA LlmCallsType ==
  ASSUME DataOK, LlmCalls
  PROVE  DataOK'
<1> USE DEF vadVars, llmVars, workerVars, browserVars, callVars, envVars, smVars
<1>1. PICK t \in 1..MaxTurns : HaikuSettles(t) \/ SonnetSettles(t)
  BY DEF LlmCalls
<1>2. event_queue' \in Seq(QueuedEvent)
  <2>1. t \in Nat
    BY BoundsAssumption
  <2>2. /\ Reply("llm_filler_ready", t) \in QueuedEvent
        /\ Reply("llm_full_ready", t) \in QueuedEvent
    BY <2>1, QueueTypes DEF EventType
  <2>3. QED
    BY <1>1, <2>2, QueueTypes, AppendItem DEF HaikuSettles, SonnetSettles, Push
<1>3. haiku' \subseteq Nat /\ sonnet' \subseteq Nat
  BY <1>1 DEF HaikuSettles, SonnetSettles, DataOK
<1>4. CASE HaikuSettles(t)
  BY <1>2, <1>3, <1>4 DEF HaikuSettles, DataOK, StateTypeOK, QueuedEvent
<1>5. CASE SonnetSettles(t)
  BY <1>2, <1>3, <1>5 DEF SonnetSettles, DataOK, StateTypeOK, QueuedEvent
<1>6. QED
  BY <1>1, <1>4, <1>5

LEMMA SilencePolicyType ==
  ASSUME DataOK, SilencePolicy
  PROVE  DataOK'
<1> USE DEF vadVars, llmVars, workerVars, browserVars, callVars, envVars, smVars
<1>1. tts_queue' \in Seq(ItemType)
  BY QueueTypes, AppendItem DEF SilencePolicy, Prompt, NoPrompt, HangUp
<1>2. QED
  BY <1>1 DEF SilencePolicy, Prompt, NoPrompt, HangUp, DataOK, StateTypeOK

LEMMA EndOfCallType ==
  ASSUME DataOK, EndOfCall
  PROVE  DataOK'
<1> USE DEF vadVars, llmVars, workerVars, browserVars, callVars, envVars, smVars
<1>1. CASE MainLoopEnds
  <2>1. tts_queue' \in Seq(ItemType)
    BY <1>1, QueueTypes, AppendItem DEF MainLoopEnds
  <2>2. QED
    BY <1>1, <2>1 DEF MainLoopEnds, DataOK, StateTypeOK
<1>2. CASE WorkerTimeout
  BY <1>2, QueueTypes DEF WorkerTimeout, DataOK, StateTypeOK
<1>3. CASE StopEventTask
  BY <1>3 DEF StopEventTask, DataOK, StateTypeOK
<1>4. CASE CleanUp
  BY <1>4 DEF CleanUp, Reset, DataOK, StateTypeOK, State
<1>5. QED
  BY <1>1, <1>2, <1>3, <1>4 DEF EndOfCall

LEMMA EnvironmentType ==
  ASSUME DataOK, Environment
  PROVE  DataOK'
<1> USE DEF vadVars, llmVars, workerVars, browserVars, callVars, envVars, smVars
<1>1. ASSUME NEW type \in EventType, Push(Signal(type))
      PROVE  event_queue' \in Seq(QueuedEvent)
  BY <1>1, QueueTypes, AppendItem DEF Push
<1>2. CASE VadSpeechStarts
  BY <1>1, <1>2 DEF VadSpeechStarts, UserEvent, DataOK, StateTypeOK, QueuedEvent, EventType
<1>3. CASE VadSpeechEnds
  BY <1>1, <1>3 DEF VadSpeechEnds, UserEvent, DataOK, StateTypeOK, QueuedEvent, EventType
<1>4. CASE DeepgramStartOfTurn
  BY <1>1, <1>4 DEF DeepgramStartOfTurn, UserEvent, DataOK, StateTypeOK, QueuedEvent, EventType
<1>5. CASE DeepgramEndOfTurn
  BY <1>1, <1>5 DEF DeepgramEndOfTurn, UserEvent, DataOK, StateTypeOK, QueuedEvent, EventType
<1>6. CASE GraceEnds
  BY <1>6 DEF GraceEnds, DataOK, StateTypeOK
<1>7. CASE Disconnect
  BY <1>7 DEF Disconnect, DataOK, StateTypeOK
<1>8. QED
  BY <1>2, <1>3, <1>4, <1>5, <1>6, <1>7 DEF Environment

LEMMA DataStep ==
  ASSUME DataOK, [Next]_vars
  PROVE  DataOK'
<1>1. CASE UNCHANGED vars
  BY <1>1 DEF vars, smVars, vadVars, llmVars, workerVars, browserVars, callVars, envVars, DataOK,
              StateTypeOK
<1>2. QED
  BY <1>1, ProcessEventsType, TtsWorkerType, LlmCallsType, SilencePolicyType, EndOfCallType,
     EnvironmentType DEF Next

\* Every variable keeps its type, in calls of any length.
THEOREM TypeCorrect == Spec => []TypeOK
<1>1. Init => TypeOK
  <2>1. Init => FlagsOK
    BY Zenon DEF Init, FlagsOK
  <2>2. Init => DataOK
    BY DEF Init, InitialState, DataOK, StateTypeOK, State, Nothing, ItemType
  <2>3. QED
    BY <2>1, <2>2 DEF TypeOK
<1>2. TypeOK /\ [Next]_vars => TypeOK'
  BY FlagsStep, DataStep DEF TypeOK
<1>3. QED
  BY <1>1, <1>2, PTL DEF Spec

-----------------------------------------------------------------------------
\* The silence timer.

\* The user is never prompted or hung up on while speaking: the timer starts
\* only on a transition to a replying state, and every way to USER_SPEAKING
\* stops it in the step that takes it.
THEOREM TimerStopsForTheUser == Spec => []NoTimerWhileUserSpeaks
<1> USE DEF NoTimerWhileUserSpeaks
<1>1. Init => NoTimerWhileUserSpeaks
  BY DEF Init
<1>2. DataOK /\ NoTimerWhileUserSpeaks /\ [Next]_vars => NoTimerWhileUserSpeaks'
  <2> SUFFICES ASSUME DataOK, NoTimerWhileUserSpeaks, [Next]_vars,
                      current_state' = "USER_SPEAKING"
               PROVE  silence' = "off"
    OBVIOUS
  <2> USE DEF smVars, vadVars, llmVars, workerVars, browserVars, callVars, envVars
  <2>a. StateTypeOK
    BY DEF DataOK
  <2>b. ASSUME NEW active, StopPlayback(active)
        PROVE  silence' = "off"
    BY <2>b DEF StopPlayback
  <2>c. ASSUME NEW active, DrainSpeech(active)
        PROVE  silence' = "off"
    BY <2>b, <2>c DEF DrainSpeech
  <2>d. ASSUME NEW active, BargeIn(active)
        PROVE  silence' = "off"
    BY <2>c, <2>d DEF BargeIn
  <2>1. CASE OnVadSpeechStart
    BY <2>1, <2>d DEF OnVadSpeechStart
  <2>2. CASE OnVadSpeechEnd
    BY <2>2 DEF OnVadSpeechEnd
  <2>3. CASE OnStartOfTurn
    BY <2>3, <2>d DEF OnStartOfTurn
  <2>4. CASE OnEndOfTurn
    BY <2>4, <2>a, HandleCases DEF OnEndOfTurn, Handoff, AskLlm, TryHandle, Replying
  <2>5. CASE OnLlmFillerReady \/ OnTtsFirstByte
    BY <2>5 DEF OnLlmFillerReady, OnTtsFirstByte
  <2>6. CASE OnLlmFullReady \/ OnTtsPlaybackDone
    BY <2>6, <2>a, HandleCases DEF OnLlmFullReady, OnTtsPlaybackDone, TryHandle
  <2>7. CASE LlmTaskCancelled \/ SynthesisCancelled
    BY <2>7, <2>b, <2>c DEF LlmTaskCancelled, SynthesisCancelled
  <2>8. CASE TtsWorker
    BY <2>8 DEF TtsWorker, GetShutdown, GetTurnEnd, GetSpeech, Get, FirstChunk, SynthesisEnds
  <2>9. CASE LlmCalls
    BY <2>9 DEF LlmCalls, HaikuSettles, SonnetSettles
  <2>10. CASE SilencePolicy
    BY <2>10 DEF SilencePolicy, Prompt, NoPrompt, HangUp
  <2>11. CASE EndOfCall
    BY <2>11 DEF EndOfCall, MainLoopEnds, WorkerTimeout, StopEventTask, CleanUp, Reset
  <2>12. CASE Environment
    BY <2>12 DEF Environment, VadSpeechStarts, VadSpeechEnds, DeepgramStartOfTurn,
                 DeepgramEndOfTurn, UserEvent, GraceEnds, Disconnect
  <2>13. CASE UNCHANGED vars
    BY <2>13 DEF vars
  <2>14. QED
    BY <2>1, <2>2, <2>3, <2>4, <2>5, <2>6, <2>7, <2>8, <2>9, <2>10, <2>11, <2>12, <2>13
       DEF Next, ProcessEvents
<1>3. TypeOK => DataOK
  BY DEF TypeOK
<1>4. QED
  BY <1>1, <1>2, <1>3, TypeCorrect, PTL DEF Spec

-----------------------------------------------------------------------------
\* The end of the call.

\* The clean-up comes after the worker and the event processor, and its reset is the
\* last thing that happens to the state machine.
EndInv ==
  /\ loop \in {"closing", "closed", "aborted"} => pc = "stopped" /\ worker = "stopped"
  /\ loop = "closed" => current_state = "IDLE"

LEMMA EndInvariant == Spec => [](DataOK /\ EndInv)
<1>1. Init => EndInv
  BY DEF Init, EndInv
<1>2. EndInv /\ [Next]_vars => EndInv'
  <2> SUFFICES ASSUME EndInv, [Next]_vars
               PROVE  EndInv'
    OBVIOUS
  <2> USE DEF smVars, vadVars, llmVars, workerVars, browserVars, callVars, envVars
  \* The handlers run as long as the processor does.
  <2>1. CASE ProcessEvents
    <3>1. pc # "stopped"
      BY <2>1 DEF ProcessEvents, OnVadSpeechStart, OnVadSpeechEnd, OnStartOfTurn, OnEndOfTurn,
         OnLlmFillerReady, OnLlmFullReady, OnTtsFirstByte, OnTtsPlaybackDone, LlmTaskCancelled,
         SynthesisCancelled, Take
    <3>2. loop' = loop
      BY <2>1 DEF ProcessEvents, OnVadSpeechStart, OnVadSpeechEnd, OnStartOfTurn, OnEndOfTurn,
         OnLlmFillerReady, OnLlmFullReady, OnTtsFirstByte, OnTtsPlaybackDone, LlmTaskCancelled,
         SynthesisCancelled
    <3>3. QED
      BY <3>1, <3>2 DEF EndInv
  <2>2. CASE TtsWorker
    BY <2>2 DEF TtsWorker, GetShutdown, GetTurnEnd, GetSpeech, Get, FirstChunk, SynthesisEnds,
                Synthesizing, EndInv
  <2>3. CASE LlmCalls
    BY <2>3 DEF LlmCalls, HaikuSettles, SonnetSettles, EndInv
  <2>4. CASE SilencePolicy
    BY <2>4 DEF SilencePolicy, Prompt, NoPrompt, HangUp, EndInv
  <2>5. CASE EndOfCall
    BY <2>5 DEF EndOfCall, MainLoopEnds, WorkerTimeout, StopEventTask, CleanUp, Reset, EndInv
  <2>6. CASE Environment
    BY <2>6 DEF Environment, VadSpeechStarts, VadSpeechEnds, DeepgramStartOfTurn,
                DeepgramEndOfTurn, UserEvent, GraceEnds, Disconnect, EndInv
  <2>7. CASE UNCHANGED vars
    BY <2>7 DEF vars, EndInv
  <2>8. QED
    BY <2>1, <2>2, <2>3, <2>4, <2>5, <2>6, <2>7 DEF Next
<1>3. TypeOK => DataOK
  BY DEF TypeOK
<1>4. QED
  BY <1>1, <1>2, <1>3, TypeCorrect, PTL DEF Spec

\* After a complete clean-up nothing more is queued to be spoken, also if a timer that
\* was started while "finally" waited is still running.
THEOREM CleanedUpCallIsQuiet == Spec => QuietAfterCleanUp
<1>1. EndInv /\ [Next]_vars => [loop = "closed" => UNCHANGED tts_queue]_vars
  <2> SUFFICES ASSUME EndInv, Next, loop = "closed"
               PROVE  UNCHANGED tts_queue
    BY DEF vars
  <2> USE DEF smVars, vadVars, llmVars, workerVars, browserVars, callVars, envVars
  <2>1. pc = "stopped" /\ worker = "stopped" /\ current_state = "IDLE"
    BY DEF EndInv
  <2>2. ~ProcessEvents
    BY <2>1 DEF ProcessEvents, OnVadSpeechStart, OnVadSpeechEnd, OnStartOfTurn, OnEndOfTurn,
       OnLlmFillerReady, OnLlmFullReady, OnTtsFirstByte, OnTtsPlaybackDone, LlmTaskCancelled,
       SynthesisCancelled, Take
  <2>3. ~TtsWorker
    BY <2>1 DEF TtsWorker, GetShutdown, GetTurnEnd, GetSpeech, Get, FirstChunk, SynthesisEnds,
                Synthesizing
  <2>4. CASE SilencePolicy
    BY <2>1, <2>4 DEF SilencePolicy, Prompt, NoPrompt, HangUp, AwaitingReply
  <2>5. CASE EndOfCall
    BY <2>5 DEF EndOfCall, MainLoopEnds, WorkerTimeout, StopEventTask, CleanUp
  <2>6. CASE LlmCalls \/ Environment
    BY <2>6 DEF LlmCalls, HaikuSettles, SonnetSettles, Environment, VadSpeechStarts,
                VadSpeechEnds, DeepgramStartOfTurn, DeepgramEndOfTurn, UserEvent, GraceEnds,
                Disconnect
  <2>7. QED
    BY <2>2, <2>3, <2>4, <2>5, <2>6 DEF Next
<1>2. QED
  BY <1>1, EndInvariant, PTL DEF Spec, QuietAfterCleanUp

-----------------------------------------------------------------------------
\* Barge-in.

\* What a complete or half-done cancel_pipeline leaves behind.
LEMMA StopPlaybackCut ==
  ASSUME DataOK, NEW active, StopPlayback(active),
         NoSpeechQueued', Synthesizing => tts_cancel_event',
         UNCHANGED <<worker, speaking>>
  PROVE  CutInv'
  BY DEF StopPlayback, CutInv, Awaiting, NoSpeechQueued, QueuedSpeechIsCurrent,
         NothingStaleIsSpoken, Synthesizing

LEMMA DrainSpeechCut ==
  ASSUME DataOK, NEW active, DrainSpeech(active), UNCHANGED <<worker, speaking>>
  PROVE  CutInv'
<1>1. NoSpeechQueued' /\ tts_cancel_event' /\ QueuedSpeechIsCurrent'
  BY DEF DrainSpeech, NoSpeechQueued, QueuedSpeechIsCurrent
<1>2. CASE Synthesizing
  BY <1>1, <1>2 DEF DrainSpeech, CutInv, Awaiting, NothingStaleIsSpoken
<1>3. CASE ~Synthesizing
  BY <1>1, <1>3, StopPlaybackCut DEF DrainSpeech
<1>4. QED
  BY <1>2, <1>3

LEMMA BargeInCut ==
  ASSUME DataOK, CutInv, NEW active, BargeIn(active), UNCHANGED <<worker, speaking>>
  PROVE  CutInv'
<1>1. CASE LlmTaskRunning
  BY <1>1 DEF BargeIn, CutInv, Awaiting, QueuedSpeechIsCurrent, NothingStaleIsSpoken,
              Synthesizing, browserVars
<1>2. CASE ~LlmTaskRunning
  BY <1>2, DrainSpeechCut DEF BargeIn
<1>3. QED
  BY <1>1, <1>2

\* A step that changes neither the queue, nor the worker, nor the processor's
\* place, nor the state it awaits in.
LEMMA CutUnchanged ==
  ASSUME CutInv, UNCHANGED <<tts_queue, worker, speaking, tts_cancel_event, cut, pc>>,
         Awaiting => UNCHANGED current_state
  PROVE  CutInv'
  BY DEF CutInv, Awaiting, NoSpeechQueued, QueuedSpeechIsCurrent, NothingStaleIsSpoken,
         Synthesizing

\* Speech queued before a barge-in never reaches the browser after its
\* stop_playback, however the barge-in interleaves with the worker, the timer
\* and the LLM calls.
THEOREM CutSpeechStaysCut == Spec => []NothingStaleIsSpoken
<1>1. Init => CutInv
  BY DEF Init, CutInv, Awaiting, NoSpeechQueued, QueuedSpeechIsCurrent,
         NothingStaleIsSpoken, Synthesizing
<1>2. DataOK /\ EndInv /\ CutInv /\ [Next]_vars => CutInv'
  <2> SUFFICES ASSUME DataOK, EndInv, CutInv, [Next]_vars
               PROVE  CutInv'
    OBVIOUS
  <2> USE DEF smVars, vadVars, llmVars, workerVars, browserVars, callVars, envVars
  <2>q. /\ tts_queue \in Seq(ItemType) /\ Speech \in ItemType
        /\ \A t \in Nat : Item("speech", t) \in ItemType /\ Item("turn_end", t) \in ItemType
        /\ Item("shutdown", 0) \in ItemType
    BY QueueTypes
  <2>1. CASE OnVadSpeechStart
    BY <2>1, BargeInCut, CutUnchanged DEF OnVadSpeechStart
  <2>2. CASE OnVadSpeechEnd
    BY <2>2, CutUnchanged DEF OnVadSpeechEnd
  <2>3. CASE OnStartOfTurn
    BY <2>3, BargeInCut, CutUnchanged DEF OnStartOfTurn, Take, Awaiting
  <2>4. ASSUME NEW t \in Nat,
               tts_queue' \in {tts_queue, Append(tts_queue, Speech), tts_queue \o Answer(t)},
               ~Awaiting, UNCHANGED <<worker, speaking, tts_cancel_event, cut, pc>>
        PROVE  CutInv'
    <3>1. QueuedSpeechIsCurrent'
      <4> SUFFICES ASSUME NEW i \in 1..Len(tts_queue'), tts_queue'[i].kind = "speech"
                   PROVE  tts_queue'[i].cut = cut
        BY <2>4 DEF QueuedSpeechIsCurrent
      <4>1. CASE i \in 1..Len(tts_queue)
        <5>1. tts_queue'[i] = tts_queue[i]
          BY <4>1, <2>4, <2>q, AppendItem, AppendTwo DEF Answer
        <5>2. QED
          BY <4>1, <5>1 DEF CutInv, QueuedSpeechIsCurrent
      <4>2. CASE i \notin 1..Len(tts_queue)
        <5>1. Len(tts_queue) \in Nat
          BY <2>q
        <5>2. tts_queue'[i] \in {Speech, Item("speech", t), Item("turn_end", t)}
          BY <4>2, <5>1, <2>4, <2>q, AppendItem, AppendTwo DEF Answer
        <5>3. QED
          BY <5>2 DEF Speech, Item
      <4>3. QED
        BY <4>1, <4>2
    <3>2. QED
      BY <2>4, <3>1 DEF CutInv, Awaiting, NothingStaleIsSpoken, Synthesizing
  <2>5. CASE OnEndOfTurn
    <3>1. tts_queue' \in {tts_queue, tts_queue \o Answer(0)}
      BY <2>5 DEF OnEndOfTurn, Handoff, AskLlm
    <3>2. QED
      BY <2>4, <2>5, <3>1 DEF OnEndOfTurn, Take, Awaiting
  <2>6. CASE OnLlmFillerReady
    BY <2>4, <2>6 DEF OnLlmFillerReady, Take, Awaiting
  <2>7. CASE OnLlmFullReady
    <3>1. Head(event_queue).task \in Nat
      BY <2>7, HeadTypes DEF OnLlmFullReady, Take
    <3>2. QED
      BY <2>4, <2>7, <3>1 DEF OnLlmFullReady, Take, Awaiting
  <2>8. CASE OnTtsFirstByte \/ OnTtsPlaybackDone
    BY <2>8, CutUnchanged DEF OnTtsFirstByte, OnTtsPlaybackDone, Take, Awaiting
  <2>9. CASE LlmTaskCancelled
    BY <2>9, DrainSpeechCut DEF LlmTaskCancelled
  <2>10. CASE SynthesisCancelled
    BY <2>10, StopPlaybackCut DEF SynthesisCancelled, CutInv, NoSpeechQueued
  <2>11. ASSUME NEW kind, Get(kind)
         PROVE  /\ NoSpeechQueued => NoSpeechQueued' /\ kind # "speech"
                /\ QueuedSpeechIsCurrent'
                /\ kind = "speech" => Head(tts_queue).cut = cut
    <3>1. \A i \in 1..Len(tts_queue') : i + 1 \in 1..Len(tts_queue)
                                       /\ tts_queue'[i] = tts_queue[i + 1]
      BY <2>11, <2>q, TailItem DEF Get
    <3>2. 1 \in 1..Len(tts_queue) /\ tts_queue[1].kind = kind /\ Head(tts_queue) = tts_queue[1]
      BY <2>11, <2>q, TailItem DEF Get
    <3>3. cut' = cut
      BY <2>11 DEF Get
    <3>4. QED
      BY <3>1, <3>2, <3>3 DEF CutInv, NoSpeechQueued, QueuedSpeechIsCurrent
  <2>12. CASE GetShutdown \/ GetTurnEnd
    BY <2>11, <2>12 DEF GetShutdown, GetTurnEnd, Get, CutInv, Awaiting, NothingStaleIsSpoken,
                        Synthesizing
  <2>13. CASE GetSpeech
    BY <2>11, <2>13 DEF GetSpeech, Get, CutInv, Awaiting, NothingStaleIsSpoken, Synthesizing
  <2>14. CASE FirstChunk \/ SynthesisEnds
    BY <2>14 DEF FirstChunk, SynthesisEnds, CutInv, Awaiting, NoSpeechQueued,
                 QueuedSpeechIsCurrent, NothingStaleIsSpoken, Synthesizing
  <2>15. CASE LlmCalls
    BY <2>15, CutUnchanged DEF LlmCalls, HaikuSettles, SonnetSettles
  <2>16. CASE SilencePolicy
    <3>1. CASE Prompt("2s", "5s") \/ Prompt("5s", "bye")
      BY <2>4, <2>16, <3>1 DEF SilencePolicy, Prompt, AwaitingReply, CutInv
    <3>2. CASE UNCHANGED tts_queue
      BY <2>16, <3>2, CutUnchanged DEF SilencePolicy
    <3>3. QED
      BY <2>16, <3>1, <3>2 DEF SilencePolicy, NoPrompt, HangUp
  <2>17. CASE MainLoopEnds
    <3>1. \A i \in 1..Len(tts_queue') :
            \/ i \in 1..Len(tts_queue) /\ tts_queue'[i] = tts_queue[i]
            \/ tts_queue'[i] = Item("shutdown", 0)
      BY <2>17, <2>q, AppendItem DEF MainLoopEnds
    <3>2. QED
      BY <2>17, <3>1 DEF MainLoopEnds, Item, CutInv, Awaiting, NoSpeechQueued,
                         QueuedSpeechIsCurrent, NothingStaleIsSpoken, Synthesizing
  <2>18. CASE WorkerTimeout \/ StopEventTask \/ CleanUp
    BY <2>18 DEF WorkerTimeout, StopEventTask, CleanUp, EndInv, CutInv, Awaiting, NoSpeechQueued,
                 QueuedSpeechIsCurrent, NothingStaleIsSpoken, Synthesizing
  <2>19. CASE Environment
    BY <2>19, CutUnchanged DEF Environment, VadSpeechStarts, VadSpeechEnds,
       DeepgramStartOfTurn, DeepgramEndOfTurn, UserEvent, GraceEnds, Disconnect
  <2>20. CASE UNCHANGED vars
    BY <2>20, CutUnchanged DEF vars
  <2>21. QED
    BY <2>1, <2>2, <2>3, <2>5, <2>6, <2>7, <2>8, <2>9, <2>10, <2>12, <2>13, <2>14, <2>15,
       <2>16, <2>17, <2>18, <2>19, <2>20 DEF Next, ProcessEvents, TtsWorker, EndOfCall
<1>3. CutInv => NothingStaleIsSpoken
  BY DEF CutInv
<1>4. QED
  BY <1>1, <1>2, <1>3, EndInvariant, PTL DEF Spec

-----------------------------------------------------------------------------
\* The end of a reply.

\* A reply that is being given has its end ahead of it, in one of the queues.
THEOREM BotSpeakingHasAnEnd == Spec => []BotSpeakingWillEnd
<1>1. Init => BotSpeakingWillEnd
  BY DEF Init, InitialState, BotSpeakingWillEnd
<1>2. DataOK /\ BotSpeakingWillEnd /\ [Next]_vars => BotSpeakingWillEnd'
  <2> SUFFICES ASSUME DataOK, BotSpeakingWillEnd, [Next]_vars,
                      current_state' = "BOT_SPEAKING", worker' # "stopped"
               PROVE  HasTurnEnd' \/ HasPlaybackDone'
    BY DEF BotSpeakingWillEnd
  <2> USE DEF smVars, vadVars, llmVars, workerVars, browserVars, callVars, envVars
  <2>q. /\ StateTypeOK
        /\ tts_queue \in Seq(ItemType) /\ event_queue \in Seq(QueuedEvent)
        /\ Speech \in ItemType /\ Item("shutdown", 0) \in ItemType
        /\ \A t \in Nat : Item("speech", t) \in ItemType /\ Item("turn_end", t) \in ItemType
    BY QueueTypes DEF DataOK
  \* A handler other than the one of tts_playback_done keeps what there is.
  <2>k. ASSUME NEW type, Take(type), type # "tts_playback_done", HasPlaybackDone
        PROVE  HasPlaybackDone'
    <3>1. PICK i \in 1..Len(event_queue) : event_queue[i].type = "tts_playback_done"
      BY <2>k DEF HasPlaybackDone
    <3>2. i # 1
      BY <2>k, <3>1 DEF Take
    <3>3. i - 1 \in 1..Len(Tail(event_queue)) /\ Tail(event_queue)[i - 1] = event_queue[i]
      BY <2>k, <2>q, <3>2, TailItem DEF Take
    <3>4. QED
      BY <2>k, <3>1, <3>3 DEF Take, HasPlaybackDone
  <2>b. ASSUME NEW active, BargeIn(active) \/ DrainSpeech(active) \/ StopPlayback(active)
        PROVE  FALSE
    BY <2>b DEF BargeIn, DrainSpeech, StopPlayback
  <2>1. CASE OnVadSpeechStart \/ OnVadSpeechEnd
    BY <2>1, <2>b, <2>k DEF OnVadSpeechStart, OnVadSpeechEnd, BotSpeakingWillEnd, HasTurnEnd
  <2>2. CASE OnStartOfTurn
    BY <2>2, <2>b, <2>k, <2>q, HandleCases
       DEF OnStartOfTurn, BotSpeakingWillEnd, HasTurnEnd
  <2>a. ASSUME NEW d \in ItemType, NEW e \in ItemType, HasTurnEnd,
               tts_queue' \in {tts_queue, Append(tts_queue, d), tts_queue \o <<d, e>>}
        PROVE  HasTurnEnd'
    <3>1. PICK i \in 1..Len(tts_queue) : tts_queue[i].kind = "turn_end"
      BY <2>a DEF HasTurnEnd
    <3>2. i \in 1..Len(tts_queue') /\ tts_queue'[i] = tts_queue[i]
      <4>1. CASE UNCHANGED tts_queue
        BY <4>1
      <4>2. CASE tts_queue' = Append(tts_queue, d)
        BY <4>2, <2>q, AppendItem
      <4>3. CASE tts_queue' = tts_queue \o <<d, e>>
        BY <4>3, <2>q, AppendTwo
      <4>4. QED
        BY <2>a, <4>1, <4>2, <4>3
    <3>3. QED
      BY <3>1, <3>2 DEF HasTurnEnd
  <2>e. ASSUME NEW t \in Nat, tts_queue' = tts_queue \o Answer(t)
        PROVE  HasTurnEnd'
    <3>1. /\ Len(tts_queue) + 2 \in 1..Len(tts_queue')
          /\ tts_queue'[Len(tts_queue) + 2] = Item("turn_end", t)
      BY <2>e, <2>q, AppendTwo DEF Answer
    <3>2. QED
      BY <3>1 DEF HasTurnEnd, Item
  <2>3. CASE OnEndOfTurn
    <3>1. CASE Handoff
      BY <3>1, <2>e DEF Handoff
    <3>2. CASE ~Handoff
      <4>1. current_state = "BOT_SPEAKING" /\ UNCHANGED <<tts_queue, worker>>
        BY <2>3, <3>2, <2>q, HandleCases DEF OnEndOfTurn, AskLlm, TryHandle
      <4>2. QED
        BY <2>3, <4>1, <2>k DEF OnEndOfTurn, BotSpeakingWillEnd, HasTurnEnd
    <3>3. QED
      BY <3>1, <3>2
  <2>4. CASE OnLlmFillerReady
    <3>1. /\ current_state = "BOT_SPEAKING" /\ UNCHANGED worker
          /\ tts_queue' \in {tts_queue, Append(tts_queue, Speech)}
      BY <2>4, <2>q, HandleCases DEF OnLlmFillerReady
    <3>2. QED
      BY <2>4, <3>1, <2>a, <2>k, <2>q DEF OnLlmFillerReady, BotSpeakingWillEnd
  <2>5. CASE OnLlmFullReady
    <3>1. CASE UNCHANGED tts_queue /\ UNCHANGED smVars
      BY <2>5, <3>1, <2>k DEF OnLlmFullReady, BotSpeakingWillEnd, HasTurnEnd
    <3>2. CASE tts_queue' = tts_queue \o Answer(Head(event_queue).task)
      <4>1. Head(event_queue).task \in Nat
        BY <2>5, HeadTypes DEF OnLlmFullReady, Take
      <4>2. QED
        BY <3>2, <4>1, <2>e
    <3>3. QED
      BY <2>5, <3>1, <3>2 DEF OnLlmFullReady
  <2>6. CASE OnTtsFirstByte
    <3>1. current_state = "BOT_SPEAKING" /\ UNCHANGED <<worker, tts_queue>>
      BY <2>6, <2>q, HandleCases DEF OnTtsFirstByte
    <3>2. QED
      BY <2>6, <3>1, <2>k DEF OnTtsFirstByte, BotSpeakingWillEnd, HasTurnEnd
  <2>7. CASE OnTtsPlaybackDone
    <3>1. ~Accepts("TTS_PLAYBACK_DONE") /\ current_state = "BOT_SPEAKING"
      BY <2>7, <2>q, HandleCases DEF OnTtsPlaybackDone, TryHandle
    <3>2. QED
      BY <3>1 DEF Accepts, transitions, State
  <2>8. CASE LlmTaskCancelled \/ SynthesisCancelled
    BY <2>8, <2>b DEF LlmTaskCancelled, SynthesisCancelled
  \* An event the worker, an LLM call or the user pushes keeps what there is.
  <2>p. ASSUME NEW e \in QueuedEvent, event_queue' \in {event_queue, Append(event_queue, e)},
               HasPlaybackDone
        PROVE  HasPlaybackDone'
    <3>1. PICK i \in 1..Len(event_queue) : event_queue[i].type = "tts_playback_done"
      BY <2>p DEF HasPlaybackDone
    <3>2. i \in 1..Len(event_queue') /\ event_queue'[i] = event_queue[i]
      BY <2>p, <2>q, AppendItem
    <3>3. QED
      BY <3>1, <3>2 DEF HasPlaybackDone
  <2>s. \A type \in EventType : Signal(type) \in QueuedEvent
                              /\ \A t \in Nat : Reply(type, t) \in QueuedEvent
    BY QueueTypes
  <2>9. CASE GetShutdown
    BY <2>9 DEF GetShutdown
  <2>10. CASE GetTurnEnd
    <3> DEFINE e == Reply("tts_playback_done", Head(tts_queue).task)
    <3>1. e \in QueuedEvent /\ e.type = "tts_playback_done"
      <4>1. Head(tts_queue).task \in Nat
        BY <2>10, HeadTypes DEF GetTurnEnd, Get
      <4>2. QED
        BY <4>1, <2>s DEF EventType, Reply
    <3>2. event_queue' = Append(event_queue, e)
      BY <2>10 DEF GetTurnEnd, Push
    <3> HIDE DEF e
    <3>3. /\ Len(event_queue) + 1 \in 1..Len(event_queue')
          /\ event_queue'[Len(event_queue) + 1] = e
      BY <3>1, <3>2, <2>q, AppendItem
    <3>4. QED
      BY <3>1, <3>3 DEF HasPlaybackDone
  <2>11. CASE GetSpeech
    <3>1. HasTurnEnd => HasTurnEnd'
      <4> SUFFICES ASSUME NEW i \in 1..Len(tts_queue), tts_queue[i].kind = "turn_end"
                   PROVE  HasTurnEnd'
        BY DEF HasTurnEnd
      <4>1. i # 1
        BY <2>11 DEF GetSpeech, Get
      <4>2. i - 1 \in 1..Len(Tail(tts_queue)) /\ Tail(tts_queue)[i - 1] = tts_queue[i]
        BY <2>11, <2>q, <4>1, TailItem DEF GetSpeech, Get
      <4>3. QED
        BY <2>11, <4>2 DEF GetSpeech, Get, HasTurnEnd
    <3>2. current_state = "BOT_SPEAKING" /\ worker # "stopped" /\ UNCHANGED event_queue
      BY <2>11 DEF GetSpeech, Get
    <3>3. QED
      BY <3>1, <3>2 DEF BotSpeakingWillEnd, HasPlaybackDone
  <2>12. CASE FirstChunk \/ SynthesisEnds
    <3>1. /\ current_state = "BOT_SPEAKING" /\ worker # "stopped" /\ UNCHANGED tts_queue
          /\ event_queue' \in {event_queue, Append(event_queue, Signal("tts_first_byte"))}
      BY <2>12 DEF FirstChunk, SynthesisEnds, Synthesizing, Push
    <3>2. Signal("tts_first_byte") \in QueuedEvent
      BY <2>s DEF EventType
    <3>3. QED
      BY <3>1, <3>2, <2>p DEF BotSpeakingWillEnd, HasTurnEnd
  <2>13. CASE LlmCalls
    <3>1. PICK t \in 1..MaxTurns : HaikuSettles(t) \/ SonnetSettles(t)
      BY <2>13 DEF LlmCalls
    <3>2. t \in Nat
      BY BoundsAssumption
    <3>3. PICK e \in QueuedEvent : event_queue' \in {event_queue, Append(event_queue, e)}
      BY <3>1, <3>2, <2>s DEF HaikuSettles, SonnetSettles, Push, EventType
    <3>4. current_state = "BOT_SPEAKING" /\ worker # "stopped" /\ UNCHANGED tts_queue
      BY <3>1 DEF HaikuSettles, SonnetSettles
    <3>5. QED
      BY <3>3, <3>4, <2>p DEF BotSpeakingWillEnd, HasTurnEnd
  <2>14. CASE SilencePolicy
    <3>1. /\ UNCHANGED <<current_state, worker, event_queue>>
          /\ tts_queue' \in {tts_queue, Append(tts_queue, Speech)}
      BY <2>14 DEF SilencePolicy, Prompt, NoPrompt, HangUp
    <3>2. QED
      BY <3>1, <2>a, <2>q DEF BotSpeakingWillEnd, HasPlaybackDone
  <2>15. CASE EndOfCall
    <3>1. CASE MainLoopEnds
      BY <3>1, <2>a, <2>q DEF MainLoopEnds, BotSpeakingWillEnd, HasPlaybackDone
    <3>2. QED
      BY <2>15, <3>1 DEF EndOfCall, WorkerTimeout, StopEventTask, CleanUp, Reset,
         BotSpeakingWillEnd, HasTurnEnd, HasPlaybackDone
  <2>16. CASE Environment
    <3>1. /\ UNCHANGED <<current_state, worker, tts_queue>>
          /\ event_queue' \in {event_queue} \cup
               {Append(event_queue, Signal(type)) : type \in EventType}
      BY <2>16 DEF Environment, VadSpeechStarts, VadSpeechEnds, DeepgramStartOfTurn,
           DeepgramEndOfTurn, UserEvent, GraceEnds, Disconnect, Push, EventType
    <3>2. QED
      <4>1. CASE UNCHANGED event_queue
        BY <3>1, <4>1 DEF BotSpeakingWillEnd, HasTurnEnd, HasPlaybackDone
      <4>2. CASE ~UNCHANGED event_queue
        <5>1. PICK type \in EventType : event_queue' = Append(event_queue, Signal(type))
          BY <3>1, <4>2
        <5>2. HasPlaybackDone => HasPlaybackDone'
          BY <5>1, <2>p, <2>s
        <5>3. QED
          BY <3>1, <5>2 DEF BotSpeakingWillEnd, HasTurnEnd
      <4>3. QED
        BY <4>1, <4>2
  <2>17. CASE UNCHANGED vars
    BY <2>17 DEF vars, BotSpeakingWillEnd, HasTurnEnd, HasPlaybackDone
  <2>18. QED
    BY <2>1, <2>2, <2>3, <2>4, <2>5, <2>6, <2>7, <2>8, <2>9, <2>10, <2>11, <2>12, <2>13,
       <2>14, <2>15, <2>16, <2>17 DEF Next, ProcessEvents, TtsWorker
<1>3. TypeOK => DataOK
  BY DEF TypeOK
<1>4. QED
  BY <1>1, <1>2, <1>3, TypeCorrect, PTL DEF Spec

-----------------------------------------------------------------------------
\* The last word of an answer and its end.

IsFull(i) == event_queue[i].type = "llm_full_ready"
IsDone(i) == event_queue[i].type = "tts_playback_done"
FullOf(t)  == \E i \in 1..Len(event_queue) : IsFull(i) /\ event_queue[i].task = t
DoneOf(t)  == \E i \in 1..Len(event_queue) : IsDone(i) /\ event_queue[i].task = t
ItemOf(t)  == \E i \in 1..Len(tts_queue) : tts_queue[i].task = t
WordsOf(t) == \E i \in 1..Len(tts_queue) : tts_queue[i].kind = "speech" /\ tts_queue[i].task = t
SpeaksOf(t) == Synthesizing /\ speaking.task = t

\* A task has one answer; until it is handled nothing of it is queued or reported.
OneFull == \A i, j \in 1..Len(event_queue) :
  IsFull(i) /\ IsFull(j) /\ event_queue[i].task = event_queue[j].task => i = j

\* In the queue the end of an answer stands behind its words.
EndLast == \A i, j \in 1..Len(tts_queue) :
  ( /\ tts_queue[i].kind = "turn_end" /\ tts_queue[i].task # 0
    /\ tts_queue[j].kind = "speech" /\ tts_queue[j].task = tts_queue[i].task ) => j < i

AnswerInv ==
  /\ OneFull /\ EndLast
  /\ sonnet \subseteq 1..asked
  /\ \A t \in Nat : FullOf(t) => t \in (1..asked) \ sonnet
  /\ \A t \in Nat \ {0} : ItemOf(t) \/ DoneOf(t) => t <= asked
  /\ \A t \in Nat \ {0} : t \in sonnet \/ FullOf(t) => ~ItemOf(t) /\ ~DoneOf(t)
  /\ \A t \in Nat \ {0} : DoneOf(t) => ~WordsOf(t) /\ ~SpeaksOf(t)

\* The handler of an event, and the one of an answer, which was the only one.
LEMMA EventTaken ==
  ASSUME DataOK, OneFull, NEW type, Take(type)
  PROVE  /\ OneFull'
         /\ \A t \in Nat : (FullOf(t)' => FullOf(t)) /\ (DoneOf(t)' => DoneOf(t))
         /\ type = "llm_full_ready" =>
              \A t \in Nat : t = Head(event_queue).task => FullOf(t) /\ ~FullOf(t)'
<1>1. /\ event_queue # <<>> /\ event_queue' = Tail(event_queue) /\ Head(event_queue).type = type
      /\ event_queue \in Seq(QueuedEvent)
  BY QueueTypes DEF Take
<1>2. /\ Len(event_queue) \in Nat /\ 1 \in 1..Len(event_queue)
      /\ Head(event_queue) = event_queue[1]
      /\ \A i \in 1..Len(event_queue') :
           /\ i \in Nat /\ i + 1 # 1
           /\ i + 1 \in 1..Len(event_queue) /\ event_queue'[i] = event_queue[i + 1]
  BY <1>1, TailItem
<1>3. OneFull'
  <2> SUFFICES ASSUME NEW i \in 1..Len(event_queue'), NEW j \in 1..Len(event_queue'),
                      IsFull(i)', IsFull(j)', event_queue'[i].task = event_queue'[j].task
               PROVE  i = j
    BY DEF OneFull
  <2>1. i + 1 = j + 1
    BY <1>2 DEF OneFull, IsFull
  <2> QED
    BY <1>2, <2>1
<1>4. \A t \in Nat : (FullOf(t)' => FullOf(t)) /\ (DoneOf(t)' => DoneOf(t))
  BY <1>2 DEF FullOf, DoneOf, IsFull, IsDone
<1>5. ASSUME type = "llm_full_ready", NEW t \in Nat, t = Head(event_queue).task
      PROVE  FullOf(t) /\ ~FullOf(t)'
  <2>1. IsFull(1) /\ event_queue[1].task = t
    BY <1>1, <1>2, <1>5 DEF IsFull
  <2>2. FullOf(t)
    BY <1>2, <2>1 DEF FullOf
  <2>3. ASSUME NEW i \in 1..Len(event_queue'), IsFull(i)', event_queue'[i].task = t
        PROVE  FALSE
    BY <1>2, <2>1, <2>3 DEF OneFull, IsFull
  <2> QED
    BY <2>2, <2>3 DEF FullOf
<1> QED
  BY <1>3, <1>4, <1>5

\* An event that is pushed.
LEMMA EventPushed ==
  ASSUME DataOK, OneFull, NEW e \in QueuedEvent,
         event_queue' \in {event_queue, Append(event_queue, e)}
  PROVE  /\ \A t \in Nat : FullOf(t)' => FullOf(t) \/ (e.type = "llm_full_ready" /\ t = e.task)
         /\ \A t \in Nat : DoneOf(t)' => DoneOf(t) \/ (e.type = "tts_playback_done" /\ t = e.task)
         /\ (e.type = "llm_full_ready" => ~FullOf(e.task)) => OneFull'
<1>1. /\ Len(event_queue) \in Nat
      /\ \A i \in 1..Len(event_queue') :
           \/ i \in 1..Len(event_queue) /\ event_queue'[i] = event_queue[i]
           \/ i = Len(event_queue) + 1 /\ event_queue'[i] = e
  BY QueueTypes, AppendItem
<1>2. ASSUME NEW t \in Nat, FullOf(t)'
      PROVE  FullOf(t) \/ (e.type = "llm_full_ready" /\ t = e.task)
  BY <1>1, <1>2 DEF FullOf, IsFull
<1>3. ASSUME NEW t \in Nat, DoneOf(t)'
      PROVE  DoneOf(t) \/ (e.type = "tts_playback_done" /\ t = e.task)
  BY <1>1, <1>3 DEF DoneOf, IsDone
<1>4. ASSUME e.type = "llm_full_ready" => ~FullOf(e.task),
             NEW i \in 1..Len(event_queue'), NEW j \in 1..Len(event_queue'),
             IsFull(i)', IsFull(j)', event_queue'[i].task = event_queue'[j].task
      PROVE  i = j
  BY <1>1, <1>4 DEF OneFull, FullOf, IsFull
<1> QED
  BY <1>2, <1>3, <1>4 DEF OneFull

\* The worker takes an item: what is left was there, and stands behind it.
LEMMA SpeechTaken ==
  ASSUME DataOK, EndLast, NEW kind, Get(kind), NEW h \in Nat, h = Head(tts_queue).task
  PROVE  /\ EndLast'
         /\ \A t \in Nat : (ItemOf(t)' => ItemOf(t)) /\ (WordsOf(t)' => WordsOf(t))
         /\ ItemOf(h)
         /\ kind = "speech" => WordsOf(h)
         /\ kind = "turn_end" /\ h # 0 => ~WordsOf(h)'
<1>1. /\ tts_queue # <<>> /\ tts_queue' = Tail(tts_queue) /\ Head(tts_queue).kind = kind
      /\ tts_queue \in Seq(ItemType)
  BY QueueTypes DEF Get
<1>2. /\ Len(tts_queue) \in Nat /\ 1 \in 1..Len(tts_queue)
      /\ tts_queue[1].kind = kind /\ tts_queue[1].task = h
      /\ \A i \in 1..Len(tts_queue') :
           /\ i \in Nat /\ ~(i + 1 < 1)
           /\ i + 1 \in 1..Len(tts_queue) /\ tts_queue'[i] = tts_queue[i + 1]
  BY <1>1, TailItem
<1>3. EndLast'
  <2> SUFFICES ASSUME NEW i \in 1..Len(tts_queue'), NEW j \in 1..Len(tts_queue'),
                      tts_queue'[i].kind = "turn_end", tts_queue'[i].task # 0,
                      tts_queue'[j].kind = "speech", tts_queue'[j].task = tts_queue'[i].task
               PROVE  j < i
    BY DEF EndLast
  <2>1. j + 1 < i + 1
    BY <1>2 DEF EndLast
  <2> QED
    BY <1>2, <2>1
<1>4. \A t \in Nat : (ItemOf(t)' => ItemOf(t)) /\ (WordsOf(t)' => WordsOf(t))
  BY <1>2 DEF ItemOf, WordsOf
<1>5. ItemOf(h) /\ (kind = "speech" => WordsOf(h))
  BY <1>2 DEF ItemOf, WordsOf
<1>6. ASSUME kind = "turn_end", h # 0, WordsOf(h)'
      PROVE  FALSE
  <2>1. PICK j \in 1..Len(tts_queue') : tts_queue'[j].kind = "speech" /\ tts_queue'[j].task = h
    BY <1>6 DEF WordsOf
  <2>2. j + 1 < 1
    BY <1>2, <1>6, <2>1 DEF EndLast
  <2> QED
    BY <1>2, <2>1, <2>2
<1> QED
  BY <1>3, <1>4, <1>5, <1>6

\* Words that are no answer, the end of the call, and an answer, of which nothing is
\* queued before.
LEMMA ItemAppended ==
  ASSUME DataOK, EndLast, NEW item \in ItemType, item.task = 0,
         tts_queue' \in {<<>>, tts_queue, Append(tts_queue, item)}
  PROVE  /\ EndLast'
         /\ \A t \in Nat \ {0} : (ItemOf(t)' => ItemOf(t)) /\ (WordsOf(t)' => WordsOf(t))
<1>1. /\ Len(tts_queue) \in Nat
      /\ \A i \in 1..Len(tts_queue') :
           \/ i \in 1..Len(tts_queue) /\ tts_queue'[i] = tts_queue[i]
           \/ i = Len(tts_queue) + 1 /\ tts_queue'[i].task = 0
  BY QueueTypes, AppendItem
<1>2. EndLast'
  BY <1>1 DEF EndLast
<1>3. \A t \in Nat \ {0} : (ItemOf(t)' => ItemOf(t)) /\ (WordsOf(t)' => WordsOf(t))
  BY <1>1 DEF ItemOf, WordsOf
<1> QED
  BY <1>2, <1>3

LEMMA AnswerAppended ==
  ASSUME DataOK, EndLast, NEW h \in Nat, h # 0 => ~ItemOf(h), tts_queue' = tts_queue \o Answer(h)
  PROVE  /\ EndLast'
         /\ \A t \in Nat \ {0} : (ItemOf(t)' => ItemOf(t) \/ t = h) /\ (WordsOf(t)' => WordsOf(t) \/ t = h)
<1>1. /\ Len(tts_queue) \in Nat
      /\ \A i \in 1..Len(tts_queue') :
           \/ i \in 1..Len(tts_queue) /\ tts_queue'[i] = tts_queue[i]
           \/ i = Len(tts_queue) + 1 /\ tts_queue'[i] = Item("speech", h)
           \/ i = Len(tts_queue) + 2 /\ tts_queue'[i] = Item("turn_end", h)
  BY QueueTypes, AppendTwo DEF Answer
<1>2. /\ Item("speech", h).task = h /\ Item("turn_end", h).task = h
      /\ Item("speech", h).kind = "speech" /\ Item("turn_end", h).kind = "turn_end"
  BY DEF Item
<1>3. EndLast'
  <2> SUFFICES ASSUME NEW i \in 1..Len(tts_queue'), NEW j \in 1..Len(tts_queue'),
                      tts_queue'[i].kind = "turn_end", tts_queue'[i].task # 0,
                      tts_queue'[j].kind = "speech", tts_queue'[j].task = tts_queue'[i].task
               PROVE  j < i
    BY DEF EndLast
  <2>1. CASE i \in 1..Len(tts_queue) /\ tts_queue'[i] = tts_queue[i]
    BY <1>1, <1>2, <2>1 DEF EndLast, ItemOf
  <2>2. CASE i = Len(tts_queue) + 2
    <3>1. j \in 1..Len(tts_queue) \/ j = Len(tts_queue) + 1
      BY <1>1, <1>2
    <3> QED
      BY <1>1, <2>2, <3>1
  <2>3. CASE i = Len(tts_queue) + 1 /\ tts_queue'[i] = Item("speech", h)
    BY <1>2, <2>3
  <2> QED
    BY <1>1, <2>1, <2>2, <2>3
<1>4. \A t \in Nat \ {0} : (ItemOf(t)' => ItemOf(t) \/ t = h) /\ (WordsOf(t)' => WordsOf(t) \/ t = h)
  BY <1>1, <1>2 DEF ItemOf, WordsOf
<1> QED
  BY <1>3, <1>4

\* A step after which less is owed, queued, reported and spoken of every task.
LEMMA AnswerLess ==
  ASSUME AnswerInv, OneFull', EndLast', asked' = asked, sonnet' \subseteq sonnet,
         \A t \in Nat : FullOf(t)' => FullOf(t),
         \A t \in Nat \ {0} : /\ DoneOf(t)' => DoneOf(t)
                              /\ ItemOf(t)' => ItemOf(t)
                              /\ WordsOf(t)' => WordsOf(t)
                              /\ SpeaksOf(t)' => SpeaksOf(t) \/ ~DoneOf(t)
  PROVE  AnswerInv'
<1>1. sonnet' \subseteq 1..asked'
  BY DEF AnswerInv
<1>2. \A t \in Nat : FullOf(t)' => t \in (1..asked') \ sonnet'
  BY DEF AnswerInv
<1>3. \A t \in Nat \ {0} : ItemOf(t)' \/ DoneOf(t)' => t <= asked'
  BY DEF AnswerInv
<1>4. \A t \in Nat \ {0} : t \in sonnet' \/ FullOf(t)' => ~ItemOf(t)' /\ ~DoneOf(t)'
  BY DEF AnswerInv
<1>5. \A t \in Nat \ {0} : DoneOf(t)' => ~WordsOf(t)' /\ ~SpeaksOf(t)'
  BY DEF AnswerInv
<1> QED
  BY <1>1, <1>2, <1>3, <1>4, <1>5 DEF AnswerInv

\* A step that leaves one of the queues as it is.
LEMMA EventsSame ==
  ASSUME UNCHANGED event_queue
  PROVE  /\ OneFull' <=> OneFull
         /\ \A t \in Nat : (FullOf(t)' <=> FullOf(t)) /\ (DoneOf(t)' <=> DoneOf(t))
  BY DEF OneFull, FullOf, DoneOf, IsFull, IsDone

LEMMA SpeechSame ==
  ASSUME UNCHANGED tts_queue
  PROVE  /\ EndLast' <=> EndLast
         /\ \A t \in Nat : (ItemOf(t)' <=> ItemOf(t)) /\ (WordsOf(t)' <=> WordsOf(t))
  BY DEF EndLast, ItemOf, WordsOf

\* A step that handles or pushes an event that belongs to no answer, and empties
\* tts_queue or adds something to it that belongs to none.
LEMMA NoAnswerStep ==
  ASSUME DataOK, AnswerInv, asked' = asked, sonnet' \subseteq sonnet,
         Synthesizing' => Synthesizing /\ speaking' = speaking,
         \/ \E type \in EventType : Take(type)
         \/ \E e \in QueuedEvent :
              /\ e.type \notin {"llm_full_ready", "tts_playback_done"}
              /\ event_queue' \in {event_queue, Append(event_queue, e)},
         \E item \in ItemType :
           item.task = 0 /\ tts_queue' \in {<<>>, tts_queue, Append(tts_queue, item)}
  PROVE  AnswerInv'
<1>1. OneFull /\ EndLast
  BY DEF AnswerInv
<1>2. OneFull' /\ \A t \in Nat : (FullOf(t)' => FullOf(t)) /\ (DoneOf(t)' => DoneOf(t))
  <2>1. CASE \E type \in EventType : Take(type)
    BY <1>1, <2>1, EventTaken
  <2>2. ASSUME NEW e \in QueuedEvent, e.type \notin {"llm_full_ready", "tts_playback_done"},
               event_queue' \in {event_queue, Append(event_queue, e)}
        PROVE  OneFull' /\ \A t \in Nat : (FullOf(t)' => FullOf(t)) /\ (DoneOf(t)' => DoneOf(t))
    BY <1>1, <2>2, EventPushed
  <2> QED
    BY <2>1, <2>2
<1>3. EndLast' /\ \A t \in Nat \ {0} : (ItemOf(t)' => ItemOf(t)) /\ (WordsOf(t)' => WordsOf(t))
  BY <1>1, ItemAppended
<1>4. \A t \in Nat : SpeaksOf(t)' => SpeaksOf(t)
  BY DEF SpeaksOf
<1> QED
  BY <1>2, <1>3, <1>4, AnswerLess

\* cancel_pipeline empties tts_queue or leaves it, and asks nobody.
LEMMA BargeInAnswers ==
  ASSUME NEW active, BargeIn(active) \/ DrainSpeech(active)
  PROVE  tts_queue' \in {<<>>, tts_queue}
  BY DEF BargeIn, DrainSpeech

\* The handlers of process_events.
LEMMA ProcessEventsAnswers ==
  ASSUME DataOK, AnswerInv, ProcessEvents
  PROVE  AnswerInv'
<1> USE DEF smVars, vadVars, llmVars, workerVars, browserVars, callVars, envVars
<1>q. /\ Speech \in ItemType /\ Speech.task = 0
      /\ \A type \in EventType : Signal(type) \in QueuedEvent /\ Signal(type).type = type
  BY QueueTypes DEF Speech, Item, Signal
<1>t. "tts_first_byte" \in EventType
  BY DEF EventType
<1>1. CASE OnVadSpeechStart \/ OnStartOfTurn
  <2>1. /\ \E type \in EventType : Take(type)
        /\ UNCHANGED <<asked, worker, speaking>>
        /\ sonnet' \subseteq sonnet
        /\ tts_queue' \in {<<>>, tts_queue}
    <3>1. \E type \in EventType : Take(type)
      BY <1>1 DEF OnVadSpeechStart, OnStartOfTurn, EventType
    <3>2. ASSUME NEW active, BargeIn(active)
          PROVE  asked' = asked /\ sonnet' \subseteq sonnet
      BY <3>2 DEF BargeIn
    <3> QED
      BY <1>1, <3>1, <3>2, BargeInAnswers DEF OnVadSpeechStart, OnStartOfTurn
  <2> QED
    BY <1>q, <2>1, NoAnswerStep DEF Synthesizing
<1>2. CASE OnVadSpeechEnd \/ OnTtsFirstByte \/ OnTtsPlaybackDone
  <2>1. /\ \E type \in EventType : Take(type)
        /\ UNCHANGED <<asked, sonnet, worker, speaking, tts_queue>>
    BY <1>2 DEF OnVadSpeechEnd, OnTtsFirstByte, OnTtsPlaybackDone, EventType
  <2> QED
    BY <1>q, <2>1, NoAnswerStep DEF Synthesizing
<1>3. CASE LlmTaskCancelled \/ SynthesisCancelled
  <2>1. /\ UNCHANGED <<asked, sonnet, worker, speaking, event_queue>>
        /\ tts_queue' \in {<<>>, tts_queue}
    BY <1>3, BargeInAnswers DEF LlmTaskCancelled, SynthesisCancelled
  <2> QED
    BY <1>q, <1>t, <2>1, NoAnswerStep DEF Synthesizing
<1>4. CASE OnLlmFillerReady
  <2>1. /\ \E type \in EventType : Take(type)
        /\ UNCHANGED <<asked, sonnet, worker, speaking>>
        /\ tts_queue' \in {tts_queue, Append(tts_queue, Speech)}
    BY <1>4 DEF OnLlmFillerReady, EventType
  <2> QED
    BY <1>q, <2>1, NoAnswerStep DEF Synthesizing
<1>5. CASE OnEndOfTurn
  <2>1. Take("end_of_turn") /\ UNCHANGED <<worker, speaking>>
    BY <1>5 DEF OnEndOfTurn
  <2>2. /\ OneFull /\ EndLast /\ OneFull'
        /\ \A t \in Nat : (FullOf(t)' => FullOf(t)) /\ (DoneOf(t)' => DoneOf(t))
    BY <2>1, EventTaken DEF AnswerInv
  <2>3. \A t \in Nat : SpeaksOf(t)' <=> SpeaksOf(t)
    BY <2>1 DEF SpeaksOf, Synthesizing
  <2>4. CASE Handoff
    <3>1. tts_queue' = tts_queue \o Answer(0) /\ UNCHANGED <<asked, sonnet>>
      BY <2>4 DEF Handoff
    <3>2. EndLast' /\ \A t \in Nat \ {0} : (ItemOf(t)' => ItemOf(t)) /\ (WordsOf(t)' => WordsOf(t))
      BY <2>2, <3>1, AnswerAppended
    <3> QED
      BY <2>2, <2>3, <3>1, <3>2, AnswerLess
  <2>5. CASE AskLlm
    <3>1. /\ asked' = asked + 1 /\ sonnet' = sonnet \cup {asked + 1} /\ UNCHANGED tts_queue
          /\ asked \in Nat
      BY <2>5 DEF AskLlm, DataOK
    <3>2. EndLast' /\ \A t \in Nat : (ItemOf(t)' <=> ItemOf(t)) /\ (WordsOf(t)' <=> WordsOf(t))
      BY <2>2, <3>1, SpeechSame
    <3>3. sonnet' \subseteq 1..asked'
      BY <3>1 DEF AnswerInv
    <3>4. \A t \in Nat : FullOf(t)' => t \in (1..asked') \ sonnet'
      BY <2>2, <3>1 DEF AnswerInv
    <3>5. \A t \in Nat \ {0} : ItemOf(t)' \/ DoneOf(t)' => t <= asked'
      BY <2>2, <3>1, <3>2 DEF AnswerInv
    <3>6. ASSUME NEW t \in Nat \ {0}, t \in sonnet' \/ FullOf(t)'
          PROVE  ~ItemOf(t)' /\ ~DoneOf(t)'
      <4>1. CASE t = asked + 1
        <5>1. ~(t <= asked)
          BY <3>1, <4>1
        <5> QED
          BY <2>2, <3>2, <5>1 DEF AnswerInv
      <4>2. CASE t # asked + 1
        <5>1. t \in sonnet \/ FullOf(t)
          BY <2>2, <3>1, <3>6, <4>2
        <5> QED
          BY <2>2, <3>2, <5>1 DEF AnswerInv
      <4> QED
        BY <4>1, <4>2
    <3>7. \A t \in Nat \ {0} : DoneOf(t)' => ~WordsOf(t)' /\ ~SpeaksOf(t)'
      BY <2>2, <2>3, <3>2 DEF AnswerInv
    <3> QED
      BY <2>2, <3>2, <3>3, <3>4, <3>5, <3>6, <3>7 DEF AnswerInv
  <2>6. CASE UNCHANGED <<tts_queue, llmVars>>
    <3>1. "end_of_turn" \in EventType
      BY DEF EventType
    <3> QED
      BY <1>q, <2>1, <2>6, <3>1, NoAnswerStep DEF Synthesizing
  <2> QED
    BY <1>5, <2>4, <2>5, <2>6 DEF OnEndOfTurn
\* The only answer of its task is queued: nothing of it was queued or reported before.
<1>6. CASE OnLlmFullReady
  <2>1. Take("llm_full_ready") /\ UNCHANGED <<asked, sonnet, worker, speaking>>
    BY <1>6 DEF OnLlmFullReady
  <2>2. CASE UNCHANGED tts_queue
    <3>1. "llm_full_ready" \in EventType
      BY DEF EventType
    <3> QED
      BY <1>q, <2>1, <2>2, <3>1, NoAnswerStep DEF Synthesizing
  <2>3. CASE tts_queue' = tts_queue \o Answer(Head(event_queue).task)
    <3>1. PICK h \in Nat : h = Head(event_queue).task
      BY <2>1, HeadTypes DEF Take
    <3>2. /\ OneFull /\ EndLast /\ OneFull'
          /\ \A t \in Nat : (FullOf(t)' => FullOf(t)) /\ (DoneOf(t)' => DoneOf(t))
          /\ FullOf(h) /\ ~FullOf(h)'
      BY <2>1, <3>1, EventTaken DEF AnswerInv
    <3>3. h \in (1..asked) \ sonnet /\ asked \in Nat
      BY <3>2 DEF AnswerInv, DataOK
    <3>4. h # 0 /\ h <= asked /\ h \notin sonnet
      BY <3>3
    <3>5. ~ItemOf(h) /\ ~DoneOf(h)
      BY <3>2, <3>4 DEF AnswerInv
    <3>6. /\ EndLast'
          /\ \A t \in Nat \ {0} : /\ ItemOf(t)' => ItemOf(t) \/ t = h
                                  /\ WordsOf(t)' => WordsOf(t) \/ t = h
      BY <2>3, <3>1, <3>2, <3>5, AnswerAppended
    <3>7. \A t \in Nat : SpeaksOf(t)' <=> SpeaksOf(t)
      BY <2>1 DEF SpeaksOf, Synthesizing
    <3>8. sonnet' \subseteq 1..asked' /\ \A t \in Nat : FullOf(t)' => t \in (1..asked') \ sonnet'
      BY <2>1, <3>2 DEF AnswerInv
    <3>9. \A t \in Nat \ {0} : ItemOf(t)' \/ DoneOf(t)' => t <= asked'
      BY <2>1, <3>2, <3>4, <3>6 DEF AnswerInv
    <3>10. \A t \in Nat \ {0} : t \in sonnet' \/ FullOf(t)' => ~ItemOf(t)' /\ ~DoneOf(t)'
      BY <2>1, <3>2, <3>4, <3>6 DEF AnswerInv
    <3>11. \A t \in Nat \ {0} : DoneOf(t)' => ~WordsOf(t)' /\ ~SpeaksOf(t)'
      BY <3>2, <3>5, <3>6, <3>7 DEF AnswerInv
    <3> QED
      BY <3>2, <3>6, <3>8, <3>9, <3>10, <3>11 DEF AnswerInv
  <2> QED
    BY <1>6, <2>2, <2>3 DEF OnLlmFullReady
<1> QED
  BY <1>1, <1>2, <1>3, <1>4, <1>5, <1>6 DEF ProcessEvents

\* The worker, which speaks the words of an answer before it reports its end.
LEMMA TtsWorkerAnswers ==
  ASSUME DataOK, AnswerInv, TtsWorker
  PROVE  AnswerInv'
<1> USE DEF smVars, vadVars, llmVars, workerVars, browserVars, callVars, envVars
<1>1. ASSUME NEW kind, Get(kind)
      PROVE  /\ Head(tts_queue).task \in Nat
             /\ UNCHANGED <<asked, sonnet>> /\ ~Synthesizing
      BY <1>1, HeadTypes DEF Get, Synthesizing
<1>2. OneFull /\ EndLast
  BY DEF AnswerInv
<1>3. CASE GetShutdown
  <2>1. Get("shutdown") /\ UNCHANGED event_queue /\ ~Synthesizing'
    BY <1>3 DEF GetShutdown, Synthesizing
  <2>2. PICK h \in Nat : h = Head(tts_queue).task
    BY <1>1, <2>1
  <2>3. EndLast' /\ \A t \in Nat : (ItemOf(t)' => ItemOf(t)) /\ (WordsOf(t)' => WordsOf(t))
    BY <1>2, <2>1, <2>2, SpeechTaken
  <2> QED
    BY <1>1, <1>2, <2>1, <2>3, EventsSame, AnswerLess DEF SpeaksOf
<1>4. CASE GetSpeech
  <2>1. Get("speech") /\ UNCHANGED event_queue /\ speaking' = Head(tts_queue)
    BY <1>4 DEF GetSpeech
  <2>2. PICK h \in Nat : h = Head(tts_queue).task
    BY <1>1, <2>1
  <2>3. /\ EndLast' /\ WordsOf(h)
        /\ \A t \in Nat : (ItemOf(t)' => ItemOf(t)) /\ (WordsOf(t)' => WordsOf(t))
    BY <1>2, <2>1, <2>2, SpeechTaken
  <2>4. \A t \in Nat \ {0} : SpeaksOf(t)' => ~DoneOf(t)
    BY <2>1, <2>2, <2>3 DEF AnswerInv, SpeaksOf
  <2> QED
    BY <1>1, <1>2, <2>1, <2>3, <2>4, EventsSame, AnswerLess
<1>5. CASE GetTurnEnd
  <2>1. Get("turn_end") /\ UNCHANGED <<worker, speaking>>
    BY <1>5 DEF GetTurnEnd
  <2>2. PICK h \in Nat : h = Head(tts_queue).task
    BY <1>1, <2>1
  <2>3. /\ EndLast' /\ ItemOf(h) /\ (h # 0 => ~WordsOf(h)')
        /\ \A t \in Nat : (ItemOf(t)' => ItemOf(t)) /\ (WordsOf(t)' => WordsOf(t))
    BY <1>2, <2>1, <2>2, SpeechTaken
  <2>4. PICK e \in QueuedEvent : /\ event_queue' = Append(event_queue, e)
                                 /\ e.type = "tts_playback_done" /\ e.task = h
    BY <1>5, <2>2, QueueTypes DEF GetTurnEnd, Push, Reply, EventType
  <2>5. /\ OneFull'
        /\ \A t \in Nat : (FullOf(t)' => FullOf(t)) /\ (DoneOf(t)' => DoneOf(t) \/ t = h)
    BY <1>2, <2>4, EventPushed
  <2>6. UNCHANGED <<asked, sonnet>> /\ \A t \in Nat : ~SpeaksOf(t)'
    BY <1>1, <2>1 DEF SpeaksOf, Synthesizing
  <2>7. sonnet' \subseteq 1..asked' /\ \A t \in Nat : FullOf(t)' => t \in (1..asked') \ sonnet'
    BY <2>5, <2>6 DEF AnswerInv
  <2>8. \A t \in Nat \ {0} : ItemOf(t)' \/ DoneOf(t)' => t <= asked'
    BY <2>3, <2>5, <2>6 DEF AnswerInv
  <2>9. \A t \in Nat \ {0} : t \in sonnet' \/ FullOf(t)' => ~ItemOf(t)' /\ ~DoneOf(t)'
    BY <2>3, <2>5, <2>6 DEF AnswerInv
  <2>10. \A t \in Nat \ {0} : DoneOf(t)' => ~WordsOf(t)' /\ ~SpeaksOf(t)'
    BY <2>3, <2>5, <2>6 DEF AnswerInv
  <2> QED
    BY <2>3, <2>5, <2>7, <2>8, <2>9, <2>10 DEF AnswerInv
<1>6. CASE FirstChunk \/ SynthesisEnds
  <2>1. /\ UNCHANGED <<asked, sonnet, tts_queue>>
        /\ Synthesizing' => Synthesizing /\ speaking' = speaking
        /\ event_queue' \in {event_queue, Append(event_queue, Signal("tts_first_byte"))}
    BY <1>6 DEF FirstChunk, SynthesisEnds, Synthesizing, Push
  <2>2. /\ Signal("tts_first_byte") \in QueuedEvent
        /\ Signal("tts_first_byte").type \notin {"llm_full_ready", "tts_playback_done"}
        /\ Speech \in ItemType /\ Speech.task = 0
    BY QueueTypes DEF EventType, Signal, Speech, Item
  <2> QED
    BY <2>1, <2>2, NoAnswerStep
<1> QED
  BY <1>3, <1>4, <1>5, <1>6 DEF TtsWorker

\* The LLM calls; each task answers once.
LEMMA LlmCallsAnswers ==
  ASSUME DataOK, AnswerInv, LlmCalls
  PROVE  AnswerInv'
<1> USE DEF smVars, vadVars, llmVars, workerVars, browserVars, callVars, envVars
<1>1. PICK t \in 1..MaxTurns : HaikuSettles(t) \/ SonnetSettles(t)
  BY DEF LlmCalls
<1>2. /\ t \in Nat \ {0}
      /\ Reply("llm_filler_ready", t) \in QueuedEvent /\ Reply("llm_full_ready", t) \in QueuedEvent
      /\ Reply("llm_filler_ready", t).type = "llm_filler_ready"
      /\ Reply("llm_full_ready", t).task = t
      /\ Speech \in ItemType /\ Speech.task = 0
  BY BoundsAssumption, QueueTypes DEF EventType, Reply, Speech, Item
<1>3. CASE HaikuSettles(t)
  <2>1. /\ UNCHANGED <<asked, sonnet, worker, speaking, tts_queue>>
        /\ event_queue' \in {event_queue, Append(event_queue, Reply("llm_filler_ready", t))}
    BY <1>3 DEF HaikuSettles, Push
  <2> QED
    BY <1>2, <2>1, NoAnswerStep DEF Synthesizing
<1>4. CASE SonnetSettles(t)
  <2>1. /\ t \in sonnet /\ sonnet' = sonnet \ {t}
        /\ UNCHANGED <<asked, worker, speaking, tts_queue>>
        /\ event_queue' \in {event_queue, Append(event_queue, Reply("llm_full_ready", t))}
    BY <1>4 DEF SonnetSettles, Push
  <2>2. OneFull /\ EndLast /\ t \in 1..asked /\ ~FullOf(t) /\ ~ItemOf(t) /\ ~DoneOf(t)
    BY <1>2, <2>1 DEF AnswerInv
  <2>3. /\ OneFull'
        /\ \A u \in Nat : (FullOf(u)' => FullOf(u) \/ u = t) /\ (DoneOf(u)' => DoneOf(u))
    <3>1. PICK e \in QueuedEvent : /\ event_queue' \in {event_queue, Append(event_queue, e)}
                                   /\ e.type = "llm_full_ready" /\ e.task = t
      BY <1>2, <2>1 DEF Reply
    <3> QED
      BY <2>2, <3>1, EventPushed
  <2>4. EndLast' /\ \A u \in Nat : (ItemOf(u)' <=> ItemOf(u)) /\ (WordsOf(u)' <=> WordsOf(u))
    BY <2>1, <2>2, SpeechSame
  <2>5. \A u \in Nat : SpeaksOf(u)' <=> SpeaksOf(u)
    BY <2>1 DEF SpeaksOf, Synthesizing
  <2>6. sonnet' \subseteq 1..asked' /\ \A u \in Nat : FullOf(u)' => u \in (1..asked') \ sonnet'
    BY <2>1, <2>2, <2>3 DEF AnswerInv
  <2>7. \A u \in Nat \ {0} : ItemOf(u)' \/ DoneOf(u)' => u <= asked'
    BY <2>1, <2>3, <2>4 DEF AnswerInv
  <2>8. \A u \in Nat \ {0} : u \in sonnet' \/ FullOf(u)' => ~ItemOf(u)' /\ ~DoneOf(u)'
    BY <2>1, <2>2, <2>3, <2>4 DEF AnswerInv
  <2>9. \A u \in Nat \ {0} : DoneOf(u)' => ~WordsOf(u)' /\ ~SpeaksOf(u)'
    BY <2>3, <2>4, <2>5 DEF AnswerInv
  <2> QED
    BY <2>3, <2>4, <2>6, <2>7, <2>8, <2>9 DEF AnswerInv
<1> QED
  BY <1>1, <1>3, <1>4

\* The worker reports that an answer has been spoken only when nothing of it is queued or
\* being spoken any more, through barge-ins, overlapping questions and the end of the call.
THEOREM AnswersEndAfterTheirWords == Spec => []EndFollowsItsWords
<1>1. Init => AnswerInv
  BY DEF Init, AnswerInv, OneFull, EndLast, FullOf, DoneOf, ItemOf, WordsOf, SpeaksOf
<1>2. DataOK /\ AnswerInv /\ [Next]_vars => AnswerInv'
  <2> SUFFICES ASSUME DataOK, AnswerInv, [Next]_vars
               PROVE  AnswerInv'
    OBVIOUS
  <2> USE DEF smVars, vadVars, llmVars, workerVars, browserVars, callVars, envVars
  <2>q. /\ Speech \in ItemType /\ Speech.task = 0
        /\ Item("shutdown", 0) \in ItemType /\ Item("shutdown", 0).task = 0
        /\ \A type \in EventType : Signal(type) \in QueuedEvent /\ Signal(type).type = type
        /\ {"vad_speech_start", "vad_speech_end", "start_of_turn", "end_of_turn"} \subseteq EventType
    BY QueueTypes DEF Speech, Item, Signal, EventType
  <2>1. CASE SilencePolicy \/ EndOfCall
    <3>1. /\ UNCHANGED <<asked, sonnet, event_queue>>
          /\ Synthesizing' => Synthesizing /\ speaking' = speaking
          /\ tts_queue' \in {tts_queue, Append(tts_queue, Speech),
                            Append(tts_queue, Item("shutdown", 0))}
      BY <2>1 DEF SilencePolicy, Prompt, NoPrompt, HangUp, EndOfCall, MainLoopEnds,
                  WorkerTimeout, StopEventTask, CleanUp, Synthesizing
    <3> QED
      BY <2>q, <3>1, NoAnswerStep
  <2>2. CASE Environment
    <3>1. /\ UNCHANGED <<asked, sonnet, worker, speaking, tts_queue>>
          /\ \E type \in {"vad_speech_start", "vad_speech_end", "start_of_turn", "end_of_turn"} :
               event_queue' \in {event_queue, Append(event_queue, Signal(type))}
      BY <2>2 DEF Environment, VadSpeechStarts, VadSpeechEnds, DeepgramStartOfTurn,
                  DeepgramEndOfTurn, UserEvent, GraceEnds, Disconnect, Push
    <3>2. \E e \in QueuedEvent : /\ e.type \notin {"llm_full_ready", "tts_playback_done"}
                                 /\ event_queue' \in {event_queue, Append(event_queue, e)}
      BY <2>q, <3>1
    <3> QED
      BY <2>q, <3>1, <3>2, NoAnswerStep DEF Synthesizing
  <2>3. CASE UNCHANGED vars
    BY <2>3 DEF vars, AnswerInv, OneFull, EndLast, FullOf, DoneOf, ItemOf, WordsOf, SpeaksOf,
                IsFull, IsDone, Synthesizing
  <2> QED
    BY <2>1, <2>2, <2>3, ProcessEventsAnswers, TtsWorkerAnswers, LlmCallsAnswers DEF Next
<1>3. DataOK /\ AnswerInv => EndFollowsItsWords
  <2> SUFFICES ASSUME DataOK, AnswerInv, NEW i \in 1..Len(event_queue),
                      IsDone(i), event_queue[i].task # 0
               PROVE  ~WordsOf(event_queue[i].task) /\ ~SpeaksOf(event_queue[i].task)
    BY DEF EndFollowsItsWords, IsDone, WordsOf, SpeaksOf
  <2>1. event_queue[i].task \in Nat \ {0}
    <3>1. event_queue[i] \in QueuedEvent
      BY QueueTypes
    <3> QED
      BY <3>1 DEF QueuedEvent
  <2>2. DoneOf(event_queue[i].task)
    BY DEF DoneOf
  <2> QED
    BY <2>1, <2>2 DEF AnswerInv
<1>4. TypeOK => DataOK
  BY DEF TypeOK
<1>5. QED
  BY <1>1, <1>2, <1>3, <1>4, TypeCorrect, PTL DEF Spec
=============================================================================

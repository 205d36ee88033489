-------------------------- MODULE TwilioCallProofs --------------------------
(***************************************************************************)
(* Proofs about TwilioCall, for every number of turns, words of the set-up *)
(* and events that wait.                                                   *)
(***************************************************************************)
EXTENDS TwilioCall, TLAPS, FiniteSetTheorems, FunctionTheorems

Owners      == {"call", "setup", "reply"}
QueuedEvent == [type : EventType, task : Nat, own : Owners]
SpokenItem  == [kind : {"speech", "turn_end", "shutdown"}, cut : Nat, own : Owners]

\* What moves the two queues, and where cancel_pipeline and the worker are.
QueuesOK ==
  /\ StateTypeOK
  /\ event_queue \in Seq(QueuedEvent) /\ tts_queue \in Seq(SpokenItem)
  /\ pc \in {"ready", "await_llm", "await_tts", "stopped"}
  /\ llm_task \in Nat /\ asked \in Nat /\ extra \in Nat
  /\ haiku \subseteq Nat /\ sonnet \subseteq Nat
  /\ worker \in {"idle", "requested", "streaming", "stopped", "dead"}
  /\ IF Synthesizing THEN speaking \in SpokenItem ELSE speaking = Nothing
  /\ setup \in 0..MaxWords
  /\ loop \in {"reading", "draining", "joining", "closed", "aborted"}
  /\ cut \in Nat /\ turn_index \in Nat

FlagsOK ==
  /\ llm_cancelled \in BOOLEAN /\ first_byte_of_turn \in BOOLEAN /\ tts_cancel_event \in BOOLEAN
  /\ socket \in BOOLEAN /\ dg_in_turn \in BOOLEAN
  /\ stream_sid \in BOOLEAN

-----------------------------------------------------------------------------
\* What handle does, event by event, read off the transition table.
LEMMA HandleCases ==
  ASSUME NEW event, Handle(event), StateTypeOK
  PROVE  /\ StateTypeOK'
         /\ event = "START_OF_TURN" /\ current_state \notin Replying =>
              current_state' = "USER_SPEAKING"
         /\ event = "END_OF_TURN" => \/ current_state = "USER_SPEAKING"
                                     \/ current_state \in Replying
         /\ event = "END_OF_TURN" /\ current_state = "USER_SPEAKING" =>
              current_state' = "PROCESSING"
         /\ event = "LLM_FILLER_READY" =>
              current_state = "PROCESSING" /\ current_state' = "FILLER_RESPONSE"
         /\ event = "LLM_FULL_READY" => current_state' = "BOT_SPEAKING"
         /\ event = "LLM_FULL_READY" => current_state \in {"PROCESSING", "FILLER_RESPONSE"}
         /\ event = "TTS_AUDIO_READY" => current_state' = current_state
         /\ event = "TTS_PLAYBACK_DONE" =>
              \/ current_state = "FILLER_RESPONSE" /\ current_state' = "FILLER_RESPONSE"
              \/ current_state = "BOT_SPEAKING" /\ current_state' = "IDLE"
         /\ current_state' = "BOT_SPEAKING" =>
              current_state = "BOT_SPEAKING" \/ event = "LLM_FULL_READY"
         /\ event \in {"END_OF_TURN", "LLM_FULL_READY"} => current_state # "BARGE_IN_DETECTED"
<1>1. PICK to \in State : /\ <<current_state, event, to>> \in transitions
                          /\ current_state' = to
                          /\ turn_id' = IF to = "PROCESSING" THEN turn_id + 1 ELSE turn_id
  BY DEF Handle
<1>2. StateTypeOK'
  BY <1>1 DEF StateTypeOK
<1>3. \/ <<current_state, event, to>> \in
            { <<"IDLE",              "START_OF_TURN",     "USER_SPEAKING">>,
              <<"USER_SPEAKING",     "END_OF_TURN",       "PROCESSING">>,
              <<"PROCESSING",        "LLM_FILLER_READY",  "FILLER_RESPONSE">>,
              <<"PROCESSING",        "LLM_FULL_READY",    "BOT_SPEAKING">>,
              <<"FILLER_RESPONSE",   "LLM_FULL_READY",    "BOT_SPEAKING">>,
              <<"FILLER_RESPONSE",   "TTS_PLAYBACK_DONE", "FILLER_RESPONSE">>,
              <<"BOT_SPEAKING",      "TTS_PLAYBACK_DONE", "IDLE">>,
              <<"BARGE_IN_DETECTED", "START_OF_TURN",     "USER_SPEAKING">>,
              <<"BARGE_IN_DETECTED", "SILENCE_TIMEOUT",   "IDLE">>,
              <<"USER_SPEAKING",     "SILENCE_TIMEOUT",   "IDLE">> }
      \/ event = "BARGE_IN_DETECTED" /\ to = "BARGE_IN_DETECTED"
      \/ /\ to = current_state /\ current_state \in Replying
         /\ event \in {"START_OF_TURN", "END_OF_TURN", "TTS_AUDIO_READY"}
  BY <1>1 DEF transitions
<1> QED
  BY <1>1, <1>2, <1>3 DEF Replying

LEMMA TryHandleType ==
  ASSUME NEW event, TryHandle(event), StateTypeOK
  PROVE  StateTypeOK'
BY HandleCases DEF TryHandle, smVars, StateTypeOK

\* What a state accepts is handled.
LEMMA Accepted ==
  /\ current_state = "BOT_SPEAKING" => Accepts("TTS_PLAYBACK_DONE")
  /\ current_state \in {"PROCESSING", "FILLER_RESPONSE"} => Accepts("LLM_FULL_READY")
  /\ current_state \in {"IDLE", "BARGE_IN_DETECTED"} => Accepts("START_OF_TURN")
<1>1. /\ <<"BOT_SPEAKING", "TTS_PLAYBACK_DONE", "IDLE">> \in transitions
      /\ <<"PROCESSING", "LLM_FULL_READY", "BOT_SPEAKING">> \in transitions
      /\ <<"FILLER_RESPONSE", "LLM_FULL_READY", "BOT_SPEAKING">> \in transitions
      /\ <<"IDLE", "START_OF_TURN", "USER_SPEAKING">> \in transitions
      /\ <<"BARGE_IN_DETECTED", "START_OF_TURN", "USER_SPEAKING">> \in transitions
  BY DEF transitions
<1>2. {"IDLE", "BOT_SPEAKING", "USER_SPEAKING"} \subseteq State
  BY DEF State
<1> HIDE DEF transitions, State
<1> QED
  BY <1>1, <1>2 DEF Accepts

-----------------------------------------------------------------------------
\* Queues.

LEMMA TailItem ==
  ASSUME NEW S, NEW q \in Seq(S), q # <<>>
  PROVE  /\ Head(q) \in S
         /\ Tail(q) \in Seq(S)
         /\ Len(q) \in Nat /\ Len(Tail(q)) = Len(q) - 1
         /\ \A i \in 1..Len(Tail(q)) : i + 1 \in 2..Len(q) /\ Tail(q)[i] = q[i + 1]
         /\ \A i \in 1..Len(q) : \/ i = 1
                                 \/ i - 1 \in 1..Len(Tail(q)) /\ Tail(q)[i - 1] = q[i]
         /\ 1 \in 1..Len(q) /\ Head(q) = q[1]
OBVIOUS

LEMMA AppendItem ==
  ASSUME NEW S, NEW q \in Seq(S), NEW e \in S
  PROVE  /\ Append(q, e) \in Seq(S)
         /\ Len(q) \in Nat /\ Len(Append(q, e)) = Len(q) + 1
         /\ \A i \in 1..Len(q) : i \in 1..Len(Append(q, e)) /\ Append(q, e)[i] = q[i]
         /\ Append(q, e)[Len(q) + 1] = e
         /\ Len(q) + 1 \in 1..Len(Append(q, e))
         /\ \A i \in 1..Len(Append(q, e)) : i \in 1..Len(q) \/ i = Len(q) + 1
OBVIOUS

LEMMA AppendTwo ==
  ASSUME NEW S, NEW q \in Seq(S), NEW d \in S, NEW e \in S
  PROVE  /\ q \o <<d, e>> \in Seq(S)
         /\ Len(q) \in Nat /\ Len(q \o <<d, e>>) = Len(q) + 2
         /\ \A i \in 1..Len(q) : i \in 1..Len(q \o <<d, e>>) /\ (q \o <<d, e>>)[i] = q[i]
         /\ (q \o <<d, e>>)[Len(q) + 1] = d
         /\ (q \o <<d, e>>)[Len(q) + 2] = e
         /\ Len(q) + 2 \in 1..Len(q \o <<d, e>>)
         /\ \A i \in 1..Len(q \o <<d, e>>) : \/ i \in 1..Len(q)
                                             \/ i = Len(q) + 1 \/ i = Len(q) + 2
OBVIOUS

LEMMA QueueItems ==
  ASSUME QueuesOK
  PROVE  /\ \A kind \in {"speech", "turn_end", "shutdown"}, own \in Owners :
              /\ Item(kind, own) \in SpokenItem
              /\ Item(kind, own).cut = cut /\ Item(kind, own).kind = kind
              /\ Item(kind, own).own = own
         /\ \A type \in EventType : Signal(type) \in QueuedEvent /\ Signal(type).type = type
         /\ \A type \in EventType, t \in Nat :
              /\ Reply(type, t) \in QueuedEvent /\ Reply(type, t).type = type
              /\ Reply(type, t).task = t
BY DEF QueuesOK, Item, SpokenItem, Signal, Reply, QueuedEvent, Owners

\* What one step does to the words in tts_queue: it keeps them, empties the queue,
\* takes the first or adds one or two of now.
TtsMoves(S) ==
  \/ tts_queue' \in {tts_queue, <<>>}
  \/ tts_queue # <<>> /\ tts_queue' = Tail(tts_queue)
  \/ \E d \in S : tts_queue' = Append(tts_queue, d)
  \/ \E d, e \in S : tts_queue' = tts_queue \o <<d, e>>

LEMMA TtsMovesType ==
  ASSUME QueuesOK, TtsMoves(SpokenItem)
  PROVE  tts_queue' \in Seq(SpokenItem)
<1>1. tts_queue \in Seq(SpokenItem)
  BY DEF QueuesOK
<1>2. CASE tts_queue' \in {tts_queue, <<>>}
  <2>1. <<>> \in Seq(SpokenItem)
    OBVIOUS
  <2> QED
    BY <1>1, <1>2, <2>1
<1>3. CASE tts_queue # <<>> /\ tts_queue' = Tail(tts_queue)
  BY <1>1, <1>3, TailItem
<1>4. ASSUME NEW d \in SpokenItem, tts_queue' = Append(tts_queue, d)
      PROVE  tts_queue' \in Seq(SpokenItem)
  BY <1>1, <1>4, AppendItem
<1>5. ASSUME NEW d \in SpokenItem, NEW e \in SpokenItem, tts_queue' = tts_queue \o <<d, e>>
      PROVE  tts_queue' \in Seq(SpokenItem)
  <2>1. tts_queue \o <<d, e>> \in Seq(SpokenItem)
    BY <1>1, AppendTwo
  <2> QED
    BY <1>5, <2>1
<1> QED
  BY <1>2, <1>3, <1>4, <1>5 DEF TtsMoves

LEMMA TakeType ==
  ASSUME QueuesOK, NEW type, Take(type)
  PROVE  /\ event_queue' \in Seq(QueuedEvent) /\ pc = "ready"
         /\ event_queue # <<>> /\ event_queue' = Tail(event_queue)
         /\ event_queue[1].type = type /\ 1 \in 1..Len(event_queue)
<1>1. event_queue \in Seq(QueuedEvent)
  BY DEF QueuesOK
<1> QED
  BY <1>1, TailItem DEF Take

\* The answers that wait are as many at most as the events.
LEMMA RepliesFinite ==
  ASSUME QueuesOK
  PROVE  IsFiniteSet(RepliesWaiting) /\ Cardinality(RepliesWaiting) \in Nat
<1> DEFINE J == {j \in 1..Len(event_queue) : event_queue[j].type = "llm_full_ready"}
           f == [i \in J |-> event_queue[i].task]
<1>1. IsFiniteSet(J)
  <2>1. Len(event_queue) \in Nat
    BY DEF QueuesOK
  <2>2. IsFiniteSet(1..Len(event_queue))
    BY <2>1, FS_Interval
  <2> QED
    BY <2>2, FS_Subset
<1>2. f \in [J -> RepliesWaiting] /\ \A t \in RepliesWaiting : \E i \in J : f[i] = t
  BY DEF RepliesWaiting
<1>3. f \in Surjection(J, RepliesWaiting)
  BY <1>2, Fun_IsSurj
<1>4. IsFiniteSet(RepliesWaiting)
  BY <1>1, <1>3, FS_Surjection
<1> QED
  BY <1>4, FS_CardinalityType

-----------------------------------------------------------------------------
\* cancel_pipeline.

LEMMA SendClearCases ==
  ASSUME QueuesOK, SendClear
  PROVE  /\ pc' = "ready" /\ cut' \in Nat
         /\ current_state' \in {"USER_SPEAKING", "BARGE_IN_DETECTED"}
BY DEF QueuesOK, SendClear

LEMMA DrainSpeechCases ==
  ASSUME QueuesOK, DrainSpeech
  PROVE  /\ tts_queue' = <<>> /\ tts_cancel_event' = TRUE /\ cut' \in Nat
         /\ current_state' \in {"USER_SPEAKING", "BARGE_IN_DETECTED"}
         /\ \/ Synthesizing /\ pc' = "await_tts" /\ cut' = cut
               /\ current_state' = "BARGE_IN_DETECTED"
            \/ ~Synthesizing /\ pc' = "ready"
BY SendClearCases DEF QueuesOK, DrainSpeech

LEMMA BargeInCases ==
  ASSUME QueuesOK, BargeIn
  PROVE  /\ llm_cancelled' = TRUE /\ turn_id' = turn_id /\ llm_task' = llm_task /\ asked' = asked
         /\ extra' = extra
         /\ current_state' \in {"USER_SPEAKING", "BARGE_IN_DETECTED"}
         /\ \/ /\ LlmTaskRunning /\ haiku' = haiku \ {llm_task} /\ sonnet' = sonnet \ {llm_task}
               /\ pc' = "await_llm" /\ current_state' = "BARGE_IN_DETECTED"
               /\ UNCHANGED <<tts_queue, tts_cancel_event, cut>>
            \/ ~LlmTaskRunning /\ haiku' = haiku /\ sonnet' = sonnet /\ DrainSpeech
BY DrainSpeechCases DEF BargeIn

-----------------------------------------------------------------------------
\* Types, the Boolean variables first: no step gives one another value.

LEMMA FlagsStep ==
  ASSUME FlagsOK, [Next]_vars
  PROVE  FlagsOK'
<1> USE DEF FlagsOK, vars, smVars, llmVars, workerVars, setupVars, callVars, dgVars
<1>1. ASSUME DrainSpeech
      PROVE  tts_cancel_event' \in BOOLEAN
  BY <1>1, Zenon DEF DrainSpeech
<1>2. ASSUME BargeIn
      PROVE  tts_cancel_event' \in BOOLEAN /\ llm_cancelled' \in BOOLEAN
  BY <1>1, <1>2, Zenon DEF BargeIn
<1>3. CASE OnStartOfTurn
  BY <1>2, <1>3, Zenon DEF OnStartOfTurn
<1>4. CASE OnEndOfTurn
  BY <1>4, Zenon DEF OnEndOfTurn
<1>5. CASE OnLlmFillerReady \/ OnLlmFullReady \/ OnTtsFirstByte
  BY <1>5, Zenon DEF OnLlmFillerReady, OnLlmFullReady, OnTtsFirstByte
<1>6. CASE OnTtsPlaybackDone
  BY <1>6, Zenon DEF OnTtsPlaybackDone
<1>7. CASE LlmTaskCancelled
  BY <1>1, <1>7, Zenon DEF LlmTaskCancelled
<1>8. CASE SynthesisCancelled
  BY <1>8, Zenon DEF SynthesisCancelled
<1>9. CASE GetShutdown \/ GetTurnEnd \/ GetSpeech
  BY <1>9, Zenon DEF GetShutdown, GetTurnEnd, GetSpeech, Get
<1>10. CASE FirstChunk
  BY <1>10, Zenon DEF FirstChunk
<1>11. CASE SynthesisEnds
  BY <1>11, Zenon DEF SynthesisEnds
<1>12. CASE LlmCalls
  BY <1>12, Zenon DEF LlmCalls, HaikuSettles, SonnetSettles
<1>13. CASE StreamStarts \/ SetupSpeaks
  BY <1>13, Zenon DEF StreamStarts, SetupSpeaks
<1>14. CASE SocketLost
  BY <1>14, Zenon DEF SocketLost
<1>15. CASE LoopEnds \/ WorkerTimeout \/ WorkerFailed \/ CancelIsLost
  BY <1>15, Zenon DEF LoopEnds, WorkerTimeout, WorkerFailed, CancelIsLost
<1>16. CASE CleanUp
  BY <1>16, Zenon DEF CleanUp
<1>17. CASE DeepgramStartOfTurn \/ DeepgramEndOfTurn
  BY <1>17, Zenon DEF DeepgramStartOfTurn, DeepgramEndOfTurn, TurnSignal
<1>18. CASE UNCHANGED vars
  BY <1>18, Zenon
<1> QED
  BY <1>3, <1>4, <1>5, <1>6, <1>7, <1>8, <1>9, <1>10, <1>11, <1>12, <1>13, <1>14, <1>15, <1>16,
     <1>17, <1>18 DEF Next, ProcessEvents, TtsWorker, EndOfCall

LEMMA ProcessEventsType ==
  ASSUME QueuesOK, ProcessEvents
  PROVE  QueuesOK'
<1> USE DEF llmVars, workerVars, setupVars, callVars, dgVars, smVars, Synthesizing
<1>q. /\ Item("speech", "reply") \in SpokenItem /\ Item("turn_end", "reply") \in SpokenItem
      /\ StateTypeOK
  BY QueueItems DEF Owners, QueuesOK
<1>1. CASE OnStartOfTurn
  <2>1. event_queue' \in Seq(QueuedEvent)
    BY <1>1, TakeType DEF OnStartOfTurn
  <2>2. CASE BargeIn
    <3>1. /\ tts_queue' \in Seq(SpokenItem) /\ StateTypeOK' /\ cut' \in Nat
          /\ pc' \in {"ready", "await_llm", "await_tts"}
          /\ haiku' \subseteq Nat /\ sonnet' \subseteq Nat
      BY <2>2, BargeInCases, DrainSpeechCases, TtsMovesType
         DEF QueuesOK, StateTypeOK, State, TtsMoves
    <3> QED
      BY <1>1, <2>1, <2>2, <3>1, BargeInCases DEF OnStartOfTurn, QueuesOK
  <2>3. CASE TryHandle("START_OF_TURN") /\ UNCHANGED <<tts_queue, pc, llmVars, cut>>
    BY <1>1, <2>1, <2>3, <1>q, TryHandleType DEF OnStartOfTurn, QueuesOK
  <2> QED
    BY <1>1, <2>2, <2>3 DEF OnStartOfTurn
<1>2. CASE OnEndOfTurn
  <2>1. event_queue' \in Seq(QueuedEvent) /\ StateTypeOK'
    BY <1>2, <1>q, TakeType, TryHandleType DEF OnEndOfTurn
  <2>2. /\ llm_task' \in Nat /\ asked' \in Nat /\ extra' \in Nat
        /\ haiku' \subseteq Nat /\ sonnet' \subseteq Nat
    <3>1. \/ UNCHANGED <<llm_task, asked, haiku, sonnet, extra>>
          \/ /\ asked' = asked + 1 /\ llm_task' = asked + 1
             /\ haiku' = haiku \cup {asked + 1} /\ sonnet' = sonnet \cup {asked + 1}
             /\ extra' \in Nat
      <4>1. extra \in Nat /\ Cardinality(RepliesWaiting) \in Nat
        BY RepliesFinite DEF QueuesOK
      <4>2. extra + (IF llm_cancelled THEN Cardinality(RepliesWaiting) ELSE 0) \in Nat
        BY <4>1
      <4> QED
        BY <1>2, <4>2, Zenon DEF OnEndOfTurn
    <3>2. /\ llm_task \in Nat /\ asked \in Nat /\ asked + 1 \in Nat /\ extra \in Nat
          /\ haiku \subseteq Nat /\ sonnet \subseteq Nat
      BY DEF QueuesOK
    <3>3. CASE UNCHANGED <<llm_task, asked, haiku, sonnet, extra>>
      BY <3>2, <3>3
    <3> QED
      BY <3>1, <3>2, <3>3
  <2> QED
    BY <1>2, <2>1, <2>2 DEF OnEndOfTurn, QueuesOK
<1>3. CASE OnLlmFillerReady
  <2>1. event_queue' \in Seq(QueuedEvent) /\ StateTypeOK'
    BY <1>3, <1>q, TakeType, HandleCases DEF OnLlmFillerReady, StateTypeOK
  <2>2. tts_queue' \in Seq(SpokenItem)
    BY <1>3, <1>q, TtsMovesType DEF OnLlmFillerReady, TtsMoves
  <2> QED
    BY <1>3, <2>1, <2>2 DEF OnLlmFillerReady, QueuesOK
<1>4. CASE OnLlmFullReady
  <2>1. event_queue' \in Seq(QueuedEvent) /\ StateTypeOK'
    BY <1>4, <1>q, TakeType, TryHandleType DEF OnLlmFullReady, StateTypeOK
  <2>2. tts_queue' \in Seq(SpokenItem)
    BY <1>4, <1>q, TtsMovesType DEF OnLlmFullReady, TtsMoves
  <2> QED
    BY <1>4, <2>1, <2>2 DEF OnLlmFullReady, QueuesOK
<1>5. CASE OnTtsFirstByte \/ OnTtsPlaybackDone
  <2>1. event_queue' \in Seq(QueuedEvent) /\ StateTypeOK'
    BY <1>5, <1>q, TakeType, TryHandleType DEF OnTtsFirstByte, OnTtsPlaybackDone
  <2> QED
    BY <1>5, <2>1 DEF OnTtsFirstByte, OnTtsPlaybackDone, QueuesOK
<1>6. CASE LlmTaskCancelled
  <2>1. /\ tts_queue' \in Seq(SpokenItem) /\ StateTypeOK' /\ cut' \in Nat
        /\ pc' \in {"ready", "await_tts"}
    BY <1>6, DrainSpeechCases, TtsMovesType
       DEF LlmTaskCancelled, QueuesOK, StateTypeOK, State, TtsMoves
  <2> QED
    BY <1>6, <2>1 DEF LlmTaskCancelled, QueuesOK
<1>7. CASE SynthesisCancelled
  <2>1. StateTypeOK' /\ cut' \in Nat /\ pc' = "ready"
    BY <1>7, SendClearCases DEF SynthesisCancelled, QueuesOK, StateTypeOK, State
  <2> QED
    BY <1>7, <2>1 DEF SynthesisCancelled, QueuesOK
<1> QED
  BY <1>1, <1>2, <1>3, <1>4, <1>5, <1>6, <1>7 DEF ProcessEvents

\* The worker takes the head of its queue.
LEMMA GetCases ==
  ASSUME QueuesOK, NEW kind, Get(kind)
  PROVE  /\ tts_queue' \in Seq(SpokenItem) /\ tts_queue # <<>> /\ tts_queue' = Tail(tts_queue)
         /\ Head(tts_queue) \in SpokenItem /\ Head(tts_queue) = tts_queue[1]
         /\ Head(tts_queue).kind = kind /\ 1 \in 1..Len(tts_queue)
<1>1. tts_queue \in Seq(SpokenItem)
  BY DEF QueuesOK
<1> QED
  BY <1>1, TailItem DEF Get

\* An event is appended.
LEMMA PushType ==
  ASSUME QueuesOK, NEW e \in QueuedEvent, Push(e)
  PROVE  /\ event_queue' \in Seq(QueuedEvent) /\ event_queue' = Append(event_queue, e)
         /\ Len(event_queue) + 1 \in 1..Len(event_queue')
         /\ event_queue'[Len(event_queue) + 1] = e
<1>1. event_queue \in Seq(QueuedEvent)
  BY DEF QueuesOK
<1> QED
  BY <1>1, AppendItem DEF Push

LEMMA DoneEvent ==
  ASSUME QueuesOK, NEW kind, Get(kind)
  PROVE  /\ [type |-> "tts_playback_done", task |-> 0, own |-> Head(tts_queue).own] \in QueuedEvent
BY GetCases DEF QueuedEvent, SpokenItem, EventType

LEMMA TtsWorkerType ==
  ASSUME QueuesOK, TtsWorker
  PROVE  QueuesOK'
<1> USE DEF llmVars, workerVars, setupVars, callVars, dgVars, smVars, Synthesizing
<1>1. CASE GetShutdown
  <2>1. tts_queue' \in Seq(SpokenItem)
    BY <1>1, GetCases DEF GetShutdown
  <2> QED
    BY <1>1, <2>1 DEF GetShutdown, Get, QueuesOK, StateTypeOK
<1>2. CASE GetTurnEnd
  <2>1. tts_queue' \in Seq(SpokenItem) /\ event_queue' \in Seq(QueuedEvent)
    BY <1>2, GetCases, DoneEvent, PushType DEF GetTurnEnd
  <2> QED
    BY <1>2, <2>1 DEF GetTurnEnd, Get, QueuesOK, StateTypeOK
<1>3. CASE GetSpeech
  <2>1. tts_queue' \in Seq(SpokenItem) /\ Head(tts_queue) \in SpokenItem
    BY <1>3, GetCases DEF GetSpeech
  <2> QED
    BY <1>3, <2>1 DEF GetSpeech, Get, QueuesOK, StateTypeOK
<1>4. CASE FirstChunk
  <2>1. event_queue' \in Seq(QueuedEvent)
    BY <1>4, QueueItems, PushType DEF FirstChunk, EventType, QueuesOK
  <2> QED
    BY <1>4, <2>1 DEF FirstChunk, QueuesOK, StateTypeOK
<1>5. CASE SynthesisEnds
  BY <1>5 DEF SynthesisEnds, QueuesOK, StateTypeOK
<1> QED
  BY <1>1, <1>2, <1>3, <1>4, <1>5 DEF TtsWorker

LEMMA OthersType ==
  ASSUME QueuesOK, \/ LlmCalls \/ StreamStarts \/ SetupSpeaks \/ SocketLost \/ EndOfCall
                   \/ DeepgramStartOfTurn \/ DeepgramEndOfTurn
  PROVE  QueuesOK'
<1> USE DEF llmVars, workerVars, setupVars, callVars, dgVars, smVars, Synthesizing
<1>1. ASSUME NEW t \in 1..MaxTurns, HaikuSettles(t) \/ SonnetSettles(t)
      PROVE  QueuesOK'
  <2>1. t \in Nat
    BY BoundsAssumption DEF BoundsAssumption
  <2>2. event_queue' \in Seq(QueuedEvent)
    BY <1>1, <2>1, QueueItems, PushType
       DEF HaikuSettles, SonnetSettles, EventType, QueuesOK
  <2>3. haiku' \subseteq Nat /\ sonnet' \subseteq Nat
    BY <1>1 DEF HaikuSettles, SonnetSettles, QueuesOK
  <2> QED
    BY <1>1, <2>2, <2>3 DEF HaikuSettles, SonnetSettles, QueuesOK, StateTypeOK
<1>q. /\ Item("speech", "setup") \in SpokenItem /\ Item("turn_end", "setup") \in SpokenItem
      /\ Item("shutdown", "call") \in SpokenItem /\ MaxWords \in Nat
  BY QueueItems, BoundsAssumption DEF Owners, BoundsAssumption
<1>2. CASE StreamStarts
  <2>1. tts_queue' \in Seq(SpokenItem)
    BY <1>2, <1>q, TtsMovesType DEF StreamStarts, TtsMoves
  <2>2. setup' \in 0..MaxWords
    BY <1>2, <1>q DEF StreamStarts, QueuesOK
  <2> QED
    BY <1>2, <2>1, <2>2 DEF StreamStarts, QueuesOK, StateTypeOK
<1>3. CASE SetupSpeaks
  <2>1. tts_queue' \in Seq(SpokenItem)
    BY <1>3, <1>q, TtsMovesType DEF SetupSpeaks, TtsMoves
  <2>2. setup' \in 0..MaxWords
    BY <1>3, <1>q DEF SetupSpeaks, QueuesOK
  <2> QED
    BY <1>3, <2>1, <2>2 DEF SetupSpeaks, QueuesOK, StateTypeOK
<1>4. CASE SocketLost
  BY <1>4 DEF SocketLost, QueuesOK, StateTypeOK
<1>5. CASE LoopEnds
  <2>1. tts_queue' \in Seq(SpokenItem)
    BY <1>5, <1>q, TtsMovesType DEF LoopEnds, TtsMoves
  <2> QED
    BY <1>5, <2>1 DEF LoopEnds, QueuesOK, StateTypeOK
<1>6. CASE WorkerTimeout \/ WorkerFailed \/ CancelIsLost
  BY <1>6 DEF WorkerTimeout, WorkerFailed, CancelIsLost, QueuesOK, StateTypeOK
<1>7. CASE CleanUp
  <2>1. StateTypeOK'
    BY <1>7 DEF CleanUp, Reset, QueuesOK, StateTypeOK, State
  <2> QED
    BY <1>7, <2>1 DEF CleanUp, QueuesOK
<1>8. CASE DeepgramStartOfTurn \/ DeepgramEndOfTurn
  <2>1. event_queue' \in Seq(QueuedEvent)
    BY <1>8, QueueItems, PushType DEF DeepgramStartOfTurn, DeepgramEndOfTurn, EventType
  <2>2. /\ turn_index' \in {turn_index, turn_index + 1}
        /\ UNCHANGED <<smVars, tts_queue, pc, llmVars, workerVars, setupVars, callVars, cut>>
    BY <1>8, Zenon DEF DeepgramStartOfTurn, DeepgramEndOfTurn, TurnSignal
  <2> QED
    BY <2>1, <2>2 DEF QueuesOK, StateTypeOK
<1> QED
  BY <1>1, <1>2, <1>3, <1>4, <1>5, <1>6, <1>7, <1>8 DEF LlmCalls, EndOfCall

LEMMA QueuesStep ==
  ASSUME QueuesOK, [Next]_vars
  PROVE  QueuesOK'
<1>1. CASE UNCHANGED vars
  BY <1>1 DEF vars, smVars, llmVars, workerVars, setupVars, callVars, dgVars, QueuesOK,
              StateTypeOK, Synthesizing
<1> QED
  BY <1>1, ProcessEventsType, TtsWorkerType, OthersType DEF Next

LEMMA TypeInvariant == Spec => [](QueuesOK /\ FlagsOK)
<1>1. Init => FlagsOK
  BY Zenon DEF Init, FlagsOK
<1>2. Init => QueuesOK
  BY BoundsAssumption DEF Init, InitialState, QueuesOK, StateTypeOK, State, Synthesizing,
     BoundsAssumption
<1> QED
  BY <1>1, <1>2, FlagsStep, QueuesStep, PTL DEF Spec

\* Every variable keeps its type, in calls of any length.
THEOREM TypeCorrect == Spec => []TypeOK
<1>1. QueuesOK => /\ tts_queue \in Seq(ItemType)
                  /\ speaking \in ItemType /\ (Synthesizing <=> speaking # Nothing)
  <2> SUFFICES ASSUME QueuesOK
               PROVE  /\ tts_queue \in Seq(ItemType)
                      /\ speaking \in ItemType /\ (Synthesizing <=> speaking # Nothing)
    OBVIOUS
  <2>1. SpokenItem \subseteq ItemType /\ Nothing \in ItemType /\ Nothing \notin SpokenItem
    BY DEF SpokenItem, ItemType, Nothing, Owners
  <2>2. tts_queue \in Seq(SpokenItem)
    BY DEF QueuesOK
  <2> HIDE DEF Synthesizing
  <2> QED
    BY <2>1, <2>2 DEF QueuesOK
<1>2. QueuesOK /\ FlagsOK => TypeOK
  <2> SUFFICES ASSUME QueuesOK, FlagsOK
               PROVE  TypeOK
    OBVIOUS
  <2>1. {llm_cancelled, first_byte_of_turn, tts_cancel_event, socket,
         dg_in_turn, stream_sid} \subseteq BOOLEAN
    BY Zenon DEF FlagsOK
  <2>2. /\ event_queue \in Seq([type : EventType, task : Nat, own : {"call", "setup", "reply"}])
        /\ pc \in {"ready", "await_llm", "await_tts", "stopped"} /\ StateTypeOK
        /\ llm_task \in Nat /\ asked \in Nat /\ extra \in Nat
        /\ haiku \subseteq Nat /\ sonnet \subseteq Nat
        /\ worker \in {"idle", "requested", "streaming", "stopped", "dead"}
        /\ setup \in 0..MaxWords
        /\ loop \in {"reading", "draining", "joining", "closed", "aborted"}
        /\ cut \in Nat /\ turn_index \in Nat
    BY DEF QueuesOK, QueuedEvent, Owners
  <2> QED
    BY <1>1, <2>1, <2>2, Zenon DEF TypeOK
<1> QED
  BY <1>2, TypeInvariant, PTL

-----------------------------------------------------------------------------
\* Barge-in.

\* What waits after a step waited before or was added by it.
LEMMA ItemsFrom ==
  ASSUME QueuesOK, NEW S, S \subseteq SpokenItem, TtsMoves(S), NEW i \in 1..Len(tts_queue')
  PROVE  (\E j \in 1..Len(tts_queue) : tts_queue'[i] = tts_queue[j]) \/ tts_queue'[i] \in S
<1>1. tts_queue \in Seq(SpokenItem)
  BY DEF QueuesOK
<1>2. CASE tts_queue' = tts_queue
  BY <1>2
<1>3. CASE tts_queue' = <<>>
  BY <1>3
<1>4. CASE tts_queue # <<>> /\ tts_queue' = Tail(tts_queue)
  <2>1. i + 1 \in 2..Len(tts_queue) /\ tts_queue'[i] = tts_queue[i + 1] /\ Len(tts_queue) \in Nat
    BY <1>1, <1>4, TailItem
  <2> QED
    BY <2>1
<1>5. ASSUME NEW d \in S, tts_queue' = Append(tts_queue, d)
      PROVE  (\E j \in 1..Len(tts_queue) : tts_queue'[i] = tts_queue[j]) \/ tts_queue'[i] \in S
  <2>1. /\ \A j \in 1..Len(tts_queue) : tts_queue'[j] = tts_queue[j]
        /\ tts_queue'[Len(tts_queue) + 1] = d
        /\ i \in 1..Len(tts_queue) \/ i = Len(tts_queue) + 1
    BY <1>1, <1>5, AppendItem
  <2> QED
    BY <2>1
<1>6. ASSUME NEW d \in S, NEW e \in S, tts_queue' = tts_queue \o <<d, e>>
      PROVE  (\E j \in 1..Len(tts_queue) : tts_queue'[i] = tts_queue[j]) \/ tts_queue'[i] \in S
  <2>1. /\ \A j \in 1..Len(tts_queue) : (tts_queue \o <<d, e>>)[j] = tts_queue[j]
        /\ (tts_queue \o <<d, e>>)[Len(tts_queue) + 1] = d
        /\ (tts_queue \o <<d, e>>)[Len(tts_queue) + 2] = e
        /\ \A j \in 1..Len(tts_queue \o <<d, e>>) :
             j \in 1..Len(tts_queue) \/ j = Len(tts_queue) + 1 \/ j = Len(tts_queue) + 2
    BY <1>1, AppendTwo
  <2> QED
    BY <1>6, <2>1
<1> QED
  BY <1>2, <1>3, <1>4, <1>5, <1>6 DEF TtsMoves

Current(d)   == d.own = "reply" => d.cut = cut
NoReply      == \A i \in 1..Len(tts_queue) : tts_queue[i].own # "reply"
ReplySpoken  == Synthesizing /\ speaking.own = "reply" /\ ~tts_cancel_event

\* A reply that waits is of now; while a barge-in awaits the synthesis there is
\* none, and the one that was being spoken is cancelled.
CutInv ==
  /\ \A i \in 1..Len(tts_queue) : Current(tts_queue[i])
  /\ pc = "await_tts" => NoReply /\ ~ReplySpoken
  /\ NothingStaleIsSpoken

LEMMA CutQueue ==
  ASSUME QueuesOK, CutInv, NEW S, S \subseteq SpokenItem, TtsMoves(S),
         UNCHANGED <<worker, speaking, tts_cancel_event, cut>>,
         \A d \in S : Current(d) /\ (pc' = "await_tts" => d.own # "reply"),
         pc' = "await_tts" => pc = "await_tts"
  PROVE  CutInv'
<1>1. ASSUME NEW i \in 1..Len(tts_queue')
      PROVE  \/ \E j \in 1..Len(tts_queue) : tts_queue'[i] = tts_queue[j]
             \/ tts_queue'[i] \in S
  BY ItemsFrom
<1> QED
  BY <1>1 DEF CutInv, Current, NoReply, ReplySpoken, NothingStaleIsSpoken, Synthesizing

LEMMA CutDrained ==
  ASSUME QueuesOK, DrainSpeech, UNCHANGED <<worker, speaking>>
  PROVE  CutInv'
<1>1. tts_queue' = <<>> /\ tts_cancel_event'
  BY DrainSpeechCases
<1> QED
  BY <1>1 DEF CutInv, Current, NoReply, ReplySpoken, NothingStaleIsSpoken, Synthesizing

LEMMA CutSame ==
  ASSUME CutInv, UNCHANGED <<tts_queue, worker, speaking, tts_cancel_event, cut>>,
         pc' = "await_tts" => pc = "await_tts"
  PROVE  CutInv'
BY DEF CutInv, Current, NoReply, ReplySpoken, NothingStaleIsSpoken, Synthesizing

LEMMA CutHandlers ==
  ASSUME QueuesOK, CutInv, ProcessEvents
  PROVE  CutInv'
<1> USE DEF workerVars, llmVars
<1>1. CASE OnStartOfTurn
  <2>1. CASE BargeIn
    <3>1. CASE DrainSpeech
      BY <1>1, <3>1, CutDrained DEF OnStartOfTurn
    <3>2. CASE ~DrainSpeech
      BY <1>1, <2>1, <3>2, BargeInCases, CutSame DEF OnStartOfTurn
    <3> QED
      BY <3>1, <3>2
  <2>2. CASE ~BargeIn
    BY <1>1, <2>2, CutSame DEF OnStartOfTurn
  <2> QED
    BY <2>1, <2>2
<1>2. CASE OnEndOfTurn \/ OnTtsFirstByte \/ OnTtsPlaybackDone
  BY <1>2, CutSame DEF OnEndOfTurn, OnTtsFirstByte, OnTtsPlaybackDone
<1>3. CASE OnLlmFillerReady \/ OnLlmFullReady
  <2> DEFINE S == {Item("speech", "reply"), Item("turn_end", "reply")}
  <2>1. S \subseteq SpokenItem /\ \A d \in S : Current(d)
    BY QueueItems DEF Owners, Current
  <2>2. TtsMoves(S) /\ pc' = pc /\ pc = "ready"
    BY <1>3, TakeType DEF OnLlmFillerReady, OnLlmFullReady, TtsMoves
  <2> HIDE DEF S
  <2> QED
    BY <1>3, <2>1, <2>2, CutQueue DEF OnLlmFillerReady, OnLlmFullReady
<1>4. CASE LlmTaskCancelled
  BY <1>4, CutDrained DEF LlmTaskCancelled
<1>5. CASE SynthesisCancelled
  <2>1. NoReply /\ ~ReplySpoken /\ pc' = "ready"
    BY <1>5, SendClearCases DEF SynthesisCancelled, CutInv
  <2> QED
    BY <1>5, <2>1 DEF SynthesisCancelled, CutInv, Current, NoReply, ReplySpoken,
                      NothingStaleIsSpoken, Synthesizing
<1> QED
  BY <1>1, <1>2, <1>3, <1>4, <1>5 DEF ProcessEvents

LEMMA CutWorker ==
  ASSUME QueuesOK, CutInv, TtsWorker
  PROVE  CutInv'
<1> USE DEF workerVars
<1>1. ASSUME NEW kind, Get(kind)
      PROVE  /\ \A i \in 1..Len(tts_queue') : Current(tts_queue'[i])
             /\ NoReply => NoReply' /\ Head(tts_queue).own # "reply"
             /\ Current(Head(tts_queue))
             /\ cut' = cut /\ pc' = pc
  <2>1. TtsMoves({}) /\ Head(tts_queue) = tts_queue[1] /\ 1 \in 1..Len(tts_queue)
    BY <1>1, GetCases DEF TtsMoves
  <2>2. \A i \in 1..Len(tts_queue') : \E j \in 1..Len(tts_queue) : tts_queue'[i] = tts_queue[j]
    BY <2>1, ItemsFrom
  <2>3. cut' = cut /\ pc' = pc
    BY <1>1 DEF Get
  <2> QED
    BY <2>1, <2>2, <2>3 DEF CutInv, Current, NoReply
<1>2. CASE GetShutdown \/ GetTurnEnd
  <2>1. worker' \notin {"requested", "streaming"}
    BY <1>2 DEF GetShutdown, GetTurnEnd
  <2> QED
    BY <1>1, <1>2, <2>1 DEF GetShutdown, GetTurnEnd, CutInv, Current, NoReply, ReplySpoken,
                       NothingStaleIsSpoken, Synthesizing
<1>3. CASE GetSpeech
  BY <1>1, <1>3 DEF GetSpeech, CutInv, Current, NoReply, ReplySpoken, NothingStaleIsSpoken,
                    Synthesizing
<1>4. CASE FirstChunk \/ SynthesisEnds
  BY <1>4 DEF FirstChunk, SynthesisEnds, CutInv, Current, NoReply, ReplySpoken,
              NothingStaleIsSpoken, Synthesizing, Nothing
<1> QED
  BY <1>2, <1>3, <1>4 DEF TtsWorker

LEMMA CutOthers ==
  ASSUME QueuesOK, CutInv,
         \/ LlmCalls \/ StreamStarts \/ SetupSpeaks \/ SocketLost \/ EndOfCall
         \/ DeepgramStartOfTurn \/ DeepgramEndOfTurn \/ UNCHANGED vars
  PROVE  CutInv'
<1> USE DEF workerVars
<1>1. CASE LlmCalls
  BY <1>1, CutSame DEF LlmCalls, HaikuSettles, SonnetSettles
<1>2. CASE StreamStarts \/ SetupSpeaks \/ LoopEnds
  <2> DEFINE S == {Item("speech", "setup"), Item("turn_end", "setup"), Item("shutdown", "call")}
  <2>1. S \subseteq SpokenItem /\ \A d \in S : d.own # "reply"
    BY QueueItems DEF Owners
  <2>2. TtsMoves(S)
    BY <1>2 DEF StreamStarts, SetupSpeaks, LoopEnds, TtsMoves
  <2> HIDE DEF S
  <2> QED
    BY <1>2, <2>1, <2>2, CutQueue DEF StreamStarts, SetupSpeaks, LoopEnds, Current
<1>3. CASE SocketLost \/ WorkerFailed \/ CancelIsLost \/ CleanUp
  BY <1>3, CutSame DEF SocketLost, WorkerFailed, CancelIsLost, CleanUp
<1>4. CASE WorkerTimeout
  BY <1>4 DEF WorkerTimeout, CutInv, Current, NoReply, ReplySpoken, NothingStaleIsSpoken,
              Synthesizing
<1>5. CASE DeepgramStartOfTurn \/ DeepgramEndOfTurn
  BY <1>5, CutSame DEF DeepgramStartOfTurn, DeepgramEndOfTurn, TurnSignal
<1>6. CASE UNCHANGED vars
  BY <1>6, CutSame DEF vars
<1> QED
  BY <1>1, <1>2, <1>3, <1>4, <1>5, <1>6 DEF EndOfCall

\* A reply queued before a barge-in is never sent to the caller after its clear
\* event, whatever the set-up says meanwhile (cancel_pipeline, tts_worker).
THEOREM CutReplyStaysCut == Spec => []NothingStaleIsSpoken
<1>1. Init => CutInv
  BY DEF Init, CutInv, Current, NoReply, ReplySpoken, NothingStaleIsSpoken, Synthesizing
<1>2. QueuesOK /\ CutInv /\ [Next]_vars => CutInv'
  BY CutHandlers, CutWorker, CutOthers DEF Next
<1>3. CutInv => NothingStaleIsSpoken
  BY DEF CutInv
<1> QED
  BY <1>1, <1>2, <1>3, TypeInvariant, PTL DEF Spec

-----------------------------------------------------------------------------
\* The end of a reply.

TurnEndWaits == \E i \in 1..Len(tts_queue) : tts_queue[i].kind = "turn_end"
DoneWaits    == \E i \in 1..Len(event_queue) : event_queue[i].type = "tts_playback_done"

\* What adds to the queues keeps what waits in them.
TtsAdds(S) ==
  \/ tts_queue' = tts_queue
  \/ \E d \in S : tts_queue' = Append(tts_queue, d)
  \/ \E d, e \in S : tts_queue' = tts_queue \o <<d, e>>

LEMMA TurnEndKept ==
  ASSUME QueuesOK, NEW S, S \subseteq SpokenItem, TtsAdds(S), TurnEndWaits
  PROVE  TurnEndWaits'
<1>1. tts_queue \in Seq(SpokenItem)
  BY DEF QueuesOK
<1>2. CASE tts_queue' = tts_queue
  BY <1>2 DEF TurnEndWaits
<1>3. ASSUME NEW d \in S, tts_queue' = Append(tts_queue, d)
      PROVE  TurnEndWaits'
  <2>1. \A j \in 1..Len(tts_queue) : j \in 1..Len(tts_queue') /\ tts_queue'[j] = tts_queue[j]
    BY <1>1, <1>3, AppendItem
  <2> QED
    BY <2>1 DEF TurnEndWaits
<1>4. ASSUME NEW d \in S, NEW e \in S, tts_queue' = tts_queue \o <<d, e>>
      PROVE  TurnEndWaits'
  <2>1. \A j \in 1..Len(tts_queue) : /\ j \in 1..Len(tts_queue \o <<d, e>>)
                                     /\ (tts_queue \o <<d, e>>)[j] = tts_queue[j]
    BY <1>1, AppendTwo
  <2> QED
    BY <1>4, <2>1 DEF TurnEndWaits
<1> QED
  BY <1>2, <1>3, <1>4 DEF TtsAdds

LEMMA DoneKept ==
  ASSUME QueuesOK, NEW e \in QueuedEvent, event_queue' \in {event_queue, Append(event_queue, e)},
         DoneWaits
  PROVE  DoneWaits'
<1>1. event_queue \in Seq(QueuedEvent)
  BY DEF QueuesOK
<1>2. \A j \in 1..Len(event_queue) : j \in 1..Len(event_queue') /\ event_queue'[j] = event_queue[j]
  BY <1>1, AppendItem
<1> QED
  BY <1>2 DEF DoneWaits

\* A handler other than that of tts_playback_done keeps it.
LEMMA DoneTaken ==
  ASSUME QueuesOK, NEW type, Take(type), type # "tts_playback_done", DoneWaits
  PROVE  DoneWaits'
<1>1. event_queue \in Seq(QueuedEvent)
  BY DEF QueuesOK
<1>2. PICK i \in 1..Len(event_queue) : event_queue[i].type = "tts_playback_done"
  BY DEF DoneWaits
<1>3. i # 1
  BY <1>2, TakeType
<1>4. i - 1 \in 1..Len(event_queue') /\ event_queue'[i - 1] = event_queue[i]
  BY <1>1, <1>2, <1>3, TailItem, TakeType
<1> QED
  BY <1>2, <1>4 DEF DoneWaits

\* A reply that is being given has its end ahead of it, in one of the queues, however
\* long the set-up talks beside it (process_events, tts_worker).
THEOREM BotSpeakingHasAnEnd == Spec => []BotSpeakingWillEnd
<1>1. Init => BotSpeakingWillEnd
  BY DEF Init, InitialState, BotSpeakingWillEnd
<1>2. QueuesOK /\ BotSpeakingWillEnd /\ [Next]_vars => BotSpeakingWillEnd'
  <2> SUFFICES ASSUME QueuesOK, BotSpeakingWillEnd, [Next]_vars,
                      current_state' = "BOT_SPEAKING", worker' \notin {"stopped", "dead"}
               PROVE  TurnEndWaits' \/ DoneWaits'
    BY DEF BotSpeakingWillEnd, TurnEndWaits, DoneWaits
  <2>a. current_state = "BOT_SPEAKING" /\ worker \notin {"stopped", "dead"} =>
          TurnEndWaits \/ DoneWaits
    BY DEF BotSpeakingWillEnd, TurnEndWaits, DoneWaits
  <2>b. StateTypeOK
    BY DEF QueuesOK
  <2> USE DEF smVars, llmVars, workerVars, setupVars, callVars, dgVars
  \* A step that changes neither the state nor the worker, and only adds to a queue.
  <2>c. ASSUME UNCHANGED <<current_state, worker>>, TtsAdds(SpokenItem),
               \/ UNCHANGED event_queue
               \/ \E e \in QueuedEvent : Push(e)
        PROVE  TurnEndWaits' \/ DoneWaits'
    <3>1. PICK e \in QueuedEvent : event_queue' \in {event_queue, Append(event_queue, e)}
      <4>1. Signal("start_of_turn") \in QueuedEvent
        BY QueueItems DEF EventType
      <4> QED
        BY <2>c, <4>1 DEF Push
    <3>2. DoneWaits => DoneWaits'
      BY <3>1, DoneKept
    <3>3. TurnEndWaits => TurnEndWaits'
      BY <2>c, TurnEndKept
    <3> QED
      BY <2>a, <2>c, <3>2, <3>3
  <2>1. CASE OnStartOfTurn
    <3>1. CASE BargeIn
      BY <3>1, BargeInCases
    <3>2. CASE ~BargeIn
      <4>1. UNCHANGED <<tts_queue, worker>> /\ current_state = "BOT_SPEAKING"
        BY <2>1, <3>2, <2>b, HandleCases DEF OnStartOfTurn, TryHandle
      <4>2. DoneWaits => DoneWaits'
        BY <2>1, DoneTaken DEF OnStartOfTurn
      <4> QED
        BY <2>a, <4>1, <4>2 DEF TurnEndWaits
    <3> QED
      BY <3>1, <3>2
  <2>2. CASE OnEndOfTurn
    <3>1. UNCHANGED <<tts_queue, worker>> /\ current_state = "BOT_SPEAKING"
      BY <2>2, <2>b, HandleCases DEF OnEndOfTurn, TryHandle
    <3>2. DoneWaits => DoneWaits'
      BY <2>2, DoneTaken DEF OnEndOfTurn
    <3> QED
      BY <2>a, <3>1, <3>2 DEF TurnEndWaits
  <2>3. CASE OnLlmFillerReady
    <3>1. UNCHANGED <<tts_queue, worker>> /\ current_state = "BOT_SPEAKING"
      BY <2>3, <2>b, HandleCases DEF OnLlmFillerReady
    <3>2. DoneWaits => DoneWaits'
      BY <2>3, DoneTaken DEF OnLlmFillerReady
    <3> QED
      BY <2>a, <3>1, <3>2 DEF TurnEndWaits
  <2>4. CASE OnLlmFullReady
    <3>1. DoneWaits => DoneWaits'
      BY <2>4, DoneTaken DEF OnLlmFullReady
    <3>2. CASE llm_cancelled
      BY <2>4, <2>a, <3>1, <3>2 DEF OnLlmFullReady, TurnEndWaits
    <3>3. CASE ~llm_cancelled
      <4>1. /\ tts_queue \in Seq(SpokenItem)
            /\ Item("speech", "reply") \in SpokenItem /\ Item("turn_end", "reply") \in SpokenItem
            /\ Item("turn_end", "reply").kind = "turn_end"
        BY QueueItems DEF QueuesOK, Owners
      <4>2. tts_queue' = tts_queue \o <<Item("speech", "reply"), Item("turn_end", "reply")>>
        BY <2>4, <3>3 DEF OnLlmFullReady
      <4>3. /\ Len(tts_queue) + 2 \in 1..Len(tts_queue')
            /\ tts_queue'[Len(tts_queue) + 2] = Item("turn_end", "reply")
        BY <4>1, <4>2, AppendTwo
      <4> QED
        BY <4>1, <4>3 DEF TurnEndWaits
    <3> QED
      BY <3>2, <3>3
  <2>5. CASE OnTtsFirstByte
    <3>1. UNCHANGED <<tts_queue, worker>> /\ current_state = "BOT_SPEAKING"
      BY <2>5, <2>b, HandleCases DEF OnTtsFirstByte, TryHandle
    <3>2. DoneWaits => DoneWaits'
      BY <2>5, DoneTaken DEF OnTtsFirstByte
    <3> QED
      BY <2>a, <3>1, <3>2 DEF TurnEndWaits
  <2>6. CASE OnTtsPlaybackDone
    BY <2>6, <2>b, Accepted, HandleCases DEF OnTtsPlaybackDone, TryHandle
  <2>7. CASE LlmTaskCancelled
    BY <2>7, DrainSpeechCases DEF LlmTaskCancelled
  <2>8. CASE SynthesisCancelled
    BY <2>8, SendClearCases DEF SynthesisCancelled
  <2>9. CASE GetShutdown
    BY <2>9 DEF GetShutdown
  <2>10. CASE GetTurnEnd
    <3>1. [type |-> "tts_playback_done", task |-> 0, own |-> Head(tts_queue).own] \in QueuedEvent
      BY <2>10, DoneEvent DEF GetTurnEnd
    <3>2. /\ Len(event_queue) + 1 \in 1..Len(event_queue')
          /\ event_queue'[Len(event_queue) + 1].type = "tts_playback_done"
      BY <2>10, <3>1, PushType DEF GetTurnEnd
    <3> QED
      BY <3>2 DEF DoneWaits
  <2>11. CASE GetSpeech
    <3>1. TurnEndWaits => TurnEndWaits'
      <4> SUFFICES ASSUME NEW i \in 1..Len(tts_queue), tts_queue[i].kind = "turn_end"
                   PROVE  TurnEndWaits'
        BY DEF TurnEndWaits
      <4>1. i # 1 /\ tts_queue # <<>> /\ tts_queue' = Tail(tts_queue)
        BY <2>11, GetCases DEF GetSpeech
      <4>2. i - 1 \in 1..Len(tts_queue') /\ tts_queue'[i - 1] = tts_queue[i]
        BY <4>1, TailItem DEF QueuesOK
      <4> QED
        BY <4>2 DEF TurnEndWaits
    <3>2. /\ current_state = "BOT_SPEAKING" /\ worker \notin {"stopped", "dead"}
          /\ UNCHANGED event_queue
      BY <2>11 DEF GetSpeech, Get
    <3> QED
      BY <2>a, <3>1, <3>2 DEF DoneWaits
  <2>12. CASE FirstChunk \/ SynthesisEnds
    <3>1. UNCHANGED <<current_state, tts_queue>> /\ worker \notin {"stopped", "dead"}
      BY <2>12 DEF FirstChunk, SynthesisEnds, Synthesizing
    <3>2. Signal("tts_first_byte") \in QueuedEvent
      BY QueueItems DEF EventType
    <3>3. event_queue' \in {event_queue, Append(event_queue, Signal("tts_first_byte"))}
      BY <2>12 DEF FirstChunk, SynthesisEnds, Push
    <3>4. DoneWaits => DoneWaits'
      BY <3>2, <3>3, DoneKept
    <3> QED
      BY <2>a, <3>1, <3>4 DEF TurnEndWaits
  <2>13. CASE LlmCalls
    <3>1. PICK t \in 1..MaxTurns : HaikuSettles(t) \/ SonnetSettles(t)
      BY <2>13 DEF LlmCalls
    <3>2. t \in Nat
      BY BoundsAssumption DEF BoundsAssumption
    <3>3. /\ Reply("llm_filler_ready", t) \in QueuedEvent
          /\ Reply("llm_full_ready", t) \in QueuedEvent
      BY <3>2, QueueItems DEF EventType
    <3> QED
      BY <2>c, <3>1, <3>3 DEF HaikuSettles, SonnetSettles, TtsAdds
  <2>14. CASE StreamStarts \/ SetupSpeaks \/ LoopEnds
    <3>1. /\ Item("speech", "setup") \in SpokenItem /\ Item("turn_end", "setup") \in SpokenItem
          /\ Item("shutdown", "call") \in SpokenItem
      BY QueueItems DEF Owners
    <3>2. TtsAdds(SpokenItem)
      BY <2>14, <3>1 DEF StreamStarts, SetupSpeaks, LoopEnds, TtsAdds
    <3> QED
      BY <2>c, <2>14, <3>2 DEF StreamStarts, SetupSpeaks, LoopEnds
  <2>15. CASE SocketLost \/ WorkerFailed \/ CancelIsLost
    BY <2>c, <2>15 DEF SocketLost, WorkerFailed, CancelIsLost, TtsAdds
  <2>16. CASE WorkerTimeout
    BY <2>16 DEF WorkerTimeout
  <2>17. CASE CleanUp
    BY <2>17 DEF CleanUp, Reset
  <2>18. CASE DeepgramStartOfTurn \/ DeepgramEndOfTurn
    <3>1. Signal("start_of_turn") \in QueuedEvent /\ Signal("end_of_turn") \in QueuedEvent
      BY QueueItems DEF EventType
    <3> QED
      BY <2>c, <2>18, <3>1 DEF DeepgramStartOfTurn, DeepgramEndOfTurn, TurnSignal, TtsAdds
  <2>19. CASE UNCHANGED vars
    BY <2>c, <2>19 DEF vars, TtsAdds
  <2> QED
    BY <2>1, <2>2, <2>3, <2>4, <2>5, <2>6, <2>7, <2>8, <2>9, <2>10, <2>11, <2>12, <2>13, <2>14,
       <2>15, <2>16, <2>17, <2>18, <2>19 DEF Next, ProcessEvents, TtsWorker, EndOfCall
<1> QED
  BY <1>1, <1>2, TypeInvariant, PTL DEF Spec

-----------------------------------------------------------------------------
\* The answers under way.

IsStart(i) == event_queue[i].type = "start_of_turn"
IsEnd(i)   == event_queue[i].type = "end_of_turn"
IsFull(i)  == event_queue[i].type = "llm_full_ready"
InTurn     == current_state \in {"USER_SPEAKING", "BARGE_IN_DETECTED"}
ReplyIsDue == current_state \in {"PROCESSING", "FILLER_RESPONSE"}

\* Starts and ends of turns alternate, from the state of the call over the queue to
\* Deepgram.
TurnOrder ==
  /\ \A i, j \in 1..Len(event_queue) : IsEnd(i) /\ IsEnd(j) /\ i < j =>
       \E k \in 1..Len(event_queue) : IsStart(k) /\ i < k /\ k < j
  /\ \A j \in 1..Len(event_queue) : IsEnd(j) =>
       InTurn \/ \E k \in 1..Len(event_queue) : IsStart(k) /\ k < j
  /\ dg_in_turn =>
       \/ \E k \in 1..Len(event_queue) :
            IsStart(k) /\ \A i \in 1..Len(event_queue) : IsEnd(i) => i < k
       \/ InTurn /\ \A i \in 1..Len(event_queue) : ~IsEnd(i)

\* A task answers once.
CallsOnce ==
  /\ sonnet \subseteq 1..asked
  /\ RepliesWaiting \subseteq (1..asked) \ sonnet
  /\ \A i, j \in 1..Len(event_queue) :
       IsFull(i) /\ IsFull(j) /\ event_queue[i].task = event_queue[j].task => i = j

\* All answers but the one to the task that is held are accounted for, and this one too
\* once it is given or its reply cut off.
AccountInv ==
  /\ pc # "ready" => current_state = "BARGE_IN_DETECTED"
  /\ TurnOrder
  /\ CallsOnce
  /\ ~ReplyIsDue => Cardinality(Answers) <= extra
  /\ Cardinality(Answers \ {llm_task}) <= extra

\* Counting.
LEMMA FewerCounted ==
  ASSUME NEW T, IsFiniteSet(T), NEW S, S \subseteq T
  PROVE  /\ IsFiniteSet(S) /\ Cardinality(S) \in Nat /\ Cardinality(T) \in Nat
         /\ Cardinality(S) <= Cardinality(T)
BY FS_Subset, FS_CardinalityType

LEMMA OneLessCounted ==
  ASSUME NEW S, IsFiniteSet(S), NEW x \in S, NEW y
  PROVE  Cardinality(S \ {x}) <= Cardinality(S \ {y})
<1>1. Cardinality(S) \in Nat
  BY FS_CardinalityType
<1>2. Cardinality(S \ {x}) = Cardinality(S) - 1
  BY FS_RemoveElement
<1>3. Cardinality(S \ {y}) \in {Cardinality(S) - 1, Cardinality(S)}
  BY FS_RemoveElement
<1> QED
  BY <1>1, <1>2, <1>3

LEMMA UnionCounted ==
  ASSUME NEW S, IsFiniteSet(S), NEW T, IsFiniteSet(T)
  PROVE  IsFiniteSet(S \cup T) /\ Cardinality(S \cup T) <= Cardinality(S) + Cardinality(T)
<1>1. IsFiniteSet(S \cap T)
  BY FS_Subset
<1>2. Cardinality(S) \in Nat /\ Cardinality(T) \in Nat /\ Cardinality(S \cap T) \in Nat
  BY <1>1, FS_CardinalityType
<1>3. /\ IsFiniteSet(S \cup T)
      /\ Cardinality(S \cup T) = Cardinality(S) + Cardinality(T) - Cardinality(S \cap T)
  BY FS_Union
<1> QED
  BY <1>2, <1>3

LEMMA AnswersFinite ==
  ASSUME QueuesOK, CallsOnce
  PROVE  IsFiniteSet(sonnet) /\ IsFiniteSet(Answers)
<1>1. IsFiniteSet(sonnet)
  <2>1. asked \in Int
    BY DEF QueuesOK
  <2>2. IsFiniteSet(1..asked)
    BY <2>1, FS_Interval
  <2> QED
    BY <2>2, FS_Subset DEF CallsOnce
<1>2. IsFiniteSet(sonnet \cup RepliesWaiting)
  BY <1>1, RepliesFinite, UnionCounted
<1>3. Answers \subseteq sonnet \cup RepliesWaiting
  BY DEF Answers
<1> QED
  BY <1>1, <1>2, <1>3, FS_Subset

\* What waits of the replies when a handler has taken an event, and when one is pushed.
LEMMA RepliesTaken ==
  ASSUME QueuesOK, CallsOnce, NEW type, Take(type), UNCHANGED <<asked, sonnet>>
  PROVE  /\ RepliesWaiting' \subseteq RepliesWaiting
         /\ CallsOnce'
         /\ type = "llm_full_ready" =>
              \E t \in RepliesWaiting : t \notin sonnet /\ t \notin RepliesWaiting'
<1>1. /\ event_queue \in Seq(QueuedEvent) /\ event_queue' = Tail(event_queue)
      /\ event_queue # <<>> /\ event_queue[1].type = type /\ 1 \in 1..Len(event_queue)
  BY TakeType DEF QueuesOK
<1>2. \A i \in 1..Len(event_queue') : /\ i \in Nat /\ i + 1 # 1
                                     /\ i + 1 \in 1..Len(event_queue)
                                     /\ event_queue'[i] = event_queue[i + 1]
  BY <1>1, TailItem
<1>3. RepliesWaiting' \subseteq RepliesWaiting
  BY <1>2 DEF RepliesWaiting
<1>4. CallsOnce'
  <2>1. ASSUME NEW i \in 1..Len(event_queue'), NEW j \in 1..Len(event_queue'),
               IsFull(i)', IsFull(j)', event_queue'[i].task = event_queue'[j].task
        PROVE  i = j
    <3>1. i + 1 = j + 1
      BY <1>2, <2>1 DEF CallsOnce, IsFull
    <3> QED
      BY <1>2, <3>1
  <2> QED
    BY <1>3, <2>1 DEF CallsOnce
<1>5. ASSUME type = "llm_full_ready"
      PROVE  \E t \in RepliesWaiting : t \notin sonnet /\ t \notin RepliesWaiting'
  <2>1. event_queue[1].task \in RepliesWaiting /\ IsFull(1)
    BY <1>1, <1>5 DEF RepliesWaiting, IsFull
  <2>2. event_queue[1].task \notin RepliesWaiting'
    BY <1>1, <1>2, <2>1 DEF RepliesWaiting, CallsOnce, IsFull
  <2> QED
    BY <2>1, <2>2 DEF CallsOnce
<1> QED
  BY <1>3, <1>4, <1>5

LEMMA RepliesPushed ==
  ASSUME QueuesOK, CallsOnce, NEW e \in QueuedEvent,
         event_queue' \in {event_queue, Append(event_queue, e)}
  PROVE  /\ RepliesWaiting' \subseteq RepliesWaiting \cup {e.task}
         /\ e.type # "llm_full_ready" => RepliesWaiting' \subseteq RepliesWaiting
         /\ e.type # "llm_full_ready" \/ e.task \notin RepliesWaiting =>
              \A i, j \in 1..Len(event_queue') :
                IsFull(i)' /\ IsFull(j)' /\ event_queue'[i].task = event_queue'[j].task => i = j
<1>1. /\ event_queue \in Seq(QueuedEvent) /\ Len(event_queue) \in Nat
      /\ \A i \in 1..Len(event_queue') :
           \/ i \in 1..Len(event_queue) /\ event_queue'[i] = event_queue[i]
           \/ i = Len(event_queue) + 1 /\ event_queue'[i] = e
  <2>1. event_queue \in Seq(QueuedEvent)
    BY DEF QueuesOK
  <2> QED
    BY <2>1, AppendItem
<1>2. /\ RepliesWaiting' \subseteq RepliesWaiting \cup {e.task}
      /\ e.type # "llm_full_ready" => RepliesWaiting' \subseteq RepliesWaiting
  BY <1>1 DEF RepliesWaiting
<1>3. ASSUME e.type # "llm_full_ready" \/ e.task \notin RepliesWaiting,
             NEW i \in 1..Len(event_queue'), NEW j \in 1..Len(event_queue'),
             IsFull(i)', IsFull(j)', event_queue'[i].task = event_queue'[j].task
      PROVE  i = j
  BY <1>1, <1>3 DEF CallsOnce, IsFull, RepliesWaiting
<1> QED
  BY <1>2, <1>3

\* An answer more is accepted only when one is asked for.
LEMMA AnswersShrink ==
  ASSUME sonnet' \subseteq sonnet, RepliesWaiting' \subseteq RepliesWaiting,
         llm_cancelled' = llm_cancelled
  PROVE  Answers' \subseteq Answers
<1>1. CASE llm_cancelled
  BY <1>1 DEF Answers
<1>2. CASE ~llm_cancelled
  BY <1>2 DEF Answers
<1> QED
  BY <1>1, <1>2

\* A handler takes the first signal, or something before it.
LEMMA TurnTaken ==
  ASSUME QueuesOK, TurnOrder, NEW type, Take(type), dg_in_turn' = dg_in_turn,
         type = "start_of_turn" => InTurn',
         type # "end_of_turn" /\ InTurn => InTurn'
  PROVE  TurnOrder' /\ (type = "end_of_turn" => InTurn)
<1>1. /\ event_queue \in Seq(QueuedEvent) /\ event_queue' = Tail(event_queue)
      /\ event_queue # <<>> /\ event_queue[1].type = type /\ 1 \in 1..Len(event_queue)
  BY TakeType DEF QueuesOK
<1>2. /\ \A i \in 1..Len(event_queue') : /\ i \in Nat /\ i >= 1
                                        /\ i + 1 \in 1..Len(event_queue)
                                        /\ event_queue'[i] = event_queue[i + 1]
      /\ \A i \in 1..Len(event_queue) :
           \/ i = 1
           \/ i \in Nat /\ i - 1 \in 1..Len(event_queue') /\ event_queue'[i - 1] = event_queue[i]
  BY <1>1, TailItem
\* What was in front of the first event of the queue was nothing.
<1>3. type = "end_of_turn" => InTurn
  <2>1. \A k \in 1..Len(event_queue) : ~(k < 1)
    OBVIOUS
  <2> QED
    BY <1>1, <2>1 DEF TurnOrder, IsEnd
<1>4. ASSUME NEW i \in 1..Len(event_queue'), NEW j \in 1..Len(event_queue'),
             IsEnd(i)', IsEnd(j)', i < j
      PROVE  \E k \in 1..Len(event_queue') : IsStart(k)' /\ i < k /\ k < j
  <2>1. i + 1 < j + 1 /\ IsEnd(i + 1) /\ IsEnd(j + 1)
    BY <1>2, <1>4 DEF IsEnd
  <2>2. PICK k \in 1..Len(event_queue) : IsStart(k) /\ i + 1 < k /\ k < j + 1
    BY <1>2, <2>1 DEF TurnOrder
  <2>3. k - 1 \in 1..Len(event_queue') /\ event_queue'[k - 1] = event_queue[k]
        /\ i < k - 1 /\ k - 1 < j
    BY <1>2, <2>2
  <2> QED
    BY <2>2, <2>3 DEF IsStart
<1>5. ASSUME NEW j \in 1..Len(event_queue'), IsEnd(j)', ~InTurn'
      PROVE  \E k \in 1..Len(event_queue') : IsStart(k)' /\ k < j
  <2>1. IsEnd(j + 1) /\ type # "start_of_turn"
    BY <1>2, <1>5 DEF IsEnd
  <2>2. PICK k \in 1..Len(event_queue) : IsStart(k) /\ k < j + 1 /\ k # 1
    <3>1. CASE type = "end_of_turn"
      <4>1. IsEnd(1) /\ 1 < j + 1
        BY <1>1, <1>2, <3>1 DEF IsEnd
      <4>2. PICK k \in 1..Len(event_queue) : IsStart(k) /\ 1 < k /\ k < j + 1
        BY <1>1, <1>2, <2>1, <4>1 DEF TurnOrder
      <4> QED
        BY <4>2
    <3>2. CASE type # "end_of_turn"
      <4>1. PICK k \in 1..Len(event_queue) : IsStart(k) /\ k < j + 1
        BY <1>2, <1>5, <2>1, <3>2 DEF TurnOrder
      <4>2. k # 1
        BY <1>1, <2>1, <4>1 DEF IsStart
      <4> QED
        BY <4>1, <4>2
    <3> QED
      BY <3>1, <3>2
  <2>3. k - 1 \in 1..Len(event_queue') /\ event_queue'[k - 1] = event_queue[k] /\ k - 1 < j
    BY <1>2, <2>2
  <2> QED
    BY <2>2, <2>3 DEF IsStart
<1>6. ASSUME dg_in_turn
      PROVE  \/ \E k \in 1..Len(event_queue') :
                  IsStart(k)' /\ \A i \in 1..Len(event_queue') : IsEnd(i)' => i < k
             \/ InTurn' /\ \A i \in 1..Len(event_queue') : ~IsEnd(i)'
  <2>1. CASE InTurn /\ \A i \in 1..Len(event_queue) : ~IsEnd(i)
    <3>1. type # "end_of_turn"
      BY <1>1, <2>1 DEF IsEnd
    <3>2. \A i \in 1..Len(event_queue') : ~IsEnd(i)'
      BY <1>2, <2>1 DEF IsEnd
    <3> QED
      BY <2>1, <3>1, <3>2
  <2>2. ASSUME NEW k \in 1..Len(event_queue), IsStart(k),
               \A i \in 1..Len(event_queue) : IsEnd(i) => i < k
        PROVE  \/ \E j \in 1..Len(event_queue') :
                    IsStart(j)' /\ \A i \in 1..Len(event_queue') : IsEnd(i)' => i < j
               \/ InTurn' /\ \A i \in 1..Len(event_queue') : ~IsEnd(i)'
    <3>1. \A i \in 1..Len(event_queue') : IsEnd(i)' => i + 1 < k
      BY <1>2, <2>2 DEF IsEnd
    <3>2. CASE k = 1
      <4>1. \A i \in 1..Len(event_queue') : ~IsEnd(i)'
        BY <1>2, <3>1, <3>2
      <4>2. InTurn'
        BY <1>1, <2>2, <3>2 DEF IsStart
      <4> QED
        BY <4>1, <4>2
    <3>3. CASE k # 1
      <4>1. k - 1 \in 1..Len(event_queue') /\ event_queue'[k - 1] = event_queue[k] /\ k \in Nat
        BY <1>2, <3>3
      <4>2. IsStart(k - 1)'
        BY <2>2, <4>1 DEF IsStart
      <4>3. \A i \in 1..Len(event_queue') : IsEnd(i)' => i < k - 1
        BY <1>2, <3>1, <4>1
      <4> QED
        BY <4>1, <4>2, <4>3
    <3> QED
      BY <3>2, <3>3
  <2> QED
    BY <1>6, <2>1, <2>2 DEF TurnOrder
<1> QED
  BY <1>3, <1>4, <1>5, <1>6 DEF TurnOrder

\* An event is pushed: a start of turn while Deepgram hears nobody, an end of turn
\* while it does, or no signal.
LEMMA TurnPushed ==
  ASSUME QueuesOK, TurnOrder, NEW e \in QueuedEvent,
         event_queue' \in {event_queue, Append(event_queue, e)},
         InTurn => InTurn',
         \/ e.type \notin {"start_of_turn", "end_of_turn"} /\ dg_in_turn' = dg_in_turn
         \/ e.type = "start_of_turn" /\ event_queue' = Append(event_queue, e)
         \/ e.type = "end_of_turn" /\ dg_in_turn /\ dg_in_turn' = FALSE
  PROVE  TurnOrder'
<1>1. event_queue \in Seq(QueuedEvent) /\ Len(event_queue) \in Nat
  BY DEF QueuesOK
<1>2. /\ \A i \in 1..Len(event_queue) : /\ i < Len(event_queue) + 1 /\ i \in 1..Len(event_queue')
                                       /\ event_queue'[i] = event_queue[i]
      /\ \A i \in 1..Len(event_queue') :
           \/ i \in 1..Len(event_queue)
           \/ i = Len(event_queue) + 1 /\ event_queue'[i] = e
      /\ event_queue' = Append(event_queue, e) =>
           Len(event_queue) + 1 \in 1..Len(event_queue') /\ event_queue'[Len(event_queue) + 1] = e
  BY <1>1, AppendItem
<1>3. \A k \in 1..Len(event_queue) : (IsStart(k)' <=> IsStart(k)) /\ (IsEnd(k)' <=> IsEnd(k))
  BY <1>2 DEF IsStart, IsEnd
<1>4. ASSUME NEW i \in 1..Len(event_queue'), NEW j \in 1..Len(event_queue'),
             IsEnd(i)', IsEnd(j)', i < j
      PROVE  \E k \in 1..Len(event_queue') : IsStart(k)' /\ i < k /\ k < j
  <2>1. i \in 1..Len(event_queue) /\ IsEnd(i)
    BY <1>1, <1>2, <1>3, <1>4
  <2>2. CASE j \in 1..Len(event_queue)
    <3>1. PICK k \in 1..Len(event_queue) : IsStart(k) /\ i < k /\ k < j
      BY <1>3, <1>4, <2>1, <2>2 DEF TurnOrder
    <3> QED
      BY <1>2, <1>3, <3>1
  <2>3. CASE j = Len(event_queue) + 1 /\ event_queue'[j] = e
    <3>1. dg_in_turn
      BY <1>4, <2>3 DEF IsEnd
    <3>2. PICK k \in 1..Len(event_queue) : IsStart(k) /\ i < k
      BY <2>1, <3>1 DEF TurnOrder
    <3> QED
      BY <1>2, <1>3, <2>3, <3>2
  <2> QED
    BY <1>2, <2>2, <2>3
<1>5. ASSUME NEW j \in 1..Len(event_queue'), IsEnd(j)', ~InTurn'
      PROVE  \E k \in 1..Len(event_queue') : IsStart(k)' /\ k < j
  <2>1. CASE j \in 1..Len(event_queue)
    <3>1. PICK k \in 1..Len(event_queue) : IsStart(k) /\ k < j
      BY <1>3, <1>5, <2>1 DEF TurnOrder
    <3> QED
      BY <1>2, <1>3, <3>1
  <2>2. CASE j = Len(event_queue) + 1 /\ event_queue'[j] = e
    <3>1. dg_in_turn
      BY <1>5, <2>2 DEF IsEnd
    <3>2. PICK k \in 1..Len(event_queue) : IsStart(k)
      BY <1>5, <3>1 DEF TurnOrder
    <3> QED
      BY <1>2, <1>3, <2>2, <3>2
  <2> QED
    BY <1>2, <2>1, <2>2
<1>6. ASSUME dg_in_turn'
      PROVE  \/ \E k \in 1..Len(event_queue') :
                  IsStart(k)' /\ \A i \in 1..Len(event_queue') : IsEnd(i)' => i < k
             \/ InTurn' /\ \A i \in 1..Len(event_queue') : ~IsEnd(i)'
  <2>1. CASE e.type = "start_of_turn" /\ event_queue' = Append(event_queue, e)
    <3>a. PICK k \in Nat : k = Len(event_queue) + 1
      BY <1>1
    <3>1. k \in 1..Len(event_queue') /\ IsStart(k)'
      BY <1>2, <2>1, <3>a DEF IsStart
    <3>2. \A i \in 1..Len(event_queue') : IsEnd(i)' => i < k
      BY <1>2, <2>1, <3>a DEF IsEnd
    <3> QED
      BY <3>1, <3>2
  <2>2. CASE e.type \notin {"start_of_turn", "end_of_turn"} /\ dg_in_turn
    <3>1. \A i \in 1..Len(event_queue') : IsEnd(i)' => i \in 1..Len(event_queue) /\ IsEnd(i)
      BY <1>2, <1>3, <2>2 DEF IsEnd
    <3> QED
      BY <1>2, <1>3, <2>2, <3>1 DEF TurnOrder
  <2> QED
    BY <1>6, <2>1, <2>2
<1> QED
  BY <1>4, <1>5, <1>6 DEF TurnOrder

\* A step after which no more answers are under way and none has become due to nobody.
LEMMA AccountLess ==
  ASSUME QueuesOK, AccountInv, TurnOrder', CallsOnce',
         pc' # "ready" => current_state' = "BARGE_IN_DETECTED",
         Answers' \subseteq Answers, UNCHANGED <<llm_task, extra>>,
         ReplyIsDue => ReplyIsDue'
  PROVE  AccountInv'
<1>1. IsFiniteSet(Answers) /\ extra \in Nat
  BY AnswersFinite DEF AccountInv, QueuesOK
<1>2. /\ Cardinality(Answers') <= Cardinality(Answers)
      /\ Cardinality(Answers') \in Nat /\ Cardinality(Answers) \in Nat
  BY <1>1, FewerCounted
<1>3. /\ Cardinality(Answers' \ {llm_task}) <= Cardinality(Answers \ {llm_task})
      /\ Cardinality(Answers' \ {llm_task}) \in Nat /\ Cardinality(Answers \ {llm_task}) \in Nat
  <2>1. IsFiniteSet(Answers \ {llm_task}) /\ Answers' \ {llm_task} \subseteq Answers \ {llm_task}
    BY <1>1, FewerCounted
  <2> QED
    BY <2>1, FewerCounted
<1>4. ~ReplyIsDue' => Cardinality(Answers') <= extra'
  BY <1>1, <1>2 DEF AccountInv
<1>5. Cardinality(Answers' \ {llm_task'}) <= extra'
  BY <1>1, <1>3 DEF AccountInv
<1> QED
  BY <1>4, <1>5 DEF AccountInv

\* A step that concerns no turn and no answer.
LEMMA AccountSame ==
  ASSUME QueuesOK, AccountInv, NEW e \in QueuedEvent,
         e.type \notin {"start_of_turn", "end_of_turn", "llm_full_ready"},
         event_queue' \in {event_queue, Append(event_queue, e)},
         UNCHANGED <<current_state, pc, llm_task, llm_cancelled, sonnet, asked, extra, dg_in_turn>>
  PROVE  AccountInv'
<1>1. TurnOrder'
  BY TurnPushed DEF AccountInv, InTurn
<1>2. RepliesWaiting' \subseteq RepliesWaiting /\ CallsOnce'
  BY RepliesPushed DEF AccountInv, CallsOnce
<1>3. Answers' \subseteq Answers
  BY <1>2, AnswersShrink
<1> QED
  BY <1>1, <1>2, <1>3, AccountLess DEF AccountInv, ReplyIsDue

\* A barge-in or a turn of the caller's while no reply is due.
LEMMA AccountStart ==
  ASSUME QueuesOK, AccountInv, OnStartOfTurn
  PROVE  AccountInv'
<1>1. Take("start_of_turn") /\ dg_in_turn' = dg_in_turn /\ pc = "ready"
  BY TakeType DEF OnStartOfTurn, dgVars
<1>2. CASE BargeIn
  <2>1. /\ llm_cancelled' = TRUE /\ UNCHANGED <<llm_task, asked, extra>>
        /\ InTurn' /\ ~ReplyIsDue' /\ (pc' # "ready" => current_state' = "BARGE_IN_DETECTED")
        /\ sonnet' = sonnet \ {llm_task}
    BY <1>2, BargeInCases, DrainSpeechCases DEF InTurn, ReplyIsDue, LlmTaskRunning
  <2>2. TurnOrder'
    BY <1>1, <2>1, TurnTaken DEF AccountInv
  <2>3. CallsOnce'
    <3>1. /\ event_queue \in Seq(QueuedEvent) /\ event_queue' = Tail(event_queue)
          /\ event_queue # <<>>
      BY <1>1, TakeType DEF QueuesOK
    <3>2. \A i \in 1..Len(event_queue') : /\ i \in Nat /\ i + 1 \in 1..Len(event_queue)
                                         /\ event_queue'[i] = event_queue[i + 1]
      BY <3>1, TailItem
    <3>3. RepliesWaiting' \subseteq RepliesWaiting
      BY <3>2 DEF RepliesWaiting
    <3>4. ASSUME NEW i \in 1..Len(event_queue'), NEW j \in 1..Len(event_queue'),
                 IsFull(i)', IsFull(j)', event_queue'[i].task = event_queue'[j].task
          PROVE  i = j
      <4>1. i + 1 = j + 1
        BY <3>2, <3>4 DEF AccountInv, CallsOnce, IsFull
      <4> QED
        BY <3>2, <4>1
    <3> QED
      BY <2>1, <3>3, <3>4 DEF AccountInv, CallsOnce
  <2>4. Answers' = sonnet \ {llm_task} /\ Answers' \subseteq Answers \ {llm_task}
    BY <2>1 DEF Answers
  <2>5. IsFiniteSet(Answers \ {llm_task}) /\ extra \in Nat
    BY AnswersFinite, FewerCounted DEF AccountInv, QueuesOK
  <2>6. /\ Cardinality(Answers') <= Cardinality(Answers \ {llm_task})
        /\ Cardinality(Answers') \in Nat /\ Cardinality(Answers \ {llm_task}) \in Nat
    BY <2>4, <2>5, FewerCounted
  <2>7. Answers' \ {llm_task'} = Answers'
    BY <2>1, <2>4
  <2>8. Cardinality(Answers') <= extra' /\ Cardinality(Answers' \ {llm_task'}) <= extra'
    BY <2>1, <2>5, <2>6, <2>7 DEF AccountInv
  <2> QED
    BY <2>1, <2>2, <2>3, <2>8 DEF AccountInv
<1>3. CASE ~BargeIn
  <2>1. /\ current_state \notin Replying /\ TryHandle("START_OF_TURN")
        /\ UNCHANGED <<pc, llm_task, sonnet, asked, extra>> /\ llm_cancelled' = llm_cancelled
    BY <1>3, Zenon DEF OnStartOfTurn, llmVars
  <2>2. current_state \in {"IDLE", "USER_SPEAKING", "BARGE_IN_DETECTED"} /\ StateTypeOK
    BY <2>1 DEF QueuesOK, StateTypeOK, State, Replying
  <2>3. current_state' = "USER_SPEAKING"
    <3>1. CASE Handle("START_OF_TURN")
      BY <2>1, <2>2, <3>1, HandleCases
    <3>2. CASE ~Accepts("START_OF_TURN") /\ UNCHANGED smVars
      BY <2>2, <3>2, Accepted DEF smVars
    <3> QED
      BY <2>1, <3>1, <3>2 DEF TryHandle
  <2>4. TurnOrder'
    BY <1>1, <2>3, TurnTaken DEF AccountInv, InTurn
  <2>5. RepliesWaiting' \subseteq RepliesWaiting /\ CallsOnce'
    BY <1>1, <2>1, RepliesTaken DEF AccountInv
  <2>6. Answers' \subseteq Answers
    BY <2>1, <2>5, AnswersShrink
  <2>7. ~ReplyIsDue /\ pc' = "ready"
    BY <1>1, <2>1, <2>2 DEF ReplyIsDue
  <2> QED
    BY <2>1, <2>4, <2>5, <2>6, <2>7, AccountLess
<1> QED
  BY <1>2, <1>3

\* The end of a turn, which the caller has: all answers there are are accounted for, and
\* those it lets through are counted.
LEMMA AccountEnd ==
  ASSUME QueuesOK, AccountInv, OnEndOfTurn
  PROVE  AccountInv'
<1>1. /\ Take("end_of_turn") /\ TryHandle("END_OF_TURN") /\ dg_in_turn' = dg_in_turn
      /\ pc = "ready" /\ pc' = "ready" /\ StateTypeOK
  BY TakeType DEF OnEndOfTurn, dgVars, QueuesOK
<1>2. TurnOrder' /\ InTurn
  BY <1>1, TurnTaken DEF AccountInv
<1>3. ~ReplyIsDue /\ Cardinality(Answers) <= extra
  BY <1>2 DEF AccountInv, InTurn, ReplyIsDue
<1>4. CASE UNCHANGED llmVars
  <2>1. UNCHANGED <<llm_task, sonnet, asked, extra>> /\ llm_cancelled' = llm_cancelled
    BY <1>4, Zenon DEF llmVars
  <2>2. RepliesWaiting' \subseteq RepliesWaiting /\ CallsOnce'
    BY <1>1, <2>1, RepliesTaken DEF AccountInv
  <2>3. Answers' \subseteq Answers
    BY <2>1, <2>2, AnswersShrink
  <2> QED
    BY <1>1, <1>2, <1>3, <2>1, <2>2, <2>3, AccountLess
<1>5. ASSUME Accepts("END_OF_TURN"), llm_cancelled' = FALSE, asked' = asked + 1,
             llm_task' = asked + 1, sonnet' = sonnet \cup {asked + 1},
             extra' = extra + (IF llm_cancelled THEN Cardinality(RepliesWaiting) ELSE 0)
      PROVE  AccountInv'
  <2>1. ReplyIsDue'
    <3>1. Handle("END_OF_TURN")
      BY <1>1, <1>5 DEF TryHandle
    <3>2. current_state' = "PROCESSING"
      BY <1>1, <1>2, <3>1, HandleCases DEF InTurn
    <3> QED
      BY <3>2 DEF ReplyIsDue
  <2>2. /\ event_queue \in Seq(QueuedEvent) /\ event_queue' = Tail(event_queue)
        /\ event_queue # <<>>
    BY <1>1, TakeType DEF QueuesOK
  <2>3. \A i \in 1..Len(event_queue') : /\ i \in Nat /\ i + 1 \in 1..Len(event_queue)
                                       /\ event_queue'[i] = event_queue[i + 1]
    BY <2>2, TailItem
  <2>4. RepliesWaiting' \subseteq RepliesWaiting
    BY <2>3 DEF RepliesWaiting
  <2>5. CallsOnce'
    <3>1. ASSUME NEW i \in 1..Len(event_queue'), NEW j \in 1..Len(event_queue'),
                 IsFull(i)', IsFull(j)', event_queue'[i].task = event_queue'[j].task
          PROVE  i = j
      <4>1. i + 1 = j + 1
        BY <2>3, <3>1 DEF AccountInv, CallsOnce, IsFull
      <4> QED
        BY <2>3, <4>1
    <3>2. /\ sonnet \subseteq 1..asked /\ RepliesWaiting \subseteq (1..asked) \ sonnet
          /\ asked \in Nat
      BY DEF AccountInv, CallsOnce, QueuesOK
    <3>3. sonnet' \subseteq 1..asked' /\ RepliesWaiting' \subseteq (1..asked') \ sonnet'
      BY <1>5, <2>4, <3>2
    <3> QED
      BY <3>1, <3>3 DEF CallsOnce
  <2>6. /\ IsFiniteSet(sonnet) /\ Cardinality(sonnet) \in Nat /\ IsFiniteSet(RepliesWaiting)
        /\ Cardinality(RepliesWaiting) \in Nat /\ extra \in Nat /\ IsFiniteSet(Answers)
    BY AnswersFinite, RepliesFinite, FS_CardinalityType DEF AccountInv, QueuesOK
  <2>7. /\ Answers' \ {llm_task'} \subseteq sonnet \cup RepliesWaiting
        /\ llm_cancelled => Answers = sonnet
        /\ ~llm_cancelled => Answers = sonnet \cup RepliesWaiting
    BY <1>5, <2>4 DEF Answers
  <2>8. Cardinality(sonnet \cup RepliesWaiting) <= extra'
    <3>1. CASE llm_cancelled
      <4>1. Cardinality(sonnet \cup RepliesWaiting) <=
              Cardinality(sonnet) + Cardinality(RepliesWaiting)
        BY <2>6, UnionCounted
      <4>2. Cardinality(sonnet) <= extra /\ extra' = extra + Cardinality(RepliesWaiting)
        BY <1>3, <1>5, <2>7, <3>1
      <4>3. Cardinality(sonnet \cup RepliesWaiting) \in Nat
        BY <2>6, UnionCounted, FS_CardinalityType
      <4> QED
        BY <2>6, <4>1, <4>2, <4>3
    <3>2. CASE ~llm_cancelled
      BY <1>3, <1>5, <2>6, <2>7, <3>2
    <3> QED
      BY <3>1, <3>2
  <2>9. Cardinality(Answers' \ {llm_task'}) <= extra'
    <3>1. IsFiniteSet(sonnet \cup RepliesWaiting)
      BY <2>6, UnionCounted
    <3>2. /\ Cardinality(Answers' \ {llm_task'}) <= Cardinality(sonnet \cup RepliesWaiting)
          /\ Cardinality(Answers' \ {llm_task'}) \in Nat
          /\ Cardinality(sonnet \cup RepliesWaiting) \in Nat
      BY <2>7, <3>1, FewerCounted
    <3>3. extra' \in Nat
      BY <1>5, <2>6
    <3> QED
      BY <2>8, <3>2, <3>3
  <2> QED
    BY <1>1, <1>2, <2>1, <2>5, <2>9 DEF AccountInv
<1> QED
  BY <1>4, <1>5 DEF OnEndOfTurn

\* The reply that is accepted leaves the answers that are accounted for.
LEMMA AccountReplies ==
  ASSUME QueuesOK, AccountInv,
         OnLlmFillerReady \/ OnLlmFullReady \/ OnTtsFirstByte \/ OnTtsPlaybackDone
  PROVE  AccountInv'
<1>a. pc = "ready" /\ StateTypeOK
  BY TakeType DEF OnLlmFillerReady, OnLlmFullReady, OnTtsFirstByte, OnTtsPlaybackDone, QueuesOK
<1>b. /\ UNCHANGED <<llm_task, sonnet, asked, extra>> /\ llm_cancelled' = llm_cancelled
      /\ dg_in_turn' = dg_in_turn /\ pc' = "ready"
  <2>1. UNCHANGED <<llmVars, dgVars, pc>>
    BY DEF OnLlmFillerReady, OnLlmFullReady, OnTtsFirstByte, OnTtsPlaybackDone
  <2> QED
    BY <1>a, <2>1, Zenon DEF llmVars, dgVars
<1>c. ASSUME NEW type, Take(type), type \notin {"start_of_turn", "end_of_turn"},
             InTurn => InTurn', ReplyIsDue => ReplyIsDue'
      PROVE  AccountInv'
  <2>1. TurnOrder'
    BY <1>b, <1>c, TurnTaken DEF AccountInv
  <2>2. RepliesWaiting' \subseteq RepliesWaiting /\ CallsOnce'
    BY <1>b, <1>c, RepliesTaken DEF AccountInv
  <2>3. Answers' \subseteq Answers
    BY <1>b, <2>2, AnswersShrink
  <2> QED
    BY <1>b, <1>c, <2>1, <2>2, <2>3, AccountLess
<1>1. CASE OnLlmFillerReady
  <2>1. Take("llm_filler_ready") /\ (Handle("LLM_FILLER_READY") \/ UNCHANGED smVars)
    BY <1>1 DEF OnLlmFillerReady
  <2>2. \/ current_state = "PROCESSING" /\ current_state' = "FILLER_RESPONSE"
        \/ current_state' = current_state
    BY <1>a, <2>1, HandleCases DEF smVars
  <2> QED
    BY <1>c, <2>1, <2>2 DEF InTurn, ReplyIsDue
<1>2. CASE OnLlmFullReady
  <2>1. Take("llm_full_ready")
    BY <1>2 DEF OnLlmFullReady
  <2>2. CASE current_state' = current_state
    BY <1>c, <2>1, <2>2 DEF InTurn, ReplyIsDue
  <2>3. CASE current_state' # current_state
    <3>1. ~llm_cancelled /\ Handle("LLM_FULL_READY")
      BY <1>2, <2>3 DEF OnLlmFullReady, TryHandle, smVars
    <3>2. ~InTurn
      BY <1>a, <3>1, HandleCases DEF InTurn
    <3>3. TurnOrder'
      BY <1>b, <2>1, <3>2, TurnTaken DEF AccountInv
    <3>4. /\ RepliesWaiting' \subseteq RepliesWaiting /\ CallsOnce'
          /\ \E t \in RepliesWaiting : t \notin sonnet /\ t \notin RepliesWaiting'
      BY <1>b, <2>1, RepliesTaken DEF AccountInv
    <3>5. PICK t \in RepliesWaiting : t \notin sonnet /\ t \notin RepliesWaiting'
      BY <3>4
    <3>6. t \in Answers /\ Answers' \subseteq Answers \ {t}
      BY <1>b, <3>1, <3>4, <3>5 DEF Answers
    <3>7. IsFiniteSet(Answers) /\ extra \in Nat
      BY AnswersFinite DEF AccountInv, QueuesOK
    <3>8. Cardinality(Answers \ {t}) <= Cardinality(Answers \ {llm_task})
      BY <3>6, <3>7, OneLessCounted
    <3>9. IsFiniteSet(Answers \ {t}) /\ IsFiniteSet(Answers \ {llm_task})
      BY <3>7, FewerCounted
    <3>10. /\ IsFiniteSet(Answers') /\ Cardinality(Answers') <= Cardinality(Answers \ {t})
           /\ Cardinality(Answers') \in Nat /\ Cardinality(Answers \ {t}) \in Nat
           /\ Cardinality(Answers \ {llm_task}) \in Nat
      BY <3>6, <3>9, FewerCounted
    <3>11. Cardinality(Answers') <= extra'
      BY <1>b, <3>7, <3>8, <3>10 DEF AccountInv
    <3>12. Cardinality(Answers' \ {llm_task'}) <= extra'
      <4>1. /\ Cardinality(Answers' \ {llm_task'}) <= Cardinality(Answers')
            /\ Cardinality(Answers' \ {llm_task'}) \in Nat
        BY <3>10, FewerCounted
      <4> QED
        BY <1>b, <3>7, <3>10, <3>11, <4>1
    <3> QED
      BY <1>b, <3>3, <3>4, <3>11, <3>12 DEF AccountInv
  <2> QED
    BY <2>2, <2>3
<1>3. CASE OnTtsFirstByte
  <2>1. Take("tts_first_byte") /\ TryHandle("TTS_AUDIO_READY")
    BY <1>3 DEF OnTtsFirstByte
  <2>2. current_state' = current_state
    BY <1>a, <2>1, HandleCases DEF TryHandle, smVars
  <2> QED
    BY <1>c, <2>1, <2>2 DEF InTurn, ReplyIsDue
<1>4. CASE OnTtsPlaybackDone
  <2>1. Take("tts_playback_done") /\ TryHandle("TTS_PLAYBACK_DONE")
    BY <1>4 DEF OnTtsPlaybackDone
  <2>2. \/ current_state' = current_state
        \/ current_state = "BOT_SPEAKING" /\ current_state' = "IDLE"
    BY <1>a, <2>1, HandleCases DEF TryHandle, smVars
  <2> QED
    BY <1>c, <2>1, <2>2 DEF InTurn, ReplyIsDue
<1> QED
  BY <1>1, <1>2, <1>3, <1>4

\* The rest of a barge-in.  It forgets the task it has cancelled, which is among the
\* answers no more.
LEMMA AccountAwaits ==
  ASSUME QueuesOK, AccountInv, pc # "stopped", LlmTaskCancelled \/ SynthesisCancelled
  PROVE  AccountInv'
<1>1. /\ pc # "ready" /\ UNCHANGED <<event_queue, sonnet, asked, extra>>
      /\ llm_cancelled' = llm_cancelled /\ dg_in_turn' = dg_in_turn
  <2>1. /\ pc # "ready" /\ UNCHANGED <<event_queue, dgVars>>
        /\ UNCHANGED <<llm_cancelled, sonnet, asked, extra>>
    BY DEF LlmTaskCancelled, SynthesisCancelled, llmVars
  <2> QED
    BY <2>1, Zenon DEF dgVars
<1>2. /\ pc' # "ready" => current_state' = "BARGE_IN_DETECTED"
      /\ current_state' \in {"USER_SPEAKING", "BARGE_IN_DETECTED"}
  BY DrainSpeechCases, SendClearCases DEF LlmTaskCancelled, SynthesisCancelled
<1>3. Cardinality(Answers) <= extra /\ IsFiniteSet(Answers) /\ extra \in Nat
  BY <1>1, AnswersFinite DEF AccountInv, ReplyIsDue, QueuesOK
<1>4. TurnOrder'
  <2>1. InTurn'
    BY <1>2 DEF InTurn
  <2> QED
    BY <1>1, <2>1 DEF AccountInv, TurnOrder, IsStart, IsEnd
<1>5. CallsOnce' /\ Answers' = Answers
  <2>1. RepliesWaiting' = RepliesWaiting
    BY <1>1 DEF RepliesWaiting
  <2>2. CallsOnce'
    BY <1>1, <2>1 DEF AccountInv, CallsOnce, IsFull
  <2>3. Answers' = Answers
    BY <1>1, <2>1, Zenon DEF Answers
  <2> QED
    BY <2>2, <2>3
<1>6. Cardinality(Answers' \ {llm_task'}) <= extra'
  <2>1. /\ Cardinality(Answers \ {llm_task'}) <= Cardinality(Answers)
        /\ Cardinality(Answers \ {llm_task'}) \in Nat /\ Cardinality(Answers) \in Nat
    BY <1>3, FewerCounted
  <2> QED
    BY <1>1, <1>3, <1>5, <2>1
<1> QED
  BY <1>1, <1>2, <1>3, <1>4, <1>5, <1>6 DEF AccountInv

\* The one answer of a Sonnet call: it was under way and still is, or there is none.
LEMMA AccountArrives ==
  ASSUME QueuesOK, AccountInv, NEW t \in 1..MaxTurns, SonnetSettles(t)
  PROVE  AccountInv'
<1>1. /\ t \in sonnet /\ sonnet' = sonnet \ {t}
      /\ UNCHANGED <<current_state, pc, llm_task, asked, extra>>
      /\ llm_cancelled' = llm_cancelled /\ dg_in_turn' = dg_in_turn
      /\ event_queue' \in {event_queue, Append(event_queue, Reply("llm_full_ready", t))}
  <2>1. /\ t \in sonnet /\ sonnet' = sonnet \ {t} /\ UNCHANGED <<smVars, dgVars, pc>>
        /\ UNCHANGED <<llm_task, llm_cancelled, asked, extra>>
        /\ event_queue' \in {event_queue, Append(event_queue, Reply("llm_full_ready", t))}
    BY DEF SonnetSettles, Push
  <2> QED
    BY <2>1, Zenon DEF smVars, dgVars
<1>2. PICK e \in QueuedEvent : /\ e.type = "llm_full_ready" /\ e.task = t
                              /\ event_queue' \in {event_queue, Append(event_queue, e)}
  <2>1. t \in Nat
    BY BoundsAssumption DEF BoundsAssumption
  <2> QED
    BY <1>1, <2>1, QueueItems DEF EventType
<1>3. TurnOrder'
  <2>1. InTurn => InTurn'
    BY <1>1 DEF InTurn
  <2> QED
    BY <1>1, <1>2, <2>1, TurnPushed DEF AccountInv
<1>4. t \notin RepliesWaiting /\ t \in 1..asked
  BY <1>1 DEF AccountInv, CallsOnce
<1>5. RepliesWaiting' \subseteq RepliesWaiting \cup {t} /\ CallsOnce'
  <2>1. /\ RepliesWaiting' \subseteq RepliesWaiting \cup {t}
        /\ \A i, j \in 1..Len(event_queue') :
             IsFull(i)' /\ IsFull(j)' /\ event_queue'[i].task = event_queue'[j].task => i = j
    BY <1>2, <1>4, RepliesPushed DEF AccountInv
  <2> QED
    BY <1>1, <1>4, <2>1 DEF AccountInv, CallsOnce
<1>6. Answers' \subseteq Answers
  <2>1. CASE llm_cancelled
    BY <1>1, <2>1 DEF Answers
  <2>2. CASE ~llm_cancelled
    BY <1>1, <1>5, <2>2 DEF Answers
  <2> QED
    BY <2>1, <2>2
<1> QED
  BY <1>1, <1>3, <1>5, <1>6, AccountLess DEF AccountInv, ReplyIsDue

LEMMA AccountSignals ==
  ASSUME QueuesOK, AccountInv, DeepgramStartOfTurn \/ DeepgramEndOfTurn
  PROVE  AccountInv'
<1>1. /\ UNCHANGED <<current_state, pc, llm_task, sonnet, asked, extra>>
      /\ llm_cancelled' = llm_cancelled
  <2>1. UNCHANGED <<smVars, pc, llmVars>>
    BY DEF DeepgramStartOfTurn, DeepgramEndOfTurn, TurnSignal
  <2> QED
    BY <2>1, Zenon DEF smVars, llmVars
<1>2. PICK e \in QueuedEvent :
        /\ event_queue' = Append(event_queue, e)
        /\ \/ e.type = "start_of_turn"
           \/ e.type = "end_of_turn" /\ dg_in_turn /\ dg_in_turn' = FALSE
  BY QueueItems DEF DeepgramStartOfTurn, DeepgramEndOfTurn, Push, EventType
<1>3. TurnOrder'
  BY <1>1, <1>2, TurnPushed DEF AccountInv, InTurn
<1>4. RepliesWaiting' \subseteq RepliesWaiting /\ CallsOnce'
  BY <1>1, <1>2, RepliesPushed DEF AccountInv, CallsOnce
<1>5. Answers' \subseteq Answers
  BY <1>1, <1>4, AnswersShrink
<1> QED
  BY <1>1, <1>3, <1>4, <1>5, AccountLess DEF AccountInv, ReplyIsDue

\* However often the caller speaks over the bot, and whatever waits in the queue then,
\* a barge-in leaves no answer behind and no turn asks twice: there is one answer under
\* way for the caller who waits and one for each dropped reply that an end of turn let
\* through again (cancel_pipeline, process_events).
THEOREM EveryAnswerIsAccountedFor == Spec => []AnswersAreAccountedFor
<1> DEFINE Inv == pc # "stopped" => AccountInv
<1>1. Init => Inv
  <2> SUFFICES ASSUME Init
               PROVE  AccountInv
    OBVIOUS
  <2>1. /\ event_queue = <<>> /\ sonnet = {} /\ asked = 0 /\ extra = 0 /\ pc = "ready"
        /\ dg_in_turn = FALSE
    BY DEF Init
  <2>2. RepliesWaiting = {} /\ Answers = {} /\ Answers \ {llm_task} = {}
    BY <2>1 DEF RepliesWaiting, Answers
  <2>3. Cardinality({}) = 0
    BY FS_EmptySet
  <2> QED
    BY <2>1, <2>2, <2>3 DEF AccountInv, TurnOrder, CallsOnce
<1>2. QueuesOK /\ Inv /\ [Next]_vars => Inv'
  <2> SUFFICES ASSUME QueuesOK, Inv, [Next]_vars, pc' # "stopped"
               PROVE  AccountInv'
    OBVIOUS
  <2> USE DEF smVars, llmVars, dgVars
  <2>a. pc # "stopped"
    <3>1. CASE ProcessEvents
      BY <3>1, TakeType DEF ProcessEvents, OnStartOfTurn, OnEndOfTurn, OnLlmFillerReady,
         OnLlmFullReady, OnTtsFirstByte, OnTtsPlaybackDone, LlmTaskCancelled,
         SynthesisCancelled
    <3>2. CASE UNCHANGED pc
      BY <3>2
    <3> QED
      BY <3>1, <3>2 DEF Next, TtsWorker, GetShutdown, GetTurnEnd, GetSpeech, Get, FirstChunk,
         SynthesisEnds, LlmCalls, HaikuSettles, SonnetSettles, StreamStarts, SetupSpeaks,
         SocketLost, EndOfCall, LoopEnds, WorkerTimeout, WorkerFailed, CancelIsLost, CleanUp,
         DeepgramStartOfTurn, DeepgramEndOfTurn, TurnSignal, vars
  <2>b. AccountInv
    BY <2>a
  <2>e. /\ Signal("tts_first_byte") \in QueuedEvent
        /\ Signal("tts_first_byte").type = "tts_first_byte"
    BY QueueItems DEF EventType
  <2>1. CASE ProcessEvents
    BY <2>1, <2>a, <2>b, AccountStart, AccountEnd, AccountReplies, AccountAwaits
       DEF ProcessEvents
  <2>2. CASE TtsWorker
    <3>1. CASE GetTurnEnd
      BY <2>b, <3>1, DoneEvent, AccountSame DEF GetTurnEnd, Get, Push
    <3>2. CASE GetShutdown \/ GetSpeech
      BY <2>b, <3>2, <2>e, AccountSame DEF GetShutdown, GetSpeech, Get
    <3>3. CASE FirstChunk \/ SynthesisEnds
      BY <2>b, <3>3, <2>e, AccountSame DEF FirstChunk, SynthesisEnds, Push
    <3> QED
      BY <2>2, <3>1, <3>2, <3>3 DEF TtsWorker
  <2>3. CASE LlmCalls
    <3>1. PICK t \in 1..MaxTurns : HaikuSettles(t) \/ SonnetSettles(t)
      BY <2>3 DEF LlmCalls
    <3>2. CASE HaikuSettles(t)
      <4>1. t \in Nat
        BY BoundsAssumption DEF BoundsAssumption
      <4>2. /\ Reply("llm_filler_ready", t) \in QueuedEvent
            /\ Reply("llm_filler_ready", t).type = "llm_filler_ready"
        BY <4>1, QueueItems DEF EventType
      <4> QED
        BY <2>b, <3>2, <4>2, AccountSame DEF HaikuSettles, Push
    <3> QED
      BY <2>b, <3>1, <3>2, AccountArrives
  <2>4. CASE StreamStarts \/ SetupSpeaks \/ SocketLost \/ UNCHANGED vars
    BY <2>b, <2>4, <2>e, AccountSame DEF StreamStarts, SetupSpeaks, SocketLost, vars
  <2>5. CASE LoopEnds \/ WorkerTimeout \/ WorkerFailed \/ CancelIsLost
    BY <2>b, <2>5, <2>e, AccountSame DEF LoopEnds, WorkerTimeout, WorkerFailed, CancelIsLost
  <2>6. CASE CleanUp
    BY <2>6 DEF CleanUp
  <2>7. CASE DeepgramStartOfTurn \/ DeepgramEndOfTurn
    BY <2>b, <2>7, AccountSignals
  <2> QED
    BY <2>1, <2>2, <2>3, <2>4, <2>5, <2>6, <2>7 DEF Next, EndOfCall
<1>3. QueuesOK /\ Inv => AnswersAreAccountedFor
  <2> SUFFICES ASSUME QueuesOK, AccountInv, ReplyIsDue
               PROVE  Cardinality(Answers) <= extra + 1
    <3>1. ASSUME AccountInv, QueuesOK, ~ReplyIsDue
          PROVE  Cardinality(Answers) <= extra + 0
      BY <3>1 DEF AccountInv, QueuesOK
    <3> QED
      BY <3>1 DEF AnswersAreAccountedFor, ReplyIsDue
  <2>1. IsFiniteSet(Answers) /\ extra \in Nat
    BY AnswersFinite DEF AccountInv, QueuesOK
  <2>2. Cardinality(Answers) \in Nat
    BY <2>1, FS_CardinalityType
  <2>3. Cardinality(Answers \ {llm_task}) \in {Cardinality(Answers), Cardinality(Answers) - 1}
    BY <2>1, FS_RemoveElement
  <2> QED
    BY <2>1, <2>2, <2>3 DEF AccountInv
<1> QED
  BY <1>1, <1>2, <1>3, TypeInvariant, PTL DEF Spec
=============================================================================

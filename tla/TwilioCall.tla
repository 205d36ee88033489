------------------------------ MODULE TwilioCall ------------------------------
(***************************************************************************)
(* One phone call: handle_twilio_media of src/server.py.                   *)
(*                                                                         *)
(* The tasks are those of a browser call (BrowserCall) without the silence *)
(* policy, and setup_session, which runs beside the greeting.  There is no *)
(* detector to confirm a barge-in: a start of turn during a reply is one.  *)
(* A step is what the code does between two awaits at which another task   *)
(* can make a difference.                                                  *)
(***************************************************************************)
EXTENDS StateMachine, Sequences, FiniteSets

CONSTANTS
  MaxTurns,   \* bound: StartOfTurn signals Deepgram sends in the call
  MaxBacklog, \* bound: a turn signal waits behind fewer events than this
  MaxWords    \* bound: how often the set-up speaks (at most 2 in the code)

ASSUME BoundsAssumption == {MaxTurns, MaxBacklog, MaxWords} \subseteq Nat

VARIABLES
  event_queue,        \* [type, task, own]: what process_events has still to handle
  tts_queue,          \* [kind, cut, own]: what tts_worker has still to speak
  pc,                 \* process_events: "ready", or where cancel_pipeline awaits
  llm_task,           \* the LLM task the handler holds; 0 is None
  llm_cancelled,
  haiku, sonnet,      \* LLM tasks whose Haiku, whose Sonnet call is still running
  asked,              \* LLM tasks created so far
  extra,              \* ghost: dropped answers that an end of turn let through
  worker,             \* tts_worker: "idle", "requested", "streaming", "stopped", "dead"
  speaking,           \* the item tts_worker is synthesizing
  first_byte_of_turn,
  tts_cancel_event,
  stream_sid,         \* whether the start event has come
  setup,              \* how often setup_session may still speak
  loop,               \* receiving loop and its "finally": "reading", "draining",
                      \* "joining", "closed", "aborted"
  socket,             \* whether Twilio's side of the socket is up
  cut,                \* ghost: barge-ins completed
  dg_in_turn,         \* Deepgram: between a StartOfTurn and its EndOfTurn
  turn_index          \* Deepgram: StartOfTurn signals so far

llmVars    == <<llm_task, llm_cancelled, haiku, sonnet, asked, extra>>
workerVars == <<worker, speaking, first_byte_of_turn, tts_cancel_event>>
setupVars  == <<stream_sid, setup>>
callVars   == <<loop, socket>>
dgVars     == <<dg_in_turn, turn_index>>
vars == <<smVars, event_queue, tts_queue, pc, llmVars, workerVars, setupVars, callVars,
          cut, dgVars>>

\* "own" tells the reply to the caller from the greeting and the set-up's words,
\* "task" the LLM task of a reply and "cut" how many barge-ins came before.
\* Slip: an event without its data.
SignalBare(type) == [type |-> type]

Signal(type)    == [type |-> type, task |-> 0, own |-> "call"]
Reply(type, t)  == [type |-> type, task |-> t, own |-> "reply"]
Push(e)         == event_queue' = Append(event_queue, e)
Item(kind, own) == [kind |-> kind, cut |-> cut, own |-> own]
Nothing         == [kind |-> "speech", cut |-> 0, own |-> "none"]

Synthesizing    == worker \in {"requested", "streaming"}
LlmTaskRunning  == llm_task \in haiku \cup sonnet
\* Before the start event there is nothing to send with; then a send on a
\* socket that is down raises.
CanSend         == stream_sid => socket

\* The answers that process_events accepts or will, as things stand.
RepliesWaiting ==
  {event_queue[i].task : i \in {j \in 1..Len(event_queue) :
                                   event_queue[j].type = "llm_full_ready"}}
Answers == sonnet \cup (IF llm_cancelled THEN {} ELSE RepliesWaiting)

Init ==
  /\ InitialState
  /\ event_queue = <<>> /\ tts_queue = <<>> /\ pc = "ready"
  /\ llm_task = 0 /\ llm_cancelled = FALSE /\ haiku = {} /\ sonnet = {} /\ asked = 0 /\ extra = 0
  /\ worker = "idle" /\ speaking = Nothing
  /\ first_byte_of_turn = TRUE /\ tts_cancel_event = FALSE
  /\ stream_sid = FALSE /\ setup = 0
  /\ loop = "reading" /\ socket = TRUE
  /\ cut = 0
  /\ dg_in_turn = FALSE /\ turn_index = 0

-----------------------------------------------------------------------------
\* The start event.  With both numbers the greeting is queued at once; then a
\* tenant's session is set up beside it, or the turn ends with the greeting.
StreamStarts ==
  /\ ~stream_sid /\ loop = "reading" /\ socket
  /\ stream_sid' = TRUE
  /\ \/ UNCHANGED <<setup, tts_queue>>
     \/ /\ tts_queue' = tts_queue \o <<Item("speech", "setup"), Item("turn_end", "setup")>>
        /\ UNCHANGED setup
     \/ /\ tts_queue' = Append(tts_queue, Item("speech", "setup"))
        /\ setup' = MaxWords
  /\ UNCHANGED <<smVars, event_queue, pc, llmVars, workerVars, callVars, cut, dgVars>>

\* setup_session asks for the caller's name, with the tools configured or without
\* (CallRecords), whatever has become of the call; and a second time if it had
\* configured them and then fails to close its session.
SetupSpeaks ==
  /\ setup > 0
  /\ setup' \in {0, setup - 1}
  /\ tts_queue' = tts_queue \o <<Item("speech", "setup"), Item("turn_end", "setup")>>
  /\ UNCHANGED <<smVars, event_queue, pc, llmVars, workerVars, stream_sid, callVars,
                 cut, dgVars>>

-----------------------------------------------------------------------------
\* cancel_pipeline, and START_OF_TURN after it.

\* The clear event; without a socket the handler ends here.
SendClear ==
  /\ pc' = "ready"
  /\ current_state' = IF CanSend THEN "USER_SPEAKING" ELSE "BARGE_IN_DETECTED"
  /\ cut' = IF CanSend THEN cut + 1 ELSE cut

\* Slip: the worker is not signalled.
DrainSpeechUnsignalled ==
  /\ tts_queue' = <<>>
  /\ UNCHANGED tts_cancel_event
  /\ IF Synthesizing
     THEN pc' = "await_tts" /\ current_state' = "BARGE_IN_DETECTED" /\ UNCHANGED cut
     ELSE SendClear

DrainSpeech ==
  /\ tts_queue' = <<>>
  /\ tts_cancel_event' = TRUE
  /\ IF Synthesizing
     THEN pc' = "await_tts" /\ current_state' = "BARGE_IN_DETECTED" /\ UNCHANGED cut
     ELSE SendClear

\* Slip: the LLM task is marked as cancelled but goes on.
BargeInKeepsLlm ==
  /\ llm_cancelled' = TRUE
  /\ UNCHANGED <<turn_id, llm_task, asked, extra, haiku, sonnet>>
  /\ DrainSpeech

BargeIn ==
  /\ llm_cancelled' = TRUE
  /\ UNCHANGED <<turn_id, llm_task, asked, extra>>
  /\ IF LlmTaskRunning
     THEN /\ haiku' = haiku \ {llm_task} /\ sonnet' = sonnet \ {llm_task}
          /\ pc' = "await_llm" /\ current_state' = "BARGE_IN_DETECTED"
          /\ UNCHANGED <<tts_queue, tts_cancel_event, cut>>
     ELSE UNCHANGED <<haiku, sonnet>> /\ DrainSpeech

LlmTaskCancelled ==
  /\ pc = "await_llm"
  /\ llm_task' = 0
  /\ DrainSpeech
  /\ UNCHANGED <<turn_id, event_queue, llm_cancelled, haiku, sonnet, asked, extra, worker,
                 speaking, first_byte_of_turn, setupVars, callVars, dgVars>>

SynthesisCancelled ==
  /\ pc = "await_tts"
  /\ SendClear
  /\ UNCHANGED <<turn_id, event_queue, tts_queue, llmVars, workerVars, setupVars, callVars, dgVars>>

-----------------------------------------------------------------------------
\* process_events: one action per event type.

Take(type) ==
  /\ pc = "ready"
  /\ event_queue # <<>> /\ Head(event_queue).type = type
  /\ event_queue' = Tail(event_queue)

OnStartOfTurn ==
  /\ Take("start_of_turn")
  /\ \/ current_state \in Replying /\ BargeIn
     \/ /\ current_state \notin Replying
        /\ TryHandle("START_OF_TURN")      \* not sent, and not accepted, in USER_SPEAKING
        /\ UNCHANGED <<tts_queue, pc, llmVars, tts_cancel_event, cut>>
  /\ UNCHANGED <<worker, speaking, first_byte_of_turn, setupVars, callVars,
                 dgVars>>

\* The transcript is recorded and the LLM asked, unless handle raises or the
\* transcript is empty.
OnEndOfTurn ==
  /\ Take("end_of_turn")
  /\ TryHandle("END_OF_TURN")
  /\ \/ /\ Accepts("END_OF_TURN")
        /\ llm_cancelled' = FALSE
        /\ asked' = asked + 1 /\ llm_task' = asked + 1
        /\ haiku' = haiku \cup {asked + 1} /\ sonnet' = sonnet \cup {asked + 1}
        /\ extra' = extra + (IF llm_cancelled THEN Cardinality(RepliesWaiting) ELSE 0)
     \/ UNCHANGED llmVars
  /\ UNCHANGED <<tts_queue, pc, workerVars, setupVars, callVars, cut, dgVars>>

\* The filler is queued unless handle raises.
OnLlmFillerReady ==
  /\ Take("llm_filler_ready")
  /\ IF ~llm_cancelled /\ Accepts("LLM_FILLER_READY")
     THEN /\ Handle("LLM_FILLER_READY")
          /\ tts_queue' = Append(tts_queue, Item("speech", "reply"))
     ELSE UNCHANGED <<smVars, tts_queue>>
  /\ UNCHANGED <<pc, llmVars, workerVars, setupVars, callVars, cut, dgVars>>

\* Slip: the end sentinel is forgotten.
OnLlmFullReadyNoEnd ==
  /\ Take("llm_full_ready")
  /\ IF llm_cancelled
     THEN UNCHANGED <<smVars, tts_queue>>
     ELSE /\ tts_queue' = Append(tts_queue, Item("speech", "reply"))
          /\ TryHandle("LLM_FULL_READY")
  /\ UNCHANGED <<pc, llmVars, workerVars, setupVars, callVars, cut, dgVars>>

\* Streamed sentences and the text of a reply with tools count as one item.  They
\* are queued before handle can raise.
OnLlmFullReady ==
  /\ Take("llm_full_ready")
  /\ IF llm_cancelled
     THEN UNCHANGED <<smVars, tts_queue>>
     ELSE /\ tts_queue' = tts_queue \o <<Item("speech", "reply"), Item("turn_end", "reply")>>
          /\ TryHandle("LLM_FULL_READY")
  /\ UNCHANGED <<pc, llmVars, workerVars, setupVars, callVars, cut, dgVars>>

OnTtsFirstByte ==
  /\ Take("tts_first_byte")
  /\ TryHandle("TTS_AUDIO_READY")
  /\ UNCHANGED <<tts_queue, pc, llmVars, workerVars, setupVars, callVars, cut,
                 dgVars>>

OnTtsPlaybackDone ==
  /\ Take("tts_playback_done")
  /\ TryHandle("TTS_PLAYBACK_DONE")
  /\ UNCHANGED <<tts_queue, pc, llmVars, workerVars, setupVars, callVars, cut, dgVars>>

ProcessEvents ==
  \/ OnStartOfTurn \/ OnEndOfTurn \/ OnLlmFillerReady \/ OnLlmFullReady
  \/ OnTtsFirstByte \/ OnTtsPlaybackDone \/ LlmTaskCancelled \/ SynthesisCancelled
-----------------------------------------------------------------------------
\* tts_worker.

Get(kind) ==
  /\ worker = "idle"
  /\ tts_queue # <<>> /\ Head(tts_queue).kind = kind
  /\ tts_queue' = Tail(tts_queue)
  /\ UNCHANGED <<smVars, pc, llmVars, setupVars, callVars, cut, dgVars>>

GetShutdown ==
  /\ Get("shutdown")
  /\ worker' = "stopped"
  /\ UNCHANGED <<event_queue, speaking, first_byte_of_turn, tts_cancel_event>>

\* The playback event, then the mark for Twilio, whose send may end the task.
GetTurnEnd ==
  /\ Get("turn_end")
  /\ Push([type |-> "tts_playback_done", task |-> 0, own |-> Head(tts_queue).own])
  /\ worker' = IF CanSend THEN "idle" ELSE "dead"
  /\ first_byte_of_turn' = (first_byte_of_turn \/ CanSend)
  /\ UNCHANGED <<speaking, tts_cancel_event>>

GetSpeech ==
  /\ Get("speech")
  /\ worker' = "requested"
  /\ speaking' = Head(tts_queue)
  /\ tts_cancel_event' = FALSE
  /\ UNCHANGED <<event_queue, first_byte_of_turn>>

\* The first chunk of an item.  A send that raises ends the item.
FirstChunk ==
  /\ worker = "requested" /\ ~tts_cancel_event
  /\ worker' = IF CanSend THEN "streaming" ELSE "idle"
  /\ speaking' = IF CanSend THEN speaking ELSE Nothing
  /\ first_byte_of_turn' = FALSE
  /\ IF first_byte_of_turn THEN Push(Signal("tts_first_byte")) ELSE UNCHANGED event_queue
  /\ UNCHANGED <<smVars, tts_queue, pc, llmVars, tts_cancel_event, setupVars, callVars, cut, dgVars>>

\* The stream ends, fails, or its next chunk finds tts_cancel_event set.
SynthesisEnds ==
  /\ Synthesizing
  /\ worker' = "idle" /\ speaking' = Nothing
  /\ first_byte_of_turn' = (first_byte_of_turn \/ tts_cancel_event)
  /\ UNCHANGED <<smVars, event_queue, tts_queue, pc, llmVars, tts_cancel_event, setupVars,
                 callVars, cut, dgVars>>

TtsWorker == GetShutdown \/ GetTurnEnd \/ GetSpeech \/ FirstChunk \/ SynthesisEnds

-----------------------------------------------------------------------------
\* Each of the two calls of LLM task t settles once, with a reply or without.

HaikuSettles(t) ==
  /\ t \in haiku
  /\ haiku' = haiku \ {t}
  /\ Push(Reply("llm_filler_ready", t)) \/ UNCHANGED event_queue
  /\ UNCHANGED <<smVars, tts_queue, pc, llm_task, llm_cancelled, sonnet, asked, extra,
                 workerVars, setupVars, callVars, cut, dgVars>>

SonnetSettles(t) ==
  /\ t \in sonnet
  /\ sonnet' = sonnet \ {t}
  /\ Push(Reply("llm_full_ready", t)) \/ UNCHANGED event_queue
  /\ UNCHANGED <<smVars, tts_queue, pc, llm_task, llm_cancelled, haiku, asked, extra,
                 workerVars, setupVars, callVars, cut, dgVars>>

\* Once the event processor has stopped nobody takes their events.
LlmCalls == pc # "stopped" /\ \E t \in 1..MaxTurns : HaikuSettles(t) \/ SonnetSettles(t)

-----------------------------------------------------------------------------
\* The end of the call.

SocketLost ==
  /\ socket /\ socket' = FALSE /\ pc # "stopped"
  /\ UNCHANGED <<smVars, event_queue, tts_queue, pc, llmVars, workerVars, setupVars, loop, cut, dgVars>>

\* The stop event, or the socket is down; "finally" asks the worker to stop.
LoopEnds ==
  /\ loop = "reading" /\ (stream_sid \/ ~socket)
  /\ loop' = "draining"
  /\ tts_queue' = Append(tts_queue, Item("shutdown", "call"))
  /\ UNCHANGED <<smVars, event_queue, pc, llmVars, workerVars, setupVars, socket,
                 cut, dgVars>>

\* wait_for(tts_task, 5.0) gives up and cancels the worker.
WorkerTimeout ==
  /\ loop = "draining" /\ worker \notin {"stopped", "dead"}
  /\ worker' = "stopped" /\ speaking' = Nothing
  /\ UNCHANGED <<smVars, event_queue, tts_queue, pc, llmVars, first_byte_of_turn,
                 tts_cancel_event, setupVars, callVars, cut, dgVars>>

\* wait_for raises what ended the worker, and "finally" does nothing more: the
\* event processor and the services are left as they are.
WorkerFailed ==
  /\ loop = "draining" /\ worker = "dead"
  /\ loop' = "aborted"
  /\ UNCHANGED <<smVars, event_queue, tts_queue, pc, llmVars, workerVars, setupVars, socket,
                 cut, dgVars>>

\* event_task.cancel() is lost where cancel_pipeline suppresses it, waiting for
\* the LLM task; then "finally" waits for a task that does not end.
CancelIsLost ==
  /\ loop = "draining" /\ worker = "stopped" /\ pc = "await_llm"
  /\ loop' = "joining"
  /\ UNCHANGED <<smVars, event_queue, tts_queue, pc, llmVars, workerVars, setupVars, socket,
                 cut, dgVars>>

\* Otherwise the event processor ends and the services are closed, of which each
\* may raise.  Then the state machine is reset and, for a tenant's call, the
\* post-call processing started (CallRecords).
CleanUp ==
  /\ loop = "draining" /\ worker = "stopped" /\ pc # "await_llm"
  /\ pc' = "stopped"
  /\ \/ /\ loop' = "closed"
        /\ Reset
     \/ /\ loop' = "aborted"
        /\ UNCHANGED smVars
  /\ UNCHANGED <<event_queue, tts_queue, llmVars, workerVars, setupVars, socket,
                 cut, dgVars>>

EndOfCall == LoopEnds \/ WorkerTimeout \/ WorkerFailed \/ CancelIsLost \/ CleanUp

-----------------------------------------------------------------------------
\* Deepgram, which hears the caller once the stream has started.
TurnSignal ==
  /\ stream_sid /\ pc # "stopped" /\ Len(event_queue) < MaxBacklog
  /\ UNCHANGED <<smVars, tts_queue, pc, llmVars, workerVars, setupVars, callVars,
                 cut>>

DeepgramStartOfTurn ==
  /\ TurnSignal
  /\ ~dg_in_turn /\ turn_index < MaxTurns
  /\ Push(Signal("start_of_turn"))
  /\ dg_in_turn' = TRUE /\ turn_index' = turn_index + 1

DeepgramEndOfTurn ==
  /\ TurnSignal
  /\ dg_in_turn
  /\ Push(Signal("end_of_turn"))
  /\ dg_in_turn' = FALSE /\ UNCHANGED turn_index

Next ==
  \/ StreamStarts \/ SetupSpeaks \/ ProcessEvents \/ TtsWorker \/ LlmCalls
  \/ SocketLost \/ EndOfCall \/ DeepgramStartOfTurn \/ DeepgramEndOfTurn

Spec == Init /\ [][Next]_vars

\* The event loop runs every task that is ready, a synthesis settles, and the
\* receiving loop ends when the socket is down.
FairSpec ==
  /\ Spec /\ WF_vars(ProcessEvents) /\ WF_vars(TtsWorker)
  /\ WF_vars(~socket /\ LoopEnds)
  /\ WF_vars(WorkerTimeout \/ WorkerFailed \/ CancelIsLost \/ CleanUp)

-----------------------------------------------------------------------------
EventType == {"start_of_turn", "end_of_turn", "llm_filler_ready", "llm_full_ready",
              "tts_first_byte", "tts_playback_done"}
ItemType == [kind : {"speech", "turn_end", "shutdown"}, cut : Nat,
             own : {"call", "setup", "reply", "none"}]

\* Every variable has its type (the closures of server.py:654-731).
TypeOK ==
  /\ StateTypeOK
  /\ event_queue \in Seq([type : EventType, task : Nat, own : {"call", "setup", "reply"}])
  /\ tts_queue \in Seq(ItemType)
  /\ pc \in {"ready", "await_llm", "await_tts", "stopped"}
  /\ llm_task \in Nat /\ asked \in Nat /\ extra \in Nat /\ haiku \subseteq Nat /\ sonnet \subseteq Nat
  /\ worker \in {"idle", "requested", "streaming", "stopped", "dead"}
  /\ speaking \in ItemType /\ (Synthesizing <=> speaking # Nothing)
  /\ {llm_cancelled, first_byte_of_turn, tts_cancel_event, socket,
      dg_in_turn, stream_sid} \subseteq BOOLEAN
  /\ setup \in 0..MaxWords
  /\ loop \in {"reading", "draining", "joining", "closed", "aborted"}
  /\ cut \in Nat /\ turn_index \in Nat

\* A reply queued before a barge-in is never sent to the caller after its clear
\* event (server.py:749-762, 851-856).  Only words of the set-up may be: its task
\* does not know of the barge-in.
NothingStaleIsSpoken ==
  Synthesizing /\ speaking.own = "reply" /\ ~tts_cancel_event => speaking.cut = cut

\* The answers under way are the one the caller waits for and, for each dropped reply
\* that an end of turn let through again, one more: a barge-in leaves no other behind,
\* and no turn asks twice (server.py:733-745, 774-793, 806).  A reply is let through
\* when it waits behind an end of turn that waits behind its own start: the end clears
\* llm_cancelled before the reply is seen.
AnswersAreAccountedFor ==
  pc # "stopped" =>
    Cardinality(Answers) <=
      extra + (IF current_state \in {"PROCESSING", "FILLER_RESPONSE"} THEN 1 ELSE 0)

\* A call in BOT_SPEAKING has what will take it out of it (server.py:815, 841-843).
BotSpeakingWillEnd ==
  current_state = "BOT_SPEAKING" /\ worker \notin {"stopped", "dead"} =>
    \/ \E i \in 1..Len(tts_queue) : tts_queue[i].kind = "turn_end"
    \/ \E i \in 1..Len(event_queue) : event_queue[i].type = "tts_playback_done"

\* BOT_SPEAKING is left, by the playback event, a barge-in or the end of the call,
\* unless "finally" itself was cut short (server.py:815, 841, 1001-1020).
BotSpeakingEnds ==
  current_state = "BOT_SPEAKING" ~>
    current_state # "BOT_SPEAKING" \/ loop \in {"joining", "aborted"}
=============================================================================

------------------------------ MODULE AudioInput ------------------------------
(***************************************************************************)
(* What becomes of the caller's audio in a browser call: the detector of   *)
(* src/vad_detector.py and the frames, turns and transcripts of            *)
(* src/deepgram_client.py, between the receiving loop of handle_connection *)
(* in src/server.py, which feeds both, and its event processor.            *)
(*                                                                         *)
(* Audio is counted in units of 128 bytes: a chunk of the browser (20 ms)  *)
(* is 5, a window of the detector (32 ms) 8, a frame for Deepgram (80 ms)  *)
(* 20.  When the processor begins a barge-in is the matter of BrowserCall; *)
(* here it may do so at any speech event, and then resets the detector.    *)
(***************************************************************************)
EXTENDS Naturals, Sequences

CONSTANTS
  Chunk,       \* of the browser
  Window,      \* of the detector
  Frame,       \* of Deepgram
  MinSpeech,   \* loud windows that make a speech start (100 ms: 4)
  MinSilence,  \* quiet windows that make a speech end (300 ms: 10)
  MaxChunks,   \* bound: chunks of the call
  MaxTurns,    \* bound: turns Deepgram hears
  MaxQueue     \* bound: events waiting when audio or a message comes in

ASSUME AudioAssumption ==
  /\ {Chunk, Window, Frame, MinSpeech, MinSilence} \subseteq Nat \ {0}
  /\ Chunk <= Window
  /\ {MaxChunks, MaxTurns, MaxQueue} \subseteq Nat

VARIABLES
  pcm_buffer,          \* of the detector: units
  is_speaking,
  speech,              \* loud windows in a row, up to MinSpeech
  silence,             \* quiet windows in a row, up to MinSilence
  audio_buffer,        \* of the Deepgram client: units
  loop,                \* receiving loop: "reading", "sending", "closing", "closed", "failed"
  turn_index,          \* of the Deepgram client
  current_transcript,  \* the turn whose words it holds, 0 if none
  open_turn,           \* Deepgram is between StartOfTurn and EndOfTurn
  event_queue,         \* the speech and turn events not yet handled
  barging_in,          \* the processor is in cancel_pipeline
  vad_speech_active,
  heard, sent, lost,   \* ghosts: units received, sent, and lost with a failed send
  overtaken            \* ghost: a speech start was waiting when the detector was reset

vadVars   == <<pcm_buffer, is_speaking, speech, silence>>
dgVars    == <<turn_index, current_transcript, open_turn>>
frameVars == <<audio_buffer, loop, heard, sent, lost>>
procVars  == <<barging_in, vad_speech_active, overtaken>>
vars      == <<vadVars, dgVars, frameVars, procVars, event_queue>>

Event(type)   == [type |-> type, turn |-> 0, transcript |-> 0]
Push(e)       == event_queue' = Append(event_queue, e)
Upto(n, max)  == IF n < max THEN n ELSE max

Init ==
  /\ pcm_buffer = 0 /\ is_speaking = FALSE /\ speech = 0 /\ silence = 0
  /\ audio_buffer = 0 /\ loop = "reading"
  /\ turn_index = 0 /\ current_transcript = 0 /\ open_turn = FALSE
  /\ event_queue = <<>>
  /\ barging_in = FALSE /\ vad_speech_active = FALSE
  /\ heard = 0 /\ sent = 0 /\ lost = 0 /\ overtaken = FALSE

-----------------------------------------------------------------------------
\* _process_window: the hysteresis of the detector.
LoudWindow ==
  /\ speech' = Upto(speech + 1, MinSpeech) /\ silence' = 0
  /\ IF ~is_speaking /\ speech + 1 >= MinSpeech
     THEN is_speaking' = TRUE /\ Push(Event("vad_speech_start"))
     ELSE UNCHANGED <<is_speaking, event_queue>>

\* Slip: the end of the speech is not reported.
QuietWindowSilent ==
  /\ silence' = Upto(silence + 1, MinSilence) /\ speech' = 0
  /\ is_speaking' = (is_speaking /\ silence + 1 < MinSilence)
  /\ UNCHANGED event_queue

QuietWindow ==
  /\ silence' = Upto(silence + 1, MinSilence) /\ speech' = 0
  /\ IF is_speaking /\ silence + 1 >= MinSilence
     THEN is_speaking' = FALSE /\ Push(Event("vad_speech_end"))
     ELSE UNCHANGED <<is_speaking, event_queue>>

\* feed: a chunk completes at most one window.
Feed ==
  IF pcm_buffer + Chunk < Window
  THEN pcm_buffer' = pcm_buffer + Chunk
       /\ UNCHANGED <<is_speaking, speech, silence, event_queue>>
  ELSE pcm_buffer' = pcm_buffer + Chunk - Window /\ (LoudWindow \/ QuietWindow)

\* Slip: the frame is only taken out once it has been sent.
TakeFrameLate(n) ==
  IF n >= Frame THEN loop' = "sending" /\ audio_buffer' = n
                ELSE loop' = "reading" /\ audio_buffer' = n

\* send_audio with n units in the buffer: a frame is taken out, and sent later.
TakeFrame(n) ==
  IF n >= Frame THEN loop' = "sending" /\ audio_buffer' = n - Frame
                ELSE loop' = "reading" /\ audio_buffer' = n

\* A binary message: the detector is fed, then the Deepgram client.
ReceiveChunk ==
  /\ loop = "reading" /\ heard < MaxChunks * Chunk /\ Len(event_queue) < MaxQueue
  /\ heard' = heard + Chunk
  /\ Feed
  /\ TakeFrame(audio_buffer + Chunk)
  /\ UNCHANGED <<sent, lost, dgVars, procVars>>

FrameSent ==
  /\ loop = "sending"
  /\ sent' = sent + Frame
  /\ TakeFrame(audio_buffer)
  /\ UNCHANGED <<heard, lost, vadVars, dgVars, procVars, event_queue>>

\* The send raises, which ends the receiving loop; the frame is gone.
FrameFails ==
  /\ loop = "sending"
  /\ lost' = lost + Frame /\ loop' = "closing"
  /\ UNCHANGED <<audio_buffer, heard, sent, vadVars, dgVars, procVars, event_queue>>

HangUp ==
  /\ loop = "reading" /\ loop' = "closing"
  /\ UNCHANGED <<audio_buffer, heard, sent, lost, vadVars, dgVars, procVars, event_queue>>

\* close: what is left is sent.
FlushAudio ==
  /\ loop = "closing" /\ loop' = "closed"
  /\ sent' = sent + audio_buffer /\ audio_buffer' = 0
  /\ UNCHANGED <<heard, lost, vadVars, dgVars, procVars, event_queue>>

\* That send raises, and with it the rest of the clean-up is left out.
FlushFails ==
  /\ loop = "closing" /\ audio_buffer > 0
  /\ loop' = "failed"
  /\ UNCHANGED <<audio_buffer, heard, sent, lost, vadVars, dgVars, procVars, event_queue>>

-----------------------------------------------------------------------------
\* _on_message: what Deepgram says, as long as the connection is open.
Listening == loop \in {"reading", "sending"} /\ Len(event_queue) < MaxQueue

StartOfTurn ==
  /\ Listening /\ ~open_turn /\ turn_index < MaxTurns
  /\ turn_index' = turn_index + 1 /\ open_turn' = TRUE
  /\ Push([type |-> "start_of_turn", turn |-> turn_index + 1, transcript |-> 0])
  /\ UNCHANGED <<current_transcript, vadVars, frameVars, procVars>>

\* An update with words; it holds the words of its turn so far, the next one if none
\* is open.
Transcript ==
  /\ Listening
  /\ current_transcript' = IF open_turn THEN turn_index ELSE turn_index + 1
  /\ Push(Event("transcript_update"))
  /\ UNCHANGED <<turn_index, open_turn, vadVars, frameVars, procVars>>

\* Slip: the transcript is kept.
EndOfTurnKeeps ==
  /\ Listening /\ open_turn
  /\ open_turn' = FALSE
  /\ Push([type |-> "end_of_turn", turn |-> turn_index, transcript |-> current_transcript])
  /\ UNCHANGED <<turn_index, current_transcript, vadVars, frameVars, procVars>>

EndOfTurn ==
  /\ Listening /\ open_turn
  /\ open_turn' = FALSE /\ current_transcript' = 0
  /\ Push([type |-> "end_of_turn", turn |-> turn_index, transcript |-> current_transcript])
  /\ UNCHANGED <<turn_index, vadVars, frameVars, procVars>>
-----------------------------------------------------------------------------
\* process_events takes the next event.  A speech start or a start of turn may
\* begin a barge-in.
NextEvent == ~barging_in /\ event_queue # <<>> /\ event_queue' = Tail(event_queue)

HandleSpeechStart ==
  /\ NextEvent /\ Head(event_queue).type = "vad_speech_start"
  /\ vad_speech_active' = TRUE
  /\ barging_in' \in BOOLEAN
  /\ UNCHANGED <<overtaken, vadVars, dgVars, frameVars>>

HandleSpeechEnd ==
  /\ NextEvent /\ Head(event_queue).type = "vad_speech_end"
  /\ vad_speech_active' = FALSE
  /\ UNCHANGED <<barging_in, overtaken, vadVars, dgVars, frameVars>>

HandleTurn ==
  /\ NextEvent /\ Head(event_queue).type \in {"start_of_turn", "end_of_turn", "transcript_update"}
  /\ barging_in' \in {FALSE, Head(event_queue).type = "start_of_turn"}
  /\ UNCHANGED <<vad_speech_active, overtaken, vadVars, dgVars, frameVars>>

\* Slip: the detector goes on hearing the speech.
BargeInKeepsDetector ==
  /\ barging_in /\ barging_in' = FALSE
  /\ vad_speech_active' = FALSE
  /\ UNCHANGED <<overtaken, vadVars, dgVars, frameVars, event_queue>>

\* The end of cancel_pipeline, after its awaits: vad.reset and the flag.
BargeInDone ==
  /\ barging_in /\ barging_in' = FALSE
  /\ pcm_buffer' = 0 /\ is_speaking' = FALSE /\ speech' = 0 /\ silence' = 0
  /\ vad_speech_active' = FALSE
  /\ overtaken' = \E i \in 1..Len(event_queue) : event_queue[i].type = "vad_speech_start"
  /\ UNCHANGED <<dgVars, frameVars, event_queue>>

\* Or stop_playback cannot be sent, and the handler is left without the reset.
BargeInFails ==
  /\ barging_in /\ barging_in' = FALSE
  /\ UNCHANGED <<vad_speech_active, overtaken, vadVars, dgVars, frameVars, event_queue>>

Next ==
  \/ ReceiveChunk \/ FrameSent \/ FrameFails \/ HangUp \/ FlushAudio \/ FlushFails
  \/ StartOfTurn \/ Transcript \/ EndOfTurn
  \/ HandleSpeechStart \/ HandleSpeechEnd \/ HandleTurn \/ BargeInDone \/ BargeInFails

Spec == Init /\ [][Next]_vars

-----------------------------------------------------------------------------
\* Every unit of audio is sent once and in order: what was received is sent, waits
\* in the buffer or in the frame under way, or was lost with the one send that
\* failed (deepgram_client.py:79-93, 95-98).
AudioIsConserved ==
  heard = sent + audio_buffer + lost + (IF loop = "sending" THEN Frame ELSE 0)

\* When the processor has caught up and the detector hears speech, the flag that
\* confirms a barge-in is set, whatever resets and failed barge-ins came before
\* (vad_detector.py:84-96, server.py:282, 316, 343).
SpeechIsNoticed == event_queue = <<>> /\ ~barging_in /\ is_speaking => vad_speech_active

\* The flag outlives the speech only after a barge-in that reset the detector while
\* a speech start was still waiting (server.py:240, 341-343).
FlagIsStaleOnlyAfterReset ==
  event_queue = <<>> /\ ~barging_in /\ vad_speech_active => is_speaking \/ overtaken

\* An end of turn comes after its start and carries words of its own turn only
\* (deepgram_client.py:119-143).
WordsOfTheirTurn ==
  \A i \in 1..Len(event_queue) : event_queue[i].type = "end_of_turn" =>
    /\ event_queue[i].transcript \in {0, event_queue[i].turn}
    /\ \A j \in 1..Len(event_queue) :
         event_queue[j].type = "start_of_turn" /\ event_queue[j].turn = event_queue[i].turn
           => j < i
=============================================================================

-------------------------- MODULE AudioInputProofs --------------------------
(***************************************************************************)
(* The caller's audio, speech and words on their way in, for every size of *)
(* chunks, windows and frames, every hysteresis and every length of call.  *)
(***************************************************************************)
EXTENDS AudioInput, TLAPS

\* The counters are counters, and the queue holds events.
EventType == {"vad_speech_start", "vad_speech_end",
              "start_of_turn", "end_of_turn", "transcript_update"}
Events    == [type : EventType, turn : Nat, transcript : Nat]

AudioType ==
  /\ audio_buffer \in Nat /\ heard \in Nat /\ sent \in Nat /\ lost \in Nat
  /\ turn_index \in Nat /\ current_transcript \in Nat
  /\ event_queue \in Seq(Events)

\* What Next does to the queue: it keeps it, appends one event or drops the first.
LEMMA AppendEvent ==
  ASSUME event_queue \in Seq(Events), NEW e \in Events, Push(e)
  PROVE  /\ event_queue' \in Seq(Events)
         /\ Len(event_queue') = Len(event_queue) + 1
         /\ event_queue'[Len(event_queue) + 1] = e
         /\ \A i \in 1..Len(event_queue) : event_queue'[i] = event_queue[i]
BY DEF Push

LEMMA DropEvent ==
  ASSUME event_queue \in Seq(Events), NextEvent
  PROVE  /\ event_queue' \in Seq(Events)
         /\ Len(event_queue) \in Nat \ {0}
         /\ Len(event_queue') = Len(event_queue) - 1
         /\ Head(event_queue) = event_queue[1]
         /\ \A i \in 1..Len(event_queue') : event_queue'[i] = event_queue[i+1]
         /\ \A i \in 2..Len(event_queue) : event_queue'[i-1] = event_queue[i]
BY DEF NextEvent

LEMMA EventIsEvent ==
  ASSUME NEW t \in EventType
  PROVE  Event(t) \in Events /\ Event(t).type = t
BY DEF Event, Events

-----------------------------------------------------------------------------
\* A fed chunk leaves the queue as it is, or pushes the one event that goes with
\* the change of is_speaking.
LEMMA FeedCases ==
  ASSUME Feed
  PROVE  \/ UNCHANGED <<is_speaking, event_queue>>
         \/ is_speaking' = TRUE /\ Push(Event("vad_speech_start"))
         \/ UNCHANGED event_queue /\ is_speaking' = is_speaking
         \/ is_speaking' = FALSE /\ Push(Event("vad_speech_end"))
BY DEF Feed, LoudWindow, QuietWindow

\* What TakeFrame leaves in the buffer and in the frame under way is what it got.
LEMMA FrameTaken ==
  ASSUME NEW n \in Nat, TakeFrame(n)
  PROVE  /\ audio_buffer' \in Nat
         /\ n = audio_buffer' + (IF loop' = "sending" THEN Frame ELSE 0)
BY AudioAssumption DEF TakeFrame, AudioAssumption

\* A step keeps the types.
LEMMA AudioTypeStep == AudioType /\ [Next]_vars => AudioType'
<1> SUFFICES ASSUME AudioType, [Next]_vars
             PROVE  AudioType'
  OBVIOUS
<1> USE AudioAssumption DEF AudioType, AudioAssumption
<1>1. CASE ReceiveChunk
  <2>1. event_queue' \in Seq(Events)
    <3>1. Event("vad_speech_start") \in Events /\ Event("vad_speech_end") \in Events
      BY EventIsEvent DEF EventType
    <3> QED
      BY <1>1, <3>1, FeedCases, AppendEvent DEF ReceiveChunk
  <2>2. heard' \in Nat /\ audio_buffer' \in Nat
    BY <1>1, FrameTaken DEF ReceiveChunk
  <2> QED
    BY <1>1, <2>1, <2>2 DEF ReceiveChunk, dgVars
<1>2. CASE FrameSent
  BY <1>2, FrameTaken DEF FrameSent, dgVars
<1>3. CASE FrameFails
  BY <1>3 DEF FrameFails, dgVars
<1>4. CASE HangUp
  BY <1>4 DEF HangUp, dgVars
<1>5. CASE FlushAudio
  BY <1>5 DEF FlushAudio, dgVars
<1>6. CASE FlushFails
  BY <1>6 DEF FlushFails, dgVars
<1>7. CASE StartOfTurn
  <2>1. [type |-> "start_of_turn", turn |-> turn_index + 1, transcript |-> 0] \in Events
    BY DEF Events, EventType
  <2> QED
    BY <1>7, <2>1, AppendEvent DEF StartOfTurn, frameVars
<1>8. CASE Transcript
  <2>1. Event("transcript_update") \in Events
    BY EventIsEvent DEF EventType
  <2> QED
    BY <1>8, <2>1, AppendEvent DEF Transcript, frameVars
<1>9. CASE EndOfTurn
  <2>1. [type |-> "end_of_turn", turn |-> turn_index,
         transcript |-> current_transcript] \in Events
    BY DEF Events, EventType
  <2> QED
    BY <1>9, <2>1, AppendEvent DEF EndOfTurn, frameVars
<1>10. CASE HandleSpeechStart
  BY <1>10, DropEvent DEF HandleSpeechStart, dgVars, frameVars
<1>11. CASE HandleSpeechEnd
  BY <1>11, DropEvent DEF HandleSpeechEnd, dgVars, frameVars
<1>12. CASE HandleTurn
  BY <1>12, DropEvent DEF HandleTurn, dgVars, frameVars
<1>13. CASE BargeInDone
  BY <1>13 DEF BargeInDone, dgVars, frameVars
<1>14. CASE BargeInFails
  BY <1>14 DEF BargeInFails, dgVars, frameVars
<1>15. CASE UNCHANGED vars
  BY <1>15 DEF vars, dgVars, frameVars
<1> QED
  BY <1>1, <1>2, <1>3, <1>4, <1>5, <1>6, <1>7, <1>8, <1>9, <1>10, <1>11, <1>12, <1>13,
     <1>14, <1>15 DEF Next

LEMMA AudioTypeInit == Init => AudioType
BY DEF Init, AudioType

LEMMA AudioTypeCorrect == Spec => []AudioType
BY AudioTypeInit, AudioTypeStep, PTL DEF Spec

-----------------------------------------------------------------------------
\* Every unit of audio that was received has been sent, waits, is under way or was
\* lost with the send that failed (send_audio, flush_audio).
THEOREM EveryUnitIsAccounted == Spec => []AudioIsConserved
<1>1. Init => AudioIsConserved
  BY DEF Init, AudioIsConserved
<1>2. AudioType /\ AudioIsConserved /\ [Next]_vars => AudioIsConserved'
  <2> SUFFICES ASSUME AudioType, AudioIsConserved, [Next]_vars
               PROVE  AudioIsConserved'
    OBVIOUS
  <2> DEFINE underway == IF loop = "sending" THEN Frame ELSE 0
  <2>a. /\ audio_buffer \in Nat /\ heard \in Nat /\ sent \in Nat /\ lost \in Nat
        /\ Frame \in Nat /\ Chunk \in Nat /\ underway \in Nat /\ underway' \in Nat
        /\ heard = sent + audio_buffer + lost + underway
    BY AudioAssumption DEF AudioType, AudioIsConserved, AudioAssumption
  <2>b. SUFFICES heard' = sent' + audio_buffer' + lost' + underway'
    BY DEF AudioIsConserved
  <2>1. CASE ReceiveChunk
    <3>1. heard' = heard + Chunk /\ sent' = sent /\ lost' = lost /\ underway = 0
      BY <2>1 DEF ReceiveChunk
    <3>2. audio_buffer' \in Nat /\ audio_buffer + Chunk = audio_buffer' + underway'
      BY <2>1, <2>a, FrameTaken DEF ReceiveChunk
    <3> HIDE DEF underway
    <3>3. heard = sent + audio_buffer + lost
      BY <2>a, <3>1
    <3>4. heard' = sent + lost + (audio_buffer + Chunk)
      BY <2>a, <3>1, <3>3
    <3>5. heard' = sent + lost + (audio_buffer' + underway')
      BY <3>2, <3>4
    <3>6. heard' = sent' + lost' + (audio_buffer' + underway')
      BY <3>1, <3>5
    <3>7. sent' \in Nat /\ lost' \in Nat
      BY <2>a, <3>1
    <3> QED
      BY <2>a, <3>2, <3>6, <3>7
  <2>2. CASE FrameSent
    <3>1. heard' = heard /\ sent' = sent + Frame /\ lost' = lost /\ underway = Frame
      BY <2>2 DEF FrameSent
    <3>2. audio_buffer' \in Nat /\ audio_buffer = audio_buffer' + underway'
      BY <2>2, <2>a, FrameTaken DEF FrameSent
    <3> HIDE DEF underway
    <3> QED
      BY <2>a, <3>1, <3>2
  <2>3. CASE FrameFails
    <3>1. /\ heard' = heard /\ sent' = sent /\ lost' = lost + Frame
          /\ audio_buffer' = audio_buffer /\ underway = Frame /\ underway' = 0
      BY <2>3 DEF FrameFails
    <3> HIDE DEF underway
    <3> QED
      BY <2>a, <3>1
  <2>4. CASE HangUp
    BY <2>4, <2>a DEF HangUp
  <2>5. CASE FlushAudio
    BY <2>5, <2>a DEF FlushAudio
  <2>6. CASE FlushFails
    BY <2>6, <2>a DEF FlushFails
  <2>7. CASE UNCHANGED frameVars
    BY <2>7, <2>a DEF frameVars
  <2> QED
    BY <2>1, <2>2, <2>3, <2>4, <2>5, <2>6, <2>7
       DEF Next, vars, StartOfTurn, Transcript, EndOfTurn, HandleSpeechStart,
           HandleSpeechEnd, HandleTurn, BargeInDone, BargeInFails
<1> QED
  BY <1>1, <1>2, AudioTypeCorrect, PTL DEF Spec

-----------------------------------------------------------------------------
\* An end of speech waits behind the first i events.
EndsAfter(i) == \E j \in 1..Len(event_queue) : j > i /\ event_queue[j].type = "vad_speech_end"
IsStart(i)   == i \in 1..Len(event_queue) /\ event_queue[i].type = "vad_speech_start"

LEMMA AppendEnds ==
  ASSUME AudioType, NEW e \in Events, Push(e)
  PROVE  /\ \A i \in 0..Len(event_queue) :
              EndsAfter(i)' <=> EndsAfter(i) \/ e.type = "vad_speech_end"
         /\ \A i \in 0..Len(event_queue) : IsStart(i)' <=> IsStart(i)
         /\ \A i \in 1..Len(event_queue') : i \in 0..Len(event_queue) \/ i = Len(event_queue) + 1
         /\ Len(event_queue) + 1 \in 1..Len(event_queue')
         /\ \A i \in 1..Len(event_queue') : i = Len(event_queue) + 1 =>
              ~EndsAfter(i)' /\ (IsStart(i)' <=> e.type = "vad_speech_start")
<1>1. /\ Len(event_queue) \in Nat /\ Len(event_queue') = Len(event_queue) + 1
      /\ event_queue'[Len(event_queue) + 1] = e
      /\ \A i \in 1..Len(event_queue) : event_queue'[i] = event_queue[i]
  BY AppendEvent DEF AudioType
<1>2. ASSUME NEW i \in 0..Len(event_queue)
      PROVE  EndsAfter(i)' <=> EndsAfter(i) \/ e.type = "vad_speech_end"
  BY <1>1 DEF EndsAfter
<1>3. ASSUME NEW i \in 1..Len(event_queue'), i = Len(event_queue) + 1
      PROVE  ~EndsAfter(i)' /\ (IsStart(i)' <=> e.type = "vad_speech_start")
  BY <1>1, <1>3 DEF EndsAfter, IsStart
<1>4. ASSUME NEW i \in 0..Len(event_queue)
      PROVE  IsStart(i)' <=> IsStart(i)
  BY <1>1 DEF IsStart
<1>5. Len(event_queue) + 1 \in 1..Len(event_queue')
  BY <1>1
<1>6. \A i \in 1..Len(event_queue') : i \in 0..Len(event_queue) \/ i = Len(event_queue) + 1
  BY <1>1
<1> QED
  BY <1>2, <1>3, <1>4, <1>5, <1>6

LEMMA DropEnds ==
  ASSUME AudioType, NextEvent
  PROVE  /\ \A i \in 1..Len(event_queue) : EndsAfter(i-1)' <=> EndsAfter(i)
         /\ EndsAfter(0) <=> Head(event_queue).type = "vad_speech_end" \/ EndsAfter(1)
         /\ 1 \in 1..Len(event_queue)
         /\ IsStart(1) <=> Head(event_queue).type = "vad_speech_start"
         /\ \A i \in 1..Len(event_queue) : i = 1 \/ (IsStart(i-1)' <=> IsStart(i))
         /\ \A i \in 1..Len(event_queue') :
              i+1 \in 1..Len(event_queue) /\ (i+1)-1 = i /\ i+1 # 1
<1>1. /\ Len(event_queue) \in Nat \ {0} /\ Len(event_queue') = Len(event_queue) - 1
      /\ Head(event_queue) = event_queue[1]
      /\ \A i \in 1..Len(event_queue') : event_queue'[i] = event_queue[i+1]
      /\ \A i \in 2..Len(event_queue) : event_queue'[i-1] = event_queue[i]
  BY DropEvent DEF AudioType
<1>2. ASSUME NEW i \in 1..Len(event_queue)
      PROVE  EndsAfter(i-1)' <=> EndsAfter(i)
  <2>1. ASSUME NEW j \in 1..Len(event_queue), j > i
        PROVE  /\ j-1 \in 1..Len(event_queue') /\ j-1 > i-1
               /\ event_queue'[j-1] = event_queue[j]
    BY <1>1, <2>1
  <2>2. ASSUME NEW j \in 1..Len(event_queue'), j > i-1
        PROVE  /\ j+1 \in 1..Len(event_queue) /\ j+1 > i
               /\ event_queue'[j] = event_queue[j+1]
    BY <1>1, <2>2
  <2> QED
    BY <2>1, <2>2 DEF EndsAfter
<1>3. EndsAfter(0) <=> Head(event_queue).type = "vad_speech_end" \/ EndsAfter(1)
  BY <1>1 DEF EndsAfter
<1>4. ASSUME NEW i \in 1..Len(event_queue), i # 1
      PROVE  IsStart(i-1)' <=> IsStart(i)
  <2>1. i-1 \in 1..Len(event_queue') /\ event_queue'[i-1] = event_queue[i]
    BY <1>1, <1>4
  <2> QED
    BY <2>1 DEF IsStart
<1>5. /\ 1 \in 1..Len(event_queue)
      /\ IsStart(1) <=> Head(event_queue).type = "vad_speech_start"
  BY <1>1 DEF IsStart
<1>6. \A i \in 1..Len(event_queue') :
        i+1 \in 1..Len(event_queue) /\ (i+1)-1 = i /\ i+1 # 1
  BY <1>1
<1> QED
  BY <1>2, <1>3, <1>4, <1>5, <1>6

\* The events of Deepgram are none of the speech.
LEMMA TurnEvents ==
  ASSUME AudioType, StartOfTurn \/ Transcript \/ EndOfTurn
  PROVE  \E e \in Events : Push(e) /\ e.type \notin {"vad_speech_start", "vad_speech_end"}
<1> USE DEF EventType, Events
<1>1. CASE StartOfTurn
  BY <1>1 DEF StartOfTurn, AudioType
<1>2. CASE Transcript
  BY <1>2 DEF Transcript, Event
<1>3. CASE EndOfTurn
  <2> DEFINE e == [type |-> "end_of_turn", turn |-> turn_index,
                   transcript |-> current_transcript]
  <2>1. e \in Events /\ e.type = "end_of_turn"
    BY DEF AudioType
  <2>2. Push(e)
    BY <1>3 DEF EndOfTurn
  <2> HIDE DEF e
  <2> QED
    BY <2>1, <2>2
<1> QED
  BY <1>1, <1>2, <1>3

-----------------------------------------------------------------------------
\* The speech events that wait carry the flag to where the detector is: while it
\* hears speech, the last of them is a start, or none is an end and the flag is set.
SpeechInv ==
  is_speaking => \/ vad_speech_active /\ ~EndsAfter(0)
                 \/ \E i \in 1..Len(event_queue) : IsStart(i) /\ ~EndsAfter(i)

\* While the detector hears speech and nothing waits, the flag that confirms a
\* barge-in is set (_process_window, reset, process_events).
THEOREM SpeechSetsTheFlag == Spec => []SpeechIsNoticed
<1>1. Init => SpeechInv
  BY DEF Init, SpeechInv
<1>2. AudioType /\ SpeechInv /\ [Next]_vars => SpeechInv'
  <2> SUFFICES ASSUME AudioType, SpeechInv, [Next]_vars, is_speaking'
               PROVE  \/ vad_speech_active' /\ ~EndsAfter(0)'
                      \/ \E i \in 1..Len(event_queue') : IsStart(i)' /\ ~EndsAfter(i)'
    BY DEF SpeechInv
  <2>1. CASE UNCHANGED <<is_speaking, vad_speech_active, event_queue>>
    BY <2>1 DEF SpeechInv, EndsAfter, IsStart
  <2>2. ASSUME NEW e \in Events, Push(e), e.type # "vad_speech_end", is_speaking,
               vad_speech_active' = vad_speech_active
        PROVE  \/ vad_speech_active' /\ ~EndsAfter(0)'
               \/ \E i \in 1..Len(event_queue') : IsStart(i)' /\ ~EndsAfter(i)'
    <3>1. /\ \A i \in 0..Len(event_queue) : EndsAfter(i)' <=> EndsAfter(i)
          /\ \A i \in 0..Len(event_queue) : IsStart(i)' <=> IsStart(i)
      BY <2>2, AppendEnds
    <3>2. CASE vad_speech_active /\ ~EndsAfter(0)
      <4>1. 0 \in 0..Len(event_queue)
        BY DEF AudioType
      <4> QED
        BY <2>2, <3>1, <3>2, <4>1
    <3>3. ASSUME NEW i \in 1..Len(event_queue), IsStart(i), ~EndsAfter(i)
          PROVE  i \in 1..Len(event_queue') /\ IsStart(i)' /\ ~EndsAfter(i)'
      <4>1. i \in 0..Len(event_queue)
        BY DEF AudioType
      <4> QED
        BY <3>1, <3>3, <4>1 DEF IsStart
    <3> QED
      BY <2>2, <3>2, <3>3 DEF SpeechInv
  <2>3. CASE ReceiveChunk
    <3>1. vad_speech_active' = vad_speech_active /\ Feed
      BY <2>3 DEF ReceiveChunk, procVars
    <3>2. CASE Push(Event("vad_speech_start"))
      <4>1. "vad_speech_start" \in EventType
        BY DEF EventType
      <4> QED
        BY <3>2, <4>1, AppendEnds, EventIsEvent
    <3> QED
      BY <2>1, <3>1, <3>2, FeedCases
  <2>4. CASE StartOfTurn \/ Transcript \/ EndOfTurn
    <3>1. vad_speech_active' = vad_speech_active /\ is_speaking' = is_speaking
      BY <2>4 DEF StartOfTurn, Transcript, EndOfTurn, vadVars, procVars
    <3>2. PICK e \in Events : Push(e) /\ e.type \notin {"vad_speech_start", "vad_speech_end"}
      BY <2>4, TurnEvents
    <3> QED
      BY <2>2, <3>1, <3>2
  <2>5. CASE HandleSpeechStart \/ HandleSpeechEnd \/ HandleTurn
    <3>1. NextEvent /\ is_speaking' = is_speaking
      BY <2>5 DEF HandleSpeechStart, HandleSpeechEnd, HandleTurn, vadVars
    <3>2. \/ Head(event_queue).type = "vad_speech_start" /\ vad_speech_active' = TRUE
          \/ Head(event_queue).type = "vad_speech_end"
          \/ /\ Head(event_queue).type \notin {"vad_speech_start", "vad_speech_end"}
             /\ vad_speech_active' = vad_speech_active
      BY <2>5 DEF HandleSpeechStart, HandleSpeechEnd, HandleTurn
    <3>3. /\ 1 \in 1..Len(event_queue) /\ 1-1 = 0
          /\ EndsAfter(0)' <=> EndsAfter(1)
          /\ EndsAfter(0) <=> Head(event_queue).type = "vad_speech_end" \/ EndsAfter(1)
          /\ IsStart(1) <=> Head(event_queue).type = "vad_speech_start"
      BY <3>1, DropEnds
    <3>4. CASE vad_speech_active /\ ~EndsAfter(0)
      BY <3>2, <3>3, <3>4
    <3>5. ASSUME NEW i \in 1..Len(event_queue), IsStart(i), ~EndsAfter(i)
          PROVE  \/ vad_speech_active' /\ ~EndsAfter(0)'
                 \/ \E k \in 1..Len(event_queue') : IsStart(k)' /\ ~EndsAfter(k)'
      <4>1. CASE i = 1
        <5>1. ~EndsAfter(1) /\ Head(event_queue).type = "vad_speech_start"
          BY <3>3, <3>5, <4>1
        <5> QED
          BY <3>2, <3>3, <5>1
      <4>2. CASE i # 1
        <5>1. IsStart(i-1)' /\ ~EndsAfter(i-1)'
          BY <3>1, <3>5, <4>2, DropEnds
        <5> QED
          BY <5>1 DEF IsStart
      <4> QED
        BY <4>1, <4>2
    <3> QED
      BY <3>1, <3>4, <3>5 DEF SpeechInv
  <2>6. CASE BargeInDone
    BY <2>6 DEF BargeInDone
  <2> QED
    BY <2>1, <2>3, <2>4, <2>5, <2>6
       DEF Next, vars, vadVars, procVars, FrameSent, FrameFails, HangUp, FlushAudio,
           FlushFails, BargeInFails
<1>3. AudioType /\ SpeechInv => SpeechIsNoticed
  BY DEF SpeechInv, SpeechIsNoticed, IsStart
<1> QED
  BY <1>1, <1>2, <1>3, AudioTypeCorrect, PTL DEF Spec

-----------------------------------------------------------------------------
\* A flag, or a start that waits to set it, goes with a detector that hears speech
\* or an end that waits to clear it, unless a reset has overtaken a start.
FlagInv ==
  \/ is_speaking \/ overtaken
  \/ /\ vad_speech_active => EndsAfter(0)
     /\ \A i \in 1..Len(event_queue) : IsStart(i) => EndsAfter(i)

\* The flag outlives the speech only after a barge-in whose reset overtook a speech
\* start (cancel_pipeline, feed, process_events).
THEOREM FlagFollowsTheSpeech == Spec => []FlagIsStaleOnlyAfterReset
<1>1. Init => FlagInv
  BY DEF Init, FlagInv
<1>2. AudioType /\ FlagInv /\ [Next]_vars => FlagInv'
  <2> SUFFICES ASSUME AudioType, FlagInv, [Next]_vars
               PROVE  FlagInv'
    OBVIOUS
  <2>1. CASE UNCHANGED <<is_speaking, overtaken, vad_speech_active, event_queue>>
    BY <2>1 DEF FlagInv, EndsAfter, IsStart
  <2>a. Len(event_queue) \in Nat /\ 0 \in 0..Len(event_queue)
    BY DEF AudioType
  <2>2. CASE ReceiveChunk
    <3>1. vad_speech_active' = vad_speech_active /\ overtaken' = overtaken /\ Feed
      BY <2>2 DEF ReceiveChunk, procVars
    <3>2. CASE is_speaking' = TRUE
      BY <3>2 DEF FlagInv
    <3>3. CASE Push(Event("vad_speech_end"))
      <4>1. /\ \A i \in 0..Len(event_queue) : EndsAfter(i)'
            /\ \A i \in 1..Len(event_queue') : IsStart(i)' => i \in 0..Len(event_queue)
        <5>1. "vad_speech_end" \in EventType /\ "vad_speech_end" # "vad_speech_start"
          BY DEF EventType
        <5> QED
          BY <3>3, <5>1, AppendEnds, EventIsEvent
      <4> QED
        BY <2>a, <4>1 DEF FlagInv
    <3> QED
      BY <2>1, <3>1, <3>2, <3>3, FeedCases
  <2>3. CASE StartOfTurn \/ Transcript \/ EndOfTurn
    <3>1. UNCHANGED <<is_speaking, overtaken, vad_speech_active>>
      BY <2>3 DEF StartOfTurn, Transcript, EndOfTurn, vadVars, procVars
    <3>2. PICK e \in Events : Push(e) /\ e.type \notin {"vad_speech_start", "vad_speech_end"}
      BY <2>3, TurnEvents
    <3>3. /\ \A i \in 0..Len(event_queue) : EndsAfter(i)' <=> EndsAfter(i)
          /\ \A i \in 0..Len(event_queue) : IsStart(i)' <=> IsStart(i)
          /\ \A i \in 1..Len(event_queue') : IsStart(i)' => i \in 0..Len(event_queue)
      BY <3>2, AppendEnds
    <3>4. ASSUME \A i \in 1..Len(event_queue) : IsStart(i) => EndsAfter(i),
                 NEW i \in 1..Len(event_queue'), IsStart(i)'
          PROVE  EndsAfter(i)'
      <4>1. i \in 0..Len(event_queue) /\ IsStart(i)
        BY <3>3, <3>4
      <4> QED
        BY <3>3, <3>4, <4>1 DEF IsStart
    <3> QED
      BY <2>a, <3>1, <3>3, <3>4 DEF FlagInv
  <2>4. CASE HandleSpeechStart \/ HandleSpeechEnd \/ HandleTurn
    <3>1. NextEvent /\ is_speaking' = is_speaking /\ overtaken' = overtaken
      BY <2>4 DEF HandleSpeechStart, HandleSpeechEnd, HandleTurn, vadVars
    <3>2. \/ Head(event_queue).type = "vad_speech_start"
          \/ Head(event_queue).type = "vad_speech_end" /\ vad_speech_active' = FALSE
          \/ /\ Head(event_queue).type \notin {"vad_speech_start", "vad_speech_end"}
             /\ vad_speech_active' = vad_speech_active
      BY <2>4 DEF HandleSpeechStart, HandleSpeechEnd, HandleTurn
    <3>3. /\ 1 \in 1..Len(event_queue) /\ 1-1 = 0
          /\ EndsAfter(0)' <=> EndsAfter(1)
          /\ EndsAfter(0) <=> Head(event_queue).type = "vad_speech_end" \/ EndsAfter(1)
          /\ IsStart(1) <=> Head(event_queue).type = "vad_speech_start"
      BY <3>1, DropEnds
    <3>4. CASE is_speaking \/ overtaken
      BY <3>1, <3>4 DEF FlagInv
    <3>5. CASE /\ vad_speech_active => EndsAfter(0)
               /\ \A i \in 1..Len(event_queue) : IsStart(i) => EndsAfter(i)
      <4>1. vad_speech_active' => EndsAfter(0)'
        BY <3>2, <3>3, <3>5
      <4>2. ASSUME NEW i \in 1..Len(event_queue'), IsStart(i)'
            PROVE  EndsAfter(i)'
        <5>1. i+1 \in 1..Len(event_queue) /\ (i+1)-1 = i /\ i+1 # 1
          BY <3>1, <4>2, DropEnds
        <5>2. IsStart((i+1)-1)' <=> IsStart(i+1)
          BY <3>1, <5>1, DropEnds
        <5>3. EndsAfter((i+1)-1)' <=> EndsAfter(i+1)
          BY <3>1, <5>1, DropEnds
        <5> QED
          BY <3>5, <4>2, <5>1, <5>2, <5>3
      <4> QED
        BY <4>1, <4>2 DEF FlagInv
    <3> QED
      BY <3>4, <3>5 DEF FlagInv
  <2>5. CASE BargeInDone
    BY <2>5 DEF BargeInDone, FlagInv, EndsAfter, IsStart
  <2> QED
    BY <2>1, <2>2, <2>3, <2>4, <2>5
       DEF Next, vars, vadVars, procVars, FrameSent, FrameFails, HangUp, FlushAudio,
           FlushFails, BargeInFails
<1>3. AudioType /\ FlagInv => FlagIsStaleOnlyAfterReset
  BY DEF FlagInv, FlagIsStaleOnlyAfterReset, EndsAfter
<1> QED
  BY <1>1, <1>2, <1>3, AudioTypeCorrect, PTL DEF Spec

-----------------------------------------------------------------------------
IsTurn(i, t) == i \in 1..Len(event_queue) /\ event_queue[i].type = t

\* The words kept are those of the open turn, or of the next one; events are of the
\* turns so far, and while the last one is open no end of it waits.
WordsInv ==
  /\ IF open_turn THEN current_transcript \in {0, turn_index}
                  ELSE current_transcript \in {0, turn_index + 1}
  /\ \A i \in 1..Len(event_queue) :
       IsTurn(i, "start_of_turn") \/ IsTurn(i, "end_of_turn") =>
         event_queue[i].turn <= turn_index
  /\ open_turn => \A i \in 1..Len(event_queue) :
       IsTurn(i, "end_of_turn") => event_queue[i].turn < turn_index
  /\ WordsOfTheirTurn

\* An event that is pushed leaves those that wait where they are.
LEMMA WordsAppend ==
  ASSUME AudioType, WordsInv, NEW e \in Events, Push(e),
         turn_index' \in Nat, turn_index <= turn_index',
         IF open_turn' THEN current_transcript' \in {0, turn_index'}
                       ELSE current_transcript' \in {0, turn_index' + 1},
         e.type \in {"start_of_turn", "end_of_turn"} => e.turn <= turn_index',
         open_turn' => /\ open_turn \/ turn_index < turn_index'
                       /\ e.type # "end_of_turn",
         e.type = "end_of_turn" => e.transcript \in {0, e.turn},
         e.type = "start_of_turn" => e.turn > turn_index
  PROVE  WordsInv'
<1>1. /\ Len(event_queue) \in Nat /\ Len(event_queue') = Len(event_queue) + 1
      /\ event_queue'[Len(event_queue) + 1] = e
      /\ \A i \in 1..Len(event_queue) : event_queue'[i] = event_queue[i]
      /\ \A i \in 1..Len(event_queue) : event_queue[i] \in Events
  BY AppendEvent DEF AudioType
<1>2. turn_index \in Nat /\ e.turn \in Nat
  BY DEF AudioType, Events
<1>3. \A i \in 1..Len(event_queue) : event_queue[i].turn \in Nat
  BY <1>1 DEF Events
<1>4. ASSUME NEW i \in 1..Len(event_queue')
      PROVE  \/ i \in 1..Len(event_queue) /\ event_queue'[i] = event_queue[i]
             \/ i = Len(event_queue) + 1 /\ event_queue'[i] = e
  BY <1>1
<1>5. ASSUME NEW i \in 1..Len(event_queue'),
             IsTurn(i, "start_of_turn")' \/ IsTurn(i, "end_of_turn")'
      PROVE  event_queue'[i].turn <= turn_index'
  <2>1. CASE i \in 1..Len(event_queue) /\ event_queue'[i] = event_queue[i]
    <3>1. event_queue[i].turn <= turn_index
      BY <1>5, <2>1 DEF WordsInv, IsTurn
    <3> QED
      BY <1>2, <1>3, <2>1, <3>1
  <2>2. CASE i = Len(event_queue) + 1 /\ event_queue'[i] = e
    BY <1>5, <2>2 DEF IsTurn
  <2> QED
    BY <1>4, <2>1, <2>2
<1>6. ASSUME open_turn', NEW i \in 1..Len(event_queue'), IsTurn(i, "end_of_turn")'
      PROVE  event_queue'[i].turn < turn_index'
  <2>1. i \in 1..Len(event_queue) /\ event_queue'[i] = event_queue[i]
    BY <1>4, <1>6 DEF IsTurn
  <2>2. event_queue[i].turn <= turn_index /\ (open_turn => event_queue[i].turn < turn_index)
    BY <1>6, <2>1 DEF WordsInv, IsTurn
  <2> QED
    BY <1>2, <1>3, <1>6, <2>1, <2>2
<1>7. ASSUME NEW i \in 1..Len(event_queue'), event_queue'[i].type = "end_of_turn"
      PROVE  /\ event_queue'[i].transcript \in {0, event_queue'[i].turn}
             /\ \A j \in 1..Len(event_queue') :
                  event_queue'[j].type = "start_of_turn"
                  /\ event_queue'[j].turn = event_queue'[i].turn => j < i
  <2>1. CASE i \in 1..Len(event_queue) /\ event_queue'[i] = event_queue[i]
    <3>1. /\ event_queue[i].transcript \in {0, event_queue[i].turn}
          /\ event_queue[i].turn <= turn_index
      BY <1>7, <2>1 DEF WordsInv, WordsOfTheirTurn, IsTurn
    <3>2. ASSUME NEW j \in 1..Len(event_queue'), event_queue'[j].type = "start_of_turn",
                 event_queue'[j].turn = event_queue'[i].turn
          PROVE  j < i
      <4>1. CASE j \in 1..Len(event_queue) /\ event_queue'[j] = event_queue[j]
        BY <1>7, <2>1, <3>2, <4>1 DEF WordsInv, WordsOfTheirTurn
      <4>2. CASE j = Len(event_queue) + 1 /\ event_queue'[j] = e
        <5>1. e.turn > turn_index /\ e.turn = event_queue[i].turn
          BY <2>1, <3>2, <4>2
        <5> QED
          BY <1>2, <1>3, <2>1, <3>1, <5>1
      <4> QED
        BY <1>4, <4>1, <4>2
    <3> QED
      BY <2>1, <3>1, <3>2
  <2>2. CASE i = Len(event_queue) + 1 /\ event_queue'[i] = e
    <3>1. ASSUME NEW j \in 1..Len(event_queue'), event_queue'[j].type = "start_of_turn"
          PROVE  j < i
      <4>1. j # i
        BY <1>7, <3>1
      <4> QED
        BY <1>1, <1>4, <2>2, <4>1
    <3> QED
      BY <1>7, <2>2, <3>1
  <2> QED
    BY <1>4, <2>1, <2>2
<1>8. WordsOfTheirTurn'
  BY <1>7 DEF WordsOfTheirTurn
<1> QED
  BY <1>5, <1>6, <1>8 DEF WordsInv

\* The first event is taken: the order of the others is the same.
LEMMA WordsDrop ==
  ASSUME AudioType, WordsInv, NextEvent, UNCHANGED dgVars
  PROVE  WordsInv'
<1>1. /\ Len(event_queue) \in Nat \ {0} /\ Len(event_queue') = Len(event_queue) - 1
      /\ \A i \in 1..Len(event_queue') : event_queue'[i] = event_queue[i+1]
  BY DropEvent DEF AudioType
<1>2. ASSUME NEW i \in 1..Len(event_queue')
      PROVE  i+1 \in 1..Len(event_queue) /\ event_queue'[i] = event_queue[i+1]
  BY <1>1
<1>3. \A i \in 1..Len(event_queue') :
        IsTurn(i, "start_of_turn")' \/ IsTurn(i, "end_of_turn")' =>
          event_queue'[i].turn <= turn_index'
  BY <1>2 DEF WordsInv, IsTurn, dgVars
<1>4. open_turn' => \A i \in 1..Len(event_queue') :
        IsTurn(i, "end_of_turn")' => event_queue'[i].turn < turn_index'
  BY <1>2 DEF WordsInv, IsTurn, dgVars
<1>5. ASSUME NEW i \in 1..Len(event_queue'), event_queue'[i].type = "end_of_turn"
      PROVE  /\ event_queue'[i].transcript \in {0, event_queue'[i].turn}
             /\ \A j \in 1..Len(event_queue') :
                  event_queue'[j].type = "start_of_turn"
                  /\ event_queue'[j].turn = event_queue'[i].turn => j < i
  <2>1. event_queue'[i].transcript \in {0, event_queue'[i].turn}
    BY <1>2, <1>5 DEF WordsInv, WordsOfTheirTurn
  <2>2. ASSUME NEW j \in 1..Len(event_queue'), event_queue'[j].type = "start_of_turn",
               event_queue'[j].turn = event_queue'[i].turn
        PROVE  j < i
    <3>1. j+1 < i+1
      BY <1>2, <1>5, <2>2 DEF WordsInv, WordsOfTheirTurn
    <3> QED
      BY <3>1
  <2> QED
    BY <2>1, <2>2
<1>6. WordsOfTheirTurn'
  BY <1>5 DEF WordsOfTheirTurn
<1> QED
  BY <1>3, <1>4, <1>6 DEF WordsInv, dgVars

\* An end of turn that waits comes after its start and carries words of its own turn
\* only, whatever is lost, reset or cut off meanwhile (_on_message).
THEOREM WordsStayInTheirTurn == Spec => []WordsOfTheirTurn
<1>1. Init => WordsInv
  BY DEF Init, WordsInv, WordsOfTheirTurn
<1>2. AudioType /\ WordsInv /\ [Next]_vars => WordsInv'
  <2> SUFFICES ASSUME AudioType, WordsInv, [Next]_vars
               PROVE  WordsInv'
    OBVIOUS
  <2>a. turn_index \in Nat /\ current_transcript \in Nat
    BY DEF AudioType
  <2>1. CASE UNCHANGED <<dgVars, event_queue>>
    BY <2>1 DEF WordsInv, WordsOfTheirTurn, IsTurn, dgVars
  <2>2. CASE ReceiveChunk
    <3>1. UNCHANGED dgVars /\ Feed
      BY <2>2 DEF ReceiveChunk
    <3>2. ASSUME NEW t \in {"vad_speech_start", "vad_speech_end"}, Push(Event(t))
          PROVE  WordsInv'
      <4>1. Event(t) \in Events /\ Event(t).type = t
        BY EventIsEvent DEF EventType
      <4> QED
        BY <2>a, <3>1, <3>2, <4>1, WordsAppend DEF WordsInv, dgVars
    <3> QED
      BY <2>1, <3>1, <3>2, FeedCases
  <2>3. CASE StartOfTurn
    <3> DEFINE e == [type |-> "start_of_turn", turn |-> turn_index + 1, transcript |-> 0]
    <3>1. /\ e \in Events /\ e.type = "start_of_turn" /\ e.turn = turn_index + 1
          /\ Push(e) /\ turn_index' = turn_index + 1 /\ open_turn'
          /\ current_transcript' = current_transcript /\ ~open_turn
      BY <2>3, <2>a DEF StartOfTurn, Events, EventType
    <3> HIDE DEF e
    <3> QED
      BY <2>a, <3>1, WordsAppend DEF WordsInv
  <2>4. CASE Transcript
    <3>1. Event("transcript_update") \in Events
          /\ Event("transcript_update").type = "transcript_update"
      BY EventIsEvent DEF EventType
    <3>2. /\ Push(Event("transcript_update")) /\ turn_index' = turn_index
          /\ open_turn' = open_turn
          /\ current_transcript' = IF open_turn THEN turn_index ELSE turn_index + 1
      BY <2>4 DEF Transcript
    <3> QED
      BY <2>a, <3>1, <3>2, WordsAppend
  <2>5. CASE EndOfTurn
    <3> DEFINE e == [type |-> "end_of_turn", turn |-> turn_index,
                     transcript |-> current_transcript]
    <3>1. /\ e \in Events /\ e.type = "end_of_turn" /\ e.turn = turn_index
          /\ e.transcript = current_transcript
          /\ Push(e) /\ turn_index' = turn_index /\ open_turn
          /\ ~open_turn' /\ current_transcript' = 0
      BY <2>5, <2>a DEF EndOfTurn, Events, EventType
    <3> HIDE DEF e
    <3>2. e.transcript \in {0, e.turn}
      BY <3>1 DEF WordsInv
    <3> QED
      BY <2>a, <3>1, <3>2, WordsAppend
  <2>6. CASE HandleSpeechStart \/ HandleSpeechEnd \/ HandleTurn
    <3>1. NextEvent /\ UNCHANGED dgVars
      BY <2>6 DEF HandleSpeechStart, HandleSpeechEnd, HandleTurn
    <3> QED
      BY <3>1, WordsDrop
  <2> QED
    BY <2>1, <2>2, <2>3, <2>4, <2>5, <2>6
       DEF Next, vars, FrameSent, FrameFails, HangUp, FlushAudio, FlushFails,
           BargeInDone, BargeInFails
<1>3. WordsInv => WordsOfTheirTurn
  BY DEF WordsInv
<1> QED
  BY <1>1, <1>2, <1>3, AudioTypeCorrect, PTL DEF Spec
=============================================================================

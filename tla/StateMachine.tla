---------------------------- MODULE StateMachine ----------------------------
(***************************************************************************)
(* The call state machine of src/state_machine.py: the transition table,   *)
(* StateMachine.handle and the turn counter.  Both call pipelines extend   *)
(* this module, so current_state and turn_id are the variables of the one  *)
(* StateMachine object each call owns.                                     *)
(*                                                                         *)
(* handle raises ValueError for a pair that is not in the table; its       *)
(* callers catch it, so for them a rejected event changes nothing.         *)
(* SILENCE_TIMEOUT is in the table but no pipeline ever sends it.          *)
(***************************************************************************)
EXTENDS Naturals

VARIABLES current_state, turn_id

smVars == <<current_state, turn_id>>

State == {"IDLE", "USER_SPEAKING", "PROCESSING", "FILLER_RESPONSE",
          "BOT_SPEAKING", "BARGE_IN_DETECTED"}

Event == {"START_OF_TURN", "END_OF_TURN", "LLM_FILLER_READY", "LLM_FULL_READY",
          "TTS_AUDIO_READY", "TTS_PLAYBACK_DONE", "BARGE_IN_DETECTED",
          "SILENCE_TIMEOUT", "RESET"}

\* The states in which the bot owes or gives a reply: the code's barge_in_states.
Replying == {"PROCESSING", "FILLER_RESPONSE", "BOT_SPEAKING"}

\* The table, as a set of <<from, event, to>>.
transitions ==
  { <<"IDLE",              "START_OF_TURN",     "USER_SPEAKING">>,
    <<"USER_SPEAKING",     "END_OF_TURN",       "PROCESSING">>,
    <<"PROCESSING",        "LLM_FILLER_READY",  "FILLER_RESPONSE">>,
    <<"PROCESSING",        "LLM_FULL_READY",    "BOT_SPEAKING">>,
    <<"FILLER_RESPONSE",   "LLM_FULL_READY",    "BOT_SPEAKING">>,
    <<"FILLER_RESPONSE",   "TTS_PLAYBACK_DONE", "FILLER_RESPONSE">>,
    <<"BOT_SPEAKING",      "TTS_PLAYBACK_DONE", "IDLE">>,
    <<"BARGE_IN_DETECTED", "START_OF_TURN",     "USER_SPEAKING">>,
    <<"BARGE_IN_DETECTED", "SILENCE_TIMEOUT",   "IDLE">>,
    <<"USER_SPEAKING",     "SILENCE_TIMEOUT",   "IDLE">> }
  \cup {<<s, "BARGE_IN_DETECTED", "BARGE_IN_DETECTED">> : s \in Replying}
  \cup {<<s, e, s>> : s \in Replying,
                      e \in {"START_OF_TURN", "END_OF_TURN", "TTS_AUDIO_READY"}}

Accepts(event) == \E to \in State : <<current_state, event, to>> \in transitions

InitialState ==
  /\ current_state = "IDLE"
  /\ turn_id = 0

\* handle(event) for a pair of the table.  The counter moves on every
\* transition into PROCESSING, its self-loops included.
Handle(event) ==
  \E to \in State :
    /\ <<current_state, event, to>> \in transitions
    /\ current_state' = to
    /\ turn_id' = IF to = "PROCESSING" THEN turn_id + 1 ELSE turn_id

\* handle(event) under an "except" that swallows the ValueError.
TryHandle(event) ==
  \/ Handle(event)
  \/ ~Accepts(event) /\ UNCHANGED smVars

\* handle(RESET), sent on disconnect unless the machine is already IDLE.
Reset ==
  /\ current_state' = "IDLE"
  /\ turn_id' = IF current_state = "IDLE" THEN turn_id ELSE 0

StateTypeOK ==
  /\ current_state \in State
  /\ turn_id \in Nat
=============================================================================

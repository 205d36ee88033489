--------------------------- MODULE LLMOrchestrator --------------------------
(***************************************************************************)
(* The conversation of one phone call: LLMOrchestrator of                  *)
(* src/llm_orchestrator.py, with the tool-use loop of _run_sonnet and the  *)
(* barge-in that cancels it.                                               *)
(*                                                                         *)
(* process_turn runs as a task of its own; it is suspended while it waits  *)
(* for Sonnet ("calling") or for a tool call ("tool"), and a barge-in may  *)
(* cancel it at either.  A call has one such task at a time (TwilioCall).  *)
(* Haiku neither reads nor writes the history and is left out.             *)
(***************************************************************************)
EXTENDS Naturals, Sequences

CONSTANTS
  MaxRounds,  \* max_rounds: Sonnet calls in one turn (5 in the code)
  MaxTools,   \* bound: tool calls Sonnet asks for in one response
  MaxTurns    \* bound: turns of the caller

ASSUME OrchestratorAssumption ==
  MaxRounds \in Nat \ {0} /\ MaxTools \in Nat \ {0} /\ MaxTurns \in Nat

VARIABLES
  conversation_history,  \* the kind of each message
  booking_configured,    \* _booking_service and _booking_tools are set
  pc,                    \* process_turn: "idle", "calling", "tool"
  round,                 \* _round
  tools_offered,         \* whether this turn's requests carry the tools
  tool_uses,             \* tool calls of the response still to be run
  stop_reason,           \* of that response
  turns,                 \* turns so far
  tools_cut              \* a barge-in has cancelled a tool call

turnVars == <<pc, round, tools_offered, tool_uses, stop_reason>>
vars == <<conversation_history, booking_configured, turnVars, turns, tools_cut>>

\* The caller's words, the results of tool calls, an answer, a response that
\* asks for tool calls, and the entry mark_interrupted makes.
UserMessage      == {"user", "tool_result"}
AssistantMessage == {"answer", "tool_use", "interrupted"}
LastMessage      == conversation_history[Len(conversation_history)]
Say(message)     == conversation_history' = Append(conversation_history, message)

Init ==
  /\ conversation_history = <<>>
  /\ booking_configured = FALSE
  /\ pc = "idle" /\ round = 0 /\ tools_offered = FALSE
  /\ tool_uses = 0 /\ stop_reason = "end_turn"
  /\ turns = 0 /\ tools_cut = FALSE

\* setup_session, at any moment of the call.
ConfigureBooking ==
  /\ ~booking_configured
  /\ booking_configured' = TRUE
  /\ UNCHANGED <<conversation_history, turnVars, turns, tools_cut>>

\* The request of a turn is put together once: tools configured later are
\* only offered from the next turn on.
ProcessTurn ==
  /\ pc = "idle" /\ turns < MaxTurns
  /\ Say("user")
  /\ pc' = "calling" /\ round' = 0
  /\ tools_offered' = booking_configured
  /\ turns' = turns + 1
  /\ UNCHANGED <<booking_configured, tool_uses, stop_reason, tools_cut>>

-----------------------------------------------------------------------------
\* Sonnet's response to the request of this round.

\* gather keeps the exception of a call that fails; the turn has no answer.
SonnetFails ==
  /\ pc = "calling"
  /\ pc' = "idle"
  /\ UNCHANGED <<conversation_history, booking_configured, round, tools_offered,
                 tool_uses, stop_reason, turns, tools_cut>>

SonnetAnswers ==
  /\ pc = "calling"
  /\ Say("answer")
  /\ pc' = "idle"
  /\ UNCHANGED <<booking_configured, round, tools_offered, tool_uses, stop_reason, turns,
                 tools_cut>>

\* A response that asks for n tool calls may also have been cut off by max_tokens.
SonnetUsesTools(n) ==
  /\ pc = "calling" /\ tools_offered
  /\ Say("tool_use")
  /\ pc' = "tool" /\ tool_uses' = n
  /\ stop_reason' \in {"tool_use", "max_tokens"}
  /\ UNCHANGED <<booking_configured, round, tools_offered, turns, tools_cut>>

\* Slip: the result of each tool call becomes a message of its own.
ToolReturnsEach ==
  /\ pc = "tool"
  /\ tool_uses' = tool_uses - 1
  /\ Say("tool_result")
  /\ IF tool_uses > 1
     THEN UNCHANGED <<pc, round>>
     ELSE /\ pc' = IF round + 1 < MaxRounds THEN "calling" ELSE "idle"
          /\ round' = round + 1
  /\ UNCHANGED <<booking_configured, tools_offered, stop_reason, turns, tools_cut>>

\* Slip: the results of a response that was cut off are not recorded.
ToolReturnsCutOff ==
  /\ pc = "tool"
  /\ tool_uses' = tool_uses - 1
  /\ \/ /\ tool_uses > 1
        /\ UNCHANGED <<conversation_history, pc, round>>
     \/ /\ tool_uses = 1 /\ stop_reason = "tool_use"
        /\ Say("tool_result")
        /\ round' = round + 1
        /\ pc' = IF round + 1 < MaxRounds THEN "calling" ELSE "idle"
     \/ /\ tool_uses = 1 /\ stop_reason # "tool_use"
        /\ Say("answer")
        /\ pc' = "idle"
        /\ UNCHANGED round
  /\ UNCHANGED <<booking_configured, tools_offered, stop_reason, turns, tools_cut>>

\* Slip: nothing is done after the tools of a response that was cut off.
ToolReturnsStuck ==
  /\ pc = "tool"
  /\ \/ /\ tool_uses > 1
        /\ tool_uses' = tool_uses - 1
        /\ UNCHANGED <<conversation_history, pc, round>>
     \/ /\ tool_uses = 1 /\ stop_reason = "tool_use"
        /\ Say("tool_result")
        /\ tool_uses' = 0
        /\ round' = round + 1
        /\ pc' = IF round + 1 < MaxRounds THEN "calling" ELSE "idle"
  /\ UNCHANGED <<booking_configured, tools_offered, stop_reason, turns, tools_cut>>

\* A tool call returns, with a result or with the message that it failed:
\* handle_tool_call raises nothing.  With the last one the results go into the
\* history; a response that was cut off ends the turn with its text, and the
\* round limit ends it without an answer.
ToolReturns ==
  /\ pc = "tool"
  /\ tool_uses' = tool_uses - 1
  /\ \/ /\ tool_uses > 1
        /\ UNCHANGED <<conversation_history, pc, round>>
     \/ /\ tool_uses = 1 /\ stop_reason = "tool_use"
        /\ Say("tool_result")
        /\ round' = round + 1
        /\ pc' = IF round + 1 < MaxRounds THEN "calling" ELSE "idle"
     \/ /\ tool_uses = 1 /\ stop_reason # "tool_use"
        /\ conversation_history' = conversation_history \o <<"tool_result", "answer">>
        /\ pc' = "idle"
        /\ UNCHANGED round
  /\ UNCHANGED <<booking_configured, tools_offered, stop_reason, turns, tools_cut>>

-----------------------------------------------------------------------------
\* Slip: the history is marked but the task is not cancelled.
BargeInKeepsTask ==
  /\ turns > 0
  /\ IF conversation_history # <<>> /\ LastMessage \in UserMessage
     THEN Say("interrupted") ELSE UNCHANGED conversation_history
  /\ UNCHANGED <<booking_configured, turnVars, turns, tools_cut>>

\* Slip: the tool calls of the cancelled turn are left to be run.
BargeInKeepsTool ==
  /\ turns > 0
  /\ pc' = "idle"
  /\ tools_cut' = (tools_cut \/ pc = "tool")
  /\ IF LastMessage \in UserMessage THEN Say("interrupted")
                                    ELSE UNCHANGED conversation_history
  /\ UNCHANGED <<booking_configured, round, tools_offered, tool_uses, stop_reason, turns>>

\* cancel_pipeline: the task is cancelled where it waits, then mark_interrupted
\* closes the turn if the caller spoke last.  (_current_partial_text is never
\* set, so there is no partial answer to record.)
BargeIn ==
  /\ turns > 0
  /\ pc' = "idle" /\ tool_uses' = 0
  /\ tools_cut' = (tools_cut \/ pc = "tool")
  /\ IF LastMessage \in UserMessage THEN Say("interrupted")
                                    ELSE UNCHANGED conversation_history
  /\ UNCHANGED <<booking_configured, round, tools_offered, stop_reason, turns>>

Turn ==
  \/ SonnetFails \/ SonnetAnswers \/ ToolReturns
  \/ \E n \in 1..MaxTools : SonnetUsesTools(n)

Next == ConfigureBooking \/ ProcessTurn \/ Turn \/ BargeIn

Spec == Init /\ [][Next]_vars

\* A request to Sonnet and a tool call settle, as the event loop runs every
\* ready task; nothing is assumed of the caller.
FairSpec == Spec /\ WF_vars(Turn)

-----------------------------------------------------------------------------
\* The variables have their types, and a tool call runs only in pc "tool".
TypeOK ==
  /\ conversation_history \in Seq(UserMessage \cup AssistantMessage)
  /\ booking_configured \in BOOLEAN /\ tools_offered \in BOOLEAN /\ tools_cut \in BOOLEAN
  /\ pc \in {"idle", "calling", "tool"}
  /\ round \in 0..MaxRounds /\ turns \in 0..MaxTurns
  /\ tool_uses \in 0..MaxTools /\ (pc = "tool" <=> tool_uses > 0)
  /\ stop_reason \in {"end_turn", "tool_use", "max_tokens"}

\* A request ends with the caller's words or with tool results: Sonnet is never
\* asked to go on from a message of its own, whatever barge-ins, failures and
\* rounds came before (llm_orchestrator.py:73, 166, 196-201).
RequestEndsWithUser ==
  pc = "calling" => conversation_history # <<>> /\ LastMessage \in UserMessage

\* Tool results directly follow the response that asked for them, across
\* rounds, cut-off responses and barge-ins (llm_orchestrator.py:147-166).
ResultsFollowTheirUse ==
  \A i \in 1..Len(conversation_history) :
    conversation_history[i] = "tool_result" =>
      i > 1 /\ conversation_history[i-1] = "tool_use"

\* Unless a barge-in has cancelled a tool call, every response that asked for
\* tools is answered by their results before anything else is said.  After one
\* that has, every later request of the call carries a use without its results
\* (llm_orchestrator.py:152, 192-201).
UsesAnswered ==
  \A i \in 1..Len(conversation_history) :
    conversation_history[i] = "tool_use" =>
      \/ i = Len(conversation_history) /\ pc = "tool"
      \/ i < Len(conversation_history) /\ conversation_history[i+1] = "tool_result"
OnlyBargeInsBreak == ~tools_cut => UsesAnswered

\* A turn ends: Sonnet cannot ask for tools for ever (llm_orchestrator.py:111).
TurnEnds == pc # "idle" ~> pc = "idle"
=============================================================================

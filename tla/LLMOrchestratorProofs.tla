----------------------- MODULE LLMOrchestratorProofs ------------------------
(***************************************************************************)
(* The conversation of a call stays one that Sonnet can go on from, for    *)
(* every round limit and every number of tool calls and turns.             *)
(***************************************************************************)
EXTENDS LLMOrchestrator, TLAPS

Message == UserMessage \cup AssistantMessage

\* What Next does to the history: it keeps it, or appends one or two messages.
LEMMA Said ==
  ASSUME conversation_history \in Seq(Message), NEW m \in Message, Say(m)
  PROVE  /\ conversation_history' \in Seq(Message)
         /\ Len(conversation_history) \in Nat
         /\ Len(conversation_history') = Len(conversation_history) + 1
         /\ conversation_history'[Len(conversation_history) + 1] = m
         /\ \A i \in 1..Len(conversation_history) :
              conversation_history'[i] = conversation_history[i]
BY DEF Say

LEMMA SaidTwo ==
  ASSUME conversation_history \in Seq(Message), NEW m \in Message, NEW n \in Message,
         conversation_history' = conversation_history \o <<m, n>>
  PROVE  /\ conversation_history' \in Seq(Message)
         /\ Len(conversation_history) \in Nat
         /\ Len(conversation_history') = Len(conversation_history) + 2
         /\ conversation_history'[Len(conversation_history) + 1] = m
         /\ conversation_history'[Len(conversation_history) + 2] = n
         /\ \A i \in 1..Len(conversation_history) :
              conversation_history'[i] = conversation_history[i]
OBVIOUS

LEMMA Messages ==
  /\ {"user", "tool_result", "answer", "tool_use", "interrupted"} = Message
  /\ UserMessage \subseteq Message /\ AssistantMessage \subseteq Message
BY DEF Message, UserMessage, AssistantMessage

-----------------------------------------------------------------------------
\* A turn that runs has rounds left.
TypeInv == TypeOK /\ (pc # "idle" => round < MaxRounds)

\* A step keeps the types.
LEMMA TypeStep == TypeInv /\ [Next]_vars => TypeInv'
<1> SUFFICES ASSUME TypeInv, [Next]_vars
             PROVE  TypeInv'
  OBVIOUS
<1>a. conversation_history \in Seq(Message)
  BY DEF TypeInv, TypeOK, Message
<1>b. SUFFICES /\ conversation_history' \in Seq(Message)
               /\ booking_configured' \in BOOLEAN /\ tools_offered' \in BOOLEAN
               /\ tools_cut' \in BOOLEAN
               /\ pc' \in {"idle", "calling", "tool"}
               /\ round' \in 0..MaxRounds /\ turns' \in 0..MaxTurns
               /\ tool_uses' \in 0..MaxTools /\ (pc' = "tool" <=> tool_uses' > 0)
               /\ stop_reason' \in {"end_turn", "tool_use", "max_tokens"}
               /\ (pc' # "idle" => round' < MaxRounds)
  BY DEF TypeInv, TypeOK, Message
<1> USE OrchestratorAssumption DEF OrchestratorAssumption, TypeInv, TypeOK, turnVars
<1>1. CASE ConfigureBooking
  BY <1>1, <1>a DEF ConfigureBooking
<1>2. CASE ProcessTurn
  BY <1>2, <1>a, Said, Messages DEF ProcessTurn
<1>3. CASE SonnetFails
  BY <1>3, <1>a DEF SonnetFails
<1>4. CASE SonnetAnswers
  BY <1>4, <1>a, Said, Messages DEF SonnetAnswers
<1>5. CASE \E n \in 1..MaxTools : SonnetUsesTools(n)
  <2>1. conversation_history' \in Seq(Message)
    BY <1>5, <1>a, Said, Messages DEF SonnetUsesTools
  <2> QED
    BY <1>5, <2>1 DEF SonnetUsesTools
<1>6. CASE ToolReturns
  <2>1. conversation_history' \in Seq(Message)
    BY <1>6, <1>a, Said, SaidTwo, Messages DEF ToolReturns
  <2> QED
    BY <1>6, <2>1 DEF ToolReturns
<1>7. CASE BargeIn
  <2>1. conversation_history' \in Seq(Message)
    BY <1>7, <1>a, Said, Messages DEF BargeIn
  <2> QED
    BY <1>7, <2>1 DEF BargeIn
<1>8. CASE UNCHANGED vars
  BY <1>8, <1>a DEF vars
<1> QED
  BY <1>1, <1>2, <1>3, <1>4, <1>5, <1>6, <1>7, <1>8 DEF Next, Turn

LEMMA TypeInvariant == Spec => []TypeInv
<1>1. Init => TypeInv
  <2> SUFFICES ASSUME Init
               PROVE  TypeInv
    OBVIOUS
  <2>1. conversation_history \in Seq(UserMessage \cup AssistantMessage)
    BY DEF Init
  <2>2. /\ round \in 0..MaxRounds /\ turns \in 0..MaxTurns /\ tool_uses \in 0..MaxTools
        /\ pc # "tool" /\ ~(tool_uses > 0) /\ pc = "idle"
    BY OrchestratorAssumption DEF Init, OrchestratorAssumption
  <2> QED
    BY <2>1, <2>2 DEF Init, TypeInv, TypeOK
<1> QED
  BY <1>1, TypeStep, PTL DEF Spec

\* The variables of LLMOrchestrator have their types, and a tool call runs exactly
\* while the turn waits for one.
THEOREM TypeCorrect == Spec => []TypeOK
<1>1. TypeInv => TypeOK
  BY DEF TypeInv
<1> QED
  BY <1>1, TypeInvariant, PTL

-----------------------------------------------------------------------------
\* What the history ends with, by what the turn waits for.  While tool calls run it
\* ends with the response that asked for them, whose results are not there yet.
HistoryInv ==
  /\ RequestEndsWithUser
  /\ pc = "tool" => conversation_history # <<>> /\ LastMessage = "tool_use"
  /\ ResultsFollowTheirUse
  /\ OnlyBargeInsBreak

\* The invariant after one message that is neither a use nor results of tools.
LEMMA HistorySay ==
  ASSUME TypeInv, HistoryInv, NEW m \in {"user", "answer", "interrupted"}, Say(m),
         pc' = "calling" => m = "user", pc' # "tool",
         tools_cut' \/ (pc # "tool" /\ ~tools_cut)
  PROVE  HistoryInv'
<1>1. /\ Len(conversation_history) \in Nat
      /\ Len(conversation_history') = Len(conversation_history) + 1
      /\ conversation_history'[Len(conversation_history) + 1] = m
      /\ \A i \in 1..Len(conversation_history) :
           conversation_history'[i] = conversation_history[i]
      /\ conversation_history' \in Seq(Message)
  BY Said, Messages DEF TypeInv, TypeOK, Message
<1>2. RequestEndsWithUser'
  BY <1>1 DEF RequestEndsWithUser, LastMessage, UserMessage
<1>3. ResultsFollowTheirUse'
  BY <1>1 DEF HistoryInv, ResultsFollowTheirUse
<1>4. ASSUME ~tools_cut'
      PROVE  UsesAnswered'
  BY <1>1, <1>4 DEF HistoryInv, OnlyBargeInsBreak, UsesAnswered
<1> QED
  BY <1>2, <1>3, <1>4 DEF HistoryInv, OnlyBargeInsBreak

LEMMA HistoryStep == TypeInv /\ HistoryInv /\ [Next]_vars => HistoryInv'
<1> SUFFICES ASSUME TypeInv, HistoryInv, [Next]_vars
             PROVE  HistoryInv'
  OBVIOUS
<1>a. conversation_history \in Seq(Message) /\ tools_cut \in BOOLEAN
  BY DEF TypeInv, TypeOK, Message
<1>1. CASE /\ conversation_history' = conversation_history /\ tools_cut' = tools_cut
           /\ pc' = pc \/ (pc' = "idle" /\ pc # "tool")
  BY <1>1 DEF HistoryInv, RequestEndsWithUser, ResultsFollowTheirUse, OnlyBargeInsBreak,
              UsesAnswered, LastMessage
<1>2. CASE ProcessTurn
  BY <1>2, <1>a, HistorySay DEF ProcessTurn, HistoryInv
<1>3. CASE SonnetAnswers
  BY <1>3, <1>a, HistorySay DEF SonnetAnswers, HistoryInv
<1>4. CASE \E n \in 1..MaxTools : SonnetUsesTools(n)
  <2>1. pc = "calling" /\ Say("tool_use") /\ pc' = "tool" /\ tools_cut' = tools_cut
    BY <1>4 DEF SonnetUsesTools
  <2>2. /\ Len(conversation_history) \in Nat
        /\ Len(conversation_history') = Len(conversation_history) + 1
        /\ conversation_history'[Len(conversation_history) + 1] = "tool_use"
        /\ \A i \in 1..Len(conversation_history) :
             conversation_history'[i] = conversation_history[i]
        /\ conversation_history' \in Seq(Message)
    BY <1>a, <2>1, Said, Messages
  <2>3. conversation_history' # <<>> /\ LastMessage' = "tool_use"
    BY <2>2 DEF LastMessage
  <2>4. ResultsFollowTheirUse'
    BY <2>2 DEF HistoryInv, ResultsFollowTheirUse
  <2>5. ASSUME ~tools_cut'
        PROVE  UsesAnswered'
    BY <2>1, <2>2, <2>5 DEF HistoryInv, OnlyBargeInsBreak, UsesAnswered
  <2> QED
    BY <2>1, <2>3, <2>4, <2>5 DEF HistoryInv, OnlyBargeInsBreak, RequestEndsWithUser
<1>5. CASE ToolReturns
  <2>1. /\ pc = "tool" /\ LastMessage = "tool_use" /\ conversation_history # <<>>
        /\ tools_cut' = tools_cut
    BY <1>5 DEF ToolReturns, HistoryInv
  <2>2. Len(conversation_history) \in Nat \ {0}
    BY <1>a, <2>1
  <2>3. CASE conversation_history' = conversation_history /\ pc' = pc
    BY <1>1, <2>1, <2>3
  <2>4. CASE Say("tool_result") /\ pc' \in {"calling", "idle"}
    <3>1. /\ Len(conversation_history') = Len(conversation_history) + 1
          /\ conversation_history'[Len(conversation_history) + 1] = "tool_result"
          /\ \A i \in 1..Len(conversation_history) :
               conversation_history'[i] = conversation_history[i]
          /\ conversation_history' \in Seq(Message)
      BY <1>a, <2>4, Said, Messages
    <3>2. RequestEndsWithUser'
      BY <2>2, <3>1 DEF RequestEndsWithUser, LastMessage, UserMessage
    <3>3. ResultsFollowTheirUse'
      BY <2>1, <2>2, <3>1 DEF HistoryInv, ResultsFollowTheirUse, LastMessage
    <3>4. ASSUME ~tools_cut'
          PROVE  UsesAnswered'
      BY <2>1, <2>2, <3>1, <3>4
         DEF HistoryInv, OnlyBargeInsBreak, UsesAnswered, LastMessage
    <3> QED
      BY <2>4, <3>2, <3>3, <3>4 DEF HistoryInv, OnlyBargeInsBreak
  <2>5. CASE /\ conversation_history' = conversation_history \o <<"tool_result", "answer">>
             /\ pc' = "idle"
    <3>1. /\ Len(conversation_history') = Len(conversation_history) + 2
          /\ conversation_history'[Len(conversation_history) + 1] = "tool_result"
          /\ conversation_history'[Len(conversation_history) + 2] = "answer"
          /\ \A i \in 1..Len(conversation_history) :
               conversation_history'[i] = conversation_history[i]
          /\ conversation_history' \in Seq(Message)
      BY <1>a, <2>5, SaidTwo, Messages
    <3>2. ResultsFollowTheirUse'
      BY <2>1, <2>2, <3>1 DEF HistoryInv, ResultsFollowTheirUse, LastMessage
    <3>3. ASSUME ~tools_cut'
          PROVE  UsesAnswered'
      BY <2>1, <2>2, <3>1, <3>3
         DEF HistoryInv, OnlyBargeInsBreak, UsesAnswered, LastMessage
    <3> QED
      BY <2>5, <3>2, <3>3 DEF HistoryInv, OnlyBargeInsBreak, RequestEndsWithUser
  <2> QED
    BY <1>5, <2>3, <2>4, <2>5 DEF ToolReturns
<1>6. CASE BargeIn
  <2>1. pc' = "idle" /\ tools_cut' = (tools_cut \/ pc = "tool")
    BY <1>6 DEF BargeIn
  <2>2. CASE UNCHANGED conversation_history
    BY <2>1, <2>2, <1>a
       DEF HistoryInv, RequestEndsWithUser, ResultsFollowTheirUse, OnlyBargeInsBreak, UsesAnswered
  <2>3. CASE Say("interrupted")
    BY <2>1, <2>3, <1>a, HistorySay
  <2> QED
    BY <1>6, <2>2, <2>3 DEF BargeIn
<1> QED
  BY <1>1, <1>2, <1>3, <1>4, <1>5, <1>6
     DEF Next, Turn, vars, turnVars, ConfigureBooking, SonnetFails

LEMMA HistoryInvariant == Spec => []HistoryInv
<1>1. Init => HistoryInv
  BY DEF Init, HistoryInv, RequestEndsWithUser, ResultsFollowTheirUse, OnlyBargeInsBreak,
         UsesAnswered
<1> QED
  BY <1>1, HistoryStep, TypeInvariant, PTL DEF Spec

\* Sonnet is never asked to go on from a message of its own (process_turn,
\* mark_interrupted).
THEOREM SonnetIsAskedByTheUser == Spec => []RequestEndsWithUser
<1>1. HistoryInv => RequestEndsWithUser
  BY DEF HistoryInv
<1> QED
  BY <1>1, HistoryInvariant, PTL

\* Tool results directly follow the response that asked for them (_run_sonnet).
THEOREM ResultsAreInPlace == Spec => []ResultsFollowTheirUse
<1>1. HistoryInv => ResultsFollowTheirUse
  BY DEF HistoryInv
<1> QED
  BY <1>1, HistoryInvariant, PTL

\* A response that asked for tools stays without their results only if a barge-in has
\* cancelled a tool call (_run_sonnet, cancel_pipeline).
THEOREM OnlyBargeInsLoseResults == Spec => []OnlyBargeInsBreak
<1>1. HistoryInv => OnlyBargeInsBreak
  BY DEF HistoryInv
<1> QED
  BY <1>1, HistoryInvariant, PTL
=============================================================================

SPECIFICATION Spec
CONSTANTS
  MaxTurns = 2
  MaxVad = 1
  MaxBacklog = 1
  FalseTurns = TRUE
  Breaks = FALSE
INVARIANT
  OneAnswerAtATime
CHECK_DEADLOCK FALSE

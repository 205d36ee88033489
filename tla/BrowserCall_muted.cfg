SPECIFICATION Spec
CONSTANTS
  MaxTurns = 2
  MaxVad = 1
  MaxBacklog = 1
  FalseTurns = FALSE
  Breaks = FALSE
INVARIANT
  AudioIsHeard
CHECK_DEADLOCK FALSE

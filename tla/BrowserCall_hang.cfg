SPECIFICATION FairSpec
CONSTANTS
  MaxTurns = 2
  MaxVad = 2
  MaxBacklog = 1
  FalseTurns = FALSE
  Breaks = TRUE
PROPERTY
  LostCallIsClosed
CHECK_DEADLOCK FALSE

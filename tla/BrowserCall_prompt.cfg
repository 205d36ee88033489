SPECIFICATION FairSpec
CONSTANTS
  MaxTurns = 1
  MaxVad = 1
  MaxBacklog = 1
  FalseTurns = FALSE
  Breaks = FALSE
PROPERTY
  SilenceEndsTheCall
CHECK_DEADLOCK FALSE

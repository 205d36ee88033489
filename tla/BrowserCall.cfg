SPECIFICATION FairSpec
CONSTANTS
  MaxTurns = 2
  MaxVad = 1
  MaxBacklog = 1
  FalseTurns = FALSE
  Breaks = TRUE
INVARIANTS
  TypeOK
  NothingStaleIsSpoken
  BotSpeakingWillEnd
  NoTimerWhileUserSpeaks
  EndFollowsItsWords
PROPERTIES
  QuietAfterCleanUp
  BotSpeakingEnds
  BargeInCompletes
CHECK_DEADLOCK FALSE

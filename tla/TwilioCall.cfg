SPECIFICATION FairSpec
CONSTANTS
  MaxTurns = 2
  MaxBacklog = 2
  MaxWords = 1
INVARIANTS
  TypeOK
  NothingStaleIsSpoken
  AnswersAreAccountedFor
  BotSpeakingWillEnd
PROPERTIES
  BotSpeakingEnds
CHECK_DEADLOCK FALSE

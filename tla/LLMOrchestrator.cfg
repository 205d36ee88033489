SPECIFICATION FairSpec
CONSTANTS
  MaxRounds = 5
  MaxTools = 2
  MaxTurns = 3
INVARIANTS
  TypeOK
  RequestEndsWithUser
  ResultsFollowTheirUse
  OnlyBargeInsBreak
PROPERTIES
  TurnEnds
CHECK_DEADLOCK FALSE

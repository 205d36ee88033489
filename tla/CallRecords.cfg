SPECIFICATION FairSpec
CONSTANTS
  Calls = {k1, k2}
  number = number
  Numbers = {number}
  Caller <- OneCaller
  Names = {"Ann", "Bob"}
  MaxFaulty = 1
INVARIANTS
  TranscriptIsKept
  LostRaceHasWinner
  WarnedHasNoTools
PROPERTIES
  NameIsKept
  SetupSpeaks
CHECK_DEADLOCK FALSE

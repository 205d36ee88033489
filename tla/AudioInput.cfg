SPECIFICATION Spec
CONSTANTS
  Chunk = 5
  Window = 8
  Frame = 20
  MinSpeech = 4
  MinSilence = 10
  MaxChunks = 32
  MaxTurns = 2
  MaxQueue = 2
INVARIANTS
  AudioIsConserved
  SpeechIsNoticed
  FlagIsStaleOnlyAfterReset
  WordsOfTheirTurn
CHECK_DEADLOCK FALSE

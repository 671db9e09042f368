SPECIFICATION FairStreamSpec
CONSTANTS
  Character <- MCCharacter
  Bodies <- MCBodies
  MaxChunk = 3
INVARIANTS
  ChunksDoNotMatter
  SpokenIsStored
PROPERTIES
  AnswersEnd
CHECK_DEADLOCK FALSE

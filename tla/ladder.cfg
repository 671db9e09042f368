SPECIFICATION FairSpec
CONSTANTS
  Rungs <- FullLadder
  HasClient = TRUE
  Prefer = "auto"
  Redline = "regenerate"
  MaxAttempts = 2
  Transcripts <- Talk
  Texts <- Every
  NoTurn = NoTurn
  MaxTurns = 2
INVARIANTS
  FloorFollowsThread
  BlindTurnsTrustCloud
  MemoryFollowsSpeech
PROPERTIES
  TurnsEnd
CHECK_DEADLOCK FALSE

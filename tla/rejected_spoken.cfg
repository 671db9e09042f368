SPECIFICATION Spec
CONSTANTS
  Rungs <- FullLadder
  HasClient = TRUE
  Prefer = "auto"
  Redline = "off"
  MaxAttempts = 0
  Transcripts <- Talk
  Texts <- Plain
  NoTurn = NoTurn
  MaxTurns = 1
INVARIANTS
  RejectedNeverSpoken
CHECK_DEADLOCK FALSE

SPECIFICATION Spec
CONSTANTS
  AlmanacSpeak = TRUE
  Patience = 0
  MaxSnoozes = 1
  Modes = {"first_boot", "explicit"}
  AckTimeout = 1
  Reminder = {pill}
  Utterances <- Said
  NoAck = NoAck
  MaxClock = 2
  MaxAsked = 2
  MaxSteps = 4
  MaxBoots = 1
  pill = pill
INVARIANTS
  SettledIsFinal
  WindowsAreKept
  CeremonyKeepsOrder
CHECK_DEADLOCK FALSE

SPECIFICATION Spec
CONSTANTS
  IdleGap = 2
  HistoryTurns = 2
  HasExtractor = TRUE
  Advances <- AnyClock
  NoSession = NoSession
  MaxClock = 6
  MaxTurns = 4
  MaxBoots = 1
INVARIANTS
  HistoryIsThisSession
  SessionsFollowGaps
  EndEventsAreHonest
  BatchesSplitAtIdleGaps
  AnswersAreWrittenOnce
CHECK_DEADLOCK FALSE

SPECIFICATION FairSpec
CONSTANTS
  plans = plans
  plansNow = plansNow
  music = music
  term = term
  Topic = {plans, plansNow, music}
  Alike <- Close
  Threshold = 92
  Length <- Lengths
  CharBudget = 4
  Memories <- Found
  Transcripts <- Talk
  Term = {term}
  Configs <- Swapped
  CommandMaxWords = 6
  Answers <- Answered
  Stamps = {1, 2}
  HistoryTurns = 2
  MaxTurns = 1
  MaxBoots = 1
INVARIANTS
  OverrideIsHonoured
CHECK_DEADLOCK FALSE

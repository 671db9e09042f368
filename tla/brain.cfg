SPECIFICATION FairSpec
CONSTANTS
  plans = plans
  plansNow = plansNow
  music = music
  term = term
  Topic = {plans, plansNow, music}
  Alike <- Close
  Threshold = 92
  Length <- Lengths
  CharBudget = 4
  Memories <- Found
  Transcripts <- Talk
  Term = {term}
  Configs <- Setups
  CommandMaxWords = 6
  Answers <- Answered
  Stamps = {1, 2}
  HistoryTurns = 2
  MaxTurns = 4
  MaxBoots = 2
INVARIANTS
  CachedRepliesAreSafe
  RepeatsAreTheLastAnswer
  LatestExchangesAreShown
  GuardsReachEveryModel
  RecordedTurnsWereThought
PROPERTIES
  CacheHoldsWhatWasSaid
  LastUsedStays
  KeyRecovers
CHECK_DEADLOCK FALSE

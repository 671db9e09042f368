SPECIFICATION FairSpec
CONSTANTS
  Letter = {"a", "b", "A", "B"}
  Digit = {"1"}
  Other = {".", " "}
  Lead = {"lead"}
  Continuation = {"cont"}
  Dot = "."
  Lower <- MCLower
  Replies <- MCReplies
  Vocabularies <- MCVocabularies
  MaxAttempts = 2
INVARIANTS
  ScanIsExact
  AbbreviationsAreCaught
PROPERTIES
  ImplementsVerdict
  ScansEnd
CHECK_DEADLOCK FALSE

SPECIFICATION Spec
CONSTANTS
  RecapMax = 1
  ConfidenceFloor = 60
  Origin <- MCOrigin
  FirstTurns = {47540}
  Stores <- MCStores
  Extractions <- MCExtractions
  Calls <- MCCalls
  MaxTurns = 3
  MaxCalls = 1
  MaxDays = 1
  MaxRestarts = 1
INVARIANTS
  DatesAreRight
  WritebackIsExact
  RecapIsOfThePast
  AcksAreTrue
CHECK_DEADLOCK FALSE

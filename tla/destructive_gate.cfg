SPECIFICATION FairSpec
CONSTANTS
  Tools = {"wm.fs.rm"}
  RestartAdvances <- Forward
  None = None
  MaxClock = 1
  MaxOffers = 3
  MaxInbox = 2
  MaxBoots = 1
INVARIANTS
  RunsAtMostOnce
  NothingRunsUnconfirmed
PROPERTIES
  ImplementsLedger
  ConsentSettles
CHECK_DEADLOCK FALSE

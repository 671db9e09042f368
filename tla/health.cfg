SPECIFICATION Spec
CONSTANTS
  Component = {"stt", "tts"}
  Kind = {"network_down", "other"}
  Silent = {"tts_pw_cat_missing"}
  RateLimit = 2
  Advances <- Ticks
  None = None
  MaxClock = 3
  MaxHeard = 3
  MaxShown = 1
INVARIANTS
  LimitIsExact
  SnapshotsAreMoments
CHECK_DEADLOCK FALSE

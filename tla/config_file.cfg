SPECIFICATION FileSpec
CONSTANTS
  Cli = {wmd}
  Daemon = Daemon
  Commands <- Operator
  Firsts <- Handwritten
  Env <- Household
  Environments <- Surroundings
  Inode = {1, 2, 3, 4}
  NoFile = NoFile
  Unset = Unset
  MaxEvents = 6
  wmd = wmd
INVARIANTS
  FileIsUsable
  CommandsChangeOneSetting
  OverridesAreTakenOnce
CHECK_DEADLOCK FALSE

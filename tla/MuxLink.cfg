SPECIFICATION LiveLinkSpec
CONSTANTS
  Apps = {1, 2}
  MaxServers = 2
  Resets = TRUE
INVARIANTS
  StreamHasConnection
PROPERTIES
  EveryEndFollows
  ListenerComesBack
CHECK_DEADLOCK FALSE

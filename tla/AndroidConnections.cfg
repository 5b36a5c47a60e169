SPECIFICATION LiveSpec
CONSTANTS
  Peers = {p, q}
  Ids = {1, 2}
  MAXIMUM_NUMBER_OF_CONNECTIONS = 1
  Faults = {"bind"}
  Preempts = FALSE
INVARIANTS
  NothingOutlives
  CallsAreKept
PROPERTIES
  EverythingEnds
CHECK_DEADLOCK FALSE

SPECIFICATION LiveSpec
CONSTANTS
  p1 = p1
  p2 = p2
  Peers = {p1, p2}
  Reader = p1
  Lists <- SomeLists
  MAXIMUM_NUMBER_OF_PEERS_TO_NOTIFY = 1
  MaxSeq = 2
  MaxCalls = 1
  Overlap = FALSE
  None = None
INVARIANTS
  BooksAgree
PROPERTIES
  LastIsSent
  ChangesArrive
CHECK_DEADLOCK FALSE

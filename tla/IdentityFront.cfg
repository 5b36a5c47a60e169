SPECIFICATION FrontSpec
CONSTANT Peer = {1, 2, 3}
INVARIANTS
  FrontKeepsUp
CHECK_DEADLOCK FALSE

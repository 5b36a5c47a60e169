SPECIFICATION LiveSpec
CONSTANTS
  p1 = p1
  p2 = p2
  p3 = p3
  Peers <- TwoPeers
  MAXSIZE = 1
  MaxRetries = 1
  MaxAppearances = 2
  AllowRestart = FALSE
INVARIANTS
  NoUncaught
  NoStuckPeer
  OneRequestPerPeer
  QuietAfterStop
  PoolOwnsRequests
PROPERTIES
  FollowsUp
CHECK_DEADLOCK FALSE

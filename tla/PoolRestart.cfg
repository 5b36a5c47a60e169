SPECIFICATION LiveSpec
CONSTANTS
  n1 = n1
  n2 = n2
  w1 = w1
  w2 = w2
  NativePeers = {n1, n2}
  WifiPeers = {}
  Ids = {1}
  MaxSerial = 2
  MaxSessions = 2
PROPERTY QueueSurvivesRestart
CHECK_DEADLOCK FALSE

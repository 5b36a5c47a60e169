SPECIFICATION LiveSpec
CONSTANTS
  n1 = n1
  n2 = n2
  w1 = w1
  w2 = w2
  NativePeers = {n1, n2}
  WifiPeers = {w1}
  Ids = {1, 2, 3}
  MaxSerial = 2
  MaxSessions = 1
PROPERTY QueueServedWhileRunning
INVARIANTS BooksAgree OneNativeAtATime
CHECK_DEADLOCK FALSE

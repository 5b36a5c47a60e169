SPECIFICATION Spec
CONSTANTS
  n1 = n1
  n2 = n2
  w1 = w1
  NativePeers <- TwoNative
  WifiPeers <- OneWifi
  Ports <- ThreePorts
  MaxQueue = 2
  Conditions = {{"wifi"}}
INVARIANTS
  NoRepeatedAnnouncement
CHECK_DEADLOCK FALSE

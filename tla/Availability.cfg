SPECIFICATION LiveSpec
CONSTANTS
  n1 = n1
  n2 = n2
  w1 = w1
  NativePeers <- OneNative
  WifiPeers <- OneWifi
  Ports <- TwoPorts
  MaxQueue = 2
  Conditions = {{"wifi"}, {"link"}, {"link", "listen", "stop"}}
INVARIANTS
  BooksAgree
  HeadIsServed
  NoRepeatedAnnouncement
PROPERTIES
  SilentBeforeDropped
  AdvertisedIsCached
CHECK_DEADLOCK FALSE

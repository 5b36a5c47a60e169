SPECIFICATION Spec
CONSTANTS
  p1 = p1
  p2 = p2
  p3 = p3
  Peers <- TwoPeers
  MAXSIZE = 1
  MaxRetries = 1
  MaxAppearances = 3
  AllowRestart = FALSE
SYMMETRY PeerSymmetry
VIEW WhatMatters
INVARIANTS
  TypeOK
  IInv
  NoUncaught
  NoStuckPeer
  OneRequestPerPeer
  QuietAfterStop
  PoolOwnsRequests
  AdvertisedOwnAddress
  DictionaryBounded
CHECK_DEADLOCK FALSE

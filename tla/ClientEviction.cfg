SPECIFICATION Spec
CONSTANTS
  p1 = p1
  p2 = p2
  p3 = p3
  Peers <- ThreePeers
  MAXSIZE = 2
  MaxRetries = 1
  MaxAppearances = 3
  AllowRestart = FALSE
SYMMETRY PeerSymmetry
CONSTRAINT OneSession
VIEW WhatMatters
PROPERTIES
  EvictsMostDispensable
CHECK_DEADLOCK FALSE

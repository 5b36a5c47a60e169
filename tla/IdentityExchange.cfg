SPECIFICATION LiveSpec
CONSTANTS
  Devices = {2, 3}
  Peers = {1, 2, 3}
  Known <- MCKnown
  MaxLate = 1
  Rns = {1, 2, 3, 4, 5, 6}
  Troubles = {"bad name", "restart", "start error", "stop error"}
INVARIANTS
  CodesAgree
  MachinesFollow
PROPERTIES
  KeepsApi
  BothGetTheCode
CHECK_DEADLOCK FALSE

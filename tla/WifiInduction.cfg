SPECIFICATION Spec
CONSTANT
  MaxQueue = 4
INVARIANTS
  IInv
  RunsAreWanted
  RestFits
CHECK_DEADLOCK FALSE

SPECIFICATION LiveSpec
CONSTANT MaxQueue = 3
INVARIANTS
  LayersAgree
  RestIsAsAsked
PROPERTIES
  EveryStopEnds
CHECK_DEADLOCK FALSE

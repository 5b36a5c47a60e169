SPECIFICATION LiveSpec
CONSTANT
  MaxQueue = 4
INVARIANTS
  StateIsFresh
  StoppedIsSilent
  AdvertisedIsServed
  NothingRunsUnwanted
  RestIsAsAsked
PROPERTIES
  EveryTurnEnds
CHECK_DEADLOCK FALSE

SPECIFICATION ServerSpec
CONSTANTS
  Device = "d"
  Strangers = {"s"}
  KeyLists <- MCKeyLists
  Life = 3
  Early = 1
  OneDay = 4
  Fuzz = {0, 1}
  MaxCache = 2
  MaxStarts = 4
  MaxTime = 6
  NoCache = NoCache
INVARIANTS
  RecentIsAccepted
  IdentityIsTheAddressees
CHECK_DEADLOCK FALSE

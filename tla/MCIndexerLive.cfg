\* A coin and a stake, a pipeline for each, bootstrapped after the first
\* checkpoint, two crashes: the tables catch up.
SPECIFICATION FairSpec
CONSTANTS
  o1 = o1
  o2 = o2
  w1 = w1
  w2 = w2
  Objects = {o1, o2}
  Coins = {o1}
  Stakes = {o2}
  Owners = {w1}
  NotAddress = NotAddress
  Gone = Gone
  Untouched = Untouched
  NoRow = NoRow
  NoSlot = NoSlot
  Pipelines = {"coin_objects", "positions"}
  FirstCheckpoint = 2
  MaxTx = 2
  MaxCheckpoints = 3
  BatchCap = 2
  MaxCrashes = 2
CHECK_DEADLOCK FALSE
PROPERTIES CatchesUp

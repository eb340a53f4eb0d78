\* The transactions' pipeline and that of the coins, over one coin that moves
\* between two wallets, is wrapped, and comes back: deep enough for a batch of
\* two checkpoints on top of a committed one.
SPECIFICATION Spec
CONSTANTS
  o1 = o1
  o2 = o2
  w1 = w1
  w2 = w2
  Objects = {o1}
  Coins = {o1}
  Stakes = {}
  Owners = {w1, w2}
  NotAddress = NotAddress
  Gone = Gone
  Untouched = Untouched
  NoRow = NoRow
  NoSlot = NoSlot
  Pipelines = {"coin_objects", "transactions"}
  FirstCheckpoint = 1
  MaxTx = 4
  MaxCheckpoints = 3
  BatchCap = 2
  MaxCrashes = 1
INVARIANTS TablesMatchWatermark BatchHoldsNewest
PROPERTY RefinesLedger
SYMMETRY Symmetry
CHECK_DEADLOCK FALSE

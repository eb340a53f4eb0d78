\* The discovery: two callers, two nodes, the three filters that match, four
\* objects in pages of one.  The resolution: wallets of one or two positions,
\* every adapter, any part of the scan, any reads, prices, decimals, registries
\* and balances missing.
SPECIFICATION PositionsSpec
CONSTANTS
  c1 = c1
  c2 = c2
  Callers = {c1, c2}
  Objects = {1, 2, 3, 4}
  Positions <- MCPositions
  Filters <- MCFilters
  FilterOf <- MCFilterOf
  Nodes = 2
  PageSize = 1
  FilterPages = 2
  ScanPages = 3
  MaxMoves = 2
  MaxRuns = 2
  Held <- AllHeld
  Wallets <- SomeWallets
  NoPool = NoPool
  Null = Null
  Pending = Pending
  Holdings = 100
  Purse <- ThePurse
  Decimals <- OnChain
  Default <- Assumed
  ClassOf <- Kinds
INVARIANTS NeverOverstated Exact EvidenceKept CountedOnce ReadInFull SnapshotFaithful AnalysisHonest
PROPERTIES FilterFailuresHarmless OneFailureTolerated EveryoneAnswered Served

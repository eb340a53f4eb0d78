\* A wallet whose only position is a closed one at Turbos.
SPECIFICATION AnalysisSpec
CONSTANTS
  Held <- AllHeld
  Wallets <- ClosedWallets
  NoPool = NoPool
  Null = Null
  Pending = Pending
  Holdings = 100
  Purse <- ThePurse
  Decimals <- OnChain
  Default <- Assumed
  ClassOf <- Kinds
INVARIANT ClosedWorthNothing

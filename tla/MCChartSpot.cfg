\* Charts over five points in time, one move of price or holdings, no fault, no
\* tick yet: the current price in buckets that are over.
SPECIFICATION HistorySpec
CONSTANTS
  Wallets = {"a"}
  Charts = {"chart"}
  Collectors = {"tick"}
  HourLen = 3
  Horizon = 12
  Delay = 1
  MaxTake = 1
  MaxFaults = 1
  MaxNow = 0
  Prices = {2, 9}
  Holdings <- Held
  Ranges <- Shown
  Hour = 2
  Ratio = 4
  Enough = 3
  MaxTicks = 1
  Dense = 2
  MaxMoves = 1
  MaxMishaps = 0
  MaxClock = 4
INVARIANT NeverCurrentPrices
CHECK_DEADLOCK FALSE

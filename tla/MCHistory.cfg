\* The collector and a chart request, one failure or restart, five hours; charts
\* over five points in time, one move of price or holdings, one fault, one tick
\* of the price collector and one series of CoinGecko.
SPECIFICATION HistorySpec
CONSTANTS
  Wallets = {"a"}
  Charts = {"chart"}
  Collectors = {"tick"}
  HourLen = 3
  Horizon = 12
  Delay = 1
  MaxTake = 1
  MaxFaults = 1
  MaxNow = 14
  Prices = {2, 9}
  Holdings <- Held
  Ranges <- Shown
  Hour = 2
  Ratio = 4
  Enough = 3
  MaxTicks = 1
  Dense = 2
  MaxMoves = 1
  MaxMishaps = 1
  MaxClock = 4
INVARIANTS OnePerSaver NoLongGap ChartWhole PastHonest QuietWallet
CHECK_DEADLOCK FALSE

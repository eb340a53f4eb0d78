\* Two chart requests for one wallet.
SPECIFICATION Spec
CONSTANTS
  a = a
  chart1 = chart1
  chart2 = chart2
  tick1 = tick1
  tick2 = tick2
  Wallets = {a}
  Charts = {chart1, chart2}
  Collectors = {tick1}
  HourLen = 2
  Horizon = 6
  Delay = 1
  MaxTake = 2
  MaxFaults = 0
  MaxNow = 4
INVARIANTS OnePerHour
CHECK_DEADLOCK FALSE

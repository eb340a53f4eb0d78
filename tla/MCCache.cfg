\* Two callers of either cache over 50 s, loads that may fail but settle.
SPECIFICATION FairSpec
CONSTANTS
  r1 = r1
  r2 = r2
  Readers = {r1, r2}
  None = None
  MaxNow = 20
  MaxLoads = 3
INVARIANTS SingleFlight FreshAnswers
PROPERTIES NeverExtended MonotonicAnswers AllAnswered
CHECK_DEADLOCK FALSE

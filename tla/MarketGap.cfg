\* One thread: a short window, later another, then a long one.
CONSTANTS
  Syncers = {"t1"}
  Windows = {1, 4}
  Overlap = 1
  StaleAfter = 2
  FirstDay = 2
  LastDay = 5
  MaxAdjustments = 0
  MaxSyncs = 3
  LargeSplits = {}
SPECIFICATION MarketSpec
INVARIANTS RequestedHistoryIsThere
CHECK_DEADLOCK FALSE

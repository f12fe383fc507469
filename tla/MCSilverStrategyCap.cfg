CONSTANTS
  Signals = {s1, s2, s3}
  Schedulers = {w1}
  MaxTrades = 2
  MaxLosses = 2
  MaxLoss = 3
  ExpiryDays = 1
  Risk = 1
  None = None
SPECIFICATION Spec
INVARIANTS DayCap

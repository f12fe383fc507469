CONSTANTS
  Signals = {s1, s2}
  Schedulers = {w1}
  MaxTrades = 2
  MaxLosses = 1
  MaxLoss = 3
  ExpiryDays = 1
  Risk = 1
  None = None
SPECIFICATION FairSpec
PROPERTIES SignalsEnd

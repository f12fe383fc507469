CONSTANTS
  Signals = {s1, s2, s3, s4}
  Schedulers = {w1}
  MaxTrades = 2
  MaxLosses = 1
  MaxLoss = 3
  ExpiryDays = 1
  Risk = 2
  None = None
SYMMETRY Symmetry
SPECIFICATION Spec
INVARIANTS TypeOK OpenPerDirection DayBounded
PROPERTIES LoggedWithinLimits BankedKept

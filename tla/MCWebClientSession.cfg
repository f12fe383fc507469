SPECIFICATION Spec
CONSTANTS
  Pages = {"live"}
  MaxSessions = 1
  MaxMounts <- MCMaxMounts
  MaxClicks <- MCMaxClicks
  MaxFaults = 0
  Contracts = {c1, c2}
  DefaultContract = c1
  Jobs = {j1, j2}
  JobKinds <- OneKind
  Stocks = {s1, s2}
  Rules = {r1}
  Brokers = {kite}
  Kite = kite
  Simulated = sim
  MaxReturns = 1
  MaxSignals = 1
  MaxPolls = 2
  TradeLabels = {TRADE}
  Lists = {l1, l2}
  FirstList = l1
  Workers = {w1, w2}
  MaxSwitches = 2
  Orders = {o1}
  None = None
INVARIANT RedisIsTruth
CHECK_DEADLOCK FALSE

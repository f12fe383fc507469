CONSTANTS
  Trades = {t1}
  Requests = {r1, r2}
  Workers = {w1, w2}
  Schedulers = {w1}
  Symbols = {s1}
  Prices <- MCPrices
  None = None
SPECIFICATION FairSpec
INVARIANTS TypeOK RowCoherent AlertOnce
PROPERTIES ClearedStaysCleared ResultKept LedgerSpec LimitIsServed

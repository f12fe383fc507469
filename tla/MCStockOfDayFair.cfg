CONSTANTS
  Picks = {p1, p2}
  Trades = {t1}
  Generators = {g1}
  Checkers = {c1}
  Expirers = {e1}
  MaxDaily = 1
  MaxDay = 2
  MaxFaults = 1
  None = None
SPECIFICATION FairSpec
PROPERTIES PickEnds TradeEnds

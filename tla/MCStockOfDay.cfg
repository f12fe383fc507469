CONSTANTS
  Picks = {p1, p2, p3}
  Trades = {t1, t2}
  Generators = {g1, g2}
  Checkers = {c1}
  Expirers = {e1}
  MaxDaily = 1
  MaxDay = 1
  MaxFaults = 1
  None = None
SYMMETRY Symmetry
SPECIFICATION Spec
INVARIANTS TypeOK LinkSound EndedFirst TradeWatched
PROPERTIES PickLedgerSpec

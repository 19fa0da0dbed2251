SPECIFICATION Spec
CONSTANTS
  A = A
  B = B
  Symbols = {A, B}
  NoSymbol = NoSymbol
  Pages <- MCPages
  PageLabels = {"code"}
  Lists = {}
  Watchlist = {}
  MaxTime = 1
  UnitsPerDay = 2
  BatchSize = 1
  MaxAttempts = 1
  Retention = 0
  MaxFaults = 1
PROPERTY BadRowIsolated

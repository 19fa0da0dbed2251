SPECIFICATION HubSpec
CONSTANTS
  A = A
  B = B
  Symbols = {A, B}
  NoSymbol = NoSymbol
  NoRoute = NoRoute
  Pages <- MCPages
  PageLabels = {"code"}
  Lists = {}
  Watchlist = {}
  MaxTime = 3
  UnitsPerDay = 2
  BatchSize = 1
  MaxAttempts = 1
  Retention = 2
  StaleAfter = 1
  MaxFaults = 0
INVARIANT FreshIsFresh

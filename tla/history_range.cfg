SPECIFICATION ListSpec
CONSTANTS
  A = A
  Symbols = {A}
  NoSymbol = NoSymbol
  Pages <- EmptyPage
  PageLabels = {"null"}
  Lists <- MCLists
  Watchlist = {A}
  MaxTime = 2
  UnitsPerDay = 2
  BatchSize = 2
  MaxAttempts = 1
  Retention = 1
  MaxFaults = 0
  Limits = {1}
  Offsets = {0, 1}
  Naive = Naive
  None = None
INVARIANTS
  RangeIsInstants

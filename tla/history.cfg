SPECIFICATION ListSpec
CONSTANTS
  A = A
  Symbols = {A}
  NoSymbol = NoSymbol
  Pages <- EmptyPage
  PageLabels = {"null"}
  Lists <- MCLists
  Watchlist = {A}
  MaxTime = 2
  UnitsPerDay = 2
  BatchSize = 1
  MaxAttempts = 1
  Retention = 0
  MaxFaults = 2
  Limits = {1, 2}
  Offsets = {0}
  Naive = Naive
  None = None
INVARIANTS
  EodBackedByHistory
  OneEodPerDay
PROPERTIES
  EodCatchesUp
  TickShrinks
  RefreshCatchesUp
  HistoryGrowsForward
  PagesStay

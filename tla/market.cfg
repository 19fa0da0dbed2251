SPECIFICATION Spec
CONSTANTS
  A = A
  B = B
  Symbols = {A, B}
  NoSymbol = NoSymbol
  Pages <- MCPages
  PageLabels = {"null", "code"}
  Lists = {}
  Watchlist = {A}
  MaxTime = 2
  UnitsPerDay = 2
  BatchSize = 1
  MaxAttempts = 2
  Retention = 1
  MaxFaults = 1
INVARIANTS
  TypeOK
  QuoteHasSymbol
  SnapshotCoversNewerQuotes
PROPERTIES
  LatestQuoteKept
  SectorNeverBlanked
  ImplementsFeed
  TickEnds
  QuotesKeepComing
  OldQuotesGo
  ApiComesUp

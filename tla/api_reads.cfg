SPECIFICATION Spec
CONSTANTS
  Symbols = {A, B}
  NoRoute = NoRoute
  MaxTime = 2
  Retention = 1
  StaleAfter = 1
SYMMETRY Tickers
INVARIANTS
  TypeOK
  CountedAreListed
  QuotedIsDescribed
  NotFoundIsUnknown
  QuotesNeverGoBack

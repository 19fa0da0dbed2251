SPECIFICATION Spec
CONSTANTS
  Needed = {Watch, Indices}
  Sectors = Sectors
  MaxAttempts = 3
  MaxTicks = 1
INVARIANTS
  TypeOK
  LabelsAreOwn
  NamesKept
  RequestsBounded
PROPERTIES
  ImplementsFetch
CHECK_DEADLOCK FALSE

SPECIFICATION Spec
CONSTANTS
  Needed = {Watch, Indices}
  Sectors = Sectors
  MaxAttempts = 3
  MaxTicks = 1
INVARIANT SectorsAreSoft
CHECK_DEADLOCK FALSE

SPECIFICATION Spec
CONSTANTS
  Needed = {Watch}
  Sectors = Sectors
  MaxAttempts = 1
  MaxTicks = 2
PROPERTY NamesRetained
CHECK_DEADLOCK FALSE

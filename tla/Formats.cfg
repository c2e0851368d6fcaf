CONSTANTS
  H = 3
  Starts <- SomeDays
  Years = {79, 80, 99, 100, 127, 128}
  Hours = {0, 23}
  Minutes = {0, 59}
  Seconds = {0, 1, 58}
  BootSectors <- SomeBoots
SPECIFICATION FormatsSpec
INVARIANTS
  ReadsBack
  SectorsApart
PROPERTIES
  StampsOrdered
CHECK_DEADLOCK FALSE

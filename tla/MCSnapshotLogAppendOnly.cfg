SPECIFICATION Spec
CONSTANTS
  Width = 1
  MaxBuffer = 2
  Days = 2
  Ticks = 3
  MaxStops = 1
PROPERTY
  AppendOnly
CHECK_DEADLOCK FALSE

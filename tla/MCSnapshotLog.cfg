SPECIFICATION Spec
CONSTANTS
  Width = 2
  MaxBuffer = 3
  Days = 3
  Ticks = 4
  MaxStops = 2
INVARIANTS
  TypeOK
  KeptWhileUp
  ReplayIsChronological
CHECK_DEADLOCK FALSE

CONSTANTS
  A = A
  B = B
  a1 = a1
  a2 = a2
  b1 = b1
  None = None
  Klasses <- MCKlasses
  Instances <- MCInstances
  KlassOf <- MCKlassOf
  PointsTo <- MCPointsTo
  HasList <- MCHasList
  StaticList <- MCStaticList
  PeriodicTick = TRUE
  MaxEntries = 2
  MaxClicks = 3
  MaxFaults = 1
SPECIFICATION FairSpec
INVARIANTS
  WritersServeSelection
PROPERTIES
  ViewSettles
CHECK_DEADLOCK FALSE

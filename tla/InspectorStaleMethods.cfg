CONSTANTS
  A = A
  B = B
  a1 = a1
  a2 = a2
  b1 = b1
  None = None
  Klasses <- MCKlasses
  Instances <- MCInstances
  KlassOf <- MCKlassOf
  PointsTo <- MCPointsTo
  HasList <- MCHasList
  StaticList <- MCStaticList
  PeriodicTick = TRUE
  MaxEntries = 2
  MaxClicks = 3
  MaxFaults = 0
SPECIFICATION Spec
INVARIANTS
  MethodsAreOfClass
CHECK_DEADLOCK FALSE

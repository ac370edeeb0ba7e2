CONSTANTS
  MaxInstances = 2
  Mods <- MCMods
  UnsafeNames <- MCUnsafeNames
SPECIFICATION DockFairSpec
INVARIANTS
  OneScriptAtATime
  DockIsTrue
  RunIsAsAsked
PROPERTIES
  SelectionSurvivesRefresh
  RequestsAreServed
CHECK_DEADLOCK FALSE

CONSTANTS
  Klasses <- MCKlasses
  Instances <- MCInstances
  Null <- MCNull
  Fields <- MCFields
  Unresolved <- MCUnresolved
  Structs <- MCStructs
  ClassOf <- MCClassOf
  Candidates <- MCCandidates
  Heaps <- MCHeaps
  Needles <- MCNeedles
  Index <- MCIndex
  MaxElements = 2
  MaxInterior = 2
  MaxFollowed = 2
  HitCap = 16
  MaxWrites = 1
  NoClass = NoClass
  Explored <- MCExplored
  MaxClicks = 3
  MaxSessions = 2
SPECIFICATION WalkSpec
INVARIANTS
  SearchIsExact
  DrillIsExact
  HitOpensItsRow
  CompareFollowsThePath
PROPERTIES
  BookmarkLeadsBack
CHECK_DEADLOCK FALSE

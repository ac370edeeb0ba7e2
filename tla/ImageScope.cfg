CONSTANTS
  i1 = i1
  i2 = i2
  a1 = a1
  a2 = a2
  a3 = a3
  None = None
  Images <- MCImages
  Size <- MCSize
  Hint = i1
  Addresses <- MCAddresses
  HitCap = 2
  MaxClicks = 4
SPECIFICATION FairSpec
INVARIANTS
  IndexMatchesList
PROPERTIES
  ImplementsSearch
  SearchesEnd
CHECK_DEADLOCK FALSE

CONSTANTS
  game = game
  Gui = Gui
  Searcher = Searcher
  NoThread = NoThread
  GameThreads <- MCGameThreads
  MaxQueueDepth = 2
  MaxJobsPerDrain = 1
  MaxAccepted = 3
  MaxQuits = 1
  MaxInvokes = 2
SPECIFICATION PanelFairSpec
INVARIANTS
  ReportsAreCurrent
PROPERTIES
  PanelCloses
CHECK_DEADLOCK FALSE

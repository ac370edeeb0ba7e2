CONSTANTS
  s1 = s1
  s2 = s2
  main = main
  Gui = Gui
  NoThread = NoThread
  Submitters <- MCTwoSubmitters
  GameThreads <- MCGameThreads
  MaxQueueDepth = 1
  MaxJobsPerDrain = 1
  Capacity = 1
  MaxCommands = 2
  MaxGuiJobs = 1
SPECIFICATION Spec
INVARIANTS
  ChannelConsistent
  SubmitGoesOn
PROPERTIES
  FirstTerminalWins
  ImplementsContract
CHECK_DEADLOCK FALSE

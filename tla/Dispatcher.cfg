CONSTANTS
  g1 = g1
  g2 = g2
  p1 = p1
  p2 = p2
  NoThread = NoThread
  GameThreads <- MCGameThreads
  OurThreads <- MCOurThreads
  MaxQueueDepth = 2
  MaxJobsPerDrain = 2
  MaxAccepted = 6
SPECIFICATION FairSpec
INVARIANTS
  QueueIsSound
  DrainIsConfined
PROPERTIES
  StartsInOrder
  QueuedJobsLeave
CHECK_DEADLOCK FALSE

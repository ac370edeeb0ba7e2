CONSTANT MaxInstances = 2
SPECIFICATION FairSpec
PROPERTY StopEnablesStart
CHECK_DEADLOCK FALSE

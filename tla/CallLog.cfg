CONSTANTS
  m1 = m1
  m2 = m2
  f = f
  b1 = b1
  b2 = b2
  t1 = t1
  t2 = t2
  NoMethod = NoMethod
  NoBlock = NoBlock
  Blocks <- MCBlocks
  Methods <- MCMethods
  Foreign <- MCForeign
  GameThreads <- MCThreads
  MaxHooks = 2
  MaxLines = 2
  MaxHookIds = 3
  MaxEvents = 4
SYMMETRY MCSymmetry
SPECIFICATION Spec
INVARIANTS
  LogConsistent
  UndisturbedCallIsLogged
  OnlyInstallRedirects
CHECK_DEADLOCK FALSE

CONSTANTS
    s1 = s1
    s2 = s2
    m1 = m1
    o1 = o1
    o2 = o2
    a1 = a1
    a2 = a2
    a3 = a3
    Nothing = Nothing
    Statics <- MCStatics
    Members <- MCMembers
    Objects <- MCObjects
    Plottable <- MCPlottable
    LateStatics <- MCLateStatics
    MaxEntries = 2
    MaxOps = 3
    MaxSessions = 2
    Null = Null
    Owners <- MCOwners
    Holders <- MCHolders
    Arrays <- MCArrays
    Capacities <- MCCapacities
    Numbers <- MCNumbers
    Number0 <- MCNumber0
    Size0 = 2
    MaxGame = 1
    MaxClicks = 3

SPECIFICATION TabsSpec

INVARIANT ListConsistent
INVARIANT DiffsAreOfOnePlace
PROPERTY ListSurvives
PROPERTY WatchesAreSampled
PROPERTY EarlyStaticsReconnect
PROPERTY EditsHitTheirValue
CHECK_DEADLOCK FALSE

SPECIFICATION FairSpec
CONSTANTS
    c1 = c1  c2 = c2  c3 = c3
    Calls = {c1, c2, c3}
    Questions <- RobotQuestions
    Lifetimes = {1, 3}
    CacheTtl = 2
    CacheCapacity = 1
    MaxTime = 4
PROPERTY EvictsOnlyExpired

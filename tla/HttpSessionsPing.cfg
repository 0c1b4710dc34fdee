SPECIFICATION FairSpec
CONSTANTS
    s1 = s1
    s2 = s2
    MaxSecondaries = 2
    Sessions = {s1, s2}
    Asks <- MCAsks
    Nothing = Nothing
INVARIANT TypeOK
INVARIANT FoundStaysValid
PROPERTY PingReportsMatch
PROPERTY AnsweredOnce
PROPERTY RefinesAtomicRegistry
PROPERTY PingsAreAnswered
INVARIANT RemovalIsPending
CHECK_DEADLOCK FALSE

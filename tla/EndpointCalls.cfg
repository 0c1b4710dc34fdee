SPECIFICATION FairSpec
CONSTANTS
    master = master
    secondary = secondary
    p = p
    q = q
    r = r
    Ends = {master, secondary}
    Calls = {p, q, r}
    Caller <- MCCaller
    IdSpace = 2
    NoId = NoId
INVARIANT TypeOK
INVARIANT OpenCallsArePending
INVARIANT ContextsAreAwaited
PROPERTY RefinesRpc
CHECK_DEADLOCK FALSE
PROPERTY FuturesAreFilled

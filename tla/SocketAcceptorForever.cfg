SPECIFICATION FairSpec
CONSTANTS
    PoolSize = 1
    Clients = {c1, c2}
    Policies = {"random", "leastLoaded"}
    None = None
PROPERTY AcceptsForever
CHECK_DEADLOCK FALSE

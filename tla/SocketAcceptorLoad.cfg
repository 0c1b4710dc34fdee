SPECIFICATION Spec
CONSTANTS
    PoolSize = 3
    Clients = {c1, c2, c3, c4, c5}
    Policies = {"random", "leastLoaded"}
    None = None
SYMMETRY Symmetry
INVARIANT TypeOK
INVARIANT LoadMatchesGuards
INVARIANT SessionsAreSpread
CHECK_DEADLOCK FALSE

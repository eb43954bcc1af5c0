CONSTANTS
    c1 = c1
    c2 = c2
    u1 = u1
    u2 = u2
    Chains <- MCChains
    Upstreams <- MCUpstreams
    MaxReloads = 2
    SpawnMayFail = FALSE
    SwapMayFail = FALSE
    FirstPrivateEmpty = TRUE
    FileMayBeInvalid = FALSE
SPECIFICATION Spec
INVARIANT PoolsMatchConfig

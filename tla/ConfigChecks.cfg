\* Two chains, two upstreams; the first config has private relays; two saves
\* of any config or of a file that does not parse; spawns and swaps may fail.
CONSTANTS
    c1 = c1
    c2 = c2
    u1 = u1
    u2 = u2
    Chains <- MCChains
    Upstreams <- MCUpstreams
    MaxReloads = 2
    SpawnMayFail = TRUE
    SwapMayFail = TRUE
    FirstPrivateEmpty = FALSE
    FileMayBeInvalid = TRUE
SPECIFICATION FairSpec
INVARIANT PoolsMatchConfig
PROPERTY ImplementsConfigService
PROPERTY WatchedReloadsTakeEffect

CONSTANTS
    c1 = c1
    c2 = c2
    u1 = u1
    u2 = u2
    Chains <- MCChains
    Upstreams <- MCUpstreams
    MaxReloads = 1
    SpawnMayFail = FALSE
    SwapMayFail = FALSE
    FirstPrivateEmpty = FALSE
    FileMayBeInvalid = FALSE
SPECIFICATION Spec
PROPERTY SwapsLookAtomic

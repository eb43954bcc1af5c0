\* Three requests, three heads, one method, a cap of 3: three keys, so the
\* cache evicts, with upstream errors and timeouts.
CONSTANTS
    r1 = r1
    r2 = r2
    r3 = r3
    r4 = r4
    m1 = m1
    NoReq = NoReq
    NoKey = NoKey
    UpstreamMayFail = TRUE
    Req <- MCReq3
    Methods <- MCMethods
    MaxHead = 2
    RESPONSE_CACHE_CAP = 3
SPECIFICATION Spec
INVARIANT WaiterFindsResponse
INVARIANT CacheBounded
PROPERTY AllAnswered

\* Spec 8.3: cached responses are served only at their head. Expected violated.
CONSTANTS
    r1 = r1
    r2 = r2
    r3 = r3
    r4 = r4
    m1 = m1
    NoReq = NoReq
    NoKey = NoKey
    UpstreamMayFail = TRUE
    Req <- MCReq3
    Methods <- MCMethods
    MaxHead = 1
    RESPONSE_CACHE_CAP = 3
SPECIFICATION Spec
PROPERTY ServedAtCurrentHead

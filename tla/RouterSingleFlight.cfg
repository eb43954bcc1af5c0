\* Spec 5 and 8.1: one upstream call in flight per key, even when no upstream call fails. Expected violated.
CONSTANTS
    r1 = r1
    r2 = r2
    r3 = r3
    r4 = r4
    m1 = m1
    NoReq = NoReq
    NoKey = NoKey
    UpstreamMayFail = FALSE
    Req <- MCReq4
    Methods <- MCMethods
    MaxHead = 1
    RESPONSE_CACHE_CAP = 3
SPECIFICATION Spec
INVARIANT SingleFlight
SYMMETRY MCSymmetry4

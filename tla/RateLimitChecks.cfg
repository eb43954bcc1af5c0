\* Three requests on two keys (limit 1 and unlimited); the database and the
\* limiter may fail.
CONSTANTS
    r1 = r1
    r2 = r2
    r3 = r3
    k1 = k1
    k2 = k2
    NoUser = NoUser
    None = None
    U64Max = U64Max
    Reqs <- MCReqs
    ApiKeys <- MCApiKeys
    Rpm <- MCRpm
    TTL = 1
    MaxTime = 3
    MaxDbWrites = 1
    IpLimit = 1
    LimiterMayFail = TRUE
SPECIFICATION Spec
INVARIANT TypeOK
INVARIANT UnknownKeyNeverAdmitted
INVARIANT AdmittedWithinLimit
SYMMETRY MCSymmetry

---------------------------- MODULE MC_RateLimit ----------------------------
EXTENDS RateLimit, TLC

CONSTANTS r1, r2, r3, k1, k2

MCReqs == {r1, r2, r3}
MCApiKeys == {k1, k2}
\* k1 may make one request per period, k2 is unlimited.
MCRpm == [k \in MCApiKeys |-> IF k = k1 THEN 1 ELSE U64Max]
MCSymmetry == Permutations(MCReqs)

=============================================================================

---------------------------- MODULE MC_AppConfig ----------------------------
EXTENDS AppConfig, TLC

CONSTANTS c1, c2, u1, u2

MCChains == {c1, c2}
MCUpstreams == {u1, u2}

=============================================================================

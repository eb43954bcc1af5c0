-------------------------- MODULE MC_Subscriptions --------------------------
EXTENDS Subscriptions, TLC

CONSTANTS s1, s2

MCSubs == {s1, s2}

=============================================================================

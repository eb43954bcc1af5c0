----------------------------- MODULE MC_Balance -----------------------------
EXTENDS Balance, TLC

MCUsers == {1, 2}
MCAmounts == {1, 2}

=============================================================================

------------------------- MODULE MC_RequestRouter -------------------------
(* Model values for RequestRouter: up to four request tasks, one method.  *)
EXTENDS RequestRouter, TLC

CONSTANTS r1, r2, r3, r4, m1

MCReq3 == {r1, r2, r3}
MCReq4 == {r1, r2, r3, r4}
MCMethods == {m1}
MCSymmetry4 == Permutations(MCReq4)

=============================================================================

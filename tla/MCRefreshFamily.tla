--------------------------- MODULE MCRefreshFamily ---------------------------
(* Four tokens and three calls: a rotation, a replay of an older token and *)
(* a revocation meet on one family, whose tokens expire before it does.    *)
EXTENDS RefreshFamily, TLC

CONSTANTS f1, d1, d2, d3, d4, s1, s2, s3

MCSymmetry == Permutations({d1, d2, d3, d4}) \cup Permutations({s1, s2, s3})
==============================================================================

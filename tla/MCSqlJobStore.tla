---------------------------- MODULE MCSqlJobStore ----------------------------
(* Two sessions on two jobs of a queue that is full with one, three tokens *)
(* and three instants: every pair of calls interleaves statement by        *)
(* statement, and a lease expires under a call still going.                *)
EXTENDS SqlJobStore, TLC

CONSTANTS t1, t2, t3, q1, k1, s1, s2

MCSymmetry == Permutations({t1, t2, t3}) \cup Permutations({s1, s2})
==============================================================================

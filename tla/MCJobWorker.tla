----------------------------- MODULE MCJobWorker -----------------------------
(* One job and two workers of one slot each: the second claims what the    *)
(* first loses to its expiry, its stop or its crash.  The stop itself is   *)
(* checked with one worker of two slots.                                   *)
EXTENDS JobWorker, TLC

CONSTANTS t1, t2, q1, w1, w2

MCSymmetry == Permutations({t1, t2}) \cup Permutations({w1, w2})
==============================================================================

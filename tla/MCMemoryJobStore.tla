-------------------------- MODULE MCMemoryJobStore --------------------------
(* The memory store on three jobs over two queues that are full with two,  *)
(* one idempotency key, and two tokens: enough for two due jobs to compete,*)
(* for two leases to expire together past a batch of one, and for a        *)
(* re-claim under a second token.                                          *)
EXTENDS MemoryJobStore, TLC

CONSTANTS t1, t2, q1, q2, k1

MCSymmetry == Permutations({t1, t2})
==============================================================================

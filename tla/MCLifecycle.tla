----------------------------- MODULE MCLifecycle -----------------------------
(* Three providers and two units of work: every pair of failures in one    *)
(* rollback, and a drain with one unit ending while another runs.          *)
EXTENDS Lifecycle

CONSTANTS u1, u2
==============================================================================

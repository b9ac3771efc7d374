----------------------------- MODULE JobContract -----------------------------
(***************************************************************************)
(* What the JobStore port promises, whatever stores the rows: one action   *)
(* per call that changes a job, each atomic, each validated against the    *)
(* lease token.  The memory store and the SQL stores are shown to          *)
(* implement it.                                                           *)
(*                                                                         *)
(* Every call is handed its `now` by its caller, and callers are processes *)
(* with clocks of their own, so each call may come with any instant.       *)
(*                                                                         *)
(* The depth bound is promised up to the jobs revive put back, which is all*)
(* that any store keeps of it: `revived` counts them.                      *)
(***************************************************************************)
EXTENDS JobRows

VARIABLES
    job,      \* the row of every identifier
    issued,   \* the tokens some claim has leased a job under
    revived   \* history: how many revives each queue has seen

vars == <<job, issued, revived>>

Init ==
    /\ job = [j \in JobIds |-> Absent]
    /\ issued = {}
    /\ revived = [q \in Queues |-> 0]

------------------------------------------------------------------------------

(* Mutant: a reclaim that looks at the expiry and not at the state.        *)
ExpiredInAnyState(q, now) ==
    {j \in JobIds : /\ job[j].queue = q
                    /\ job[j].lease # NoLease
                    /\ job[j].expires_at <= now}

Expired(q, now) ==
    {j \in JobIds : /\ job[j].queue = q
                    /\ job[j].state = "leased"
                    /\ job[j].expires_at <= now}

(* Mutants: the lease stays on the row; the limit is forgotten; the limit  *)
(* is met one attempt early.                                               *)
ReturnedWithLease(r) ==
    [r EXCEPT !.state = IF r.attempts >= r.max_attempts THEN "dead" ELSE "ready",
              !.last_failure = "lease_expired"]

ReturnedForEver(r) ==
    [r EXCEPT !.state = "ready", !.last_failure = "lease_expired",
              !.lease = NoLease, !.expires_at = 0]

(* An expired attempt is counted already: at the last one the job dies. *)
Returned(r) ==
    [r EXCEPT !.state = IF r.attempts >= r.max_attempts THEN "dead" ELSE "ready",
              !.last_failure = "lease_expired",
              !.lease = NoLease,
              !.expires_at = 0]

(* What a caller of fail reports: an expired lease is the store's to find. *)
Recordable == FailureKinds \ {"lease_expired"}

AfterReclaim(S) == [j \in JobIds |-> IF j \in S THEN Returned(job[j]) ELSE job[j]]

NewReady(q, k, m, at) ==
    [queue |-> q, key |-> k, state |-> "ready", attempts |-> 0, max_attempts |-> m,
     run_at |-> at, last_failure |-> "none", lease |-> NoLease, expires_at |-> 0]

(* enqueue that creates; a duplicate or a full queue changes nothing. *)
Enqueue(j, q, k, m, at) ==
    /\ job[j].state = "absent"
    /\ Holders(job, q, k) = {}
    /\ Depth(job, q) < QueueDepth + revived[q]
    /\ job' = [job EXCEPT ![j] = NewReady(q, k, m, at)]
    /\ UNCHANGED <<issued, revived>>

(* The reclaim a claim begins with, when nothing is claimed after it. *)
Reclaim(q, S, now) ==
    /\ S \subseteq Expired(q, now)
    /\ job' = AfterReclaim(S)
    /\ UNCHANGED <<issued, revived>>

LeasedUnder(r, t, expires) ==
    [r EXCEPT !.state = "leased", !.attempts = @ + 1, !.lease = t, !.expires_at = expires]

(* Mutant: a token that may have been drawn before.                        *)
ClaimUnderAnyToken(q, S, j, t, d, now) ==
    /\ S \subseteq Expired(q, now)
    /\ LET table == AfterReclaim(S)
       IN  /\ table[j].queue = q
           /\ table[j].state = "ready"
           /\ table[j].run_at <= now
           /\ job' = [table EXCEPT ![j] = LeasedUnder(table[j], t, now + d)]
    /\ issued' = issued \cup {t}
    /\ UNCHANGED revived

(* A claim: some expired leases go back first, then one due job is leased  *)
(* under a token nobody has held.                                          *)
Claim(q, S, j, t, d, now) ==
    /\ S \subseteq Expired(q, now)
    /\ t \notin issued
    /\ LET table == AfterReclaim(S)
       IN  /\ table[j].queue = q
           /\ table[j].state = "ready"
           /\ table[j].run_at <= now
           /\ job' = [table EXCEPT ![j] = LeasedUnder(table[j], t, now + d)]
    /\ issued' = issued \cup {t}
    /\ UNCHANGED revived

Complete(j, t) ==
    /\ job[j].lease = t
    /\ job[j].state = "leased"
    /\ job' = [job EXCEPT ![j].state = "completed"]
    /\ UNCHANGED <<issued, revived>>

Fail(j, t, f, next) ==
    /\ job[j].lease = t
    /\ job[j].state = "leased"
    /\ LET dies == IsTerminal(f) \/ job[j].attempts >= job[j].max_attempts
       IN  job' = [job EXCEPT ![j].state = IF dies THEN "dead" ELSE "ready",
                              ![j].run_at = IF dies THEN @ ELSE next,
                              ![j].last_failure = f,
                              ![j].lease = NoLease,
                              ![j].expires_at = 0]
    /\ UNCHANGED <<issued, revived>>

(* The attempt stays counted. *)
Release(j, t, now) ==
    /\ job[j].lease = t
    /\ job[j].state = "leased"
    /\ job' = [job EXCEPT ![j].state = "ready",
                          ![j].run_at = now,
                          ![j].lease = NoLease,
                          ![j].expires_at = 0]
    /\ UNCHANGED <<issued, revived>>

Revive(j, now) ==
    /\ job[j].state = "dead"
    /\ job' = [job EXCEPT ![j].state = "ready",
                          ![j].attempts = 0,
                          ![j].run_at = now,
                          ![j].last_failure = "none",
                          ![j].lease = NoLease,
                          ![j].expires_at = 0]
    /\ revived' = [revived EXCEPT ![job[j].queue] = @ + 1]
    /\ UNCHANGED issued

(* The owner of the store may empty it; no token comes back with it. *)
Forget ==
    /\ job' = [j \in JobIds |-> Absent]
    /\ UNCHANGED <<issued, revived>>

Next ==
    \/ \E j \in JobIds, q \in Queues, k \in Keys \cup {NoKey}, m \in Limits, at \in Time :
          Enqueue(j, q, k, m, at)
    \/ \E q \in Queues, S \in SUBSET JobIds, now \in Time : Reclaim(q, S, now)
    \/ \E q \in Queues, S \in SUBSET JobIds, j \in JobIds, t \in Tokens,
          d \in LeaseTimes, now \in Time :
          Claim(q, S, j, t, d, now)
    \/ \E j \in JobIds, t \in Tokens :
          \/ Complete(j, t)
          \/ \E now \in Time : Release(j, t, now)
          \/ \E f \in Recordable, next \in Time : Fail(j, t, f, next)
    \/ \E j \in JobIds, now \in Time : Revive(j, now)
    \/ Forget

Spec == Init /\ [][Next]_vars

------------------------------------------------------------------------------
(* Properties *)

(* Every row has the shape of a Job with its lease (job.rs, Job).          *)
TypeOK ==
    /\ job \in [JobIds -> Row]
    /\ issued \subseteq Tokens
    /\ revived \in [Queues -> Nat]

(* A token is on a row exactly while the job is leased, and for good once  *)
(* it is completed: complete, fail and release find a row by token alone,  *)
(* so a token left behind would give an old worker power over a job.       *)
LeaseWhileHeld ==
    \A j \in JobIds :
        /\ job[j].lease # NoLease <=> job[j].state \in {"leased", "completed"}
        /\ job[j].lease \in issued \cup {NoLease}

(* A token names one job: the row found by a token is the claimed one.     *)
LeaseNamesOneJob ==
    \A i, j \in JobIds : job[i].lease = job[j].lease /\ job[i].lease # NoLease => i = j

(* Settling by token settles the claimed execution and no other: a token   *)
(* is where it should be, and on one row.                                  *)
LeasesSettleOneJob == LeaseWhileHeld /\ LeaseNamesOneJob

(* A completed job is never claimed, failed, reclaimed or revived again.   *)
CompletedIsFinal ==
    [][\A j \in JobIds :
          job[j].state = "completed" => job'[j] \in {job[j], Absent}]_vars

(* A token once lost (released, failed, reclaimed) never names a job again:*)
(* a worker that outlived its lease cannot settle the execution after it.  *)
LostTokenStaysLost ==
    [][\A t \in issued :
          (\E j \in JobIds : job'[j].lease = t) =>
              \E j \in JobIds : job[j].lease = t /\ job'[j].lease = t]_vars

Spent(r) == r.state = "ready" /\ r.attempts >= r.max_attempts

(* A job that has used all its attempts is made claimable again by nothing *)
(* but a release: not by an expired lease, not by a failure.               *)
SpentReturnsOnlyByRelease ==
    [][\A j \in JobIds : Spent(job'[j]) /\ ~Spent(job[j]) =>
          /\ job[j].state = "leased"
          /\ job'[j].last_failure = job[j].last_failure]_vars
==============================================================================

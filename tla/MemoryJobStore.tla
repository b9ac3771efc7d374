--------------------------- MODULE MemoryJobStore ---------------------------
(***************************************************************************)
(* crates/renvor-jobs/src/memory.rs: the store a test or a single process  *)
(* uses, three maps under one mutex.  Every call holds the mutex from its  *)
(* first line to its last, so every call is one action; what can go wrong  *)
(* is that the three maps drift apart, and that a call's several writes do *)
(* not add up to the transition the port promises.                         *)
(***************************************************************************)
EXTENDS JobRows

VARIABLES
    rows,     \* Table::rows, with the row of an identifier nobody drew Absent
    keys,     \* Table::keys: <<queue, key, id>>
    ready,    \* Table::ready: <<run_at, id>>, iterated in that order
    issued,   \* tokens drawn from the entropy source
    revived,  \* history: how many revives each queue has seen
    now       \* the instant the next call is handed

vars == <<rows, keys, ready, issued, revived, now>>

Init ==
    /\ rows = [j \in JobIds |-> Absent]
    /\ keys = {}
    /\ ready = {}
    /\ issued = {}
    /\ revived = [q \in Queues |-> 0]
    /\ now \in Time

------------------------------------------------------------------------------
(* enqueue *)

Enqueue(j, q, k, m, at) ==
    /\ \A e \in keys : <<e[1], e[2]>> # <<q, k>>
    /\ Depth(rows, q) < QueueDepth
    /\ rows[j].state = "absent"
    /\ keys' = IF k = NoKey THEN keys ELSE keys \cup {<<q, k, j>>}
    /\ ready' = ready \cup {<<at, j>>}
    /\ rows' = [rows EXCEPT ![j] =
                  [Absent EXCEPT !.queue = q, !.key = k, !.state = "ready",
                                 !.max_attempts = m, !.run_at = at]]
    /\ UNCHANGED <<issued, revived, now>>

------------------------------------------------------------------------------
(* claim *)

Expired(q) ==
    {j \in JobIds : /\ rows[j].queue = q
                    /\ rows[j].state = "leased"
                    /\ rows[j].expires_at <= now}

(* reclaim_expired takes at most a batch, in the order of a HashMap. *)
Batches(q) ==
    {S \in SUBSET Expired(q) :
        /\ Cardinality(S) <= ReclaimBatch
        /\ S = Expired(q) \/ Cardinality(S) = ReclaimBatch}

(* Mutant: > where the code has >=.                                        *)
PastLastAttempt(r) == r.attempts > r.max_attempts

LastAttempt(r) == r.attempts >= r.max_attempts

ReclaimedRows(S) ==
    [j \in JobIds |->
        IF j \notin S THEN rows[j]
        ELSE [rows[j] EXCEPT !.last_failure = "lease_expired",
                             !.lease = NoLease,
                             !.expires_at = 0,
                             !.state = IF LastAttempt(rows[j]) THEN "dead" ELSE "ready"]]

ReclaimedReady(S) ==
    ready \cup {<<rows[j].run_at, j>> : j \in {i \in S : ~LastAttempt(rows[i])}}

(* The entries of the index a claim on q may take. *)
Due(index, table, q) ==
    {e \in index : /\ e[1] <= now
                   /\ table[e[2]].queue = q
                   /\ table[e[2]].state = "ready"}

Before(a, b) == a[1] < b[1] \/ (a[1] = b[1] /\ a[2] < b[2])

First(e, entries) == e \in entries /\ \A x \in entries \ {e} : Before(e, x)

(* Mutant: the entry stays in the index.                                   *)
ClaimLeavingEntry(q, S, e, t, d) ==
    /\ S \in Batches(q)
    /\ t \notin issued
    /\ LET table == ReclaimedRows(S)
           index == ReclaimedReady(S)
       IN  /\ First(e, Due(index, table, q))
           /\ ready' = index
           /\ rows' = [table EXCEPT ![e[2]].state = "leased",
                                    ![e[2]].attempts = @ + 1,
                                    ![e[2]].lease = t,
                                    ![e[2]].expires_at = now + d]
    /\ issued' = issued \cup {t}
    /\ UNCHANGED <<keys, revived, now>>

Claim(q, S, e, t, d) ==
    /\ S \in Batches(q)
    /\ t \notin issued
    /\ LET table == ReclaimedRows(S)
           index == ReclaimedReady(S)
       IN  /\ First(e, Due(index, table, q))
           /\ ready' = index \ {e}
           /\ rows' = [table EXCEPT ![e[2]].state = "leased",
                                    ![e[2]].attempts = @ + 1,
                                    ![e[2]].lease = t,
                                    ![e[2]].expires_at = now + d]
    /\ issued' = issued \cup {t}
    /\ UNCHANGED <<keys, revived, now>>

(* Nothing is due, or the entropy source fails after a candidate was found:*)
(* what was reclaimed stays reclaimed either way.                          *)
ClaimNothing(q, S) ==
    /\ S \in Batches(q)
    /\ rows' = ReclaimedRows(S)
    /\ ready' = ReclaimedReady(S)
    /\ UNCHANGED <<keys, issued, revived, now>>

------------------------------------------------------------------------------
(* The transitions made under a token.  A token no row carries, or one on a*)
(* row that is no longer leased, changes nothing.                          *)

Complete(j, t) ==
    /\ rows[j].lease = t
    /\ rows[j].state = "leased"
    /\ rows' = [rows EXCEPT ![j].state = "completed"]
    /\ UNCHANGED <<keys, ready, issued, revived, now>>

FailTerminally(j, t, f) ==
    /\ rows[j].lease = t
    /\ rows[j].state = "leased"
    /\ IsTerminal(f) \/ LastAttempt(rows[j])
    /\ rows' = [rows EXCEPT ![j].last_failure = f,
                            ![j].state = "dead",
                            ![j].lease = NoLease,
                            ![j].expires_at = 0]
    /\ UNCHANGED <<keys, ready, issued, revived, now>>

Reschedule(j, t, f, next) ==
    /\ rows[j].lease = t
    /\ rows[j].state = "leased"
    /\ ~IsTerminal(f) /\ ~LastAttempt(rows[j])
    /\ rows' = [rows EXCEPT ![j].last_failure = f,
                            ![j].state = "ready",
                            ![j].run_at = next,
                            ![j].lease = NoLease,
                            ![j].expires_at = 0]
    /\ ready' = ready \cup {<<next, j>>}
    /\ UNCHANGED <<keys, issued, revived, now>>

Release(j, t) ==
    /\ rows[j].lease = t
    /\ rows[j].state = "leased"
    /\ rows' = [rows EXCEPT ![j].state = "ready",
                            ![j].run_at = now,
                            ![j].lease = NoLease,
                            ![j].expires_at = 0]
    /\ ready' = ready \cup {<<now, j>>}
    /\ UNCHANGED <<keys, issued, revived, now>>

------------------------------------------------------------------------------

Revive(j) ==
    /\ rows[j].state = "dead"
    /\ rows' = [rows EXCEPT ![j].state = "ready",
                            ![j].attempts = 0,
                            ![j].run_at = now,
                            ![j].last_failure = "none",
                            ![j].lease = NoLease,
                            ![j].expires_at = 0]
    /\ ready' = ready \cup {<<now, j>>}
    /\ revived' = [revived EXCEPT ![rows[j].queue] = @ + 1]
    /\ UNCHANGED <<keys, issued, now>>

Clear ==
    /\ rows' = [j \in JobIds |-> Absent]
    /\ keys' = {}
    /\ ready' = {}
    /\ UNCHANGED <<issued, revived, now>>

SetClock(t) ==
    /\ now' = t
    /\ UNCHANGED <<rows, keys, ready, issued, revived>>

Next ==
    \/ \E j \in JobIds, q \in Queues, k \in Keys \cup {NoKey}, m \in Limits, at \in Time :
          Enqueue(j, q, k, m, at)
    \/ \E q \in Queues, S \in SUBSET JobIds, e \in Time \X JobIds, t \in Tokens, d \in LeaseTimes :
          Claim(q, S, e, t, d)
    \/ \E q \in Queues, S \in SUBSET JobIds : ClaimNothing(q, S)
    \/ \E j \in JobIds, t \in Tokens : Complete(j, t) \/ Release(j, t)
    \/ \E j \in JobIds, t \in Tokens, f \in FailureKinds \ {"lease_expired"} :
          \/ FailTerminally(j, t, f)
          \/ \E next \in Time : Reschedule(j, t, f, next)
    \/ \E j \in JobIds : Revive(j)
    \/ Clear
    \/ \E t \in Time : SetClock(t)

Spec == Init /\ [][Next]_vars

------------------------------------------------------------------------------
(* Properties *)

(* The three maps tell one story.  The claim index lists every ready job,  *)
(* at its own run_at, and nothing else: claim looks nowhere else, so a job *)
(* missing from it is never run.  The key index knows exactly the keyed    *)
(* jobs that exist, whatever state they are in: a key is taken for ever.   *)
IndexesExact ==
    /\ ready = {<<rows[j].run_at, j>> : j \in {i \in JobIds : rows[i].state = "ready"}}
    /\ keys = {<<rows[j].queue, rows[j].key, j>> :
                  j \in {i \in JobIds : rows[i].state # "absent" /\ rows[i].key # NoKey}}

Contract == INSTANCE JobContract WITH job <- rows

(* Every call of this store is a transition of the port's contract.        *)
ImplementsContract == Contract!Spec
==============================================================================

----------------------------- MODULE SqlJobStore -----------------------------
(***************************************************************************)
(* crates/renvor-sqlx/src/jobs.rs: the durable store, statement by         *)
(* statement.  Every caller is a session of its own on one database; the   *)
(* steps of its call are the statements it sends, and the other sessions'  *)
(* statements fall between them.  renvor-seaorm sends the same statements  *)
(* in the same order.                                                      *)
(*                                                                         *)
(* Of the engines the model takes: a row locked by FOR UPDATE is written   *)
(* and locked by nobody else until its transaction ends, SKIP LOCKED passes*)
(* it over, a write that meets it waits; a statement reads what is         *)
(* committed (PostgreSQL's READ COMMITTED; on MySQL every transaction's    *)
(* first read is the locking one, so its snapshot is as fresh); a dropped  *)
(* connection rolls back.  An UPDATE tests its WHERE on the row it writes, *)
(* but a subselect in that WHERE was run when the statement began: this    *)
(* is where the two reclaims differ.                                       *)
(***************************************************************************)
EXTENDS JobRows

CONSTANTS
    Sessions,  \* callers, each with a connection
    Engines    \* the databases it may run on

(* Nobody, who holds every free row and queue. *)
NoSession == "nobody"

ASSUME EngineAssumption == Engines \subseteq {"postgres", "mysql"} /\ NoSession \notin Sessions

VARIABLES
    engine,    \* the database this store is built for
    rows,      \* rv_job, as committed
    issued,    \* tokens written by a committed claim
    revived,   \* history: how many revives each queue has seen
    now,       \* the callers' clock
    pc,        \* the statement each session sends next
    call,      \* the arguments and local variables of its call
    rowLock,   \* who holds FOR UPDATE on each row of rv_job
    queueLock  \* who holds FOR UPDATE on each row of rv_job_queue

vars == <<engine, rows, issued, revived, now, pc, call, rowLock, queueLock>>

Idle == [at |-> 0]

Init ==
    /\ engine \in Engines
    /\ rows = [j \in JobIds |-> Absent]
    /\ issued = {}
    /\ revived = [q \in Queues |-> 0]
    /\ now = 0
    /\ pc = [s \in Sessions |-> "idle"]
    /\ call = [s \in Sessions |-> Idle]
    /\ rowLock = [j \in JobIds |-> NoSession]
    /\ queueLock = [q \in Queues |-> NoSession]

Goto(s, label, locals) ==
    /\ pc' = [pc EXCEPT ![s] = label]
    /\ call' = [call EXCEPT ![s] = locals]

Free(j) == rowLock[j] = NoSession

(* The end of a transaction, committed or rolled back: its locks go. *)
EndTransaction(s) ==
    /\ rowLock' = [j \in JobIds |-> IF rowLock[j] = s THEN NoSession ELSE rowLock[j]]
    /\ queueLock' = [q \in Queues |-> IF queueLock[q] = s THEN NoSession ELSE queueLock[q]]
    /\ Goto(s, "idle", Idle)

------------------------------------------------------------------------------
(* enqueue: the queue's lock, then the key and the count, then the insert  *)

(* Mutant: the count is taken without waiting for the queue's lock.        *)
LockNothing(s, q, k, m, at) ==
    /\ pc[s] = "idle"
    /\ Goto(s, "count", [at |-> now, queue |-> q, key |-> k, limit |-> m, run_at |-> at])
    /\ UNCHANGED <<rows, issued, revived, now, rowLock, queueLock>>

LockQueue(s, q, k, m, at) ==
    /\ pc[s] = "idle"
    /\ queueLock[q] = NoSession
    /\ queueLock' = [queueLock EXCEPT ![q] = s]
    /\ Goto(s, "count", [at |-> now, queue |-> q, key |-> k, limit |-> m, run_at |-> at])
    /\ UNCHANGED <<rows, issued, revived, now, rowLock>>

Admitted(c) == Holders(rows, c.queue, c.key) = {} /\ Depth(rows, c.queue) < QueueDepth

CountAdmits(s) ==
    /\ pc[s] = "count"
    /\ Admitted(call[s])
    /\ Goto(s, "insert", call[s])
    /\ UNCHANGED <<rows, issued, revived, now, rowLock, queueLock>>

(* Duplicate or QueueFull: the transaction is dropped.                     *)
CountRefuses(s) ==
    /\ pc[s] = "count"
    /\ ~Admitted(call[s])
    /\ EndTransaction(s)
    /\ UNCHANGED <<rows, issued, revived, now>>

(* The unique index on (queue, idempotency_key) has the last word: a       *)
(* violation drops the transaction and answers Duplicate.                  *)
Insert(s, j) ==
    LET c == call[s]
        unique == Holders(rows, c.queue, c.key) = {}
    IN  /\ pc[s] = "insert"
        /\ rows[j].state = "absent"
        /\ rows' = IF unique
                   THEN [rows EXCEPT ![j] =
                           [Absent EXCEPT !.queue = c.queue, !.key = c.key, !.state = "ready",
                                          !.max_attempts = c.limit, !.run_at = c.run_at]]
                   ELSE rows
        /\ EndTransaction(s)
        /\ UNCHANGED <<issued, revived, now>>

------------------------------------------------------------------------------
(* claim: the reclaim, a statement of its own, then the claiming           *)
(* transaction                                                             *)

Expired(q, at) ==
    {j \in JobIds : /\ rows[j].queue = q
                    /\ rows[j].state = "leased"
                    /\ rows[j].expires_at <= at}

Batches(q, at) ==
    {S \in SUBSET Expired(q, at) :
        Cardinality(S) <= ReclaimBatch /\ (S = Expired(q, at) \/ Cardinality(S) = ReclaimBatch)}

(* Mutant: a reclaimed job is always ready. *)
ReclaimedForEver(r) ==
    [r EXCEPT !.state = "ready", !.lease = NoLease, !.expires_at = 0,
              !.last_failure = "lease_expired"]

(* Mutant: the dead token stays on the row. *)
ReclaimedKeepingLease(r) ==
    [r EXCEPT !.state = IF r.attempts >= r.max_attempts THEN "dead" ELSE "ready",
              !.last_failure = "lease_expired"]

(* SET state = CASE WHEN attempts >= max_attempts THEN 3 ELSE 0 END, ...   *)
Reclaimed(r) ==
    [r EXCEPT !.state = IF r.attempts >= r.max_attempts THEN "dead" ELSE "ready",
              !.lease = NoLease,
              !.expires_at = 0,
              !.last_failure = "lease_expired"]

AfterReclaim(S) == [j \in JobIds |-> IF j \in S THEN Reclaimed(rows[j]) ELSE rows[j]]

(* UPDATE ... WHERE queue = ? AND state = 1 AND lease_expires_at <= ?      *)
(* LIMIT n: the rows written are the rows tested.                          *)
ReclaimMySql(s, q, d) ==
    /\ engine = "mysql"
    /\ pc[s] = "idle"
    /\ \E S \in Batches(q, now) :
          /\ \A j \in S : Free(j)
          /\ rows' = AfterReclaim(S)
    /\ Goto(s, "select", [at |-> now, queue |-> q, lease |-> d])
    /\ UNCHANGED <<issued, revived, now, rowLock, queueLock>>

(* UPDATE ... WHERE id IN (SELECT id ... LIMIT n): the identifiers are     *)
(* selected first, and a row is written for having one of them, whatever it*)
(* holds by the time the statement reaches it.                             *)
ReclaimSelect(s, q, d) ==
    /\ engine = "postgres"
    /\ pc[s] = "idle"
    /\ \E S \in Batches(q, now) :
          Goto(s, "reclaim", [at |-> now, queue |-> q, lease |-> d, ids |-> S])
    /\ UNCHANGED <<rows, issued, revived, now, rowLock, queueLock>>

ReclaimPostgres(s) ==
    /\ pc[s] = "reclaim"
    /\ \A j \in call[s].ids : Free(j)
    /\ rows' = AfterReclaim(call[s].ids)
    /\ Goto(s, "select", [at |-> call[s].at, queue |-> call[s].queue, lease |-> call[s].lease])
    /\ UNCHANGED <<issued, revived, now, rowLock, queueLock>>

(* SELECT ... ORDER BY run_at, id LIMIT 1 FOR UPDATE SKIP LOCKED *)
Runnable(c) ==
    {j \in JobIds : /\ rows[j].queue = c.queue
                    /\ rows[j].state = "ready"
                    /\ rows[j].run_at <= c.at}

Oldest(j, S) ==
    /\ j \in S
    /\ \A i \in S \ {j} : \/ rows[j].run_at < rows[i].run_at
                          \/ rows[j].run_at = rows[i].run_at /\ j < i

SelectForUpdate(s, j) ==
    /\ pc[s] = "select"
    /\ Oldest(j, {i \in Runnable(call[s]) : Free(i)})
    /\ rowLock' = [rowLock EXCEPT ![j] = s]
    /\ Goto(s, "lease", [at |-> call[s].at, lease |-> call[s].lease, id |-> j])
    /\ UNCHANGED <<rows, issued, revived, now, queueLock>>

SelectNothing(s) ==
    /\ pc[s] = "select"
    /\ \A i \in Runnable(call[s]) : ~Free(i)
    /\ EndTransaction(s)
    /\ UNCHANGED <<rows, issued, revived, now>>

(* UPDATE ... WHERE id = ? AND state = 0, and the commit.  No row written  *)
(* rolls back.                                                             *)
Lease(s, t) ==
    LET c == call[s]
    IN  /\ pc[s] = "lease"
        /\ t \notin issued
        /\ rowLock[c.id] \in {s, NoSession}
        /\ IF rows[c.id].state = "ready"
           THEN /\ rows' = [rows EXCEPT ![c.id].state = "leased",
                                        ![c.id].attempts = @ + 1,
                                        ![c.id].lease = t,
                                        ![c.id].expires_at = c.at + c.lease]
                /\ issued' = issued \cup {t}
           ELSE UNCHANGED <<rows, issued>>
        /\ EndTransaction(s)
        /\ UNCHANGED <<revived, now>>

------------------------------------------------------------------------------
(* The single statements: they wait for a locked row, and test the token   *)
(* and the state of the row they write.                                    *)

Complete(s, t) ==
    /\ pc[s] = "idle"
    /\ \E j \in JobIds :
          /\ rows[j].lease = t /\ rows[j].state = "leased" /\ Free(j)
          /\ rows' = [rows EXCEPT ![j].state = "completed"]
    /\ UNCHANGED <<issued, revived, now, pc, call, rowLock, queueLock>>

Release(s, t) ==
    /\ pc[s] = "idle"
    /\ \E j \in JobIds :
          /\ rows[j].lease = t /\ rows[j].state = "leased" /\ Free(j)
          /\ rows' = [rows EXCEPT ![j].state = "ready",
                                  ![j].run_at = now,
                                  ![j].lease = NoLease,
                                  ![j].expires_at = 0]
    /\ UNCHANGED <<issued, revived, now, pc, call, rowLock, queueLock>>

Revive(s, j) ==
    /\ pc[s] = "idle"
    /\ rows[j].state = "dead" /\ Free(j)
    /\ rows' = [rows EXCEPT ![j].state = "ready",
                            ![j].attempts = 0,
                            ![j].run_at = now,
                            ![j].last_failure = "none",
                            ![j].lease = NoLease,
                            ![j].expires_at = 0]
    /\ revived' = [revived EXCEPT ![rows[j].queue] = @ + 1]
    /\ UNCHANGED <<issued, now, pc, call, rowLock, queueLock>>

------------------------------------------------------------------------------
(* fail: the row is read under its lock, the decision made in Rust, the    *)
(* row written                                                             *)

(* Mutant: the row is read without its lock. *)
FailSelectUnlocked(s, t, f, next) ==
    /\ pc[s] = "idle"
    /\ \E j \in JobIds :
          /\ rows[j].lease = t /\ rows[j].state = "leased" /\ Free(j)
          /\ Goto(s, "fail", [at |-> now, id |-> j, failure |-> f, next |-> next, token |-> t,
                              dead |-> IsTerminal(f) \/ rows[j].attempts >= rows[j].max_attempts])
    /\ UNCHANGED <<rows, issued, revived, now, rowLock, queueLock>>

FailSelect(s, t, f, next) ==
    /\ pc[s] = "idle"
    /\ \E j \in JobIds :
          /\ rows[j].lease = t /\ rows[j].state = "leased" /\ Free(j)
          /\ rowLock' = [rowLock EXCEPT ![j] = s]
          /\ Goto(s, "fail", [at |-> now, id |-> j, failure |-> f, next |-> next, token |-> t,
                              dead |-> IsTerminal(f) \/ rows[j].attempts >= rows[j].max_attempts])
    /\ UNCHANGED <<rows, issued, revived, now, queueLock>>

(* UPDATE ... WHERE id = ? AND state = 1 *)
FailUpdate(s) ==
    LET c == call[s]
    IN  /\ pc[s] = "fail"
        /\ rowLock[c.id] \in {s, NoSession}
        /\ rows' = IF rows[c.id].state # "leased" THEN rows
                   ELSE [rows EXCEPT ![c.id].state = IF c.dead THEN "dead" ELSE "ready",
                                     ![c.id].run_at = IF c.dead THEN @ ELSE c.next,
                                     ![c.id].last_failure = c.failure,
                                     ![c.id].lease = NoLease,
                                     ![c.id].expires_at = 0]
        /\ EndTransaction(s)
        /\ UNCHANGED <<issued, revived, now>>

------------------------------------------------------------------------------

(* The caller gives the call up (a release or drain bound elapses, its task*)
(* is aborted, the connection is lost): an open transaction rolls back.    *)
Abandon(s) ==
    /\ pc[s] # "idle"
    /\ EndTransaction(s)
    /\ UNCHANGED <<rows, issued, revived, now>>

Tick ==
    /\ now < MaxTime
    /\ now' = now + 1
    /\ UNCHANGED <<rows, issued, revived, pc, call, rowLock, queueLock>>

Statement ==
    \/ \E s \in Sessions, q \in Queues, k \in Keys \cup {NoKey}, m \in Limits, at \in now .. MaxTime :
          LockQueue(s, q, k, m, at)
    \/ \E s \in Sessions : CountAdmits(s) \/ CountRefuses(s) \/ \E j \in JobIds : Insert(s, j)
    \/ \E s \in Sessions, q \in Queues, d \in LeaseTimes : ReclaimMySql(s, q, d) \/ ReclaimSelect(s, q, d)
    \/ \E s \in Sessions : ReclaimPostgres(s) \/ SelectNothing(s)
    \/ \E s \in Sessions, j \in JobIds : SelectForUpdate(s, j) \/ Revive(s, j)
    \/ \E s \in Sessions, t \in Tokens : Lease(s, t) \/ Complete(s, t) \/ Release(s, t)
    \/ \E s \in Sessions, t \in Tokens, f \in FailureKinds \ {"lease_expired"}, next \in now .. MaxTime :
          FailSelect(s, t, f, next)
    \/ \E s \in Sessions : FailUpdate(s) \/ Abandon(s)
    \/ Tick

Next == Statement /\ UNCHANGED engine

Spec == Init /\ [][Next]_vars

------------------------------------------------------------------------------
(* Properties *)

(* What a transaction read under a row's lock is still so when it writes:  *)
(* the row a claim is about to lease is ready, and the row a failure is    *)
(* about to settle is leased, under the caller's token, with the attempts  *)
(* the decision was made on.                                               *)
ReadsHold ==
    \A s \in Sessions :
        /\ pc[s] = "lease" => rows[call[s].id].state = "ready"
        /\ pc[s] = "fail" =>
              LET c == call[s] r == rows[call[s].id]
              IN  /\ r.state = "leased"
                  /\ r.lease = c.token
                  /\ c.dead <=> IsTerminal(c.failure) \/ r.attempts >= r.max_attempts

(* The count an enqueue was admitted on still admits it when it inserts,   *)
(* but for jobs revived into the queue since (FR-026) and, on PostgreSQL,  *)
(* for completed ones its reclaim puts back.                               *)
DepthBound ==
    engine = "mysql" => \A q \in Queues : Depth(rows, q) <= QueueDepth + revived[q]

(* jobs-contract.md C-J1: nothing follows "completed".                     *)
CompletedIsFinal ==
    [][\A j \in JobIds : rows[j].state = "completed" => rows'[j] = rows[j]]_vars

Contract == INSTANCE JobContract WITH job <- rows

(* A row is leased exactly while it has a lease, and no token is on two    *)
(* rows, however the reclaim's identifiers have aged (jobs.rs:665).        *)
LeasesConsistent == Contract!LeasesSettleOneJob

(* The statements of all sessions together are calls of the port, each     *)
(* taking effect at once.  On MySQL: what PostgreSQL's reclaim does is no  *)
(* call (CompletedIsFinal).                                                *)
ImplementsContract ==
    Contract!Init /\ [][engine = "mysql" => Contract!Next]_<<rows, issued, revived>>
==============================================================================

------------------------------- MODULE JobRows -------------------------------
(***************************************************************************)
(* The rows of a job queue: what renvor-jobs calls a Job together with its *)
(* lease, and the values its port passes around.  Shared by the contract   *)
(* of the port (JobContract) and by every store that implements it.        *)
(*                                                                         *)
(* Names, kinds, payloads and trace contexts are opaque to every           *)
(* transition and are left out; a job's created_at, updated_at and         *)
(* finished_at are written and never read by one, and are left out too.    *)
(***************************************************************************)
EXTENDS Naturals, FiniteSets

CONSTANTS
    JobIds,        \* identifiers the entropy source may draw (ordered: they break ties of run_at)
    Queues,        \* queue names
    Keys,          \* idempotency keys
    NoKey,         \* the absent key, which never collides
    Tokens,        \* lease tokens the entropy source may draw; a draw never repeats
    NoLease,       \* the absent token
    Limits,        \* the max_attempts a job may be enqueued with
    LeaseTimes,    \* the durations a caller may ask a lease for
    MaxTime,       \* bound: the last instant of the clock
    QueueDepth,    \* JobBounds::max_queue_depth
    ReclaimBatch   \* RECLAIM_BATCH

ASSUME RowsAssumption ==
    /\ JobIds \subseteq Nat
    /\ IsFiniteSet(JobIds)
    /\ Queues # {}
    /\ NoKey \notin Keys
    /\ NoLease \notin Tokens
    /\ Limits \subseteq Nat \ {0}
    /\ LeaseTimes \subseteq Nat
    /\ MaxTime \in Nat
    /\ QueueDepth \in Nat
    /\ ReclaimBatch \in Nat \ {0}

Time == 0 .. MaxTime

JobStates == {"absent", "ready", "leased", "completed", "dead"}

(* FailureKind, with the three kinds no transition tells apart             *)
(* (HandlerFailed, TimedOut, Panicked) as "retryable".                     *)
FailureKinds == {"retryable", "lease_expired", "abandoned"}

IsTerminal(f) == f = "abandoned"

(* "absent" is the identifier nobody has drawn yet. *)
Row == [queue        : Queues,
        key          : Keys \cup {NoKey},
        state        : JobStates,
        attempts     : Nat,
        max_attempts : Nat,
        run_at       : Time,
        last_failure : FailureKinds \cup {"none"},
        lease        : Tokens \cup {NoLease},
        expires_at   : Nat]

Absent == [queue        |-> CHOOSE q \in Queues : TRUE,
           key          |-> NoKey,
           state        |-> "absent",
           attempts     |-> 0,
           max_attempts |-> 0,
           run_at       |-> 0,
           last_failure |-> "none",
           lease        |-> NoLease,
           expires_at   |-> 0]

(* The depth counts ready and leased jobs. *)
Waiting(table, q) ==
    {j \in JobIds : table[j].queue = q /\ table[j].state \in {"ready", "leased"}}

Depth(table, q) == Cardinality(Waiting(table, q))

(* The job that holds an idempotency key, if any. *)
Holders(table, q, k) ==
    {j \in JobIds : /\ table[j].state # "absent"
                    /\ table[j].queue = q
                    /\ table[j].key = k
                    /\ k # NoKey}
==============================================================================

--------------------------- MODULE SqlStoreProofs ---------------------------
(***************************************************************************)
(* What the durable store keeps for any number of sessions, jobs, queues,  *)
(* keys, tokens and instants, however their statements fall between one    *)
(* another.  The argument is by sessions: what a session read or counted   *)
(* it did under a lock it still holds (SessionOK), and a statement of      *)
(* another session writes no row and takes no lock that is not free or its *)
(* own (OthersUndisturbed).                                                *)
(***************************************************************************)
EXTENDS SqlJobStore, FiniteSetTheorems, TLAPS

Labels == {"idle", "count", "insert", "reclaim", "select", "lease", "fail"}

EnqueueLocals == [at : Time, queue : Queues, key : Keys \cup {NoKey}, limit : Limits, run_at : Time]
ReclaimLocals == [at : Time, queue : Queues, lease : LeaseTimes, ids : SUBSET JobIds]
SelectLocals  == [at : Time, queue : Queues, lease : LeaseTimes]
LeaseLocals   == [at : Time, lease : LeaseTimes, id : JobIds]
FailLocals    == [at : Time, id : JobIds, failure : FailureKinds \ {"lease_expired"}, next : Time,
                  token : Tokens, dead : BOOLEAN]

Locals == {Idle} \cup EnqueueLocals \cup ReclaimLocals \cup SelectLocals \cup LeaseLocals
                 \cup FailLocals

RowsTyped ==
    /\ rows \in [JobIds -> Row]
    /\ issued \in SUBSET Tokens
    /\ revived \in [Queues -> Nat]

ControlTyped ==
    /\ engine \in Engines
    /\ now \in Time
    /\ pc \in [Sessions -> Labels]
    /\ call \in [Sessions -> Locals]
    /\ rowLock \in [JobIds -> Sessions \cup {NoSession}]
    /\ queueLock \in [Queues -> Sessions \cup {NoSession}]

(* What a session has at each statement: its arguments, its locks, and what*)
(* it read under them.                                                     *)
SessionOK(s) ==
    /\ pc[s] \in {"count", "insert"} =>
          call[s] \in EnqueueLocals /\ queueLock[call[s].queue] = s
    /\ pc[s] = "reclaim" => call[s] \in ReclaimLocals /\ engine = "postgres"
    /\ pc[s] = "select" => call[s] \in SelectLocals
    /\ pc[s] = "lease" =>
          /\ call[s] \in LeaseLocals
          /\ rowLock[call[s].id] = s
          /\ rows[call[s].id].state = "ready"
          /\ rows[call[s].id].run_at <= call[s].at
    /\ pc[s] = "fail" =>
          /\ call[s] \in FailLocals
          /\ rowLock[call[s].id] = s
          /\ LET c == call[s] r == rows[call[s].id]
             IN  /\ r.state = "leased"
                 /\ r.lease = c.token
                 /\ c.dead <=> IsTerminal(c.failure) \/ r.attempts >= r.max_attempts

(* The bound, and the room an admitted enqueue still has. *)
DepthInv ==
    engine = "mysql" =>
        /\ \A q \in Queues : Depth(rows, q) <= QueueDepth + revived[q]
        /\ \A s \in Sessions : pc[s] = "insert" =>
              Depth(rows, call[s].queue) < QueueDepth + revived[call[s].queue]

SqlInv ==
    /\ RowsTyped
    /\ ControlTyped
    /\ \A s \in Sessions : SessionOK(s)
    /\ LeasesConsistent
    /\ DepthInv

(* What a step is to the port. *)
Refines == [engine = "mysql" => Contract!Next]_<<rows, issued, revived>>

------------------------------------------------------------------------------
(* Instants and rows *)

LEMMA InstantsAreNat == Time \subseteq Nat /\ LeaseTimes \subseteq Nat /\ 0 \in Time
  BY RowsAssumption DEF Time

(* The row of an identifier nobody drew is a row. *)
LEMMA AbsentIsRow == Absent \in Row
  BY RowsAssumption, InstantsAreNat DEF Absent, Row, JobStates

(* Two rows with the same fields are one. *)
LEMMA RowsEqual ==
    ASSUME NEW a \in Row, NEW b \in Row,
           a.queue = b.queue, a.key = b.key, a.state = b.state, a.attempts = b.attempts,
           a.max_attempts = b.max_attempts, a.run_at = b.run_at,
           a.last_failure = b.last_failure, a.lease = b.lease, a.expires_at = b.expires_at
    PROVE  a = b
  BY DEF Row

------------------------------------------------------------------------------
(* Sessions, locks and labels *)

(* A session goes on to another statement; the others stay at theirs.      *)
LEMMA Moved ==
    ASSUME ControlTyped, NEW s \in Sessions, NEW label \in Labels, NEW locals \in Locals,
           Goto(s, label, locals)
    PROVE  /\ pc' \in [Sessions -> Labels] /\ call' \in [Sessions -> Locals]
           /\ pc'[s] = label /\ call'[s] = locals
           /\ \A u \in Sessions \ {s} : pc'[u] = pc[u] /\ call'[u] = call[u]
  BY DEF ControlTyped, Goto

(* A session whose transaction ends is idle and holds nothing; the others  *)
(* keep what they hold.                                                    *)
LEMMA Ended ==
    ASSUME ControlTyped, NEW s \in Sessions, EndTransaction(s)
    PROVE  /\ pc' \in [Sessions -> Labels] /\ call' \in [Sessions -> Locals]
           /\ rowLock' \in [JobIds -> Sessions \cup {NoSession}]
           /\ queueLock' \in [Queues -> Sessions \cup {NoSession}]
           /\ pc'[s] = "idle"
           /\ \A u \in Sessions \ {s} :
                 /\ pc'[u] = pc[u] /\ call'[u] = call[u]
                 /\ \A j \in JobIds : rowLock[j] = u => rowLock'[j] = u
                 /\ \A q \in Queues : queueLock[q] = u => queueLock'[q] = u
<1>1. Goto(s, "idle", Idle) /\ "idle" \in Labels /\ Idle \in Locals
  BY DEF EndTransaction, Labels, Locals
<1>2. /\ pc' \in [Sessions -> Labels] /\ call' \in [Sessions -> Locals]
      /\ pc'[s] = "idle"
      /\ \A u \in Sessions \ {s} : pc'[u] = pc[u] /\ call'[u] = call[u]
  BY <1>1, Moved
<1>3. QED
  BY <1>2 DEF ControlTyped, EndTransaction

(* A step that leaves the rows and locks of the other sessions alone leaves*)
(* them what they know.                                                    *)
LEMMA OthersUndisturbed ==
    ASSUME SqlInv, NEW s \in Sessions, engine' = engine,
           \A u \in Sessions \ {s} :
              /\ pc'[u] = pc[u] /\ call'[u] = call[u]
              /\ \A j \in JobIds : rowLock[j] = u =>
                    rowLock'[j] = u /\ (rows[j].state # "absent" => rows'[j] = rows[j])
              /\ \A q \in Queues : queueLock[q] = u => queueLock'[q] = u
    PROVE  \A u \in Sessions \ {s} : SessionOK(u)'
<1> SUFFICES ASSUME NEW u \in Sessions \ {s} PROVE SessionOK(u)'
  OBVIOUS
<1>1. SessionOK(u) /\ pc'[u] = pc[u] /\ call'[u] = call[u]
  BY DEF SqlInv
<1>2. pc[u] \in {"count", "insert"} => call[u].queue \in Queues
  BY <1>1 DEF SessionOK, EnqueueLocals
<1>3. pc[u] \in {"lease", "fail"} => call[u].id \in JobIds
  BY <1>1 DEF SessionOK, LeaseLocals, FailLocals
<1>4. QED
  BY <1>1, <1>2, <1>3 DEF SessionOK

------------------------------------------------------------------------------
(* Tokens and depth *)

(* Rows that keep or lose their token, and hold one exactly when their     *)
(* state calls for it, keep the leases consistent.                         *)
LEMMA TokensKept ==
    ASSUME LeasesConsistent, issued' = issued,
           \A i \in JobIds :
              /\ rows'[i].lease # NoLease <=> rows'[i].state \in {"leased", "completed"}
              /\ rows'[i].lease \in {rows[i].lease, NoLease}
    PROVE  LeasesConsistent'
  BY DEF LeasesConsistent, Contract!LeasesSettleOneJob, Contract!LeaseWhileHeld,
         Contract!LeaseNamesOneJob

(* The depth is a number, and grows with the jobs that wait.               *)
LEMMA DepthMonotone ==
    ASSUME NEW q, Waiting(rows', q) \subseteq Waiting(rows, q)
    PROVE  Depth(rows, q) \in Nat /\ Depth(rows', q) \in Nat /\ Depth(rows', q) <= Depth(rows, q)
<1>1. IsFiniteSet(Waiting(rows, q))
  BY RowsAssumption, FS_Subset DEF Waiting
<1>2. QED
  BY <1>1, FS_Subset, FS_CardinalityType DEF Depth

(* One job more makes the depth at most one greater.                       *)
LEMMA DepthPlusOne ==
    ASSUME NEW q, NEW j, Waiting(rows', q) \subseteq Waiting(rows, q) \cup {j}
    PROVE  Depth(rows, q) \in Nat /\ Depth(rows', q) \in Nat /\ Depth(rows', q) <= Depth(rows, q) + 1
<1> DEFINE W == Waiting(rows, q)
<1>1. IsFiniteSet(W)
  BY RowsAssumption, FS_Subset DEF Waiting
<1>2. IsFiniteSet(W \cup {j}) /\ Cardinality(W) \in Nat /\ Cardinality(W \cup {j}) \in Nat
      /\ Cardinality(W \cup {j}) <= Cardinality(W) + 1
  <2> HIDE DEF W
  <2> QED BY <1>1, FS_AddElement, FS_CardinalityType
<1>3. QED
  BY <1>2, FS_Subset, FS_CardinalityType DEF Depth

(* A step that brings no job and admits nobody keeps the bound.            *)
LEMMA DepthKept ==
    ASSUME SqlInv, engine' = engine, revived' = revived,
           engine = "mysql" =>
              \A i \in JobIds : rows'[i].state \in {"ready", "leased"} =>
                 rows[i].state \in {"ready", "leased"} /\ rows'[i].queue = rows[i].queue,
           \A u \in Sessions : pc'[u] = "insert" => pc[u] = "insert" /\ call'[u] = call[u]
    PROVE  DepthInv'
<1> SUFFICES ASSUME engine = "mysql"
             PROVE  /\ \A q \in Queues : Depth(rows', q) <= QueueDepth + revived'[q]
                    /\ \A s \in Sessions : pc'[s] = "insert" =>
                          Depth(rows', call'[s].queue) < QueueDepth + revived'[call'[s].queue]
  BY DEF DepthInv
<1>1. ASSUME NEW q PROVE /\ Depth(rows, q) \in Nat /\ Depth(rows', q) \in Nat
                         /\ Depth(rows', q) <= Depth(rows, q)
  <2>1. Waiting(rows', q) \subseteq Waiting(rows, q)
    BY DEF Waiting
  <2>2. QED
    BY <2>1, DepthMonotone
<1>2. \A q \in Queues : Depth(rows, q) <= QueueDepth + revived[q] /\ revived[q] \in Nat
  BY DEF SqlInv, RowsTyped, DepthInv
<1>3. ASSUME NEW u \in Sessions, pc'[u] = "insert"
      PROVE  /\ call[u].queue \in Queues /\ call'[u] = call[u]
             /\ Depth(rows, call[u].queue) < QueueDepth + revived[call[u].queue]
  <2>1. pc[u] = "insert" /\ call'[u] = call[u] /\ SessionOK(u)
    BY <1>3 DEF SqlInv
  <2>2. QED
    BY <2>1 DEF SessionOK, EnqueueLocals, SqlInv, DepthInv
<1>4. QED
  BY <1>1, <1>2, <1>3, RowsAssumption

------------------------------------------------------------------------------
(* The statements that write no row *)

(* One of them, by session s. *)
Quiet(s) ==
    /\ UNCHANGED <<engine, rows, issued, revived>>
    /\ ControlTyped'
    /\ SessionOK(s)'
    /\ \A u \in Sessions \ {s} :
          /\ pc'[u] = pc[u] /\ call'[u] = call[u]
          /\ \A j \in JobIds : rowLock[j] = u => rowLock'[j] = u
          /\ \A q \in Queues : queueLock[q] = u => queueLock'[q] = u

(* It keeps the invariant unless it admits somebody, and is nothing to the *)
(* port.                                                                   *)
LEMMA QuietStep ==
    ASSUME SqlInv, NEW s \in Sessions, Quiet(s)
    PROVE  /\ RowsTyped' /\ ControlTyped' /\ (\A u \in Sessions : SessionOK(u)')
           /\ LeasesConsistent'
           /\ Refines
           /\ pc'[s] # "insert" => SqlInv'
<1>1. RowsTyped' /\ ControlTyped' /\ Refines
  BY DEF SqlInv, RowsTyped, Quiet, Refines
<1>2. \A u \in Sessions : SessionOK(u)'
  <2>1. \A u \in Sessions \ {s} : SessionOK(u)'
    BY OthersUndisturbed DEF Quiet
  <2>2. QED
    BY <2>1 DEF Quiet
<1>3. LeasesConsistent'
  BY DEF SqlInv, Quiet, LeasesConsistent, Contract!LeasesSettleOneJob, Contract!LeaseWhileHeld,
         Contract!LeaseNamesOneJob
<1>4. ASSUME pc'[s] # "insert" PROVE DepthInv'
  <2>1. \A u \in Sessions : pc'[u] = "insert" => pc[u] = "insert" /\ call'[u] = call[u]
    BY <1>4 DEF Quiet
  <2>2. QED
    BY <2>1, DepthKept DEF Quiet
<1>5. QED
  BY <1>1, <1>2, <1>3, <1>4 DEF SqlInv

LEMMA StepLockQueue ==
    ASSUME SqlInv, engine' = engine, NEW s \in Sessions, NEW q \in Queues,
           NEW k \in Keys \cup {NoKey}, NEW m \in Limits, NEW at \in now .. MaxTime,
           LockQueue(s, q, k, m, at)
    PROVE  SqlInv' /\ Refines
<1> DEFINE c == [at |-> now, queue |-> q, key |-> k, limit |-> m, run_at |-> at]
<1>1. c \in EnqueueLocals /\ c.queue = q
  BY DEF SqlInv, ControlTyped, EnqueueLocals, Time
<1>2. Goto(s, "count", c) /\ queueLock' = [queueLock EXCEPT ![q] = s] /\ queueLock[q] = NoSession
      /\ UNCHANGED <<rows, issued, revived, now, rowLock>>
  BY DEF LockQueue
<1> HIDE DEF c
<1>3. /\ pc' \in [Sessions -> Labels] /\ call' \in [Sessions -> Locals]
      /\ pc'[s] = "count" /\ call'[s] = c
      /\ \A u \in Sessions \ {s} : pc'[u] = pc[u] /\ call'[u] = call[u]
  BY <1>1, <1>2, Moved DEF SqlInv, Labels, Locals
<1>4. ControlTyped' /\ queueLock'[q] = s /\ \A p \in Queues \ {q} : queueLock'[p] = queueLock[p]
  BY <1>2, <1>3 DEF SqlInv, ControlTyped
<1>5. SessionOK(s)'
  BY <1>1, <1>3, <1>4 DEF SessionOK
<1>6. Quiet(s)
  BY <1>2, <1>3, <1>4, <1>5, EngineAssumption DEF Quiet
<1>7. QED
  BY <1>3, <1>6, QuietStep

LEMMA StepCountAdmits ==
    ASSUME SqlInv, engine' = engine, NEW s \in Sessions, CountAdmits(s)
    PROVE  SqlInv' /\ Refines
<1>1. SessionOK(s) /\ pc[s] = "count" /\ Goto(s, "insert", call[s]) /\ Admitted(call[s])
      /\ UNCHANGED <<rows, issued, revived, now, rowLock, queueLock>>
  BY DEF CountAdmits, SqlInv
<1>2. call[s] \in EnqueueLocals /\ call[s].queue \in Queues /\ queueLock[call[s].queue] = s
  BY <1>1 DEF SessionOK, EnqueueLocals
<1>3. /\ pc' \in [Sessions -> Labels] /\ call' \in [Sessions -> Locals]
      /\ pc'[s] = "insert" /\ call'[s] = call[s]
      /\ \A u \in Sessions \ {s} : pc'[u] = pc[u] /\ call'[u] = call[u]
  BY <1>1, <1>2, Moved DEF SqlInv, Labels, Locals
<1>4. Quiet(s)
  BY <1>1, <1>2, <1>3 DEF Quiet, SessionOK, SqlInv, ControlTyped
<1>5. DepthInv'
  <2> SUFFICES ASSUME engine = "mysql"
               PROVE  /\ \A q \in Queues : Depth(rows', q) <= QueueDepth + revived'[q]
                      /\ \A u \in Sessions : pc'[u] = "insert" =>
                            Depth(rows', call'[u].queue) < QueueDepth + revived'[call'[u].queue]
    BY DEF DepthInv
  <2>1. Depth(rows, call[s].queue) < QueueDepth + revived[call[s].queue]
    <3>1. Depth(rows, call[s].queue) \in Nat
      BY DepthMonotone, <1>1
    <3>2. QED
      BY <1>1, <1>2, <3>1, RowsAssumption DEF Admitted, SqlInv, RowsTyped
  <2>2. \A u \in Sessions : call'[u] = call[u] /\ (pc'[u] = "insert" => u = s \/ pc[u] = "insert")
    BY <1>3
  <2>3. /\ rows' = rows /\ revived' = revived
        /\ \A q \in Queues : Depth(rows, q) <= QueueDepth + revived[q]
        /\ \A u \in Sessions : pc[u] = "insert" =>
              Depth(rows, call[u].queue) < QueueDepth + revived[call[u].queue]
    BY <1>1 DEF SqlInv, DepthInv
  <2>4. QED
    BY <2>1, <2>2, <2>3
<1>6. QED
  BY <1>4, <1>5, QuietStep DEF SqlInv

(* A transaction that ends without having written. *)
LEMMA StepEnded ==
    ASSUME SqlInv, engine' = engine, NEW s \in Sessions, EndTransaction(s),
           UNCHANGED <<rows, issued, revived, now>>
    PROVE  SqlInv' /\ Refines
<1>1. /\ pc' \in [Sessions -> Labels] /\ call' \in [Sessions -> Locals]
      /\ rowLock' \in [JobIds -> Sessions \cup {NoSession}]
      /\ queueLock' \in [Queues -> Sessions \cup {NoSession}]
      /\ pc'[s] = "idle"
      /\ \A u \in Sessions \ {s} :
            /\ pc'[u] = pc[u] /\ call'[u] = call[u]
            /\ \A j \in JobIds : rowLock[j] = u => rowLock'[j] = u
            /\ \A q \in Queues : queueLock[q] = u => queueLock'[q] = u
  BY Ended DEF SqlInv
<1>2. ControlTyped' /\ SessionOK(s)'
  BY <1>1 DEF SqlInv, ControlTyped, SessionOK
<1>3. Quiet(s)
  BY <1>1, <1>2 DEF Quiet
<1>4. QED
  BY <1>1, <1>3, QuietStep

LEMMA StepReclaimSelect ==
    ASSUME SqlInv, engine' = engine, NEW s \in Sessions, NEW q \in Queues, NEW d \in LeaseTimes,
           ReclaimSelect(s, q, d)
    PROVE  SqlInv' /\ Refines
<1>1. PICK S \in SUBSET JobIds : Goto(s, "reclaim", [at |-> now, queue |-> q, lease |-> d, ids |-> S])
  BY DEF ReclaimSelect, Batches, Expired
<1> DEFINE c == [at |-> now, queue |-> q, lease |-> d, ids |-> S]
<1>2. c \in ReclaimLocals
  BY DEF SqlInv, ControlTyped, ReclaimLocals
<1> HIDE DEF c
<1>3. /\ pc' \in [Sessions -> Labels] /\ call' \in [Sessions -> Locals]
      /\ pc'[s] = "reclaim" /\ call'[s] = c
      /\ \A u \in Sessions \ {s} : pc'[u] = pc[u] /\ call'[u] = call[u]
  BY <1>1, <1>2, Moved DEF SqlInv, Labels, Locals, c
<1>4. Quiet(s)
  BY <1>2, <1>3 DEF ReclaimSelect, Quiet, SessionOK, SqlInv, ControlTyped
<1>5. QED
  BY <1>3, <1>4, QuietStep

LEMMA StepSelectForUpdate ==
    ASSUME SqlInv, engine' = engine, NEW s \in Sessions, NEW j \in JobIds, SelectForUpdate(s, j)
    PROVE  SqlInv' /\ Refines
<1> DEFINE c == [at |-> call[s].at, lease |-> call[s].lease, id |-> j]
<1>1. /\ pc[s] = "select" /\ Goto(s, "lease", c) /\ rowLock' = [rowLock EXCEPT ![j] = s]
      /\ rowLock[j] = NoSession /\ rows[j].state = "ready" /\ rows[j].run_at <= call[s].at
      /\ UNCHANGED <<rows, issued, revived, now, queueLock>>
  BY DEF SelectForUpdate, Oldest, Runnable, Free
<1>2. c \in LeaseLocals /\ c.id = j /\ c.at = call[s].at
  BY <1>1 DEF SqlInv, SessionOK, SelectLocals, LeaseLocals
<1> HIDE DEF c
<1>3. /\ pc' \in [Sessions -> Labels] /\ call' \in [Sessions -> Locals]
      /\ pc'[s] = "lease" /\ call'[s] = c
      /\ \A u \in Sessions \ {s} : pc'[u] = pc[u] /\ call'[u] = call[u]
  BY <1>1, <1>2, Moved DEF SqlInv, Labels, Locals
<1>4. ControlTyped' /\ rowLock'[j] = s /\ \A i \in JobIds \ {j} : rowLock'[i] = rowLock[i]
  BY <1>1, <1>3 DEF SqlInv, ControlTyped
<1>5. SessionOK(s)'
  BY <1>1, <1>2, <1>3, <1>4 DEF SessionOK
<1>6. Quiet(s)
  BY <1>1, <1>3, <1>4, <1>5, EngineAssumption DEF Quiet
<1>7. QED
  BY <1>3, <1>6, QuietStep

LEMMA StepFailSelect ==
    ASSUME SqlInv, engine' = engine, NEW s \in Sessions, NEW t \in Tokens,
           NEW f \in FailureKinds \ {"lease_expired"}, NEW next \in now .. MaxTime,
           FailSelect(s, t, f, next)
    PROVE  SqlInv' /\ Refines
<1>1. PICK j \in JobIds :
         /\ rows[j].lease = t /\ rows[j].state = "leased" /\ Free(j)
         /\ rowLock' = [rowLock EXCEPT ![j] = s]
         /\ Goto(s, "fail", [at |-> now, id |-> j, failure |-> f, next |-> next, token |-> t,
                             dead |-> IsTerminal(f) \/ rows[j].attempts >= rows[j].max_attempts])
  BY DEF FailSelect
<1> DEFINE dies == IsTerminal(f) \/ rows[j].attempts >= rows[j].max_attempts
           c == [at |-> now, id |-> j, failure |-> f, next |-> next, token |-> t, dead |-> dies]
<1>0. dies \in BOOLEAN
  BY Zenon
<1>2. /\ c \in FailLocals /\ c.id = j /\ c.token = t /\ c.failure = f
      /\ c.dead = dies
  <2> HIDE DEF dies
  <2> QED BY <1>0, RowsAssumption DEF SqlInv, ControlTyped, FailLocals, Time
<1> HIDE DEF c
<1>3. /\ pc' \in [Sessions -> Labels] /\ call' \in [Sessions -> Locals]
      /\ pc'[s] = "fail" /\ call'[s] = c
      /\ \A u \in Sessions \ {s} : pc'[u] = pc[u] /\ call'[u] = call[u]
  BY <1>1, <1>2, Moved DEF SqlInv, Labels, Locals, c
<1>4. ControlTyped' /\ rowLock'[j] = s /\ \A i \in JobIds \ {j} : rowLock'[i] = rowLock[i]
  BY <1>1, <1>3 DEF SqlInv, ControlTyped, FailSelect
<1>5. SessionOK(s)'
  BY <1>1, <1>2, <1>3, <1>4 DEF SessionOK, FailSelect
<1>6. Quiet(s)
  BY <1>1, <1>3, <1>4, <1>5, EngineAssumption DEF Quiet, Free, FailSelect
<1>7. QED
  BY <1>3, <1>6, QuietStep

LEMMA StepTick ==
    ASSUME SqlInv, engine' = engine, Tick
    PROVE  SqlInv' /\ Refines
<1>1. now' \in Time /\ UNCHANGED <<rows, issued, revived, pc, call, rowLock, queueLock>>
  BY RowsAssumption DEF Tick, SqlInv, ControlTyped, Time
<1>2. RowsTyped' /\ ControlTyped' /\ LeasesConsistent'
  BY <1>1 DEF SqlInv, RowsTyped, ControlTyped, LeasesConsistent,
              Contract!LeasesSettleOneJob, Contract!LeaseWhileHeld, Contract!LeaseNamesOneJob
<1>3. \A s \in Sessions : SessionOK(s)'
  BY <1>1 DEF SqlInv, SessionOK
<1>4. DepthInv'
  BY <1>1, DepthKept
<1>5. QED
  BY <1>1, <1>2, <1>3, <1>4 DEF SqlInv, Refines

------------------------------------------------------------------------------
(* The statements that write rows *)

(* A call returns: its transaction ends, or it was a statement of its own. *)
Returns(s) ==
    \/ EndTransaction(s)
    \/ pc[s] = "idle" /\ UNCHANGED <<pc, call, rowLock, queueLock>>

(* A session that returns has written rows that were free, its own or new. *)
LEMMA Written ==
    ASSUME SqlInv, NEW s \in Sessions, engine' = engine, now' = now, Returns(s), RowsTyped',
           \A j \in JobIds : \/ rows'[j] = rows[j]
                             \/ rowLock[j] \in {s, NoSession}
                             \/ rows[j].state = "absent"
    PROVE  /\ ControlTyped' /\ (\A u \in Sessions : SessionOK(u)')
           /\ pc'[s] = "idle"
           /\ \A u \in Sessions \ {s} : pc'[u] = pc[u] /\ call'[u] = call[u]
<1>1. /\ ControlTyped'
      /\ pc'[s] = "idle"
      /\ \A u \in Sessions \ {s} :
            /\ pc'[u] = pc[u] /\ call'[u] = call[u]
            /\ \A j \in JobIds : rowLock[j] = u => rowLock'[j] = u
            /\ \A q \in Queues : queueLock[q] = u => queueLock'[q] = u
  <2>1. CASE EndTransaction(s)
    BY <2>1, Ended DEF SqlInv, ControlTyped
  <2>2. CASE pc[s] = "idle" /\ UNCHANGED <<pc, call, rowLock, queueLock>>
    BY <2>2 DEF SqlInv, ControlTyped
  <2>3. QED
    BY <2>1, <2>2 DEF Returns
<1>2. \A u \in Sessions \ {s} : SessionOK(u)'
  BY <1>1, OthersUndisturbed, EngineAssumption
<1>3. SessionOK(s)'
  BY <1>1 DEF SessionOK
<1>4. QED
  BY <1>1, <1>2, <1>3

(* One row is written that keeps or loses its token and joins no queue.    *)
LEMMA RowWritten ==
    ASSUME SqlInv, NEW s \in Sessions, engine' = engine, now' = now, Returns(s),
           issued' = issued, revived' = revived,
           NEW j \in JobIds, rowLock[j] \in {s, NoSession},
           NEW r \in Row, rows' = [rows EXCEPT ![j] = r],
           r.lease # NoLease <=> r.state \in {"leased", "completed"},
           r.lease \in {rows[j].lease, NoLease},
           rows[j].state \in {"ready", "leased"}, r.queue = rows[j].queue
    PROVE  SqlInv'
<1>1. RowsTyped' /\ rows'[j] = r /\ \A i \in JobIds \ {j} : rows'[i] = rows[i]
  BY DEF SqlInv, RowsTyped
<1>2. /\ ControlTyped' /\ (\A u \in Sessions : SessionOK(u)')
      /\ pc'[s] = "idle"
      /\ \A u \in Sessions \ {s} : pc'[u] = pc[u] /\ call'[u] = call[u]
  BY <1>1, Written
<1>3. LeasesConsistent'
  <2>1. LeasesConsistent
    BY DEF SqlInv
  <2>2. \A i \in JobIds : rows[i].lease # NoLease <=> rows[i].state \in {"leased", "completed"}
    BY <2>1 DEF LeasesConsistent, Contract!LeasesSettleOneJob, Contract!LeaseWhileHeld
  <2>3. QED
    BY <1>1, <2>1, <2>2, TokensKept
<1>4. DepthInv'
  BY <1>1, <1>2, DepthKept
<1>5. QED
  BY <1>1, <1>2, <1>3, <1>4 DEF SqlInv

(* What the invariant says of one row. *)
LEMMA RowKnown ==
    ASSUME SqlInv, NEW j \in JobIds
    PROVE  /\ rows[j] \in Row
           /\ rows[j].lease # NoLease <=> rows[j].state \in {"leased", "completed"}
           /\ rows[j].lease \in issued \cup {NoLease}
  BY DEF SqlInv, RowsTyped, LeasesConsistent, Contract!LeasesSettleOneJob,
         Contract!LeaseWhileHeld

LEMMA StepComplete ==
    ASSUME SqlInv, engine' = engine, NEW s \in Sessions, NEW t \in Tokens, Complete(s, t)
    PROVE  SqlInv' /\ Refines
<1>1. PICK j \in JobIds :
         /\ rows[j].lease = t /\ rows[j].state = "leased" /\ Free(j)
         /\ rows' = [rows EXCEPT ![j].state = "completed"]
  BY DEF Complete
<1> DEFINE r == [rows[j] EXCEPT !.state = "completed"]
<1>2. /\ r \in Row /\ r.lease = t /\ r.state = "completed" /\ r.queue = rows[j].queue
      /\ rows' = [rows EXCEPT ![j] = r]
  BY <1>1, RowKnown DEF Row, JobStates
<1> HIDE DEF r
<1>3. SqlInv'
  <2>1. t # NoLease /\ Returns(s) /\ rowLock[j] = NoSession
    BY <1>1, RowsAssumption DEF Complete, Returns, Free
  <2>2. issued' = issued /\ revived' = revived /\ now' = now
    BY DEF Complete
  <2>3. QED
    BY <1>1, <1>2, <2>1, <2>2, RowWritten
<1>4. Contract!Complete(j, t)
  BY <1>1 DEF Complete, Contract!Complete
<1>5. QED
  BY <1>3, <1>4 DEF Refines, Contract!Next

LEMMA StepRelease ==
    ASSUME SqlInv, engine' = engine, NEW s \in Sessions, NEW t \in Tokens, Release(s, t)
    PROVE  SqlInv' /\ Refines
<1>1. PICK j \in JobIds :
         /\ rows[j].lease = t /\ rows[j].state = "leased" /\ Free(j)
         /\ rows' = [rows EXCEPT ![j].state = "ready", ![j].run_at = now,
                                 ![j].lease = NoLease, ![j].expires_at = 0]
  BY DEF Release
<1> DEFINE r == [rows[j] EXCEPT !.state = "ready", !.run_at = now, !.lease = NoLease,
                                !.expires_at = 0]
<1>2. /\ r \in Row /\ r.lease = NoLease /\ r.state = "ready" /\ r.queue = rows[j].queue
      /\ rows' = [rows EXCEPT ![j] = r]
  BY <1>1, RowKnown DEF Row, JobStates, SqlInv, ControlTyped
<1> HIDE DEF r
<1>3. SqlInv'
  BY <1>1, <1>2, RowWritten DEF Release, Returns, Free
<1>4. Contract!Release(j, t, now) /\ now \in Time
  BY <1>1 DEF Release, Contract!Release, SqlInv, ControlTyped
<1>5. QED
  BY <1>3, <1>4 DEF Refines, Contract!Next, Contract!Time, Time

LEMMA StepFailUpdate ==
    ASSUME SqlInv, engine' = engine, NEW s \in Sessions, FailUpdate(s)
    PROVE  SqlInv' /\ Refines
<1>0. pc[s] = "fail" /\ SessionOK(s) /\ EndTransaction(s) /\ UNCHANGED <<issued, revived, now>>
  BY DEF FailUpdate, SqlInv
<1>1. /\ call[s] \in FailLocals /\ call[s].id \in JobIds /\ rowLock[call[s].id] = s
      /\ rows[call[s].id].state = "leased"
      /\ rows[call[s].id].lease = call[s].token
  BY <1>0 DEF SessionOK, FailLocals
<1>2. call[s].dead <=> (IsTerminal(call[s].failure)
                        \/ rows[call[s].id].attempts >= rows[call[s].id].max_attempts)
  BY <1>0 DEF SessionOK
<1>3. PICK c \in FailLocals, j \in JobIds : c = call[s] /\ j = c.id
  BY <1>1
<1> DEFINE r == [rows[j] EXCEPT !.state = IF c.dead THEN "dead" ELSE "ready",
                                !.run_at = IF c.dead THEN @ ELSE c.next,
                                !.last_failure = c.failure, !.lease = NoLease, !.expires_at = 0]
<1>4. rows' = [rows EXCEPT ![j] = r]
  BY <1>1, <1>3 DEF FailUpdate
<1>5. /\ r \in Row /\ r.lease = NoLease /\ r.state \in {"ready", "dead"}
      /\ r.queue = rows[j].queue
  <2>1. rows[j] \in Row /\ c.failure \in FailureKinds /\ c.next \in Time
    BY <1>3, RowKnown DEF FailLocals
  <2>2. CASE c.dead
    BY <2>1, <2>2 DEF Row, JobStates
  <2>3. CASE ~c.dead
    BY <2>1, <2>3 DEF Row, JobStates
  <2>4. QED
    BY <2>2, <2>3
<1>6. Contract!Fail(j, c.token, c.failure, c.next)
  BY <1>0, <1>1, <1>2, <1>3, <1>4 DEF Contract!Fail, IsTerminal, Contract!IsTerminal
<1> HIDE DEF r
<1>7. SqlInv'
  BY <1>0, <1>1, <1>3, <1>4, <1>5, RowWritten DEF Returns
<1>8. c.token \in Tokens /\ c.failure \in Contract!Recordable /\ c.next \in Contract!Time
  BY <1>3 DEF FailLocals, Contract!Recordable, Contract!FailureKinds, FailureKinds,
              Contract!Time, Time
<1>9. QED
  BY <1>6, <1>7, <1>8 DEF Refines, Contract!Next

(* A revive counts what it adds to the queue. *)
LEMMA StepRevive ==
    ASSUME SqlInv, engine' = engine, NEW s \in Sessions, NEW j \in JobIds, Revive(s, j)
    PROVE  SqlInv' /\ Refines
<1> DEFINE r == [rows[j] EXCEPT !.state = "ready", !.attempts = 0, !.run_at = now,
                                !.last_failure = "none", !.lease = NoLease, !.expires_at = 0]
<1>1. /\ rows[j] \in Row /\ rows[j].queue \in Queues /\ rows[j].state = "dead"
      /\ r \in Row /\ r.lease = NoLease /\ r.state = "ready" /\ r.queue = rows[j].queue
  BY RowKnown DEF Revive, Row, JobStates, SqlInv, ControlTyped
<1>2. /\ rows' = [rows EXCEPT ![j] = r] /\ rowLock[j] = NoSession
      /\ revived' = [revived EXCEPT ![rows[j].queue] = @ + 1]
      /\ issued' = issued /\ now' = now /\ Returns(s)
  BY DEF Revive, Free, Returns
<1> HIDE DEF r
<1>3. /\ RowsTyped' /\ rows'[j] = r /\ \A i \in JobIds \ {j} : rows'[i] = rows[i]
      /\ revived'[rows[j].queue] = revived[rows[j].queue] + 1
      /\ \A q \in Queues \ {rows[j].queue} : revived'[q] = revived[q]
  BY <1>1, <1>2 DEF SqlInv, RowsTyped
<1>4. /\ ControlTyped' /\ (\A u \in Sessions : SessionOK(u)')
      /\ pc'[s] = "idle"
      /\ \A u \in Sessions \ {s} : pc'[u] = pc[u] /\ call'[u] = call[u]
  BY <1>2, <1>3, Written
<1>5. LeasesConsistent'
  <2>1. /\ LeasesConsistent
        /\ \A i \in JobIds : rows[i].lease # NoLease <=> rows[i].state \in {"leased", "completed"}
    BY RowKnown DEF SqlInv
  <2>2. QED
    BY <1>1, <1>2, <1>3, <2>1, TokensKept
<1>6. DepthInv'
  <2> SUFFICES ASSUME engine = "mysql"
               PROVE  /\ \A q \in Queues : Depth(rows', q) <= QueueDepth + revived'[q]
                      /\ \A u \in Sessions : pc'[u] = "insert" =>
                            Depth(rows', call'[u].queue) < QueueDepth + revived'[call'[u].queue]
    BY DEF DepthInv
  <2>1. ASSUME NEW q \in Queues
        PROVE  /\ Depth(rows, q) \in Nat /\ Depth(rows', q) \in Nat
               /\ revived[q] \in Nat /\ revived'[q] \in Nat
               /\ Depth(rows', q) + revived[q] <= Depth(rows, q) + revived'[q]
    <3>1. revived[q] \in Nat /\ revived'[q] \in Nat
      BY <1>3 DEF SqlInv, RowsTyped
    <3>2. CASE q = rows[j].queue
      <4>1. Waiting(rows', q) \subseteq Waiting(rows, q) \cup {j}
        BY <1>3 DEF Waiting
      <4>2. QED
        BY <1>3, <3>1, <3>2, <4>1, DepthPlusOne
    <3>3. CASE q # rows[j].queue
      <4>1. Waiting(rows', q) \subseteq Waiting(rows, q)
        BY <1>1, <1>3, <3>3 DEF Waiting
      <4>2. QED
        BY <1>3, <3>1, <3>3, <4>1, DepthMonotone
    <3>4. QED
      BY <3>2, <3>3
  <2>2. \A q \in Queues : Depth(rows, q) <= QueueDepth + revived[q]
    BY DEF SqlInv, DepthInv
  <2>3. ASSUME NEW u \in Sessions, pc'[u] = "insert"
        PROVE  /\ call'[u] = call[u] /\ call[u].queue \in Queues
               /\ Depth(rows, call[u].queue) < QueueDepth + revived[call[u].queue]
    <3>1. pc[u] = "insert" /\ call'[u] = call[u] /\ SessionOK(u)
      BY <1>4, <2>3 DEF SqlInv
    <3>2. QED
      BY <3>1 DEF SessionOK, EnqueueLocals, SqlInv, DepthInv
  <2>4. QED
    BY <2>1, <2>2, <2>3, RowsAssumption
<1>7. Contract!Revive(j, now) /\ now \in Contract!Time
  BY DEF Revive, Contract!Revive, SqlInv, ControlTyped, Contract!Time, Time
<1>8. QED
  BY <1>3, <1>4, <1>5, <1>6, <1>7 DEF SqlInv, Refines, Contract!Next

(* The claiming transaction commits: the row it locked is still ready, and *)
(* the token is on no other row.                                           *)
LEMMA StepLease ==
    ASSUME SqlInv, engine' = engine, NEW s \in Sessions, NEW t \in Tokens, Lease(s, t)
    PROVE  SqlInv' /\ Refines
<1>0. /\ pc[s] = "lease" /\ SessionOK(s) /\ EndTransaction(s) /\ t \notin issued
      /\ UNCHANGED <<revived, now>>
  BY DEF Lease, SqlInv
<1>1. /\ call[s] \in LeaseLocals /\ call[s].id \in JobIds /\ rowLock[call[s].id] = s
      /\ rows[call[s].id].state = "ready" /\ rows[call[s].id].run_at <= call[s].at
  BY <1>0 DEF SessionOK, LeaseLocals
<1>2. PICK c \in LeaseLocals, j \in JobIds, end \in Nat :
         c = call[s] /\ j = c.id /\ end = c.at + c.lease
  <2>1. call[s].at + call[s].lease \in Nat
    <3>1. call[s].at \in Time /\ call[s].lease \in LeaseTimes
      BY <1>1 DEF LeaseLocals
    <3>2. call[s].at \in Nat /\ call[s].lease \in Nat
      BY <3>1, InstantsAreNat
    <3>3. QED
      BY <3>2
  <2>2. QED
    BY <1>1, <2>1, Zenon
<1> DEFINE r == [rows[j] EXCEPT !.state = "leased", !.attempts = @ + 1, !.lease = t,
                                !.expires_at = end]
<1>3. /\ r \in Row /\ r.lease = t /\ r.state = "leased" /\ r.queue = rows[j].queue
      /\ rows[j] \in Row
  <2>1. rows[j] \in Row /\ rows[j].attempts + 1 \in Nat
    BY RowKnown DEF Row
  <2>2. QED
    BY <2>1 DEF Row, JobStates
<1>4. rows' = [rows EXCEPT ![j] = r] /\ issued' = issued \cup {t}
  BY <1>1, <1>2 DEF Lease
<1>5. r = Contract!LeasedUnder(rows[j], t, end)
  BY <1>3 DEF Contract!LeasedUnder
<1> HIDE DEF r
<1>6. RowsTyped' /\ rows'[j] = r /\ \A i \in JobIds \ {j} : rows'[i] = rows[i]
  BY <1>0, <1>3, <1>4 DEF SqlInv, RowsTyped
<1>7. /\ ControlTyped' /\ (\A u \in Sessions : SessionOK(u)')
      /\ pc'[s] = "idle"
      /\ \A u \in Sessions \ {s} : pc'[u] = pc[u] /\ call'[u] = call[u]
  BY <1>0, <1>1, <1>2, <1>6, Written DEF Returns
<1>8. LeasesConsistent'
  <2>1. LeasesConsistent /\ t # NoLease
    BY RowsAssumption DEF SqlInv
  <2>2. \A i \in JobIds : rows[i].lease \in issued \cup {NoLease}
    BY RowKnown
  <2>3. QED
    BY <1>0, <1>3, <1>4, <1>6, <2>1, <2>2
    DEF LeasesConsistent, Contract!LeasesSettleOneJob, Contract!LeaseWhileHeld,
        Contract!LeaseNamesOneJob
<1>9. DepthInv'
  BY <1>0, <1>1, <1>2, <1>3, <1>6, <1>7, DepthKept
<1>10. Contract!Claim(rows[j].queue, {}, j, t, c.lease, c.at)
  <2>1. Contract!AfterReclaim({}) = rows
    BY DEF Contract!AfterReclaim, SqlInv, RowsTyped
  <2>2. QED
    BY <1>0, <1>1, <1>2, <1>4, <1>5, <2>1 DEF Contract!Claim
<1>11. QED
  <2>1. rows[j].queue \in Queues /\ c.lease \in LeaseTimes /\ c.at \in Contract!Time
    BY <1>2, <1>3 DEF Row, LeaseLocals, Contract!Time, Time
  <2>2. QED
    BY <1>6, <1>7, <1>8, <1>9, <1>10, <2>1 DEF SqlInv, Refines, Contract!Next

(* The insert makes the admitted job: the holder of the queue's lock is the*)
(* only one with room counted in it.                                       *)
LEMMA StepInsert ==
    ASSUME SqlInv, engine' = engine, NEW s \in Sessions, NEW j \in JobIds, Insert(s, j)
    PROVE  SqlInv' /\ Refines
<1>0. /\ pc[s] = "insert" /\ SessionOK(s) /\ EndTransaction(s) /\ rows[j].state = "absent"
      /\ UNCHANGED <<issued, revived, now>>
  BY DEF Insert, SqlInv
<1>1. PICK c \in EnqueueLocals : c = call[s]
  BY <1>0 DEF SessionOK
<1>2. /\ c.queue \in Queues /\ c.key \in Keys \cup {NoKey} /\ c.limit \in Limits
      /\ c.run_at \in Time /\ queueLock[c.queue] = s
  BY <1>0, <1>1 DEF SessionOK, EnqueueLocals
<1>3. CASE Holders(rows, c.queue, c.key) # {}
  <2>1. rows' = rows
    BY <1>1, <1>3 DEF Insert
  <2>2. QED
    BY <1>0, <2>1, StepEnded
<1>4. CASE Holders(rows, c.queue, c.key) = {}
  <2> DEFINE r == [Absent EXCEPT !.queue = c.queue, !.key = c.key, !.state = "ready",
                                 !.max_attempts = c.limit, !.run_at = c.run_at]
  <2>1. rows' = [rows EXCEPT ![j] = r]
    BY <1>1, <1>4 DEF Insert
  <2>2. /\ r \in Row /\ r.lease = NoLease /\ r.state = "ready" /\ r.queue = c.queue
        /\ r = Contract!NewReady(c.queue, c.key, c.limit, c.run_at)
    <3>1. /\ r \in Row /\ r.state = "ready" /\ r.queue = c.queue /\ r.key = c.key
          /\ r.max_attempts = c.limit /\ r.run_at = c.run_at /\ r.attempts = Absent.attempts
          /\ r.last_failure = Absent.last_failure /\ r.lease = Absent.lease
          /\ r.expires_at = Absent.expires_at
      BY <1>2, AbsentIsRow, RowsAssumption DEF Row, JobStates
    <3>2. Contract!NewReady(c.queue, c.key, c.limit, c.run_at) \in Row
      BY <1>2, RowsAssumption DEF Row, JobStates, Contract!NewReady
    <3> HIDE DEF r
    <3>3. r = Contract!NewReady(c.queue, c.key, c.limit, c.run_at)
      BY <3>1, <3>2, RowsEqual DEF Absent, Contract!NewReady
    <3>4. QED
      BY <3>1, <3>3 DEF Absent
  <2> HIDE DEF r
  <2>3. RowsTyped' /\ rows'[j] = r /\ \A i \in JobIds \ {j} : rows'[i] = rows[i]
    BY <1>0, <2>1, <2>2 DEF SqlInv, RowsTyped
  <2>4. /\ ControlTyped' /\ (\A u \in Sessions : SessionOK(u)')
        /\ pc'[s] = "idle"
        /\ \A u \in Sessions \ {s} : pc'[u] = pc[u] /\ call'[u] = call[u]
    BY <1>0, <2>3, Written DEF Returns
  <2>5. LeasesConsistent'
    <3>1. /\ LeasesConsistent
          /\ \A i \in JobIds : rows[i].lease # NoLease <=> rows[i].state \in {"leased", "completed"}
      BY RowKnown DEF SqlInv
    <3>2. QED
      BY <1>0, <2>2, <2>3, <3>1, TokensKept
  <2>6. SqlInv' /\ (engine = "mysql" => Depth(rows, c.queue) < QueueDepth + revived[c.queue])
    <3> SUFFICES ASSUME engine = "mysql"
                 PROVE  /\ \A q \in Queues : Depth(rows', q) <= QueueDepth + revived'[q]
                        /\ \A u \in Sessions : pc'[u] = "insert" =>
                              Depth(rows', call'[u].queue) < QueueDepth + revived'[call'[u].queue]
                        /\ Depth(rows, c.queue) < QueueDepth + revived[c.queue]
      BY <2>3, <2>4, <2>5 DEF SqlInv, DepthInv
    <3>1. \A q \in Queues : revived[q] \in Nat /\ Depth(rows, q) <= QueueDepth + revived[q]
      BY DEF SqlInv, RowsTyped, DepthInv
    <3>2. Depth(rows, c.queue) < QueueDepth + revived[c.queue]
      BY <1>0, <1>1 DEF SqlInv, DepthInv
    <3>3. /\ Depth(rows, c.queue) \in Nat /\ Depth(rows', c.queue) \in Nat
          /\ Depth(rows', c.queue) <= Depth(rows, c.queue) + 1
      <4>1. Waiting(rows', c.queue) \subseteq Waiting(rows, c.queue) \cup {j}
        BY <2>3 DEF Waiting
      <4>2. QED
        BY <4>1, DepthPlusOne
    <3>4. ASSUME NEW q \in Queues \ {c.queue}
          PROVE  /\ Depth(rows, q) \in Nat /\ Depth(rows', q) \in Nat
                 /\ Depth(rows', q) <= Depth(rows, q)
      <4>1. Waiting(rows', q) \subseteq Waiting(rows, q)
        BY <2>2, <2>3 DEF Waiting
      <4>2. QED
        BY <4>1, DepthMonotone
    <3>5. ASSUME NEW u \in Sessions, pc'[u] = "insert"
          PROVE  /\ call'[u] = call[u] /\ call[u].queue \in Queues \ {c.queue}
                 /\ Depth(rows, call[u].queue) < QueueDepth + revived[call[u].queue]
      <4>1. u # s /\ pc[u] = "insert" /\ call'[u] = call[u] /\ SessionOK(u)
        BY <2>4, <3>5 DEF SqlInv
      <4>2. QED
        BY <1>2, <4>1 DEF SessionOK, EnqueueLocals, SqlInv, DepthInv
    <3>6. revived' = revived
      BY <1>0
    <3>7. QED
      BY <1>2, <3>1, <3>2, <3>3, <3>4, <3>5, <3>6, RowsAssumption
  <2>7. Contract!Holders(rows, c.queue, c.key) = {}
    BY <1>4 DEF Holders, Contract!Holders
  <2>8. Contract!Depth(rows, c.queue) = Depth(rows, c.queue)
    BY DEF Depth, Waiting, Contract!Depth, Contract!Waiting, Cardinality, Contract!Cardinality
  <2>9. engine = "mysql" => Contract!Enqueue(j, c.queue, c.key, c.limit, c.run_at)
    BY <1>0, <2>1, <2>2, <2>6, <2>7, <2>8 DEF Contract!Enqueue
  <2>10. QED
    BY <1>2, <2>6, <2>9 DEF Refines, Contract!Next, Contract!Time, Time
<1>5. QED
  BY <1>3, <1>4

------------------------------------------------------------------------------
(* The two reclaims *)

(* A reclaim takes the token of the rows it writes, and moves no row to    *)
(* another queue.                                                          *)
LEMMA ReclaimedRows ==
    ASSUME RowsTyped, NEW S \in SUBSET JobIds
    PROVE  /\ AfterReclaim(S) \in [JobIds -> Row]
           /\ \A i \in S : /\ AfterReclaim(S)[i].lease = NoLease
                           /\ AfterReclaim(S)[i].state \in {"ready", "dead"}
                           /\ AfterReclaim(S)[i].queue = rows[i].queue
           /\ \A i \in JobIds \ S : AfterReclaim(S)[i] = rows[i]
<1>1. ASSUME NEW i \in JobIds
      PROVE  /\ Reclaimed(rows[i]) \in Row /\ Reclaimed(rows[i]).lease = NoLease
             /\ Reclaimed(rows[i]).state \in {"ready", "dead"}
             /\ Reclaimed(rows[i]).queue = rows[i].queue
  <2>1. rows[i] \in Row
    BY DEF RowsTyped
  <2>2. QED
    BY <2>1 DEF Reclaimed, Row, JobStates, FailureKinds
<1>2. QED
  BY <1>1 DEF AfterReclaim, RowsTyped

(* Either reclaim, of rows nobody else has locked, keeps the invariant; the*)
(* one of MySQL writes none but leased rows.                               *)
LEMMA Reclaiming ==
    ASSUME SqlInv, engine' = engine, NEW s \in Sessions, NEW S \in SUBSET JobIds,
           NEW c \in SelectLocals, Goto(s, "select", c), rows' = AfterReclaim(S),
           UNCHANGED <<issued, revived, now, rowLock, queueLock>>,
           \A j \in S : Free(j),
           engine = "mysql" => \A j \in S : rows[j].state = "leased"
    PROVE  SqlInv'
<1>1. /\ pc' \in [Sessions -> Labels] /\ call' \in [Sessions -> Locals]
      /\ pc'[s] = "select" /\ call'[s] = c
      /\ \A u \in Sessions \ {s} : pc'[u] = pc[u] /\ call'[u] = call[u]
  BY Moved DEF SqlInv, Labels, Locals
<1>2. /\ RowsTyped'
      /\ \A i \in S : /\ rows'[i].lease = NoLease
                      /\ rows'[i].state \in {"ready", "dead"}
                      /\ rows'[i].queue = rows[i].queue
      /\ \A i \in JobIds \ S : rows'[i] = rows[i]
  BY ReclaimedRows DEF SqlInv, RowsTyped
<1>3. ControlTyped'
  BY <1>1 DEF SqlInv, ControlTyped
<1>4. \A u \in Sessions : SessionOK(u)'
  <2>1. \A u \in Sessions \ {s} : SessionOK(u)'
    BY <1>1, <1>2, OthersUndisturbed, EngineAssumption DEF Free
  <2>2. SessionOK(s)'
    BY <1>1 DEF SessionOK
  <2>3. QED
    BY <2>1, <2>2
<1>5. LeasesConsistent'
  <2>1. /\ LeasesConsistent
        /\ \A i \in JobIds : rows[i].lease # NoLease <=> rows[i].state \in {"leased", "completed"}
    BY RowKnown DEF SqlInv
  <2>2. \A i \in JobIds :
           /\ rows'[i].lease # NoLease <=> rows'[i].state \in {"leased", "completed"}
           /\ rows'[i].lease \in {rows[i].lease, NoLease}
    BY <1>2, <2>1
  <2>3. QED
    BY <2>1, <2>2, TokensKept
<1>6. DepthInv'
  BY <1>1, <1>2, DepthKept
<1>7. QED
  BY <1>2, <1>3, <1>4, <1>5, <1>6 DEF SqlInv

LEMMA StepReclaimMySql ==
    ASSUME SqlInv, engine' = engine, NEW s \in Sessions, NEW q \in Queues, NEW d \in LeaseTimes,
           ReclaimMySql(s, q, d)
    PROVE  SqlInv' /\ Refines
<1>1. PICK S \in Batches(q, now) : (\A j \in S : Free(j)) /\ rows' = AfterReclaim(S)
  BY DEF ReclaimMySql
<1>2. S \in SUBSET JobIds /\ S \subseteq Expired(q, now) /\ \A j \in S : rows[j].state = "leased"
  BY DEF Batches, Expired
<1>3. PICK c \in SelectLocals : Goto(s, "select", c)
  <2>1. [at |-> now, queue |-> q, lease |-> d] \in SelectLocals
    BY DEF SqlInv, ControlTyped, SelectLocals
  <2>2. QED
    BY <2>1 DEF ReclaimMySql
<1>4. SqlInv'
  BY <1>1, <1>2, <1>3, Reclaiming DEF ReclaimMySql
<1>5. Contract!Reclaim(q, S, now)
  <2>1. Contract!Expired(q, now) = Expired(q, now)
    BY DEF Expired, Contract!Expired
  <2>2. AfterReclaim(S) = Contract!AfterReclaim(S)
    BY DEF AfterReclaim, Contract!AfterReclaim, Reclaimed, Contract!Returned
  <2>3. QED
    BY <1>1, <1>2, <2>1, <2>2 DEF Contract!Reclaim, ReclaimMySql
<1>6. now \in Contract!Time
  BY DEF SqlInv, ControlTyped, Contract!Time, Time
<1>7. QED
  BY <1>2, <1>4, <1>5, <1>6 DEF Refines, Contract!Next

LEMMA StepReclaimPostgres ==
    ASSUME SqlInv, engine' = engine, NEW s \in Sessions, ReclaimPostgres(s)
    PROVE  SqlInv' /\ Refines
<1>1. /\ pc[s] = "reclaim" /\ SessionOK(s) /\ call[s] \in ReclaimLocals /\ engine = "postgres"
      /\ call[s].ids \in SUBSET JobIds
  BY DEF ReclaimPostgres, SqlInv, SessionOK, ReclaimLocals
<1>2. PICK c \in SelectLocals : Goto(s, "select", c)
  <2>1. [at |-> call[s].at, queue |-> call[s].queue, lease |-> call[s].lease] \in SelectLocals
    BY <1>1 DEF ReclaimLocals, SelectLocals
  <2>2. QED
    BY <2>1 DEF ReclaimPostgres
<1>3. SqlInv'
  BY <1>1, <1>2, Reclaiming DEF ReclaimPostgres
<1>4. QED
  BY <1>1, <1>3 DEF Refines

------------------------------------------------------------------------------
(* All statements *)

LEMMA InitSql == Init => SqlInv /\ Contract!Init
<1> SUFFICES ASSUME Init PROVE SqlInv /\ Contract!Init
  OBVIOUS
<1>1. RowsTyped
  BY AbsentIsRow DEF Init, RowsTyped
<1>2. ControlTyped /\ \A s \in Sessions : SessionOK(s)
  BY InstantsAreNat DEF Init, ControlTyped, SessionOK, Labels, Locals
<1>3. LeasesConsistent
  BY DEF Init, Absent, LeasesConsistent, Contract!LeasesSettleOneJob, Contract!LeaseWhileHeld,
         Contract!LeaseNamesOneJob
<1>4. DepthInv
  <2>1. \A q \in Queues : Waiting(rows, q) = {}
    BY DEF Init, Waiting, Absent
  <2>2. \A q \in Queues : Depth(rows, q) = 0 /\ revived[q] = 0
    BY <2>1, FS_EmptySet DEF Depth, Init
  <2>3. \A s \in Sessions : pc[s] # "insert"
    BY DEF Init
  <2>4. QED
    BY <2>2, <2>3, RowsAssumption DEF DepthInv
<1>5. Contract!Init
  BY DEF Init, Contract!Init, Absent, Contract!Absent
<1>6. QED
  BY <1>1, <1>2, <1>3, <1>4, <1>5 DEF SqlInv

LEMMA StepSql == SqlInv /\ [Next]_vars => SqlInv' /\ Refines
<1> SUFFICES ASSUME SqlInv, [Next]_vars PROVE SqlInv' /\ Refines
  OBVIOUS
<1>1. CASE UNCHANGED vars
  <2>1. SqlInv'
    BY <1>1 DEF vars, SqlInv, RowsTyped, ControlTyped, SessionOK, LeasesConsistent,
                Contract!LeasesSettleOneJob, Contract!LeaseWhileHeld,
                Contract!LeaseNamesOneJob, DepthInv
  <2>2. QED
    BY <1>1, <2>1 DEF vars, Refines
<1>2. CASE Next
  <2>0. engine' = engine
    BY <1>2 DEF Next
  <2>1. ASSUME NEW s \in Sessions, NEW q \in Queues, NEW k \in Keys \cup {NoKey},
               NEW m \in Limits, NEW at \in now .. MaxTime, LockQueue(s, q, k, m, at)
        PROVE  SqlInv' /\ Refines
    BY <2>0, <2>1, StepLockQueue
  <2>2. ASSUME NEW s \in Sessions,
               CountAdmits(s) \/ CountRefuses(s) \/ \E j \in JobIds : Insert(s, j)
        PROVE  SqlInv' /\ Refines
    BY <2>0, <2>2, StepCountAdmits, StepEnded, StepInsert DEF CountRefuses
  <2>3. ASSUME NEW s \in Sessions, NEW q \in Queues, NEW d \in LeaseTimes,
               ReclaimMySql(s, q, d) \/ ReclaimSelect(s, q, d)
        PROVE  SqlInv' /\ Refines
    BY <2>0, <2>3, StepReclaimMySql, StepReclaimSelect
  <2>4. ASSUME NEW s \in Sessions, ReclaimPostgres(s) \/ SelectNothing(s)
        PROVE  SqlInv' /\ Refines
    BY <2>0, <2>4, StepReclaimPostgres, StepEnded DEF SelectNothing
  <2>5. ASSUME NEW s \in Sessions, NEW j \in JobIds, SelectForUpdate(s, j) \/ Revive(s, j)
        PROVE  SqlInv' /\ Refines
    BY <2>0, <2>5, StepSelectForUpdate, StepRevive
  <2>6. ASSUME NEW s \in Sessions, NEW t \in Tokens, Lease(s, t) \/ Complete(s, t) \/ Release(s, t)
        PROVE  SqlInv' /\ Refines
    BY <2>0, <2>6, StepLease, StepComplete, StepRelease
  <2>7. ASSUME NEW s \in Sessions, NEW t \in Tokens, NEW f \in FailureKinds \ {"lease_expired"},
               NEW next \in now .. MaxTime, FailSelect(s, t, f, next)
        PROVE  SqlInv' /\ Refines
    BY <2>0, <2>7, StepFailSelect
  <2>8. ASSUME NEW s \in Sessions, FailUpdate(s) \/ Abandon(s)
        PROVE  SqlInv' /\ Refines
    BY <2>0, <2>8, StepFailUpdate, StepEnded DEF Abandon
  <2>9. CASE Tick
    BY <2>0, <2>9, StepTick
  <2>10. QED
    BY <1>2, <2>1, <2>2, <2>3, <2>4, <2>5, <2>6, <2>7, <2>8, <2>9 DEF Next, Statement
<1>3. QED
  BY <1>1, <1>2

------------------------------------------------------------------------------

(* What claim and fail read under a row's lock is still so when they write *)
(* (jobs.rs, claim and fail), whatever other sessions do in between.       *)
THEOREM SqlReadsHold == Spec => []ReadsHold
<1>1. SqlInv => ReadsHold
  BY DEF SqlInv, SessionOK, ReadsHold
<1>2. QED
  BY InitSql, StepSql, <1>1, PTL DEF Spec

(* A row has a token exactly while it is leased or completed, and no token *)
(* is on two rows, on either engine and however old the identifiers are    *)
(* that PostgreSQL's reclaim writes (jobs.rs, reclaim_expired).            *)
THEOREM SqlLeasesConsistent == Spec => []LeasesConsistent
<1>1. SqlInv => LeasesConsistent
  BY DEF SqlInv
<1>2. QED
  BY InitSql, StepSql, <1>1, PTL DEF Spec

(* On MySQL a queue holds no more than its bound and the jobs revived into *)
(* it (jobs.rs, enqueue): the count and the insert are one critical section*)
(* of the queue's row.                                                     *)
THEOREM SqlDepthBounded == Spec => []DepthBound
<1>1. SqlInv => DepthBound
  BY DEF SqlInv, DepthInv, DepthBound
<1>2. QED
  BY InitSql, StepSql, <1>1, PTL DEF Spec

(* On MySQL the statements of all sessions, in any order, add up to calls  *)
(* of the port, each taking effect at once (store.rs, JobStore).           *)
THEOREM SqlImplementsContract == Spec => ImplementsContract
<1>1. SqlInv /\ [Next]_vars => [engine = "mysql" => Contract!Next]_<<rows, issued, revived>>
  BY StepSql DEF Refines
<1>2. QED
  BY InitSql, StepSql, <1>1, PTL DEF Spec, ImplementsContract
==============================================================================

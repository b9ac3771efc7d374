-------------------------- MODULE MemoryStoreProofs --------------------------
(***************************************************************************)
(* What the memory store keeps for any number of jobs, queues, keys and    *)
(* tokens: its three maps agree, and each of its calls is a call of the    *)
(* port.  The second needs the first: a key that is not in the key index   *)
(* is held by no row (enqueue), and an entry of the claim index is the     *)
(* entry of a ready row (claim).                                           *)
(***************************************************************************)
EXTENDS MemoryJobStore, FiniteSetTheorems, TLAPS

(* The two indexes of a table. *)
ReadyIndex(table) ==
    {<<table[j].run_at, j>> : j \in {i \in JobIds : table[i].state = "ready"}}

KeyIndex(table) ==
    {<<table[j].queue, table[j].key, j>> :
        j \in {i \in JobIds : table[i].state # "absent" /\ table[i].key # NoKey}}

StoreTypeOK ==
    /\ rows \in [JobIds -> Row]
    /\ issued \in SUBSET Tokens
    /\ revived \in [Queues -> Nat]
    /\ now \in Time

StoreInv == StoreTypeOK /\ IndexesExact

------------------------------------------------------------------------------
(* Tables and their indexes *)

(* The row of an identifier nobody drew is a row. *)
LEMMA AbsentIsRow == Absent \in Row
  BY RowsAssumption DEF Absent, Row, JobStates, Time

(* Two rows with the same fields are one. *)
LEMMA RowsEqual ==
    ASSUME NEW a \in Row, NEW b \in Row,
           a.queue = b.queue, a.key = b.key, a.state = b.state, a.attempts = b.attempts,
           a.max_attempts = b.max_attempts, a.run_at = b.run_at,
           a.last_failure = b.last_failure, a.lease = b.lease, a.expires_at = b.expires_at
    PROVE  a = b
  BY DEF Row

(* What enqueue inserts. *)
Inserted(q, k, m, at) ==
    [Absent EXCEPT !.queue = q, !.key = k, !.state = "ready", !.max_attempts = m, !.run_at = at]

(* A new row is a row, and is what the port makes.                         *)
LEMMA NewRow ==
    ASSUME NEW q \in Queues, NEW k \in Keys \cup {NoKey}, NEW m \in Limits, NEW at \in Time
    PROVE  LET r == Inserted(q, k, m, at)
           IN  /\ r \in Row
               /\ r = Contract!NewReady(q, k, m, at)
               /\ r.queue = q /\ r.key = k /\ r.state = "ready" /\ r.run_at = at
<1> DEFINE r == Inserted(q, k, m, at)
<1>1. /\ r \in Row
      /\ r.queue = q /\ r.key = k /\ r.state = "ready" /\ r.run_at = at
      /\ r.max_attempts = m /\ r.attempts = Absent.attempts
      /\ r.last_failure = Absent.last_failure /\ r.lease = Absent.lease
      /\ r.expires_at = Absent.expires_at
  BY AbsentIsRow, RowsAssumption DEF Inserted, Row, JobStates
<1>2. Contract!NewReady(q, k, m, at) \in Row
  BY RowsAssumption DEF Row, JobStates, Contract!NewReady
<1> HIDE DEF r
<1>3. r = Contract!NewReady(q, k, m, at)
  BY <1>1, <1>2, RowsEqual DEF Absent, Contract!NewReady
<1>4. QED
  BY <1>1, <1>3 DEF r

(* One row written: its entry is replaced, the others stay.                *)
LEMMA ReadyWritten ==
    ASSUME NEW table \in [JobIds -> Row], NEW j \in JobIds, NEW r \in Row
    PROVE  ReadyIndex([table EXCEPT ![j] = r]) =
              {e \in ReadyIndex(table) : e[2] # j}
              \cup {e \in {<<r.run_at, j>>} : r.state = "ready"}
  BY DEF ReadyIndex

(* The keys stay as they are when a row that exists keeps its own.         *)
LEMMA KeysKept ==
    ASSUME NEW table \in [JobIds -> Row], NEW new \in [JobIds -> Row],
           \A j \in JobIds : /\ new[j].queue = table[j].queue
                             /\ new[j].key = table[j].key
                             /\ new[j].state = "absent" <=> table[j].state = "absent"
    PROVE  KeyIndex(new) = KeyIndex(table)
  BY DEF KeyIndex

(* What reclaim_expired makes of a row is what the port makes of it.       *)
LEMMA ReclaimedRow ==
    ASSUME StoreTypeOK, NEW q \in Queues, NEW S \in Batches(q), NEW j \in JobIds
    PROVE  /\ ReclaimedRows(S)[j] \in Row
           /\ ReclaimedRows(S)[j] = Contract!AfterReclaim(S)[j]
           /\ j \notin S => ReclaimedRows(S)[j] = rows[j]
           /\ j \in S =>
                 /\ rows[j].state = "leased"
                 /\ ReclaimedRows(S)[j].run_at = rows[j].run_at
                 /\ ReclaimedRows(S)[j].state = IF LastAttempt(rows[j]) THEN "dead" ELSE "ready"
           /\ ReclaimedRows(S)[j].queue = rows[j].queue
           /\ ReclaimedRows(S)[j].key = rows[j].key
<1>1. rows[j] \in Row
  BY DEF StoreTypeOK
<1>2. CASE j \notin S
  BY <1>1, <1>2 DEF ReclaimedRows, Contract!AfterReclaim
<1>3. CASE j \in S
  <2>1. rows[j].state = "leased"
    BY <1>3 DEF Batches, Expired
  <2>2. ReclaimedRows(S)[j] = [rows[j] EXCEPT !.last_failure = "lease_expired",
                             !.lease = NoLease,
                             !.expires_at = 0,
                             !.state = IF LastAttempt(rows[j]) THEN "dead" ELSE "ready"]
    BY <1>3 DEF ReclaimedRows
  <2>3. Contract!AfterReclaim(S)[j] = Contract!Returned(rows[j])
    BY <1>3 DEF Contract!AfterReclaim
  <2>4. ReclaimedRows(S)[j] = Contract!Returned(rows[j])
    BY <1>1, <2>2 DEF LastAttempt, Contract!Returned, Row
  <2>5. Contract!Returned(rows[j]) \in Row
    BY <1>1 DEF Contract!Returned, Row, JobStates, FailureKinds
  <2>6. /\ Contract!Returned(rows[j]).queue = rows[j].queue
        /\ Contract!Returned(rows[j]).key = rows[j].key
        /\ Contract!Returned(rows[j]).run_at = rows[j].run_at
        /\ Contract!Returned(rows[j]).state = IF LastAttempt(rows[j]) THEN "dead" ELSE "ready"
    BY <1>1 DEF LastAttempt, Contract!Returned, Row
  <2>7. QED
    BY <1>3, <2>1, <2>3, <2>4, <2>5, <2>6
<1>4. QED
  BY <1>2, <1>3

(* reclaim_expired is the port's reclaim, and keeps both indexes.          *)
LEMMA ReclaimedTable ==
    ASSUME StoreInv, NEW q \in Queues, NEW S \in Batches(q)
    PROVE  /\ ReclaimedRows(S) \in [JobIds -> Row]
           /\ ReclaimedRows(S) = Contract!AfterReclaim(S)
           /\ S \in SUBSET Contract!Expired(q, now)
           /\ ReadyIndex(ReclaimedRows(S)) = ReclaimedReady(S)
           /\ KeyIndex(ReclaimedRows(S)) = keys
<1>0. StoreTypeOK /\ ready = ReadyIndex(rows) /\ keys = KeyIndex(rows)
  BY DEF StoreInv, IndexesExact, ReadyIndex, KeyIndex
<1>1. ReclaimedRows(S) \in [JobIds -> Row]
  BY <1>0, ReclaimedRow DEF ReclaimedRows
<1>2. ReclaimedRows(S) = Contract!AfterReclaim(S)
  <2>1. \A j \in JobIds : ReclaimedRows(S)[j] = Contract!AfterReclaim(S)[j]
    BY <1>0, ReclaimedRow
  <2>2. /\ ReclaimedRows(S) = [j \in JobIds |-> ReclaimedRows(S)[j]]
        /\ Contract!AfterReclaim(S) = [j \in JobIds |-> Contract!AfterReclaim(S)[j]]
    BY DEF ReclaimedRows, Contract!AfterReclaim
  <2>3. QED
    BY <2>1, <2>2
<1>3. S \in SUBSET Contract!Expired(q, now) /\ S \in SUBSET JobIds
  BY DEF Batches, Expired, Contract!Expired
<1>4. KeyIndex(ReclaimedRows(S)) = keys
  BY <1>0, <1>1, ReclaimedRow, KeysKept DEF StoreTypeOK
<1>5. ReadyIndex(ReclaimedRows(S)) = ReclaimedReady(S)
  BY <1>0, <1>3, ReclaimedRow DEF ReadyIndex, ReclaimedReady
<1>6. QED
  BY <1>1, <1>2, <1>3, <1>4, <1>5

(* A table whose row j is leased. *)
Leasing(table, j, t, expires) ==
    [table EXCEPT ![j].state = "leased", ![j].attempts = @ + 1, ![j].lease = t,
                  ![j].expires_at = expires]

(* It is the table with the row the port leases.                           *)
LEMMA ClaimedRow ==
    ASSUME NEW table \in [JobIds -> Row], NEW j \in JobIds, NEW t \in Tokens,
           NEW end \in Nat
    PROVE  LET r == Contract!LeasedUnder(table[j], t, end)
           IN  /\ Leasing(table, j, t, end) = [table EXCEPT ![j] = r]
               /\ r \in Row /\ r.state = "leased"
               /\ r.queue = table[j].queue /\ r.key = table[j].key
<1>1. table[j] \in Row /\ table[j].attempts + 1 \in Nat
  BY DEF Row
<1>2. QED
  BY <1>1 DEF Leasing, Contract!LeasedUnder, Row, JobStates

------------------------------------------------------------------------------
(* One step *)

(* The initial store. *)
LEMMA InitStore == Init => StoreInv /\ Contract!Init
<1> SUFFICES ASSUME Init PROVE StoreInv /\ Contract!Init
  OBVIOUS
<1>1. rows \in [JobIds -> Row] /\ \A j \in JobIds : rows[j].state = "absent"
  BY AbsentIsRow DEF Init, Absent
<1>2. StoreInv
  BY <1>1 DEF Init, StoreInv, StoreTypeOK, IndexesExact
<1>3. Contract!Init
  BY DEF Init, Contract!Init, Absent, Contract!Absent
<1>4. QED
  BY <1>2, <1>3

(* One row of a table is replaced by another that keeps its queue and key: *)
(* the key index needs no change, the claim index loses the old entry and  *)
(* gains the new one if the job is ready.                                  *)
LEMMA OneRowWritten ==
    ASSUME NEW table \in [JobIds -> Row], NEW j \in JobIds, NEW r \in Row,
           table[j].state # "absent", r.state # "absent",
           r.queue = table[j].queue, r.key = table[j].key,
           rows' = [table EXCEPT ![j] = r],
           keys' = KeyIndex(table),
           ready' = {e \in ReadyIndex(table) : e[2] # j}
                    \cup {e \in {<<r.run_at, j>>} : r.state = "ready"}
    PROVE  IndexesExact' /\ rows' \in [JobIds -> Row]
<1>1. rows' \in [JobIds -> Row] /\ rows'[j] = r /\ \A i \in JobIds \ {j} : rows'[i] = table[i]
  OBVIOUS
<1>2. ready' = ReadyIndex(rows')
  BY ReadyWritten
<1>3. \A i \in JobIds : /\ rows'[i].queue = table[i].queue
                        /\ rows'[i].key = table[i].key
                        /\ rows'[i].state = "absent" <=> table[i].state = "absent"
  BY <1>1
<1>4. keys' = KeyIndex(rows')
  BY <1>1, <1>3, KeysKept
<1>5. QED
  BY <1>1, <1>2, <1>4 DEF IndexesExact, ReadyIndex, KeyIndex

(* Every call keeps the indexes exact, and is a call of the port or leaves *)
(* the port's state alone (the clock).                                     *)
LEMMA StepStore == StoreInv /\ [Next]_vars => StoreInv' /\ [Contract!Next]_(Contract!vars)
<1> SUFFICES ASSUME StoreInv, [Next]_vars PROVE StoreInv' /\ [Contract!Next]_(Contract!vars)
  OBVIOUS
<1> USE RowsAssumption
<1>0. /\ StoreTypeOK /\ IndexesExact
      /\ ready = ReadyIndex(rows) /\ keys = KeyIndex(rows)
      /\ rows \in [JobIds -> Row] /\ \A i \in JobIds : rows[i] \in Row
  BY DEF StoreInv, StoreTypeOK, IndexesExact, ReadyIndex, KeyIndex
<1>1. ASSUME NEW j \in JobIds, NEW q \in Queues, NEW k \in Keys \cup {NoKey},
             NEW m \in Limits, NEW at \in Time, Enqueue(j, q, k, m, at)
      PROVE  StoreInv' /\ Contract!Next
  <2> DEFINE r == Inserted(q, k, m, at)
  <2>1. /\ r \in Row /\ r = Contract!NewReady(q, k, m, at)
        /\ r.queue = q /\ r.key = k /\ r.state = "ready" /\ r.run_at = at
    BY NewRow
  <2> HIDE DEF r
  <2>2. /\ rows' = [rows EXCEPT ![j] = r]
        /\ rows[j].state = "absent"
        /\ keys' = IF k = NoKey THEN keys ELSE keys \cup {<<q, k, j>>}
        /\ ready' = ready \cup {<<at, j>>}
        /\ issued' = issued /\ revived' = revived /\ now' = now
    BY <1>1 DEF Enqueue, Inserted, r
  <2>3. /\ rows' \in [JobIds -> Row] /\ rows'[j] = r
        /\ \A i \in JobIds \ {j} : rows'[i] = rows[i]
    BY <1>0, <2>1, <2>2
  <2>4. ready' = ReadyIndex(rows')
    BY <1>0, <2>1, <2>2, <2>3 DEF ReadyIndex
  <2>5. keys' = KeyIndex(rows')
    BY <1>0, <2>1, <2>2, <2>3 DEF KeyIndex
  <2>6. StoreInv'
    BY <1>0, <2>2, <2>3, <2>4, <2>5 DEF StoreInv, StoreTypeOK, IndexesExact, ReadyIndex, KeyIndex
  <2>7. Contract!Holders(rows, q, k) = {}
    <3> SUFFICES ASSUME NEW i \in Contract!Holders(rows, q, k) PROVE FALSE
      OBVIOUS
    <3>1. <<rows[i].queue, rows[i].key, i>> \in keys /\ rows[i].queue = q /\ rows[i].key = k
      BY <1>0 DEF KeyIndex, Contract!Holders
    <3>2. \A e \in keys : <<e[1], e[2]>> # <<q, k>>
      BY <1>1 DEF Enqueue
    <3>3. QED
      BY <3>1, <3>2
  <2>8. Contract!Depth(rows, q) < QueueDepth + revived[q]
    <3>1. Contract!Depth(rows, q) = Depth(rows, q)
      BY DEF Depth, Waiting, Contract!Depth, Contract!Waiting, Cardinality, Contract!Cardinality
    <3>2. Depth(rows, q) \in Nat
      <4>1. IsFiniteSet(Waiting(rows, q))
        BY FS_Subset DEF Waiting
      <4>2. QED
        BY <4>1, FS_CardinalityType DEF Depth
    <3>3. revived[q] \in Nat /\ Depth(rows, q) < QueueDepth
      BY <1>0, <1>1 DEF StoreTypeOK, Enqueue
    <3>4. QED
      BY <3>1, <3>2, <3>3
  <2>9. Contract!Enqueue(j, q, k, m, at)
    BY <2>1, <2>2, <2>7, <2>8 DEF Contract!Enqueue
  <2>10. QED
    BY <2>6, <2>9 DEF Contract!Next, Contract!Time, Time
<1>2. ASSUME NEW q \in Queues, NEW S \in SUBSET JobIds, NEW e \in Time \X JobIds,
             NEW t \in Tokens, NEW d \in LeaseTimes, Claim(q, S, e, t, d)
      PROVE  StoreInv' /\ Contract!Next
  <2>1. /\ S \in Batches(q) /\ t \notin issued
        /\ e \in Due(ReclaimedReady(S), ReclaimedRows(S), q)
        /\ ready' = ReclaimedReady(S) \ {e}
        /\ rows' = Leasing(ReclaimedRows(S), e[2], t, now + d)
        /\ issued' = issued \cup {t}
        /\ keys' = keys /\ revived' = revived /\ now' = now
    BY <1>2 DEF Claim, First, Leasing
  <2>2. PICK table \in [JobIds -> Row] :
           /\ table = ReclaimedRows(S)
           /\ table = Contract!AfterReclaim(S)
           /\ S \in SUBSET Contract!Expired(q, now)
           /\ ReadyIndex(table) = ReclaimedReady(S)
           /\ KeyIndex(table) = keys
    BY <2>1, ReclaimedTable
  <2>3. PICK j \in JobIds : j = e[2] /\ e = <<e[1], j>>
    <3>1. e[2] \in JobIds /\ e = <<e[1], e[2]>>
      OBVIOUS
    <3>2. QED
      BY <3>1, Zenon
  <2>0. PICK end \in Nat : end = now + d
    BY <1>0 DEF StoreTypeOK, Time
  <2> DEFINE r == Contract!LeasedUnder(table[j], t, end)
  <2>4. /\ e[1] <= now /\ table[j].queue = q /\ table[j].state = "ready"
        /\ e \in ReadyIndex(table)
    BY <2>1, <2>2, <2>3 DEF Due
  <2>5. table[j].run_at = e[1]
    BY <2>2, <2>3, <2>4 DEF ReadyIndex
  <2>6. /\ rows' = [table EXCEPT ![j] = r]
        /\ r \in Row /\ r.state = "leased"
        /\ r.queue = table[j].queue /\ r.key = table[j].key
    <3>1. rows' = Leasing(table, j, t, end)
      BY <2>0, <2>1, <2>2, <2>3
    <3>2. QED
      BY <3>1, ClaimedRow
  <2> HIDE DEF r
  <2>7. ready' = {x \in ReadyIndex(table) : x[2] # j}
                 \cup {x \in {<<r.run_at, j>>} : r.state = "ready"}
    <3>1. ready' = ReadyIndex(table) \ {e}
      BY <2>1, <2>2
    <3>2. \A x \in ReadyIndex(table) : x[2] # j <=> x # e
      BY <2>3, <2>5 DEF ReadyIndex
    <3>3. QED
      BY <2>6, <3>1, <3>2
  <2>8. IndexesExact' /\ rows' \in [JobIds -> Row]
    <3>1. table[j].state # "absent" /\ r.state # "absent" /\ keys' = KeyIndex(table)
      BY <2>1, <2>2, <2>4, <2>6
    <3>2. QED
      BY <2>2, <2>3, <2>6, <2>7, <3>1, OneRowWritten
  <2>9. StoreInv'
    BY <1>0, <2>1, <2>8 DEF StoreInv, StoreTypeOK
  <2>10. Contract!Claim(q, S, j, t, d, now)
    BY <2>0, <2>1, <2>2, <2>4, <2>5, <2>6 DEF Contract!Claim, r
  <2>11. QED
    BY <1>0, <2>3, <2>9, <2>10 DEF Contract!Next, StoreTypeOK, Contract!Time, Time
<1>3. ASSUME NEW q \in Queues, NEW S \in SUBSET JobIds, ClaimNothing(q, S)
      PROVE  StoreInv' /\ Contract!Next
  <2>1. /\ S \in Batches(q) /\ rows' = ReclaimedRows(S) /\ ready' = ReclaimedReady(S)
        /\ keys' = keys /\ issued' = issued /\ revived' = revived /\ now' = now
    BY <1>3 DEF ClaimNothing
  <2>2. /\ rows' \in [JobIds -> Row]
        /\ rows' = Contract!AfterReclaim(S)
        /\ S \in SUBSET Contract!Expired(q, now)
        /\ ReadyIndex(rows') = ready'
        /\ KeyIndex(rows') = keys'
    BY <2>1, ReclaimedTable
  <2>3. StoreInv'
    BY <1>0, <2>1, <2>2 DEF StoreInv, StoreTypeOK, IndexesExact, ReadyIndex, KeyIndex
  <2>4. Contract!Reclaim(q, S, now)
    BY <2>1, <2>2 DEF Contract!Reclaim
  <2>5. QED
    BY <1>0, <2>3, <2>4 DEF Contract!Next, StoreTypeOK, Contract!Time, Time
<1>4. ASSUME NEW j \in JobIds, NEW t \in Tokens, Complete(j, t)
      PROVE  StoreInv' /\ Contract!Next
  <2> DEFINE r == [rows[j] EXCEPT !.state = "completed"]
  <2>1. /\ r \in Row /\ r.state = "completed"
        /\ r.queue = rows[j].queue /\ r.key = rows[j].key
    BY <1>0 DEF Row, JobStates
  <2>2. /\ rows' = [rows EXCEPT ![j] = r]
        /\ rows[j].state = "leased" /\ rows[j].lease = t
        /\ keys' = keys /\ ready' = ready /\ issued' = issued /\ revived' = revived
        /\ now' = now
    BY <1>4 DEF Complete
  <2> HIDE DEF r
  <2>3. ready' = {e \in ReadyIndex(rows) : e[2] # j}
                 \cup {e \in {<<r.run_at, j>>} : r.state = "ready"}
    BY <1>0, <2>1, <2>2 DEF ReadyIndex
  <2>4. StoreInv'
    BY <1>0, <2>1, <2>2, <2>3, OneRowWritten DEF StoreInv, StoreTypeOK
  <2>5. Contract!Complete(j, t)
    BY <1>4 DEF Complete, Contract!Complete
  <2>6. QED
    BY <2>4, <2>5 DEF Contract!Next
<1>5. ASSUME NEW j \in JobIds, NEW t \in Tokens, Release(j, t)
      PROVE  StoreInv' /\ Contract!Next
  <2> DEFINE r == [rows[j] EXCEPT !.state = "ready", !.run_at = now, !.lease = NoLease,
                                  !.expires_at = 0]
  <2>1. /\ r \in Row /\ r.state = "ready" /\ r.run_at = now
        /\ r.queue = rows[j].queue /\ r.key = rows[j].key
    BY <1>0 DEF Row, JobStates, StoreTypeOK
  <2>2. /\ rows' = [rows EXCEPT ![j] = r]
        /\ rows[j].state = "leased" /\ rows[j].lease = t
        /\ keys' = keys /\ ready' = ready \cup {<<now, j>>} /\ issued' = issued
        /\ revived' = revived /\ now' = now
    BY <1>0, <1>5 DEF Release
  <2> HIDE DEF r
  <2>3. ready' = {e \in ReadyIndex(rows) : e[2] # j}
                 \cup {e \in {<<r.run_at, j>>} : r.state = "ready"}
    BY <1>0, <2>1, <2>2 DEF ReadyIndex
  <2>4. StoreInv'
    BY <1>0, <2>1, <2>2, <2>3, OneRowWritten DEF StoreInv, StoreTypeOK
  <2>5. Contract!Release(j, t, now)
    BY <1>5 DEF Release, Contract!Release
  <2>6. QED
    BY <1>0, <2>4, <2>5 DEF Contract!Next, StoreTypeOK, Contract!Time, Time
<1>6. ASSUME NEW j \in JobIds, NEW t \in Tokens, NEW f \in FailureKinds \ {"lease_expired"},
             FailTerminally(j, t, f)
      PROVE  StoreInv' /\ Contract!Next
  <2> DEFINE r == [rows[j] EXCEPT !.last_failure = f, !.state = "dead", !.lease = NoLease,
                                  !.expires_at = 0]
  <2>1. /\ r \in Row /\ r.state = "dead"
        /\ r.queue = rows[j].queue /\ r.key = rows[j].key
    BY <1>0 DEF Row, JobStates
  <2>2. /\ rows' = [rows EXCEPT ![j] = r]
        /\ rows[j].state = "leased" /\ rows[j].lease = t
        /\ IsTerminal(f) \/ LastAttempt(rows[j])
        /\ keys' = keys /\ ready' = ready /\ issued' = issued /\ revived' = revived
        /\ now' = now
    BY <1>0, <1>6 DEF FailTerminally
  <2>3. Contract!Fail(j, t, f, now)
    <3>1. r = [rows[j] EXCEPT !.state = "dead", !.run_at = @, !.last_failure = f,
                              !.lease = NoLease, !.expires_at = 0]
      BY <1>0 DEF Row
    <3>2. Contract!IsTerminal(f) \/ rows[j].attempts >= rows[j].max_attempts
      BY <2>2 DEF IsTerminal, Contract!IsTerminal, LastAttempt
    <3>3. QED
      BY <1>0, <2>2, <3>1, <3>2 DEF Contract!Fail
  <2> HIDE DEF r
  <2>4. ready' = {e \in ReadyIndex(rows) : e[2] # j}
                 \cup {e \in {<<r.run_at, j>>} : r.state = "ready"}
    BY <1>0, <2>1, <2>2 DEF ReadyIndex
  <2>5. StoreInv'
    BY <1>0, <2>1, <2>2, <2>4, OneRowWritten DEF StoreInv, StoreTypeOK
  <2>6. QED
    BY <1>0, <2>3, <2>5
    DEF Contract!Next, StoreTypeOK, Contract!Time, Time, Contract!Recordable,
        Contract!FailureKinds, FailureKinds
<1>7. ASSUME NEW j \in JobIds, NEW t \in Tokens, NEW f \in FailureKinds \ {"lease_expired"},
             NEW next \in Time, Reschedule(j, t, f, next)
      PROVE  StoreInv' /\ Contract!Next
  <2> DEFINE r == [rows[j] EXCEPT !.last_failure = f, !.state = "ready", !.run_at = next,
                                  !.lease = NoLease, !.expires_at = 0]
  <2>1. /\ r \in Row /\ r.state = "ready" /\ r.run_at = next
        /\ r.queue = rows[j].queue /\ r.key = rows[j].key
    BY <1>0 DEF Row, JobStates
  <2>2. /\ rows' = [rows EXCEPT ![j] = r]
        /\ rows[j].state = "leased" /\ rows[j].lease = t
        /\ ~IsTerminal(f) /\ ~LastAttempt(rows[j])
        /\ keys' = keys /\ ready' = ready \cup {<<next, j>>} /\ issued' = issued
        /\ revived' = revived /\ now' = now
    BY <1>0, <1>7 DEF Reschedule
  <2>3. Contract!Fail(j, t, f, next)
    <3>1. r = [rows[j] EXCEPT !.state = "ready", !.run_at = next, !.last_failure = f,
                              !.lease = NoLease, !.expires_at = 0]
      BY <1>0 DEF Row
    <3>2. ~(Contract!IsTerminal(f) \/ rows[j].attempts >= rows[j].max_attempts)
      BY <2>2 DEF IsTerminal, Contract!IsTerminal, LastAttempt
    <3>3. QED
      BY <1>0, <2>2, <3>1, <3>2 DEF Contract!Fail
  <2> HIDE DEF r
  <2>4. ready' = {e \in ReadyIndex(rows) : e[2] # j}
                 \cup {e \in {<<r.run_at, j>>} : r.state = "ready"}
    BY <1>0, <2>1, <2>2 DEF ReadyIndex
  <2>5. StoreInv'
    BY <1>0, <2>1, <2>2, <2>4, OneRowWritten DEF StoreInv, StoreTypeOK
  <2>6. QED
    BY <2>3, <2>5
    DEF Contract!Next, Contract!Time, Time, Contract!Recordable, Contract!FailureKinds, FailureKinds
<1>8. ASSUME NEW j \in JobIds, Revive(j)
      PROVE  StoreInv' /\ Contract!Next
  <2> DEFINE r == [rows[j] EXCEPT !.state = "ready", !.attempts = 0, !.run_at = now,
                                  !.last_failure = "none", !.lease = NoLease, !.expires_at = 0]
  <2>1. /\ r \in Row /\ r.state = "ready" /\ r.run_at = now
        /\ r.queue = rows[j].queue /\ r.key = rows[j].key
    BY <1>0 DEF Row, JobStates, StoreTypeOK
  <2>2. /\ rows' = [rows EXCEPT ![j] = r]
        /\ rows[j].state = "dead"
        /\ keys' = keys /\ ready' = ready \cup {<<now, j>>} /\ issued' = issued
        /\ revived' = [revived EXCEPT ![rows[j].queue] = @ + 1] /\ now' = now
    BY <1>0, <1>8 DEF Revive
  <2> HIDE DEF r
  <2>3. ready' = {e \in ReadyIndex(rows) : e[2] # j}
                 \cup {e \in {<<r.run_at, j>>} : r.state = "ready"}
    BY <1>0, <2>1, <2>2 DEF ReadyIndex
  <2>4. IndexesExact' /\ rows' \in [JobIds -> Row]
    BY <1>0, <2>1, <2>2, <2>3, OneRowWritten
  <2>5. revived' \in [Queues -> Nat]
    <3>1. rows[j].queue \in Queues
      BY <1>0 DEF Row
    <3>2. QED
      BY <1>0, <2>2, <3>1 DEF StoreTypeOK
  <2>6. StoreInv'
    BY <1>0, <2>2, <2>4, <2>5 DEF StoreInv, StoreTypeOK
  <2>7. Contract!Revive(j, now)
    BY <1>8 DEF Revive, Contract!Revive
  <2>8. QED
    BY <1>0, <2>6, <2>7 DEF Contract!Next, StoreTypeOK, Contract!Time, Time
<1>9. ASSUME Clear
      PROVE  StoreInv' /\ Contract!Next
  <2>1. rows' \in [JobIds -> Row] /\ \A j \in JobIds : rows'[j].state = "absent"
    BY <1>9, AbsentIsRow DEF Clear, Absent
  <2>2. StoreInv'
    BY <1>0, <1>9, <2>1 DEF Clear, StoreInv, StoreTypeOK, IndexesExact
  <2>3. Contract!Forget
    BY <1>9 DEF Clear, Contract!Forget, Absent, Contract!Absent
  <2>4. QED
    BY <2>2, <2>3 DEF Contract!Next
<1>10. ASSUME NEW t \in Time, SetClock(t)
       PROVE  StoreInv' /\ UNCHANGED Contract!vars
  BY <1>0, <1>10 DEF SetClock, StoreInv, StoreTypeOK, IndexesExact, Contract!vars
<1>11. CASE UNCHANGED vars
  BY <1>0, <1>11 DEF vars, StoreInv, StoreTypeOK, IndexesExact, Contract!vars
<1>12. QED
  BY <1>1, <1>2, <1>3, <1>4, <1>5, <1>6, <1>7, <1>8, <1>9, <1>10, <1>11 DEF Next

------------------------------------------------------------------------------

(* The claim index lists every ready job at its own run_at and nothing     *)
(* else, and a key is known exactly while its job exists (memory.rs,       *)
(* Table), after any calls.                                                *)
THEOREM IndexesCorrect == Spec => []IndexesExact
<1>1. StoreInv => IndexesExact
  BY DEF StoreInv
<1>2. QED
  BY InitStore, StepStore, <1>1, PTL DEF Spec

(* Every call of the memory store, whichever of its several writes it      *)
(* makes, is one transition of the port's contract (store.rs, JobStore).   *)
THEOREM StoreImplementsContract == Spec => ImplementsContract
<1>1. QED
  BY InitStore, StepStore, PTL DEF Spec, ImplementsContract, Contract!Spec
==============================================================================

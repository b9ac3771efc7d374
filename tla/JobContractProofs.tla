-------------------------- MODULE JobContractProofs --------------------------
(***************************************************************************)
(* What the port's contract guarantees for any number of jobs, queues,     *)
(* keys, tokens, instants and bounds.  TypeOK is inductive; with it        *)
(* LeaseInv, the two facts about tokens, is inductive too.  The action     *)
(* properties follow from the seven ways a step may move a row (RowMoves). *)
(***************************************************************************)
EXTENDS JobContract, FiniteSetTheorems, TLAPS

(* A token is on exactly the rows that are entitled to it, one row each.   *)
LeaseInv == TypeOK /\ LeaseWhileHeld /\ LeaseNamesOneJob

------------------------------------------------------------------------------
(* Lemmas about the rows *)

(* The row of an identifier nobody drew is a row. *)
LEMMA AbsentIsRow == Absent \in Row
  BY RowsAssumption DEF Absent, Row, JobStates, Time

(* Reclaiming keeps a table a table. *)
LEMMA ReclaimedTable ==
    ASSUME TypeOK, NEW S \in SUBSET JobIds
    PROVE  AfterReclaim(S) \in [JobIds -> Row]
<1>1. ASSUME NEW r \in Row PROVE Returned(r) \in Row
  BY DEF Returned, Row, JobStates, FailureKinds
<1>2. QED
  BY <1>1 DEF TypeOK, AfterReclaim

(* A row leased from a table is a row. *)
LEMMA LeasedRow ==
    ASSUME NEW r \in Row, NEW t \in Tokens, NEW e \in Nat
    PROVE  LeasedUnder(r, t, e) \in Row
<1>1. r.attempts + 1 \in Nat
  BY DEF Row
<1>2. QED
  BY <1>1 DEF LeasedUnder, Row, JobStates

------------------------------------------------------------------------------
(* Type correctness *)

(* The rows have the shape of jobs in every initial state.                 *)
LEMMA InitTypeOK == Init => TypeOK
  BY AbsentIsRow DEF Init, TypeOK

(* No call takes a row out of its type.                                    *)
LEMMA StepTypeOK == TypeOK /\ [Next]_vars => TypeOK'
<1> SUFFICES ASSUME TypeOK, [Next]_vars PROVE TypeOK'
  OBVIOUS
<1> USE RowsAssumption
<1>1. ASSUME NEW j \in JobIds, NEW q \in Queues, NEW k \in Keys \cup {NoKey},
             NEW m \in Limits, NEW at \in Time, Enqueue(j, q, k, m, at)
      PROVE  TypeOK'
  <2>1. NewReady(q, k, m, at) \in Row
    BY DEF NewReady, Row, JobStates
  <2>2. QED
    BY <1>1, <2>1 DEF Enqueue, TypeOK
<1>2. ASSUME NEW q \in Queues, NEW S \in SUBSET JobIds, NEW now \in Time, Reclaim(q, S, now)
      PROVE  TypeOK'
  BY <1>2, ReclaimedTable DEF Reclaim, TypeOK
<1>3. ASSUME NEW q \in Queues, NEW S \in SUBSET JobIds, NEW j \in JobIds,
             NEW t \in Tokens, NEW d \in LeaseTimes, NEW now \in Time,
             Claim(q, S, j, t, d, now)
      PROVE  TypeOK'
  <2> DEFINE table == AfterReclaim(S)
  <2>1. table \in [JobIds -> Row]
    BY ReclaimedTable
  <2>2. LeasedUnder(table[j], t, now + d) \in Row
    BY <2>1, LeasedRow DEF Time
  <2>3. job' = [table EXCEPT ![j] = LeasedUnder(table[j], t, now + d)]
    BY <1>3 DEF Claim
  <2>4. job' \in [JobIds -> Row]
    <3> HIDE DEF table
    <3> QED BY <2>1, <2>2, <2>3
  <2>5. QED
    BY <1>3, <2>4 DEF Claim, TypeOK
<1>4. ASSUME NEW j \in JobIds, NEW t \in Tokens, Complete(j, t)
      PROVE  TypeOK'
  BY <1>4 DEF Complete, TypeOK, Row, JobStates
<1>5. ASSUME NEW j \in JobIds, NEW t \in Tokens, NEW now \in Time, Release(j, t, now)
      PROVE  TypeOK'
  BY <1>5 DEF Release, TypeOK, Row, JobStates, Time
<1>6. ASSUME NEW j \in JobIds, NEW t \in Tokens, NEW f \in Recordable, NEW next \in Time,
             Fail(j, t, f, next)
      PROVE  TypeOK'
  BY <1>6 DEF Fail, TypeOK, Row, JobStates, Recordable, FailureKinds
<1>7. ASSUME NEW j \in JobIds, NEW now \in Time, Revive(j, now)
      PROVE  TypeOK'
  <2>1. [job[j] EXCEPT !.state = "ready", !.attempts = 0, !.run_at = now,
                       !.last_failure = "none", !.lease = NoLease, !.expires_at = 0] \in Row
    <3>1. PICK r \in Row : r = job[j]
      BY DEF TypeOK
    <3>2. [r EXCEPT !.state = "ready", !.attempts = 0, !.run_at = now,
                    !.last_failure = "none", !.lease = NoLease, !.expires_at = 0] \in Row
      BY DEF Row, JobStates
    <3>3. QED
      BY <3>1, <3>2
  <2>2. job' \in [JobIds -> Row]
    BY <1>7, <2>1 DEF Revive, TypeOK
  <2>3. revived' \in [Queues -> Nat]
    BY <1>7 DEF Revive, TypeOK, Row
  <2>4. QED
    BY <1>7, <2>2, <2>3 DEF Revive, TypeOK
<1>8. CASE Forget
  BY <1>8, AbsentIsRow DEF Forget, TypeOK
<1>9. CASE UNCHANGED vars
  BY <1>9 DEF vars, TypeOK
<1>10. QED
  BY <1>1, <1>2, <1>3, <1>4, <1>5, <1>6, <1>7, <1>8, <1>9 DEF Next

(* Every reachable table is a table of jobs (job.rs, Job).                 *)
THEOREM TypeCorrect == Spec => []TypeOK
<1>1. QED
  BY InitTypeOK, StepTypeOK, PTL DEF Spec

------------------------------------------------------------------------------
(* Leases *)

(* Writing one row keeps the facts about tokens when the row keeps or loses*)
(* its token and holds one exactly when its new state calls for it.        *)
LEMMA OneRowWritten ==
    ASSUME LeaseInv, NEW j \in JobIds, NEW r,
           job' = [job EXCEPT ![j] = r],
           issued' = issued,
           r.lease # NoLease <=> r.state \in {"leased", "completed"},
           r.lease \in {job[j].lease, NoLease}
    PROVE  LeaseWhileHeld' /\ LeaseNamesOneJob'
<1>1. job'[j] = r /\ \A i \in JobIds \ {j} : job'[i] = job[i]
  BY DEF LeaseInv, TypeOK
<1>2. LeaseWhileHeld'
  BY <1>1 DEF LeaseInv, LeaseWhileHeld
<1>3. LeaseNamesOneJob'
  BY <1>1 DEF LeaseInv, LeaseNamesOneJob
<1>4. QED
  BY <1>2, <1>3

(* A reclaim leaves every row as it was, or returns a leased one.          *)
LEMMA ReclaimedRow ==
    ASSUME TypeOK, NEW q \in Queues, NEW now \in Time, NEW S \in SUBSET Expired(q, now),
           NEW j \in JobIds
    PROVE  /\ j \notin S => AfterReclaim(S)[j] = job[j]
           /\ j \in S =>
                 /\ AfterReclaim(S)[j] = Returned(job[j])
                 /\ job[j].state = "leased"
                 /\ job[j].expires_at <= now
                 /\ Returned(job[j]).lease = NoLease
                 /\ Returned(job[j]).state \in {"ready", "dead"}
                 /\ Returned(job[j]).last_failure = "lease_expired"
                 /\ Returned(job[j]).attempts = job[j].attempts
                 /\ Returned(job[j]).max_attempts = job[j].max_attempts
                 /\ Returned(job[j]).queue = job[j].queue
                 /\ Returned(job[j]).key = job[j].key
                 /\ Returned(job[j]).state = "dead" <=> job[j].attempts >= job[j].max_attempts
<1>1. job[j] \in Row
  BY DEF TypeOK
<1>2. j \notin S => AfterReclaim(S)[j] = job[j]
  BY DEF AfterReclaim
<1>3. CASE j \in S
  <2>1. AfterReclaim(S)[j] = Returned(job[j])
    BY <1>3 DEF AfterReclaim
  <2>2. job[j].state = "leased" /\ job[j].expires_at <= now
    BY <1>3 DEF Expired
  <2>3. QED
    BY <1>1, <1>3, <2>1, <2>2 DEF Returned, Row
<1>4. QED
  BY <1>2, <1>3

(* What a claim makes of a row: leased under the token, one attempt more.  *)
LEMMA LeasedFields ==
    ASSUME NEW r \in Row, NEW t, NEW e
    PROVE  /\ LeasedUnder(r, t, e).state = "leased"
           /\ LeasedUnder(r, t, e).lease = t
           /\ LeasedUnder(r, t, e).attempts = r.attempts + 1
           /\ LeasedUnder(r, t, e).max_attempts = r.max_attempts
           /\ LeasedUnder(r, t, e).last_failure = r.last_failure
           /\ LeasedUnder(r, t, e).queue = r.queue
           /\ LeasedUnder(r, t, e).key = r.key
  BY DEF LeasedUnder, Row

(* A claim leases one row of the reclaimed table and writes no other.      *)
LEMMA ClaimedRow ==
    ASSUME TypeOK, NEW q \in Queues, NEW S \in SUBSET JobIds, NEW j \in JobIds,
           NEW t \in Tokens, NEW d \in LeaseTimes, NEW now \in Time,
           Claim(q, S, j, t, d, now)
    PROVE  /\ AfterReclaim(S)[j] \in Row
           /\ AfterReclaim(S)[j].state = "ready"
           /\ job'[j] = LeasedUnder(AfterReclaim(S)[j], t, now + d)
           /\ \A i \in JobIds \ {j} : job'[i] = AfterReclaim(S)[i]
<1> DEFINE table == AfterReclaim(S)
<1>1. table \in [JobIds -> Row]
  BY ReclaimedTable
<1>2. job' = [table EXCEPT ![j] = LeasedUnder(table[j], t, now + d)] /\ table[j].state = "ready"
  BY DEF Claim
<1> HIDE DEF table
<1>3. job'[j] = LeasedUnder(table[j], t, now + d) /\ \A i \in JobIds \ {j} : job'[i] = table[i]
  BY <1>1, <1>2
<1>4. table[j] \in Row
  BY <1>1
<1>5. QED
  BY <1>2, <1>3, <1>4 DEF table

(* Nobody holds a token in a store without jobs.                           *)
LEMMA InitLeases == Init => LeaseWhileHeld /\ LeaseNamesOneJob
  BY DEF Init, LeaseWhileHeld, LeaseNamesOneJob, Absent

(* Every call keeps a token on one job, and on it only while it is held.   *)
LEMMA StepLeases == LeaseInv /\ [Next]_vars => LeaseWhileHeld' /\ LeaseNamesOneJob'
<1> SUFFICES ASSUME LeaseInv, [Next]_vars PROVE LeaseWhileHeld' /\ LeaseNamesOneJob'
  OBVIOUS
<1>0. TypeOK /\ \A i \in JobIds : job[i] \in Row
  BY DEF LeaseInv, TypeOK
<1>1. ASSUME NEW j \in JobIds, NEW q \in Queues, NEW k \in Keys \cup {NoKey},
             NEW m \in Limits, NEW at \in Time, Enqueue(j, q, k, m, at)
      PROVE  LeaseWhileHeld' /\ LeaseNamesOneJob'
  <2>1. NewReady(q, k, m, at).lease = NoLease /\ NewReady(q, k, m, at).state = "ready"
    BY DEF NewReady
  <2>2. QED
    BY <1>1, <2>1, OneRowWritten DEF Enqueue
<1>2. ASSUME NEW q \in Queues, NEW S \in SUBSET JobIds, NEW now \in Time, Reclaim(q, S, now)
      PROVE  LeaseWhileHeld' /\ LeaseNamesOneJob'
  <2>1. S \in SUBSET Expired(q, now) /\ job' = AfterReclaim(S) /\ issued' = issued
    BY <1>2 DEF Reclaim
  <2>2. \A i \in JobIds :
           \/ job'[i] = job[i]
           \/ job'[i].lease = NoLease /\ job'[i].state \in {"ready", "dead"}
    <3> TAKE i \in JobIds
    <3>1. job'[i] = AfterReclaim(S)[i]
      BY <2>1
    <3>2. CASE i \in S
      BY <1>0, <2>1, <3>1, <3>2, ReclaimedRow
    <3>3. CASE i \notin S
      BY <1>0, <2>1, <3>1, <3>3, ReclaimedRow
    <3>4. QED
      BY <3>2, <3>3
  <2>3. LeaseWhileHeld'
    BY <2>1, <2>2 DEF LeaseInv, LeaseWhileHeld
  <2>4. LeaseNamesOneJob'
    BY <2>2 DEF LeaseInv, LeaseNamesOneJob
  <2>5. QED
    BY <2>3, <2>4
<1>3. ASSUME NEW q \in Queues, NEW S \in SUBSET JobIds, NEW j \in JobIds,
             NEW t \in Tokens, NEW d \in LeaseTimes, NEW now \in Time,
             Claim(q, S, j, t, d, now)
      PROVE  LeaseWhileHeld' /\ LeaseNamesOneJob'
  <2>1. S \in SUBSET Expired(q, now) /\ t \notin issued /\ issued' = issued \cup {t}
    BY <1>3 DEF Claim
  <2>2. t # NoLease
    BY RowsAssumption
  <2>3. job'[j].lease = t /\ job'[j].state = "leased"
    <3>1. AfterReclaim(S)[j] \in Row /\ job'[j] = LeasedUnder(AfterReclaim(S)[j], t, now + d)
      BY <1>0, <1>3, ClaimedRow
    <3>2. QED
      BY <3>1, LeasedFields
  <2>4. \A i \in JobIds \ {j} :
           \/ job'[i] = job[i]
           \/ job'[i].lease = NoLease /\ job'[i].state \in {"ready", "dead"}
    <3>1. \A i \in JobIds \ {j} : job'[i] = AfterReclaim(S)[i]
      BY <1>0, <1>3, ClaimedRow
    <3>2. QED
      BY <1>0, <2>1, <3>1, ReclaimedRow
  <2>5. \A i \in JobIds : job[i].lease # t
    BY <2>1, <2>2 DEF LeaseInv, LeaseWhileHeld
  <2>6. LeaseWhileHeld'
    BY <2>1, <2>2, <2>3, <2>4 DEF LeaseInv, LeaseWhileHeld
  <2>7. LeaseNamesOneJob'
    BY <2>2, <2>3, <2>4, <2>5 DEF LeaseInv, LeaseNamesOneJob
  <2>8. QED
    BY <2>6, <2>7
<1>4. ASSUME NEW j \in JobIds, NEW t \in Tokens, Complete(j, t)
      PROVE  LeaseWhileHeld' /\ LeaseNamesOneJob'
  <2> DEFINE r == [job[j] EXCEPT !.state = "completed"]
  <2>1. job' = [job EXCEPT ![j] = r] /\ issued' = issued /\ job[j].lease = t
    BY <1>4 DEF Complete
  <2>2. r.lease = t /\ r.state = "completed" /\ t # NoLease
    BY <1>0, <2>1, RowsAssumption DEF Row
  <2> HIDE DEF r
  <2>3. QED
    BY <2>1, <2>2, OneRowWritten
<1>5. ASSUME NEW j \in JobIds, NEW t \in Tokens, NEW now \in Time, Release(j, t, now)
      PROVE  LeaseWhileHeld' /\ LeaseNamesOneJob'
  <2> DEFINE r == [job[j] EXCEPT !.state = "ready", !.run_at = now, !.lease = NoLease,
                                 !.expires_at = 0]
  <2>1. job' = [job EXCEPT ![j] = r] /\ issued' = issued
    BY <1>5 DEF Release
  <2>2. r.lease = NoLease /\ r.state = "ready"
    BY <1>0 DEF Row
  <2> HIDE DEF r
  <2>3. QED
    BY <2>1, <2>2, OneRowWritten
<1>6. ASSUME NEW j \in JobIds, NEW t \in Tokens, NEW f \in Recordable, NEW next \in Time,
             Fail(j, t, f, next)
      PROVE  LeaseWhileHeld' /\ LeaseNamesOneJob'
  <2> DEFINE dies == IsTerminal(f) \/ job[j].attempts >= job[j].max_attempts
             r == [job[j] EXCEPT !.state = IF dies THEN "dead" ELSE "ready",
                                 !.run_at = IF dies THEN @ ELSE next,
                                 !.last_failure = f,
                                 !.lease = NoLease,
                                 !.expires_at = 0]
  <2>1. job' = [job EXCEPT ![j] = r] /\ issued' = issued
    BY <1>6 DEF Fail
  <2>2. r.lease = NoLease /\ r.state \in {"ready", "dead"}
    BY <1>0 DEF Row
  <2> HIDE DEF r
  <2>3. QED
    BY <2>1, <2>2, OneRowWritten
<1>7. ASSUME NEW j \in JobIds, NEW now \in Time, Revive(j, now)
      PROVE  LeaseWhileHeld' /\ LeaseNamesOneJob'
  <2> DEFINE r == [job[j] EXCEPT !.state = "ready", !.attempts = 0, !.run_at = now,
                                 !.last_failure = "none", !.lease = NoLease, !.expires_at = 0]
  <2>1. job' = [job EXCEPT ![j] = r] /\ issued' = issued
    BY <1>7 DEF Revive
  <2>2. r.lease = NoLease /\ r.state = "ready"
    BY <1>0 DEF Row
  <2> HIDE DEF r
  <2>3. QED
    BY <2>1, <2>2, OneRowWritten
<1>8. CASE Forget
  BY <1>8 DEF Forget, LeaseWhileHeld, LeaseNamesOneJob, Absent
<1>9. CASE UNCHANGED vars
  BY <1>9 DEF vars, LeaseInv, LeaseWhileHeld, LeaseNamesOneJob
<1>10. QED
  BY <1>1, <1>2, <1>3, <1>4, <1>5, <1>6, <1>7, <1>8, <1>9 DEF Next

(* The inductive invariant of the contract's leases. *)
LEMMA LeaseInvariant == Spec => []LeaseInv
<1>1. Init => LeaseInv
  BY InitTypeOK, InitLeases DEF LeaseInv
<1>2. LeaseInv /\ [Next]_vars => LeaseInv'
  BY StepTypeOK, StepLeases DEF LeaseInv
<1>3. QED
  BY <1>1, <1>2, PTL DEF Spec

(* complete, fail and release look a row up by its token alone: the token  *)
(* is on a row exactly while the claim it was drawn for stands, and the    *)
(* row it finds is the only one it can find.                               *)
THEOREM LeasesCorrect == Spec => []LeasesSettleOneJob
<1>1. LeaseInv => LeasesSettleOneJob
  BY DEF LeaseInv, LeasesSettleOneJob
<1>2. QED
  BY <1>1, LeaseInvariant, PTL
------------------------------------------------------------------------------
(* What a step does to a row *)

Kept(j) == job'[j] = job[j]
Forgotten(j) == job'[j] = Absent
Enqueued(j) ==
    /\ job[j].state = "absent"
    /\ job'[j].lease = NoLease /\ job'[j].attempts = 0 /\ job'[j].max_attempts > 0
Leased(j) ==
    /\ job[j].state \in {"ready", "leased"}
    /\ job'[j].state = "leased" /\ job'[j].lease \in Tokens \ issued
    /\ job'[j].max_attempts = job[j].max_attempts
Completed(j) ==
    /\ job[j].state = "leased"
    /\ job'[j].state = "completed" /\ job'[j].lease = job[j].lease
    /\ job'[j].max_attempts = job[j].max_attempts
GivenBack(j) ==
    /\ job[j].state = "leased"
    /\ job'[j].lease = NoLease
    /\ Spent(job'[j]) => job'[j].last_failure = job[j].last_failure
    /\ job'[j].max_attempts = job[j].max_attempts
Revived(j) ==
    /\ job[j].state = "dead"
    /\ job'[j].lease = NoLease /\ job'[j].attempts = 0
    /\ job'[j].max_attempts = job[j].max_attempts

RowMoves ==
    \A j \in JobIds :
        \/ Kept(j) \/ Forgotten(j) \/ Enqueued(j)
        \/ Leased(j) \/ Completed(j) \/ GivenBack(j) \/ Revived(j)

(* Every call moves each row in one of seven ways.                         *)
LEMMA StepMoves == TypeOK /\ [Next]_vars => RowMoves
<1> SUFFICES ASSUME TypeOK, [Next]_vars PROVE RowMoves
  OBVIOUS
<1>0. job \in [JobIds -> Row] /\ \A i \in JobIds : job[i] \in Row
  BY DEF TypeOK
<1>1. ASSUME NEW j \in JobIds, NEW q \in Queues, NEW k \in Keys \cup {NoKey},
             NEW m \in Limits, NEW at \in Time, Enqueue(j, q, k, m, at)
      PROVE  RowMoves
  <2>1. \A i \in JobIds \ {j} : Kept(i)
    BY <1>0, <1>1 DEF Enqueue, Kept
  <2>2. m > 0
    BY RowsAssumption
  <2>3. job'[j] = NewReady(q, k, m, at) /\ job[j].state = "absent"
    BY <1>0, <1>1 DEF Enqueue
  <2>4. Enqueued(j)
    BY <2>2, <2>3 DEF Enqueued, NewReady
  <2>5. QED
    BY <2>1, <2>4 DEF RowMoves
<1>2. ASSUME NEW q \in Queues, NEW S \in SUBSET JobIds, NEW now \in Time,
             S \in SUBSET Expired(q, now), NEW i \in JobIds, job'[i] = AfterReclaim(S)[i]
      PROVE  Kept(i) \/ GivenBack(i)
  <2>1. CASE i \notin S
    BY <1>2, <2>1, ReclaimedRow DEF Kept
  <2>2. CASE i \in S
    <3>1. /\ job'[i] = Returned(job[i]) /\ job[i].state = "leased"
          /\ Returned(job[i]).lease = NoLease
          /\ Returned(job[i]).attempts = job[i].attempts
          /\ Returned(job[i]).max_attempts = job[i].max_attempts
          /\ Returned(job[i]).state = "dead" <=> job[i].attempts >= job[i].max_attempts
      BY <1>2, <2>2, ReclaimedRow
    <3>2. ~Spent(job'[i])
      BY <3>1 DEF Spent
    <3>3. QED
      BY <3>1, <3>2 DEF GivenBack
  <2>3. QED
    BY <2>1, <2>2
<1>3. ASSUME NEW q \in Queues, NEW S \in SUBSET JobIds, NEW now \in Time, Reclaim(q, S, now)
      PROVE  RowMoves
  BY <1>2, <1>3 DEF Reclaim, RowMoves
<1>4. ASSUME NEW q \in Queues, NEW S \in SUBSET JobIds, NEW j \in JobIds,
             NEW t \in Tokens, NEW d \in LeaseTimes, NEW now \in Time,
             Claim(q, S, j, t, d, now)
      PROVE  RowMoves
  <2> DEFINE r == AfterReclaim(S)[j]
  <2>1. S \in SUBSET Expired(q, now) /\ t \notin issued
    BY <1>4 DEF Claim
  <2>2. /\ r \in Row /\ r.state = "ready" /\ job'[j] = LeasedUnder(r, t, now + d)
        /\ \A i \in JobIds \ {j} : job'[i] = AfterReclaim(S)[i]
    BY <1>4, ClaimedRow
  <2>3. job[j].state \in {"ready", "leased"} /\ r.max_attempts = job[j].max_attempts
    <3>1. CASE j \in S
      BY <2>1, <3>1, ReclaimedRow
    <3>2. CASE j \notin S
      BY <2>1, <2>2, <3>2, ReclaimedRow
    <3>3. QED
      BY <3>1, <3>2
  <2>4. /\ LeasedUnder(r, t, now + d).state = "leased" /\ LeasedUnder(r, t, now + d).lease = t
        /\ LeasedUnder(r, t, now + d).max_attempts = r.max_attempts
    BY <2>2, LeasedFields
  <2> HIDE DEF r
  <2>5. Leased(j)
    BY <2>1, <2>2, <2>3, <2>4 DEF Leased
  <2>6. \A i \in JobIds \ {j} : Kept(i) \/ GivenBack(i)
    BY <1>2, <2>1, <2>2
  <2>7. QED
    BY <2>5, <2>6 DEF RowMoves
<1>5. ASSUME NEW j \in JobIds, NEW t \in Tokens, Complete(j, t)
      PROVE  RowMoves
  <2>1. \A i \in JobIds \ {j} : Kept(i)
    BY <1>0, <1>5 DEF Complete, Kept
  <2>2. Completed(j)
    BY <1>0, <1>5 DEF Complete, Completed, Row
  <2>3. QED
    BY <2>1, <2>2 DEF RowMoves
<1>6. ASSUME NEW j \in JobIds, NEW t \in Tokens, NEW now \in Time, Release(j, t, now)
      PROVE  RowMoves
  <2>1. \A i \in JobIds \ {j} : Kept(i)
    BY <1>0, <1>6 DEF Release, Kept
  <2>2. GivenBack(j)
    BY <1>0, <1>6 DEF Release, GivenBack, Row
  <2>3. QED
    BY <2>1, <2>2 DEF RowMoves
<1>7. ASSUME NEW j \in JobIds, NEW t \in Tokens, NEW f \in Recordable, NEW next \in Time,
             Fail(j, t, f, next)
      PROVE  RowMoves
  <2>1. \A i \in JobIds \ {j} : Kept(i)
    BY <1>0, <1>7 DEF Fail, Kept
  <2>2. /\ job[j].state = "leased" /\ job'[j].lease = NoLease
        /\ job'[j].attempts = job[j].attempts /\ job'[j].max_attempts = job[j].max_attempts
        /\ job[j].attempts >= job[j].max_attempts => job'[j].state = "dead"
    BY <1>0, <1>7 DEF Fail, Row
  <2>3. GivenBack(j)
    BY <2>2 DEF GivenBack, Spent
  <2>4. QED
    BY <2>1, <2>3 DEF RowMoves
<1>8. ASSUME NEW j \in JobIds, NEW now \in Time, Revive(j, now)
      PROVE  RowMoves
  <2>1. \A i \in JobIds \ {j} : Kept(i)
    BY <1>0, <1>8 DEF Revive, Kept
  <2>2. Revived(j)
    BY <1>0, <1>8 DEF Revive, Revived, Row
  <2>3. QED
    BY <2>1, <2>2 DEF RowMoves
<1>9. CASE Forget
  BY <1>9 DEF Forget, RowMoves, Forgotten
<1>10. CASE UNCHANGED vars
  BY <1>10 DEF vars, RowMoves, Kept
<1>11. QED
  BY <1>1, <1>3, <1>4, <1>5, <1>6, <1>7, <1>8, <1>9, <1>10 DEF Next

(* A job that exists may be attempted.                                     *)
Limited == \A j \in JobIds : job[j].state # "absent" => job[j].max_attempts > 0

(* No call of the port lets a job exist whose limit of attempts is zero:   *)
(* enqueue takes a positive one and nothing writes the limit again.        *)
LEMMA LimitsHold == Spec => []Limited
<1>1. Init => Limited
  BY DEF Init, Limited, Absent
<1>2. TypeOK /\ Limited /\ [Next]_vars => Limited'
  <2> SUFFICES ASSUME TypeOK, Limited, RowMoves, NEW j \in JobIds, job'[j].state # "absent"
               PROVE  job'[j].max_attempts > 0
    BY StepMoves DEF Limited
  <2>1. CASE Kept(j)
    BY <2>1 DEF Kept, Limited
  <2>2. CASE Forgotten(j)
    BY <2>2 DEF Forgotten, Absent
  <2>3. CASE Enqueued(j)
    BY <2>3 DEF Enqueued
  <2>4. CASE Leased(j) \/ Completed(j) \/ GivenBack(j) \/ Revived(j)
    BY <2>4 DEF Leased, Completed, GivenBack, Revived, Limited
  <2>5. QED
    BY <2>1, <2>2, <2>3, <2>4 DEF RowMoves
<1>3. QED
  BY <1>1, <1>2, TypeCorrect, PTL DEF Spec

(* No call claims, fails, reclaims or revives a completed job.             *)
THEOREM CompletedStays == Spec => CompletedIsFinal
<1>1. TypeOK /\ [Next]_vars =>
        [\A j \in JobIds :
            job[j].state = "completed" => job'[j] \in {job[j], Absent}]_vars
  <2> SUFFICES ASSUME RowMoves, NEW j \in JobIds, job[j].state = "completed"
               PROVE  job'[j] \in {job[j], Absent}
    BY StepMoves
  <2>1. QED
    BY DEF RowMoves, Kept, Forgotten, Enqueued, Leased, Completed, GivenBack, Revived
<1>2. QED
  BY <1>1, TypeCorrect, PTL DEF Spec, CompletedIsFinal

(* A token that left its row is on no row again: what a worker holds of an *)
(* execution it lost finds nothing.                                        *)
THEOREM LostStaysLost == Spec => LostTokenStaysLost
<1>1. TypeOK /\ [Next]_vars =>
        [\A t \in issued :
            (\E j \in JobIds : job'[j].lease = t) =>
                \E j \in JobIds : job[j].lease = t /\ job'[j].lease = t]_vars
  <2> SUFFICES ASSUME TypeOK, RowMoves, NEW t \in issued, NEW j \in JobIds, job'[j].lease = t
               PROVE  job[j].lease = t
    BY StepMoves
  <2>1. t # NoLease
    BY RowsAssumption DEF TypeOK
  <2>2. ~Forgotten(j) /\ ~Enqueued(j) /\ ~GivenBack(j) /\ ~Revived(j) /\ ~Leased(j)
    BY <2>1 DEF Forgotten, Enqueued, GivenBack, Revived, Leased, Absent
  <2>3. Kept(j) \/ Completed(j)
    BY <2>2 DEF RowMoves
  <2>4. QED
    BY <2>3 DEF Kept, Completed
<1>2. QED
  BY <1>1, TypeCorrect, PTL DEF Spec, LostTokenStaysLost

(* No expired lease, failure or revival makes a job claimable that has used*)
(* its attempts up: what does keeps the failure it was last given.         *)
THEOREM SpentOnlyReleased == Spec => SpentReturnsOnlyByRelease
<1>1. TypeOK /\ Limited /\ [Next]_vars =>
        [\A j \in JobIds : Spent(job'[j]) /\ ~Spent(job[j]) =>
            /\ job[j].state = "leased"
            /\ job'[j].last_failure = job[j].last_failure]_vars
  <2> SUFFICES ASSUME Limited, RowMoves, TypeOK', NEW j \in JobIds,
                      Spent(job'[j]), ~Spent(job[j])
               PROVE  job[j].state = "leased" /\ job'[j].last_failure = job[j].last_failure
    BY StepMoves, StepTypeOK
  <2>0. job'[j].max_attempts \in Nat
    BY DEF TypeOK, Row
  <2>1. ~Kept(j)
    BY DEF Kept
  <2>2. ~Forgotten(j) /\ ~Leased(j) /\ ~Completed(j)
    BY DEF Forgotten, Leased, Completed, Spent, Absent
  <2>3. ~Enqueued(j)
    BY <2>0 DEF Enqueued, Spent
  <2>4. ~Revived(j)
    BY <2>0 DEF Revived, Spent, Limited
  <2>5. GivenBack(j)
    BY <2>1, <2>2, <2>3, <2>4 DEF RowMoves
  <2>6. QED
    BY <2>5 DEF GivenBack
<1>2. QED
  BY <1>1, TypeCorrect, LimitsHold, PTL DEF Spec, SpentReturnsOnlyByRelease
==============================================================================

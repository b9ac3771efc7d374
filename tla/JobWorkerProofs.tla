--------------------------- MODULE JobWorkerProofs ---------------------------
(***************************************************************************)
(* What a worker keeps of its executions for any number of processes,      *)
(* slots, jobs and tokens.  The invariant follows one token through the    *)
(* tasks it has (TokenOK) and one worker through its run (RunOK); the      *)
(* report is then counted against the tokens the run still has to answer   *)
(* for (CountsOK).  The store below them is the port's contract, whose     *)
(* leases are taken from JobContractProofs.                                *)
(***************************************************************************)
EXTENDS JobWorker, JobContractProofs

LoopLabels == {"outer", "claim", "begin", "give_back", "grace", "sweep", "join", "release",
               "stopped", "crashed"}
WrapperStates == LiveWrapper \cup {"none", "done"}
Endings == {"ok", "retryable", "abandoned"}
HandlerStates == Endings \cup {"none", "running", "cancelled", "joined"}
EntryStates == {"absent", "not_started", "running", "terminated"}
Reported == [claimed : Nat, aborted : Nat, released : Nat, unconfirmed : Nat, withheld : Nat]

TasksTyped ==
    /\ owner \in [Tokens -> Workers \cup {NoWorker}]
    /\ wrapper \in [Tokens -> WrapperStates]
    /\ handler \in [Tokens -> HandlerStates]
    /\ entry \in [Tokens -> EntryStates]
    /\ outcome \in [Tokens -> Endings \cup {"none"}]

RunTyped ==
    /\ now \in Time
    /\ loop \in [Workers -> LoopLabels]
    /\ claimed \in [Workers -> Tokens \cup {NoLease}]
    /\ stopping \in [Workers -> BOOLEAN]

(* An execution, from its claim to the end of its handler. *)
TokenOK(t) ==
    /\ owner[t] = NoWorker => wrapper[t] = "none"
    /\ owner[t] # NoWorker => t \in issued
    /\ wrapper[t] \in {"none", "spawned"} => t \notin aborted
    /\ wrapper[t] = "none" => handler[t] = "none" /\ entry[t] = "absent" /\ outcome[t] = "none"
    /\ wrapper[t] = "spawned" =>
          handler[t] = "none" /\ entry[t] = "not_started" /\ outcome[t] = "none"
    /\ wrapper[t] = "running" =>
          /\ handler[t] \in Endings \cup {"running", "cancelled"}
          /\ entry[t] = "running"
          /\ stopping[owner[t]] \/ (t \notin aborted /\ handler[t] # "cancelled")
    /\ wrapper[t] = "joining" => entry[t] = "running" /\ outcome[t] # "none" /\ t \in aborted
    /\ wrapper[t] = "settling" =>
          /\ entry[t] # "absent" /\ outcome[t] # "none"
          /\ handler[t] = "running" => t \in unjoined /\ t \in aborted
    /\ wrapper[t] = "done" => entry[t] = "absent" \/ stopping[owner[t]]
    /\ handler[t] = "running" =>
          /\ entry[t] \in {"running", "absent"}
          /\ entry[t] = "running" \/ t \in aborted
          /\ \/ wrapper[t] \in {"running", "joining"}
             \/ t \in unjoined
             \/ loop[owner[t]] \in {"join", "release", "stopped"}
          /\ stopping[owner[t]] => t \in aborted

(* A run, from its first claim to its report. *)
RunOK(w) ==
    /\ loop[w] \in {"begin", "give_back"} <=> claimed[w] # NoLease
    /\ claimed[w] # NoLease => owner[claimed[w]] = w /\ wrapper[claimed[w]] = "none"
    /\ stopping[w] => loop[w] \in {"join", "release", "stopped"}
    /\ loop[w] \in {"join", "release"} => stopping[w]
    /\ loop[w] \in {"release", "stopped"} =>
          \A t \in Tokens : owner[t] = w => wrapper[t] \notin LiveWrapper
    /\ loop[w] = "stopped" => \A t \in Tokens : owner[t] = w => entry[t] = "absent"

(* The executions that need their lease: claimed and not given back, on    *)
(* their way to a handler, or under one.                                   *)
NeedsLease(t) ==
    \/ wrapper[t] = "spawned"
    \/ handler[t] = "running"
    \/ \E w \in Workers : claimed[w] = t

LeaseCovers == \A t \in Tokens : NeedsLease(t) => Held(t) \/ t \in expired \cup unjoined

WorkerInv ==
    /\ LeaseInv
    /\ TasksTyped /\ RunTyped
    /\ \A t \in Tokens : TokenOK(t)
    /\ \A w \in Workers : RunOK(w)
    /\ LeaseCovers

(* A job is leased under the token. *)
LeasedBy(t) == \E j \in JobIds : job[j].state = "leased" /\ job[j].lease = t

(* The tokens of a run: those it has still to answer for, those whose      *)
(* outcome was decided, and those it let go of with the job left leased.   *)
Owned(w) == {t \in Tokens : owner[t] = w}
Pending(w) == {t \in Owned(w) : claimed[w] = t \/ entry[t] # "absent"}
Decided(w) == {t \in Owned(w) : outcome[t] # "none"}
Left(w) == {t \in Owned(w) \ (Pending(w) \cup unrecorded) : LeasedBy(t)}
Answered(w) == report[w].released + report[w].unconfirmed + report[w].withheld

CountsOK(w) ==
    /\ IsFiniteSet(Owned(w))
    /\ Cardinality(Left(w)) <= report[w].unconfirmed + report[w].withheld
    /\ Answered(w) + Cardinality(Pending(w)) <= report[w].claimed
    /\ report[w].claimed <= Answered(w) + Cardinality(Pending(w) \cup Decided(w))

Counts == report \in [Workers -> Reported] /\ \A w \in Workers : CountsOK(w)

------------------------------------------------------------------------------
(* The store below the workers *)

(* A call under one token takes that token from its job at most, and leaves*)
(* no job leased under it.                                                 *)
SettledUnder(t) ==
    /\ LeaseInv'
    /\ issued' = issued
    /\ \A u \in Tokens \ {t} : (Held(u) => Held(u)') /\ (LeasedBy(u)' => LeasedBy(u))
    /\ ~LeasedBy(t)'

LEMMA OneRowSettled ==
    ASSUME LeaseInv, LeaseInv', issued' = issued, NEW j \in JobIds, NEW t \in Tokens,
           job[j].lease = t, \A i \in JobIds \ {j} : job'[i] = job[i],
           job'[j].state # "leased"
    PROVE  SettledUnder(t)
<1>1. t # NoLease
  BY RowsAssumption
<1>2. \A i \in JobIds \ {j} : job'[i].lease # t
  BY <1>1 DEF LeaseInv, LeaseNamesOneJob
<1>3. QED
  BY <1>2 DEF SettledUnder, Held, LeasedBy

LEMMA ReleaseSettles ==
    ASSUME LeaseInv, now \in Time, NEW j \in JobIds, NEW t \in Tokens, Release(j, t, now)
    PROVE  SettledUnder(t)
<1>1. [Next]_vars
  BY DEF Next
<1>2. LeaseInv'
  BY <1>1, StepTypeOK, StepLeases DEF LeaseInv
<1>3. /\ job[j].lease = t /\ issued' = issued /\ \A i \in JobIds \ {j} : job'[i] = job[i]
      /\ job'[j].state = "ready"
  BY DEF Release, LeaseInv, TypeOK, Row
<1>4. QED
  BY <1>2, <1>3, OneRowSettled

LEMMA StoreSettling ==
    ASSUME LeaseInv, now \in Time, NEW t \in Tokens, outcome[t] \in Endings, StoreSettles(t)
    PROVE  SettledUnder(t)
<1>1. PICK j \in JobIds :
         \/ outcome[t] = "ok" /\ Complete(j, t)
         \/ \E next \in now .. MaxTime : outcome[t] # "ok" /\ Fail(j, t, outcome[t], next)
  BY DEF StoreSettles
<1>2. CASE outcome[t] = "ok" /\ Complete(j, t)
  <2>1. LeaseInv'
    BY <1>2, StepTypeOK, StepLeases DEF LeaseInv, Next
  <2>2. /\ job[j].lease = t /\ issued' = issued /\ \A i \in JobIds \ {j} : job'[i] = job[i]
        /\ job'[j].state = "completed"
    BY <1>2 DEF Complete, LeaseInv, TypeOK, Row
  <2>3. QED
    BY <2>1, <2>2, OneRowSettled
<1>3. CASE \E next \in now .. MaxTime : outcome[t] # "ok" /\ Fail(j, t, outcome[t], next)
  <2>1. PICK f \in Recordable, next \in Time : Fail(j, t, f, next)
    <3>1. PICK next \in now .. MaxTime : outcome[t] # "ok" /\ Fail(j, t, outcome[t], next)
      BY <1>3
    <3>2. outcome[t] \in Recordable /\ next \in Time
      BY <3>1, RowsAssumption DEF Endings, Recordable, FailureKinds, Time
    <3>3. QED
      BY <3>1, <3>2
  <2>2. LeaseInv'
    BY <2>1, StepTypeOK, StepLeases DEF LeaseInv, Next
  <2>3. /\ job[j].lease = t /\ issued' = issued /\ \A i \in JobIds \ {j} : job'[i] = job[i]
        /\ job'[j].state \in {"ready", "dead"}
    BY <2>1 DEF Fail, LeaseInv, TypeOK, Row
  <2>4. QED
    BY <2>2, <2>3, OneRowSettled
<1>4. QED
  BY <1>1, <1>2, <1>3

(* The tokens whose lease a reclaim on q takes. *)
Reclaimable(q) == {job[j].lease : j \in Expired(q, now)}

(* A reclaim takes the tokens of the expired leases, and no others.        *)
LEMMA ReclaimTakes ==
    ASSUME LeaseInv, now \in Time, NEW q \in Queues, Reclaim(q, Expired(q, now), now)
    PROVE  /\ LeaseInv' /\ issued' = issued
           /\ \A u \in Tokens : /\ Held(u) => Held(u)' \/ u \in Reclaimable(q)
                                /\ LeasedBy(u)' => LeasedBy(u)
<1> DEFINE S == Expired(q, now)
<1>1. S \in SUBSET JobIds /\ S \in SUBSET Expired(q, now)
  BY DEF Expired
<1>2. LeaseInv'
  BY <1>1, StepTypeOK, StepLeases DEF LeaseInv, Next
<1>3. job' = AfterReclaim(S) /\ issued' = issued
  BY DEF Reclaim
<1>4. ASSUME NEW i \in JobIds
      PROVE  \/ i \notin S /\ job'[i] = job[i]
             \/ i \in S /\ job'[i].lease = NoLease
  <2> HIDE DEF S
  <2> QED BY <1>1, <1>3, ReclaimedRow DEF LeaseInv
<1>5. QED
  BY <1>2, <1>3, <1>4, RowsAssumption DEF Held, LeasedBy, Reclaimable

(* So does a claim, which then leases one job under a token of its own.    *)
LEMMA ClaimTakes ==
    ASSUME LeaseInv, now \in Time, NEW q \in Queues, NEW j \in JobIds, NEW t \in Tokens,
           NEW d \in LeaseTimes, Claim(q, Expired(q, now), j, t, d, now)
    PROVE  /\ LeaseInv' /\ t \notin issued /\ issued' = issued \cup {t} /\ Held(t)'
           /\ \A u \in Tokens : Held(u) => Held(u)' \/ u \in Reclaimable(q)
           /\ \A u \in Tokens \ {t} : LeasedBy(u)' => LeasedBy(u)
<1> DEFINE S == Expired(q, now)
<1>1. S \in SUBSET JobIds /\ S \in SUBSET Expired(q, now)
  BY DEF Expired
<1>2. LeaseInv'
  BY <1>1, StepTypeOK, StepLeases DEF LeaseInv, Next
<1>3. /\ AfterReclaim(S)[j] \in Row /\ AfterReclaim(S)[j].state = "ready"
      /\ job'[j] = LeasedUnder(AfterReclaim(S)[j], t, now + d)
      /\ \A i \in JobIds \ {j} : job'[i] = AfterReclaim(S)[i]
      /\ t \notin issued /\ issued' = issued \cup {t}
  <2>1. TypeOK /\ Claim(q, S, j, t, d, now)
    BY DEF LeaseInv
  <2> HIDE DEF S
  <2>2. t \notin issued /\ issued' = issued \cup {t}
    BY <2>1 DEF Claim
  <2>3. QED
    BY <1>1, <2>1, <2>2, ClaimedRow
<1>4. job'[j].lease = t
  BY <1>3, LeasedFields
<1>5. ASSUME NEW i \in JobIds
      PROVE  \/ i \notin S /\ AfterReclaim(S)[i] = job[i]
             \/ i \in S /\ AfterReclaim(S)[i].lease = NoLease
  <2> HIDE DEF S
  <2> QED BY <1>1, ReclaimedRow DEF LeaseInv
<1>6. j \notin S => job[j].lease = NoLease
  BY <1>3, <1>5 DEF LeaseInv, LeaseWhileHeld
<1>7. QED
  BY <1>2, <1>3, <1>4, <1>5, <1>6, RowsAssumption DEF Held, LeasedBy, Reclaimable

------------------------------------------------------------------------------
(* One execution *)

(* What a step leaves alone of an execution. *)
SameExecution(t) ==
    /\ owner'[t] = owner[t] /\ wrapper'[t] = wrapper[t] /\ handler'[t] = handler[t]
    /\ entry'[t] = entry[t] /\ outcome'[t] = outcome[t]
    /\ (t \in aborted') = (t \in aborted)

(* A step of one token's tasks: the runs, the leases of other tokens and   *)
(* their tasks stay as they are.                                           *)
TaskStep(t) ==
    /\ UNCHANGED <<now, loop, claimed, stopping>>
    /\ owner' = owner
    /\ unjoined \subseteq unjoined' /\ expired \subseteq expired'
    /\ LeaseInv' /\ issued' = issued
    /\ \A u \in Tokens \ {t} : SameExecution(u) /\ (Held(u) => Held(u)')

(* It keeps the invariant if it keeps what is said of the token, starts no *)
(* wrapper, registers nothing after the run's end, and takes a lease only  *)
(* from under no handler.                                                  *)
LEMMA TaskStepKeeps ==
    ASSUME WorkerInv, NEW t \in Tokens, TaskStep(t), TasksTyped', TokenOK(t)',
           wrapper[t] \in LiveWrapper \/ wrapper'[t] = wrapper[t],
           wrapper[t] = "none" <=> wrapper'[t] = "none",
           wrapper[t] \notin LiveWrapper => entry'[t] \in {entry[t], "absent"},
           wrapper'[t] = "spawned" => wrapper[t] = "spawned",
           handler'[t] = "running" => wrapper[t] = "spawned" \/ handler[t] = "running",
           NeedsLease(t)' => (Held(t) => Held(t)') \/ t \in expired' \cup unjoined'
    PROVE  WorkerInv'
<1>1. RunTyped'
  BY DEF WorkerInv, RunTyped, TaskStep
<1>2. \A u \in Tokens : TokenOK(u)'
  <2>1. ASSUME NEW u \in Tokens \ {t} PROVE TokenOK(u)'
    <3>1. TokenOK(u) /\ SameExecution(u) /\ loop' = loop /\ stopping' = stopping /\ issued' = issued
          /\ unjoined \subseteq unjoined'
      BY DEF WorkerInv, TaskStep
    <3>2. QED
      BY <3>1 DEF TokenOK, SameExecution
  <2>2. QED
    BY <2>1
<1>3. \A w \in Workers : RunOK(w)'
  <2> SUFFICES ASSUME NEW w \in Workers PROVE RunOK(w)'
    OBVIOUS
  <2>1. RunOK(w)
    BY DEF WorkerInv
  <2>2. loop' = loop /\ claimed' = claimed /\ stopping' = stopping /\ owner' = owner
    BY DEF TaskStep
  <2>3. \A u \in Tokens : /\ wrapper[u] \notin LiveWrapper => wrapper'[u] \notin LiveWrapper
                          /\ wrapper[u] = "none" => wrapper'[u] = "none"
                          /\ wrapper[u] \notin LiveWrapper /\ entry[u] = "absent" => entry'[u] = "absent"
    BY DEF TaskStep, SameExecution, LiveWrapper
  <2>4. claimed[w] \in Tokens \cup {NoLease}
    BY DEF WorkerInv, RunTyped
  <2>5. ASSUME claimed[w] # NoLease PROVE wrapper'[claimed[w]] = "none"
    BY <2>1, <2>3, <2>4, <2>5 DEF RunOK
  <2>6. ASSUME loop[w] \in {"release", "stopped"}, NEW u \in Tokens, owner[u] = w
        PROVE  wrapper'[u] \notin LiveWrapper /\ (entry[u] = "absent" => entry'[u] = "absent")
    <3>1. wrapper[u] \notin LiveWrapper
      BY <2>1, <2>6 DEF RunOK
    <3>2. QED
      BY <2>3, <3>1
  <2>7. QED
    BY <2>1, <2>2, <2>5, <2>6 DEF RunOK
<1>4. LeaseCovers'
  <2>1. ASSUME NEW u \in Tokens, NeedsLease(u)' PROVE NeedsLease(u)
    BY <2>1 DEF TaskStep, SameExecution, NeedsLease
  <2>2. ASSUME NEW u \in Tokens \ {t}, NeedsLease(u)'
        PROVE  Held(u)' \/ u \in expired' \cup unjoined'
    BY <2>1, <2>2 DEF WorkerInv, LeaseCovers, TaskStep
  <2>3. NeedsLease(t)' => Held(t)' \/ t \in expired' \cup unjoined'
    BY <2>1 DEF WorkerInv, LeaseCovers, TaskStep
  <2>4. QED
    BY <2>2, <2>3 DEF LeaseCovers
<1>5. LeaseInv'
  BY DEF TaskStep
<1>6. QED
  BY <1>1, <1>2, <1>3, <1>4, <1>5 DEF WorkerInv

(* What the invariant says of a token's tasks. *)
LEMMA TokenKnown ==
    ASSUME WorkerInv, NEW t \in Tokens
    PROVE  /\ LeaseInv /\ TasksTyped /\ TokenOK(t) /\ now \in Time
           /\ NeedsLease(t) => Held(t) \/ t \in expired \cup unjoined
           /\ wrapper[t] # "none" => owner[t] \in Workers /\ t \in issued /\ RunOK(owner[t])
  BY DEF WorkerInv, RunTyped, TasksTyped, TokenOK, LeaseCovers

(* The leases stay when the store is left alone. *)
LEMMA StoreUntouched ==
    ASSUME LeaseInv, UNCHANGED storeVars
    PROVE  /\ LeaseInv' /\ issued' = issued
           /\ \A u \in Tokens : (Held(u)' <=> Held(u)) /\ (LeasedBy(u)' <=> LeasedBy(u))
  BY DEF storeVars, LeaseInv, TypeOK, LeaseWhileHeld, LeaseNamesOneJob, Held, LeasedBy

LEMMA StepStarts == ASSUME WorkerInv, NEW t \in Tokens, Starts(t) PROVE WorkerInv'
<1>1. /\ LeaseInv /\ TasksTyped /\ TokenOK(t)
      /\ wrapper[t] = "spawned" /\ wrapper'[t] = "running"
  BY TokenKnown DEF Starts, TasksTyped
<1>2. TaskStep(t) /\ (Held(t)' <=> Held(t))
  BY <1>1, StoreUntouched DEF Starts, TaskStep, SameExecution, TasksTyped, runVars, historyVars
<1>3. TasksTyped'
  BY <1>1 DEF Starts, TasksTyped, WrapperStates, LiveWrapper, HandlerStates, EntryStates
<1>4. TokenOK(t)'
  BY <1>1 DEF Starts, TokenOK, TasksTyped, runVars, storeVars
<1>5. QED
  BY <1>1, <1>2, <1>3, <1>4, TaskStepKeeps DEF LiveWrapper

LEMMA StepHasNoHandler == ASSUME WorkerInv, NEW t \in Tokens, HasNoHandler(t) PROVE WorkerInv'
<1>1. /\ LeaseInv /\ TasksTyped /\ TokenOK(t)
      /\ wrapper[t] = "spawned" /\ wrapper'[t] = "settling" /\ handler' = handler
  BY TokenKnown DEF HasNoHandler, TasksTyped
<1>2. TaskStep(t) /\ (Held(t)' <=> Held(t))
  BY <1>1, StoreUntouched DEF HasNoHandler, TaskStep, SameExecution, TasksTyped, runVars, historyVars
<1>3. TasksTyped'
  BY <1>1 DEF HasNoHandler, TasksTyped, WrapperStates, LiveWrapper, Endings
<1>4. TokenOK(t)'
  BY <1>1 DEF HasNoHandler, TokenOK, TasksTyped, runVars, storeVars, historyVars
<1>5. QED
  BY <1>1, <1>2, <1>3, <1>4, TaskStepKeeps DEF LiveWrapper

LEMMA StepHandlerEnds == ASSUME WorkerInv, NEW t \in Tokens, HandlerEnds(t) PROVE WorkerInv'
<1>0. PICK how \in Endings \cup {"cancelled"} :
         (how = "cancelled" => t \in aborted) /\ handler' = [handler EXCEPT ![t] = how]
  BY DEF HandlerEnds, Endings
<1>1. /\ LeaseInv /\ TasksTyped /\ TokenOK(t) /\ wrapper' = wrapper /\ entry' = entry
      /\ handler[t] = "running" /\ handler'[t] = how /\ how # "running"
  BY <1>0, TokenKnown DEF HandlerEnds, TasksTyped, Endings
<1>2. TaskStep(t) /\ (Held(t)' <=> Held(t))
  BY <1>0, <1>1, StoreUntouched
  DEF HandlerEnds, TaskStep, SameExecution, TasksTyped, runVars, historyVars
<1>3. TasksTyped'
  BY <1>0, <1>1 DEF HandlerEnds, TasksTyped, HandlerStates
<1>4. TokenOK(t)'
  BY <1>0, <1>1 DEF HandlerEnds, TokenOK, runVars, storeVars, historyVars
<1>5. QED
  BY <1>1, <1>2, <1>3, <1>4, TaskStepKeeps

LEMMA StepSeesEnd == ASSUME WorkerInv, NEW t \in Tokens, SeesEnd(t) PROVE WorkerInv'
<1>1. /\ LeaseInv /\ TasksTyped /\ TokenOK(t)
      /\ wrapper[t] = "running" /\ wrapper'[t] \in {"done", "settling"} /\ handler[t] # "running"
      /\ handler'[t] = "joined" /\ entry'[t] = "terminated"
      /\ handler[t] \in Endings \cup {"cancelled"}
  BY TokenKnown DEF SeesEnd, TasksTyped, TokenOK
<1>2. TaskStep(t) /\ (Held(t)' <=> Held(t))
  BY <1>1, StoreUntouched DEF SeesEnd, TaskStep, SameExecution, TasksTyped, runVars, historyVars
<1>3. TasksTyped'
  BY <1>1 DEF SeesEnd, TasksTyped, WrapperStates, LiveWrapper, HandlerStates, EntryStates, Endings
<1>4. TokenOK(t)'
  BY <1>1 DEF SeesEnd, TokenOK, TasksTyped, runVars, storeVars, historyVars, Endings
<1>5. QED
  BY <1>1, <1>2, <1>3, <1>4, TaskStepKeeps DEF LiveWrapper

LEMMA StepTimesOut == ASSUME WorkerInv, NEW t \in Tokens, TimesOut(t) PROVE WorkerInv'
<1>1. /\ LeaseInv /\ TasksTyped /\ TokenOK(t) /\ handler' = handler /\ entry' = entry
      /\ wrapper[t] = "running" /\ wrapper'[t] = "joining" /\ handler[t] = "running"
  BY TokenKnown DEF TimesOut, TasksTyped
<1>2. TaskStep(t) /\ (Held(t)' <=> Held(t))
  BY <1>1, StoreUntouched DEF TimesOut, TaskStep, SameExecution, TasksTyped, runVars, historyVars
<1>3. TasksTyped'
  BY <1>1 DEF TimesOut, TasksTyped, WrapperStates, LiveWrapper, Endings
<1>4. TokenOK(t)'
  BY <1>1 DEF TimesOut, TokenOK, TasksTyped, runVars, storeVars, historyVars
<1>5. QED
  BY <1>1, <1>2, <1>3, <1>4, TaskStepKeeps DEF LiveWrapper

LEMMA StepJoins == ASSUME WorkerInv, NEW t \in Tokens, Joins(t) PROVE WorkerInv'
<1>1. /\ LeaseInv /\ TasksTyped /\ TokenOK(t)
      /\ wrapper[t] = "joining" /\ wrapper'[t] = "settling"
      /\ handler'[t] = "joined" /\ entry'[t] = "terminated"
  BY TokenKnown DEF Joins, TasksTyped
<1>2. TaskStep(t) /\ (Held(t)' <=> Held(t))
  BY <1>1, StoreUntouched DEF Joins, TaskStep, SameExecution, TasksTyped, runVars, historyVars
<1>3. TasksTyped'
  BY <1>1 DEF Joins, TasksTyped, WrapperStates, LiveWrapper, HandlerStates, EntryStates
<1>4. TokenOK(t)'
  BY <1>1 DEF Joins, TokenOK, TasksTyped, runVars, storeVars, historyVars
<1>5. QED
  BY <1>1, <1>2, <1>3, <1>4, TaskStepKeeps DEF LiveWrapper

LEMMA StepJoinTimesOut == ASSUME WorkerInv, NEW t \in Tokens, JoinTimesOut(t) PROVE WorkerInv'
<1>1. /\ LeaseInv /\ TasksTyped /\ TokenOK(t) /\ handler' = handler /\ entry' = entry
      /\ wrapper[t] = "joining" /\ wrapper'[t] = "settling" /\ handler[t] = "running"
      /\ t \in unjoined'
  BY TokenKnown DEF JoinTimesOut, TasksTyped
<1>2. TaskStep(t) /\ (Held(t)' <=> Held(t))
  BY <1>1, StoreUntouched DEF JoinTimesOut, TaskStep, SameExecution, TasksTyped, runVars
<1>3. TasksTyped'
  BY <1>1 DEF JoinTimesOut, TasksTyped, WrapperStates, LiveWrapper
<1>4. TokenOK(t)'
  BY <1>1 DEF JoinTimesOut, TokenOK, TasksTyped, runVars, storeVars
<1>5. QED
  BY <1>1, <1>2, <1>3, <1>4, TaskStepKeeps DEF LiveWrapper

LEMMA StepSettles == ASSUME WorkerInv, NEW t \in Tokens, Settles(t) PROVE WorkerInv'
<1>1. /\ LeaseInv /\ TasksTyped /\ TokenOK(t) /\ handler' = handler /\ now \in Time
      /\ wrapper[t] = "settling" /\ wrapper'[t] = "done" /\ entry'[t] = "absent"
      /\ handler[t] = "running" => t \in unjoined
      /\ outcome[t] \in Endings
  BY TokenKnown DEF Settles, TasksTyped, TokenOK
<1>2. LeaseInv' /\ issued' = issued /\ \A u \in Tokens \ {t} : Held(u) => Held(u)'
  <2>1. CASE StoreSettles(t)
    BY <1>1, <2>1, StoreSettling DEF SettledUnder
  <2>2. CASE UNCHANGED storeVars
    BY <1>1, <2>2, StoreUntouched
  <2>3. QED
    BY <2>1, <2>2 DEF Settles
<1>3. TaskStep(t)
  BY <1>1, <1>2 DEF Settles, TaskStep, SameExecution, TasksTyped, runVars
<1>4. TasksTyped'
  BY <1>1 DEF Settles, TasksTyped, WrapperStates, EntryStates
<1>5. TokenOK(t)'
  BY <1>1, <1>2 DEF Settles, TokenOK, TasksTyped, runVars
<1>6. NeedsLease(t)' => t \in unjoined'
  <2>1. ASSUME NEW w \in Workers, claimed[w] = t PROVE FALSE
    BY <1>1, <2>1, RowsAssumption DEF WorkerInv, RunOK
  <2>2. QED
    BY <1>1, <2>1 DEF NeedsLease, Settles, runVars
<1>7. QED
  BY <1>1, <1>3, <1>4, <1>5, <1>6, TaskStepKeeps DEF LiveWrapper

------------------------------------------------------------------------------
(* The steps of the stop on one execution *)

LEMMA StepAbortsWrapper ==
    ASSUME WorkerInv, NEW w \in Workers, NEW t \in Tokens, AbortsWrapper(w, t) PROVE WorkerInv'
<1>1. /\ LeaseInv /\ TasksTyped /\ TokenOK(t) /\ handler' = handler /\ entry' = entry
      /\ wrapper[t] \in LiveWrapper /\ wrapper'[t] = "done" /\ owner[t] = w /\ loop[w] = "join"
      /\ stopping[w] /\ now \in Time
  BY TokenKnown DEF AbortsWrapper, Wrappers, TasksTyped, WorkerInv, RunOK
<1>2. LeaseInv' /\ issued' = issued /\ (\A u \in Tokens \ {t} : Held(u) => Held(u)')
      /\ (handler[t] = "running" => (Held(t) => Held(t)') \/ t \in unjoined)
  <2>1. CASE wrapper[t] = "settling" /\ StoreSettles(t)
    <3>1. outcome[t] \in Endings /\ (handler[t] = "running" => t \in unjoined)
      BY <1>1, <2>1 DEF TokenOK, TasksTyped
    <3>2. QED
      BY <1>1, <2>1, <3>1, StoreSettling DEF SettledUnder
  <2>2. CASE UNCHANGED storeVars
    BY <1>1, <2>2, StoreUntouched
  <2>3. QED
    BY <2>1, <2>2 DEF AbortsWrapper
<1>3. TaskStep(t)
  BY <1>1, <1>2 DEF AbortsWrapper, TaskStep, SameExecution, TasksTyped, runVars, historyVars
<1>4. TasksTyped'
  BY <1>1 DEF AbortsWrapper, TasksTyped, WrapperStates
<1>5. TokenOK(t)'
  BY <1>1, <1>2 DEF AbortsWrapper, TokenOK, TasksTyped, runVars, historyVars, LiveWrapper
<1>6. NeedsLease(t)' => (Held(t) => Held(t)') \/ t \in unjoined'
  <2>1. ASSUME NEW v \in Workers, claimed[v] = t PROVE FALSE
    BY <1>1, <2>1, RowsAssumption DEF WorkerInv, RunOK, LiveWrapper
  <2>2. QED
    BY <1>1, <1>2, <2>1 DEF NeedsLease, AbortsWrapper, runVars, historyVars
<1>7. QED
  BY <1>1, <1>3, <1>4, <1>5, <1>6, TaskStepKeeps DEF LiveWrapper

(* What is in flight when the run releases: no wrapper of it is alive, and *)
(* it is in nobody's claim.                                                *)
LEMMA InFlightAtRelease ==
    ASSUME WorkerInv, NEW w \in Workers, NEW t \in InFlight(w), loop[w] = "release"
    PROVE  /\ t \in Tokens /\ LeaseInv /\ TasksTyped /\ TokenOK(t) /\ now \in Time
           /\ owner[t] = w /\ entry[t] # "absent" /\ wrapper[t] = "done" /\ stopping[w]
           /\ \A v \in Workers : claimed[v] # t
<1>1. /\ t \in Tokens /\ LeaseInv /\ TasksTyped /\ TokenOK(t) /\ now \in Time
      /\ owner[t] = w /\ entry[t] # "absent"
  BY TokenKnown DEF InFlight
<1>2. wrapper[t] = "done" /\ stopping[w]
  BY <1>1 DEF WorkerInv, RunOK, TokenOK, TasksTyped, WrapperStates
<1>3. \A v \in Workers : claimed[v] # t
  BY <1>1, <1>2, RowsAssumption DEF WorkerInv, RunOK
<1>4. QED
  BY <1>1, <1>2, <1>3

LEMMA StepWithholds ==
    ASSUME WorkerInv, NEW w \in Workers, NEW t \in Tokens, Withholds(w, t) PROVE WorkerInv'
<1>1. /\ LeaseInv /\ TasksTyped /\ TokenOK(t) /\ owner[t] = w /\ wrapper[t] = "done" /\ stopping[w]
      /\ entry'[t] = "absent" /\ wrapper' = wrapper /\ handler' = handler
  BY InFlightAtRelease DEF Withholds, TasksTyped
<1>2. TaskStep(t) /\ (Held(t)' <=> Held(t))
  BY <1>1, StoreUntouched DEF Withholds, TaskStep, SameExecution, TasksTyped, historyVars
<1>3. TasksTyped'
  BY <1>1 DEF Withholds, TasksTyped, EntryStates
<1>4. TokenOK(t)'
  BY <1>1 DEF Withholds, TokenOK, storeVars, historyVars
<1>5. QED
  BY <1>1, <1>2, <1>3, <1>4, TaskStepKeeps DEF LiveWrapper

(* A release, answered or not, is a call under the token or none.          *)
LEMMA ReleaseEnding ==
    ASSUME LeaseInv, now \in Time, NEW w \in Workers, NEW t \in Tokens, ReleaseEnds(w, t)
    PROVE  /\ LeaseInv' /\ issued' = issued
           /\ \A u \in Tokens \ {t} : (Held(u) => Held(u)') /\ (LeasedBy(u)' => LeasedBy(u))
           /\ LeasedBy(t)' => Count(w, "unconfirmed", 1)
           /\ Count(w, "unconfirmed", 1) \/ Count(w, "released", 1)
<1>1. CASE \E j \in JobIds : Release(j, t, now)
  BY <1>1, ReleaseSettles DEF SettledUnder, ReleaseEnds
<1>2. CASE UNCHANGED storeVars /\ Count(w, "unconfirmed", 1)
  BY <1>2, StoreUntouched
<1>3. QED
  BY <1>1, <1>2 DEF ReleaseEnds

LEMMA StepGivesLeaseBack ==
    ASSUME WorkerInv, NEW w \in Workers, NEW t \in Tokens, GivesLeaseBack(w, t) PROVE WorkerInv'
<1>1. /\ LeaseInv /\ TasksTyped /\ TokenOK(t) /\ now \in Time
      /\ owner[t] = w /\ wrapper[t] = "done" /\ stopping[w]
      /\ entry'[t] = "absent" /\ wrapper' = wrapper /\ handler' = handler
      /\ handler[t] # "running" /\ claimed' = claimed /\ \A v \in Workers : claimed[v] # t
  BY InFlightAtRelease DEF GivesLeaseBack, TasksTyped, TokenOK
<1>2. LeaseInv' /\ issued' = issued /\ \A u \in Tokens \ {t} : Held(u) => Held(u)'
  BY <1>1, ReleaseEnding DEF GivesLeaseBack
<1>3. TaskStep(t)
  BY <1>1, <1>2 DEF GivesLeaseBack, TaskStep, SameExecution, TasksTyped, historyVars
<1>4. TasksTyped'
  BY <1>1 DEF GivesLeaseBack, TasksTyped, EntryStates
<1>5. TokenOK(t)'
  BY <1>1, <1>2 DEF GivesLeaseBack, TokenOK, historyVars
<1>6. ~NeedsLease(t)'
  BY <1>1 DEF NeedsLease
<1>7. QED
  BY <1>1, <1>3, <1>4, <1>5, <1>6, TaskStepKeeps DEF LiveWrapper

------------------------------------------------------------------------------
(* One run *)

StopPhases == {"join", "release", "stopped"}

(* A step of a run that leaves the executions alone, and takes leases from *)
(* those only that do not need them any more or whose lease expired.       *)
LEMMA LoopStepKeeps ==
    ASSUME WorkerInv, NEW w \in Workers, NEW label \in LoopLabels, GoTo(w, label),
           UNCHANGED <<taskVars, stopping, unjoined>>, now' \in Time,
           LeaseInv', issued \subseteq issued', expired \subseteq expired',
           \A u \in Tokens : NeedsLease(u)' => NeedsLease(u) /\ (Held(u) => Held(u)' \/ u \in expired'),
           claimed' \in [Workers -> Tokens \cup {NoLease}],
           \A v \in Workers \ {w} : claimed'[v] = claimed[v],
           loop[w] \in StopPhases => label \in StopPhases,
           RunOK(w)'
    PROVE  WorkerInv'
<1>1. /\ owner' = owner /\ wrapper' = wrapper /\ handler' = handler /\ entry' = entry
      /\ outcome' = outcome /\ aborted' = aborted /\ stopping' = stopping /\ unjoined' = unjoined
  BY DEF taskVars
<1>2. loop' \in [Workers -> LoopLabels] /\ loop'[w] = label
      /\ \A v \in Workers \ {w} : loop'[v] = loop[v]
  BY DEF WorkerInv, RunTyped, GoTo
<1>3. TasksTyped' /\ RunTyped'
  BY <1>1, <1>2 DEF WorkerInv, RunTyped, TasksTyped
<1>4. ASSUME NEW t \in Tokens PROVE TokenOK(t)'
  <2>1. TokenOK(t) /\ (owner[t] \in Workers \/ owner[t] = NoWorker)
    BY DEF WorkerInv, TasksTyped
  <2>2. handler[t] = "running" /\ loop[owner[t]] \in StopPhases => loop'[owner[t]] \in StopPhases
    BY <1>2, <2>1 DEF TokenOK
  <2>3. QED
    BY <1>1, <2>1, <2>2 DEF TokenOK, StopPhases
<1>5. ASSUME NEW v \in Workers \ {w} PROVE RunOK(v)'
  BY <1>1, <1>2 DEF WorkerInv, RunOK
<1>6. LeaseCovers'
  BY <1>1 DEF WorkerInv, LeaseCovers
<1>7. QED
  BY <1>3, <1>4, <1>5, <1>6 DEF WorkerInv

(* What the invariant says of a run. *)
LEMMA RunKnown ==
    ASSUME WorkerInv, NEW w \in Workers
    PROVE  /\ LeaseInv /\ TasksTyped /\ RunTyped /\ RunOK(w) /\ now \in Time
           /\ loop[w] \in LoopLabels /\ claimed[w] \in Tokens \cup {NoLease}
  BY DEF WorkerInv, RunTyped

(* The steps of the loop that touch nothing but its label. *)
LEMMA LabelStep ==
    ASSUME WorkerInv, NEW w \in Workers, NEW label \in LoopLabels, GoTo(w, label),
           UNCHANGED <<storeVars, now, claimed, closed, cancelled, stopping, report, taskVars,
                       historyVars>>,
           loop[w] \in {"begin", "give_back"} <=> label \in {"begin", "give_back"},
           loop[w] \in StopPhases => label \in StopPhases,
           loop[w] \in {"join", "release"} <=> stopping[w] /\ loop[w] # "stopped",
           label \in {"join", "release"} => stopping[w],
           label \in {"release", "stopped"} =>
              \A t \in Tokens : owner[t] = w => wrapper[t] \notin LiveWrapper,
           label = "stopped" => \A t \in Tokens : owner[t] = w => entry[t] = "absent"
    PROVE  WorkerInv'
<1>1. LeaseInv /\ RunTyped /\ RunOK(w)
  BY RunKnown
<1>2. LeaseInv' /\ issued' = issued /\ \A u \in Tokens : Held(u)' <=> Held(u)
  BY <1>1, StoreUntouched
<1>3. loop'[w] = label
  BY <1>1 DEF RunTyped, GoTo
<1>4. \A u \in Tokens : NeedsLease(u)' => NeedsLease(u)
  BY DEF NeedsLease, taskVars
<1>5. RunOK(w)'
  BY <1>1, <1>3 DEF RunOK, taskVars, StopPhases
<1>6. QED
  BY <1>1, <1>2, <1>4, <1>5, LoopStepKeeps DEF RunTyped, historyVars

LEMMA StepLabels ==
    ASSUME WorkerInv, NEW w \in Workers,
           \/ LookAtScope(w) \/ FindsSlotsTaken(w) \/ GateRefuses(w) \/ EndsGracefully(w)
           \/ GraceEnds(w) \/ JoinsWrappers(w) \/ Reports(w)
    PROVE  WorkerInv'
<1>0. RunOK(w) /\ TasksTyped /\ \A t \in Tokens : TokenOK(t)
  BY RunKnown DEF WorkerInv
<1>1. CASE LookAtScope(w)
  <2>1. PICK label \in {"grace", "claim"} : GoTo(w, label)
    BY <1>1 DEF LookAtScope
  <2>2. QED
    BY <1>0, <1>1, <2>1, LabelStep DEF LookAtScope, RunOK, LoopLabels, StopPhases
<1>2. CASE GateRefuses(w)
  BY <1>0, <1>2, LabelStep DEF GateRefuses, RunOK, LoopLabels, StopPhases
<1>3. CASE EndsGracefully(w)
  <2>1. loop[w] = "grace" /\ ~stopping[w] /\ GoTo(w, "stopped")
    BY <1>0, <1>3 DEF EndsGracefully, RunOK, Stopped, GoTo
  <2>2. \A t \in Tokens : owner[t] = w => wrapper[t] \notin LiveWrapper
    BY <1>3 DEF EndsGracefully, Wrappers
  <2>3. \A t \in Tokens : owner[t] = w => entry[t] = "absent"
    BY <1>0, <2>1, <2>2 DEF TokenOK, TasksTyped, WrapperStates
  <2>4. QED
    BY <1>0, <1>3, <2>1, <2>2, <2>3, LabelStep DEF EndsGracefully, RunOK, LoopLabels, StopPhases
<1>4. CASE GraceEnds(w)
  BY <1>0, <1>4, LabelStep DEF GraceEnds, RunOK, LoopLabels, StopPhases
<1>5. CASE JoinsWrappers(w)
  BY <1>0, <1>5, LabelStep DEF JoinsWrappers, Wrappers, RunOK, LoopLabels, StopPhases
<1>6. CASE Reports(w)
  BY <1>0, <1>6, LabelStep DEF Reports, Stopped, GoTo, InFlight, RunOK, LoopLabels, StopPhases
<1>7. CASE FindsSlotsTaken(w)
  BY <1>0, <1>7, LabelStep DEF FindsSlotsTaken, RunOK, LoopLabels, StopPhases
<1>8. QED
  BY <1>1, <1>2, <1>3, <1>4, <1>5, <1>6, <1>7

LEMMA StepClaimsNothing == ASSUME WorkerInv, NEW w \in Workers, ClaimsNothing(w) PROVE WorkerInv'
<1>1. /\ LeaseInv /\ RunTyped /\ RunOK(w) /\ now \in Time /\ loop[w] = "claim"
      /\ GoTo(w, "outer") /\ UNCHANGED <<taskVars, stopping, unjoined, claimed, now>>
  BY RunKnown DEF ClaimsNothing
<1>2. /\ LeaseInv' /\ issued' = issued /\ expired \subseteq expired'
      /\ \A u \in Tokens : Held(u) => Held(u)' \/ u \in expired'
  <2>1. CASE UNCHANGED <<storeVars, expired>>
    BY <1>1, <2>1, StoreUntouched
  <2>2. CASE \E q \in Queues : /\ Reclaim(q, Expired(q, now), now)
                               /\ expired' = expired \cup {job[j].lease : j \in Expired(q, now)}
    BY <1>1, <2>2, ReclaimTakes DEF Reclaimable
  <2>3. QED
    BY <2>1, <2>2 DEF ClaimsNothing
<1>3. loop'[w] = "outer"
  BY <1>1 DEF RunTyped, GoTo
<1>4. RunOK(w)' /\ \A u \in Tokens : NeedsLease(u)' => NeedsLease(u)
  BY <1>1, <1>3 DEF RunOK, NeedsLease, taskVars
<1>5. QED
  BY <1>1, <1>2, <1>4, LoopStepKeeps DEF RunTyped, LoopLabels, StopPhases

LEMMA StepClaimIsLost ==
    ASSUME WorkerInv, NEW w \in Workers, NEW t \in Tokens, ClaimIsLost(w, t) PROVE WorkerInv'
<1>1. /\ LeaseInv /\ RunTyped /\ RunOK(w) /\ now \in Time /\ loop[w] = "claim"
      /\ GoTo(w, "outer") /\ UNCHANGED <<taskVars, stopping, unjoined, claimed, now>>
  BY RunKnown DEF ClaimIsLost
<1>2. /\ LeaseInv' /\ issued \subseteq issued' /\ expired \subseteq expired'
      /\ \A u \in Tokens : Held(u) => Held(u)' \/ u \in expired'
  <2>1. PICK q \in Queues, j \in JobIds, d \in LeaseTimes : Claim(q, Expired(q, now), j, t, d, now)
    BY DEF ClaimIsLost
  <2>2. Reclaimable(q) \subseteq expired' /\ expired \subseteq expired'
    BY DEF ClaimIsLost, Reclaimable
  <2>3. QED
    BY <1>1, <2>1, <2>2, ClaimTakes
<1>3. loop'[w] = "outer"
  BY <1>1 DEF RunTyped, GoTo
<1>4. RunOK(w)' /\ \A u \in Tokens : NeedsLease(u)' => NeedsLease(u)
  BY <1>1, <1>3 DEF RunOK, NeedsLease, taskVars
<1>5. QED
  BY <1>1, <1>2, <1>4, LoopStepKeeps DEF RunTyped, LoopLabels, StopPhases

LEMMA StepGivesBack == ASSUME WorkerInv, NEW w \in Workers, GivesBack(w) PROVE WorkerInv'
<1>1. /\ LeaseInv /\ RunTyped /\ RunOK(w) /\ now \in Time /\ loop[w] = "give_back"
      /\ GoTo(w, "grace") /\ UNCHANGED <<taskVars, stopping, unjoined, expired, now>>
      /\ claimed' = [claimed EXCEPT ![w] = NoLease]
  BY RunKnown DEF GivesBack, historyVars
<1>2. PICK t \in Tokens : t = claimed[w] /\ ReleaseEnds(w, t)
  BY <1>1, RunKnown DEF RunOK, GivesBack
<1>3. LeaseInv' /\ issued' = issued /\ \A u \in Tokens \ {t} : Held(u) => Held(u)'
  BY <1>1, <1>2, ReleaseEnding
<1>4. /\ loop'[w] = "grace" /\ claimed'[w] = NoLease
      /\ claimed' \in [Workers -> Tokens \cup {NoLease}]
      /\ \A v \in Workers \ {w} : claimed'[v] = claimed[v]
  BY <1>1 DEF RunTyped, GoTo
<1>5. owner[t] = w /\ wrapper[t] = "none" /\ handler[t] = "none" /\ t # NoLease
  BY <1>1, <1>2, RowsAssumption, TokenKnown DEF RunOK, TokenOK
<1>6. ~NeedsLease(t)'
  <2>1. ASSUME NEW v \in Workers, claimed'[v] = t PROVE FALSE
    BY <1>4, <1>5, <2>1 DEF WorkerInv, RunOK
  <2>2. QED
    BY <1>1, <1>5, <2>1 DEF NeedsLease, taskVars
<1>7. \A u \in Tokens : NeedsLease(u)' => NeedsLease(u)
  BY <1>1, <1>4, RowsAssumption DEF NeedsLease, taskVars
<1>8. RunOK(w)'
  BY <1>1, <1>4 DEF RunOK, taskVars
<1>9. QED
  BY <1>1, <1>3, <1>4, <1>6, <1>7, <1>8, LoopStepKeeps DEF LoopLabels, StopPhases

LEMMA StepClaims ==
    ASSUME WorkerInv, NEW w \in Workers, NEW t \in Tokens, Claims(w, t) PROVE WorkerInv'
<1>1. /\ LeaseInv /\ TasksTyped /\ RunTyped /\ RunOK(w) /\ TokenOK(t) /\ now \in Time
      /\ loop[w] = "claim" /\ loop' = [loop EXCEPT ![w] = "begin"]
      /\ claimed' = [claimed EXCEPT ![w] = t] /\ owner' = [owner EXCEPT ![t] = w]
      /\ UNCHANGED <<now, stopping, wrapper, handler, entry, aborted, outcome, unjoined>>
  BY RunKnown, TokenKnown DEF Claims, GoTo
<1>2. /\ LeaseInv' /\ t \notin issued /\ issued' = issued \cup {t} /\ Held(t)'
      /\ expired \subseteq expired'
      /\ \A u \in Tokens : Held(u) => Held(u)' \/ u \in expired'
  <2>1. PICK q \in Queues, j \in JobIds, d \in LeaseTimes : Claim(q, Expired(q, now), j, t, d, now)
    BY DEF Claims
  <2>2. Reclaimable(q) \subseteq expired' /\ expired \subseteq expired'
    BY DEF Claims, Reclaimable
  <2>3. QED
    BY <1>1, <2>1, <2>2, ClaimTakes
<1>3. owner[t] = NoWorker /\ wrapper[t] = "none" /\ handler[t] = "none" /\ entry[t] = "absent"
  BY <1>1, <1>2 DEF TokenOK
<1>4. /\ TasksTyped' /\ RunTyped'
      /\ owner'[t] = w /\ claimed'[w] = t /\ loop'[w] = "begin"
      /\ \A u \in Tokens \ {t} : owner'[u] = owner[u]
      /\ \A v \in Workers \ {w} : claimed'[v] = claimed[v] /\ loop'[v] = loop[v]
  BY <1>1 DEF TasksTyped, RunTyped, LoopLabels
<1>5. ASSUME NEW u \in Tokens PROVE TokenOK(u)'
  <2>1. CASE u = t
    BY <1>1, <1>2, <1>3, <1>4, <2>1, WorkersAssumption DEF TokenOK
  <2>2. CASE u # t
    <3>1. TokenOK(u) /\ (handler[u] = "running" => owner[u] \in Workers)
      BY <1>1 DEF WorkerInv, TokenOK, TasksTyped
    <3>2. handler[u] = "running" /\ loop[owner[u]] \in StopPhases => loop'[owner[u]] = loop[owner[u]]
      BY <1>1, <1>4, <3>1 DEF StopPhases
    <3>3. QED
      BY <1>1, <1>2, <1>4, <2>2, <3>1, <3>2 DEF TokenOK, StopPhases
  <2>3. QED
    BY <2>1, <2>2
<1>6. ASSUME NEW v \in Workers PROVE RunOK(v)'
  <2>1. RunOK(v) /\ claimed[v] \in Tokens \cup {NoLease}
    BY RunKnown
  <2>2. claimed[v] # t
    BY <1>3, <2>1, RowsAssumption, WorkersAssumption DEF RunOK
  <2>3. CASE v = w
    BY <1>1, <1>3, <1>4, <2>1, <2>3, RowsAssumption DEF RunOK
  <2>4. CASE v # w
    BY <1>1, <1>3, <1>4, <2>1, <2>2, <2>4, RowsAssumption DEF RunOK, LiveWrapper
  <2>5. QED
    BY <2>3, <2>4
<1>7. LeaseCovers'
  <2>1. ASSUME NEW u \in Tokens \ {t}, NeedsLease(u)' PROVE NeedsLease(u)
    BY <1>1, <1>4, <2>1 DEF NeedsLease
  <2>2. QED
    BY <1>1, <1>2, <2>1 DEF WorkerInv, LeaseCovers
<1>8. QED
  BY <1>2, <1>4, <1>5, <1>6, <1>7 DEF WorkerInv

LEMMA StepBegins == ASSUME WorkerInv, NEW w \in Workers, Begins(w) PROVE WorkerInv'
<1>1. /\ LeaseInv /\ TasksTyped /\ RunTyped /\ RunOK(w) /\ loop[w] = "begin"
      /\ loop' = [loop EXCEPT ![w] = "claim"] /\ claimed' = [claimed EXCEPT ![w] = NoLease]
      /\ UNCHANGED <<now, stopping, owner, handler, aborted, outcome, expired, unjoined>>
      /\ UNCHANGED storeVars
  BY RunKnown DEF Begins, GoTo, historyVars
<1>2. PICK t \in Tokens : /\ t = claimed[w]
                          /\ entry' = [entry EXCEPT ![t] = "not_started"]
                          /\ wrapper' = [wrapper EXCEPT ![t] = "spawned"]
  BY <1>1, RunKnown DEF Begins, RunOK
<1>3. /\ owner[t] = w /\ wrapper[t] = "none" /\ TokenOK(t) /\ t # NoLease
      /\ \A v \in Workers \ {w} : claimed[v] # t
  BY <1>1, <1>2, RowsAssumption, TokenKnown DEF WorkerInv, RunOK
<1>4. /\ TasksTyped' /\ RunTyped'
      /\ entry'[t] = "not_started" /\ wrapper'[t] = "spawned" /\ claimed'[w] = NoLease
      /\ loop'[w] = "claim"
      /\ \A u \in Tokens \ {t} : entry'[u] = entry[u] /\ wrapper'[u] = wrapper[u]
      /\ \A v \in Workers \ {w} : claimed'[v] = claimed[v] /\ loop'[v] = loop[v]
  BY <1>1, <1>2 DEF TasksTyped, RunTyped, LoopLabels, WrapperStates, LiveWrapper, EntryStates
<1>5. LeaseInv' /\ issued' = issued /\ \A u \in Tokens : Held(u)' <=> Held(u)
  BY <1>1, StoreUntouched
<1>6. ASSUME NEW u \in Tokens PROVE TokenOK(u)'
  <2>1. CASE u = t
    <3>1. /\ handler'[t] = "none" /\ outcome'[t] = "none" /\ t \notin aborted'
          /\ owner'[t] = w /\ t \in issued'
      BY <1>1, <1>3, <1>5, WorkersAssumption DEF TokenOK
    <3>2. QED
      BY <1>4, <2>1, <3>1, WorkersAssumption DEF TokenOK
  <2>2. CASE u # t
    <3>1. TokenOK(u) /\ (handler[u] = "running" => owner[u] \in Workers)
      BY <1>1 DEF WorkerInv, TokenOK, TasksTyped
    <3>2. handler[u] = "running" /\ loop[owner[u]] \in StopPhases => loop'[owner[u]] = loop[owner[u]]
      BY <1>1, <1>4, <3>1 DEF StopPhases
    <3>3. QED
      BY <1>1, <1>4, <1>5, <2>2, <3>1, <3>2 DEF TokenOK, StopPhases
  <2>3. QED
    BY <2>1, <2>2
<1>7. ASSUME NEW v \in Workers PROVE RunOK(v)'
  <2>1. RunOK(v) /\ claimed[v] \in Tokens \cup {NoLease}
    BY RunKnown
  <2>2. CASE v = w
    BY <1>1, <1>4, <2>1, <2>2 DEF RunOK
  <2>3. CASE v # w
    BY <1>1, <1>3, <1>4, <2>1, <2>3 DEF RunOK
  <2>4. QED
    BY <2>2, <2>3
<1>8. LeaseCovers'
  <2>1. ASSUME NEW u \in Tokens, NeedsLease(u)' PROVE NeedsLease(u)
    BY <1>1, <1>2, <1>4, <2>1, RowsAssumption DEF NeedsLease
  <2>2. QED
    BY <1>1, <1>5, <2>1 DEF WorkerInv, LeaseCovers
<1>9. QED
  BY <1>4, <1>5, <1>6, <1>7, <1>8 DEF WorkerInv

(* The sweep reaches every handler that runs: one whose entry is gone was  *)
(* aborted at its timeout.                                                 *)
LEMMA StepSweeps == ASSUME WorkerInv, NEW w \in Workers, Sweeps(w) PROVE WorkerInv'
<1>1. /\ LeaseInv /\ TasksTyped /\ RunTyped /\ RunOK(w) /\ loop[w] = "sweep"
      /\ loop' = [loop EXCEPT ![w] = "join"] /\ stopping' = [stopping EXCEPT ![w] = TRUE]
      /\ aborted' = aborted \cup {t \in InFlight(w) : entry[t] = "running"}
      /\ UNCHANGED <<now, claimed, owner, wrapper, handler, entry, outcome, expired, unjoined>>
      /\ UNCHANGED storeVars
  BY RunKnown DEF Sweeps, GoTo, historyVars
<1>2. /\ TasksTyped' /\ RunTyped' /\ loop'[w] = "join" /\ stopping'[w]
      /\ \A v \in Workers \ {w} : loop'[v] = loop[v] /\ stopping'[v] = stopping[v]
  BY <1>1 DEF TasksTyped, RunTyped, LoopLabels
<1>3. LeaseInv' /\ issued' = issued /\ \A u \in Tokens : Held(u)' <=> Held(u)
  BY <1>1, StoreUntouched
<1>4. ASSUME NEW u \in Tokens PROVE TokenOK(u)'
  <2>0. TokenOK(u) /\ (owner[u] # NoWorker => owner[u] \in Workers)
    BY <1>1 DEF WorkerInv, TasksTyped
  <2>1. CASE owner[u] = w
    <3>1. u \in aborted' <=> u \in aborted \/ entry[u] = "running"
      BY <1>1, <2>1 DEF InFlight
    <3>2. QED
      BY <1>1, <1>2, <1>3, <2>0, <2>1, <3>1, WorkersAssumption DEF TokenOK
  <2>2. CASE owner[u] # w
    <3>1. u \in aborted' <=> u \in aborted
      BY <1>1, <2>2 DEF InFlight
    <3>2. owner[u] # NoWorker =>
             loop'[owner[u]] = loop[owner[u]] /\ stopping'[owner[u]] = stopping[owner[u]]
      BY <1>2, <2>0, <2>2
    <3>3. QED
      BY <1>1, <1>3, <2>0, <3>1, <3>2 DEF TokenOK
  <2>3. QED
    BY <2>1, <2>2
<1>5. ASSUME NEW v \in Workers PROVE RunOK(v)'
  <2>1. RunOK(v)
    BY RunKnown
  <2>2. QED
    BY <1>1, <1>2, <2>1 DEF RunOK
<1>6. LeaseCovers'
  BY <1>1, <1>3 DEF WorkerInv, LeaseCovers, NeedsLease
<1>7. QED
  BY <1>2, <1>3, <1>4, <1>5, <1>6 DEF WorkerInv

(* A crash forgets every execution of the process, and no lease.           *)
LEMMA StepCrashes == ASSUME WorkerInv, NEW w \in Workers, Crashes(w) PROVE WorkerInv'
<1>1. /\ LeaseInv /\ TasksTyped /\ RunTyped
      /\ loop' = [loop EXCEPT ![w] = "crashed"] /\ stopping' = [stopping EXCEPT ![w] = FALSE]
      /\ claimed' = [claimed EXCEPT ![w] = NoLease]
      /\ UNCHANGED <<now, expired, unjoined>> /\ UNCHANGED storeVars
  BY RunKnown DEF Crashes, GoTo, historyVars
<1>2. \A u \in Tokens :
         IF owner[u] = w
         THEN /\ owner'[u] = NoWorker /\ wrapper'[u] = "none" /\ handler'[u] = "none"
              /\ entry'[u] = "absent" /\ outcome'[u] = "none" /\ u \notin aborted'
         ELSE SameExecution(u)
  BY DEF Crashes, SameExecution
<1>3. TasksTyped'
  BY <1>1, <1>2 DEF Crashes, TasksTyped, SameExecution, WrapperStates, HandlerStates, EntryStates
<1>4. /\ RunTyped' /\ loop'[w] = "crashed" /\ ~stopping'[w] /\ claimed'[w] = NoLease
      /\ \A v \in Workers \ {w} : /\ loop'[v] = loop[v] /\ stopping'[v] = stopping[v]
                                  /\ claimed'[v] = claimed[v]
  BY <1>1 DEF RunTyped, LoopLabels
<1>5. LeaseInv' /\ issued' = issued /\ \A u \in Tokens : Held(u)' <=> Held(u)
  BY <1>1, StoreUntouched
<1>6. ASSUME NEW u \in Tokens PROVE TokenOK(u)'
  <2>1. CASE owner[u] = w
    BY <1>2, <2>1 DEF TokenOK
  <2>2. CASE owner[u] # w
    <3>1. TokenOK(u) /\ SameExecution(u) /\ (owner[u] # NoWorker => owner[u] \in Workers \ {w})
      BY <1>1, <1>2, <2>2 DEF WorkerInv, TasksTyped
    <3>2. owner[u] # NoWorker =>
             loop'[owner[u]] = loop[owner[u]] /\ stopping'[owner[u]] = stopping[owner[u]]
      BY <1>4, <3>1
    <3>3. QED
      BY <1>1, <1>5, <3>1, <3>2 DEF TokenOK, SameExecution
  <2>3. QED
    BY <2>1, <2>2
<1>7. ASSUME NEW v \in Workers PROVE RunOK(v)'
  <2>1. RunOK(v) /\ claimed[v] \in Tokens \cup {NoLease}
    BY RunKnown
  <2>2. CASE v = w
    BY <1>4, <2>2 DEF RunOK
  <2>3. CASE v # w
    <3>1. \A u \in Tokens : owner'[u] = v <=> owner[u] = v
      BY <1>2, <2>3, WorkersAssumption DEF SameExecution
    <3>2. \A u \in Tokens : owner[u] = v => SameExecution(u)
      BY <1>2, <2>3
    <3>3. claimed[v] # NoLease => owner'[claimed[v]] = v /\ wrapper'[claimed[v]] = "none"
      BY <2>1, <3>1, <3>2 DEF RunOK, SameExecution
    <3>4. QED
      BY <1>4, <2>1, <2>3, <3>1, <3>2, <3>3 DEF RunOK, SameExecution
  <2>4. QED
    BY <2>2, <2>3
<1>8. LeaseCovers'
  <2>1. ASSUME NEW u \in Tokens, NeedsLease(u)' PROVE NeedsLease(u)
    BY <1>2, <1>4, <2>1, RowsAssumption DEF NeedsLease, SameExecution
  <2>2. QED
    BY <1>1, <1>5, <2>1 DEF WorkerInv, LeaseCovers
<1>9. QED
  BY <1>3, <1>4, <1>5, <1>6, <1>7, <1>8 DEF WorkerInv

(* The gate, the scope and the clock change nothing the invariant reads.   *)
LEMMA StepAround ==
    ASSUME WorkerInv, now' \in Time,
           UNCHANGED <<storeVars, loop, claimed, stopping, report, taskVars, historyVars>>
    PROVE  WorkerInv'
<1>1. LeaseInv /\ RunTyped
  BY DEF WorkerInv
<1>2. LeaseInv' /\ issued' = issued /\ \A u \in Tokens : Held(u)' <=> Held(u)
  BY <1>1, StoreUntouched
<1>3. TasksTyped' /\ RunTyped'
  BY <1>1 DEF WorkerInv, TasksTyped, RunTyped, taskVars
<1>4. \A u \in Tokens : TokenOK(u)'
  BY <1>2 DEF WorkerInv, TokenOK, taskVars, historyVars
<1>5. \A v \in Workers : RunOK(v)'
  BY DEF WorkerInv, RunOK, taskVars
<1>6. LeaseCovers'
  BY <1>2 DEF WorkerInv, LeaseCovers, NeedsLease, taskVars, historyVars
<1>7. QED
  BY <1>2, <1>3, <1>4, <1>5, <1>6 DEF WorkerInv

------------------------------------------------------------------------------
(* The invariant *)

LEMMA InitWorker == WorkerInit => WorkerInv
<1> SUFFICES ASSUME WorkerInit PROVE WorkerInv
  OBVIOUS
<1>1. \A j \in JobIds : job[j] \in Row /\ job[j].state = "ready" /\ job[j].lease = NoLease
  <2>1. PICK q \in Queues, m \in Limits : job = [j \in JobIds |-> NewReady(q, NoKey, m, 0)]
    BY DEF WorkerInit
  <2>2. 0 \in Time /\ m \in Nat
    BY RowsAssumption DEF Time
  <2>3. QED
    BY <2>1, <2>2 DEF NewReady, Row, JobStates, FailureKinds
<1>2. LeaseInv
  <2>1. job \in [JobIds -> Row] /\ issued = {} /\ revived \in [Queues -> Nat]
    BY <1>1 DEF WorkerInit
  <2>2. QED
    BY <1>1, <2>1 DEF LeaseInv, TypeOK, LeaseWhileHeld, LeaseNamesOneJob
<1>3. TasksTyped /\ RunTyped
  BY RowsAssumption
  DEF WorkerInit, TasksTyped, RunTyped, WrapperStates, HandlerStates, EntryStates, LoopLabels, Time
<1>4. \A t \in Tokens : TokenOK(t)
  BY DEF WorkerInit, TokenOK
<1>5. \A w \in Workers : RunOK(w)
  BY DEF WorkerInit, RunOK
<1>6. LeaseCovers
  BY RowsAssumption DEF WorkerInit, LeaseCovers, NeedsLease
<1>7. QED
  BY <1>2, <1>3, <1>4, <1>5, <1>6 DEF WorkerInv

LEMMA StepWorker == WorkerInv /\ [WorkerNext]_workerVars => WorkerInv'
<1> SUFFICES ASSUME WorkerInv, [WorkerNext]_workerVars PROVE WorkerInv'
  OBVIOUS
<1>1. now \in Time
  BY DEF WorkerInv, RunTyped
<1>2. CASE UNCHANGED workerVars
  BY <1>1, <1>2, StepAround DEF workerVars, runVars
<1>3. ASSUME NEW w \in Workers, RunStep(w) PROVE WorkerInv'
  <2>1. CASE \E t \in Tokens : \/ Claims(w, t) \/ ClaimIsLost(w, t) \/ AbortsWrapper(w, t)
                               \/ Withholds(w, t) \/ GivesLeaseBack(w, t)
    BY <2>1, StepClaims, StepClaimIsLost, StepAbortsWrapper, StepWithholds, StepGivesLeaseBack
  <2>2. CASE \/ LookAtScope(w) \/ FindsSlotsTaken(w) \/ GateRefuses(w) \/ EndsGracefully(w)
             \/ GraceEnds(w) \/ JoinsWrappers(w) \/ Reports(w)
    BY <2>2, StepLabels
  <2>3. CASE ClaimsNothing(w) \/ Begins(w) \/ GivesBack(w) \/ Sweeps(w)
    BY <2>3, StepClaimsNothing, StepBegins, StepGivesBack, StepSweeps
  <2>4. QED
    BY <1>3, <2>1, <2>2, <2>3 DEF RunStep, LoopStep, ClaimEnds
<1>4. ASSUME NEW w \in Workers, DrainBegins(w) \/ StopBegins(w) \/ Crashes(w) PROVE WorkerInv'
  BY <1>1, <1>4, StepCrashes, StepAround DEF DrainBegins, StopBegins
<1>5. ASSUME NEW t \in Tokens, WrapperStep(t) \/ HandlerEnds(t) PROVE WorkerInv'
  BY <1>5, StepStarts, StepHasNoHandler, StepSeesEnd, StepTimesOut, StepJoins, StepJoinTimesOut,
     StepSettles, StepHandlerEnds
  DEF WrapperStep, OwnStep
<1>6. CASE Tick
  <2>1. now' \in Time
    BY <1>1, <1>6, RowsAssumption DEF Tick, Time
  <2>2. QED
    BY <1>6, <2>1, StepAround DEF Tick
<1>7. QED
  BY <1>2, <1>3, <1>4, <1>5, <1>6 DEF WorkerNext

LEMMA WorkerInvariant == WorkerSpec => []WorkerInv
  BY InitWorker, StepWorker, PTL DEF WorkerSpec

(* Whatever the stop, a timeout or a lost answer does, a handler that may  *)
(* still be running has its job's lease, unless the lease expired or the   *)
(* handler could not be joined at its timeout (worker.rs, run and run_one).*)
THEOREM RunningKeepsItsLease == WorkerSpec => []RunningHoldsLease
<1>1. WorkerInv => RunningHoldsLease
  BY DEF WorkerInv, LeaseCovers, NeedsLease, RunningHoldsLease
<1>2. QED
  BY <1>1, WorkerInvariant, PTL

(* No handler is out of its worker's sight: its wrapper is alive or gave up*)
(* joining it, and once the sweep is over its abort has been requested.    *)
THEOREM HandlersAreSwept == WorkerSpec => []NoHandlerEscapes
<1>1. WorkerInv => NoHandlerEscapes
  <2> SUFFICES ASSUME WorkerInv, NEW t \in Tokens, handler[t] = "running"
               PROVE  /\ \/ wrapper[t] \in LiveWrapper
                         \/ t \in unjoined
                         \/ loop[owner[t]] \in {"join", "release", "stopped"}
                      /\ stopping[owner[t]] => t \in aborted
    BY DEF NoHandlerEscapes
  <2>1. TokenOK(t)
    BY DEF WorkerInv
  <2>2. QED
    BY <2>1 DEF TokenOK, LiveWrapper
<1>2. QED
  BY <1>1, WorkerInvariant, PTL

------------------------------------------------------------------------------
(* The report *)

(* One counter of one run goes up. *)
LEMMA Counted ==
    ASSUME report \in [Workers -> Reported], NEW w \in Workers, NEW n \in Nat,
           NEW field \in {"claimed", "aborted", "released", "unconfirmed", "withheld"},
           Count(w, field, n)
    PROVE  /\ report' \in [Workers -> Reported]
           /\ \A v \in Workers \ {w} : report'[v] = report[v]
           /\ report'[w].claimed = IF field = "claimed" THEN report[w].claimed + n
                                                        ELSE report[w].claimed
           /\ Answered(w)' = IF field \in {"claimed", "aborted"} THEN Answered(w)
                                                                 ELSE Answered(w) + n
           /\ report'[w].unconfirmed + report'[w].withheld =
                 IF field \in {"unconfirmed", "withheld"}
                 THEN report[w].unconfirmed + report[w].withheld + n
                 ELSE report[w].unconfirmed + report[w].withheld
<1> DEFINE r == report[w]
<1>1. r \in Reported
  OBVIOUS
<1>2. report' = [report EXCEPT ![w] = [r EXCEPT ![field] = @ + n]]
  BY DEF Count
<1>3. report'[w] = [r EXCEPT ![field] = @ + n] /\ \A v \in Workers \ {w} : report'[v] = report[v]
  BY <1>2
<1>4. CASE field = "claimed"
  BY <1>1, <1>2, <1>3, <1>4 DEF Reported, Answered
<1>5. CASE field = "aborted"
  BY <1>1, <1>2, <1>3, <1>5 DEF Reported, Answered
<1>6. CASE field = "released"
  BY <1>1, <1>2, <1>3, <1>6 DEF Reported, Answered
<1>7. CASE field = "unconfirmed"
  BY <1>1, <1>2, <1>3, <1>7 DEF Reported, Answered
<1>8. CASE field = "withheld"
  BY <1>1, <1>2, <1>3, <1>8 DEF Reported, Answered
<1>9. QED
  BY <1>4, <1>5, <1>6, <1>7, <1>8

(* The sets of a run are finite, and its counters natural numbers.         *)
LEMMA CountsKnown ==
    ASSUME Counts, NEW w \in Workers
    PROVE  /\ CountsOK(w) /\ report[w] \in Reported
           /\ IsFiniteSet(Left(w)) /\ Cardinality(Left(w)) \in Nat
           /\ IsFiniteSet(Pending(w)) /\ Cardinality(Pending(w)) \in Nat
           /\ IsFiniteSet(Pending(w) \cup Decided(w))
           /\ Cardinality(Pending(w) \cup Decided(w)) \in Nat
           /\ Answered(w) \in Nat /\ report[w].claimed \in Nat
           /\ report[w].unconfirmed + report[w].withheld \in Nat
<1>1. CountsOK(w) /\ report[w] \in Reported
  BY DEF Counts
<1>2. Left(w) \subseteq Owned(w) /\ Pending(w) \subseteq Owned(w) /\ Decided(w) \subseteq Owned(w)
  BY DEF Left, Pending, Decided
<1>3. IsFiniteSet(Left(w)) /\ IsFiniteSet(Pending(w)) /\ IsFiniteSet(Pending(w) \cup Decided(w))
  BY <1>1, <1>2, FS_Subset DEF CountsOK
<1>4. QED
  BY <1>1, <1>3, FS_CardinalityType DEF Reported, Answered

(* What a step does to the counters of a run. *)
SameCounters(v) ==
    /\ report'[v].claimed = report[v].claimed
    /\ Answered(v)' = Answered(v)
    /\ report'[v].unconfirmed + report'[v].withheld = report[v].unconfirmed + report[v].withheld

(* They stay right when no token enters or leaves the run, none it had     *)
(* answered for is pending again, and none is lost or left leased unseen.  *)
LEMMA CountsKept ==
    ASSUME Counts, NEW v \in Workers, SameCounters(v), Owned(v)' = Owned(v),
           Pending(v)' \subseteq Pending(v),
           Pending(v) \cup Decided(v) \subseteq Pending(v)' \cup Decided(v)',
           Left(v)' \subseteq Left(v)
    PROVE  CountsOK(v)'
<1>1. CountsOK(v)
  BY CountsKnown
<1>2. /\ IsFiniteSet(Left(v)) /\ IsFiniteSet(Pending(v)) /\ IsFiniteSet(Owned(v))
      /\ IsFiniteSet(Pending(v) \cup Decided(v))
  BY CountsKnown DEF CountsOK
<1>3. Pending(v)' \cup Decided(v)' \subseteq Owned(v)'
  BY DEF Pending, Decided
<1>4. IsFiniteSet(Owned(v)') /\ IsFiniteSet(Pending(v)' \cup Decided(v)')
  BY <1>2, <1>3, FS_Subset
<1>5. /\ Cardinality(Left(v)') <= Cardinality(Left(v))
      /\ Cardinality(Pending(v)') <= Cardinality(Pending(v))
      /\ Cardinality(Pending(v) \cup Decided(v)) <= Cardinality(Pending(v)' \cup Decided(v)')
  BY <1>2, <1>4, FS_Subset
<1>6. /\ Cardinality(Left(v)') \in Nat /\ Cardinality(Pending(v)') \in Nat
      /\ Cardinality(Pending(v)' \cup Decided(v)') \in Nat
  BY <1>2, <1>4, FS_Subset, FS_CardinalityType
<1>7. QED
  BY <1>1, <1>4, <1>5, <1>6, CountsKnown DEF CountsOK, SameCounters

(* A step of another run, or one that leaves this run's tokens alone. *)
LEMMA CountsElsewhere ==
    ASSUME Counts, NEW v \in Workers, SameCounters(v), claimed'[v] = claimed[v],
           unrecorded \subseteq unrecorded',
           \A u \in Tokens : owner'[u] = v <=> owner[u] = v,
           \A u \in Owned(v) : /\ entry'[u] = entry[u] /\ outcome'[u] = outcome[u]
                               /\ LeasedBy(u)' => LeasedBy(u)
    PROVE  CountsOK(v)'
<1>1. Owned(v)' = Owned(v)
  BY DEF Owned
<1>2. Pending(v)' = Pending(v) /\ Decided(v)' = Decided(v)
  BY <1>1 DEF Pending, Decided
<1>3. Left(v)' \subseteq Left(v)
  BY <1>1, <1>2 DEF Left
<1>4. QED
  BY <1>1, <1>2, <1>3, CountsKept

(* A step that counts nothing and leaves every execution where it is. *)
LEMMA CountsQuiet ==
    ASSUME WorkerInv, Counts, report' \in [Workers -> Reported],
           \A v \in Workers : SameCounters(v),
           UNCHANGED <<claimed, owner, entry, outcome, unrecorded>>,
           \A u \in issued : LeasedBy(u)' => LeasedBy(u)
    PROVE  Counts'
<1>1. ASSUME NEW v \in Workers PROVE CountsOK(v)'
  <2>1. \A u \in Owned(v) : u \in issued
    BY WorkersAssumption DEF Owned, WorkerInv, TokenOK
  <2>2. QED
    BY <2>1, CountsElsewhere
<1>2. QED
  BY <1>1 DEF Counts

(* A step of one token's tasks: it leaves the run's account by its outcome *)
(* only, and leaves no lease behind but one the store did not record.      *)
LEMMA CountsTask ==
    ASSUME Counts, TasksTyped, NEW t \in Tokens,
           UNCHANGED <<claimed, report, owner>>, unrecorded \subseteq unrecorded',
           \A u \in Tokens : LeasedBy(u)' => LeasedBy(u),
           \A u \in Tokens \ {t} : entry'[u] = entry[u] /\ outcome'[u] = outcome[u],
           entry[t] = "absent" => entry'[t] = "absent",
           entry[t] # "absent" /\ entry'[t] = "absent" =>
              outcome'[t] # "none" /\ (LeasedBy(t)' => t \in unrecorded'),
           outcome[t] # "none" => outcome'[t] # "none"
    PROVE  Counts'
<1>1. ASSUME NEW v \in Workers PROVE CountsOK(v)'
  <2>1. Owned(v)' = Owned(v) /\ Owned(v) \subseteq Tokens
    BY DEF Owned
  <2>2. Pending(v)' \subseteq Pending(v)
    BY <2>1 DEF Pending
  <2>3. Pending(v) \cup Decided(v) \subseteq Pending(v)' \cup Decided(v)'
    BY <2>1 DEF Pending, Decided
  <2>4. Left(v)' \subseteq Left(v)
    BY <2>1 DEF Left, Pending
  <2>5. QED
    BY <2>1, <2>2, <2>3, <2>4, CountsKept DEF SameCounters, Answered
<1>2. QED
  BY <1>1 DEF Counts

(* A claim: one more claimed, one more to answer for. *)
LEMMA CountsClaims ==
    ASSUME WorkerInv, Counts, NEW w \in Workers, NEW t \in Tokens, Claims(w, t)
    PROVE  Counts'
<1>1. /\ TasksTyped /\ RunTyped /\ TokenOK(t) /\ RunOK(w) /\ LeaseInv /\ now \in Time
      /\ loop[w] = "claim"
  BY RunKnown, TokenKnown DEF Claims
<1>2. /\ t \notin issued /\ \A u \in Tokens \ {t} : LeasedBy(u)' => LeasedBy(u)
  <2>1. PICK q \in Queues, j \in JobIds, d \in LeaseTimes : Claim(q, Expired(q, now), j, t, d, now)
    BY DEF Claims
  <2>2. QED
    BY <1>1, <2>1, ClaimTakes
<1>3. owner[t] = NoWorker /\ claimed[w] = NoLease /\ \A u \in Tokens : u # NoLease
  BY <1>1, <1>2, RowsAssumption DEF TokenOK, RunOK
<1>4. /\ owner'[t] = w /\ claimed'[w] = t
      /\ \A u \in Tokens \ {t} : owner'[u] = owner[u]
      /\ \A v \in Workers \ {w} : claimed'[v] = claimed[v]
      /\ entry' = entry /\ outcome' = outcome /\ unrecorded' = unrecorded
      /\ Count(w, "claimed", 1)
  BY <1>1 DEF Claims, TasksTyped, RunTyped
<1>5. /\ report' \in [Workers -> Reported]
      /\ \A v \in Workers \ {w} : report'[v] = report[v]
      /\ report'[w].claimed = report[w].claimed + 1 /\ Answered(w)' = Answered(w)
      /\ report'[w].unconfirmed + report'[w].withheld = report[w].unconfirmed + report[w].withheld
  BY <1>4, Counted DEF Counts
<1>6. CountsOK(w)'
  <2>1. Owned(w)' = Owned(w) \cup {t} /\ t \notin Owned(w) /\ t \in Tokens
    BY <1>3, <1>4, WorkersAssumption DEF Owned
  <2>2. Pending(w)' = Pending(w) \cup {t} /\ t \notin Pending(w)
    BY <1>1, <1>3, <1>4, <2>1 DEF Pending, Owned, TokenOK
  <2>3. Pending(w)' \cup Decided(w)' = (Pending(w) \cup Decided(w)) \cup {t}
    BY <1>4, <2>1, <2>2 DEF Decided
  <2>4. Left(w)' \subseteq Left(w)
    BY <1>2, <1>4, <2>1, <2>2 DEF Left, Owned
  <2>5. t \notin Pending(w) \cup Decided(w)
    BY <2>1, <2>2 DEF Decided
  <2>6. IsFiniteSet(Owned(w)')
    <3>1. IsFiniteSet(Owned(w))
      BY CountsKnown DEF CountsOK
    <3>2. QED
      BY <2>1, <3>1, FS_AddElement
  <2>7. Cardinality(Pending(w)') = Cardinality(Pending(w)) + 1
    BY <2>2, CountsKnown, FS_AddElement
  <2>8. Cardinality(Pending(w)' \cup Decided(w)') = Cardinality(Pending(w) \cup Decided(w)) + 1
    BY <2>3, <2>5, CountsKnown, FS_AddElement
  <2>9. Cardinality(Left(w)') <= Cardinality(Left(w)) /\ Cardinality(Left(w)') \in Nat
    BY <2>4, CountsKnown, FS_Subset, FS_CardinalityType
  <2>10. QED
    BY <1>5, <2>6, <2>7, <2>8, <2>9, CountsKnown DEF CountsOK
<1>7. ASSUME NEW v \in Workers \ {w} PROVE CountsOK(v)'
  <2>1. \A u \in Tokens : owner'[u] = v <=> owner[u] = v
    BY <1>3, <1>4, WorkersAssumption
  <2>2. \A u \in Owned(v) : LeasedBy(u)' => LeasedBy(u)
    BY <1>2, <1>3, WorkersAssumption DEF Owned
  <2>3. SameCounters(v)
    BY <1>5 DEF SameCounters, Answered
  <2>4. QED
    BY <1>4, <2>1, <2>2, <2>3, CountsElsewhere
<1>8. QED
  BY <1>5, <1>6, <1>7 DEF Counts

(* One token the run had to answer for is answered for. *)
LEMMA CountsAnswered ==
    ASSUME WorkerInv, Counts, NEW w \in Workers, NEW t \in Tokens,
           t \in Pending(w), owner' = owner, outcome' = outcome, unrecorded' = unrecorded,
           NEW field \in {"released", "unconfirmed", "withheld"}, Count(w, field, 1),
           LeasedBy(t)' => field # "released",
           \A u \in Tokens \ {t} : LeasedBy(u)' => LeasedBy(u),
           \A u \in Tokens \ {t} : entry'[u] = entry[u],
           \A v \in Workers \ {w} : claimed'[v] = claimed[v],
           \A u \in Tokens \ {t} : claimed'[w] = u <=> claimed[w] = u,
           entry'[t] = "absent" /\ claimed'[w] # t
    PROVE  Counts'
<1>1. /\ report' \in [Workers -> Reported]
      /\ \A v \in Workers \ {w} : report'[v] = report[v]
      /\ report'[w].claimed = report[w].claimed /\ Answered(w)' = Answered(w) + 1
      /\ report'[w].unconfirmed + report'[w].withheld =
            IF field # "released" THEN report[w].unconfirmed + report[w].withheld + 1
                                  ELSE report[w].unconfirmed + report[w].withheld
  BY Counted DEF Counts
<1>2. CountsOK(w)'
  <2>1. Owned(w)' = Owned(w) /\ Owned(w) \subseteq Tokens
    BY DEF Owned
  <2>2. Pending(w)' = Pending(w) \ {t}
    BY <2>1 DEF Pending
  <2>3. Pending(w) \cup Decided(w) \subseteq (Pending(w)' \cup Decided(w)') \cup {t}
    BY <2>1, <2>2 DEF Decided
  <2>4. Left(w)' \subseteq IF field # "released" THEN Left(w) \cup {t} ELSE Left(w)
    BY <2>1, <2>2 DEF Left
  <2>5. IsFiniteSet(Owned(w)')
    BY <2>1, CountsKnown DEF CountsOK
  <2>6. Cardinality(Pending(w)') = Cardinality(Pending(w)) - 1
    BY <2>2, CountsKnown, FS_RemoveElement
  <2>7. /\ Cardinality(Pending(w) \cup Decided(w)) <= Cardinality(Pending(w)' \cup Decided(w)') + 1
        /\ Cardinality(Pending(w)' \cup Decided(w)') \in Nat
    <3> DEFINE D == Pending(w)' \cup Decided(w)'
    <3>1. IsFiniteSet(D)
      BY <2>1, CountsKnown, FS_Subset DEF CountsOK, Pending, Decided
    <3>2. /\ IsFiniteSet(D \cup {t}) /\ Cardinality(D) \in Nat
          /\ Cardinality(D \cup {t}) \in {Cardinality(D), Cardinality(D) + 1}
      BY <3>1, FS_AddElement, FS_CardinalityType
    <3>3. Cardinality(Pending(w) \cup Decided(w)) <= Cardinality(D \cup {t})
      BY <2>3, <3>2, FS_Subset
    <3>4. Cardinality(Pending(w) \cup Decided(w)) \in Nat
      BY CountsKnown
    <3>5. QED
      BY <3>2, <3>3, <3>4
  <2>8. /\ Cardinality(Left(w)') <= IF field # "released" THEN Cardinality(Left(w)) + 1
                                                          ELSE Cardinality(Left(w))
        /\ Cardinality(Left(w)') \in Nat
    <3>1. /\ IsFiniteSet(Left(w) \cup {t})
          /\ Cardinality(Left(w) \cup {t}) \in {Cardinality(Left(w)), Cardinality(Left(w)) + 1}
      BY CountsKnown, FS_AddElement
    <3>2. CASE field # "released"
      BY <2>4, <3>1, <3>2, CountsKnown, FS_Subset, FS_CardinalityType
    <3>3. CASE field = "released"
      BY <2>4, <3>3, CountsKnown, FS_Subset, FS_CardinalityType
    <3>4. QED
      BY <3>2, <3>3
  <2>9. QED
    BY <1>1, <2>5, <2>6, <2>7, <2>8, CountsKnown DEF CountsOK
<1>3. ASSUME NEW v \in Workers \ {w} PROVE CountsOK(v)'
  <2>1. SameCounters(v)
    BY <1>1 DEF SameCounters, Answered
  <2>2. t \notin Owned(v) /\ Owned(v) \subseteq Tokens
    BY DEF Owned, Pending
  <2>3. QED
    BY <2>1, <2>2, CountsElsewhere
<1>4. QED
  BY <1>1, <1>2, <1>3 DEF Counts

(* A crash leaves the run nothing to answer for. *)
LEMMA CountsCrash ==
    ASSUME WorkerInv, Counts, NEW w \in Workers, Crashes(w) PROVE Counts'
<1>1. /\ report' = [report EXCEPT ![w] = NoReport] /\ unrecorded' = unrecorded
      /\ claimed' = [claimed EXCEPT ![w] = NoLease]
      /\ \A u \in Tokens : IF owner[u] = w
                           THEN owner'[u] = NoWorker
                           ELSE /\ owner'[u] = owner[u] /\ entry'[u] = entry[u]
                                /\ outcome'[u] = outcome[u]
      /\ \A u \in Tokens : LeasedBy(u)' <=> LeasedBy(u)
  BY StoreUntouched DEF Crashes, historyVars, WorkerInv
<1>2. /\ report' \in [Workers -> Reported] /\ report'[w] = NoReport
      /\ \A v \in Workers \ {w} : report'[v] = report[v] /\ claimed'[v] = claimed[v]
  <2>1. NoReport \in Reported
    BY DEF NoReport, Reported
  <2>2. QED
    BY <1>1, <2>1 DEF Counts, WorkerInv, RunTyped
<1>3. CountsOK(w)'
  <2>1. Owned(w)' = {}
    BY <1>1, WorkersAssumption DEF Owned
  <2>2. Left(w)' = {} /\ Pending(w)' = {} /\ Pending(w)' \cup Decided(w)' = {}
    BY <2>1 DEF Left, Pending, Decided
  <2>3. QED
    BY <1>2, <2>1, <2>2, FS_EmptySet DEF CountsOK, Answered, NoReport
<1>4. ASSUME NEW v \in Workers \ {w} PROVE CountsOK(v)'
  <2>1. SameCounters(v)
    BY <1>2 DEF SameCounters, Answered
  <2>2. \A u \in Tokens : owner'[u] = v <=> owner[u] = v
    BY <1>1, WorkersAssumption
  <2>3. \A u \in Owned(v) : /\ entry'[u] = entry[u] /\ outcome'[u] = outcome[u]
                            /\ LeasedBy(u)' => LeasedBy(u)
    BY <1>1 DEF Owned
  <2>4. QED
    BY <1>1, <1>2, <2>1, <2>2, <2>3, CountsElsewhere
<1>5. QED
  BY <1>2, <1>3, <1>4 DEF Counts

(* A begin hands a token from the claim to its wrapper. *)
LEMMA CountsBegins ==
    ASSUME WorkerInv, Counts, NEW w \in Workers, Begins(w) PROVE Counts'
<1>1. /\ LeaseInv /\ TasksTyped /\ RunTyped /\ RunOK(w) /\ loop[w] = "begin"
      /\ claimed' = [claimed EXCEPT ![w] = NoLease]
      /\ UNCHANGED <<owner, outcome, report, unrecorded>> /\ UNCHANGED storeVars
  BY RunKnown DEF Begins, historyVars
<1>2. PICK t \in Tokens : t = claimed[w] /\ entry' = [entry EXCEPT ![t] = "not_started"]
  BY <1>1, RunKnown DEF Begins, RunOK
<1>3. /\ owner[t] = w /\ entry'[t] = "not_started" /\ claimed'[w] = NoLease
      /\ \A u \in Tokens \ {t} : entry'[u] = entry[u]
      /\ \A v \in Workers \ {w} : claimed'[v] = claimed[v]
      /\ \A u \in Tokens : LeasedBy(u)' <=> LeasedBy(u)
  BY <1>1, <1>2, RowsAssumption, StoreUntouched DEF RunOK, TasksTyped, RunTyped
<1>4. ASSUME NEW v \in Workers PROVE CountsOK(v)'
  <2>1. SameCounters(v) /\ Owned(v)' = Owned(v) /\ Decided(v)' = Decided(v)
    BY <1>1 DEF SameCounters, Answered, Owned, Decided
  <2>2. Pending(v)' = Pending(v)
    <3>1. ASSUME NEW u \in Owned(v)
          PROVE  claimed'[v] = u \/ entry'[u] # "absent" <=> claimed[v] = u \/ entry[u] # "absent"
      BY <1>2, <1>3, RowsAssumption DEF Owned
    <3>2. QED
      BY <2>1, <3>1 DEF Pending
  <2>3. Left(v)' \subseteq Left(v)
    BY <1>1, <1>3, <2>1, <2>2 DEF Left, Owned
  <2>4. QED
    BY <2>1, <2>2, <2>3, CountsKept
<1>5. QED
  BY <1>1, <1>4 DEF Counts

(* What the tasks do: each step but the last leaves the token pending.     *)
LEMMA CountsTasks ==
    ASSUME WorkerInv, Counts, NEW t \in Tokens, WrapperStep(t) \/ HandlerEnds(t) PROVE Counts'
<1>1. LeaseInv /\ TasksTyped /\ TokenOK(t) /\ now \in Time
  BY TokenKnown
<1>2. /\ UNCHANGED <<claimed, report, owner>>
      /\ \A u \in Tokens \ {t} : entry'[u] = entry[u] /\ outcome'[u] = outcome[u]
  BY <1>1
  DEF WrapperStep, OwnStep, Starts, HasNoHandler, SeesEnd, TimesOut, Joins, JoinTimesOut, Settles,
      HandlerEnds, runVars, TasksTyped
<1>3. CASE Settles(t)
  <2>1. /\ wrapper[t] = "settling" /\ outcome[t] \in Endings /\ entry[t] # "absent"
        /\ outcome' = outcome /\ outcome[t] # "none"
    BY <1>1, <1>3 DEF Settles, TokenOK, TasksTyped
  <2>2. /\ \A u \in Tokens : LeasedBy(u)' => LeasedBy(u)
        /\ unrecorded \subseteq unrecorded' /\ (LeasedBy(t)' => t \in unrecorded')
    <3>1. CASE StoreSettles(t) /\ UNCHANGED unrecorded
      BY <1>1, <2>1, <3>1, StoreSettling DEF SettledUnder
    <3>2. CASE UNCHANGED storeVars /\ unrecorded' = unrecorded \cup {t}
      BY <1>1, <3>2, StoreUntouched
    <3>3. QED
      BY <1>3, <3>1, <3>2 DEF Settles
  <2>3. QED
    BY <1>1, <1>2, <2>1, <2>2, CountsTask
<1>4. CASE ~Settles(t)
  <2>1. UNCHANGED storeVars /\ unrecorded' = unrecorded
    BY <1>4
    DEF WrapperStep, OwnStep, Starts, HasNoHandler, SeesEnd, TimesOut, Joins, JoinTimesOut, HandlerEnds,
        historyVars
  <2>2. \A u \in Tokens : LeasedBy(u)' => LeasedBy(u)
    BY <1>1, <2>1, StoreUntouched
  <2>3. /\ entry[t] = "absent" <=> entry'[t] = "absent"
        /\ outcome[t] # "none" => outcome'[t] # "none"
    <3>1. CASE Starts(t) \/ HasNoHandler(t)
      BY <1>1, <3>1 DEF Starts, HasNoHandler, TokenOK, TasksTyped
    <3>2. CASE SeesEnd(t)
      <4>1. /\ wrapper[t] = "running" /\ entry[t] = "running" /\ entry'[t] = "terminated"
            /\ handler[t] \in Endings \cup {"cancelled"}
        BY <1>1, <3>2 DEF SeesEnd, TokenOK, TasksTyped
      <4>2. outcome[t] # "none" => outcome'[t] # "none"
        BY <1>1, <3>2, <4>1 DEF SeesEnd, TasksTyped, Endings
      <4>3. QED
        BY <4>1, <4>2
    <3>3. CASE TimesOut(t) \/ Joins(t) \/ JoinTimesOut(t) \/ HandlerEnds(t)
      BY <1>1, <3>3 DEF TimesOut, Joins, JoinTimesOut, HandlerEnds, TokenOK, TasksTyped
    <3>4. QED
      BY <1>4, <3>1, <3>2, <3>3 DEF WrapperStep, OwnStep
  <2>4. QED
    BY <1>1, <1>2, <2>1, <2>2, <2>3, CountsTask
<1>5. QED
  BY <1>3, <1>4

LEMMA CountsAborts ==
    ASSUME WorkerInv, Counts, NEW w \in Workers, NEW t \in Tokens, AbortsWrapper(w, t)
    PROVE  Counts'
<1>1. LeaseInv /\ TasksTyped /\ TokenOK(t) /\ now \in Time
  BY TokenKnown
<1>2. /\ UNCHANGED <<claimed, report, owner, entry, outcome>> /\ unrecorded' = unrecorded
  BY DEF AbortsWrapper, runVars, historyVars
<1>3. \A u \in Tokens : LeasedBy(u)' => LeasedBy(u)
  <2>1. CASE wrapper[t] = "settling" /\ StoreSettles(t)
    <3>1. outcome[t] \in Endings
      BY <1>1, <2>1 DEF TokenOK, TasksTyped
    <3>2. QED
      BY <1>1, <2>1, <3>1, StoreSettling DEF SettledUnder
  <2>2. CASE UNCHANGED storeVars
    BY <1>1, <2>2, StoreUntouched
  <2>3. QED
    BY <2>1, <2>2 DEF AbortsWrapper
<1>4. QED
  BY <1>1, <1>2, <1>3, CountsTask

(* The steps that answer for a token. *)
LEMMA CountsGivesBack ==
    ASSUME WorkerInv, Counts, NEW w \in Workers, GivesBack(w) PROVE Counts'
<1>1. /\ LeaseInv /\ RunTyped /\ RunOK(w) /\ now \in Time /\ loop[w] = "give_back"
      /\ UNCHANGED <<owner, wrapper, entry, outcome, unrecorded>>
      /\ claimed' = [claimed EXCEPT ![w] = NoLease]
  BY RunKnown DEF GivesBack, taskVars, historyVars
<1>2. PICK t \in Tokens : t = claimed[w] /\ ReleaseEnds(w, t)
  BY <1>1, RunKnown DEF RunOK, GivesBack
<1>3. /\ owner[t] = w /\ entry[t] = "absent" /\ t \in Pending(w)
      /\ claimed'[w] = NoLease /\ \A v \in Workers \ {w} : claimed'[v] = claimed[v]
  BY <1>1, <1>2, RowsAssumption, TokenKnown DEF RunOK, TokenOK, Pending, Owned, RunTyped
<1>4. PICK field \in {"released", "unconfirmed"} :
         Count(w, field, 1) /\ (LeasedBy(t)' => field # "released")
  BY <1>1, <1>2, ReleaseEnding
<1>5. \A u \in Tokens \ {t} : LeasedBy(u)' => LeasedBy(u)
  BY <1>1, <1>2, ReleaseEnding
<1>6. t # NoLease /\ \A u \in Tokens \ {t} : claimed'[w] = u <=> claimed[w] = u
  BY <1>2, <1>3, RowsAssumption
<1>7. /\ UNCHANGED <<owner, outcome, unrecorded>> /\ entry'[t] = "absent" /\ claimed'[w] # t
      /\ \A u \in Tokens \ {t} : entry'[u] = entry[u]
  BY <1>1, <1>3, <1>6
<1>8. QED
  BY <1>3, <1>4, <1>5, <1>6, <1>7, CountsAnswered

LEMMA CountsGivesLeaseBack ==
    ASSUME WorkerInv, Counts, NEW w \in Workers, NEW t \in Tokens, GivesLeaseBack(w, t)
    PROVE  Counts'
<1>1. /\ LeaseInv /\ TasksTyped /\ now \in Time /\ owner[t] = w /\ entry[t] # "absent"
      /\ claimed[w] # t
  BY InFlightAtRelease DEF GivesLeaseBack
<1>2. /\ UNCHANGED <<owner, claimed, outcome, unrecorded>> /\ entry'[t] = "absent"
      /\ \A u \in Tokens \ {t} : entry'[u] = entry[u]
  BY <1>1 DEF GivesLeaseBack, TasksTyped, historyVars
<1>3. PICK field \in {"released", "unconfirmed"} :
         Count(w, field, 1) /\ (LeasedBy(t)' => field # "released")
  BY <1>1, ReleaseEnding DEF GivesLeaseBack
<1>4. \A u \in Tokens \ {t} : LeasedBy(u)' => LeasedBy(u)
  BY <1>1, ReleaseEnding DEF GivesLeaseBack
<1>5. t \in Pending(w)
  BY <1>1 DEF Pending, Owned
<1>6. QED
  BY <1>1, <1>2, <1>3, <1>4, <1>5, CountsAnswered

LEMMA CountsWithholds ==
    ASSUME WorkerInv, Counts, NEW w \in Workers, NEW t \in Tokens, Withholds(w, t)
    PROVE  Counts'
<1>1. /\ LeaseInv /\ TasksTyped /\ owner[t] = w /\ entry[t] # "absent" /\ claimed[w] # t
  BY InFlightAtRelease DEF Withholds
<1>2. /\ UNCHANGED <<owner, claimed, outcome, unrecorded>> /\ entry'[t] = "absent"
      /\ \A u \in Tokens \ {t} : entry'[u] = entry[u]
      /\ Count(w, "withheld", 1)
  BY <1>1 DEF Withholds, TasksTyped, historyVars
<1>3. \A u \in Tokens : LeasedBy(u)' => LeasedBy(u)
  BY <1>1, StoreUntouched DEF Withholds
<1>4. t \in Pending(w)
  BY <1>1 DEF Pending, Owned
<1>5. QED
  BY <1>1, <1>2, <1>3, <1>4, CountsAnswered

(* Every other step of a run leaves the executions where they are. *)
LEMMA CountsRuns ==
    ASSUME WorkerInv, Counts, NEW w \in Workers, RunStep(w) PROVE Counts'
<1>1. LeaseInv /\ now \in Time /\ RunOK(w)
  BY RunKnown
<1>2. CASE \/ LookAtScope(w) \/ FindsSlotsTaken(w) \/ GateRefuses(w) \/ EndsGracefully(w)
           \/ GraceEnds(w) \/ JoinsWrappers(w) \/ Reports(w)
  <2>1. UNCHANGED storeVars /\ UNCHANGED <<claimed, report, owner, entry, outcome, unrecorded>>
    BY <1>2
    DEF LookAtScope, FindsSlotsTaken, GateRefuses, EndsGracefully, GraceEnds, JoinsWrappers,
        Reports, taskVars, historyVars
  <2>2. \A u \in Tokens : LeasedBy(u)' => LeasedBy(u)
    BY <1>1, <2>1, StoreUntouched
  <2>3. QED
    BY <1>1, <2>1, <2>2, CountsQuiet DEF Counts, SameCounters, Answered, LeaseInv, TypeOK
<1>3. CASE Sweeps(w)
  <2>1. /\ UNCHANGED storeVars /\ UNCHANGED <<claimed, owner, entry, outcome, unrecorded>>
        /\ Count(w, "aborted", Cardinality(InFlight(w)))
    BY <1>3 DEF Sweeps, historyVars
  <2>2. Cardinality(InFlight(w)) \in Nat
    <3>1. IsFiniteSet(Owned(w)) /\ InFlight(w) \subseteq Owned(w)
      BY CountsKnown DEF CountsOK, InFlight, Owned
    <3>2. QED
      BY <3>1, FS_Subset, FS_CardinalityType
  <2>3. report' \in [Workers -> Reported] /\ \A v \in Workers : SameCounters(v)
    BY <2>1, <2>2, Counted DEF Counts, SameCounters, Answered
  <2>4. \A u \in Tokens : LeasedBy(u)' => LeasedBy(u)
    BY <1>1, <2>1, StoreUntouched
  <2>5. QED
    BY <1>1, <2>1, <2>3, <2>4, CountsQuiet DEF LeaseInv, TypeOK
<1>4. CASE ClaimsNothing(w)
  <2>1. UNCHANGED <<claimed, report, owner, entry, outcome, unrecorded>>
    BY <1>4 DEF ClaimsNothing, taskVars
  <2>2. \A u \in Tokens : LeasedBy(u)' => LeasedBy(u)
    <3>1. CASE UNCHANGED <<storeVars, expired>>
      BY <1>1, <3>1, StoreUntouched
    <3>2. CASE \E q \in Queues : Reclaim(q, Expired(q, now), now)
      BY <1>1, <3>2, ReclaimTakes
    <3>3. QED
      BY <1>4, <3>1, <3>2 DEF ClaimsNothing
  <2>3. QED
    BY <1>1, <2>1, <2>2, CountsQuiet DEF Counts, SameCounters, Answered, LeaseInv, TypeOK
<1>5. ASSUME NEW t \in Tokens, ClaimIsLost(w, t) PROVE Counts'
  <2>1. UNCHANGED <<claimed, report, owner, entry, outcome, unrecorded>>
    BY <1>5 DEF ClaimIsLost, taskVars
  <2>2. t \notin issued /\ \A u \in Tokens \ {t} : LeasedBy(u)' => LeasedBy(u)
    <3>1. PICK q \in Queues, j \in JobIds, d \in LeaseTimes :
             Claim(q, Expired(q, now), j, t, d, now)
      BY <1>5 DEF ClaimIsLost
    <3>2. QED
      BY <1>1, <3>1, ClaimTakes
  <2>3. \A u \in issued : LeasedBy(u)' => LeasedBy(u)
    BY <1>1, <2>2 DEF LeaseInv, TypeOK
  <2>4. QED
    BY <2>1, <2>3, CountsQuiet DEF Counts, SameCounters, Answered
<1>6. CASE \E t \in Tokens : \/ Claims(w, t) \/ AbortsWrapper(w, t)
                             \/ Withholds(w, t) \/ GivesLeaseBack(w, t)
  BY <1>6, CountsClaims, CountsAborts, CountsWithholds, CountsGivesLeaseBack
<1>7. CASE Begins(w) \/ GivesBack(w)
  BY <1>7, CountsBegins, CountsGivesBack
<1>8. QED
  BY <1>2, <1>3, <1>4, <1>5, <1>6, <1>7 DEF RunStep, LoopStep, ClaimEnds

LEMMA StepCounts == WorkerInv /\ Counts /\ [WorkerNext]_workerVars => Counts'
<1> SUFFICES ASSUME WorkerInv, Counts, [WorkerNext]_workerVars PROVE Counts'
  OBVIOUS
<1>1. ASSUME UNCHANGED storeVars,
             UNCHANGED <<claimed, report, owner, entry, outcome, unrecorded>>
      PROVE  Counts'
  <2>1. \A u \in issued : LeasedBy(u)' => LeasedBy(u)
    BY <1>1, StoreUntouched DEF WorkerInv, LeaseInv, TypeOK
  <2>2. QED
    BY <1>1, <2>1, CountsQuiet DEF Counts, SameCounters, Answered
<1>2. CASE UNCHANGED workerVars \/ Tick
  BY <1>1, <1>2 DEF workerVars, Tick, runVars, taskVars, historyVars
<1>3. ASSUME NEW w \in Workers, DrainBegins(w) \/ StopBegins(w) PROVE Counts'
  BY <1>1, <1>3 DEF DrainBegins, StopBegins, taskVars, historyVars
<1>4. ASSUME NEW w \in Workers, RunStep(w) \/ Crashes(w) PROVE Counts'
  BY <1>4, CountsRuns, CountsCrash
<1>5. ASSUME NEW t \in Tokens, WrapperStep(t) \/ HandlerEnds(t) PROVE Counts'
  BY <1>5, CountsTasks
<1>6. QED
  BY <1>2, <1>3, <1>4, <1>5 DEF WorkerNext

LEMMA InitCounts == WorkerInit => Counts
<1> SUFFICES ASSUME WorkerInit PROVE Counts
  OBVIOUS
<1>1. report \in [Workers -> Reported]
  BY DEF WorkerInit, NoReport, Reported
<1>2. ASSUME NEW w \in Workers PROVE CountsOK(w)
  <2>1. Owned(w) = {}
    BY WorkersAssumption DEF WorkerInit, Owned
  <2>2. Left(w) = {} /\ Pending(w) = {} /\ Pending(w) \cup Decided(w) = {}
    BY <2>1 DEF Left, Pending, Decided
  <2>3. report[w] = NoReport
    BY DEF WorkerInit
  <2>4. QED
    BY <2>1, <2>2, <2>3, FS_EmptySet DEF CountsOK, Answered, NoReport
<1>3. QED
  BY <1>1, <1>2 DEF Counts

(* The report of a run that has stopped accounts for each job it claimed,  *)
(* and for every lease it left in the store but those whose                *)
(* transition the store refused or never answered (worker.rs, WorkerReport *)
(* and the release loop of run).                                           *)
THEOREM ReportsAddUp == WorkerSpec => []ReportAddsUp
<1>1. WorkerInv /\ Counts => ReportAddsUp
  <2> SUFFICES ASSUME WorkerInv, Counts, NEW w \in Workers, loop[w] = "stopped"
               PROVE  LeftLeasedIsReported(w) /\ ClaimsAccounted(w)
    BY DEF ReportAddsUp
  <2>1. Pending(w) = {}
    BY RunKnown, RowsAssumption DEF RunOK, Pending, Owned
  <2>2. {t \in Tokens : owner[t] = w /\ t \notin unrecorded /\
                           \E j \in JobIds : job[j].state = "leased" /\ job[j].lease = t} = Left(w)
    BY <2>1 DEF Left, Owned, LeasedBy
  <2>3. {t \in Tokens : owner[t] = w /\ outcome[t] # "none"} = Pending(w) \cup Decided(w)
    BY <2>1 DEF Decided, Owned
  <2>4. CountsOK(w) /\ Cardinality(Pending(w)) = 0
    BY <2>1, CountsKnown, FS_EmptySet
  <2>5. LeftLeasedIsReported(w)
    BY <2>2, <2>4 DEF LeftLeasedIsReported, CountsOK
  <2>6. ClaimsAccounted(w)
    BY <2>3, <2>4, CountsKnown DEF ClaimsAccounted, CountsOK, Answered, Reported
  <2>7. QED
    BY <2>5, <2>6
<1>2. WorkerSpec => []Counts
  <2>1. WorkerInv /\ Counts /\ [WorkerNext]_workerVars => Counts'
    BY StepCounts
  <2>2. QED
    BY <2>1, InitCounts, WorkerInvariant, PTL DEF WorkerSpec
<1>3. QED
  BY <1>1, <1>2, WorkerInvariant, PTL
==============================================================================

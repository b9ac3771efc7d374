------------------------------ MODULE JobWorker ------------------------------
(***************************************************************************)
(* crates/renvor-jobs/src/worker.rs and provider.rs: workers that claim    *)
(* jobs from one store and run them, each in a process with a kernel work  *)
(* gate, and the stop that aborts what is still running and gives the      *)
(* leases back.  Every lease token names one execution, with a wrapper     *)
(* task that owns its slot and its permit, and a handler task of its own.  *)
(*                                                                         *)
(* The store is the port's contract (JobContract), whose calls also fail,  *)
(* take effect without the caller hearing of it, or answer too late.  The  *)
(* timers (handler timeout, stop grace, abort join, release) may run out   *)
(* whenever they are running.                                              *)
(***************************************************************************)
EXTENDS JobContract

CONSTANTS
    Workers,      \* one per process
    NoWorker,
    Concurrency   \* WorkerConfig::concurrency

ASSUME WorkersAssumption ==
    /\ NoWorker \notin Workers
    /\ Concurrency \in Nat \ {0}

VARIABLES
    now,         \* the clock of the processes
    loop,        \* where Worker::run is
    claimed,     \* the token it has claimed and not yet spawned or given back
    closed,      \* the WorkGate of the process is closed: Drain has begun
    cancelled,   \* the run's scope is cancelled: provider Stop has begun
    stopping,    \* InFlightState::stopping
    report,      \* WorkerReport
    owner,       \* the worker that claimed each token
    wrapper,     \* the task run_one runs in
    handler,     \* the handler's task: running, or how it ended
    entry,       \* InFlightState::jobs: where stop thinks the handler is
    aborted,     \* handler tasks whose abort has been requested
    outcome,     \* what the wrapper will record
    expired,     \* history: tokens reclaimed because their lease expired
    unjoined,    \* history: handlers that timed out and could not be joined
    unrecorded   \* history: executions whose transition the store did not make

runVars == <<now, loop, claimed, closed, cancelled, stopping, report>>
taskVars == <<owner, wrapper, handler, entry, aborted, outcome>>
historyVars == <<expired, unjoined, unrecorded>>
storeVars == <<job, issued, revived>>
workerVars == <<storeVars, runVars, taskVars, historyVars>>

(* unconfirmed is release_failed + release_timed_out. *)
NoReport == [claimed |-> 0, aborted |-> 0, released |-> 0, unconfirmed |-> 0, withheld |-> 0]

(* The jobs were enqueued before the workers started. *)
WorkerInit ==
    /\ \E q \in Queues, m \in Limits : job = [j \in JobIds |-> NewReady(q, NoKey, m, 0)]
    /\ issued = {}
    /\ revived = [q \in Queues |-> 0]
    /\ now = 0
    /\ loop = [w \in Workers |-> "outer"]
    /\ claimed = [w \in Workers |-> NoLease]
    /\ closed = [w \in Workers |-> FALSE]
    /\ cancelled = [w \in Workers |-> FALSE]
    /\ stopping = [w \in Workers |-> FALSE]
    /\ report = [w \in Workers |-> NoReport]
    /\ owner = [t \in Tokens |-> NoWorker]
    /\ wrapper = [t \in Tokens |-> "none"]
    /\ handler = [t \in Tokens |-> "none"]
    /\ entry = [t \in Tokens |-> "absent"]
    /\ aborted = {}
    /\ outcome = [t \in Tokens |-> "none"]
    /\ expired = {} /\ unjoined = {} /\ unrecorded = {}

LiveWrapper == {"spawned", "running", "joining", "settling"}

Wrappers(w) == {t \in Tokens : owner[t] = w /\ wrapper[t] \in LiveWrapper}

InFlight(w) == {t \in Tokens : owner[t] = w /\ entry[t] # "absent"}

Held(t) == \E j \in JobIds : job[j].lease = t

GoTo(w, label) == loop' = [loop EXCEPT ![w] = label]

Count(w, field, n) == report' = [report EXCEPT ![w][field] = @ + n]

------------------------------------------------------------------------------
(* The run loop *)

(* 'outer: the only place the loop looks at its scope. *)
(* Mutant: only a run that has not claimed yet looks at its scope.         *)
LookAtScopeAtFirst(w) ==
    /\ loop[w] = "outer"
    /\ GoTo(w, IF cancelled[w] /\ issued = {} THEN "grace" ELSE "claim")
    /\ UNCHANGED <<storeVars, now, claimed, closed, cancelled, stopping, report, taskVars,
                   historyVars>>

LookAtScope(w) ==
    /\ loop[w] = "outer"
    /\ GoTo(w, IF cancelled[w] THEN "grace" ELSE "claim")
    /\ UNCHANGED <<storeVars, now, claimed, closed, cancelled, stopping, report, taskVars,
                   historyVars>>

SlotFree(w) == Cardinality(Wrappers(w)) < Concurrency

FindsSlotsTaken(w) ==
    /\ loop[w] = "claim"
    /\ ~SlotFree(w)
    /\ GoTo(w, "outer")
    /\ UNCHANGED <<storeVars, now, claimed, closed, cancelled, stopping, report, taskVars,
                   historyVars>>

(* The queue has nothing due, or the claim failed with nothing but its     *)
(* reclaim done.                                                           *)
ClaimsNothing(w) ==
    /\ loop[w] = "claim"
    /\ SlotFree(w)
    /\ \/ UNCHANGED <<storeVars, expired>>
       \/ \E q \in Queues :
             /\ Reclaim(q, Expired(q, now), now)
             /\ expired' = expired \cup {job[j].lease : j \in Expired(q, now)}
    /\ GoTo(w, "outer")
    /\ UNCHANGED <<now, claimed, closed, cancelled, stopping, report, taskVars, unjoined,
                   unrecorded>>

(* The claim commits and its answer is lost: no worker knows the token. *)
ClaimIsLost(w, t) ==
    /\ loop[w] = "claim"
    /\ SlotFree(w)
    /\ \E q \in Queues, j \in JobIds, d \in LeaseTimes : Claim(q, Expired(q, now), j, t, d, now)
    /\ expired' = expired \cup
          UNION {{job[j].lease : j \in Expired(q, now)} : q \in Queues}
    /\ GoTo(w, "outer")
    /\ UNCHANGED <<now, claimed, closed, cancelled, stopping, report, taskVars, unjoined,
                   unrecorded>>

Claims(w, t) ==
    /\ loop[w] = "claim"
    /\ SlotFree(w)
    /\ \E q \in Queues, j \in JobIds, d \in LeaseTimes : Claim(q, Expired(q, now), j, t, d, now)
    /\ expired' = expired \cup
          UNION {{job[j].lease : j \in Expired(q, now)} : q \in Queues}
    /\ claimed' = [claimed EXCEPT ![w] = t]
    /\ owner' = [owner EXCEPT ![t] = w]
    /\ Count(w, "claimed", 1)
    /\ GoTo(w, "begin")
    /\ UNCHANGED <<now, closed, cancelled, stopping, wrapper, handler, entry, aborted, outcome,
                   unjoined, unrecorded>>

(* The gate grants a permit: the job is registered, then its wrapper       *)
(* spawned, and the inner loop claims again.                               *)
Begins(w) ==
    /\ loop[w] = "begin"
    /\ ~closed[w]
    /\ LET t == claimed[w]
       IN  /\ entry' = [entry EXCEPT ![t] = "not_started"]
           /\ wrapper' = [wrapper EXCEPT ![t] = "spawned"]
    /\ claimed' = [claimed EXCEPT ![w] = NoLease]
    /\ GoTo(w, "claim")
    /\ UNCHANGED <<storeVars, now, closed, cancelled, stopping, report, owner, handler, aborted,
                   outcome, historyVars>>

(* The gate is closed: the job goes back and the loop ends. *)
GateRefuses(w) ==
    /\ loop[w] = "begin"
    /\ closed[w]
    /\ GoTo(w, "give_back")
    /\ UNCHANGED <<storeVars, now, claimed, closed, cancelled, stopping, report, taskVars,
                   historyVars>>

(* release_lease: confirmed, refused, or not answered in time; what is not *)
(* confirmed may have been done.                                           *)
ReleaseEnds(w, t) ==
    \/ /\ \E j \in JobIds : Release(j, t, now)
       /\ \E field \in {"released", "unconfirmed"} : Count(w, field, 1)
    \/ /\ UNCHANGED storeVars
       /\ Count(w, "unconfirmed", 1)

GivesBack(w) ==
    /\ loop[w] = "give_back"
    /\ ReleaseEnds(w, claimed[w])
    /\ claimed' = [claimed EXCEPT ![w] = NoLease]
    /\ GoTo(w, "grace")
    /\ UNCHANGED <<now, closed, cancelled, stopping, taskVars, historyVars>>

------------------------------------------------------------------------------
(* run_one *)

(* Mutant: the sweep's flag is not looked at. *)
StartsUnaware(t) ==
    /\ wrapper[t] = "spawned"
    /\ wrapper' = [wrapper EXCEPT ![t] = "running"]
    /\ handler' = [handler EXCEPT ![t] = "running"]
    /\ entry' = [entry EXCEPT ![t] = "running"]
    /\ UNCHANGED <<storeVars, runVars, owner, outcome, aborted, historyVars>>

(* The wrapper's first poll: the handler is spawned and registered under   *)
(* the lock the sweep takes, and aborted at once if the sweep is over.     *)
Starts(t) ==
    /\ wrapper[t] = "spawned"
    /\ wrapper' = [wrapper EXCEPT ![t] = "running"]
    /\ handler' = [handler EXCEPT ![t] = "running"]
    /\ entry' = [entry EXCEPT ![t] = "running"]
    /\ aborted' = IF stopping[owner[t]] THEN aborted \cup {t} ELSE aborted
    /\ UNCHANGED <<storeVars, runVars, owner, outcome, historyVars>>

(* No handler is registered for the kind: nothing is spawned. *)
HasNoHandler(t) ==
    /\ wrapper[t] = "spawned"
    /\ wrapper' = [wrapper EXCEPT ![t] = "settling"]
    /\ outcome' = [outcome EXCEPT ![t] = "abandoned"]
    /\ UNCHANGED <<storeVars, runVars, owner, handler, entry, aborted, historyVars>>

(* The handler's own task: it returns, fails or panics, or is dropped at   *)
(* its next await after an abort.  One that holds its thread never is.     *)
HandlerEnds(t) ==
    /\ handler[t] = "running"
    /\ \E how \in {"ok", "retryable", "abandoned"} \cup (IF t \in aborted THEN {"cancelled"} ELSE {}) :
          handler' = [handler EXCEPT ![t] = how]
    /\ UNCHANGED <<storeVars, runVars, owner, wrapper, entry, aborted, outcome, historyVars>>

(* The wrapper sees its handler's task end: by itself, or at the sweep's   *)
(* abort, when the lease is left for run to release.                       *)
SeesEnd(t) ==
    /\ wrapper[t] = "running"
    /\ handler[t] # "running"
    /\ entry' = [entry EXCEPT ![t] = "terminated"]
    /\ handler' = [handler EXCEPT ![t] = "joined"]
    /\ IF handler[t] = "cancelled"
       THEN wrapper' = [wrapper EXCEPT ![t] = "done"] /\ UNCHANGED outcome
       ELSE /\ wrapper' = [wrapper EXCEPT ![t] = "settling"]
            /\ outcome' = [outcome EXCEPT ![t] = handler[t]]
    /\ UNCHANGED <<storeVars, runVars, owner, aborted, historyVars>>

(* The handler timeout: abort, then join. *)
TimesOut(t) ==
    /\ wrapper[t] = "running"
    /\ handler[t] = "running"
    /\ aborted' = aborted \cup {t}
    /\ outcome' = [outcome EXCEPT ![t] = "retryable"]
    /\ wrapper' = [wrapper EXCEPT ![t] = "joining"]
    /\ UNCHANGED <<storeVars, runVars, owner, handler, entry, historyVars>>

Joins(t) ==
    /\ wrapper[t] = "joining"
    /\ handler[t] # "running"
    /\ entry' = [entry EXCEPT ![t] = "terminated"]
    /\ handler' = [handler EXCEPT ![t] = "joined"]
    /\ wrapper' = [wrapper EXCEPT ![t] = "settling"]
    /\ UNCHANGED <<storeVars, runVars, owner, aborted, outcome, historyVars>>

(* ABORT_JOIN_TIMEOUT: the attempt is recorded all the same.               *)
JoinTimesOut(t) ==
    /\ wrapper[t] = "joining"
    /\ handler[t] = "running"
    /\ unjoined' = unjoined \cup {t}
    /\ wrapper' = [wrapper EXCEPT ![t] = "settling"]
    /\ UNCHANGED <<storeVars, runVars, owner, handler, entry, aborted, outcome, expired,
                   unrecorded>>

(* complete or fail, whatever it answers: nothing is left for run to do.   *)
StoreSettles(t) ==
    \E j \in JobIds :
       \/ outcome[t] = "ok" /\ Complete(j, t)
       \/ \E next \in now .. MaxTime : outcome[t] # "ok" /\ Fail(j, t, outcome[t], next)

Settles(t) ==
    /\ wrapper[t] = "settling"
    /\ \/ StoreSettles(t) /\ UNCHANGED unrecorded
       \/ UNCHANGED storeVars /\ unrecorded' = unrecorded \cup {t}
    /\ wrapper' = [wrapper EXCEPT ![t] = "done"]
    /\ entry' = [entry EXCEPT ![t] = "absent"]
    /\ UNCHANGED <<runVars, owner, handler, aborted, outcome, expired, unjoined>>

------------------------------------------------------------------------------
(* The stop *)

Stopped(w) == loop' = [loop EXCEPT ![w] = "stopped"]

(* Every wrapper ended inside the grace. *)
EndsGracefully(w) ==
    /\ loop[w] = "grace"
    /\ Wrappers(w) = {}
    /\ Stopped(w)
    /\ UNCHANGED <<storeVars, now, claimed, closed, cancelled, stopping, report, taskVars,
                   historyVars>>

(* The stop grace runs out first. *)
GraceEnds(w) ==
    /\ loop[w] = "grace"
    /\ Wrappers(w) # {}
    /\ GoTo(w, "sweep")
    /\ UNCHANGED <<storeVars, now, claimed, closed, cancelled, stopping, report, taskVars,
                   historyVars>>

(* The sweep, under the lock. *)
Sweeps(w) ==
    /\ loop[w] = "sweep"
    /\ stopping' = [stopping EXCEPT ![w] = TRUE]
    /\ aborted' = aborted \cup {t \in InFlight(w) : entry[t] = "running"}
    /\ Count(w, "aborted", Cardinality(InFlight(w)))
    /\ GoTo(w, "join")
    /\ UNCHANGED <<storeVars, now, claimed, closed, cancelled, owner, wrapper, handler, entry,
                   outcome, historyVars>>

(* The wrappers have all ended, or the bound of the join aborts them where *)
(* they are: a transition on its way is made or not.                       *)
JoinsWrappers(w) ==
    /\ loop[w] = "join"
    /\ Wrappers(w) = {}
    /\ GoTo(w, "release")
    /\ UNCHANGED <<storeVars, now, claimed, closed, cancelled, stopping, report, taskVars,
                   historyVars>>

AbortsWrapper(w, t) ==
    /\ loop[w] = "join"
    /\ t \in Wrappers(w)
    /\ \/ UNCHANGED storeVars
       \/ wrapper[t] = "settling" /\ StoreSettles(t)
    /\ wrapper' = [wrapper EXCEPT ![t] = "done"]
    /\ UNCHANGED <<runVars, owner, handler, entry, aborted, outcome, historyVars>>

(* Mutant: a lease that is kept is not counted. *)
WithholdsSilently(w, t) ==
    /\ loop[w] = "release"
    /\ t \in InFlight(w)
    /\ entry[t] = "running"
    /\ entry' = [entry EXCEPT ![t] = "absent"]
    /\ UNCHANGED <<storeVars, runVars, owner, wrapper, handler, aborted, outcome, historyVars>>

(* A lease under a handler that may still run is kept. *)
Withholds(w, t) ==
    /\ loop[w] = "release"
    /\ t \in InFlight(w)
    /\ entry[t] = "running"
    /\ entry' = [entry EXCEPT ![t] = "absent"]
    /\ Count(w, "withheld", 1)
    /\ UNCHANGED <<storeVars, now, loop, claimed, closed, cancelled, stopping, owner, wrapper,
                   handler, aborted, outcome, historyVars>>

(* Mutant: the handler's own account is not looked at. *)
GivesAnyLeaseBack(w, t) ==
    /\ loop[w] = "release"
    /\ t \in InFlight(w)
    /\ ReleaseEnds(w, t)
    /\ entry' = [entry EXCEPT ![t] = "absent"]
    /\ UNCHANGED <<now, loop, claimed, closed, cancelled, stopping, owner, wrapper, handler,
                   aborted, outcome, historyVars>>

GivesLeaseBack(w, t) ==
    /\ loop[w] = "release"
    /\ t \in InFlight(w)
    /\ entry[t] # "running"
    /\ ReleaseEnds(w, t)
    /\ entry' = [entry EXCEPT ![t] = "absent"]
    /\ UNCHANGED <<now, loop, claimed, closed, cancelled, stopping, owner, wrapper, handler,
                   aborted, outcome, historyVars>>

Reports(w) ==
    /\ loop[w] = "release"
    /\ InFlight(w) = {}
    /\ Stopped(w)
    /\ UNCHANGED <<storeVars, now, claimed, closed, cancelled, stopping, report, taskVars,
                   historyVars>>

------------------------------------------------------------------------------
(* The process around the worker *)

(* The kernel's Drain closes the gate ... *)
DrainBegins(w) ==
    /\ loop[w] \notin {"stopped", "crashed"}
    /\ ~closed[w]
    /\ closed' = [closed EXCEPT ![w] = TRUE]
    /\ UNCHANGED <<storeVars, now, loop, claimed, cancelled, stopping, report, taskVars,
                   historyVars>>

(* ... and the provider's stop cancels the scope: after Drain, or without  *)
(* one when a later provider fails to boot.                                *)
StopBegins(w) ==
    /\ loop[w] \notin {"stopped", "crashed"}
    /\ ~cancelled[w]
    /\ cancelled' = [cancelled EXCEPT ![w] = TRUE]
    /\ UNCHANGED <<storeVars, now, loop, claimed, closed, stopping, report, taskVars, historyVars>>

(* The process dies with its tasks and everything it kept. *)
Crashes(w) ==
    /\ loop[w] \notin {"stopped", "crashed"}
    /\ GoTo(w, "crashed")
    /\ claimed' = [claimed EXCEPT ![w] = NoLease]
    /\ closed' = [closed EXCEPT ![w] = FALSE]
    /\ cancelled' = [cancelled EXCEPT ![w] = FALSE]
    /\ stopping' = [stopping EXCEPT ![w] = FALSE]
    /\ report' = [report EXCEPT ![w] = NoReport]
    /\ LET mine == {t \in Tokens : owner[t] = w}
           Reset(f, value) == [t \in Tokens |-> IF t \in mine THEN value ELSE f[t]]
       IN  /\ owner' = Reset(owner, NoWorker)
           /\ wrapper' = Reset(wrapper, "none")
           /\ handler' = Reset(handler, "none")
           /\ entry' = Reset(entry, "absent")
           /\ outcome' = Reset(outcome, "none")
           /\ aborted' = aborted \ mine
    /\ UNCHANGED <<storeVars, now, historyVars>>

Tick ==
    /\ now < MaxTime
    /\ now' = now + 1
    /\ UNCHANGED <<storeVars, loop, claimed, closed, cancelled, stopping, report, taskVars,
                   historyVars>>

------------------------------------------------------------------------------

(* What the run loop owes: its own steps, and the waits that have a timer. *)
LoopStep(w) ==
    \/ LookAtScope(w) \/ FindsSlotsTaken(w) \/ Begins(w) \/ GateRefuses(w) \/ GivesBack(w)
    \/ EndsGracefully(w) \/ GraceEnds(w) \/ Sweeps(w) \/ JoinsWrappers(w) \/ Reports(w)
    \/ \E t \in Tokens : AbortsWrapper(w, t) \/ Withholds(w, t) \/ GivesLeaseBack(w, t)

(* How a claim ends, if it does: nothing bounds the wait for it. *)
ClaimEnds(w) ==
    \/ ClaimsNothing(w)
    \/ \E t \in Tokens : Claims(w, t) \/ ClaimIsLost(w, t)

RunStep(w) == LoopStep(w) \/ ClaimEnds(w)

(* What a wrapper owes; the store's answer to complete or fail is not.     *)
OwnStep(t) ==
    Starts(t) \/ HasNoHandler(t) \/ SeesEnd(t) \/ TimesOut(t) \/ Joins(t) \/ JoinTimesOut(t)

WrapperStep(t) == OwnStep(t) \/ Settles(t)

WorkerNext ==
    \/ \E w \in Workers : RunStep(w) \/ DrainBegins(w) \/ StopBegins(w) \/ Crashes(w)
    \/ \E t \in Tokens : WrapperStep(t) \/ HandlerEnds(t)
    \/ Tick

WorkerSpec == WorkerInit /\ [][WorkerNext]_workerVars

(* The executor polls every ready task and the timers fire.  A handler owes*)
(* nothing, nor does the store: a claim (worker.rs:634) and a transition   *)
(* (worker.rs:993) are awaited without a timer and may never be answered.  *)
FairWorkerSpec ==
    /\ WorkerSpec
    /\ \A w \in Workers : WF_workerVars(LoopStep(w))
    /\ \A t \in Tokens : WF_workerVars(OwnStep(t))

------------------------------------------------------------------------------
(* Properties *)

(* A handler that may still be running keeps its job: nothing the worker   *)
(* does while stopping, timing out or giving leases back puts the job in   *)
(* reach of a second execution.  Left out are a lease that expired, and a  *)
(* handler that could not be joined at its timeout (see LeaseKept).        *)
RunningHoldsLease ==
    \A t \in Tokens : handler[t] = "running" => Held(t) \/ t \in expired \cup unjoined

(* No execution is out of the worker's sight: while a handler runs, its    *)
(* wrapper holds the permit the drain counts, until the stop or the timeout*)
(* has given up joining it; and the sweep's abort reaches every handler    *)
(* that runs once it is over, those spawned after it included.             *)
NoHandlerEscapes ==
    \A t \in Tokens : handler[t] = "running" =>
        /\ \/ wrapper[t] \in LiveWrapper
           \/ t \in unjoined
           \/ loop[owner[t]] \in {"join", "release", "stopped"}
        /\ stopping[owner[t]] => t \in aborted

(* A run's report accounts for every job it leaves leased: the leases its  *)
(* stop could not give back are counted, and only a transition the store   *)
(* refused or never answered leaves one behind that is not.                *)
LeftLeasedIsReported(w) ==
    Cardinality({t \in Tokens : owner[t] = w /\ t \notin unrecorded /\
                    \E j \in JobIds : job[j].state = "leased" /\ job[j].lease = t})
      <= report[w].unconfirmed + report[w].withheld

(* Every job a run claimed is settled, given back or withheld: none is lost*)
(* between its counters, and no more are reported returned than claimed.   *)
ClaimsAccounted(w) ==
    LET r == report[w]
        settled == {t \in Tokens : owner[t] = w /\ outcome[t] # "none"}
        returned == r.released + r.unconfirmed + r.withheld
    IN  /\ returned <= r.claimed
        /\ r.claimed <= returned + Cardinality(settled)

(* What the report of a run that has stopped says of the jobs it claimed   *)
(* and of those it leaves leased.                                          *)
ReportAddsUp ==
    \A w \in Workers : loop[w] = "stopped" => LeftLeasedIsReported(w) /\ ClaimsAccounted(w)

(* A run ends once its scope is cancelled or the closed gate has refused it*)
(* a job, whatever its handlers do and whichever of its transitions, joins *)
(* and releases are never answered.  One thing alone can hold it: a claim  *)
(* that is never answered, which worker.rs:634-639 waits for with no timer *)
(* and without looking at the scope.                                       *)
StopEnds ==
    \A w \in Workers :
        cancelled[w] \/ loop[w] = "give_back"
            ~> loop[w] \in {"stopped", "crashed"} \/ [](loop[w] = "claim" /\ SlotFree(w))

(* worker.rs:116-125: after ABORT_JOIN_TIMEOUT, "at the stop grace and at  *)
(* the handler timeout", "the lease is kept, to expire and be reclaimed".  *)
LeaseKept ==
    \A t \in Tokens : handler[t] = "running" => Held(t) \/ t \in expired
==============================================================================

# A verification of Renvor's queue, lifecycle, authentication and services

TLA+ models of the parts of [Renvor](../src/README.md) that keep state between steps, the TLC runs that
check them on small instances, and theorems about them that TLAPS checks for every value of the
constants. `PROJECT.json` lists components, runs, mutants, findings, hazards and theorems, and maps
every definition to the lines it translates.

Paths below are relative to `src/crates/`.

## 1. Inventory

| Part | State it keeps | Operations | What makes it correct | Module |
|---|---|---|---|---|
| Job store port, `renvor-jobs/src/store.rs`, `job.rs` | one row per job: queue, key, state, attempts, run_at, lease | enqueue, claim (with a bounded reclaim), complete, fail, release, revive | a lease names one job; what a lost token does is nothing; completed is final; depth stays in its bound | JobContract |
| Memory store, `renvor-jobs/src/memory.rs` | rows, the idempotency keys, the ready index, under one mutex | the same, and `clear` | the three maps agree; the port's promises | MemoryJobStore |
| SQL stores, `renvor-sqlx/src/jobs.rs`, `renvor-seaorm/src/jobs.rs` | tables `rv_job`, `rv_job_queue` and their row locks | the same, as transactions of several statements | statements of concurrent callers add up to calls of the port | SqlJobStore |
| Worker, `renvor-jobs/src/worker.rs`, `provider.rs` | the run loop, slots, the in-flight table, a report | claim, spawn, run, time out, settle; stop: grace, sweep, join, give back | a running handler keeps its job; stop ends, if claims are answered, and accounts for every lease | JobWorker |
| Lifecycle, `renvor-core/src/lifecycle`, `cancel` | phase, log, initialised providers, work gate, scopes, report | boot, roll_back, shutdown, begin/end work, cancel | providers are a stack; nothing runs after a failure; every wait is bounded | Lifecycle |
| Readiness, `renvor-core/src/health` | threads under a deadline, a count of them | ask every contributor, begin_draining | the ceiling holds, whatever hangs; a late answer is not taken | ReadinessProbes |
| Retry, `renvor-core/src/retry.rs` | attempts, elapsed time, the delay announced | retry | bounds on attempts and on time | Retry |
| Refresh families, `renvor-auth/src/refresh.rs`, `renvor-sqlx/src/auth.rs` | families with a tombstone, tokens | begin, rotate, revoke | one live token per family; a replay kills the family for good | RefreshFamily |
| Sessions, `renvor-auth/src/session.rs` | session rows | begin, authenticate, rotate, log out, log out everywhere | the concurrency bound; a rotated session is dead; sessions end | Sessions |
| Abuse control, `renvor-auth/src/abuse.rs` | a two-window counter per dimension | admit, prune | a limit holds across a window boundary | AbuseWindow |
| Account operations, `renvor-auth/src/service.rs` | accounts, passwords, mailed single-use tokens | register, request a mail, confirm, reset | a secret is spent once, for its purpose and its owner | Accounts |
| Cache, `renvor-cache/src/memory.rs` | entries with expiry under one lock | get, set, set_if_absent, delete | one winner per absent key; capacity | MemoryCache |
| Storage, `renvor-storage/src/filesystem.rs` | one file per key, temporary files | put, get, head, delete under a timeout | objects are whole; an acknowledged put is undone only by a call that overlaps it, follows it or was reported as timed out | ObjectFiles |
| Telemetry, `renvor-observability/src/otel.rs` | a bounded channel, a count, a drain task | on_end, shutdown, drop | the count never wraps; what was accepted is exported or counted | OtelExport |
| HTTP server, `renvor-http/src/server.rs`, `provider.rs` | listener, slots, gate, serving task | initialise, admit, serve, stop | slots and units of work go back once; a drain tells the truth | HttpServer |
| Migrations, `renvor-sqlx/src/migrate.rs` | applied versions, the database's session lock | run | concurrent starters apply each migration once, an interrupted one without a transaction apart | MigrationRun |
| `generate`, `renvor-cli/src/generate/apply.rs`, `commands/generate.rs` | staged, placed and recorded files | plan, commit_with, roll_back | all of a plan or none of it; the record claims only what was rendered | GenerateCommit |
| `new`, `renvor-cli/src/generate/place.rs`, `commands/new.rs` | a staging tree, the destination | stage, verify, record, place, discard | a whole project or none; nobody's files replaced | NewProject |
| Builder and resolver, `renvor-core/src/lifecycle/builder.rs`, `provider` | a phase, a counter shared with the resolver's thread | build, resolve | nothing is built on a call that did not answer; the provider blamed is the one that hung | BuildCalls |
| Relay, `renvor-cli/src/commands/relay.rs` | a child, a pipe, a reading thread | run | an answer is whole; the wait is bounded | ProjectRelay |
| Mail, configuration, validation, OpenAPI, errors, the other commands, test kit | none that several steps share | | I/O and data, section 7 | |

How they interact: the kernel boots *providers* in the resolver's order and stops them in reverse.
The jobs provider starts a `Worker::run` in its `initialise`, hands it the kernel's `WorkGate`, and
in its `stop` cancels the run's scope and waits for its report. The worker calls a `JobStore`, which
is the memory store or a SQL store shared with other processes; it sees only the port. The HTTP
server is a provider too and shares the same gate: each request it admits is a unit of work. Sessions, refresh
families, abuse counters, accounts, cache and storage are called from a handler and meet only through the
database; the generator and `new` are processes of their own, over a directory.

What is hard: the port's calls of several processes interleave statement by statement and their
answers get lost; a lease expires under the execution that holds it; the worker's stop runs
concurrently with the loop, the wrappers and the handlers, each of which can hang; kernel futures
can be dropped at any await; the gate's count and its flag are read by different tasks; the authentication
services are several statements per request with no transaction around them; timeouts end a wait and not the
work; a command dies between two renames.
`hazards` in `PROJECT.json` lists every such place with its line and the properties aimed at it.

## 2. Modules

    JobRows  <- JobContract  <- JobWorker        Lifecycle -- refines --> ProviderStack
                    ^
                    | refines                    RefreshFamily -- refines --> RefreshChain
        MemoryJobStore, SqlJobStore

    MCServices -- extends -- JobContract, OtelExport, Sessions, AbuseWindow, Retry, ReadinessProbes,
        HttpServer, MigrationRun, GenerateCommit, NewProject, Accounts, MemoryCache, ObjectFiles,
        ProjectRelay, BuildCalls

    Proofs: JobContractProofs, MemoryStoreProofs, SqlStoreProofs, JobWorkerProofs, LifecycleProofs and
        RefreshProofs over the modules they are named for;
        RuntimeProofs over OtelExport, ReadinessProbes, HttpServer, Retry, BuildCalls, ProjectRelay;
        ServicesProofs over Sessions, MigrationRun, Accounts, MemoryCache, ObjectFiles, NewProject,
        AbuseWindow, GenerateCommit

**JobRows** is what a job is: `Row` has the fields a transition reads or writes. Payloads, kinds and
trace contexts are opaque to all of them and are left out, as are the timestamps nothing reads. The
three retryable failure kinds are one value.

**JobContract** is the abstract specification: one atomic action per call of the port that changes a
job, translated from `store.rs` and its transition table. A claim reclaims a batch of expired
rows and leases one; `fail` reschedules at any instant (backoff is a caller's data). Each call comes
with any `now`, because callers are processes with clocks of their own.

**MemoryJobStore** has the three maps of `Table`. The mutex makes every call one action. `ready` is
the set of `(run_at, id)` pairs that the code iterates in order; `First` is the first of them.

**SqlJobStore** splits each call into the statements it sends; `pc` and `call` are a session's next
statement and its local variables. Row locks are `FOR UPDATE` locks, held to the end of the
transaction; `SKIP LOCKED` passes them over and other writers wait. `engine` selects the reclaim: on
MySQL one `UPDATE` that tests the row it writes, on PostgreSQL `ReclaimSelect` takes identifiers by
snapshot and `ReclaimPostgres` writes them later, its outer condition testing the identifier alone.
A connection may go at any statement (`Abandon`), which rolls its transaction back. What the engines
do is external: taken from how the code uses them.

**JobWorker** composes the contract with the worker. A lease token names an execution: its wrapper
task (`run_one`), its handler task, its entry in the in-flight table. `loop` is where `Worker::run`
stands: claiming, giving a refused claim back, in its grace, sweeping, joining, releasing. Handlers
end, fail, panic or never end; store calls fail, take effect unheard, or are never answered; the gate closes (`DrainBegins`)
and the scope is cancelled (`StopBegins`) whenever the kernel does so; a process dies (`Crashes`).

**Lifecycle** is the kernel: `boot`, `roll_back`, `shutdown`, `WorkGate`, the provider scopes. Each
await is a state of its own (`at`), so the work, a cancellation and the drop of the caller's future
come between any two. `scope` is what has been signalled to a provider's own scope; a cancelled root
reaches them all besides. A provider refuses by an error or a contained panic, or answers too late.

**ProviderStack** is what those promise together: start in order, stop in reverse, each at most once.

**RefreshFamily** is a login's chain of refresh tokens: `begin`, `rotate` and `revoke` of `renvor-auth`, and the
transactions of `auth.rs` (`decide`, `revoke_within`) one statement at a time. `pc` is the statement a call sends
next. What a transaction writes and has not committed is nobody else's to see, so it waits in `call`
(`successor`, `swept`) and reaches `family` and `token` at the commit. An `UPDATE` finds its rows (`Sweeps`) and
then waits for the locked ones (`Writes`): a row inserted between is not swept, which is the window the family
lock has to close. `handed` is what reached a caller; any of it may be presented again, by a client that
retries or by the holder of a copy. `Abandons` is a failure, a crash or a lost answer at any statement: after
the commit the successor is stored and nobody has it. Access tokens and scopes are carried forward unread.

**RefreshChain** is what those promise: per family one current token, replaced by its successor, and an end
that is final and keeps its instant.

**OtelExport**: `span` says where each span is - on its way into the channel, queued, in the drain's batch, in
flight, done - and `queued` is the counter of `on_end`. A send is two steps, as Tokio's is (a permit, then the
value), so the close, the drop of the receiver and an abort land between them. `handle` is shutdown or `Drop`.

**Sessions**: the calls of `SessionService` as the repository's conditional statements. `begin` lists, revokes the
stalest ones and creates; `rotate` touches, revokes and creates; other callers come between, and any call may end
at any statement. A call reads the clock before its first statement and all of them carry that instant (`now` in
`progress`), however late they are executed: a touch may bring back, with an instant gone by, a row that a later
caller has counted as dead. `origin` of a row (history) is the sign-in it goes back to; `crossed` (history) is who made
a list that others have since outdated, by a new row or by such a touch.

**AbuseWindow**: `admit` counts in one bucket per dimension, each in a transaction of its own (upsert, locked read,
update), and then decides; the clock passes a window's boundary between, and a request acts on an instant it read
before (its row may be in a later window by then: `ClockRegressed`); `prune` runs beside it. An admitted request keeps
the instant of its admission (history), and a burst is counted from those.

**Retry**: one call, over a table of policies (jitters, with and without a deadline). `due` is the instant at which
the attempt is cut or the sleep ends, and `governs` the code's own note of which bound cut it.

**ReadinessProbes**: a slot is claimed, the spawn may be refused, the thread may answer, panic, outlive its deadline
or never return; its guard gives the slot back on its own thread, after its probe has gone on.

**HttpServer**: a request is refused by the ceiling or the gate, handled, and answered, disconnected or timed out;
`serve` closes the gate, drains within its budget, cancels what is left, and may abandon the accept loop. It is
the gate of Lifecycle as a server sees it.

**MigrationRun**: starters with their sessions at the server, which outlive their clients: a statement nobody waits
for may still take effect, and a lock is held until the server ends the session. On MySQL a version is marked dirty
before it runs and its statements commit on their own; on PostgreSQL one transaction holds both the statements and the
record, but for a version in `NoTransaction` (one that opens with `-- no-transaction`, `migrate.rs:62`), whose
statements and record come apart with no mark between. `interrupted` (history) is what a run was at when it was cut
off there.

**GenerateCommit**: `plan`, the staging of siblings, the renames, the record, the result, and the roll back, each
failing or dying anywhere, while the user edits the tree. What a file holds is what lies outside the marked block
and whether the block is filled. **NewProject** is `new`: a tree grows in staging and is moved by one rename.

**Accounts**: `register`, the two mailed flows, `confirm_verification` and `reset_password`, statement by statement;
`swept` (history) is what a request's invalidation reached. **MemoryCache**: a call reads the clock and later acts
under the lock. **ObjectFiles**: the work of an operation goes on after its timeout has answered its caller. `changer`
(history) is who last gave the key its file or took it away, `earlier` what was over for its caller when an operation
began.

**ProjectRelay**: the caller, cargo, whatever else holds the pipe, and the reading thread. **BuildCalls**: `build` up
to the application; the resolver's passes over the providers run on a thread that outlives the builder's wait.

**MCServices** checks the components that share nothing in one run. Its variable `part` picks the one at work in a
behaviour and `Unless` keeps the others as they begin, so their states add up and do not multiply.

Every module has *mutants*: definitions that change one piece of the code's behaviour the way a bug
would, each named in `PROJECT.json` with the property that catches it. They are used by no action.

## 3. Runs

| Run | Checks | Shows |
|---|---|---|
| services | MCServices.cfg | the port's contract and fourteen components, each with its hazards: see below |
| memory | MCMemoryJobStore.cfg | the three maps agree and the store implements JobContract |
| sql | MCSqlJobStore.cfg | interleaved transactions keep the depth bound (up to revives), what was read under a lock still holds when it is written, leases stay consistent on both engines, and on MySQL the statements implement JobContract |
| sql_pg_completed | SqlPgCompleted.cfg, violated | a completed job returns to ready on PostgreSQL |
| worker | MCJobWorker.cfg | a running handler keeps its job and is in sight of the drain and the sweep, a stopped run accounts for its claims |
| worker_stop | JobWorkerStop.cfg | stop ends, and a refused claim ends the run, unless a claim is never answered |
| worker_lease_kept | WorkerLeaseKept.cfg, violated | a timed-out handler that cannot be joined loses its job |
| lifecycle | MCLifecycle.cfg | providers are a stack, nothing runs after a failure, scopes follow providers, a clean drain is idle; boot and shutdown end, and every call of shutdown returns one report |
| refresh | MCRefreshFamily.cfg | one token of a family works, none after its tombstone, rotation is all or nothing, and the calls together are a RefreshChain |
| sessions_end | SessionsEnd.cfg, violated | a sign-in outlives the absolute timeout by rotation |
| generate_record | GenerateRecord.cfg, violated | an edit made a second time records the user's bytes as the generator's |
| relay_held | RelayHeld.cfg, violated | the relay waits past its deadline for a pipe somebody else holds |

Beyond the names: *memory* checks `IndexesExact` and `ImplementsContract`; *sql* `DepthBound`, `ReadsHold`,
`LeasesConsistent`, `ImplementsContract`; *sql_pg_completed* `CompletedIsFinal`; *worker* `RunningHoldsLease`,
`NoHandlerEscapes`, `ReportAddsUp`; *worker_stop* `StopEnds`; *worker_lease_kept* `LeaseKept`; *lifecycle*
`NothingLeftRunning`, `ScopesFollowProviders`, `CleanDrainIsIdle`, `IsAStack`, `ShutdownIsIdempotent`,
`KernelReturns`; *refresh* `OneLiveToken`, `TombstoneIsComplete`, `BothOrNeither`, `IsAChain`; the three last
`SignInsEnd`, `EditClaimsNothing`, `DeadlineBoundsTheWait`.

What *services* shows, by part:

- *jobs*: the port's calls together keep every lease on one job (`LeasesSettleOneJob`), a completed job completed
  (`CompletedIsFinal`), a lost token powerless (`LostTokenStaysLost`), and a spent job from being retried but by a release
  (`SpentReturnsOnlyByRelease`).
- *export*: the count is exact, so it never wraps (`CountIsExact`), and a forced close reports no fewer spans than it
  lost (`ForcedCloseIsReported`).
- *sessions*: one live session per sign-in (`OneLivePerSignIn`), and a sign-in keeps the bound unless, since its list,
  another row was created or a late touch brought one back (`SignInKeepsBound`).
- *abuse*: a burst across a window boundary is bounded (`BoundaryBurstBounded`). *retry*: time and attempts stay within
  the policy (`RetryKeepsItsPolicy`). *probes*: threads stay within the ceiling (`ThreadsWithinCeiling`).
- *http*: slots and units of work go back once, and a clean drain is one (`NoWorkGoesUnseen`).
- *migration*: no version takes effect twice, but for one without a transaction that was cut off, and "done" is done
  (`MigratesOnce`).
- *generate*: all or nothing after a failure, and after a death the next run is not in its own way
  (`GenerationRecovers`). *new*: a whole project or none (`PlacedWholeOrNotAtAll`).
- *accounts*: a secret works once (`SecretsWorkOnce`). *cache*: one winner per absent key (`CacheElectsOne`). *objects*:
  objects are whole, and a put that was told Ok has taken the name and is undone by no operation that was over before it
  began, unless that one was reported as timed out (`ObjectsAreWhole`).
- *relay*: an answer is everything that was printed (`AnswerIsWhole`). *build*: nothing half read is built, and in the
  tracked loops the culprit is blamed (`BuildIsWhole`).

Bounds. *jobs*: two jobs on one queue with one key and a queue full with one job, so that key collision, refusal and
two leases all occur; three tokens, so that a job is claimed, lost and claimed again while the other holds one; limits
1 and 2; three instants (before, at and after an expiry). *memory*: three jobs over two queues and a reclaim batch of
one, so that two leases expire and one is left; two tokens. *sql*: two sessions, which is every pair of calls
interleaved; locks are pairwise, and a third session would only wait. *worker*: two workers of one slot over one job
(the second takes what the first loses), and one worker of two slots for the stop. *lifecycle*: three providers, so
that one rollback has a stopped, a failing and an untouched one, and two units of work. *refresh*: one family
(families share no row), three calls, so that a rotation, a replay and a revocation meet, and four tokens, so that a
chain of three has a spare in preparation; a token lives two instants and its family three, so that either end comes
first. In *services*: three spans over a channel and a batch of two (one span is refused, one waits, one is sent); two
callers over a bound of one session, and two rows over three instants (an idle timeout of two, so that a row is
counted dead at one instant and touched at an earlier one; the absolute timeout lies past them, and is
*sessions_end*'s and the proofs') or three rows at the first; three requests, two dimensions with limits 1 and 2 and
six instants over windows of two, so that a bucket is full, half weighed and forgotten; four policies of four
attempts, with and without a deadline; two probes of two contributors under a ceiling of two; three requests for two
slots; three starters and two versions, the second without a transaction, so that one waits, one runs and one finds it
done; three files (owned, marked, other) and one edit of the user; two runs of `new`; one address, two requests and
two secrets; two cache keys over a capacity of one; three operations on one object; a pipe of one chunk and an answer
limit of two of four; two sources and three providers, so that a culprit has one before and one after it. Tokens,
secrets and rows are never drawn twice, so their number bounds a run. `CHECK_DEADLOCK FALSE` is set where a system
stops by design (a stopped worker, a returned shutdown, an exhausted bound). Symmetry is used for tokens, sessions,
callers, workers, work and digests, which nothing orders, never for jobs, whose order breaks ties, and never in a run
that checks liveness.

Fairness. `FairWorkerSpec` is weakly fair to the run loop's own steps (`LoopStep`) and to each wrapper's (`OwnStep`):
Tokio polls a ready task and its timers fire. Handlers, the store and the kernel owe nothing. Where the code puts a
timer on a wait its end is owed: the grace (`worker.rs:720`), the handler's timeout and its join (`:932`, `:958`), the
join of the stop (`:747`), a release (`:815`). Where it puts none nothing is: a transition (`worker.rs:991-1022`) may
never be answered, and the stop ends all the same, because the join's bound aborts the wrapper; a claim
(`worker.rs:634-639`) may never be answered either, and that holds the stop, so `StopEnds` excuses exactly the run
that stays in such a claim for ever. `FairSpec` of Lifecycle is weakly fair to what the kernel does itself; a provider
or a unit of work may hang for ever. `FairRelaySpec` is weakly fair to the relay's two threads and owes nothing of the
processes they listen to. Weak fairness is enough because every such step stays enabled until it is taken. `StopEnds`
owes its answer to a queue that runs dry, which the bound on tokens sees to: the inner claim loop
(`worker.rs:629-661`) does not look at the scope, so while every claim finds a job and a free slot only the closed
gate ends it, as the kernel's drain does before it stops a provider.

## 4. Findings

Five places where the code does other than its documents say, each the counterexample of a run:

- PostgreSQL's reclaim can put a completed job back to ready (`renvor-sqlx/src/jobs.rs:665`): a completion that
  commits between the subselect and the update is undone. MySQL's form tests the row it writes.
- A handler that times out and cannot be joined has its job rescheduled under it (`renvor-jobs/src/worker.rs:958`),
  where the documentation of the join bound says the lease is kept.
- A rotation starts the absolute timeout again (`renvor-auth/src/session.rs:495`), so a sign-in that is rotated in
  time never ends.
- A marked edit whose block is already filled records the whole file (`renvor-cli/src/generate/apply.rs:655`), the user's
  lines included.
- The relay joins its reader without a deadline once the child has exited (`renvor-cli/src/commands/relay.rs:307`), so
  another holder of the pipe holds it; `relay.rs:39` says the deadline bounds the wait.

Behaviour the models keep as the code has it, which a reader of the documents may not expect, with no run of its
own:

- *Jobs.* `release` returns a job at its last attempt to ready (`memory.rs:271`, all stores), so a spent job can be
  claimed again; `SpentReturnsOnlyByRelease` says that nothing else does this. `revive` does not count the queue
  (`memory.rs:287`, all stores); `DepthBound` is the bound up to revives.
- *Worker.* A claim is awaited with no timer and without looking at the scope (`worker.rs:634-639`), so a store that
  never answers it holds the run, and the stop that waits for the run (`provider.rs:226-229`) until the kernel's
  deadline drops that wait. A claim the closed gate refuses ends the run, with its aborts, while the kernel still
  drains (`worker.rs:665`). `aborted` also counts executions that settle themselves during the join (`worker.rs:739`).
- *Lifecycle.* `Incomplete { outstanding: 0 }` is possible, since the count is read after the budget elapsed
  (`drain.rs:206`). A shutdown whose future was dropped is remembered as done, so the next call returns an empty, clean
  report (`application.rs:541`).
- *Builder.* The resolver also asks providers outside its two tracked loops (`registry.rs:491`, and their names at
  `provider/mod.rs:103` and `:152`); one that panics or hangs there is blamed on whatever position the counter
  holds, where `provider/mod.rs:73-80` says that it leaves its own and that only those loops call author methods. So is a
  refused thread, on the first provider.
- *Relay.* A read error is dropped, so a truncated answer can pass for a whole one; `AnswerIsWhole` leaves it out.
- *Export.* A span whose send holds its permit while the channel closes is still unexported when the flush returns Ok,
  and may be exported after it or lost: "Ok with nothing unexported" (`otel.rs:710`) and the upper bound at a drop
  (`otel.rs:47`, `:778`) do not hold in that window. A dropped shutdown future leaves the drain running.
- *Sessions.* A rotation between its revoke and its create survives a log out everywhere; overlapping sign-ins exceed the
  bound together; `reset_password` revokes no session. A request reads its clock before its statements are sent
  (`renvor-auth-http/src/routes.rs:446`), so a late touch revives a session that a later sign-in has counted as dead, and the
  bound is exceeded with no session created beside.
- *Abuse.* A span of one window that straddles a boundary may admit nearly twice the limit, where `abuse.rs:618-621`
  says roughly the limit. A request that outlasts its window may be admitted anew once its row is pruned, and the
  row `auth.rs:654` calls unreachable can be missing on PostgreSQL (it fails closed).
- *Retry.* A retry that was announced and counted does not happen when the deadline overtakes its delay; a sleep that
  would cross the deadline is shortened to it (`retry.rs:516` says it is not started).
- *Migrations.* A PostgreSQL version that opens with `-- no-transaction` and is cut off between its statements and its
  record takes effect again at the next start, and nothing marks it, as the dirty flag does on MySQL; `migrate.rs:62`
  says only that it is not atomic.
- *HTTP.* Readiness goes on saying ready when the serving task fails before the stop.
- *Generate.* Created directories and a partial sibling survive a failure (`apply.rs:24-25`). A user's change between
  the plan and the rename is overwritten (`generate.rs:863`), where `apply.rs:17` and `:92` say it is not; the model
  lets the user write at any step and `GenerationRecovers` leaves such paths out. After a death mid-way a different
  later render reads the generator's own bytes as the user's.
- *Accounts.* "At most one token per purpose per account is ever live" (`service.rs:386`, `repository.rs:199`) does not
  hold for requests that overlap. A `register` whose password write fails leaves an account without one. A rejected
  password has spent the secret. A secret whose delivery was reported failed may still have been delivered
  (`service.rs:422`). Overlapping upserts can fail on PostgreSQL.
- *Storage.* A put reported as timed out may land later, over one acknowledged since; a delete so reported may remove
  one (`filesystem.rs:456-460`). Of two puts that overlap and are both told Ok, the last to rename wins, which may be the
  first to have begun.

## 5. Proofs

Checked by TLAPS for every value of the constants. Every invariant a passing run checks is a theorem, and with
them every refinement and every action property. What is assumed of the constants is the `ASSUME` of each
module: that they are of the right kind, finite where they are counted, positive where a bound must be, and that
the values that stand for *none* (`NoSession`, `NoEntry`, `Nobody`, `Missing`, ...) are no members of what they
are none of. Three say more: `GenerateAssumption` that `Order` lists the files and the record is none of them,
`RetryAssumption` that a policy passed the checks of its builder, `SessionsAssumption` that `Idle <= Absolute`.

**The queue.** *JobContractProofs.* `TypeCorrect`, and `LeasesCorrect`: a row holds a lease exactly while it is
leased or completed, only a token some claim issued, and no token is on two rows. Those are inductive only
together, and with the type invariant: that a claim's token is on no row follows from its not being issued,
which is why `LeaseWhileHeld` says that tokens on rows are issued. The action properties (`CompletedStays`,
`LostStaysLost`, `SpentOnlyReleased`) follow from the seven ways a step may move a row (`RowMoves`); that a
revived job is not spent needs `Limited`, a job that exists may be attempted.

*MemoryStoreProofs.* `IndexesCorrect`: after every call the ready index and the key index are the functions
`ReadyIndex` and `KeyIndex` of the rows, so what a call moves in a row it has moved in both.
`StoreImplementsContract` needs it: that the store claims the row the port would (ready, due, the smallest) is
true of the index only as long as it is the rows', and that `First` is the least in it holds because the set is
finite.

*SqlStoreProofs.* `SessionOK` says of each statement what its transaction knows: the lock it holds, and that the
row under it is still as it was read (`SqlReadsHold`). `DepthInv` carries the bound through an enqueue: a
session between its count and its insert holds the queue's lock, and has room. `SqlLeasesConsistent` holds on
both engines, whatever PostgreSQL's stale identifiers name; `SqlDepthBounded` and `SqlImplementsContract` are
about MySQL, since PostgreSQL's reclaim is no call of the port (section 4). The refinement needs no invariant of
its own: each statement that writes is one call of the port because of what `SessionOK` says of its row, the
others are stutters.

*JobWorkerProofs.* `WorkerInv`: `TokenOK` relates the wrapper, handler, entry and outcome of one execution,
`RunOK` one run's place in its loop to the executions it owns, and `LeaseCovers` is the strengthening that makes
`RunningHoldsLease` inductive: not only a running handler, every execution that can still get to one holds its
lease, from the claim on, unless it has expired or could not be joined. `RunningKeepsItsLease` and
`HandlersAreSwept` follow. `ReportsAddUp` adds the counters (`CountsOK`): what a run claimed lies between what
it answered for and has in hand, and the same with what it decided besides; the leases it left in the store are
at most those it reported as unconfirmed or withheld, but for an outcome the store lost.

**The kernel.** *LifecycleProofs.* `Inv` says what `initialised` stands for. While the kernel walks, the record
is the prefix `1 .. n` of the order (`Prefix`), the providers in it are up, and the one being worked on is the
next (`WalkUp`) or the last (`WalkDown`); `Order` keeps shutdown single and the gate closed. Without `Prefix`,
that the provider stopped is the last one up cannot be shown; with it `EarlierOutliveLater`,
`NothingLeftRunning`, `ScopesFollowProviders` and `CleanDrainIsIdle` follow step by step. `KernelIsAStack` is
the refinement: `StackStep` maps every step to a start, a refusal, a stop or a stutter of ProviderStack.
`ReturnedReportStands` is `ShutdownIsIdempotent`, from `ReturnedStays`.

*RuntimeProofs.* *Export*: the count is exact because a span is counted before it is offered and uncounted where
it leaves; a forced close reports enough because the count is read when the drain has ended and the channel is
closed: what may still be sent holds a permit, and is counted. *Probes*, `SlotsInv`: a claimed slot is in
exactly one place, so the counter is their sum and a claim below the ceiling keeps it. *HTTP*: the drain is
clean only with the gate closed, which lets no request become a handler (`ClosedSince`, `CleanIsIdle`), and what
is over has been cancelled; the two counters are sums over the requests. *Retry* (`CallsKeepTheirPolicy`):
`Within` bounds the time used by the attempts and sleeps behind a call, and `due`, the end of the attempt or
sleep it is in, is within it too. *Builder* (`BuildsAreWhole`): the sources each phase has behind it
(`SourcesOK`), and that the shared counter is the provider asked while a tracked loop asks and stays once a
provider has failed (`CounterOK`, `CulpritOK`). *Relay* (`AnswersAreWhole`): until a read fails every chunk is
in the pipe or kept, and a reader that ended did so at the limit or with the pipe empty and held by nobody.

**Authentication.** *RefreshProofs.* The invariants of the run, for any number of families, tokens and calls.
None of them is inductive alone: `Prepared` says what a rotation knows of its two tokens, `Distinct` that
successors differ, and `UnderLock` is what the family lock buys: a call past the tombstone check holds its
family, which is not revoked, and past the token check its token is unused. With it, no other call of that
family is near its own commit when one commits, and `Ending` (what was swept is all that was left) still holds
when the tombstone is written. `FamiliesAreChains` is the refinement of RefreshChain. It needs two facts more
(`Continues`): a family that has begun and is not revoked has a live token, and with `OneLiveToken` the `CHOOSE`
of the mapping has one value before and after each step. Then a commit is the chain's step, and every other
statement leaves the family's view as it is.

*Sessions* (ServicesProofs, as all below). A rotation that has retired the old session leaves its sign-in with
none (`Cleared`), and is the only one that has (`Alone`): the conditional update of a loser finds the row
revoked. For the bound (`SignInsKeepTheBound`), `Fits` counts on behalf of every sign-in nobody has crossed:
what is alive at its own instant and not on its list to revoke leaves room for one. A call acts at an instant
gone by (`Past`), so a touch may bring a row to life at a sign-in's own instant; `crossed` takes in exactly those
whose list that outdates, and for the others every statement leaves fewer alive, or as many (`FadesFor`,
`TouchingFades`). A row created beside crosses every list made before it (`CreatingFits`).

*Abuse* (`BurstsAreBounded`). The buckets are counted by several requests in transactions of their own, so the
invariant relates a row to the requests charged to it (`Charges`): those that have counted there and are not
refused. `WritesOK` says what a transaction under the row's lock is about to write; `CountsOK`, that the row
counts at least what is charged in this window, that its carried count is at least what was admitted in the last
one, and that whenever anything is charged at `t` the weighed estimate left room for it (`RoomIn`); `OverOnce`,
that windows that are over keep their bounds, since an admission keeps its instant. The estimate divides by
`Window` and rounds down: `RoomLeft` is the inequality that survives the rounding, `RoomLater` that it only gets
easier as the previous window's weight falls.

*Accounts* (`SecretsAreSingleUse`). `SpentOn` is the link of a step to the secret it goes on from: a
confirmation past `consume` has spent its secret, on that owner, for that purpose; and what an invalidation
swept stays consumed when the new secret is issued. `SecretsGrow` says that nothing said of an issued secret is
taken back, so the others' links survive each step.

**Services.** *Migrations.* The lock names the session that holds it (`LockHeld`), a run is at work only while
its session does, what it has still to apply is what nobody has applied (`PendingIsRest`), and what took effect
is recorded, marked as begun, or at the run that has still to record it (`EffectsRecorded`): so no other run can have
begun the version this one is at. What is left over is a version without a transaction whose run was cut off
(`Repeats`), the one case in which it may run again.

*Cache* (`CacheElectsOneHolder`). Whoever was told it stored a key, and whose time has not run out on the
cache's own clock, is the map's entry for it; a call acts at an instant it read earlier, never later than that
clock, so an entry it treats as live is.

*Objects* (`ObjectsStayWhole`). Only a finished file is renamed (`WrittenBy`). An operation changes the name while it
is at work, and one at work whose caller has an answer was told that it timed out: so of those over when an
acknowledged put began none other is the name's last changer (`Overtaken`, kept by `NameTaken` where the name
changes and by `NameKept` elsewhere). *New*
(`ProjectsArePlacedWhole`): `Built` is the state of the tree at each stage, so the one that is renamed is
recorded.

*Generate* (`GenerationsRecover`). `Reversible` says that undoing the stack of placed entries restores every
path the user has not touched and no failed undo has spoiled, from the step the run is at; the assumption lets
an order name a path twice, and then the lowest entry is the one that counts (`Reverts`). `OldIsOwned` is what
the next run needs after a death: whatever holds the generator's earlier bytes is recorded as its own.

Only model-checked: liveness (`StopEnds` of the worker, `KernelReturns` of the lifecycle), which depends on
fairness and is out of the prover's reach; and what the violated runs show, which are counterexamples.

## 6. Plan

*Done*, in this order: JobRows, JobContract, MemoryJobStore, SqlJobStore, JobWorker, Lifecycle, ProviderStack; RefreshFamily,
RefreshChain; OtelExport, ReadinessProbes, Retry, Sessions, AbuseWindow, Accounts, HttpServer, MigrationRun, GenerateCommit,
NewProject, MemoryCache, ObjectFiles, ProjectRelay, BuildCalls.

The theorems, after the modules: the port, its two stores and the worker; the lifecycle and its refinement; the
families and their chain; then the rest, so that no invariant of a run is without one.

Next, the most useful first:

1. HttpServer and JobWorker composed with the gate of Lifecycle, so that one drain waits for both, and
   `CleanDrainIsIdle` proved of the composition.
2. That a worker over MemoryJobStore or SqlJobStore keeps `RunningHoldsLease`, from the refinements.
3. The worker's retry delays; SeaORM's job store and its migration runner; the lockfile edit of `generate`.

## 7. Not modelled, and assumptions

Not modelled: parsing, encoding, cryptography (passwords, JWT, CSRF), rendering, routing and I/O, which have no
interleaving of their own; configuration, validation, OpenAPI, errors, mail, the authentication transport and the
handling of one HTTP request, which are sequential over one value; the traversal of the resolver, which is petgraph's;
the Valkey cache, a client of another program; the memory object store, one map under one lock; the other commands,
`xtask` and the toolchain's evidence, which run once, in order, over files. The SeaORM job store sends the same
statements as the sqlx store and is not translated separately. Of the worker, retry delays and metrics are left out;
of a migration, the reports, which are observations; of `generate`, the lockfile edit and the resource definitions. A
presented refresh token that is malformed or unknown changes nothing in the code and is no action; families are never
deleted. `rename` onto an empty directory replaces it, as POSIX has it and invariant I-17 of the source says.

Assumed of the databases: a locked row is written by nobody else, and an uncommitted one is seen by nobody. Assumed:
`boot` is called once, and before any `shutdown`; tokens, secrets and identifiers are never drawn twice; the clock of
a call may be any instant; a Tokio abort takes effect at the next await of what is aborted, or never.

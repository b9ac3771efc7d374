------------------------------ MODULE Lifecycle ------------------------------
(***************************************************************************)
(* crates/renvor-core/src/lifecycle: one application from Register to Stop.*)
(* boot and shutdown run in the caller's task; the work the gate admits,   *)
(* a cancellation of the root scope and the providers' own answers come    *)
(* from other tasks, between any two of its steps.  The caller may also    *)
(* drop the future at an await.                                            *)
(*                                                                         *)
(* A provider refuses by an error or by a panic the kernel contains; the   *)
(* deadline is the kernel's answer to one that does neither.               *)
(***************************************************************************)
EXTENDS Integers, Sequences, FiniteSets

CONSTANTS
    Count,  \* the providers are 1 .. Count, in resolved order
    Works   \* units of work that may ask the gate for a permit

ASSUME LifecycleAssumption == Count \in Nat /\ IsFiniteSet(Works)

VARIABLES
    at,           \* where the caller's task is
    phase,        \* PhaseCursor::current
    log,          \* PhaseLog
    initialised,  \* Application::initialised, and what roll_back has left of it
    provider,     \* what each provider is doing
    scope,        \* the scope of each provider
    root,         \* the root scope is cancelled
    closed,       \* GateState::closed
    permits,      \* the work holding a permit: GateState::outstanding counts it
    draining,     \* HealthState::draining
    done,         \* Application::shutdown_done
    report,       \* Application::shutdown, or the RollbackReport of a failed boot
    rolling,      \* the report of the roll_back under way
    dropped       \* history: the caller has dropped a future of boot or shutdown

vars == <<at, phase, log, initialised, provider, scope, root, closed, permits, draining, done,
          report, rolling, dropped>>

Providers == 1 .. Count

Phases == <<"Load", "Validate", "Register", "Boot", "Ready", "Drain", "Stop">>

Position(p) == CHOOSE i \in DOMAIN Phases : Phases[i] = p

NoRollback == [stopped |-> << >>, failures |-> {}]

NoReport == [drain |-> "clean", outstanding |-> 0, stop |-> NoRollback]

(* ApplicationBuilder::build has returned. *)
Init ==
    /\ at = "built"
    /\ phase = "Register"
    /\ log = <<"Load", "Validate", "Register">>
    /\ initialised = << >>
    /\ provider = [p \in Providers |-> "new"]
    /\ scope = [p \in Providers |-> "none"]
    /\ root = FALSE
    /\ closed = FALSE
    /\ permits = {}
    /\ draining = FALSE
    /\ done = FALSE
    /\ report = NoReport
    /\ rolling = NoRollback
    /\ dropped = FALSE

Enter(p) ==
    /\ phase' = p
    /\ log' = Append(log, p)

(* PhaseCursor::skip_to *)
SkipTo(p) ==
    IF Position(p) > Position(phase) THEN Enter(p) ELSE UNCHANGED <<phase, log>>

gateVars == <<closed, permits>>
phaseVars == <<phase, log>>
shutdownVars == <<draining, done, report>>

------------------------------------------------------------------------------
(* boot *)

StartsBoot ==
    /\ at = "built"
    /\ ~done
    /\ Enter("Boot")
    /\ at' = "booting"
    /\ UNCHANGED <<initialised, provider, scope, root, gateVars, shutdownVars, rolling, dropped>>

(* The top of the loop, and the check after it. *)
SeesCancelled ==
    /\ at = "booting"
    /\ root
    /\ at' = "unwinding"
    /\ UNCHANGED <<phaseVars, initialised, provider, scope, root, gateVars, shutdownVars, rolling,
                   dropped>>

Upcoming == Len(initialised) + 1

StartsProvider ==
    /\ at = "booting"
    /\ ~root
    /\ Upcoming <= Count
    /\ provider' = [provider EXCEPT ![Upcoming] = "starting"]
    /\ scope' = [scope EXCEPT ![Upcoming] = "live"]
    /\ at' = "initialising"
    /\ UNCHANGED <<phaseVars, initialised, root, gateVars, shutdownVars, rolling, dropped>>

Initialises ==
    /\ at = "initialising"
    /\ provider' = [provider EXCEPT ![Upcoming] = "up"]
    /\ initialised' = Append(initialised, Upcoming)
    /\ at' = "booting"
    /\ UNCHANGED <<phaseVars, scope, root, gateVars, shutdownVars, rolling, dropped>>

(* Mutant: the guard is disarmed before the outcome is known. *)
InitFailsUnguarded ==
    /\ at = "initialising"
    /\ provider' = [provider EXCEPT ![Upcoming] = "failed"]
    /\ at' = "unwinding"
    /\ UNCHANGED <<phaseVars, initialised, scope, root, gateVars, shutdownVars, rolling, dropped>>

(* The guard is dropped, and cancels the provider's scope. *)
InitFails ==
    /\ at = "initialising"
    /\ provider' = [provider EXCEPT ![Upcoming] = "failed"]
    /\ scope' = [scope EXCEPT ![Upcoming] = "cancelled"]
    /\ at' = "unwinding"
    /\ UNCHANGED <<phaseVars, initialised, root, gateVars, shutdownVars, rolling, dropped>>

(* The provider's error or panic, and the deadline it has let pass. *)
InitRefused == InitFails

(* Mutant: only a cancellation ends a provider that hangs. *)
InitLateIfCancelled == root /\ InitFails

InitLate == InitFails

BecomesReady ==
    /\ at = "booting"
    /\ ~root
    /\ Upcoming > Count
    /\ Enter("Ready")
    /\ at' = "ready"
    /\ UNCHANGED <<initialised, provider, scope, root, gateVars, shutdownVars, rolling, dropped>>

------------------------------------------------------------------------------
(* roll_back, for a boot that failed and for a shutdown *)

Top == initialised[Len(initialised)]

(* Mutant: the providers are stopped in the order they started in. *)
StopsFirst ==
    /\ at \in {"unwinding", "stopping"}
    /\ initialised # << >>
    /\ provider' = [provider EXCEPT ![Head(initialised)] = "stopping"]
    /\ rolling' = [rolling EXCEPT !.stopped = Append(@, Head(initialised))]
    /\ initialised' = Append(Tail(initialised), Head(initialised))
    /\ at' = IF at = "unwinding" THEN "unwind_stop" ELSE "stopping_stop"
    /\ UNCHANGED <<phaseVars, scope, root, gateVars, shutdownVars, dropped>>

StopsNext ==
    /\ at \in {"unwinding", "stopping"}
    /\ initialised # << >>
    /\ provider' = [provider EXCEPT ![Top] = "stopping"]
    /\ rolling' = [rolling EXCEPT !.stopped = Append(@, Top)]
    /\ at' = IF at = "unwinding" THEN "unwind_stop" ELSE "stopping_stop"
    /\ UNCHANGED <<phaseVars, initialised, scope, root, gateVars, shutdownVars, dropped>>

Stopped(failures) ==
    /\ at \in {"unwind_stop", "stopping_stop"}
    /\ provider' = [provider EXCEPT ![Top] = "down"]
    /\ scope' = [scope EXCEPT ![Top] = "cancelled"]
    /\ rolling' = [rolling EXCEPT !.failures = @ \cup failures]
    /\ initialised' = SubSeq(initialised, 1, Len(initialised) - 1)
    /\ at' = IF at = "unwind_stop" THEN "unwinding" ELSE "stopping"
    /\ UNCHANGED <<phaseVars, root, gateVars, shutdownVars, dropped>>

Stops == Stopped({})

(* Mutant: the first failure ends the roll_back. *)
StopFailureReturns ==
    /\ at \in {"unwind_stop", "stopping_stop"}
    /\ provider' = [provider EXCEPT ![Top] = "down"]
    /\ scope' = [scope EXCEPT ![Top] = "cancelled"]
    /\ rolling' = [rolling EXCEPT !.failures = @ \cup {Top}]
    /\ initialised' = << >>
    /\ at' = IF at = "unwind_stop" THEN "unwinding" ELSE "stopping"
    /\ UNCHANGED <<phaseVars, root, gateVars, shutdownVars, dropped>>

(* A failure is collected, and the next provider is stopped all the same.  *)
StopFails == Stopped({Top})

StopRefused == StopFails

StopLate == StopFails

(* unwind returns the BootFailure, and the application is gone. *)
BootFails ==
    /\ at = "unwinding"
    /\ initialised = << >>
    /\ report' = [report EXCEPT !.stop = rolling]
    /\ at' = "failed"
    /\ UNCHANGED <<phaseVars, initialised, provider, scope, root, gateVars, draining, done,
                   rolling, dropped>>

ShutdownReturns ==
    /\ at = "stopping"
    /\ initialised = << >>
    /\ root' = TRUE
    /\ report' = [report EXCEPT !.stop = rolling]
    /\ at' = "returned"
    /\ UNCHANGED <<phaseVars, initialised, provider, scope, gateVars, draining, done, rolling,
                   dropped>>

------------------------------------------------------------------------------
(* shutdown *)

Callable == {"built", "ready", "returned", "idle"}

(* Mutant: nothing remembers that shutdown was called. *)
BeginsShutdownAgain ==
    /\ at \in Callable
    /\ done' = TRUE
    /\ SkipTo("Drain")
    /\ draining' = TRUE
    /\ rolling' = NoRollback
    /\ at' = "closing"
    /\ UNCHANGED <<initialised, provider, scope, root, gateVars, report, dropped>>

BeginsShutdown ==
    /\ at \in Callable
    /\ ~done
    /\ done' = TRUE
    /\ SkipTo("Drain")
    /\ draining' = TRUE
    /\ rolling' = NoRollback
    /\ at' = "closing"
    /\ UNCHANGED <<initialised, provider, scope, root, gateVars, report, dropped>>

(* The second and subsequent calls return what is there. *)
ReturnsReport ==
    /\ at \in Callable
    /\ done
    /\ at' = "returned"
    /\ UNCHANGED <<phaseVars, initialised, provider, scope, root, gateVars, shutdownVars, rolling,
                   dropped>>

ClosesGate ==
    /\ at = "closing"
    /\ closed' = TRUE
    /\ at' = "draining"
    /\ UNCHANGED <<phaseVars, initialised, provider, scope, root, permits, shutdownVars, rolling,
                   dropped>>

DrainWaits ==
    /\ at = "draining"
    /\ permits # {}
    /\ at' = "waiting"
    /\ UNCHANGED <<phaseVars, initialised, provider, scope, root, gateVars, shutdownVars, rolling,
                   dropped>>

(* A closed gate with nothing outstanding, at once or within the budget. *)
DrainsClean ==
    /\ at \in {"draining", "waiting"}
    /\ permits = {}
    /\ SkipTo("Stop")
    /\ at' = "stopping"
    /\ UNCHANGED <<initialised, provider, scope, root, gateVars, shutdownVars, rolling, dropped>>

(* The budget elapses, a budget of zero at once ... *)
DrainTimesOut ==
    /\ at = "waiting"
    /\ permits # {}
    /\ at' = "timed_out"
    /\ UNCHANGED <<phaseVars, initialised, provider, scope, root, gateVars, shutdownVars, rolling,
                   dropped>>

(* ... and the count is read again for the report. *)
DrainIsIncomplete ==
    /\ at = "timed_out"
    /\ report' = [report EXCEPT !.drain = "incomplete", !.outstanding = Cardinality(permits)]
    /\ SkipTo("Stop")
    /\ at' = "stopping"
    /\ UNCHANGED <<initialised, provider, scope, root, gateVars, draining, done, rolling, dropped>>

------------------------------------------------------------------------------
(* Everything else *)

(* Mutant: the gate is looked at and the permit counted in two steps. *)
BeginsWorkUnchecked(u) ==
    /\ u \notin permits
    /\ permits' = permits \cup {u}
    /\ UNCHANGED <<at, phaseVars, initialised, provider, scope, root, closed, shutdownVars,
                   rolling, dropped>>

(* WorkGate::begin: the check and the count are one step. *)
BeginsWork(u) ==
    /\ ~closed
    /\ u \notin permits
    /\ permits' = permits \cup {u}
    /\ UNCHANGED <<at, phaseVars, initialised, provider, scope, root, closed, shutdownVars,
                   rolling, dropped>>

EndsWork(u) ==
    /\ u \in permits
    /\ permits' = permits \ {u}
    /\ UNCHANGED <<at, phaseVars, initialised, provider, scope, root, closed, shutdownVars,
                   rolling, dropped>>

CancelsRoot ==
    /\ ~root
    /\ root' = TRUE
    /\ UNCHANGED <<at, phaseVars, initialised, provider, scope, gateVars, shutdownVars, rolling,
                   dropped>>

(* The future of boot goes, and the application with it: the guard of the  *)
(* provider being initialised cancels its scope, nothing is stopped.       *)
DropsBoot ==
    /\ at \in {"initialising", "unwind_stop"}
    /\ IF at = "initialising"
       THEN /\ provider' = [provider EXCEPT ![Upcoming] = "failed"]
            /\ scope' = [scope EXCEPT ![Upcoming] = "cancelled"]
       ELSE UNCHANGED <<provider, scope>>
    /\ initialised' = << >>
    /\ at' = "gone"
    /\ dropped' = TRUE
    /\ UNCHANGED <<phaseVars, root, gateVars, shutdownVars, rolling>>

(* The future of shutdown goes: what roll_back was iterating over is       *)
(* emptied, and the application can be asked again.                        *)
DropsShutdown ==
    /\ at \in {"waiting", "stopping_stop"}
    /\ initialised' = IF at = "stopping_stop" THEN << >> ELSE initialised
    /\ at' = "idle"
    /\ dropped' = TRUE
    /\ UNCHANGED <<phaseVars, provider, scope, root, gateVars, shutdownVars, rolling>>

(* What the kernel itself does next: the deadlines are its own.            *)
KernelStep ==
    \/ SeesCancelled \/ StartsProvider \/ InitLate \/ BecomesReady
    \/ StopsNext \/ StopLate \/ BootFails \/ ShutdownReturns
    \/ ClosesGate \/ DrainWaits \/ DrainsClean \/ DrainTimesOut \/ DrainIsIncomplete

Next ==
    \/ StartsBoot \/ BeginsShutdown \/ ReturnsReport
    \/ KernelStep
    \/ Initialises \/ InitRefused \/ Stops \/ StopRefused
    \/ \E u \in Works : BeginsWork(u) \/ EndsWork(u)
    \/ CancelsRoot \/ DropsBoot \/ DropsShutdown

Spec == Init /\ [][Next]_vars

(* The caller's task is polled and its timers fire; a provider or a unit of*)
(* work owes nothing.                                                      *)
FairSpec == Spec /\ WF_vars(KernelStep)

------------------------------------------------------------------------------
(* Properties *)

Rollbacks == [stopped : Seq(Providers), failures : SUBSET Providers]

(* Providers, scopes and reports of the right shape (application.rs).      *)
TypeOK ==
    /\ at \in {"built", "booting", "initialising", "unwinding", "unwind_stop", "failed", "ready",
               "closing", "draining", "waiting", "timed_out", "stopping", "stopping_stop",
               "returned", "idle", "gone"}
    /\ phase \in {"Register", "Boot", "Ready", "Drain", "Stop"}
    /\ initialised \in Seq(Providers)
    /\ provider \in [Providers -> {"new", "starting", "up", "stopping", "down", "failed"}]
    /\ scope \in [Providers -> {"none", "live", "cancelled"}]
    /\ root \in BOOLEAN
    /\ closed \in BOOLEAN
    /\ permits \subseteq Works
    /\ draining \in BOOLEAN
    /\ done \in BOOLEAN
    /\ dropped \in BOOLEAN
    /\ rolling \in Rollbacks
    /\ report \in [drain : {"clean", "incomplete"}, outstanding : Nat, stop : Rollbacks]

(* C-L3: whatever fails, hangs or is cancelled, a provider runs only while *)
(* every provider resolved before it runs, so nothing outlives what it     *)
(* needs.                                                                  *)
EarlierOutliveLater ==
    \A p \in Providers :
        provider[p] \in {"starting", "up", "stopping"} =>
            \A d \in 1 .. (p - 1) : provider[d] = "up"

(* C-L2, C-L4: a boot that failed and a shutdown that returned leave no    *)
(* provider running, however many refused to stop.                         *)
NothingLeftRunning ==
    ~dropped /\ at \in {"failed", "returned"} =>
        \A p \in Providers : provider[p] \in {"new", "down", "failed"}

(* C-L8: no provider is left half initialised: a scope is live only while  *)
(* its provider is starting, up or being stopped, even when the caller     *)
(* drops the future in the middle of an initialise.                        *)
ScopesFollowProviders ==
    \A p \in Providers :
        scope[p] = "live" <=> provider[p] \in {"starting", "up", "stopping"}

(* C-L5: providers are stopped under work that still runs only when the    *)
(* report says the drain was incomplete.                                   *)
CleanDrainIsIdle ==
    at \in {"stopping", "stopping_stop"} /\ permits # {} => report.drain = "incomplete"

Reported(p) ==
    /\ at = "returned"
    /\ \E i \in DOMAIN report.stop.stopped : report.stop.stopped[i] = p

ReportedIncomplete == at = "returned" /\ report.drain = "incomplete"

(* C-L6: what one returned report says was stopped, and how its drain went,*)
(* every later returned report says too: the calls after the first return  *)
(* the report the first one made.                                          *)
ShutdownIsIdempotent ==
    /\ \A p \in Providers :
          [](Reported(p) => [](at = "returned" => Reported(p)))
    /\ [](ReportedIncomplete => [](at = "returned" => ReportedIncomplete))

(* C-L7: a boot ends, whatever its providers do, and so does a shutdown.   *)
KernelReturns ==
    /\ at = "booting" ~> at \in {"ready", "failed", "gone"}
    /\ at = "closing" ~> at \in {"returned", "idle"}

LifeOf(state) ==
    CASE state \in {"new", "starting"} -> "waiting"
      [] state \in {"up", "stopping"} -> "up"
      [] state \in {"down", "failed"} -> "over"

Lives == [p \in Providers |-> LifeOf(provider[p])]

Stack == INSTANCE ProviderStack WITH life <- Lives

(* Providers start and stop as a stack, each at most once.                 *)
IsAStack == Stack!StackSpec
==============================================================================

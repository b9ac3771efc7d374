--------------------------- MODULE ReadinessProbes ---------------------------
(***************************************************************************)
(* Concurrent readiness probes of one HealthState: each asks the           *)
(* contributors in turn, every one on a worker thread of its own that may  *)
(* answer, panic, outlive the deadline or never return.  A ceiling bounds  *)
(* the threads; the thread itself gives its slot back.                     *)
(***************************************************************************)
EXTENDS Integers, FiniteSets, Sequences

CONSTANTS
    Probes,        \* the callers of readiness
    Contributors,  \* how many contributors are registered
    Ceiling        \* MAX_OUTSTANDING_PROBES

ASSUME ProbesAssumption ==
    /\ Contributors \in Nat
    /\ Ceiling \in Nat
    /\ IsFiniteSet(Probes)

VARIABLES
    outstanding,   \* the counter every claim and every guard moves
    asking,        \* the probes whose claimed slot is not yet a thread of its own
    listening,     \* the probes waiting for a thread to answer
    hung,          \* threads whose probe no longer waits for them
    leaving,       \* threads that have answered and still hold their guard
    verdicts,      \* what each probe heard so far; none while it is idle
    report,        \* what each probe last reported
    drainBegun     \* begin_draining was called

probeVars == <<outstanding, asking, listening, hung, leaving, verdicts, report, drainBegun>>


ProbesInit ==
    /\ outstanding = 0 /\ hung = 0 /\ leaving = 0
    /\ asking = {} /\ listening = {}
    /\ verdicts = [p \in Probes |-> <<>>]
    /\ report = [p \in Probes |-> "None"]
    /\ drainBegun = FALSE

Awaits(p) == p \in asking \/ p \in listening

\* The next contributor is p's to ask.
AtNext(p) == ~Awaits(p) /\ Len(verdicts[p]) < Contributors

Hears(p, v) == verdicts' = [verdicts EXCEPT ![p] = Append(@, v)]

\* claim: one compare and exchange, a slot or a refusal.
Claims(p) ==
    /\ AtNext(p) /\ outstanding < Ceiling
    /\ outstanding' = outstanding + 1
    /\ asking' = asking \cup {p}
    /\ UNCHANGED <<listening, hung, leaving, verdicts, report, drainBegun>>

RefusedByCeiling(p) ==
    /\ AtNext(p) /\ outstanding >= Ceiling
    /\ Hears(p, "Fault")
    /\ UNCHANGED <<outstanding, asking, listening, hung, leaving, report, drainBegun>>

Spawns(p) ==
    /\ p \in asking
    /\ asking' = asking \ {p}
    /\ listening' = listening \cup {p}
    /\ UNCHANGED <<outstanding, hung, leaving, verdicts, report, drainBegun>>

\* A slip: the failed spawn gives back the slot its dropped guard gives back.
SpawnFailsTwice(p) ==
    /\ p \in asking
    /\ asking' = asking \ {p}
    /\ outstanding' = outstanding - 2
    /\ Hears(p, "Fault")
    /\ UNCHANGED <<listening, hung, leaving, report, drainBegun>>

\* The host refuses a thread: the closure is dropped, and its guard with it.
SpawnFails(p) ==
    /\ p \in asking
    /\ asking' = asking \ {p}
    /\ outstanding' = outstanding - 1
    /\ Hears(p, "Fault")
    /\ UNCHANGED <<listening, hung, leaving, report, drainBegun>>

\* The answer is received before the thread has dropped its guard.
Answered(p) ==
    /\ p \in listening
    /\ listening' = listening \ {p}
    /\ leaving' = leaving + 1
    /\ \E v \in {"Ready", "NotReady", "Fault"} : Hears(p, v)
    /\ UNCHANGED <<outstanding, asking, hung, report, drainBegun>>

AskTimesOut(p) ==
    /\ p \in listening
    /\ listening' = listening \ {p}
    /\ hung' = hung + 1
    /\ Hears(p, "Fault")
    /\ UNCHANGED <<outstanding, asking, leaving, report, drainBegun>>

\* A thread nobody waits for returns after all; one may also never return.
ReturnsLate ==
    /\ hung > 0
    /\ hung' = hung - 1 /\ leaving' = leaving + 1
    /\ UNCHANGED <<outstanding, asking, listening, verdicts, report, drainBegun>>

\* The thread ends and its guard gives the slot back.
Releases ==
    /\ leaving > 0
    /\ leaving' = leaving - 1
    /\ outstanding' = outstanding - 1
    /\ UNCHANGED <<asking, listening, hung, verdicts, report, drainBegun>>

\* Every contributor was asked; the draining flag is read last.
Reports(p) ==
    /\ ~Awaits(p) /\ Len(verdicts[p]) = Contributors
    /\ report' = [report EXCEPT ![p] =
          IF ~drainBegun /\ \A i \in DOMAIN verdicts[p] : verdicts[p][i] = "Ready"
          THEN "Ready" ELSE "NotReady"]
    /\ verdicts' = [verdicts EXCEPT ![p] = <<>>]
    /\ UNCHANGED <<outstanding, asking, listening, hung, leaving, drainBegun>>

BeginDraining ==
    /\ drainBegun' = TRUE
    /\ UNCHANGED <<outstanding, asking, listening, hung, leaving, verdicts, report>>

ProbesNext ==
    \/ \E p \in Probes :
          \/ Claims(p) \/ RefusedByCeiling(p) \/ Spawns(p) \/ SpawnFails(p)
          \/ Answered(p) \/ AskTimesOut(p) \/ Reports(p)
    \/ ReturnsLate \/ Releases \/ BeginDraining

ProbesSpec == ProbesInit /\ [][ProbesNext]_probeVars

-----------------------------------------------------------------------------
\* The ceiling bounds what it is there to bound: the threads alive, hung ones
\* included, are what the counter says and never more than the ceiling, so a
\* slot is neither lost to a failed spawn nor given back twice.
ThreadsWithinCeiling ==
    /\ outstanding = Cardinality(asking) + Cardinality(listening) + hung + leaving
    /\ outstanding <= Ceiling
=============================================================================

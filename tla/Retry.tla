------------------------------- MODULE Retry -------------------------------
(***************************************************************************)
(* One call of retry: attempts under a timeout, delays between them, and   *)
(* an overall deadline that may cut either.                                *)
(*                                                                         *)
(* Timers are exact: time stands still while a bound, a sleep or an        *)
(* attempt that ends now waits to be noticed, as on a paused runtime.  A   *)
(* multiplier is a whole number here, and entropy picks any delay its      *)
(* jitter allows.                                                          *)
(***************************************************************************)
EXTENDS Integers

CONSTANTS
    Policies,    \* the policies a call may run under
    NoDeadline   \* the deadline of a policy that has none

VARIABLES
    policy,      \* the policy of the call, fixed when it starts
    elapsed,     \* the time since the call started
    started,     \* the attempts started
    phase,       \* "Loop", "Running", "Sleeping" or "Over"
    due,         \* when the attempt is cut, or the sleep ends
    governs,     \* deadline_governs: the deadline is what cuts the attempt
    erred,       \* last is Some: an attempt returned an error value
    retries,     \* the retries announced and counted
    reason       \* why the call is over

retryVars == <<policy, elapsed, started, phase, due, governs, erred, retries, reason>>

\* The bounds every constructor of a policy enforces.
ValidPolicy(p) ==
    /\ {p.attempts, p.initial, p.timeout, p.multiplier} \subseteq Nat \ {0}
    /\ p.max \in Nat /\ p.max >= p.initial
    /\ p.jitter \in {"None", "Full", "Equal"}
    /\ p.deadline # NoDeadline => p.deadline \in Nat \ {0}

ASSUME RetryAssumption == \A p \in Policies : ValidPolicy(p)

Lesser(a, b) == IF a <= b THEN a ELSE b

\* The delay after a failed attempt, before jitter.
Grown(n) == Lesser(policy.initial * policy.multiplier ^ (n - 1), policy.max)

\* What entropy may make of it: neither negative nor past the cap, whatever
\* the jitter.
Delays(n) ==
    {d \in 0 .. policy.max :
        CASE policy.jitter = "None"  -> d = Grown(n)
          [] policy.jitter = "Full"  -> d <= Grown(n)
          [] policy.jitter = "Equal" -> Grown(n) \div 2 <= d /\ d <= Grown(n)}

HasDeadline == policy.deadline # NoDeadline
Remaining == policy.deadline - elapsed

RetryInit ==
    /\ policy \in Policies
    /\ elapsed = 0 /\ started = 0 /\ due = 0 /\ retries = 0
    /\ phase = "Loop" /\ reason = "None"
    /\ governs = FALSE /\ erred = FALSE

Over(why) ==
    /\ phase' = "Over" /\ reason' = why
    /\ UNCHANGED <<policy, elapsed, due, governs, retries>>

\* The top of the loop finds no time left: the attempt is not started.
DeadlinePassed ==
    /\ phase = "Loop" /\ HasDeadline /\ Remaining = 0
    /\ Over("DeadlineExceeded")
    /\ UNCHANGED <<started, erred>>

\* A slip: the deadline bounds only the gaps between attempts.
DeadlineNeverGoverns == FALSE

\* Which bound an attempt runs under; on a tie the deadline governs.
DeadlineGoverns == HasDeadline /\ Remaining <= policy.timeout

StartsAttempt ==
    /\ phase = "Loop"
    /\ HasDeadline => Remaining > 0
    /\ started' = started + 1
    /\ governs' = DeadlineGoverns
    /\ due' = elapsed + (IF DeadlineGoverns THEN Remaining ELSE policy.timeout)
    /\ phase' = "Running"
    /\ UNCHANGED <<policy, elapsed, erred, retries, reason>>

Succeeds ==
    /\ phase = "Running"
    /\ Over("Ok")
    /\ UNCHANGED <<started, erred>>

Terminal ==
    /\ phase = "Running"
    /\ erred' = TRUE
    /\ Over("Terminal")
    /\ UNCHANGED started

CutByDeadline ==
    /\ phase = "Running" /\ elapsed = due /\ governs
    /\ Over("DeadlineExceeded")
    /\ UNCHANGED <<started, erred>>

\* The attempt returned a retryable error, or its timeout cut it.
Fails ==
    /\ phase = "Running"
    /\ \/ erred' = TRUE
       \/ elapsed = due /\ ~governs /\ erred' = erred

Exhausted ==
    /\ Fails /\ started = policy.attempts
    /\ Over(IF erred' THEN "AttemptsExhausted" ELSE "AttemptTimedOut")
    /\ UNCHANGED started

NoEntropy ==
    /\ Fails /\ started < policy.attempts /\ policy.jitter # "None"
    /\ Over("EntropyUnavailable")
    /\ UNCHANGED started

\* The retry is announced and counted, and then slept for: a delay is
\* shortened to the deadline, never left out.
Retries ==
    /\ Fails /\ started < policy.attempts
    /\ \E d \in Delays(started) :
          due' = elapsed + (IF HasDeadline THEN Lesser(d, Remaining) ELSE d)
    /\ retries' = retries + 1
    /\ phase' = "Sleeping"
    /\ UNCHANGED <<policy, elapsed, started, governs, reason>>

Wakes ==
    /\ phase = "Sleeping" /\ elapsed = due
    /\ phase' = "Loop"
    /\ UNCHANGED <<policy, elapsed, started, due, governs, erred, retries, reason>>

RetryTicks ==
    /\ phase \in {"Running", "Sleeping"} /\ elapsed < due
    /\ elapsed' = elapsed + 1
    /\ UNCHANGED <<policy, started, phase, due, governs, erred, retries, reason>>

RetryNext ==
    \/ DeadlinePassed \/ StartsAttempt
    \/ Succeeds \/ Terminal \/ CutByDeadline \/ Exhausted \/ NoEntropy \/ Retries
    \/ Wakes \/ RetryTicks

RetrySpec == RetryInit /\ [][RetryNext]_retryVars

-----------------------------------------------------------------------------
\* The time a policy allows: its deadline, or every attempt cut and every
\* delay at its ceiling.
Allowed ==
    IF HasDeadline THEN policy.deadline
    ELSE policy.attempts * policy.timeout + (policy.attempts - 1) * policy.max

\* What retry promises of the whole call, attempts and sleeps together: it is
\* over within the time its policy allows; a call the deadline ended used all
\* of it, and no attempt ran past it; every announced retry was made, but for
\* one that the deadline overtook while the call slept for it.
RetryKeepsItsPolicy ==
    /\ elapsed <= Allowed
    /\ phase \in {"Running", "Sleeping"} => due <= Allowed
    /\ started <= policy.attempts
    /\ reason = "DeadlineExceeded" => HasDeadline /\ elapsed = policy.deadline
    /\ phase = "Over" =>
          \/ retries = started - 1
          \/ reason = "DeadlineExceeded" /\ retries = started
=============================================================================

----------------------------- MODULE HttpServer -----------------------------
(***************************************************************************)
(* The HTTP server: requests pass the concurrency ceiling and the work     *)
(* gate, and serve shuts down within its drain budget.                     *)
(*                                                                         *)
(* The accept loop and its connection tasks are axum's; a connection it    *)
(* took goes on after the loop has stopped or was aborted.                 *)
(***************************************************************************)
EXTENDS Integers, FiniteSets

CONSTANTS
    Requests,      \* the requests that may arrive
    MaxConcurrent  \* the slots of the admission control

ASSUME HttpAssumption == IsFiniteSet(Requests) /\ MaxConcurrent \in Nat

VARIABLES
    request,      \* where each request stands
    slots,        \* free slots of the semaphore
    inFlight,     \* outstanding units of work of the gate
    gateClosed,   \* the gate refuses
    cancelled,    \* requests whose own scope is cancelled
    rootCancelled, \* the server's scope, the parent of theirs
    accepting,    \* the accept loop takes connections
    serving,      \* the serving task: "Up", "Ended", "Failed" or "Aborted"
    server,       \* where serve stands
    drained,      \* the drain outcome it will report
    ready         \* what the provider's readiness contributor answers

httpVars == <<request, slots, inFlight, gateClosed, cancelled, rootCancelled,
              accepting, serving, server, drained, ready>>

\* Where a request can stand.
HoldsSlot == {"Slotted", "Handling"}
Unanswered == {"Arrived", "Slotted", "Handling"}

HttpInit ==
    /\ request = [r \in Requests |-> "None"]
    /\ slots = MaxConcurrent /\ inFlight = 0
    /\ gateClosed = FALSE /\ rootCancelled = FALSE /\ cancelled = {}
    /\ accepting = FALSE /\ serving = "None"
    /\ server = "Unbound" /\ drained = "None" /\ ready = FALSE

Moves(r, to) == request' = [request EXCEPT ![r] = to]

serverVars == <<accepting, serving, server, drained, ready>>

Arrives(r) ==
    /\ request[r] = "None" /\ accepting /\ serving = "Up"
    /\ Moves(r, "Arrived")
    /\ UNCHANGED <<slots, inFlight, gateClosed, cancelled, rootCancelled, serverVars>>

\* admit: the slot first.
TakesSlot(r) ==
    /\ request[r] = "Arrived" /\ slots > 0
    /\ slots' = slots - 1
    /\ Moves(r, "Slotted")
    /\ UNCHANGED <<inFlight, gateClosed, cancelled, rootCancelled, serverVars>>

NoSlot(r) ==
    /\ request[r] = "Arrived" /\ slots = 0
    /\ Moves(r, "Answered")
    /\ UNCHANGED <<slots, inFlight, gateClosed, cancelled, rootCancelled, serverVars>>

\* Then the gate; a refusal drops the slot.
PassesGate(r) ==
    /\ request[r] = "Slotted" /\ ~gateClosed
    /\ inFlight' = inFlight + 1
    /\ Moves(r, "Handling")
    /\ UNCHANGED <<slots, gateClosed, cancelled, rootCancelled, serverVars>>

GateRefuses(r) ==
    /\ request[r] = "Slotted" /\ gateClosed
    /\ slots' = slots + 1
    /\ Moves(r, "Answered")
    /\ UNCHANGED <<inFlight, gateClosed, cancelled, rootCancelled, serverVars>>

\* AdmissionGuard is dropped: the permit and the slot go together.
DropsGuard(r) ==
    /\ slots' = slots + 1
    /\ inFlight' = inFlight - 1

Responds(r) ==
    /\ request[r] = "Handling"
    /\ DropsGuard(r)
    /\ Moves(r, "Answered")
    /\ UNCHANGED <<gateClosed, cancelled, rootCancelled, serverVars>>

\* The request timeout: the scope is cancelled, the guard dropped.
RequestTimesOut(r) ==
    /\ request[r] = "Handling"
    /\ DropsGuard(r)
    /\ cancelled' = cancelled \cup {r}
    /\ Moves(r, "Answered")
    /\ UNCHANGED <<gateClosed, rootCancelled, serverVars>>

\* The connection goes: the future is dropped at its await, the guards in it
\* with it.
Disconnects(r) ==
    /\ request[r] \in {"Arrived", "Handling"}
    /\ Moves(r, "Lost")
    /\ IF request[r] = "Handling" THEN DropsGuard(r) ELSE UNCHANGED <<slots, inFlight>>
    /\ cancelled' = cancelled \cup {r}
    /\ UNCHANGED <<gateClosed, rootCancelled, serverVars>>

\* HttpServerProvider::initialise: bound and spawned, and ready last.
Initialises ==
    /\ server = "Unbound"
    /\ server' = "Serving" /\ serving' = "Up" /\ accepting' = TRUE /\ ready' = TRUE
    /\ UNCHANGED <<request, slots, inFlight, gateClosed, cancelled, rootCancelled, drained>>

\* The configuration, the routes or the bind is refused.
InitialiseFails ==
    /\ server = "Unbound"
    /\ server' = "Refused"
    /\ UNCHANGED <<request, slots, inFlight, gateClosed, cancelled, rootCancelled,
                   accepting, serving, drained, ready>>

\* stop: not ready first, then the shutdown is sent.
ProviderStops ==
    /\ server = "Serving"
    /\ ready' = FALSE /\ server' = "Told"
    /\ UNCHANGED <<request, slots, inFlight, gateClosed, cancelled, rootCancelled,
                   accepting, serving, drained>>

\* The application closes the gate it shares, before it stops its providers.
KernelCloses ==
    /\ gateClosed' = TRUE
    /\ UNCHANGED <<request, slots, inFlight, cancelled, rootCancelled, serverVars>>

\* shutdown resolves and the gate closes, before anything else.
ClosesGate ==
    /\ server = "Told"
    /\ gateClosed' = TRUE
    /\ server' = "Closed"
    /\ UNCHANGED <<request, slots, inFlight, cancelled, rootCancelled, accepting, serving,
                   drained, ready>>

\* stop_accepting is sent, the loop notices it in its own time, and drain
\* begins by closing the gate once more.
SignalsStop ==
    /\ server = "Closed"
    /\ gateClosed' = TRUE
    /\ server' = "Draining"
    /\ UNCHANGED <<request, slots, inFlight, cancelled, rootCancelled,
                   accepting, serving, drained, ready>>

LoopStops ==
    /\ accepting /\ server \notin {"Unbound", "Serving", "Told", "Closed"}
    /\ accepting' = FALSE
    /\ UNCHANGED <<request, slots, inFlight, gateClosed, cancelled, rootCancelled,
                   serving, server, drained, ready>>

\* The serving task ends once its connections have.
ServingEnds ==
    /\ serving = "Up" /\ ~accepting
    /\ \A r \in Requests : request[r] \notin Unanswered
    /\ serving' = "Ended"
    /\ UNCHANGED <<request, slots, inFlight, gateClosed, cancelled, rootCancelled,
                   accepting, server, drained, ready>>

ServingFails ==
    /\ serving = "Up"
    /\ serving' = "Failed" /\ accepting' = FALSE
    /\ UNCHANGED <<request, slots, inFlight, gateClosed, cancelled, rootCancelled,
                   server, drained, ready>>

DrainsClean ==
    /\ server = "Draining" /\ inFlight = 0
    /\ drained' = "Clean"
    /\ server' = "Joining"
    /\ UNCHANGED <<request, slots, inFlight, gateClosed, cancelled, rootCancelled,
                   accepting, serving, ready>>

\* A slip: the work that outlived the budget is reported and left to run.
DrainsOverAlone ==
    /\ server = "Draining"
    /\ drained' = "Incomplete"
    /\ server' = "Joining"
    /\ UNCHANGED <<request, slots, inFlight, gateClosed, cancelled, rootCancelled,
                   accepting, serving, ready>>

\* The budget elapses first: what is outstanding is cancelled.
DrainsOver ==
    /\ server = "Draining"
    /\ drained' = "Incomplete"
    /\ rootCancelled' = TRUE
    /\ server' = "Joining"
    /\ UNCHANGED <<request, slots, inFlight, gateClosed, cancelled, accepting, serving, ready>>

\* The remainder of the budget for the serving task, and no more.
Joins ==
    /\ server = "Joining" /\ serving # "Up"
    /\ server' = IF serving = "Failed" THEN "Error" ELSE "Returned"
    /\ UNCHANGED <<request, slots, inFlight, gateClosed, cancelled, rootCancelled,
                   accepting, serving, drained, ready>>

AbandonsServing ==
    /\ server = "Joining" /\ serving = "Up"
    /\ serving' = "Aborted" /\ accepting' = FALSE
    /\ server' = "Returned"
    /\ UNCHANGED <<request, slots, inFlight, gateClosed, cancelled, rootCancelled, drained, ready>>

HttpNext ==
    \/ \E r \in Requests :
          \/ Arrives(r) \/ TakesSlot(r) \/ NoSlot(r) \/ PassesGate(r) \/ GateRefuses(r)
          \/ Responds(r) \/ RequestTimesOut(r) \/ Disconnects(r)
    \/ Initialises \/ InitialiseFails \/ ProviderStops \/ KernelCloses
    \/ ClosesGate \/ SignalsStop \/ LoopStops \/ ServingEnds \/ ServingFails
    \/ DrainsClean \/ DrainsOver \/ Joins \/ AbandonsServing

HttpSpec == HttpInit /\ [][HttpNext]_httpVars

-----------------------------------------------------------------------------
Handling == {r \in Requests : request[r] = "Handling"}
Holding == {r \in Requests : request[r] \in HoldsSlot}

\* What serve says of the work it leaves: the gate counts every handler and
\* the semaphore every admission, on every way out of a request; a clean
\* outcome leaves no handler behind, a handler that outlives serve has been
\* told to stop, and nothing is routed to a server that is stopping.
NoWorkGoesUnseen ==
    /\ inFlight = Cardinality(Handling)
    /\ slots = MaxConcurrent - Cardinality(Holding)
    /\ server \in {"Returned", "Error"} =>
          /\ drained = "Clean" => Handling = {}
          /\ Handling \subseteq cancelled \/ rootCancelled
    /\ ready => server = "Serving"
=============================================================================

--------------------------- MODULE RuntimeProofs ----------------------------
(***************************************************************************)
(* Proofs about the parts of a running application and of the command      *)
(* line's relay: the span exporter, the readiness probes, the HTTP server, *)
(* retried calls, the builder, the answer relayed from a project.  They    *)
(* share no state; a section each.                                         *)
(***************************************************************************)
EXTENDS OtelExport, ReadinessProbes, HttpServer, Retry, BuildCalls, ProjectRelay,
        FiniteSetTheorems, TLAPS

-----------------------------------------------------------------------------
(* Proofs about the span exporter, for any spans, capacity and batch size. *)
(* The count is exact because a span is counted before it is offered and   *)
(* uncounted where it leaves; a forced close reports enough because it     *)
(* reads the count when the drain has ended and the channel is closed, so  *)
(* that the only spans still to be sent hold a permit, and are counted.    *)

USE ExportAssumption

Forced == {"timed_out", "drain_failed"}

(* What the channel has taken or must take. *)
Carried == Unexported \cup In("permitted")

Held == OnItsWay \cup Unexported

EndedIsClosed == drain = "ended" => closed

ReadAfterEnd ==
    handle \in {"reading", "returned"} /\ outcome \in Forced => drain = "ended"

CarriedIsReported ==
    handle = "returned" /\ outcome \in Forced => Cardinality(Carried) <= counted

ExportInv ==
    /\ ExportTypeOK /\ CountIsExact
    /\ EndedIsClosed /\ ReadAfterEnd /\ CarriedIsReported

(* Every set of spans is finite. *)
LEMMA SpansFinite ==
  ASSUME NEW S \in SUBSET Spans
  PROVE  IsFiniteSet(S) /\ Cardinality(S) \in Nat
<1>1. IsFiniteSet(S)
  BY FS_Subset
<1>2. QED
  BY <1>1, FS_CardinalityType

LEMMA InitExport == ExportInit => ExportInv
<1> SUFFICES ASSUME ExportInit PROVE ExportInv
  OBVIOUS
<1>1. OnItsWay \cup Unexported = {}
  BY DEF ExportInit, OnItsWay, Unexported, In
<1>2. CountIsExact
  BY <1>1, FS_EmptySet DEF ExportInit, CountIsExact
<1>3. ExportTypeOK
  <2>1. span \in [Spans -> Places]
    BY DEF ExportInit, Places
  <2>2. queued \in Int /\ counted \in Int
    BY DEF ExportInit
  <2>3. QED
    BY <2>1, <2>2, Zenon DEF ExportInit, ExportTypeOK
<1>4. QED
  BY <1>2, <1>3 DEF ExportInit, ExportInv, EndedIsClosed, ReadAfterEnd, CarriedIsReported

(* The count and what it counts move together. *)
LEMMA StepCount ==
  ASSUME ExportInv, [ExportNext]_exportVars
  PROVE  CountIsExact'
<1> USE DEF ExportInv, ExportTypeOK, CountIsExact
<1> DEFINE Now == OnItsWay \cup Unexported
<1>0. Now \in SUBSET Spans /\ IsFiniteSet(Now) /\ Cardinality(Now) \in Nat
  BY SpansFinite DEF OnItsWay, Unexported, In
<1>1. ASSUME NEW s \in Spans, Counts(s) PROVE CountIsExact'
  <2>1. Now' = Now \cup {s} /\ s \notin Now
    BY <1>1 DEF Counts, Moved, OnItsWay, Unexported, In, Places
  <2>2. Cardinality(Now') = Cardinality(Now) + 1
    BY ONLY <2>1, <1>0, FS_AddElement
  <2>3. QED
    BY <2>2, <1>1 DEF Counts
<1>2. ASSUME NEW s \in Spans, Unwinds(s) PROVE CountIsExact'
  <2>1. Now' = Now \ {s} /\ s \in Now
    BY <1>2 DEF Unwinds, Moved, OnItsWay, Unexported, In, Places
  <2>2. Cardinality(Now') = Cardinality(Now) - 1
    BY ONLY <2>1, <1>0, FS_RemoveElement
  <2>3. QED
    BY <2>2, <1>2 DEF Unwinds
<1>3. ASSUME Concludes PROVE CountIsExact'
  <2> DEFINE Gone == In("in_flight")
  <2>1. Gone \in SUBSET Spans /\ IsFiniteSet(Gone) /\ Cardinality(Gone) \in Nat
    BY SpansFinite DEF In
  <2>2. Now' = Now \ Gone /\ Gone \subseteq Now
    BY <1>3 DEF Concludes, Moved, OnItsWay, Unexported, In, Places
  <2>3. Now' \in SUBSET Spans /\ IsFiniteSet(Now') /\ Cardinality(Now') \in Nat
    BY <2>2, <1>0, SpansFinite
  <2>4. Now = Now' \cup Gone /\ Now' \cap Gone = {}
    BY <2>2
  <2>5. Cardinality(Now) = Cardinality(Now') + Cardinality(Gone) - Cardinality(Now' \cap Gone)
    BY <2>1, <2>3, <2>4, FS_Union
  <2>6. Cardinality(Now' \cap Gone) = 0
    BY <2>4, FS_EmptySet
  <2>7. QED
    BY <1>0, <1>3, <2>1, <2>3, <2>5, <2>6 DEF Concludes
<1>4. ASSUME NEW s \in Spans, Offers(s) \/ Sends(s) \/ Receives(s) \/ SweepsOne(s)
      PROVE  CountIsExact'
  <2>1. Now' = Now
    BY <1>4 DEF Offers, Sends, Receives, SweepsOne, Moved, OnItsWay, Unexported, In, Places
  <2>2. QED
    BY <2>1, <1>4 DEF Offers, Sends, Receives, SweepsOne
<1>5. ASSUME NEW C \in SUBSET Spans, StartsExport(C) PROVE CountIsExact'
  <2>1. Now' = Now
    BY <1>5 DEF StartsExport, Chunks, Moved, OnItsWay, Unexported, In, Places
  <2>2. QED
    BY <2>1, <1>5 DEF StartsExport
<1>6. CASE UNCHANGED <<span, queued>>
  BY <1>6 DEF OnItsWay, Unexported, In
<1>7. QED
  BY <1>1, <1>2, <1>3, <1>4, <1>5, <1>6
  DEF ExportNext, DrainStep, HandleStep, exportVars, drainVars, handleVars, StopsFilling,
      NoticesStop, ClosesQueue, SweepEnds, ExportsDone, Aborts, Panics, Shutdown, DropsHandle,
      FlushEnds, FlushTimesOut, Joined, Reads, Abandoned

LEMMA StepTypes ==
  ASSUME ExportInv, [ExportNext]_exportVars
  PROVE  ExportTypeOK' /\ EndedIsClosed' /\ ReadAfterEnd'
<1> USE DEF ExportInv, ExportTypeOK, EndedIsClosed, ReadAfterEnd, Forced
<1>0. \A S \in SUBSET Spans, place \in Places : Moved(S, place) \in [Spans -> Places]
  BY DEF Moved
<1>1. ASSUME NEW s \in Spans, Counts(s) \/ Offers(s) \/ Sends(s) \/ Unwinds(s)
      PROVE  ExportTypeOK' /\ EndedIsClosed' /\ ReadAfterEnd'
  <2>1. span' \in [Spans -> Places]
    BY <1>0, <1>1 DEF Counts, Offers, Sends, Unwinds, Places
  <2>2. QED
    BY <1>1, <2>1 DEF Counts, Offers, Sends, Unwinds, drainVars, handleVars
<1>2. ASSUME NEW s \in Spans, Receives(s) \/ SweepsOne(s)
      PROVE  ExportTypeOK' /\ EndedIsClosed' /\ ReadAfterEnd'
  <2>1. span' \in [Spans -> Places]
    BY <1>0, <1>2 DEF Receives, SweepsOne, Places
  <2>2. QED
    BY <1>2, <2>1 DEF Receives, SweepsOne, drainVars, handleVars
<1>3. ASSUME NEW C \in SUBSET Spans, StartsExport(C)
      PROVE  ExportTypeOK' /\ EndedIsClosed' /\ ReadAfterEnd'
  <2>1. span' \in [Spans -> Places]
    BY <1>0, <1>3 DEF StartsExport, Places
  <2>2. QED
    BY <1>3, <2>1 DEF StartsExport, handleVars
<1>4. ASSUME Concludes PROVE ExportTypeOK' /\ EndedIsClosed' /\ ReadAfterEnd'
  <2>1. Cardinality(In("in_flight")) \in Nat
    BY SpansFinite DEF In
  <2>2. span' \in [Spans -> Places]
    BY <1>0, <1>4 DEF Concludes, In, Places
  <2>3. QED
    BY <1>4, <2>1, <2>2 DEF Concludes, handleVars
<1>5. CASE StopsFilling \/ NoticesStop \/ ClosesQueue \/ SweepEnds \/ ExportsDone \/ Aborts
           \/ Panics
  <2>1. CASE StopsFilling \/ NoticesStop \/ ClosesQueue
    BY <2>1 DEF StopsFilling, NoticesStop, ClosesQueue, handleVars
  <2>2. CASE SweepEnds \/ ExportsDone
    BY <2>2 DEF SweepEnds, ExportsDone, handleVars
  <2>3. CASE Aborts \/ Panics
    BY <2>3 DEF Aborts, Panics, handleVars
  <2>4. QED
    BY <1>5, <2>1, <2>2, <2>3
<1>6. CASE Shutdown \/ DropsHandle \/ HandleStep \/ Abandoned
  <2>1. CASE Shutdown
    BY <2>1 DEF Shutdown, drainVars
  <2>2. CASE DropsHandle
    BY <2>2 DEF DropsHandle, drainVars
  <2>3. CASE FlushEnds
    BY <2>3 DEF FlushEnds, drainVars
  <2>4. CASE FlushTimesOut
    BY <2>4 DEF FlushTimesOut, drainVars
  <2>5. CASE Joined
    BY <2>5 DEF Joined, drainVars
  <2>6. CASE Reads
    BY <2>6 DEF Reads, drainVars
  <2>7. CASE Abandoned
    BY <2>7 DEF Abandoned, drainVars
  <2>8. QED
    BY <1>6, <2>1, <2>2, <2>3, <2>4, <2>5, <2>6, <2>7 DEF HandleStep
<1>7. CASE UNCHANGED exportVars
  BY <1>7 DEF exportVars, drainVars, handleVars
<1>8. QED
  BY <1>1, <1>2, <1>3, <1>4, <1>5, <1>6, <1>7 DEF ExportNext, DrainStep

(* Once the count is read the channel takes nothing it had not promised. *)
LEMMA StepReported ==
  ASSUME ExportInv, [ExportNext]_exportVars
  PROVE  CarriedIsReported'
<1> USE DEF ExportInv, ExportTypeOK, CarriedIsReported, Forced
<1>0. Carried \in SUBSET Held /\ Held \in SUBSET Spans
  BY DEF Carried, Held, OnItsWay, Unexported, In
<1>1. Cardinality(Carried) <= Cardinality(Held)
  BY <1>0, SpansFinite, FS_Subset
<1>2. CASE Reads
  <2>1. Carried' = Carried
    BY <1>2 DEF Reads, Carried, Unexported, In
  <2>2. QED
    BY <1>1, <1>2, <2>1 DEF Reads, CountIsExact, Held
<1>3. CASE FlushEnds \/ FlushTimesOut \/ Joined \/ Shutdown \/ DropsHandle \/ Abandoned
  BY <1>3 DEF FlushEnds, FlushTimesOut, Joined, Shutdown, DropsHandle, Abandoned
<1>4. CASE handle = "returned" /\ outcome \in Forced /\ UNCHANGED handleVars
  <2>1. drain = "ended" /\ closed
    BY <1>4 DEF ReadAfterEnd, EndedIsClosed
  <2>2. Carried' = Carried
    <3>1. ASSUME NEW s \in Spans, Counts(s) \/ Offers(s) \/ Sends(s) \/ Unwinds(s)
          PROVE  Carried' = Carried
      BY <2>1, <3>1 DEF Counts, Offers, Sends, Unwinds, Moved, Carried, Unexported, In, Places
    <3>2. CASE UNCHANGED span
      BY <3>2 DEF Carried, Unexported, In
    <3>3. QED
      BY <2>1, <3>1, <3>2 DEF ExportNext, DrainStep, HandleStep, exportVars, Receives,
         StopsFilling, NoticesStop, ClosesQueue, SweepsOne, SweepEnds, StartsExport, Concludes,
         ExportsDone, Panics, Aborts, Shutdown, FlushEnds, FlushTimesOut, Joined, DropsHandle,
         Reads, Abandoned
  <2>3. QED
    BY <1>4, <2>2 DEF handleVars
<1>5. CASE ~(handle = "returned" /\ outcome \in Forced) /\ UNCHANGED handleVars
  BY <1>5 DEF handleVars
<1>6. QED
  BY <1>2, <1>3, <1>4, <1>5 DEF ExportNext, DrainStep, HandleStep, exportVars, Counts, Offers,
     Sends, Unwinds, Receives, StopsFilling, NoticesStop, ClosesQueue, SweepsOne, SweepEnds,
     StartsExport, Concludes, ExportsDone, Panics, Aborts

LEMMA ExportInvariant == ExportSpec => []ExportInv
<1>1. ExportInv /\ [ExportNext]_exportVars => ExportInv'
  BY StepTypes, StepCount, StepReported DEF ExportInv
<1>2. QED
  BY <1>1, InitExport, PTL DEF ExportSpec

(* Shared.queued is the number of spans counted and not concluded, whatever*)
(* threads end spans while the drain concludes others (otel.rs, on_end).   *)
THEOREM CountCorrect == ExportSpec => []CountIsExact
<1>1. ExportInv => CountIsExact
  BY DEF ExportInv
<1>2. QED
  BY <1>1, ExportInvariant, PTL

(* A shutdown forced closed reported at least the spans that were lost     *)
(* (otel.rs, shutdown).                                                    *)
THEOREM ReportCorrect == ExportSpec => []ForcedCloseIsReported
<1>1. ExportInv => ForcedCloseIsReported
  <2> SUFFICES ASSUME ExportInv, handle = "returned", outcome \in Forced
               PROVE  Cardinality(Unexported) <= counted
    BY DEF ForcedCloseIsReported, Forced
  <2>1. Unexported \in SUBSET Carried /\ Carried \in SUBSET Spans
    BY DEF Carried, Unexported, In
  <2>2. Cardinality(Unexported) <= Cardinality(Carried)
    BY <2>1, SpansFinite, FS_Subset
  <2>3. Cardinality(Unexported) \in Nat /\ Cardinality(Carried) \in Nat
    BY <2>1, SpansFinite
  <2>4. QED
    BY <2>2, <2>3 DEF ExportInv, ExportTypeOK, CarriedIsReported
<1>2. QED
  BY <1>1, ExportInvariant, PTL

HIDE ExportAssumption

-----------------------------------------------------------------------------
(* A proof that the probe ceiling holds, for any number of callers and of  *)
(* contributors and any ceiling: a claimed slot is in one place at a time, *)
(* with the claim, with the thread the caller listens to, with one nobody  *)
(* listens to, or with one about to drop its guard.                        *)

USE ProbesAssumption

Slots ==
    /\ asking \in SUBSET Probes /\ listening \in SUBSET Probes
    /\ asking \cap listening = {}
    /\ outstanding \in Int /\ hung \in Nat /\ leaving \in Nat

SlotsInv == Slots /\ ThreadsWithinCeiling

LEMMA ProbesFinite ==
  ASSUME NEW S \in SUBSET Probes
  PROVE  IsFiniteSet(S) /\ Cardinality(S) \in Nat
<1>1. IsFiniteSet(S)
  BY FS_Subset
<1>2. QED
  BY <1>1, FS_CardinalityType

LEMMA ProbeAdded ==
  ASSUME NEW S \in SUBSET Probes, NEW p \in Probes \ S
  PROVE  Cardinality(S \cup {p}) = Cardinality(S) + 1
BY ProbesFinite, FS_AddElement

LEMMA ProbeRemoved ==
  ASSUME NEW S \in SUBSET Probes, NEW p \in S
  PROVE  Cardinality(S \ {p}) = Cardinality(S) - 1
BY ProbesFinite, FS_RemoveElement

LEMMA InitSlots == ProbesInit => SlotsInv
BY FS_EmptySet DEF ProbesInit, SlotsInv, Slots, ThreadsWithinCeiling

LEMMA StepSlots == SlotsInv /\ [ProbesNext]_probeVars => SlotsInv'
<1> SUFFICES ASSUME SlotsInv, [ProbesNext]_probeVars PROVE SlotsInv'
  OBVIOUS
<1> USE DEF SlotsInv, Slots, ThreadsWithinCeiling
<1>0. Cardinality(asking) \in Nat /\ Cardinality(listening) \in Nat
  BY ProbesFinite
<1>1. ASSUME NEW p \in Probes, Claims(p) PROVE SlotsInv'
  <2>1. p \notin asking /\ p \notin listening
    BY <1>1 DEF Claims, AtNext, Awaits
  <2>2. Cardinality(asking') = Cardinality(asking) + 1
    BY <1>1, <2>1, ProbeAdded DEF Claims
  <2>3. QED
    BY <1>0, <1>1, <2>1, <2>2 DEF Claims
<1>2. ASSUME NEW p \in Probes, Spawns(p) PROVE SlotsInv'
  <2>1. Cardinality(asking') = Cardinality(asking) - 1
    BY <1>2, ProbeRemoved DEF Spawns
  <2>2. Cardinality(listening') = Cardinality(listening) + 1
    BY <1>2, ProbeAdded DEF Spawns
  <2>3. QED
    BY <1>0, <1>2, <2>1, <2>2 DEF Spawns
<1>3. ASSUME NEW p \in Probes, SpawnFails(p) PROVE SlotsInv'
  <2>1. Cardinality(asking') = Cardinality(asking) - 1
    BY <1>3, ProbeRemoved DEF SpawnFails
  <2>2. QED
    BY <1>0, <1>3, <2>1 DEF SpawnFails
<1>4. ASSUME NEW p \in Probes, Answered(p) \/ AskTimesOut(p) PROVE SlotsInv'
  <2>1. Cardinality(listening') = Cardinality(listening) - 1
    BY <1>4, ProbeRemoved DEF Answered, AskTimesOut
  <2>2. QED
    BY <1>0, <1>4, <2>1 DEF Answered, AskTimesOut
<1>5. CASE ReturnsLate \/ Releases
  BY <1>0, <1>5 DEF ReturnsLate, Releases
<1>6. CASE UNCHANGED <<outstanding, asking, listening, hung, leaving>>
  BY <1>6
<1>7. QED
  BY <1>1, <1>2, <1>3, <1>4, <1>5, <1>6
  DEF ProbesNext, probeVars, RefusedByCeiling, Reports, BeginDraining

(* A hung contributor's threads are counted as long as they live: the      *)
(* counter is what is alive, and the ceiling bounds it (contributor.rs,    *)
(* claim and Release).                                                     *)
THEOREM CeilingHolds == ProbesSpec => []ThreadsWithinCeiling
<1>1. SlotsInv => ThreadsWithinCeiling
  BY DEF SlotsInv
<1>2. QED
  BY <1>1, InitSlots, StepSlots, PTL DEF ProbesSpec

HIDE ProbesAssumption

-----------------------------------------------------------------------------
(* A proof of what serve says of the work it leaves, for any requests and  *)
(* any number of slots.  A drain is clean only with the gate closed, and a *)
(* closed gate lets no request become a handler (ClosedSince, CleanIsIdle).*)

USE HttpAssumption

RequestPlaces == {"None", "Arrived", "Slotted", "Handling", "Answered", "Lost"}

Stopping == {"Closed", "Draining", "Joining", "Returned", "Error"}
Drained == {"Joining", "Returned", "Error"}

HttpTypeOK ==
    /\ request \in [Requests -> RequestPlaces]
    /\ slots \in Int /\ inFlight \in Int
    /\ gateClosed \in BOOLEAN /\ rootCancelled \in BOOLEAN /\ ready \in BOOLEAN
    /\ server \in {"Unbound", "Refused", "Serving", "Told"} \cup Stopping
    /\ drained \in {"None", "Clean", "Incomplete"}

(* The gate and the semaphore count the requests that passed them. *)
Counted ==
    /\ inFlight = Cardinality(Handling)
    /\ slots = MaxConcurrent - Cardinality(Holding)

ClosedSince == server \in Stopping => gateClosed
CleanIsIdle == server \in Drained /\ drained = "Clean" => Handling = {}
OverIsCancelled == server \in Drained /\ drained # "Clean" => rootCancelled
ReadyIsServing == ready => server = "Serving"

HttpInv ==
    HttpTypeOK /\ Counted /\ ClosedSince /\ CleanIsIdle /\ OverIsCancelled /\ ReadyIsServing

LEMMA RequestsFinite ==
  ASSUME NEW S \in SUBSET Requests
  PROVE  IsFiniteSet(S) /\ Cardinality(S) \in Nat
<1>1. IsFiniteSet(S)
  BY FS_Subset
<1>2. QED
  BY <1>1, FS_CardinalityType

LEMMA InitHttp == HttpInit => HttpInv
<1> SUFFICES ASSUME HttpInit PROVE HttpInv
  OBVIOUS
<1>1. Handling = {} /\ Holding = {}
  BY DEF HttpInit, Handling, Holding, HoldsSlot
<1>2. slots \in Int /\ inFlight \in Int /\ Counted
  BY <1>1, FS_EmptySet DEF HttpInit, Counted
<1>3. request \in [Requests -> RequestPlaces]
  BY DEF HttpInit, RequestPlaces
<1>4. HttpTypeOK
  BY <1>2, <1>3, Zenon DEF HttpInit, HttpTypeOK
<1>5. QED
  BY <1>2, <1>4 DEF HttpInit, HttpInv, ClosedSince, CleanIsIdle, OverIsCancelled,
     ReadyIsServing, Stopping, Drained

(* How a request's move changes the two sets. *)
LEMMA Moving ==
  ASSUME HttpTypeOK, NEW r \in Requests, NEW to \in RequestPlaces, Moves(r, to)
  PROVE  /\ request' \in [Requests -> RequestPlaces]
         /\ Handling' = IF to = "Handling" THEN Handling \cup {r} ELSE Handling \ {r}
         /\ Holding' = IF to \in HoldsSlot THEN Holding \cup {r} ELSE Holding \ {r}
         /\ request[r] = "Handling" <=> r \in Handling
         /\ request[r] \in HoldsSlot <=> r \in Holding
BY DEF HttpTypeOK, Moves, Handling, Holding

(* One element more or less, or neither. *)
LEMMA Sized ==
  ASSUME NEW S \in SUBSET Requests, NEW r \in Requests
  PROVE  /\ Cardinality(S) \in Nat
         /\ Cardinality(S \cup {r}) = IF r \in S THEN Cardinality(S) ELSE Cardinality(S) + 1
         /\ Cardinality(S \ {r}) = IF r \in S THEN Cardinality(S) - 1 ELSE Cardinality(S)
BY RequestsFinite, FS_AddElement, FS_RemoveElement

(* The server's part is as it was, and no request became a handler. *)
LEMMA NoNewHandler ==
  ASSUME HttpInv, UNCHANGED <<gateClosed, rootCancelled, serverVars>>, Handling' \subseteq Handling
  PROVE  ClosedSince' /\ CleanIsIdle' /\ OverIsCancelled' /\ ReadyIsServing'
BY DEF HttpInv, serverVars, ClosedSince, CleanIsIdle, OverIsCancelled, ReadyIsServing

LEMMA StepRequests ==
  ASSUME HttpInv, NEW r \in Requests,
         \/ Arrives(r) \/ TakesSlot(r) \/ NoSlot(r) \/ PassesGate(r) \/ GateRefuses(r)
         \/ Responds(r) \/ RequestTimesOut(r) \/ Disconnects(r)
  PROVE  HttpInv'
<1> USE DEF RequestPlaces, HoldsSlot
<1>0. HttpTypeOK /\ Counted
  BY DEF HttpInv
<1>1. /\ Handling \in SUBSET Requests /\ Holding \in SUBSET Requests
      /\ slots \in Int /\ inFlight \in Int
  BY <1>0 DEF Handling, Holding, HttpTypeOK
<1>2. /\ Cardinality(Handling) \in Nat /\ Cardinality(Holding) \in Nat
      /\ Cardinality(Handling \cup {r}) =
            IF r \in Handling THEN Cardinality(Handling) ELSE Cardinality(Handling) + 1
      /\ Cardinality(Handling \ {r}) =
            IF r \in Handling THEN Cardinality(Handling) - 1 ELSE Cardinality(Handling)
      /\ Cardinality(Holding \cup {r}) =
            IF r \in Holding THEN Cardinality(Holding) ELSE Cardinality(Holding) + 1
      /\ Cardinality(Holding \ {r}) =
            IF r \in Holding THEN Cardinality(Holding) - 1 ELSE Cardinality(Holding)
  BY <1>1, Sized
<1>3. CASE PassesGate(r)
  <2>1. Moves(r, "Handling") /\ request[r] = "Slotted" /\ ~gateClosed
    BY <1>3 DEF PassesGate
  <2>2. /\ request' \in [Requests -> RequestPlaces]
        /\ Handling' = Handling \cup {r} /\ r \notin Handling
        /\ Holding' = Holding \cup {r} /\ r \in Holding
    BY <1>0, <2>1, Moving
  <2>3. Counted' /\ inFlight' \in Int
    BY <1>0, <1>1, <1>2, <1>3, <2>2 DEF Counted, PassesGate
  <2>4. server \notin Stopping
    BY <2>1 DEF HttpInv, ClosedSince
  <2>5. HttpTypeOK'
    BY <1>0, <1>3, <2>2, <2>3 DEF PassesGate, HttpTypeOK, serverVars
  <2>6. QED
    BY <1>3, <2>3, <2>4, <2>5 DEF HttpInv, PassesGate, serverVars, ClosedSince, CleanIsIdle,
       OverIsCancelled, ReadyIsServing, Stopping, Drained
<1>4. CASE Arrives(r) \/ TakesSlot(r) \/ NoSlot(r) \/ GateRefuses(r)
  <2>1. \E to \in {"Arrived", "Slotted", "Answered"} : Moves(r, to)
    BY <1>4 DEF Arrives, TakesSlot, NoSlot, GateRefuses
  <2>2. request' \in [Requests -> RequestPlaces] /\ Handling' = Handling /\ r \notin Handling
    BY <1>0, <1>4, <2>1, Moving DEF Arrives, TakesSlot, NoSlot, GateRefuses
  <2>3. CASE Arrives(r) \/ NoSlot(r)
    <3>1. Holding' = Holding
      BY <1>0, <2>3, Moving DEF Arrives, NoSlot
    <3>2. QED
      BY <1>0, <2>2, <2>3, <3>1, NoNewHandler
      DEF Counted, HttpInv, HttpTypeOK, Arrives, NoSlot, serverVars
  <2>4. CASE TakesSlot(r)
    <3>1. Holding' = Holding \cup {r} /\ r \notin Holding
      BY <1>0, <2>4, Moving DEF TakesSlot
    <3>2. Counted' /\ slots' \in Int
      BY <1>0, <1>1, <1>2, <2>2, <2>4, <3>1 DEF Counted, TakesSlot
    <3>3. QED
      BY <1>0, <2>2, <2>4, <3>2, NoNewHandler DEF HttpInv, HttpTypeOK, TakesSlot, serverVars
  <2>5. CASE GateRefuses(r)
    <3>1. Holding' = Holding \ {r} /\ r \in Holding
      BY <1>0, <2>5, Moving DEF GateRefuses
    <3>2. Counted' /\ slots' \in Int
      BY <1>0, <1>1, <1>2, <2>2, <2>5, <3>1 DEF Counted, GateRefuses
    <3>3. QED
      BY <1>0, <2>2, <2>5, <3>2, NoNewHandler DEF HttpInv, HttpTypeOK, GateRefuses, serverVars
  <2>6. QED
    BY <1>4, <2>3, <2>4, <2>5
<1>5. CASE Responds(r) \/ RequestTimesOut(r) \/ Disconnects(r)
  <2>1. \E to \in {"Answered", "Lost"} : Moves(r, to)
    BY <1>5 DEF Responds, RequestTimesOut, Disconnects
  <2>2. /\ request' \in [Requests -> RequestPlaces]
        /\ Handling' = Handling \ {r} /\ Holding' = Holding \ {r}
        /\ request[r] = "Handling" <=> r \in Handling
        /\ request[r] \in HoldsSlot <=> r \in Holding
    BY <1>0, <2>1, Moving
  <2>3. CASE request[r] = "Handling"
    <3>1. DropsGuard(r)
      BY <1>5, <2>3 DEF Responds, RequestTimesOut, Disconnects
    <3>2. Counted' /\ slots' \in Int /\ inFlight' \in Int
      BY <1>0, <1>1, <1>2, <2>2, <2>3, <3>1 DEF Counted, DropsGuard
    <3>3. QED
      BY <1>0, <1>5, <2>2, <3>2, NoNewHandler
      DEF HttpInv, HttpTypeOK, Responds, RequestTimesOut, Disconnects, serverVars
  <2>4. CASE request[r] = "Arrived"
    <3>1. Handling' = Handling /\ Holding' = Holding /\ UNCHANGED <<slots, inFlight>>
      BY <1>5, <2>2, <2>4 DEF Responds, RequestTimesOut, Disconnects
    <3>2. QED
      BY <1>0, <1>5, <2>2, <3>1, NoNewHandler
      DEF Counted, HttpInv, HttpTypeOK, Responds, RequestTimesOut, Disconnects, serverVars
  <2>5. QED
    BY <1>5, <2>3, <2>4 DEF Responds, RequestTimesOut, Disconnects
<1>6. QED
  BY <1>3, <1>4, <1>5

LEMMA StepServer ==
  ASSUME HttpInv, UNCHANGED <<request, slots, inFlight>>,
         \/ Initialises \/ InitialiseFails \/ ProviderStops \/ KernelCloses
         \/ ClosesGate \/ SignalsStop \/ LoopStops \/ ServingEnds \/ ServingFails
         \/ DrainsClean \/ DrainsOver \/ Joins \/ AbandonsServing
         \/ UNCHANGED httpVars
  PROVE  HttpInv'
<1> USE DEF HttpInv, HttpTypeOK, ClosedSince, CleanIsIdle, OverIsCancelled, ReadyIsServing,
        Stopping, Drained
<1>1. Handling' = Handling /\ Counted'
  BY DEF Handling, Holding, Counted
<1>2. CASE DrainsClean
  <2>1. Handling = {}
    BY <1>2, RequestsFinite, FS_EmptySet DEF DrainsClean, Counted, Handling
  <2>2. QED
    BY <1>1, <1>2, <2>1 DEF DrainsClean
<1>3. CASE Initialises
  BY <1>1, <1>3 DEF Initialises
<1>4. CASE InitialiseFails
  BY <1>1, <1>4 DEF InitialiseFails
<1>5. CASE ProviderStops
  BY <1>1, <1>5 DEF ProviderStops
<1>6. CASE KernelCloses
  BY <1>1, <1>6 DEF KernelCloses, serverVars
<1>7. CASE ClosesGate
  BY <1>1, <1>7 DEF ClosesGate
<1>8. CASE SignalsStop
  BY <1>1, <1>8 DEF SignalsStop
<1>9. CASE DrainsOver
  BY <1>1, <1>9 DEF DrainsOver
<1>10. CASE Joins
  BY <1>1, <1>10 DEF Joins
<1>11. CASE AbandonsServing
  BY <1>1, <1>11 DEF AbandonsServing
<1>12. CASE LoopStops \/ ServingEnds \/ ServingFails \/ UNCHANGED httpVars
  BY <1>1, <1>12 DEF LoopStops, ServingEnds, ServingFails, httpVars
<1>13. QED
  BY <1>2, <1>3, <1>4, <1>5, <1>6, <1>7, <1>8, <1>9, <1>10, <1>11, <1>12

LEMMA StepHttp == HttpInv /\ [HttpNext]_httpVars => HttpInv'
BY StepRequests, StepServer
DEF HttpNext, httpVars, serverVars, Initialises, InitialiseFails, ProviderStops, KernelCloses,
    ClosesGate, SignalsStop, LoopStops, ServingEnds, ServingFails, DrainsClean, DrainsOver,
    Joins, AbandonsServing

(* serve never calls a drain clean while a handler runs, never leaves one  *)
(* behind that was not told to stop, and no exit of a request leaks its    *)
(* slot or its unit of work (server.rs, admission.rs).                     *)
THEOREM DrainTellsTheTruth == HttpSpec => []NoWorkGoesUnseen
<1>1. HttpInv => NoWorkGoesUnseen
  BY DEF HttpInv, HttpTypeOK, Counted, CleanIsIdle, OverIsCancelled, ReadyIsServing, Drained,
     NoWorkGoesUnseen
<1>2. QED
  BY <1>1, InitHttp, StepHttp, PTL DEF HttpSpec

HIDE HttpAssumption

-----------------------------------------------------------------------------
(* What a retried call stays within, for any policy: with no deadline each *)
(* attempt and each sleep adds at most its own bound, and with one both    *)
(* end at the deadline at the latest.                                      *)

USE RetryAssumption

RetryTyped ==
    /\ policy \in Policies
    /\ elapsed \in Nat /\ started \in Nat /\ due \in Nat /\ retries \in Nat
    /\ phase \in {"Loop", "Running", "Sleeping", "Over"}
    /\ governs \in BOOLEAN

(* The time that so many attempts and so many sleeps take at most.         *)
Within(t, attempts, sleeps) ==
    IF HasDeadline THEN t <= policy.deadline
    ELSE t <= attempts * policy.timeout + sleeps * policy.max

LoopOK == started < policy.attempts /\ retries = started /\ Within(elapsed, started, started)
RunningOK ==
    /\ 1 <= started /\ started <= policy.attempts /\ retries = started - 1
    /\ elapsed <= due /\ Within(due, started, started - 1)
    /\ governs => HasDeadline /\ due = policy.deadline
SleepingOK ==
    /\ started < policy.attempts /\ retries = started
    /\ elapsed <= due /\ Within(due, started, started)
OverOK ==
    /\ started <= policy.attempts
    /\ elapsed <= Allowed
    /\ reason = "DeadlineExceeded" => HasDeadline /\ elapsed = policy.deadline
    /\ retries = started - 1 \/ (reason = "DeadlineExceeded" /\ retries = started)

RetryInv ==
    /\ RetryTyped
    /\ phase = "Loop" => LoopOK
    /\ phase = "Running" => RunningOK
    /\ phase = "Sleeping" => SleepingOK
    /\ phase = "Over" => OverOK
    /\ phase # "Over" => reason = "None"

LEMMA PolicyTyped ==
  ASSUME policy \in Policies
  PROVE  /\ policy.attempts \in Nat \ {0} /\ policy.timeout \in Nat \ {0} /\ policy.max \in Nat
         /\ HasDeadline => policy.deadline \in Nat \ {0}
  BY DEF ValidPolicy, HasDeadline

LEMMA WithinAllowed ==
  ASSUME policy \in Policies, NEW t \in Nat, NEW a \in Nat, NEW s \in Nat,
         a <= policy.attempts, s <= policy.attempts - 1, Within(t, a, s)
  PROVE  t <= Allowed
<1>1. CASE HasDeadline
  BY <1>1 DEF Within, Allowed
<1>2. CASE ~HasDeadline
  <2>1. PICK n \in Nat, time \in Nat, most \in Nat :
           n = policy.attempts /\ time = policy.timeout /\ most = policy.max
    BY PolicyTyped
  <2>2. a * time <= n * time /\ s * most <= (n - 1) * most
    BY <2>1
  <2>3. /\ a * time \in Nat /\ s * most \in Nat /\ n * time \in Nat /\ (n - 1) * most \in Int
    BY <2>1
  <2>4. t <= a * time + s * most
    BY <1>2, <2>1 DEF Within
  <2>5. t <= n * time + (n - 1) * most
    BY <2>2, <2>3, <2>4
  <2>6. QED
    BY <1>2, <2>1, <2>5 DEF Allowed
<1>3. QED
  BY <1>1, <1>2

LEMMA InitRetry == RetryInit => RetryInv
<1> SUFFICES ASSUME RetryInit PROVE RetryInv
  OBVIOUS
<1>1. RetryTyped
  BY DEF RetryInit, RetryTyped
<1>2. Within(0, 0, 0)
  BY PolicyTyped DEF RetryInit, Within
<1>3. QED
  BY <1>1, <1>2, PolicyTyped DEF RetryInit, RetryInv, LoopOK

LEMMA StepRetry == RetryInv /\ [RetryNext]_retryVars => RetryInv'
<1> SUFFICES ASSUME RetryInv, [RetryNext]_retryVars PROVE RetryInv'
  OBVIOUS
<1>t. RetryTyped /\ policy' = policy
  BY DEF RetryInv, RetryNext, retryVars, DeadlinePassed, StartsAttempt, Succeeds, Terminal,
         CutByDeadline, Exhausted, NoEntropy, Retries, Wakes, RetryTicks, Over
<1>p. /\ policy.attempts \in Nat \ {0} /\ policy.timeout \in Nat \ {0} /\ policy.max \in Nat
      /\ HasDeadline => policy.deadline \in Nat \ {0}
  BY <1>t, PolicyTyped DEF RetryTyped
<1>w. /\ HasDeadline' = HasDeadline /\ Allowed' = Allowed
      /\ \A t, a, s : Within(t, a, s)' = Within(t, a, s)
  BY <1>t DEF HasDeadline, Allowed, Within
<1>1. CASE DeadlinePassed
  <2>1. /\ phase = "Loop" /\ HasDeadline /\ elapsed = policy.deadline /\ LoopOK
        /\ phase' = "Over" /\ reason' = "DeadlineExceeded"
        /\ UNCHANGED <<policy, elapsed, started, due, governs, erred, retries>>
    BY <1>1, <1>t, <1>p DEF DeadlinePassed, Over, Remaining, RetryInv, RetryTyped
  <2>2. QED
    BY <1>t, <1>p, <1>w, <2>1 DEF RetryInv, RetryTyped, OverOK, LoopOK, Allowed
<1>2. CASE StartsAttempt
  <2>1. phase = "Loop" /\ LoopOK /\ phase' = "Running" /\ started' = started + 1
        /\ UNCHANGED <<policy, elapsed, erred, retries, reason>>
    BY <1>2 DEF StartsAttempt, RetryInv
  <2>2. CASE DeadlineGoverns
    <3>1. HasDeadline /\ Remaining > 0 /\ governs' = TRUE /\ due' = policy.deadline
      <4>1. HasDeadline /\ Remaining > 0 /\ governs' = TRUE /\ due' = elapsed + Remaining
        BY <1>2, <2>2 DEF StartsAttempt, DeadlineGoverns
      <4>2. policy.deadline \in Nat /\ elapsed \in Nat
        BY <1>t, <1>p, <4>1 DEF RetryTyped
      <4>3. QED
        BY <4>1, <4>2 DEF Remaining
    <3>2. RunningOK'
      BY <1>t, <1>p, <1>w, <2>1, <3>1
         DEF RunningOK, LoopOK, Within, RetryTyped, Remaining
    <3>3. QED
      BY <1>t, <1>p, <2>1, <3>1, <3>2 DEF RetryInv, RetryTyped
  <2>3. CASE ~DeadlineGoverns
    <3>1. governs' = FALSE /\ due' = elapsed + policy.timeout
      BY <1>2, <2>3 DEF StartsAttempt
    <3>2. HasDeadline => due' <= policy.deadline
      BY <1>t, <1>p, <2>3, <3>1 DEF DeadlineGoverns, Remaining, RetryTyped
    <3>3. PICK time \in Nat, most \in Nat : time = policy.timeout /\ most = policy.max
      BY <1>p
    <3>4. ~HasDeadline => elapsed <= started * time + started * most
      BY <2>1, <3>3 DEF LoopOK, Within
    <3>5. (started + 1) * time = started * time + time
      BY <1>t DEF RetryTyped
    <3>6. started * time \in Nat /\ started * most \in Nat
      BY <1>t DEF RetryTyped
    <3>7. ~HasDeadline => due' <= (started + 1) * time + started * most
      BY <1>t, <3>1, <3>3, <3>4, <3>5, <3>6 DEF RetryTyped
    <3>8. Within(due', started', started' - 1)
      BY <1>t, <2>1, <3>2, <3>3, <3>7 DEF Within, RetryTyped
    <3>9. RunningOK'
      BY <1>t, <1>p, <1>w, <2>1, <3>1, <3>8 DEF RunningOK, LoopOK, RetryTyped, Within, HasDeadline
    <3>10. due' \in Nat
      BY <1>t, <1>p, <3>1 DEF RetryTyped
    <3>11. governs' \in BOOLEAN
      BY <3>1
    <3>12. RetryTyped'
      BY <1>t, <2>1, <3>10, <3>11 DEF RetryTyped
    <3>13. QED
      BY <2>1, <3>9, <3>12 DEF RetryInv
  <2>4. QED
    BY <2>2, <2>3
<1>o. ASSUME phase = "Running", phase' = "Over", reason' # "None",
             reason' = "DeadlineExceeded" => elapsed = due /\ governs,
             UNCHANGED <<policy, elapsed, due, governs, retries, started>>
      PROVE  RetryInv'
  <2>1. RunningOK
    BY <1>o DEF RetryInv
  <2>2. due <= Allowed
    BY <1>t, <2>1, WithinAllowed, <1>p DEF RunningOK, RetryTyped
  <2>3. Allowed \in Int
    BY <1>p DEF Allowed
  <2>4. OverOK'
    BY <1>o, <1>t, <1>p, <1>w, <2>1, <2>2, <2>3 DEF OverOK, RunningOK, RetryTyped
  <2>5. QED
    BY <1>o, <1>t, <2>4 DEF RetryInv, RetryTyped
<1>3. CASE Succeeds
  BY <1>3, <1>o DEF Succeeds, Over
<1>4. CASE Terminal
  BY <1>4, <1>o DEF Terminal, Over
<1>5. CASE CutByDeadline
  BY <1>5, <1>o DEF CutByDeadline, Over
<1>6. CASE Exhausted
  <2>1. /\ phase = "Running" /\ phase' = "Over"
        /\ reason' \in {"AttemptsExhausted", "AttemptTimedOut"}
        /\ UNCHANGED <<policy, elapsed, due, governs, retries, started>>
    BY <1>6 DEF Exhausted, Fails, Over
  <2>2. QED
    BY <1>o, <2>1
<1>7. CASE NoEntropy
  BY <1>7, <1>o DEF NoEntropy, Fails, Over
<1>8. CASE Retries
  <2>1. PICK d \in 0..policy.max :
           due' = elapsed + (IF HasDeadline THEN Lesser(d, Remaining) ELSE d)
    BY <1>8 DEF Retries, Delays
  <2>2. /\ phase = "Running" /\ RunningOK /\ started < policy.attempts
        /\ retries' = retries + 1 /\ phase' = "Sleeping"
        /\ UNCHANGED <<policy, elapsed, started, governs, reason>>
    BY <1>8 DEF Retries, Fails, RetryInv
  <2>3. CASE HasDeadline
    <3>1. elapsed <= policy.deadline
      BY <1>t, <1>p, <2>2, <2>3 DEF RunningOK, Within, RetryTyped
    <3>2. due' \in Nat /\ elapsed <= due' /\ due' <= policy.deadline
      BY <1>t, <1>p, <2>1, <2>3, <3>1 DEF Lesser, Remaining, RetryTyped
    <3>3. SleepingOK'
      BY <1>t, <1>p, <1>w, <2>2, <2>3, <3>2 DEF SleepingOK, RunningOK, Within, RetryTyped
    <3>4. QED
      BY <1>t, <2>2, <3>2, <3>3 DEF RetryInv, RetryTyped, RunningOK
  <2>4. CASE ~HasDeadline
    <3>1. PICK time \in Nat, most \in Nat : time = policy.timeout /\ most = policy.max
      BY <1>p
    <3>2. due' \in Nat /\ elapsed <= due' /\ due' <= elapsed + most
      BY <1>t, <2>1, <2>4, <3>1 DEF RetryTyped
    <3>3. elapsed <= started * time + (started - 1) * most
      <4>1. due <= started * time + (started - 1) * most /\ elapsed <= due /\ 1 <= started
        BY <2>2, <2>4, <3>1 DEF RunningOK, Within
      <4>2. started * time \in Nat /\ (started - 1) * most \in Int
        BY <1>t DEF RetryTyped
      <4>3. QED
        BY <1>t, <4>1, <4>2 DEF RetryTyped
    <3>4. started * most = (started - 1) * most + most
      BY <1>t DEF RetryTyped
    <3>5. started * time \in Nat /\ (started - 1) * most \in Int
      BY <1>t DEF RetryTyped
    <3>6. due' <= started * time + started * most
      BY <1>t, <3>2, <3>3, <3>4, <3>5 DEF RetryTyped
    <3>7. Within(due', started', started')
      BY <2>2, <2>4, <3>1, <3>6 DEF Within
    <3>8. SleepingOK'
      BY <1>t, <1>p, <1>w, <2>2, <3>2, <3>7 DEF SleepingOK, RunningOK, RetryTyped, Within, HasDeadline
    <3>9. QED
      BY <1>t, <2>2, <3>2, <3>8 DEF RetryInv, RetryTyped, RunningOK
  <2>5. QED
    BY <2>3, <2>4
<1>9. CASE Wakes
  <2>1. /\ phase = "Sleeping" /\ elapsed = due /\ SleepingOK /\ phase' = "Loop"
        /\ UNCHANGED <<policy, elapsed, started, due, governs, erred, retries, reason>>
    BY <1>9 DEF Wakes, RetryInv
  <2>2. LoopOK'
    BY <1>t, <2>1 DEF SleepingOK, LoopOK, Within, HasDeadline
  <2>3. QED
    BY <1>t, <2>1, <2>2 DEF RetryInv, RetryTyped
<1>10. CASE RetryTicks
  <2>1. /\ phase \in {"Running", "Sleeping"} /\ elapsed < due /\ elapsed' = elapsed + 1
        /\ UNCHANGED <<policy, started, phase, due, governs, erred, retries, reason>>
    BY <1>10 DEF RetryTicks
  <2>2. elapsed' <= due'
    BY <1>t, <2>1 DEF RetryTyped
  <2>3. (RunningOK => RunningOK') /\ (SleepingOK => SleepingOK')
    BY <2>1, <2>2 DEF RunningOK, SleepingOK, Within, HasDeadline
  <2>4. QED
    BY <1>t, <2>1, <2>3 DEF RetryInv, RetryTyped
<1>11. CASE UNCHANGED retryVars
  BY <1>11 DEF retryVars, RetryInv, RetryTyped, LoopOK, RunningOK, SleepingOK, OverOK, Within,
               HasDeadline, Allowed
<1>12. QED
  BY <1>1, <1>2, <1>3, <1>4, <1>5, <1>6, <1>7, <1>8, <1>9, <1>10, <1>11 DEF RetryNext

(* RetryKeepsItsPolicy: a call stays within the time its policy allows, a  *)
(* deadline that ends it has been used up, and every retry that was told   *)
(* was made unless the deadline came first.                                *)
THEOREM CallsKeepTheirPolicy == RetrySpec => []RetryKeepsItsPolicy
<1>1. RetryInv => RetryKeepsItsPolicy
  <2> SUFFICES ASSUME RetryInv PROVE RetryKeepsItsPolicy
    OBVIOUS
  <2>1. /\ RetryTyped /\ Allowed \in Int /\ policy.attempts \in Nat \ {0}
    BY PolicyTyped DEF RetryInv, RetryTyped, Allowed
  <2>2. phase = "Loop" => elapsed <= Allowed
    BY <2>1, WithinAllowed DEF RetryInv, LoopOK, RetryTyped
  <2>3. phase = "Running" => due <= Allowed /\ elapsed <= Allowed
    <3>1. phase = "Running" => due <= Allowed
      BY <2>1, WithinAllowed DEF RetryInv, RunningOK, RetryTyped
    <3>2. QED
      BY <2>1, <3>1 DEF RetryInv, RunningOK, RetryTyped
  <2>4. phase = "Sleeping" => due <= Allowed /\ elapsed <= Allowed
    <3>1. phase = "Sleeping" => due <= Allowed
      BY <2>1, WithinAllowed DEF RetryInv, SleepingOK, RetryTyped
    <3>2. QED
      BY <2>1, <3>1 DEF RetryInv, SleepingOK, RetryTyped
  <2>5. QED
    BY <2>1, <2>2, <2>3, <2>4
       DEF RetryInv, RetryTyped, LoopOK, RunningOK, SleepingOK, OverOK, RetryKeepsItsPolicy
<1>2. QED
  BY <1>1, InitRetry, StepRetry, PTL DEF RetrySpec

HIDE RetryAssumption

-----------------------------------------------------------------------------
(* What build goes on from, for any number of sources and providers.  The  *)
(* counter is the provider asked while one of the two loops asks, and once *)
(* a provider has failed the resolver moves neither.                       *)

USE BuildAssumption

ResolverAt ==
    {"None", "Sizes", "Offers", "Edges", "Order", "NamingFirst", "Naming", "Resolved",
     "Rejected", "Panicked"}

Culprits ==
    [in : Passes \cup {"NamingFirst", "Naming"}, provider : Nat, awaited : BOOLEAN]

BuildTyped ==
    /\ position \in Nat \ {0}
    /\ building \in {"Entropy", "Names", "Load", "Validate", "Register", "GivenUp", "Built",
                     "Failed"}
    /\ pass \in ResolverAt
    /\ asked \in Nat /\ examined \in Nat
    /\ culprit \in Culprits \cup {NoCulprit}

(* The sources each phase has behind it. *)
SourcesOK ==
    /\ building \in {"Entropy", "Names"} => position = 1 /\ loaded = {} /\ validated = {}
    /\ building = "Load" =>
          position <= Sources + 1 /\ loaded = 1..(position - 1) /\ validated = {}
    /\ building = "Validate" =>
          position <= Sources + 1 /\ loaded = 1..Sources /\ validated = 1..(position - 1)
    /\ building \in {"Register", "GivenUp", "Built"} =>
          loaded = 1..Sources /\ validated = loaded
    /\ building = "Built" => pass = "Resolved"
    /\ building \in {"Entropy", "Names", "Load", "Validate"} =>
          pass = "None" /\ culprit = NoCulprit

CounterOK ==
    /\ pass \in {"Offers", "Edges"} /\ asked > 0 => examined = asked
    /\ pass = "Naming" => examined = asked

(* Awaited: the failure came while the builder still waited for it.        *)
CulpritOK ==
    /\ culprit # NoCulprit => pass # "Resolved" /\ pass # "Rejected" /\ pass # "None"
    /\ culprit # NoCulprit /\ culprit.in \in Tracked => examined = culprit.provider
    /\ culprit # NoCulprit /\ culprit.awaited /\ culprit.in \in Tracked /\ building = "Failed" =>
          blamed = culprit.provider

BuildInv == BuildTyped /\ SourcesOK /\ CounterOK /\ CulpritOK

LEMMA InitBuild == BuildInit => BuildInv
  BY DEF BuildInit, BuildInv, BuildTyped, SourcesOK, CounterOK, CulpritOK, ResolverAt

LEMMA StepBuild == BuildInv /\ [BuildNext]_buildVars => BuildInv'
<1> SUFFICES ASSUME BuildInv, [BuildNext]_buildVars PROVE BuildInv'
  OBVIOUS
<1> USE DEF BuildInv, BuildTyped, SourcesOK, CounterOK, CulpritOK, ResolverAt, registerVars
<1>1. CASE AsksEntropy
  BY <1>1 DEF AsksEntropy
<1>2. CASE ReadsNames
  BY <1>2 DEF ReadsNames
<1>3. CASE Loads
  <2>1. CASE building' = "Failed"
    BY <1>3, <2>1 DEF Loads
  <2>2. CASE building' = building
    <3>1. /\ position' = position + 1 /\ loaded' = loaded \cup {position}
          /\ UNCHANGED <<validated, registerVars>> /\ building = "Load" /\ position <= Sources
      BY <1>3, <2>2 DEF Loads
    <3>2. loaded' = 1..(position' - 1)
      BY <3>1
    <3>3. QED
      BY <2>2, <3>1, <3>2
  <2>3. QED
    BY <1>3, <2>1, <2>2 DEF Loads
<1>4. CASE Validates
  <2>1. CASE building' = "Failed"
    BY <1>4, <2>1 DEF Validates
  <2>2. CASE building' = building
    <3>1. /\ position' = position + 1 /\ validated' = validated \cup {position}
          /\ UNCHANGED <<loaded, registerVars>> /\ building = "Validate" /\ position <= Sources
      BY <1>4, <2>2 DEF Validates
    <3>2. validated' = 1..(position' - 1)
      BY <3>1
    <3>3. QED
      BY <2>2, <3>1, <3>2
  <2>3. QED
    BY <1>4, <2>1, <2>2 DEF Validates
<1>5. CASE EndsPhase
  BY <1>5 DEF EndsPhase
<1>6. CASE SpawnsResolver
  BY <1>6 DEF SpawnsResolver, BuilderStep
<1>7. CASE SeesAnswer
  BY <1>7 DEF SeesAnswer, BuilderStep
<1>8. CASE StopsWaiting
  BY <1>8 DEF StopsWaiting, BuilderStep
<1>9. CASE Blames
  BY <1>9 DEF Blames, BuilderStep
<1>10. CASE FindsTooMany
  BY <1>10 DEF FindsTooMany, ResolverStep
<1>11. CASE AsksNext
  BY <1>11 DEF AsksNext, ResolverStep, Passes
<1>12. CASE EndsPass
  BY <1>12 DEF EndsPass, ResolverStep
<1>13. CASE FindsDuplicate
  BY <1>13 DEF FindsDuplicate, ResolverStep
<1>14. CASE NamesSecond
  BY <1>14 DEF NamesSecond, ResolverStep
<1>15. CASE FindsMissing
  BY <1>15 DEF FindsMissing, ResolverStep
<1>16. CASE Rejects
  BY <1>16 DEF Rejects, ResolverStep
<1>17. CASE ProviderFails
  BY <1>17 DEF ProviderFails, ResolverStep, Culprits, Passes, Tracked
<1>18. CASE UNCHANGED buildVars
  BY <1>18 DEF buildVars
<1>19. QED
  BY <1>1, <1>2, <1>3, <1>4, <1>5, <1>6, <1>7, <1>8, <1>9, <1>10, <1>11, <1>12, <1>13, <1>14,
     <1>15, <1>16, <1>17, <1>18 DEF BuildNext

(* BuildIsWhole: nothing is validated that was not loaded with the rest,   *)
(* nothing is built on what did not answer, and the provider that hung or  *)
(* panicked in one of the two loops is the one that is blamed.             *)
THEOREM BuildsAreWhole == BuildSpec => []BuildIsWhole
<1>1. BuildInv => BuildIsWhole
  BY DEF BuildInv, SourcesOK, CulpritOK, BuildIsWhole
<1>2. QED
  BY <1>1, InitBuild, StepBuild, PTL DEF BuildSpec

HIDE BuildAssumption

-----------------------------------------------------------------------------
(* What the relay returns as an answer, for any limit, pipe and length:    *)
(* until a read fails every chunk is in the pipe or kept, and the reader   *)
(* drains only what follows an answer that is too large.                   *)

USE RelayAssumption

RelayTyped ==
    /\ printed \in Nat /\ inPipe \in Nat /\ collected \in Nat
    /\ readFailed \in BOOLEAN
    /\ reader \in {"None", "Keeping", "Draining", "Ended"}
    /\ relay \in {"Idle", "Waiting", "Joining", "Over"}
    /\ child \in {"None", "Running", "Exited", "Failed", "Killed"}
    /\ binary \in {"None", "Running", "Exited"}

NothingStarted ==
    /\ child = "None" /\ ~PipeHeld
    /\ printed = 0 /\ inPipe = 0 /\ collected = 0 /\ ~readFailed

(* Whether the reader is past the limit, at the end, or failed.            *)
ReaderOK ==
    /\ reader = "None" => NothingStarted
    /\ reader = "Keeping" =>
          ~readFailed /\ collected + inPipe = printed /\ collected <= AnswerLimit
    /\ reader = "Draining" => readFailed \/ collected > AnswerLimit
    /\ reader = "Ended" =>
          readFailed \/ collected > AnswerLimit \/ (collected = printed /\ ~PipeHeld)

RunOver ==
    /\ relay = "Idle" <=> reader = "None" /\ relay # "Over"
    /\ relay = "Joining" => child \in {"Exited", "Failed"}
    /\ relay # "Over" => relayed = "None"
    /\ relayed = "Ok" => reader = "Ended" /\ collected <= AnswerLimit
    /\ relay = "Over" /\ child = "Running" => relayed = "WaitFailed"

RelayInv == RelayTyped /\ ReaderOK /\ RunOver

LEMMA InitRelay == RelayInit => RelayInv
<1> SUFFICES ASSUME RelayInit PROVE RelayInv
  OBVIOUS
<1>1. RelayTyped
  BY DEF RelayInit, RelayTyped
<1>2. NothingStarted
  BY DEF RelayInit, NothingStarted, PipeHeld
<1>3. QED
  BY <1>1, <1>2 DEF RelayInit, RelayInv, ReaderOK, RunOver

LEMMA StepRelay == RelayInv /\ [RelayNext]_relayVars => RelayInv'
<1> SUFFICES ASSUME RelayInv, [RelayNext]_relayVars PROVE RelayInv'
  OBVIOUS
<1> USE DEF RelayInv, RelayTyped, ReaderOK, RunOver, NothingStarted, PipeHeld
<1>1. CASE SpawnsChild
  BY <1>1 DEF SpawnsChild, RelayEnds
<1>2. CASE ForksBinary
  BY <1>2 DEF ForksBinary
<1>3. CASE WritesChunk
  BY <1>3 DEF WritesChunk
<1>4. CASE ChildExits
  BY <1>4 DEF ChildExits
<1>5. CASE BinaryExits
  BY <1>5 DEF BinaryExits
<1>6. CASE Keeps
  BY <1>6 DEF Keeps
<1>7. CASE Drains
  BY <1>7 DEF Drains
<1>8. CASE ReaderEnds
  BY <1>8 DEF ReaderEnds
<1>9. CASE ReadFails
  BY <1>9 DEF ReadFails
<1>10. CASE SeesExit
  BY <1>10 DEF SeesExit
<1>11. CASE WaitFails
  BY <1>11 DEF WaitFails, RelayEnds
<1>12. CASE DeadlineElapses
  BY <1>12 DEF DeadlineElapses, RelayEnds
<1>13. CASE JoinsReader
  BY <1>13 DEF JoinsReader, RelayEnds
<1>14. CASE UNCHANGED relayVars
  BY <1>14 DEF relayVars
<1>15. QED
  BY <1>1, <1>2, <1>3, <1>4, <1>5, <1>6, <1>7, <1>8, <1>9, <1>10, <1>11, <1>12, <1>13, <1>14
     DEF RelayNext

(* AnswerIsWhole: what is relayed as an answer is all that was printed, by *)
(* processes that have gone, unless a read of the pipe failed; and no run  *)
(* but one whose wait failed is over with its child running.               *)
THEOREM AnswersAreWhole == RelaySpec => []AnswerIsWhole
<1>1. RelayInv => AnswerIsWhole
  BY DEF RelayInv, RelayTyped, ReaderOK, RunOver, AnswerIsWhole
<1>2. QED
  BY <1>1, InitRelay, StepRelay, PTL DEF RelaySpec

HIDE RelayAssumption
=============================================================================

----------------------------- MODULE OtelExport -----------------------------
(***************************************************************************)
(* The span exporter of renvor-observability/src/otel.rs: a bounded        *)
(* channel, the task that drains it, and the handle that shuts it down.    *)
(* Spans end on any thread.  Each is in one place: on its way in, in the   *)
(* channel, in the drain's batch, in an export, or done with.              *)
(*                                                                         *)
(* The channel is Tokio's: a send takes a permit and then puts its value   *)
(* in; `close` and the drop of the receiver refuse permits, and permits    *)
(* already given are honoured.  An abort lands where the task awaits.      *)
(***************************************************************************)
EXTENDS Integers, FiniteSets

CONSTANTS
    Spans,     \* spans that end
    QueueSize, \* capacity of the channel
    BatchSize  \* spans in one export request

ASSUME ExportAssumption ==
    /\ IsFiniteSet(Spans)
    /\ QueueSize \in Nat \ {0} /\ BatchSize \in Nat \ {0}

VARIABLES
    span,     \* where each span is
    queued,   \* Shared.queued
    closed,   \* the channel refuses new spans
    drain,    \* what the task is doing
    stopping, \* its local of that name
    failed,   \* it panicked
    notified, \* the stop has been asked for
    aborted,  \* and then insisted on
    handle,   \* the owner's side: shutdown, or Drop
    outcome,  \* what it ended with
    counted   \* the unexported spans it reported

drainVars == <<drain, stopping, failed>>
handleVars == <<notified, aborted, handle, outcome, counted>>
exportVars == <<span, queued, closed, drainVars, handleVars>>

In(place) == {s \in Spans : span[s] = place}

Moved(S, place) == [s \in Spans |-> IF s \in S THEN place ELSE span[s]]

ExportInit ==
    /\ span = [s \in Spans |-> "open"]
    /\ queued = 0
    /\ closed = FALSE
    /\ drain = "filling" /\ stopping = FALSE /\ failed = FALSE
    /\ notified = FALSE /\ aborted = FALSE
    /\ handle = "held" /\ outcome = "none" /\ counted = 0

------------------------------------------------------------------------------
(* on_end *)

(* Mutant: a span is counted when the channel has taken it. *)
CountsLate(s) ==
    /\ span[s] = "open"
    /\ span' = Moved({s}, "counted")
    /\ UNCHANGED <<queued, closed, drainVars, handleVars>>

Counts(s) ==
    /\ span[s] = "open"
    /\ span' = Moved({s}, "counted")
    /\ queued' = queued + 1
    /\ UNCHANGED <<closed, drainVars, handleVars>>

(* try_send: a permit, or a refusal when the channel is closed or full. *)
Offers(s) ==
    /\ span[s] = "counted"
    /\ LET full == Cardinality(In("permitted")) + Cardinality(In("queued")) >= QueueSize
       IN  span' = Moved({s}, IF closed \/ full THEN "refused" ELSE "permitted")
    /\ UNCHANGED <<queued, closed, drainVars, handleVars>>

Sends(s) ==
    /\ span[s] = "permitted"
    /\ span' = Moved({s}, "queued")
    /\ UNCHANGED <<queued, closed, drainVars, handleVars>>

(* A refused span is taken back out, and is a drop. *)
Unwinds(s) ==
    /\ span[s] = "refused"
    /\ span' = Moved({s}, "dropped")
    /\ queued' = queued - 1
    /\ UNCHANGED <<closed, drainVars, handleVars>>

------------------------------------------------------------------------------
(* The drain task *)

(* select!, recv *)
Receives(s) ==
    /\ drain = "filling"
    /\ Cardinality(In("pending")) < BatchSize
    /\ span[s] = "queued"
    /\ span' = Moved({s}, "pending")
    /\ UNCHANGED <<queued, closed, drainVars, handleVars>>

(* A full batch, or the scheduled delay.  With nothing pending the delay   *)
(* only starts again.                                                      *)
StopsFilling ==
    /\ drain = "filling"
    /\ In("pending") # {}
    /\ drain' = "exporting"
    /\ UNCHANGED <<span, queued, closed, stopping, failed, handleVars>>

(* select!, notified *)
NoticesStop ==
    /\ drain = "filling"
    /\ notified
    /\ drain' = "closing"
    /\ stopping' = TRUE
    /\ UNCHANGED <<span, queued, closed, failed, handleVars>>

(* receiver.close() *)
ClosesQueue ==
    /\ drain = "closing"
    /\ closed' = TRUE
    /\ drain' = "sweeping"
    /\ UNCHANGED <<span, queued, stopping, failed, handleVars>>

(* while let Ok(span) = receiver.try_recv() *)
SweepsOne(s) ==
    /\ drain = "sweeping"
    /\ span[s] = "queued"
    /\ span' = Moved({s}, "pending")
    /\ UNCHANGED <<queued, closed, drainVars, handleVars>>

SweepEnds ==
    /\ drain = "sweeping"
    /\ In("queued") = {}
    /\ drain' = "exporting"
    /\ UNCHANGED <<span, queued, closed, stopping, failed, handleVars>>

(* Chunks are of BatchSize, the last of what is left. *)
Chunks ==
    {C \in SUBSET In("pending") :
        Cardinality(C) = BatchSize \/ (C = In("pending") /\ Cardinality(C) < BatchSize)}

StartsExport(C) ==
    /\ drain = "exporting"
    /\ C \in Chunks /\ C # {}
    /\ span' = Moved(C, "in_flight")
    /\ drain' = "awaiting"
    /\ UNCHANGED <<queued, closed, stopping, failed, handleVars>>

(* The export returns, well or badly, or its timeout does. *)
Concludes ==
    /\ drain = "awaiting"
    /\ span' = Moved(In("in_flight"), "concluded")
    /\ queued' = queued - Cardinality(In("in_flight"))
    /\ drain' = "exporting"
    /\ UNCHANGED <<closed, stopping, failed, handleVars>>

(* pending.clear() *)
ExportsDone ==
    /\ drain = "exporting"
    /\ In("pending") = {}
    /\ IF stopping THEN drain' = "ended" /\ closed' = TRUE
                   ELSE drain' = "filling" /\ UNCHANGED closed
    /\ UNCHANGED <<span, queued, stopping, failed, handleVars>>

(* The exporter panics. *)
Panics ==
    /\ drain = "awaiting"
    /\ drain' = "ended"
    /\ failed' = TRUE
    /\ closed' = TRUE
    /\ UNCHANGED <<span, queued, stopping, handleVars>>

(* The abort lands, and the receiver goes. *)
Aborts ==
    /\ aborted
    /\ drain \in {"filling", "awaiting"}
    /\ drain' = "ended"
    /\ closed' = TRUE
    /\ UNCHANGED <<span, queued, stopping, failed, handleVars>>

------------------------------------------------------------------------------
(* The handle *)

(* shutdown: notify_one, and the task is taken. *)
Shutdown ==
    /\ handle = "held"
    /\ notified' = TRUE
    /\ handle' = "flushing"
    /\ UNCHANGED <<span, queued, closed, drainVars, aborted, outcome, counted>>

FlushEnds ==
    /\ handle = "flushing"
    /\ drain = "ended"
    /\ outcome' = IF failed THEN "drain_failed" ELSE "ok"
    /\ handle' = "reading"
    /\ UNCHANGED <<span, queued, closed, drainVars, notified, aborted, counted>>

(* Mutant: the drain is aborted and not joined. *)
FlushTimesOutUnjoined ==
    /\ handle = "flushing"
    /\ drain # "ended"
    /\ aborted' = TRUE
    /\ outcome' = "timed_out"
    /\ handle' = "reading"
    /\ UNCHANGED <<span, queued, closed, drainVars, notified, counted>>

FlushTimesOut ==
    /\ handle = "flushing"
    /\ drain # "ended"
    /\ aborted' = TRUE
    /\ handle' = "joining"
    /\ UNCHANGED <<span, queued, closed, drainVars, notified, outcome, counted>>

Joined ==
    /\ handle = "joining"
    /\ drain = "ended"
    /\ outcome' = "timed_out"
    /\ handle' = "reading"
    /\ UNCHANGED <<span, queued, closed, drainVars, notified, aborted, counted>>

(* Drop: the abort, and the count at once. *)
DropsHandle ==
    /\ handle = "held"
    /\ aborted' = TRUE
    /\ outcome' = "dropped"
    /\ handle' = "reading"
    /\ UNCHANGED <<span, queued, closed, drainVars, notified, counted>>

(* queued.load: what a forced close reports. *)
Reads ==
    /\ handle = "reading"
    /\ counted' = IF outcome = "ok" THEN 0 ELSE queued
    /\ handle' = "returned"
    /\ UNCHANGED <<span, queued, closed, drainVars, notified, aborted, outcome>>

(* The future of shutdown is dropped while it waits: its task was taken, so*)
(* Drop finds none, and the drain goes on detached.                        *)
Abandoned ==
    /\ handle \in {"flushing", "joining"}
    /\ handle' = "abandoned"
    /\ UNCHANGED <<span, queued, closed, drainVars, notified, aborted, outcome, counted>>

DrainStep ==
    \/ \E s \in Spans : Receives(s) \/ SweepsOne(s)
    \/ StopsFilling \/ NoticesStop \/ ClosesQueue \/ SweepEnds
    \/ \E C \in SUBSET Spans : StartsExport(C)
    \/ Concludes \/ ExportsDone \/ Aborts

HandleStep == FlushEnds \/ FlushTimesOut \/ Joined \/ Reads

ExportNext ==
    \/ \E s \in Spans : Counts(s) \/ Offers(s) \/ Sends(s) \/ Unwinds(s)
    \/ DrainStep \/ Panics
    \/ Shutdown \/ DropsHandle \/ HandleStep \/ Abandoned

ExportSpec == ExportInit /\ [][ExportNext]_exportVars

------------------------------------------------------------------------------
(* Properties *)

Places ==
    {"open", "counted", "permitted", "refused", "dropped", "queued", "pending", "in_flight",
     "concluded"}

ExportTypeOK ==
    /\ span \in [Spans -> Places]
    /\ queued \in Int /\ counted \in Int
    /\ closed \in BOOLEAN /\ stopping \in BOOLEAN /\ failed \in BOOLEAN
    /\ notified \in BOOLEAN /\ aborted \in BOOLEAN
    /\ drain \in {"filling", "closing", "sweeping", "exporting", "awaiting", "ended"}
    /\ handle \in {"held", "flushing", "joining", "reading", "returned", "abandoned"}
    /\ outcome \in {"none", "ok", "timed_out", "drain_failed", "dropped"}

(* Taken by the channel, and its export has not concluded. *)
Unexported == In("queued") \cup In("pending") \cup In("in_flight")

OnItsWay == In("counted") \cup In("permitted") \cup In("refused")

(* The count is what is on its way, waiting or being exported, whatever    *)
(* threads end spans while the drain concludes others: it is never below   *)
(* the truth, and never below zero, where a u64 wraps (otel.rs, on_end).   *)
CountIsExact == queued = Cardinality(OnItsWay \cup Unexported)

(* A shutdown that was forced closed reported every span it lost, those    *)
(* sent while it was reading the count included (otel.rs:705).             *)
ForcedCloseIsReported ==
    handle = "returned" /\ outcome \in {"timed_out", "drain_failed"} =>
        Cardinality(Unexported) <= counted
==============================================================================

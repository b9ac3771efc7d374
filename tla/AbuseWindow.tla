----------------------------- MODULE AbuseWindow -----------------------------
(***************************************************************************)
(* The attempt counters of renvor-auth/src/abuse.rs over the table of      *)
(* renvor-sqlx/src/auth.rs: AbuseGuard::admit counts a request in one      *)
(* bucket per dimension, each in a transaction of its own, and then        *)
(* decides.  All requests here fall into the same buckets.                 *)
(*                                                                         *)
(* An upsert that finds its row takes no lock on PostgreSQL; on MySQL it   *)
(* takes the row's, which is this with the two statements back to back.    *)
(***************************************************************************)
EXTENDS Integers, FiniteSets, Sequences

CONSTANTS
    Attempts,  \* requests that attempt the flow
    FlowLimits, \* the limit of each dimension of the flow, in order
    Window,    \* the length of a window
    LastMoment \* bound on the clock

Nobody == "nobody"

ASSUME AbuseAssumption ==
    /\ IsFiniteSet(Attempts) /\ Nobody \notin Attempts
    /\ FlowLimits \in Seq(Nat \ {0}) /\ FlowLimits # <<>>
    /\ Window \in Nat \ {0} /\ LastMoment \in Nat

VARIABLES
    counter,  \* rv_auth_attempt: the bucket's row in each dimension
    holder,   \* who has locked it
    attempt,  \* each request's next statement and its local variables
    moment    \* the clock

abuseVars == <<counter, holder, attempt, moment>>

Dimensions == DOMAIN FlowLimits
NoRow == [start |-> 0 - 1, current |-> 0, previous |-> 0]

AbuseInit ==
    /\ counter = [d \in Dimensions |-> NoRow]
    /\ holder = [d \in Dimensions |-> Nobody]
    /\ attempt = [a \in Attempts |-> [at |-> "new"]]
    /\ moment = 0

Proceeds(a, r) == attempt' = [attempt EXCEPT ![a] = r]

------------------------------------------------------------------------------
(* The arithmetic *)

WindowStart(now) == (now \div Window) * Window

(* Mutant: a fixed window. *)
CurrentAlone(row, now) == row.current

(* The tail of the previous window, by what is left of this one. *)
Weighted(row, now) ==
    (row.previous * (Window - (now - row.start))) \div Window + row.current

ExceededBy(row, now, limit) == Weighted(row, now) > limit

Counted(row, start) ==
    IF row.start = start THEN [row EXCEPT !.current = @ + 1]
    ELSE [start |-> start, current |-> 1,
          previous |-> IF row.start = start - Window THEN row.current ELSE 0]

------------------------------------------------------------------------------
(* admit *)

AttemptArrives(a) ==
    /\ attempt[a].at = "new"
    /\ Proceeds(a, [at |-> "ensure", now |-> moment, d |-> 1, refused |-> FALSE])
    /\ UNCHANGED <<counter, holder, moment>>

(* The upsert: an absent row is this transaction's, unseen until its end,  *)
(* and another inserter waits for it.                                      *)
EnsuresRow(a) ==
    /\ attempt[a].at = "ensure"
    /\ LET d == attempt[a].d
       IN  IF counter[d] = NoRow
           THEN /\ holder[d] = Nobody
                /\ holder' = [holder EXCEPT ![d] = a]
           ELSE UNCHANGED holder
    /\ Proceeds(a, [attempt[a] EXCEPT !.at = "lock"])
    /\ UNCHANGED <<counter, moment>>

(* SELECT ... FOR UPDATE, and the decision. *)
LocksRow(a) ==
    /\ attempt[a].at = "lock"
    /\ LET d == attempt[a].d
           start == WindowStart(attempt[a].now)
           row == IF holder[d] = a THEN [NoRow EXCEPT !.start = start] ELSE counter[d]
       IN  /\ holder[d] \in {a, Nobody}
           /\ row # NoRow
           /\ row.start <= start
           /\ holder' = [holder EXCEPT ![d] = a]
           /\ Proceeds(a, [at |-> "write", now |-> attempt[a].now, d |-> d,
                           refused |-> attempt[a].refused, row |-> Counted(row, start)])
    /\ UNCHANGED <<counter, moment>>

Frees(a) == [d \in Dimensions |-> IF holder[d] = a THEN Nobody ELSE holder[d]]

(* The next dimension, refused or not: nothing is returned early. *)
NextDimension(a, refused) ==
    Proceeds(a, [at |-> IF attempt[a].d = Len(FlowLimits) THEN "audit" ELSE "ensure",
                 now |-> attempt[a].now,
                 d |-> IF attempt[a].d = Len(FlowLimits) THEN 0 ELSE attempt[a].d + 1,
                 refused |-> attempt[a].refused \/ refused])

(* The UPDATE and the commit. *)
CommitsCount(a) ==
    /\ attempt[a].at = "write"
    /\ LET d == attempt[a].d
       IN  /\ counter' = [counter EXCEPT ![d] = attempt[a].row]
           /\ NextDimension(a, ExceededBy(attempt[a].row, attempt[a].now, FlowLimits[d]))
    /\ holder' = Frees(a)
    /\ UNCHANGED moment

(* The stored window is in the future: nothing is written. *)
ClockRegressed(a) ==
    /\ attempt[a].at = "lock"
    /\ LET d == attempt[a].d
       IN  /\ holder[d] = Nobody
           /\ counter[d].start > WindowStart(attempt[a].now)
    /\ NextDimension(a, TRUE)
    /\ UNCHANGED <<counter, holder, moment>>

(* A row pruned since the upsert is an error, and any error or dropped     *)
(* future ends the request unadmitted.                                     *)
FailsClosed(a) ==
    /\ attempt[a].at \notin {"new", "admitted", "done"}
    /\ Proceeds(a, [at |-> "done"])
    /\ holder' = Frees(a)
    /\ UNCHANGED <<counter, moment>>

(* The audit record is written; what was refused is refused.  A request    *)
(* admitted after its window is not told apart from one that failed.       *)
Decides(a) ==
    /\ attempt[a].at = "audit"
    /\ Proceeds(a, IF attempt[a].refused \/ WindowStart(moment) > attempt[a].now
                   THEN [at |-> "done"]
                   ELSE [at |-> "admitted", now |-> attempt[a].now])
    /\ UNCHANGED <<counter, holder, moment>>

(* DELETE ... WHERE expires_at <= now, which waits for a locked row. *)
Prunes(d) ==
    /\ counter[d] # NoRow
    /\ holder[d] = Nobody
    /\ counter[d].start + 2 * Window <= moment
    /\ counter' = [counter EXCEPT ![d] = NoRow]
    /\ UNCHANGED <<holder, attempt, moment>>

MomentPasses ==
    /\ moment < LastMoment
    /\ moment' = moment + 1
    /\ UNCHANGED <<counter, holder, attempt>>

AbuseNext ==
    \/ \E a \in Attempts :
          \/ AttemptArrives(a) \/ EnsuresRow(a) \/ LocksRow(a) \/ ClockRegressed(a)
          \/ CommitsCount(a) \/ Decides(a) \/ FailsClosed(a)
    \/ \E d \in Dimensions : Prunes(d)
    \/ MomentPasses

AbuseSpec == AbuseInit /\ [][AbuseNext]_abuseVars

------------------------------------------------------------------------------
(* Properties *)

(* The requests of these instants that were admitted. *)
AdmittedBetween(from, to) ==
    {a \in Attempts : attempt[a].at = "admitted" /\ attempt[a].now \in from .. to}
AdmittedIn(from, to) == Cardinality(AdmittedBetween(from, to))

(* No burst slips through a boundary: with e instants of a window gone, it *)
(* and the one before have admitted the limit and e/W of it more, however  *)
(* the requests race or fail (abuse.rs:618).  Left out are requests that   *)
(* outlast their window: a row they would have been charged for may have   *)
(* been pruned by then.                                                    *)
BoundaryBurstBounded ==
    \A d \in Dimensions, t \in 0 .. LastMoment :
        LET start == WindowStart(t)
        IN  Window * (AdmittedIn(start - Window, t) - FlowLimits[d])
                < FlowLimits[d] * (t - start) + Window
==============================================================================

---------------------------- MODULE MigrationRun ----------------------------
(***************************************************************************)
(* Several starters migrate one database: each takes the database's        *)
(* session lock under a deadline, runs what is pending under another, and  *)
(* ends its session on every path.                                         *)
(*                                                                         *)
(* run_direct is sqlx's and the sessions are the server's: a statement a   *)
(* client no longer waits for may still take effect, and a session whose   *)
(* client is gone ends in the server's own time.                           *)
(***************************************************************************)
EXTENDS Integers

CONSTANTS
    Starters,    \* the processes that migrate
    Versions,    \* how many forward migrations there are: 1 .. Versions
    NoTransaction,   \* those that open with "-- no-transaction"
    NoSession    \* nobody holds the migration lock

ASSUME MigrationAssumption ==
    Versions \in Nat /\ NoTransaction \subseteq 1 .. Versions /\ NoSession \notin Starters

VARIABLES
    engine,      \* "postgres" or "mysql"
    starter,     \* where each starter stands
    dbSession,   \* each starter's session at the server
    lock,        \* the session that holds the migration lock
    pending,     \* what the run of each starter has still to apply
    applied,     \* versions recorded as applied
    dirty,       \* versions recorded as begun and not ended
    effects,     \* how often each version's statements took effect: 0, 1 or, for more, 2
    unrecorded,  \* the version a session ran and has still to record, if any
    interrupted  \* versions a run was at when it ended between statements and record

migrationVars ==
    <<engine, starter, dbSession, lock, pending, applied, dirty, effects, unrecorded, interrupted>>

All == 1 .. Versions
Lowest(S) == CHOOSE v \in S : \A w \in S : v <= w

MigrationInit ==
    /\ engine \in {"postgres", "mysql"}
    /\ starter = [s \in Starters |-> "Idle"]
    /\ dbSession = [s \in Starters |-> "None"]
    /\ lock = NoSession
    /\ pending = [s \in Starters |-> {}]
    /\ applied = {} /\ dirty = {}
    /\ effects = [v \in All |-> 0]
    /\ unrecorded = [s \in Starters |-> {}] /\ interrupted = {}

Goes(s, to) == starter' = [starter EXCEPT ![s] = to]
Session(s, to) == dbSession' = [dbSession EXCEPT ![s] = to]
ledger == <<applied, dirty, effects, unrecorded, interrupted>>

TakesEffect(v) == effects' = [effects EXCEPT ![v] = IF @ = 0 THEN 1 ELSE 2]

\* The session may no longer be told to record what it ran.
Interrupted(s) == interrupted' = interrupted \cup unrecorded[s]

\* The applied set is read through the pool, then a connection is taken from
\* it and marked close_on_drop; lock() is sent and the server queues it.
Connects(s) ==
    /\ starter[s] = "Idle"
    /\ \/ Goes(s, "Locking") /\ Session(s, "Queued")
       \/ Goes(s, "Failed") /\ UNCHANGED dbSession
    /\ pending' = [pending EXCEPT ![s] = {}]
    /\ UNCHANGED <<engine, lock, ledger>>

\* The server grants the lock, to a session whose client may have left.
Grants(s) ==
    /\ dbSession[s] = "Queued" /\ lock = NoSession
    /\ lock' = s
    /\ Session(s, "Holding")
    /\ UNCHANGED <<engine, starter, pending, ledger>>

\* A slip: the lock wait elapses and the run goes on.
RunsUnlocked(s) ==
    /\ starter[s] = "Locking"
    /\ Goes(s, "Running")
    /\ UNCHANGED <<engine, dbSession, lock, pending, ledger>>

Locked(s) ==
    /\ starter[s] = "Locking" /\ dbSession[s] = "Holding"
    /\ Goes(s, "Running")
    /\ UNCHANGED <<engine, dbSession, lock, pending, ledger>>

\* The lock wait elapses, or lock() is refused.
LockTimesOut(s) ==
    /\ starter[s] = "Locking"
    /\ Goes(s, "Closing")
    /\ UNCHANGED <<engine, dbSession, lock, pending, ledger>>

\* run_direct begins: a dirty version refuses the run.
ListsApplied(s) ==
    /\ starter[s] = "Running"
    /\ IF dirty # {}
       THEN Goes(s, "Closing") /\ UNCHANGED pending
       ELSE Goes(s, "Applying") /\ pending' = [pending EXCEPT ![s] = All \ applied]
    /\ UNCHANGED <<engine, dbSession, lock, ledger>>

\* PostgreSQL: the version and its record commit together.
AppliesAtomically(s) ==
    /\ engine = "postgres"
    /\ starter[s] = "Applying" /\ pending[s] # {}
    /\ LET v == Lowest(pending[s]) IN
          /\ v \notin NoTransaction
          /\ pending' = [pending EXCEPT ![s] = @ \ {v}]
          /\ TakesEffect(v)
          /\ applied' = applied \cup {v}
    /\ UNCHANGED <<engine, starter, dbSession, lock, dirty, unrecorded, interrupted>>

\* The statements of a version take effect apart from its record: on MySQL a
\* table change commits by itself, with the version still dirty, and on
\* PostgreSQL one without a transaction runs its statements and leaves no mark.
RunsApart(v) ==
    /\ dirty' = IF engine = "mysql" THEN dirty \cup {v} ELSE dirty
    /\ TakesEffect(v)

BeginsVersion(s) ==
    /\ starter[s] = "Applying" /\ pending[s] # {}
    /\ LET v == Lowest(pending[s]) IN
          /\ engine = "mysql" \/ v \in NoTransaction
          /\ RunsApart(v)
          /\ unrecorded' = [unrecorded EXCEPT ![s] = {v}]
    /\ Goes(s, "Recording")
    /\ UNCHANGED <<engine, dbSession, lock, pending, applied, interrupted>>

\* The version a session ran is recorded, and no longer dirty.
RecordsRun(s) ==
    /\ dirty' = dirty \ unrecorded[s]
    /\ applied' = applied \cup unrecorded[s]
    /\ unrecorded' = [unrecorded EXCEPT ![s] = {}]

RecordsVersion(s) ==
    /\ starter[s] = "Recording"
    /\ RecordsRun(s)
    /\ pending' = [pending EXCEPT ![s] = @ \ unrecorded[s]]
    /\ Goes(s, "Applying")
    /\ UNCHANGED <<engine, dbSession, lock, effects, interrupted>>

\* A version fails, or the run deadline elapses: a MySQL version begun stays
\* dirty, a PostgreSQL one is rolled back unless it has no transaction.
RunFails(s) ==
    /\ starter[s] \in {"Applying", "Recording"}
    /\ Goes(s, "Closing")
    /\ Interrupted(s)
    /\ UNCHANGED <<engine, dbSession, lock, pending, applied, dirty, effects, unrecorded>>

\* The run ended over what the server already has, and it takes effect: the
\* starter does not know, and its session is sent nothing more.
Unheard(s) ==
    /\ starter[s] \in {"Closing", "Failed"} /\ dbSession[s] = "Holding"
    /\ pending[s] # {}
    /\ pending' = [pending EXCEPT ![s] = {}]
    /\ UNCHANGED <<engine, starter, dbSession, lock>>

\* A commit of a version and its record.
CommitsUnheard(s) ==
    /\ engine = "postgres"
    /\ Unheard(s) /\ unrecorded[s] = {}
    /\ LET v == Lowest(pending[s]) IN
          /\ v \notin NoTransaction
          /\ TakesEffect(v)
          /\ applied' = applied \cup {v}
    /\ UNCHANGED <<dirty, unrecorded, interrupted>>

\* The statements of a version whose record comes apart.
BeginsUnheard(s) ==
    /\ Unheard(s) /\ unrecorded[s] = {}
    /\ LET v == Lowest(pending[s]) IN
          /\ engine = "mysql" \/ v \in NoTransaction
          /\ RunsApart(v)
          /\ interrupted' = interrupted \cup {v}
    /\ UNCHANGED <<applied, unrecorded>>

\* The record of a version that ran.
RecordsUnheard(s) ==
    /\ Unheard(s) /\ unrecorded[s] # {}
    /\ RecordsRun(s)
    /\ UNCHANGED <<effects, interrupted>>

\* Everything is applied: the lock is given back, with an answer or without.
Unlocks(s) ==
    /\ starter[s] = "Applying" /\ pending[s] = {}
    /\ \/ Session(s, "Open") /\ lock' = NoSession
       \/ UNCHANGED <<dbSession, lock>>
    /\ Goes(s, "ClosingDone")
    /\ UNCHANGED <<engine, pending, ledger>>

\* The session ends, and a lock it holds with it.
Ends(s) ==
    /\ Session(s, "None")
    /\ lock' = IF lock = s THEN NoSession ELSE lock
    /\ unrecorded' = [unrecorded EXCEPT ![s] = {}]

\* The one cleanup: closed, or left to the server when closing takes too long.
Closes(s) ==
    /\ starter[s] \in {"Closing", "ClosingDone"}
    /\ Goes(s, IF starter[s] = "Closing" THEN "Failed" ELSE "Done")
    /\ \/ Ends(s)
       \/ UNCHANGED <<dbSession, lock, unrecorded>>
    /\ UNCHANGED <<engine, pending, applied, dirty, effects, interrupted>>

\* The starter's process dies, at any await.
Dies(s) ==
    /\ starter[s] \notin {"Idle", "Failed", "Done"}
    /\ Goes(s, "Failed")
    /\ Interrupted(s)
    /\ UNCHANGED <<engine, dbSession, lock, pending, applied, dirty, effects, unrecorded>>

\* The server ends a session that has no client.
SessionEnds(s) ==
    /\ starter[s] \in {"Failed", "Done"} /\ dbSession[s] # "None"
    /\ Ends(s)
    /\ UNCHANGED <<engine, starter, pending, applied, dirty, effects, interrupted>>

\* A starter that failed may be started again once its session is over.
StartsAgain(s) ==
    /\ starter[s] = "Failed" /\ dbSession[s] = "None"
    /\ Goes(s, "Idle")
    /\ UNCHANGED <<engine, dbSession, lock, pending, ledger>>

MigrationNext ==
    \E s \in Starters :
       \/ Connects(s) \/ Grants(s) \/ Locked(s) \/ LockTimesOut(s) \/ ListsApplied(s)
       \/ AppliesAtomically(s) \/ BeginsVersion(s) \/ RecordsVersion(s) \/ RunFails(s)
       \/ CommitsUnheard(s) \/ BeginsUnheard(s) \/ RecordsUnheard(s) \/ Unlocks(s)
       \/ Closes(s) \/ Dies(s) \/ SessionEnds(s) \/ StartsAgain(s)

MigrationSpec == MigrationInit /\ [][MigrationNext]_migrationVars

-----------------------------------------------------------------------------
\* What a start may rely on, however many start at once and wherever one of
\* them dies: no version's statements take effect twice - but those of a
\* PostgreSQL migration without a transaction may, once a run of it ended
\* between its statements and its record, which leaves no mark behind -
\* versions are recorded in their order, and a starter that was told it is
\* done finds all of them recorded and none half done.
MigratesOnce ==
    /\ \A v \in All : effects[v] = 2 =>
          engine = "postgres" /\ v \in NoTransaction /\ v \in interrupted
    /\ \A v \in applied : 1 .. v \subseteq applied
    /\ \A s \in Starters :
          starter[s] \in {"ClosingDone", "Done"} => applied = All /\ dirty = {}
=============================================================================

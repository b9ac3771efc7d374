------------------------------- MODULE Sessions -------------------------------
(***************************************************************************)
(* Cookie sessions of one subject: SessionService of renvor-auth/src/      *)
(* session.rs over the session table of renvor-sqlx/src/auth.rs.  Every    *)
(* call of the repository is one conditional statement; `begin` and        *)
(* `rotate` are several, and other callers' fall between.  A request reads *)
(* the clock once, before its first statement is sent                      *)
(* (renvor-auth-http/src/routes.rs:244, :446), and all of them carry that  *)
(* instant, however late they are executed.  A call ends at any of its     *)
(* awaits: a failed statement, a dropped future, a crash.                  *)
(***************************************************************************)
EXTENDS Integers, FiniteSets, Sequences

CONSTANTS
    Callers,      \* requests in progress at once
    Concurrent,   \* sessions the policy allows the subject
    Idle,         \* inactivity timeout
    Absolute,     \* overall timeout
    MaxSessions,  \* bound on the rows of a run
    LastInstant   \* bound on its clock

ASSUME SessionsAssumption ==
    /\ Concurrent \in Nat \ {0}
    /\ Idle \in Nat \ {0} /\ Absolute \in Nat \ {0} /\ Idle <= Absolute
    /\ MaxSessions \in Nat /\ LastInstant \in Nat

VARIABLES
    session, \* rv_auth_session, in the order of insertion
    clock,
    progress, \* each caller's next statement and its local variables
    cookies, \* the sessions whose cookie reached the client
    crossed  \* history: callers whose list others have outdated since

sessionVars == <<session, clock, progress, cookies, crossed>>

Rows == 1 .. Len(session)

NoRequest == [at |-> "idle"]

SessionsInit ==
    /\ session = <<>>
    /\ clock = 0
    /\ progress = [c \in Callers |-> NoRequest]
    /\ cookies = {}
    /\ crossed = {}

Continues(c, r) == progress' = [progress EXCEPT ![c] = r]

------------------------------------------------------------------------------
(* The statements of the repository *)

Live(s, now) == ~s.revoked /\ s.last_seen > now - Idle /\ s.created > now - Absolute

(* UPDATE ... WHERE revoked_at IS NULL: its answer is whether it did. *)
Revoke(i) == session' = [session EXCEPT ![i].revoked = TRUE]

HasListed == {d \in Callers : progress[d].at \in {"evict", "answer"}}

(* A row remembers which sign-in it goes back to. *)
Create(c, now, origin) ==
    /\ session' = Append(session, [created |-> now, last_seen |-> now, revoked |-> FALSE,
                                   origin |-> origin])
    /\ crossed' = crossed \cup (HasListed \ {c})
    /\ Continues(c, [at |-> "answer", now |-> now, fresh |-> Len(session) + 1])

(* Those who counted row i as dead at their instant, and it is not once it *)
(* has been seen at an earlier one.                                        *)
CountedDead(i, seen) ==
    {d \in HasListed :
        /\ ~Live(session[i], progress[d].now)
        /\ Live([session[i] EXCEPT !.last_seen = seen], progress[d].now)}

(* UPDATE ... SET last_seen_at WHERE live, at the instant the caller read. *)
Touch(c) ==
    LET r == progress[c]
    IN  /\ Live(session[r.old], r.now)
        /\ session' = [session EXCEPT ![r.old].last_seen = r.now]
        /\ crossed' = crossed \cup CountedDead(r.old, r.now)

------------------------------------------------------------------------------
(* begin *)

BeginsBare(c) ==
    /\ progress[c].at = "idle"
    /\ Continues(c, [at |-> "list", now |-> clock])
    /\ UNCHANGED <<session, clock, cookies, crossed>>

BeginsHolding(c, i) ==
    /\ progress[c].at = "idle"
    /\ i \in cookies
    /\ Continues(c, [at |-> "presented", now |-> clock, old |-> i])
    /\ UNCHANGED <<session, clock, cookies, crossed>>

(* The session the subject arrived holding is retired. *)
RetiresPresented(c) ==
    /\ progress[c].at = "presented"
    /\ Revoke(progress[c].old)
    /\ Continues(c, [at |-> "list", now |-> progress[c].now])
    /\ UNCHANGED <<clock, cookies, crossed>>

(* Mutant: the bound is met, and no room made. *)
StalestLeavingNone(now) ==
    LET live == {i \in Rows : Live(session[i], now)}
    IN  {S \in SUBSET live :
            /\ \A i \in S, j \in live \ S : session[i].last_seen <= session[j].last_seen
            /\ Cardinality(S) = IF Cardinality(live) > Concurrent
                                THEN Cardinality(live) - Concurrent ELSE 0}

(* The least recently seen, as many as leave room for one more; among rows *)
(* seen at one instant the database orders as it likes.                    *)
Stalest(now) ==
    LET live == {i \in Rows : Live(session[i], now)}
        excess == Cardinality(live) - (Concurrent - 1)
    IN  {S \in SUBSET live :
            /\ \A i \in S, j \in live \ S : session[i].last_seen <= session[j].last_seen
            /\ Cardinality(S) = IF excess > 0 THEN excess ELSE 0}

ListsStalest(c, S) ==
    /\ progress[c].at = "list"
    /\ S \in Stalest(progress[c].now)
    /\ Continues(c, [at |-> "evict", now |-> progress[c].now, stale |-> S])
    /\ UNCHANGED <<session, clock, cookies, crossed>>

Evicts(c, i) ==
    /\ progress[c].at = "evict"
    /\ i \in progress[c].stale
    /\ Revoke(i)
    /\ Continues(c, [progress[c] EXCEPT !.stale = @ \ {i}])
    /\ UNCHANGED <<clock, cookies, crossed>>

(* A sign-in's row is its own origin. *)
CreatesSignIn(c) ==
    /\ progress[c].at = "evict"
    /\ progress[c].stale = {}
    /\ Len(session) < MaxSessions
    /\ Create(c, progress[c].now, Len(session) + 1)
    /\ UNCHANGED <<clock, cookies>>

------------------------------------------------------------------------------
(* authenticate, and rotate, which begins as it does *)

SendsCookie(c, i) ==
    /\ progress[c].at = "idle"
    /\ i \in cookies
    /\ \E call \in {"authenticate", "rotate"} :
          Continues(c, [at |-> call, now |-> clock, old |-> i])
    /\ UNCHANGED <<session, clock, cookies, crossed>>

(* Unknown, revoked, idle or too old, by the instant the caller read. *)
FindsNoneLive(c) ==
    /\ progress[c].at \in {"authenticate", "rotate"}
    /\ ~Live(session[progress[c].old], progress[c].now)
    /\ Continues(c, NoRequest)
    /\ UNCHANGED <<session, clock, cookies, crossed>>

Authenticates(c) ==
    /\ progress[c].at = "authenticate"
    /\ Touch(c)
    /\ Continues(c, NoRequest)
    /\ UNCHANGED <<clock, cookies>>

RotateTouches(c) ==
    /\ progress[c].at = "rotate"
    /\ Touch(c)
    /\ Continues(c, [progress[c] EXCEPT !.at = "retire"])
    /\ UNCHANGED <<clock, cookies>>

(* Mutant: whoever retired the old identifier, a new one is minted. *)
RetiresAnyway(c) ==
    /\ progress[c].at = "retire"
    /\ Revoke(progress[c].old)
    /\ Continues(c, [progress[c] EXCEPT !.at = "replace"])
    /\ UNCHANGED <<clock, cookies, crossed>>

Retires(c) ==
    /\ progress[c].at = "retire"
    /\ ~session[progress[c].old].revoked
    /\ Revoke(progress[c].old)
    /\ Continues(c, [progress[c] EXCEPT !.at = "replace"])
    /\ UNCHANGED <<clock, cookies, crossed>>

(* The loser revoked nothing and mints nothing. *)
LosesRotation(c) ==
    /\ progress[c].at = "retire"
    /\ session[progress[c].old].revoked
    /\ Continues(c, NoRequest)
    /\ UNCHANGED <<session, clock, cookies, crossed>>

(* The replacement is a row like any other, created at the call's instant. *)
Replaces(c) ==
    /\ progress[c].at = "replace"
    /\ Len(session) < MaxSessions
    /\ Create(c, progress[c].now, session[progress[c].old].origin)
    /\ UNCHANGED <<clock, cookies>>

------------------------------------------------------------------------------
(* The answer, and the calls of one statement *)

Answers(c) ==
    /\ progress[c].at = "answer"
    /\ cookies' = cookies \cup {progress[c].fresh}
    /\ Continues(c, NoRequest)
    /\ crossed' = crossed \ {c}
    /\ UNCHANGED <<session, clock>>

Abandons(c) ==
    /\ progress[c].at # "idle"
    /\ Continues(c, NoRequest)
    /\ crossed' = crossed \ {c}
    /\ UNCHANGED <<session, clock, cookies>>

LogsOut(i) ==
    /\ i \in cookies
    /\ Revoke(i)
    /\ UNCHANGED <<clock, progress, cookies, crossed>>

(* revoke_all_for *)
LogsOutEverywhere ==
    /\ session' = [i \in Rows |-> [session[i] EXCEPT !.revoked = TRUE]]
    /\ UNCHANGED <<clock, progress, cookies, crossed>>

TimePasses ==
    /\ clock < LastInstant
    /\ clock' = clock + 1
    /\ UNCHANGED <<session, progress, cookies, crossed>>

SessionsNext ==
    \/ \E c \in Callers :
          \/ BeginsBare(c) \/ RetiresPresented(c) \/ CreatesSignIn(c)
          \/ FindsNoneLive(c) \/ Authenticates(c) \/ RotateTouches(c)
          \/ Retires(c) \/ LosesRotation(c) \/ Replaces(c)
          \/ Answers(c) \/ Abandons(c)
          \/ \E S \in SUBSET Rows : ListsStalest(c, S)
          \/ \E i \in Rows : BeginsHolding(c, i) \/ Evicts(c, i) \/ SendsCookie(c, i)
    \/ \E i \in Rows : LogsOut(i)
    \/ LogsOutEverywhere
    \/ TimePasses

SessionsSpec == SessionsInit /\ [][SessionsNext]_sessionVars

------------------------------------------------------------------------------
(* Properties *)

(* However many rotations of a sign-in race, fail or are abandoned, one of *)
(* the sessions that go back to it works at a time (session.rs:487).       *)
OneLivePerSignIn ==
    \A i, j \in Rows :
        ~session[i].revoked /\ ~session[j].revoked /\ session[i].origin = session[j].origin
            => i = j

(* A sign-in leaves the subject within the policy (session.rs:394), unless *)
(* since it listed the live sessions another request created one, or sent  *)
(* so late a touch that it brought back one that the list counted as dead: *)
(* its UPDATE tests the row at an instant read before the sign-in's        *)
(* (routes.rs:446).                                                        *)
SignInKeepsBound ==
    \A c \in Callers \ crossed :
        progress[c].at = "answer" /\ session[progress[c].fresh].origin = progress[c].fresh
            => Cardinality({i \in Rows : Live(session[i], clock)}) <= Concurrent

(* "a reauthentication overall timeout SHALL be established ... a          *)
(* deployment cannot fail to establish one" (session.rs:31-36).            *)
SignInsEnd ==
    \A i \in Rows :
        Live(session[i], clock) => session[session[i].origin].created > clock - Absolute
==============================================================================

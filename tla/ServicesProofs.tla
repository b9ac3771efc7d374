--------------------------- MODULE ServicesProofs ---------------------------
(***************************************************************************)
(* Proofs about the services over a database and the commands over a       *)
(* directory.  They share no state; a section each.                        *)
(***************************************************************************)
EXTENDS Sessions, MigrationRun, Accounts, MemoryCache, ObjectFiles, NewProject,
        AbuseWindow, GenerateCommit,
        SequenceTheorems, WellFoundedInduction, FiniteSetTheorems, TLAPS

-----------------------------------------------------------------------------
(* A proof that a sign-in has one working session, for any number of       *)
(* callers and any policy.  A rotation that has retired the old session    *)
(* leaves its sign-in with none (Cleared), and is the only one to have     *)
(* done so (Alone): a loser's UPDATE finds the row revoked.                *)

USE SessionsAssumption

Moments == Nat
Numbers == Nat \ {0}

SessionRow == [created : Moments, last_seen : Moments, revoked : BOOLEAN, origin : Numbers]

(* Where a caller has a session in its hands. *)
Holding == {"presented", "authenticate", "rotate", "retire", "replace"}

Request ==
    [at : {"idle"}]
    \cup [at : {"list"}, now : Moments]
    \cup [at : {"evict"}, now : Moments, stale : SUBSET Numbers]
    \cup [at : Holding, now : Moments, old : Numbers]
    \cup [at : {"answer"}, now : Moments, fresh : Numbers]

SessionsTypeOK ==
    /\ session \in Seq(SessionRow) /\ clock \in Moments
    /\ progress \in [Callers -> Request]

(* What a caller or a client names is a row, and a row's origin is one no  *)
(* later than itself.                                                      *)
Named ==
    /\ cookies \subseteq Rows
    /\ \A i \in Rows : session[i].origin <= i
    /\ \A c \in Callers :
          /\ progress[c].at \in Holding => progress[c].old \in Rows
          /\ progress[c].at = "answer" => progress[c].fresh \in Rows

Replacing(c) == progress[c].at = "replace"
OriginOf(c) == session[progress[c].old].origin

Cleared ==
    \A c \in Callers : Replacing(c) =>
        \A i \in Rows : session[i].origin = OriginOf(c) => session[i].revoked

Alone ==
    \A c, d \in Callers :
        Replacing(c) /\ Replacing(d) /\ OriginOf(c) = OriginOf(d) => c = d

SessionsInv == SessionsTypeOK /\ Named /\ Cleared /\ Alone /\ OneLivePerSignIn

LEMMA InitSessions == SessionsInit => SessionsInv
<1> SUFFICES ASSUME SessionsInit PROVE SessionsInv
  OBVIOUS
<1>1. Rows = {} /\ session \in Seq(SessionRow)
  BY DEF SessionsInit, Rows
<1>2. \A c \in Callers : progress[c] = NoRequest
  BY DEF SessionsInit
<1>3. QED
  BY <1>1, <1>2 DEF SessionsInit, SessionsInv, SessionsTypeOK, Named, Cleared, Alone, Replacing,
     OneLivePerSignIn, NoRequest, Request, Holding, Moments

(* Rows are neither added nor brought back, and none changes its origin. *)
Settles ==
    /\ Rows' = Rows
    /\ \A i \in Rows :
          session'[i].origin = session[i].origin /\ (session[i].revoked => session'[i].revoked)

(* One row is rewritten. *)
LEMMA Rewriting ==
  ASSUME SessionsTypeOK, NEW i \in Rows, NEW row \in SessionRow,
         session' = [session EXCEPT ![i] = row],
         row.origin = session[i].origin, session[i].revoked => row.revoked
  PROVE  Settles /\ session' \in Seq(SessionRow) /\ session'[i] = row
<1>1. session \in Seq(SessionRow) /\ i \in 1 .. Len(session)
  BY DEF SessionsTypeOK, Rows
<1>2. /\ session' \in Seq(SessionRow) /\ Len(session') = Len(session)
      /\ \A j \in 1 .. Len(session) : session'[j] = IF j = i THEN row ELSE session[j]
  BY <1>1, ExceptSeq
<1>3. QED
  BY <1>1, <1>2 DEF Settles, Rows

LEMMA Revoking ==
  ASSUME SessionsTypeOK, NEW i \in Rows, Revoke(i)
  PROVE  Settles /\ session' \in Seq(SessionRow) /\ session'[i].revoked
<1> DEFINE row == [session[i] EXCEPT !.revoked = TRUE]
<1>1. session[i] \in SessionRow
  BY DEF SessionsTypeOK, Rows
<1>2. row \in SessionRow /\ row.origin = session[i].origin /\ row.revoked
  BY <1>1 DEF SessionRow
<1>3. session' = [session EXCEPT ![i] = row]
  BY DEF Revoke
<1>4. QED
  BY <1>2, <1>3, Rewriting

LEMMA Touching ==
  ASSUME SessionsInv, NEW c \in Callers, progress[c].at \in Holding, Touch(c)
  PROVE  Settles /\ session' \in Seq(SessionRow)
<1>1. PICK i \in Rows, now \in Moments : i = progress[c].old /\ now = progress[c].now
  BY DEF SessionsInv, SessionsTypeOK, Named, Request, Holding
<1>2. PICK old \in SessionRow : old = session[i]
  BY DEF SessionsInv, SessionsTypeOK, Rows
<1>3. PICK row : row = [old EXCEPT !.last_seen = now]
  OBVIOUS
<1>4. row \in SessionRow /\ row.origin = old.origin /\ row.revoked = old.revoked
  BY <1>3 DEF SessionRow
<1>5. session' = [session EXCEPT ![i] = row]
  BY <1>1, <1>2, <1>3 DEF Touch
<1>6. QED
  BY <1>2, <1>4, <1>5, Rewriting DEF SessionsInv

LEMMA RevokingAll ==
  ASSUME SessionsTypeOK, LogsOutEverywhere
  PROVE  Settles /\ session' \in Seq(SessionRow)
<1>1. session \in Seq(SessionRow) /\ Len(session) \in Nat
  BY DEF SessionsTypeOK
<1>2. \A i \in Rows : session[i] \in SessionRow
  BY <1>1 DEF Rows
<1>3. session' = [i \in 1 .. Len(session) |-> [session[i] EXCEPT !.revoked = TRUE]]
  BY DEF LogsOutEverywhere, Rows
<1>4. \A i \in Rows :
         /\ session'[i] \in SessionRow
         /\ session'[i].origin = session[i].origin /\ session'[i].revoked
  BY <1>2, <1>3 DEF SessionRow, Rows
<1>5. session' \in [1 .. Len(session) -> SessionRow]
  BY <1>3, <1>4 DEF Rows
<1>6. session' \in Seq(SessionRow) /\ Len(session') = Len(session)
  BY <1>1, <1>5, SeqDef, LenProperties
<1>7. QED
  BY <1>4, <1>6 DEF Settles, Rows

(* Where no row is added and no rotation gets past its retirement, what    *)
(* was so stays so.                                                        *)
LEMMA SettledSteps ==
  ASSUME SessionsInv, Settles,
         \A c \in Callers : progress'[c].at = "replace" => progress'[c] = progress[c]
  PROVE  Cleared' /\ Alone' /\ OneLivePerSignIn'
<1> USE DEF SessionsInv, Settles
<1>1. \A c \in Callers :
         Replacing(c)' => Replacing(c) /\ OriginOf(c)' = OriginOf(c)
  BY DEF Named, Holding, Replacing, OriginOf
<1>2. Cleared'
  BY <1>1 DEF Cleared
<1>3. Alone'
  BY <1>1 DEF Alone
<1>4. OneLivePerSignIn'
  BY DEF OneLivePerSignIn
<1>5. QED
  BY <1>2, <1>3, <1>4

(* A row is added. *)
LEMMA Creating ==
  ASSUME SessionsTypeOK, NEW c \in Callers, NEW now \in Moments, NEW o \in Numbers,
         Create(c, now, o)
  PROVE  /\ session' \in Seq(SessionRow) /\ progress' \in [Callers -> Request]
         /\ Rows' = Rows \cup {Len(session) + 1} /\ Len(session) + 1 \notin Rows
         /\ session'[Len(session) + 1].origin = o
         /\ \A i \in Rows : session'[i] = session[i]
         /\ progress'[c].at = "answer" /\ progress'[c].fresh = Len(session) + 1
         /\ progress'[c].now = now
         /\ \A d \in Callers \ {c} : progress'[d] = progress[d]
<1> DEFINE n == Len(session) + 1
           row == [created |-> now, last_seen |-> now, revoked |-> FALSE, origin |-> o]
<1>1. row \in SessionRow /\ session \in Seq(SessionRow) /\ n \in Numbers
  BY DEF SessionRow, SessionsTypeOK, Numbers
<1>2. session' = Append(session, row)
  BY DEF Create
<1>3. /\ session' \in Seq(SessionRow) /\ Len(session') = n
      /\ \A i \in 1 .. Len(session) : session'[i] = session[i]
      /\ session'[n] = row
  BY <1>1, <1>2
<1>4. progress' = [progress EXCEPT ![c] = [at |-> "answer", now |-> now, fresh |-> n]]
  BY DEF Create, Continues
<1>5. [at |-> "answer", now |-> now, fresh |-> n] \in Request
  BY <1>1 DEF Request
<1>6. QED
  BY <1>1, <1>3, <1>4, <1>5 DEF Rows, SessionsTypeOK

Kept == SessionsTypeOK /\ Named

(* A caller goes on to a request that names only rows. *)
LEMMA Continuing ==
  ASSUME SessionsInv, Settles, session' \in Seq(SessionRow), UNCHANGED clock,
         NEW c \in Callers, NEW r \in Request, Continues(c, r),
         r.at \in Holding => r.old \in Rows,
         r.at = "answer" => r.fresh \in Rows,
         cookies' \subseteq Rows
  PROVE  Kept'
<1> USE DEF SessionsInv
<1>1. progress' \in [Callers -> Request]
  BY DEF SessionsTypeOK, Continues
<1>2. \A d \in Callers : progress'[d] = IF d = c THEN r ELSE progress[d]
  BY DEF SessionsTypeOK, Continues
<1>3. SessionsTypeOK'
  BY <1>1 DEF SessionsTypeOK
<1>4. Named'
  BY <1>2 DEF Named, Settles
<1>5. QED
  BY <1>3, <1>4 DEF Kept

(* The new row is what its maker answers with. *)
LEMMA CreatingKeeps ==
  ASSUME SessionsInv, NEW c \in Callers, NEW now \in Moments, NEW o \in Numbers,
         o <= Len(session) + 1, Create(c, now, o), UNCHANGED <<clock, cookies>>
  PROVE  Kept'
<1> DEFINE n == Len(session) + 1
<1>1. /\ session' \in Seq(SessionRow) /\ progress' \in [Callers -> Request]
      /\ Rows' = Rows \cup {n} /\ n \notin Rows
      /\ session'[n].origin = o
      /\ \A i \in Rows : session'[i] = session[i]
      /\ progress'[c].at = "answer" /\ progress'[c].fresh = n
      /\ \A d \in Callers \ {c} : progress'[d] = progress[d]
  BY Creating DEF SessionsInv
<1>2. SessionsTypeOK'
  BY <1>1 DEF SessionsInv, SessionsTypeOK
<1>3. Named'
  BY <1>1 DEF SessionsInv, Named, Holding
<1>4. QED
  BY <1>2, <1>3 DEF Kept

(* The new row is alone with its origin. *)
LEMMA CreatingUnique ==
  ASSUME SessionsInv, NEW c \in Callers, NEW now \in Moments, NEW o \in Numbers,
         Create(c, now, o),
         \A i \in Rows : session[i].origin = o => session[i].revoked,
         \A d \in Callers \ {c} : Replacing(d) => OriginOf(d) # o
  PROVE  Cleared' /\ Alone' /\ OneLivePerSignIn'
<1> DEFINE n == Len(session) + 1
<1>1. /\ Rows' = Rows \cup {n} /\ n \notin Rows
      /\ session'[n].origin = o
      /\ \A i \in Rows : session'[i] = session[i]
      /\ progress'[c].at = "answer"
      /\ \A d \in Callers \ {c} : progress'[d] = progress[d]
  BY Creating DEF SessionsInv
<1>2. \A d \in Callers :
         Replacing(d)' => d # c /\ Replacing(d) /\ OriginOf(d)' = OriginOf(d)
  BY <1>1 DEF SessionsInv, Named, Holding, Replacing, OriginOf
<1>3. Cleared'
  BY <1>1, <1>2 DEF SessionsInv, Cleared
<1>4. Alone'
  BY <1>2 DEF SessionsInv, Alone
<1>5. OneLivePerSignIn'
  BY <1>1 DEF SessionsInv, OneLivePerSignIn
<1>6. QED
  BY <1>3, <1>4, <1>5

(* The winner of the retirement, and the only one. *)
LEMMA StepRetires ==
  ASSUME SessionsInv, NEW c \in Callers, Retires(c)
  PROVE  SessionsInv'
<1> USE DEF SessionsInv
<1> DEFINE o == progress[c].old
           r == [progress[c] EXCEPT !.at = "replace"]
<1>1. o \in Rows /\ ~session[o].revoked
  BY DEF Named, Retires, Holding
<1>2. progress[c] \in [at : {"retire"}, now : Moments, old : Numbers]
  BY DEF SessionsTypeOK, Request, Retires, Holding
<1>3. r \in Request /\ r.at = "replace" /\ r.old = o
  BY <1>2 DEF Request, Holding
<1>4. Settles /\ session' \in Seq(SessionRow) /\ session'[o].revoked
  BY <1>1, Revoking DEF Retires
<1>5. Kept'
  BY <1>1, <1>3, <1>4, Continuing DEF Retires, Named
<1>6. progress'[c] = r /\ \A d \in Callers \ {c} : progress'[d] = progress[d]
  BY DEF SessionsTypeOK, Retires, Continues
<1>7. OriginOf(c)' = session[o].origin
  BY <1>1, <1>3, <1>4, <1>6 DEF OriginOf, Settles
<1>8. \A d \in Callers \ {c} :
         Replacing(d)' => Replacing(d) /\ OriginOf(d)' = OriginOf(d)
  BY <1>4, <1>6 DEF Named, Holding, Replacing, OriginOf, Settles
<1>9. \A d \in Callers \ {c} : Replacing(d) => OriginOf(d) # session[o].origin
  BY <1>1 DEF Cleared
<1>10. Cleared'
  <2>1. ASSUME NEW d \in Callers, Replacing(d)', NEW i \in Rows', session'[i].origin = OriginOf(d)'
        PROVE  session'[i].revoked
    <3>1. i \in Rows /\ session'[i].origin = session[i].origin
      BY <1>4, <2>1 DEF Settles
    <3>2. CASE d = c
      <4>1. session[i].origin = session[o].origin
        BY <1>7, <2>1, <3>1, <3>2
      <4>2. session[i].revoked \/ i = o
        BY <1>1, <3>1, <4>1 DEF OneLivePerSignIn
      <4>3. QED
        BY <1>4, <3>1, <4>2 DEF Settles
    <3>3. CASE d # c
      BY <1>4, <1>8, <2>1, <3>1, <3>3 DEF Cleared, Settles
    <3>4. QED
      BY <3>2, <3>3
  <2>2. QED
    BY <2>1 DEF Cleared
<1>11. Alone'
  BY <1>7, <1>8, <1>9 DEF Alone
<1>12. OneLivePerSignIn'
  BY <1>4 DEF OneLivePerSignIn, Settles
<1>13. QED
  BY <1>5, <1>10, <1>11, <1>12 DEF Kept

(* Steps after which no other rotation is past its retirement. *)
LEMMA StepSettled ==
  ASSUME SessionsInv, Settles, Kept',
         NEW c \in Callers, NEW r, Continues(c, r), r.at # "replace"
  PROVE  SessionsInv'
<1>1. \A d \in Callers : progress'[d] = IF d = c THEN r ELSE progress[d]
  BY DEF SessionsInv, SessionsTypeOK, Continues
<1>2. Cleared' /\ Alone' /\ OneLivePerSignIn'
  BY <1>1, SettledSteps
<1>3. QED
  BY <1>2 DEF SessionsInv, Kept

LEMMA StepSessions == SessionsInv /\ [SessionsNext]_sessionVars => SessionsInv'
<1> SUFFICES ASSUME SessionsInv, [SessionsNext]_sessionVars PROVE SessionsInv'
  OBVIOUS
<1>0. SessionsTypeOK /\ Named
  BY DEF SessionsInv
<1>s. ASSUME UNCHANGED session PROVE Settles /\ session' \in Seq(SessionRow)
  BY <1>s, <1>0 DEF Settles, Rows, SessionsTypeOK
<1>1. ASSUME NEW c \in Callers, BeginsBare(c) \/ RetiresPresented(c) PROVE SessionsInv'
  <2>1. PICK r \in Request : r.at = "list" /\ Continues(c, r)
    <3>1. CASE BeginsBare(c)
      <4>1. [at |-> "list", now |-> clock] \in Request
        BY <1>0 DEF Request, SessionsTypeOK
      <4>2. QED
        BY <3>1, <4>1 DEF BeginsBare
    <3>2. CASE RetiresPresented(c)
      <4>1. [at |-> "list", now |-> progress[c].now] \in Request
        BY <1>0, <3>2 DEF RetiresPresented, Request, SessionsTypeOK, Holding
      <4>2. QED
        BY <3>2, <4>1 DEF RetiresPresented
    <3>3. QED
      BY <1>1, <3>1, <3>2
  <2>2. Settles /\ session' \in Seq(SessionRow)
    BY <1>0, <1>1, <1>s, Revoking DEF BeginsBare, RetiresPresented, Named, Holding
  <2>3. UNCHANGED <<clock, cookies>>
    BY <1>1 DEF BeginsBare, RetiresPresented
  <2>4. Kept'
    BY <1>0, <2>1, <2>2, <2>3, Continuing DEF Named, Holding
  <2>5. QED
    BY <2>1, <2>2, <2>4, StepSettled
<1>2. ASSUME NEW c \in Callers, NEW S \in SUBSET Rows, ListsStalest(c, S) PROVE SessionsInv'
  <2> DEFINE r == [at |-> "evict", now |-> progress[c].now, stale |-> S]
  <2>1. progress[c].now \in Moments /\ Rows \in SUBSET Numbers
    BY <1>0, <1>2 DEF ListsStalest, Request, SessionsTypeOK, Rows, Numbers
  <2>2. r \in Request
    BY <2>1 DEF Request
  <2>3. Settles /\ session' \in Seq(SessionRow)
    BY <1>2, <1>s DEF ListsStalest
  <2>4. Kept'
    BY <1>0, <1>2, <2>2, <2>3, Continuing DEF ListsStalest, Named, Holding
  <2>5. QED
    BY <1>2, <2>3, <2>4, StepSettled DEF ListsStalest
<1>3. ASSUME NEW c \in Callers, NEW i \in Rows, Evicts(c, i) PROVE SessionsInv'
  <2> DEFINE r == [progress[c] EXCEPT !.stale = @ \ {i}]
  <2>1. progress[c] \in [at : {"evict"}, now : Moments, stale : SUBSET Numbers]
    BY <1>0, <1>3 DEF Evicts, Request, SessionsTypeOK, Holding
  <2>2. r \in Request /\ r.at = "evict"
    BY <2>1 DEF Request
  <2>3. Settles /\ session' \in Seq(SessionRow)
    BY <1>0, <1>3, Revoking DEF Evicts
  <2>4. Kept'
    BY <1>0, <1>3, <2>2, <2>3, Continuing DEF Evicts, Named, Holding
  <2>5. QED
    BY <1>3, <2>2, <2>3, <2>4, StepSettled DEF Evicts
<1>4. ASSUME NEW c \in Callers, CreatesSignIn(c) PROVE SessionsInv'
  <2>1. progress[c].now \in Moments
    BY <1>0, <1>4 DEF CreatesSignIn, Request, SessionsTypeOK
  <2>2. Len(session) + 1 \in Numbers
    BY <1>0 DEF SessionsTypeOK, Numbers
  <2>3. Kept'
    BY <1>4, <2>1, <2>2, CreatingKeeps DEF CreatesSignIn
  <2>4. \A i \in Rows : session[i].origin # Len(session) + 1
    BY <1>0 DEF Named, Rows, SessionsTypeOK, SessionRow, Numbers
  <2>5. \A d \in Callers : Replacing(d) => OriginOf(d) # Len(session) + 1
    BY <1>0, <2>4 DEF Named, Holding, Replacing, OriginOf
  <2>6. Cleared' /\ Alone' /\ OneLivePerSignIn'
    BY <1>4, <2>1, <2>2, <2>4, <2>5, CreatingUnique DEF CreatesSignIn
  <2>7. QED
    BY <2>3, <2>6 DEF SessionsInv, Kept
<1>5. ASSUME NEW c \in Callers, RotateTouches(c) \/ \E i \in Rows : BeginsHolding(c, i) \/ SendsCookie(c, i)
      PROVE  SessionsInv'
  <2>1. PICK r \in Request : r.at \in Holding \ {"replace"} /\ r.old \in Rows /\ Continues(c, r)
    <3>1. CASE RotateTouches(c)
      <4>1. PICK q \in [at : {"rotate"}, now : Moments, old : Numbers] : q = progress[c] /\ q.old \in Rows
        BY <1>0, <3>1 DEF RotateTouches, Request, SessionsTypeOK, Named, Holding
      <4>2. PICK r : r = [q EXCEPT !.at = "retire"]
        OBVIOUS
      <4>3. r \in Request /\ r.at = "retire" /\ r.old = q.old
        BY <4>2 DEF Request, Holding
      <4>4. QED
        BY <3>1, <4>1, <4>2, <4>3 DEF RotateTouches, Holding
    <3>2. ASSUME NEW i \in Rows, BeginsHolding(c, i) \/ SendsCookie(c, i)
          PROVE  \E r \in Request : r.at \in Holding \ {"replace"} /\ r.old \in Rows /\ Continues(c, r)
      <4>1. PICK then \in {"presented", "authenticate", "rotate"} :
               Continues(c, [at |-> then, now |-> clock, old |-> i])
        BY <3>2 DEF BeginsHolding, SendsCookie
      <4>2. [at |-> then, now |-> clock, old |-> i] \in Request
        BY <1>0 DEF Request, SessionsTypeOK, Rows, Numbers, Holding
      <4>3. QED
        BY <4>1, <4>2 DEF Holding
    <3>3. QED
      BY <1>5, <3>1, <3>2
  <2>2. Settles /\ session' \in Seq(SessionRow)
    BY <1>5, <1>s, Touching DEF RotateTouches, BeginsHolding, SendsCookie, Holding
  <2>3. UNCHANGED <<clock, cookies>>
    BY <1>5 DEF RotateTouches, BeginsHolding, SendsCookie
  <2>4. Kept'
    BY <1>0, <2>1, <2>2, <2>3, Continuing DEF Named, Holding
  <2>5. QED
    BY <2>1, <2>2, <2>4, StepSettled
<1>6. ASSUME NEW c \in Callers, \/ LosesRotation(c) \/ Abandons(c) \/ Answers(c)
                                 \/ FindsNoneLive(c) \/ Authenticates(c)
      PROVE  SessionsInv'
  <2>1. NoRequest \in Request
    BY DEF NoRequest, Request
  <2>2. Settles /\ session' \in Seq(SessionRow)
    BY <1>6, <1>s, Touching
    DEF LosesRotation, Abandons, Answers, FindsNoneLive, Authenticates, Holding
  <2>3. cookies' \subseteq Rows
    BY <1>0, <1>6
    DEF LosesRotation, Abandons, Answers, FindsNoneLive, Authenticates, Named
  <2>4. Continues(c, NoRequest) /\ UNCHANGED clock
    BY <1>6 DEF LosesRotation, Abandons, Answers, FindsNoneLive, Authenticates
  <2>5. Kept'
    BY <2>1, <2>2, <2>3, <2>4, Continuing DEF NoRequest, Holding
  <2>6. QED
    BY <2>2, <2>4, <2>5, StepSettled DEF NoRequest
<1>7. ASSUME NEW c \in Callers, Replaces(c) PROVE SessionsInv'
  <2> DEFINE o == session[progress[c].old].origin
  <2>1. progress[c].now \in Moments /\ progress[c].old \in Rows
    BY <1>0, <1>7 DEF Replaces, Request, SessionsTypeOK, Named, Holding
  <2>2. o \in Numbers /\ o <= Len(session) + 1
    <3>1. session[progress[c].old] \in SessionRow
      BY <1>0, <2>1 DEF SessionsTypeOK, Rows
    <3>2. o \in Numbers /\ o <= progress[c].old
      BY <1>0, <2>1, <3>1 DEF SessionRow, Named
    <3>3. progress[c].old \in 1 .. Len(session) /\ Len(session) \in Nat
      BY <1>0, <2>1 DEF SessionsTypeOK, Rows
    <3>4. QED
      BY <3>2, <3>3 DEF Numbers
  <2>3. Kept'
    BY <1>7, <2>1, <2>2, CreatingKeeps DEF Replaces
  <2>4. \A i \in Rows : session[i].origin = o => session[i].revoked
    BY <1>7 DEF SessionsInv, Cleared, Replaces, Replacing, OriginOf
  <2>5. \A d \in Callers \ {c} : Replacing(d) => OriginOf(d) # o
    BY <1>7 DEF SessionsInv, Alone, Replaces, Replacing, OriginOf
  <2>6. Cleared' /\ Alone' /\ OneLivePerSignIn'
    BY <1>7, <2>1, <2>2, <2>4, <2>5, CreatingUnique DEF Replaces
  <2>7. QED
    BY <2>3, <2>6 DEF SessionsInv, Kept
<1>8. CASE UNCHANGED progress /\ (LogsOutEverywhere \/ TimePasses \/ UNCHANGED sessionVars
           \/ \E i \in Rows : LogsOut(i))
  <2>1. Settles /\ session' \in Seq(SessionRow)
    BY <1>0, <1>8, <1>s, Revoking, RevokingAll
    DEF LogsOut, TimePasses, sessionVars, SessionsTypeOK
  <2>2. clock' \in Moments /\ cookies' = cookies
    BY <1>0, <1>8 DEF LogsOut, LogsOutEverywhere, TimePasses, sessionVars,
       SessionsTypeOK, Moments
  <2>3. SessionsTypeOK' /\ Named'
    BY <1>0, <1>8, <2>1, <2>2 DEF SessionsTypeOK, Named, Settles
  <2>4. Cleared' /\ Alone' /\ OneLivePerSignIn'
    BY <1>8, <2>1, SettledSteps
  <2>5. QED
    BY <2>3, <2>4 DEF SessionsInv
<1>9. QED
  BY <1>1, <1>2, <1>3, <1>4, <1>5, <1>6, <1>7, <1>8, StepRetires
  DEF SessionsNext, LogsOut, LogsOutEverywhere, TimePasses, sessionVars

(* However rotations of one sign-in race, fail or are abandoned, and       *)
(* whatever sign-ins and logouts happen between, one of its sessions works *)
(* at a time (session.rs, rotate).                                         *)
THEOREM SignInHasOneSession == SessionsSpec => []OneLivePerSignIn
<1>1. SessionsInv => OneLivePerSignIn
  BY DEF SessionsInv
<1>2. QED
  BY <1>1, InitSessions, StepSessions, PTL DEF SessionsSpec

(* Who signs in has counted the sessions that live at its instant, left out*)
(* the stalest and adds one.  Until somebody else adds one too, or a touch *)
(* that carries an earlier instant brings one back, none comes to life at  *)
(* that instant.                                                           *)

Alive(now) == {i \in Rows : Live(session[i], now)}

FitsFor(r) ==
    /\ r.at = "evict" => Cardinality(Alive(r.now) \ r.stale) <= Concurrent - 1
    /\ r.at = "answer" /\ session[r.fresh].origin = r.fresh =>
          Cardinality(Alive(r.now)) <= Concurrent

Fits == \A c \in Callers \ crossed : FitsFor(progress[c])

Timed == Holding \cup {"list", "evict", "answer"}
Past == \A c \in Callers : progress[c].at \in Timed => progress[c].now <= clock

BoundInv == SessionsInv /\ Past /\ Fits

LEMMA SmallerSet ==
  ASSUME NEW S, NEW T, S \subseteq T, T \subseteq Rows, SessionsTypeOK,
         NEW n \in Int, Cardinality(T) <= n
  PROVE  IsFiniteSet(S) /\ Cardinality(S) \in Nat /\ Cardinality(S) <= n
<1>1. IsFiniteSet(Rows)
  BY FS_Interval DEF Rows, SessionsTypeOK
<1>2. IsFiniteSet(T)
  BY <1>1, FS_Subset
<1>3. IsFiniteSet(S) /\ Cardinality(S) <= Cardinality(T)
  BY <1>2, FS_Subset
<1>4. Cardinality(S) \in Nat /\ Cardinality(T) \in Nat
  BY <1>2, <1>3, FS_CardinalityType
<1>5. QED
  BY <1>3, <1>4

(* No row lives, at the instant of a request that has listed them, but one *)
(* that did.                                                               *)
FadesFor(r) ==
    r.at \in {"evict", "answer"} =>
       \A i \in Rows : Live(session'[i], r.now) => Live(session[i], r.now)

LEMMA FitsStay ==
  ASSUME SessionsTypeOK, Settles, NEW r \in Request, FadesFor(r),
         r.at = "answer" => r.fresh \in Rows, FitsFor(r)
  PROVE  FitsFor(r)'
<1>1. ASSUME r.at = "evict" PROVE Cardinality(Alive(r.now) \ r.stale)' <= Concurrent - 1
  <2>1. PICK now, stale : now = r.now /\ stale = r.stale
    OBVIOUS
  <2>2. Alive(now)' \ stale \subseteq Alive(now) \ stale
    BY <1>1, <2>1 DEF Alive, FadesFor, Settles
  <2>3. Alive(now) \ stale \subseteq Rows /\ Concurrent - 1 \in Int
    BY DEF Alive
  <2>4. Cardinality(Alive(now) \ stale) <= Concurrent - 1
    BY <1>1, <2>1 DEF FitsFor
  <2>5. Cardinality(Alive(now)' \ stale) <= Concurrent - 1
    BY <2>2, <2>3, <2>4, SmallerSet
  <2>6. QED
    BY <2>1, <2>5
<1>2. ASSUME r.at = "answer", session'[r.fresh].origin = r.fresh
      PROVE  Cardinality(Alive(r.now))' <= Concurrent
  <2>1. PICK now : now = r.now
    OBVIOUS
  <2>2. Cardinality(Alive(now)) <= Concurrent
    BY <1>2, <2>1 DEF FitsFor, Settles
  <2>3. Alive(now)' \subseteq Alive(now)
    BY <1>2, <2>1 DEF Alive, FadesFor, Settles
  <2>4. Alive(now) \subseteq Rows /\ Concurrent \in Int
    BY DEF Alive
  <2>5. Cardinality(Alive(now)') <= Concurrent
    BY <2>2, <2>3, <2>4, SmallerSet
  <2>6. QED
    BY <2>1, <2>5
<1>3. QED
  BY <1>1, <1>2 DEF FitsFor

LEMMA RewrittenAt ==
  ASSUME SessionsTypeOK, NEW i \in Rows, NEW row \in SessionRow,
         session' = [session EXCEPT ![i] = row]
  PROVE  \A j \in Rows : session'[j] = IF j = i THEN row ELSE session[j]
<1>1. session \in Seq(SessionRow) /\ i \in 1 .. Len(session)
  BY DEF SessionsTypeOK, Rows
<1>2. QED
  BY <1>1, ExceptSeq DEF Rows

LEMMA RevokingFades ==
  ASSUME SessionsTypeOK, NEW i \in Rows, Revoke(i)
  PROVE  /\ \A r : FadesFor(r)
         /\ \A now : Alive(now)' = Alive(now) \ {i}
<1> DEFINE row == [session[i] EXCEPT !.revoked = TRUE]
<1>1. session[i] \in SessionRow
  BY DEF SessionsTypeOK, Rows
<1>2. row \in SessionRow /\ row.revoked = TRUE
  BY <1>1 DEF SessionRow
<1>3. session' = [session EXCEPT ![i] = row]
  BY DEF Revoke
<1>4. \A j \in Rows : session'[j] = IF j = i THEN row ELSE session[j]
  BY <1>2, <1>3, RewrittenAt
<1>5. \A now : ~Live(row, now)
  BY <1>2 DEF Live
<1>6. Rows' = Rows
  BY Revoking DEF Settles
<1>7. QED
  BY <1>4, <1>5, <1>6 DEF FadesFor, Alive

(* Whoever counted the touched row as dead and finds it alive is crossed. *)
LEMMA TouchingFades ==
  ASSUME SessionsInv, NEW c \in Callers, progress[c].at \in Holding, Touch(c)
  PROVE  crossed \subseteq crossed' /\ \A d \in Callers \ crossed' : FadesFor(progress[d])
<1>1. PICK i \in Rows, now \in Moments : i = progress[c].old /\ now = progress[c].now
  BY DEF SessionsInv, SessionsTypeOK, Named, Request, Holding
<1>2. PICK old \in SessionRow : old = session[i]
  BY DEF SessionsInv, SessionsTypeOK, Rows
<1>3. PICK row : row = [old EXCEPT !.last_seen = now]
  OBVIOUS
<1>4. row \in SessionRow
  BY <1>3 DEF SessionRow
<1>5. \A j \in Rows : session'[j] = IF j = i THEN row ELSE session[j]
  BY <1>1, <1>2, <1>3, <1>4, RewrittenAt DEF Touch, SessionsInv
<1>6. crossed' = crossed \cup CountedDead(i, now)
  BY <1>1 DEF Touch
<1>7. ASSUME NEW d \in Callers \ crossed', progress[d].at \in {"evict", "answer"},
             Live(row, progress[d].now)
      PROVE  Live(old, progress[d].now)
  BY <1>2, <1>3, <1>6, <1>7 DEF CountedDead, HasListed
<1>8. QED
  BY <1>2, <1>5, <1>6, <1>7 DEF FadesFor

LEMMA RevokingAllFades == SessionsTypeOK /\ LogsOutEverywhere => \A r : FadesFor(r)
<1> SUFFICES ASSUME SessionsTypeOK, LogsOutEverywhere PROVE \A r : FadesFor(r)
  OBVIOUS
<1>1. \A i \in Rows : session[i] \in SessionRow
  BY DEF SessionsTypeOK, Rows
<1>2. \A i \in Rows : session'[i].revoked = TRUE
  BY <1>1 DEF LogsOutEverywhere, SessionRow
<1>3. QED
  BY <1>2 DEF FadesFor, Live

(* One caller's step: its next request, and rows that only fade.           *)
LEMMA OneCaller ==
  ASSUME SessionsInv, Past, Fits, Settles, session' \in Seq(SessionRow), UNCHANGED clock,
         NEW c \in Callers, NEW r \in Request, Continues(c, r),
         r.at \in Timed => r.now <= clock, c \notin crossed' => FitsFor(r)',
         crossed \ {c} \subseteq crossed',
         \A d \in Callers \ crossed' : FadesFor(progress[d])
  PROVE  Past' /\ Fits'
<1>1. /\ progress'[c] = r /\ \A d \in Callers \ {c} : progress'[d] = progress[d]
  BY DEF SessionsInv, SessionsTypeOK, Continues
<1>2. Past'
  BY <1>1 DEF Past
<1>3. ASSUME NEW d \in Callers \ crossed' PROVE FitsFor(progress[d])'
  <2>1. CASE d = c
    BY <1>1, <1>3, <2>1 DEF FitsFor
  <2>2. CASE d # c
    <3>1. PICK q \in Request : q = progress[d] /\ q = progress'[d]
      BY <1>1, <2>2 DEF SessionsInv, SessionsTypeOK
    <3>2. FitsFor(q) /\ FadesFor(q)
      BY <1>3, <2>2, <3>1 DEF Fits
    <3>3. SessionsTypeOK /\ (q.at = "answer" => q.fresh \in Rows)
      BY <3>1 DEF SessionsInv, Named
    <3>4. FitsFor(q)'
      BY <3>2, <3>3, FitsStay
    <3>5. QED
      BY <3>1, <3>4 DEF FitsFor
  <2>3. QED
    BY <2>1, <2>2
<1>4. QED
  BY <1>2, <1>3 DEF Fits

(* The new row is the one its maker's list left room for.                  *)
LEMMA CreatingFits ==
  ASSUME SessionsInv, Past, Fits, NEW c \in Callers, NEW now \in Moments, NEW o \in Numbers,
         Create(c, now, o), UNCHANGED clock, now <= clock,
         (o = Len(session) + 1) /\ c \notin crossed => Cardinality(Alive(now)) <= Concurrent - 1
  PROVE  Past' /\ Fits'
<1> DEFINE n == Len(session) + 1
<1>0. SessionsTypeOK
  BY DEF SessionsInv
<1>1. /\ session' \in Seq(SessionRow) /\ Rows' = Rows \cup {n} /\ n \notin Rows
      /\ session'[n].origin = o
      /\ \A i \in Rows : session'[i] = session[i]
      /\ progress'[c].at = "answer" /\ progress'[c].fresh = n /\ progress'[c].now = now
      /\ \A d \in Callers \ {c} : progress'[d] = progress[d]
  BY <1>0, Creating
<1>2. Past'
  BY <1>1 DEF Past, Timed
<1>3. ASSUME NEW d \in Callers \ crossed' PROVE FitsFor(progress[d])'
  <2>1. CASE d = c
    <3>1. c \notin crossed
      BY <1>3, <2>1 DEF Create
    <3>2. ASSUME o = n PROVE Cardinality(Alive(now))' <= Concurrent
      <4>1. Alive(now)' \subseteq Alive(now) \cup {n}
        BY <1>1 DEF Alive
      <4>2. Cardinality(Alive(now)) <= Concurrent - 1 /\ Alive(now) \subseteq Rows
        BY <3>1, <3>2 DEF Alive
      <4>3. IsFiniteSet(Alive(now)) /\ Cardinality(Alive(now)) \in Nat
        BY <1>0, <4>2, SmallerSet
      <4>4. n \notin Alive(now)
        BY <1>1, <4>2
      <4>5. /\ IsFiniteSet(Alive(now) \cup {n})
            /\ Cardinality(Alive(now) \cup {n}) = Cardinality(Alive(now)) + 1
        BY <4>3, <4>4, FS_AddElement
      <4>6. /\ Cardinality(Alive(now)') <= Cardinality(Alive(now)) + 1
            /\ Cardinality(Alive(now)') \in Nat
        BY <4>1, <4>5, FS_Subset, FS_CardinalityType
      <4>7. QED
        BY <4>2, <4>3, <4>6
    <3>3. QED
      BY <1>1, <2>1, <3>2 DEF FitsFor
  <2>2. CASE d # c
    <3>1. d \notin HasListed
      BY <1>3, <2>2 DEF Create
    <3>2. progress'[d].at \notin {"evict", "answer"}
      BY <1>1, <2>2, <3>1 DEF HasListed
    <3>3. QED
      BY <3>2 DEF FitsFor
  <2>3. QED
    BY <2>1, <2>2
<1>4. QED
  BY <1>2, <1>3 DEF Fits

LEMMA InitBound == SessionsInit => BoundInv
<1> SUFFICES ASSUME SessionsInit PROVE BoundInv
  OBVIOUS
<1>1. \A c \in Callers : progress[c] = NoRequest
  BY DEF SessionsInit
<1>2. QED
  BY <1>1, InitSessions DEF BoundInv, Past, Fits, FitsFor, NoRequest, Timed, Holding

(* What is left of a list once its stalest have been left out.             *)
LEMMA StalestLeavesRoom ==
  ASSUME SessionsTypeOK, NEW now, NEW S \in Stalest(now)
  PROVE  S \subseteq Rows /\ Cardinality(Alive(now) \ S) <= Concurrent - 1
<1> DEFINE live == Alive(now)
           excess == Cardinality(live) - (Concurrent - 1)
<1>1. S \subseteq live /\ Cardinality(S) = IF excess > 0 THEN excess ELSE 0
  BY DEF Stalest, Alive
<1>2. IsFiniteSet(live)
  <2>1. IsFiniteSet(Rows)
    BY FS_Interval DEF Rows, SessionsTypeOK
  <2>2. QED
    BY <2>1, FS_Subset DEF Alive
<1>3. IsFiniteSet(S) /\ IsFiniteSet(live \ S)
  BY <1>1, <1>2, FS_Subset
<1>4. Cardinality(live \ S) = Cardinality(live) - Cardinality(S)
  <2>1. Cardinality(live \ S) = Cardinality(live) - Cardinality(live \cap S)
    BY <1>2, FS_Difference
  <2>2. live \cap S = S
    BY <1>1
  <2>3. QED
    BY <2>1, <2>2
<1>5. Cardinality(live) \in Nat /\ Cardinality(S) \in Nat
  BY <1>2, <1>3, FS_CardinalityType
<1>6. QED
  BY <1>1, <1>4, <1>5 DEF Alive

LEMMA StepBound == BoundInv /\ [SessionsNext]_sessionVars => BoundInv'
<1> SUFFICES ASSUME BoundInv, [SessionsNext]_sessionVars PROVE BoundInv'
  OBVIOUS
<1>i. SessionsInv' /\ SessionsInv /\ Past /\ Fits /\ SessionsTypeOK /\ Named
  BY StepSessions DEF BoundInv, SessionsInv
<1>s. ASSUME UNCHANGED session
      PROVE  Settles /\ session' \in Seq(SessionRow) /\ \A r : FadesFor(r)
  BY <1>s, <1>i DEF Settles, FadesFor, Rows, SessionsTypeOK
<1>r. ASSUME NEW i \in Rows, Revoke(i)
      PROVE  Settles /\ session' \in Seq(SessionRow) /\ \A r : FadesFor(r)
  BY <1>r, <1>i, Revoking, RevokingFades
<1>t. ASSUME NEW c \in Callers, progress[c].at \in Holding, Touch(c)
      PROVE  /\ Settles /\ session' \in Seq(SessionRow) /\ crossed \subseteq crossed'
             /\ \A d \in Callers \ crossed' : FadesFor(progress[d])
  BY <1>t, <1>i, Touching, TouchingFades
<1>c. clock \in Nat /\ clock \in Moments
  BY <1>i DEF SessionsTypeOK, Moments
<1>1. ASSUME NEW c \in Callers, BeginsBare(c) \/ \E i \in Rows : BeginsHolding(c, i) \/ SendsCookie(c, i)
      PROVE  BoundInv'
  <2>1. PICK r \in Request : r.at \in {"list"} \cup Holding /\ r.now = clock /\ Continues(c, r)
    <3>1. CASE BeginsBare(c)
      <4>1. [at |-> "list", now |-> clock] \in Request
        BY <1>c DEF Request
      <4>2. QED
        BY <3>1, <4>1 DEF BeginsBare
    <3>2. ASSUME NEW i \in Rows, BeginsHolding(c, i) \/ SendsCookie(c, i)
          PROVE  \E r \in Request : r.at \in {"list"} \cup Holding /\ r.now = clock /\ Continues(c, r)
      <4>1. PICK then \in Holding : Continues(c, [at |-> then, now |-> clock, old |-> i])
        BY <3>2 DEF BeginsHolding, SendsCookie, Holding
      <4>2. [at |-> then, now |-> clock, old |-> i] \in Request
        BY <1>i, <1>c DEF Request, SessionsTypeOK, Rows, Numbers
      <4>3. QED
        BY <4>1, <4>2
    <3>3. QED
      BY <1>1, <3>1, <3>2
  <2>2. FitsFor(r)' /\ r.now <= clock
    BY <1>c, <2>1 DEF FitsFor, Holding
  <2>3. UNCHANGED <<session, clock, crossed>>
    BY <1>1 DEF BeginsBare, BeginsHolding, SendsCookie
  <2>4. QED
    BY <1>i, <1>s, <2>1, <2>2, <2>3, OneCaller DEF BoundInv
<1>2. ASSUME NEW c \in Callers, NEW S \in SUBSET Rows, ListsStalest(c, S) PROVE BoundInv'
  <2>1. PICK now \in Moments : now = progress[c].now /\ now <= clock
    BY <1>i, <1>2 DEF ListsStalest, Request, SessionsTypeOK, Past, Timed, Holding
  <2>2. PICK r : r = [at |-> "evict", now |-> now, stale |-> S]
    OBVIOUS
  <2>3. S \in SUBSET Numbers
    BY <1>i DEF Rows, Numbers, SessionsTypeOK
  <2>4. r \in Request /\ r.now = now /\ r.stale = S /\ r.at = "evict"
    BY <2>2, <2>3 DEF Request
  <2>5. Cardinality(Alive(now) \ S) <= Concurrent - 1
    BY <1>2, <1>i, <2>1, StalestLeavesRoom DEF ListsStalest
  <2>6. UNCHANGED <<session, clock, crossed>> /\ Continues(c, r)
    BY <1>2, <2>1, <2>2 DEF ListsStalest
  <2>7. Alive(now)' = Alive(now)
    BY <2>6 DEF Alive, Rows
  <2>8. FitsFor(r)'
    BY <2>4, <2>5, <2>7 DEF FitsFor
  <2>9. QED
    BY <1>i, <1>s, <2>1, <2>4, <2>6, <2>8, OneCaller DEF BoundInv
<1>3. ASSUME NEW c \in Callers, NEW i \in Rows, Evicts(c, i) PROVE BoundInv'
  <2>1. PICK q \in [at : {"evict"}, now : Moments, stale : SUBSET Numbers] :
           q = progress[c] /\ q.now <= clock
    BY <1>i, <1>3 DEF Evicts, Request, SessionsTypeOK, Past, Timed, Holding
  <2>2. PICK r : r = [q EXCEPT !.stale = @ \ {i}]
    OBVIOUS
  <2>3. r \in Request /\ r.at = "evict" /\ r.now = q.now /\ r.stale = q.stale \ {i}
    BY <2>1, <2>2 DEF Request
  <2>4. Revoke(i) /\ Continues(c, r) /\ UNCHANGED <<clock, crossed>>
    BY <1>3, <2>1, <2>2 DEF Evicts
  <2>5. Alive(q.now)' = Alive(q.now) \ {i}
    BY <1>i, <2>4, RevokingFades
  <2>6. Alive(q.now)' \ r.stale \subseteq Alive(q.now) \ q.stale
    BY <2>3, <2>5
  <2>7. c \notin crossed' => FitsFor(r)'
    <3>1. SUFFICES ASSUME c \notin crossed PROVE FitsFor(r)'
      BY <2>4
    <3>2. Cardinality(Alive(q.now) \ q.stale) <= Concurrent - 1
      BY <1>i, <2>1, <3>1 DEF Fits, FitsFor
    <3>3. Cardinality(Alive(q.now)' \ r.stale) <= Concurrent - 1
      <4>1. Alive(q.now) \ q.stale \subseteq Rows /\ Concurrent - 1 \in Int
        BY DEF Alive
      <4>2. QED
        <5>1. PICK S, T : S = Alive(q.now)' \ r.stale /\ T = Alive(q.now) \ q.stale
          OBVIOUS
        <5>2. PICK n \in Int : n = Concurrent - 1
          BY <4>1
        <5>3. S \subseteq T /\ T \subseteq Rows /\ Cardinality(T) <= n
          BY <2>6, <3>2, <4>1, <5>1, <5>2
        <5>4. Cardinality(S) <= n
          BY <1>i, <5>2, <5>3, SmallerSet
        <5>5. QED
          BY <5>1, <5>2, <5>4
    <3>4. QED
      BY <2>3, <3>3 DEF FitsFor
  <2>8. QED
    BY <1>i, <1>r, <2>1, <2>3, <2>4, <2>7, OneCaller DEF BoundInv
<1>4. ASSUME NEW c \in Callers, CreatesSignIn(c) PROVE BoundInv'
  <2>1. PICK q \in [at : {"evict"}, now : Moments, stale : SUBSET Numbers] :
           q = progress[c] /\ q.now <= clock /\ q.stale = {}
    BY <1>i, <1>4 DEF CreatesSignIn, Request, SessionsTypeOK, Past, Timed, Holding
  <2>2. Len(session) + 1 \in Numbers
    BY <1>i DEF SessionsTypeOK, Numbers
  <2>3. c \notin crossed => Cardinality(Alive(q.now)) <= Concurrent - 1
    <3>1. Alive(q.now) \ q.stale = Alive(q.now)
      BY <2>1
    <3>2. QED
      BY <1>i, <2>1, <3>1 DEF Fits, FitsFor
  <2>4. Create(c, q.now, Len(session) + 1) /\ UNCHANGED clock
    BY <1>4, <2>1 DEF CreatesSignIn
  <2>5. QED
    BY <1>i, <2>1, <2>2, <2>3, <2>4, CreatingFits DEF BoundInv
<1>5. ASSUME NEW c \in Callers, RetiresPresented(c) PROVE BoundInv'
  <2>1. PICK q \in [at : Holding, now : Moments, old : Numbers] :
           q = progress[c] /\ q.now <= clock /\ q.old \in Rows
    BY <1>i, <1>5 DEF RetiresPresented, Request, SessionsTypeOK, Past, Timed, Named, Holding
  <2>2. PICK r : r = [at |-> "list", now |-> q.now]
    OBVIOUS
  <2>3. r \in Request /\ r.at = "list" /\ r.now = q.now
    BY <2>2 DEF Request
  <2>4. Revoke(q.old) /\ Continues(c, r) /\ UNCHANGED <<clock, crossed>>
    BY <1>5, <2>1, <2>2 DEF RetiresPresented
  <2>5. FitsFor(r)'
    BY <2>3 DEF FitsFor
  <2>6. QED
    BY <1>i, <1>r, <2>1, <2>3, <2>4, <2>5, OneCaller DEF BoundInv
<1>6. ASSUME NEW c \in Callers, LosesRotation(c) \/ Abandons(c) \/ Answers(c) \/ FindsNoneLive(c)
      PROVE  BoundInv'
  <2>1. NoRequest \in Request /\ FitsFor(NoRequest)' /\ NoRequest.at \notin Timed
    BY DEF NoRequest, Request, FitsFor, Timed, Holding
  <2>2. /\ UNCHANGED <<session, clock>> /\ Continues(c, NoRequest)
        /\ crossed \ {c} \subseteq crossed'
    BY <1>6 DEF LosesRotation, Abandons, Answers, FindsNoneLive
  <2>3. QED
    BY <1>i, <1>s, <2>1, <2>2, OneCaller DEF BoundInv
<1>7. ASSUME NEW c \in Callers, Retires(c) PROVE BoundInv'
  <2>1. PICK q \in [at : Holding, now : Moments, old : Numbers] :
           q = progress[c] /\ q.now <= clock /\ q.old \in Rows
    BY <1>i, <1>7 DEF Retires, Request, SessionsTypeOK, Past, Timed, Named, Holding
  <2>2. PICK r : r = [q EXCEPT !.at = "replace"]
    OBVIOUS
  <2>3. r \in Request /\ r.at = "replace" /\ r.now = q.now
    BY <2>1, <2>2 DEF Request, Holding
  <2>4. Revoke(q.old) /\ Continues(c, r) /\ UNCHANGED <<clock, crossed>>
    BY <1>7, <2>1, <2>2 DEF Retires
  <2>5. FitsFor(r)'
    BY <2>3 DEF FitsFor
  <2>6. QED
    BY <1>i, <1>r, <2>1, <2>3, <2>4, <2>5, OneCaller DEF BoundInv
<1>8. ASSUME NEW c \in Callers, Replaces(c) PROVE BoundInv'
  <2>1. PICK q \in [at : Holding, now : Moments, old : Numbers] :
           q = progress[c] /\ q.now <= clock /\ q.old \in Rows
    BY <1>i, <1>8 DEF Replaces, Request, SessionsTypeOK, Past, Timed, Named, Holding
  <2>2. PICK row \in SessionRow : row = session[q.old]
    BY <1>i, <2>1 DEF SessionsTypeOK, Rows
  <2>3. row.origin \in Numbers /\ row.origin # Len(session) + 1
    BY <1>i, <2>1, <2>2 DEF Named, Rows, SessionsTypeOK, SessionRow, Numbers
  <2>4. Create(c, q.now, row.origin) /\ UNCHANGED clock
    BY <1>8, <2>1, <2>2 DEF Replaces
  <2>5. QED
    BY <1>i, <2>1, <2>3, <2>4, CreatingFits DEF BoundInv
<1>9. ASSUME NEW c \in Callers, Authenticates(c) \/ RotateTouches(c) PROVE BoundInv'
  <2>1. PICK q \in [at : {"authenticate", "rotate"}, now : Moments, old : Numbers] :
           q = progress[c] /\ q.now <= clock /\ q.old \in Rows
    BY <1>i, <1>9
    DEF Authenticates, RotateTouches, Request, SessionsTypeOK, Past, Timed, Named, Holding
  <2>2. PICK r \in Request : /\ r = NoRequest \/ r = [q EXCEPT !.at = "retire"]
                             /\ Continues(c, r)
    <3>1. NoRequest \in Request /\ [q EXCEPT !.at = "retire"] \in Request
      BY DEF NoRequest, Request, Holding
    <3>2. QED
      BY <1>9, <2>1, <3>1 DEF Authenticates, RotateTouches
  <2>3. r.at \in {"idle", "retire"} /\ (r.at = "retire" => r.now = q.now)
    BY <2>2 DEF NoRequest
  <2>4. FitsFor(r)' /\ (r.at \in Timed => r.now <= clock)
    BY <2>1, <2>3 DEF FitsFor, Timed, Holding
  <2>5. Touch(c) /\ UNCHANGED clock
    BY <1>9 DEF Authenticates, RotateTouches
  <2>6. QED
    BY <1>i, <1>t, <2>1, <2>2, <2>4, <2>5, OneCaller DEF BoundInv, Holding
<1>10. CASE UNCHANGED <<progress, crossed>> /\ (LogsOutEverywhere \/ TimePasses
           \/ UNCHANGED sessionVars \/ \E i \in Rows : LogsOut(i))
  <2>1. Settles /\ session' \in Seq(SessionRow) /\ \A r : FadesFor(r)
    BY <1>10, <1>i, <1>s, <1>r, RevokingAll, RevokingAllFades
       DEF LogsOut, TimePasses, sessionVars
  <2>2. clock' \in Nat /\ clock <= clock'
    BY <1>10, <1>c DEF LogsOut, LogsOutEverywhere, TimePasses, sessionVars
  <2>3. Past'
    <3>1. \A c \in Callers : progress[c].at \in Timed => progress[c].now \in Nat
      BY <1>i DEF SessionsTypeOK, Request, Timed, Moments, Holding
    <3>2. QED
      BY <1>10, <1>i, <1>c, <2>2, <3>1 DEF Past
  <2>4. ASSUME NEW c \in Callers \ crossed' PROVE FitsFor(progress[c])'
    <3>1. PICK q \in Request : q = progress[c] /\ q = progress'[c]
      BY <1>10, <1>i DEF SessionsTypeOK
    <3>2. FitsFor(q) /\ FadesFor(q)
      BY <1>10, <1>i, <2>1, <2>4, <3>1 DEF Fits
    <3>3. q.at = "answer" => q.fresh \in Rows
      BY <1>i, <3>1 DEF Named
    <3>4. FitsFor(q)'
      BY <1>i, <2>1, <3>2, <3>3, FitsStay
    <3>5. QED
      BY <3>1, <3>4 DEF FitsFor
  <2>5. QED
    BY <1>i, <2>3, <2>4 DEF BoundInv, Fits
<1>11. QED
  BY <1>1, <1>2, <1>3, <1>4, <1>5, <1>6, <1>7, <1>8, <1>9, <1>10
     DEF SessionsNext, LogsOut, LogsOutEverywhere, TimePasses, sessionVars

(* SignInKeepsBound: a sign-in leaves the subject with no more live        *)
(* sessions than the policy allows, unless since its list another request  *)
(* created one or brought one back by a touch it had sent with an earlier  *)
(* instant (session.rs:394, routes.rs:446).                                *)
THEOREM SignInsKeepTheBound == SessionsSpec => []SignInKeepsBound
<1>1. BoundInv => SignInKeepsBound
  <2> SUFFICES ASSUME BoundInv, NEW c \in Callers \ crossed, progress[c].at = "answer",
                      session[progress[c].fresh].origin = progress[c].fresh
               PROVE  Cardinality(Alive(clock)) <= Concurrent
    BY DEF SignInKeepsBound, Alive
  <2>1. PICK now \in Nat : now = progress[c].now /\ now <= clock
    BY DEF BoundInv, Past, Timed, SessionsInv, SessionsTypeOK, Request, Holding, Moments
  <2>2. Cardinality(Alive(now)) <= Concurrent
    BY <2>1 DEF BoundInv, Fits, FitsFor
  <2>3. ASSUME NEW i \in Rows, Live(session[i], clock) PROVE Live(session[i], now)
    <3>1. session[i] \in SessionRow /\ clock \in Nat
      BY DEF BoundInv, SessionsInv, SessionsTypeOK, Rows, Moments
    <3>2. QED
      BY <2>1, <2>3, <3>1 DEF Live, SessionRow, Moments
  <2>4. Alive(clock) \subseteq Alive(now) /\ Alive(now) \subseteq Rows
    BY <2>3 DEF Alive
  <2>5. QED
    BY <2>2, <2>4, SmallerSet DEF BoundInv, SessionsInv
<1>2. QED
  BY <1>1, InitBound, StepBound, PTL DEF SessionsSpec

HIDE SessionsAssumption

-----------------------------------------------------------------------------
(* A proof that concurrent starters migrate once, for any starters and any *)
(* versions.  The lock says whose session holds it, a run is at work only  *)
(* while its session does, and what such a run has still to apply is what  *)
(* nobody has applied: so no other run can have begun the version it is at.*)

USE MigrationAssumption

MigrationTypes ==
    /\ engine \in {"postgres", "mysql"}
    /\ starter \in [Starters -> {"Idle", "Locking", "Running", "Applying", "Recording",
                                 "Closing", "ClosingDone", "Failed", "Done"}]
    /\ dbSession \in [Starters -> {"None", "Queued", "Holding", "Open"}]
    /\ lock \in Starters \cup {NoSession}
    /\ pending \in [Starters -> SUBSET All]
    /\ applied \in SUBSET All /\ dirty \in SUBSET All
    /\ effects \in [All -> 0 .. 2]
    /\ unrecorded \in [Starters -> SUBSET All] /\ interrupted \in SUBSET All

\* The lock is its holder's, and whoever runs holds it.
LockHeld ==
    /\ \A s \in Starters : lock = s <=> dbSession[s] = "Holding"
    /\ \A s \in Starters : starter[s] \in {"Running", "Applying", "Recording"} =>
          dbSession[s] = "Holding"
    /\ \A s \in Starters : starter[s] = "Idle" => dbSession[s] = "None"

\* What a session may still apply is what nobody has, and what it ran and has
\* still to record is the lowest of it.
PendingIsRest ==
    /\ \A s \in Starters : dbSession[s] = "Queued" => pending[s] = {}
    /\ \A s \in Starters : dbSession[s] = "Holding" => pending[s] \in {{}, All \ applied}
    /\ \A s \in Starters : starter[s] \in {"Applying", "Recording"} =>
          pending[s] = All \ applied
    /\ \A s \in Starters : dbSession[s] # "Holding" => unrecorded[s] = {}
    /\ \A s \in Starters : starter[s] \in {"Locking", "Running", "Applying"} => unrecorded[s] = {}
    /\ \A s \in Starters : starter[s] = "Recording" => unrecorded[s] # {}
    /\ \A s \in Starters : unrecorded[s] # {} =>
          /\ pending[s] = All \ applied /\ pending[s] # {}
          /\ unrecorded[s] = {Lowest(pending[s])}
          /\ starter[s] = "Recording" \/ unrecorded[s] \subseteq interrupted

\* A run that ended within a version leaves it repeated only where no mark is.
Repeats(v) == engine = "postgres" /\ v \in NoTransaction /\ v \in interrupted

\* A version that took effect is recorded, begun, or at its run's record.
EffectsRecorded ==
    /\ \A v \in All :
          \/ v \in applied \cup dirty
          \/ \E s \in Starters : v \in unrecorded[s] /\ starter[s] = "Recording"
          \/ effects[v] = 0
          \/ Repeats(v)
    /\ \A v \in All : effects[v] = 2 => Repeats(v)
    /\ engine = "postgres" => dirty = {}
    /\ \A s \in Starters :
          \/ starter[s] = "Applying"
          \/ dbSession[s] = "Holding" /\ pending[s] # {} /\ unrecorded[s] = {}
          => dirty = {}
    /\ \A s \in Starters : unrecorded[s] # {} =>
          \/ engine = "mysql" /\ dirty = unrecorded[s]
          \/ engine = "postgres" /\ unrecorded[s] \subseteq NoTransaction

MigrationInv ==
    /\ MigrationTypes /\ LockHeld /\ PendingIsRest /\ EffectsRecorded
    /\ \A v \in applied : 1 .. v \subseteq applied
    /\ \A s \in Starters :
          starter[s] \in {"ClosingDone", "Done"} => applied = All /\ dirty = {}

LEMMA LowestIsLeast ==
  ASSUME NEW S \in SUBSET All, S # {}
  PROVE  Lowest(S) \in S /\ \A w \in S : Lowest(S) <= w
<1>1. S \subseteq Nat
  BY DEF All
<1>2. \E v \in S : \A w \in S : v <= w
  <2>1. PICK v \in S : \A w \in S : ~ (<<w, v>> \in OpToRel(<, Nat))
    BY <1>1, WFMin, NatLessThanWellFounded, Zenon
  <2>2. \A w \in S : ~ (w < v)
    <3>1. \A w \in S : <<w, v>> \in Nat \X Nat
      BY <1>1
    <3>2. QED
      BY <2>1, <3>1, Zenon DEF OpToRel
  <2>3. QED
    BY <1>1, <2>2
<1>3. QED
  BY <1>2 DEF Lowest

\* Applying the lowest version nobody applied keeps the versions in order.
LEMMA OrderKept ==
  ASSUME MigrationTypes, \A v \in applied : 1 .. v \subseteq applied, All \ applied # {}
  PROVE  LET new == applied \cup {Lowest(All \ applied)}
         IN  \A v \in new : 1 .. v \subseteq new
<1> DEFINE low == Lowest(All \ applied)
<1>1. low \in All \ applied /\ \A w \in All \ applied : low <= w
  BY LowestIsLeast
<1>2. 1 .. low \subseteq applied \cup {low}
  <2> SUFFICES ASSUME NEW n \in 1 .. low, n # low PROVE n \in applied
    OBVIOUS
  <2>1. n \in All /\ ~(low <= n)
    BY <1>1 DEF All
  <2>2. QED
    BY <1>1, <2>1
<1>3. QED
  BY <1>2

LEMMA InitMigrates == MigrationInit => MigrationInv
BY DEF MigrationInit, MigrationInv, MigrationTypes, LockHeld, PendingIsRest, EffectsRecorded

\* A step of the ledger by s, whose session holds the lock, leaves everybody
\* else as they were.
LEMMA StepMigrates == MigrationInv /\ [MigrationNext]_migrationVars => MigrationInv'
<1> SUFFICES ASSUME MigrationInv, [MigrationNext]_migrationVars PROVE MigrationInv'
  OBVIOUS
<1> USE DEF MigrationInv, MigrationTypes, LockHeld, PendingIsRest, EffectsRecorded, Goes, Session
<1>1. ASSUME NEW s \in Starters, Connects(s) PROVE MigrationInv'
  BY <1>1 DEF Connects, ledger, Repeats
<1>2. ASSUME NEW s \in Starters, Grants(s) PROVE MigrationInv'
  <2>1. MigrationTypes' /\ LockHeld'
    BY <1>2 DEF Grants, ledger
  <2>2. PendingIsRest'
    BY <1>2 DEF Grants, ledger
  <2>3. EffectsRecorded' /\ UNCHANGED <<applied, starter, dirty>>
    BY <1>2 DEF Grants, ledger, Repeats
  <2>4. QED
    BY <2>1, <2>2, <2>3
<1>3. ASSUME NEW s \in Starters, Locked(s) PROVE MigrationInv'
  <2>1. MigrationTypes' /\ LockHeld'
    BY <1>3 DEF Locked, ledger
  <2>2. PendingIsRest'
    BY <1>3 DEF Locked, ledger
  <2>3. EffectsRecorded'
    BY <1>3 DEF Locked, ledger, Repeats
  <2>4. QED
    BY <1>3, <2>1, <2>2, <2>3 DEF Locked, ledger
<1>4. ASSUME NEW s \in Starters, LockTimesOut(s) PROVE MigrationInv'
  BY <1>4 DEF LockTimesOut, ledger, Repeats
<1>5. ASSUME NEW s \in Starters, ListsApplied(s) PROVE MigrationInv'
  BY <1>5 DEF ListsApplied, ledger, Repeats
<1>6. ASSUME NEW s \in Starters, AppliesAtomically(s) PROVE MigrationInv'
  <2> DEFINE low == Lowest(All \ applied)
  <2>1. /\ pending[s] = All \ applied /\ All \ applied # {} /\ dbSession[s] = "Holding"
        /\ engine = "postgres" /\ dirty = {} /\ unrecorded[s] = {} /\ low \notin NoTransaction
    BY <1>6 DEF AppliesAtomically, Unheard
  <2>2. low \in All \ applied
    BY <2>1, LowestIsLeast
  <2>3. /\ pending' = [pending EXCEPT ![s] = @ \ {low}]
        /\ TakesEffect(low) /\ applied' = applied \cup {low}
        /\ UNCHANGED <<engine, starter, dbSession, lock, dirty, unrecorded, interrupted>>
    BY <1>6, <2>1 DEF AppliesAtomically, Unheard
  <2>4. MigrationTypes'
    <3>1. effects' \in [All -> 0 .. 2]
      BY <2>2, <2>3 DEF TakesEffect
    <3>2. pending' \in [Starters -> SUBSET All] /\ applied' \in SUBSET All
      BY <2>2, <2>3
    <3>3. QED
      BY <2>3, <3>1, <3>2
  <2>5. LockHeld'
    BY <2>3
  <2>6. \A t \in Starters : t # s => dbSession[t] # "Holding" /\ unrecorded[t] = {}
    BY <2>1
  <2>7. PendingIsRest'
    BY <1>6, <2>1, <2>2, <2>3, <2>6 DEF AppliesAtomically, Unheard
  <2>8. EffectsRecorded'
    <3>1. effects[low] = 0
      BY <2>1, <2>2, <2>6 DEF Repeats
    <3>2. effects' = [effects EXCEPT ![low] = 1]
      BY <2>2, <2>3, <3>1 DEF TakesEffect
    <3>3. QED
      BY <1>6, <2>1, <2>2, <2>3, <2>6, <3>2 DEF AppliesAtomically, Unheard, Repeats
  <2>9. \A v \in applied' : 1 .. v \subseteq applied'
    BY <2>1, <2>3, OrderKept
  <2>10. QED
    BY <2>1, <2>2, <2>3, <2>4, <2>5, <2>7, <2>8, <2>9
<1>7. ASSUME NEW s \in Starters, BeginsVersion(s) PROVE MigrationInv'
  <2> DEFINE low == Lowest(All \ applied)
  <2>1. /\ pending[s] = All \ applied /\ All \ applied # {} /\ dbSession[s] = "Holding"
        /\ unrecorded[s] = {} /\ (engine = "mysql" \/ low \in NoTransaction)
        /\ starter[s] = "Applying" /\ dirty = {}
    BY <1>7 DEF BeginsVersion, Unheard
  <2>2. low \in All \ applied
    BY <2>1, LowestIsLeast
  <2>3. /\ TakesEffect(low)
        /\ dirty' = IF engine = "mysql" THEN dirty \cup {low} ELSE dirty
        /\ starter' = [starter EXCEPT ![s] = "Recording"]
        /\ unrecorded' = [unrecorded EXCEPT ![s] = {low}]
        /\ UNCHANGED <<engine, dbSession, lock, pending, applied, interrupted>>
    BY <1>7, <2>1 DEF BeginsVersion, RunsApart
  <2>4. MigrationTypes'
    <3>1. effects' \in [All -> 0 .. 2]
      BY <2>2, <2>3 DEF TakesEffect
    <3>2. dirty' \in SUBSET All
      BY <2>2, <2>3
    <3>3. QED
      BY <2>2, <2>3, <3>1, <3>2
  <2>5. LockHeld'
    BY <2>1, <2>3
  <2>6. \A t \in Starters : t # s => dbSession[t] # "Holding" /\ unrecorded[t] = {}
    BY <2>1
  <2>7. PendingIsRest'
    <3>1. /\ starter'[s] = "Recording" /\ unrecorded'[s] = {low}
          /\ \A t \in Starters \ {s} : starter'[t] = starter[t] /\ unrecorded'[t] = unrecorded[t]
      BY <2>3
    <3>2. UNCHANGED <<dbSession, pending, applied, interrupted>>
      BY <2>3
    <3>3. QED
      BY <2>1, <2>6, <3>1, <3>2
  <2>8. EffectsRecorded'
    <3>1. Repeats(low) \/ effects' = [effects EXCEPT ![low] = 1]
      <4>1. Repeats(low) \/ effects[low] = 0
        BY <2>1, <2>2, <2>6
      <4>2. QED
        BY <2>2, <2>3, <4>1 DEF TakesEffect
    <3>2. \A v \in All : v # low => effects'[v] = effects[v]
      BY <2>2, <2>3 DEF TakesEffect
    <3>3. \A v : Repeats(v)' <=> Repeats(v)
      BY <2>3 DEF Repeats
    <3>4. \A v \in All : effects'[v] = 2 => Repeats(v)
      <4>1. Repeats(low) \/ effects'[low] = 1
        BY <2>2, <3>1
      <4>2. QED
        BY <3>2, <4>1
    <3>5. /\ starter'[s] = "Recording" /\ unrecorded'[s] = {low}
          /\ \A t \in Starters \ {s} : starter'[t] = starter[t] /\ unrecorded'[t] = {}
      BY <2>3, <2>6
    <3>6. \A v \in All :
             \/ v \in applied \cup dirty'
             \/ \E t \in Starters : v \in unrecorded'[t] /\ starter'[t] = "Recording"
             \/ effects'[v] = 0
             \/ Repeats(v)
      BY <2>1, <2>6, <3>2, <3>5
    <3>7. dirty' = IF engine = "mysql" THEN {low} ELSE {}
      BY <2>1, <2>3
    <3>8. \A t \in Starters \ {s} : starter[t] # "Applying" /\ dbSession[t] # "Holding"
      BY <2>6
    <3>9. QED
      BY <2>1, <2>3, <3>3, <3>4, <3>5, <3>6, <3>7, <3>8
  <2>9. \A t \in Starters : starter'[t] \in {"ClosingDone", "Done"} => applied' = All /\ dirty' = {}
    <3>1. applied # All
      BY <2>1
    <3>2. QED
      BY <2>3, <3>1
  <2>10. QED
    BY <2>3, <2>4, <2>5, <2>7, <2>8, <2>9
<1>8. ASSUME NEW s \in Starters, RecordsVersion(s) PROVE MigrationInv'
  <2> DEFINE low == Lowest(All \ applied)
  <2>1. /\ pending[s] = All \ applied /\ All \ applied # {} /\ dbSession[s] = "Holding"
        /\ unrecorded[s] = {low}
    BY <1>8 DEF RecordsVersion, RecordsRun
  <2>2. low \in All \ applied
    BY <2>1, LowestIsLeast
  <2>3. /\ pending' = [pending EXCEPT ![s] = @ \ {low}] /\ starter' = [starter EXCEPT ![s] = "Applying"]
        /\ dirty' = dirty \ {low} /\ applied' = applied \cup {low}
        /\ unrecorded' = [unrecorded EXCEPT ![s] = {}]
        /\ UNCHANGED <<engine, dbSession, lock, effects, interrupted>>
    BY <1>8, <2>1 DEF RecordsVersion, RecordsRun
  <2>4. MigrationTypes' /\ LockHeld'
    BY <2>1, <2>2, <2>3
  <2>5. \A t \in Starters : t # s => dbSession[t] # "Holding" /\ unrecorded[t] = {}
    BY <2>1
  <2>6. PendingIsRest'
    BY <1>8, <2>1, <2>2, <2>3, <2>5 DEF RecordsVersion
  <2>7. dirty' = {}
    BY <2>1, <2>3
  <2>8. EffectsRecorded'
    <3>1. \A v : Repeats(v)' <=> Repeats(v)
      BY <2>3 DEF Repeats
    <3>2. \A t \in Starters : unrecorded'[t] = {}
      BY <2>3, <2>5
    <3>3. \A v \in All : v \in applied' \/ effects[v] = 0 \/ Repeats(v)
      BY <2>1, <2>3, <2>5
    <3>4. \A v \in All : effects'[v] = 2 => Repeats(v)'
      BY <2>3, <3>1
    <3>5. \A v \in All : v \in applied' \/ effects'[v] = 0 \/ Repeats(v)'
      BY <2>3, <3>1, <3>3
    <3>6. QED
      BY <2>7, <3>2, <3>4, <3>5
  <2>9. \A v \in applied' : 1 .. v \subseteq applied'
    BY <2>1, <2>3, OrderKept
  <2>10. \A t \in Starters :
             starter'[t] \in {"ClosingDone", "Done"} => applied' = All /\ dirty' = {}
    BY <2>1, <2>3, <2>7
  <2>11. QED
    BY <2>4, <2>6, <2>8, <2>9, <2>10
<1>9. ASSUME NEW s \in Starters, RunFails(s) PROVE MigrationInv'
  BY <1>9 DEF RunFails, Interrupted, Repeats
<1>10. ASSUME NEW s \in Starters, CommitsUnheard(s) PROVE MigrationInv'
  <2> DEFINE low == Lowest(All \ applied)
  <2>1. /\ pending[s] = All \ applied /\ All \ applied # {} /\ dbSession[s] = "Holding"
        /\ engine = "postgres" /\ dirty = {} /\ unrecorded[s] = {} /\ low \notin NoTransaction
    BY <1>10 DEF CommitsUnheard, Unheard
  <2>2. low \in All \ applied
    BY <2>1, LowestIsLeast
  <2>3. /\ pending' = [pending EXCEPT ![s] = {}]
        /\ TakesEffect(low) /\ applied' = applied \cup {low}
        /\ UNCHANGED <<engine, starter, dbSession, lock, dirty, unrecorded, interrupted>>
    BY <1>10, <2>1 DEF CommitsUnheard, Unheard
  <2>4. MigrationTypes'
    <3>1. effects' \in [All -> 0 .. 2]
      BY <2>2, <2>3 DEF TakesEffect
    <3>2. pending' \in [Starters -> SUBSET All] /\ applied' \in SUBSET All
      BY <2>2, <2>3
    <3>3. QED
      BY <2>3, <3>1, <3>2
  <2>5. LockHeld'
    BY <2>3
  <2>6. \A t \in Starters : t # s => dbSession[t] # "Holding" /\ unrecorded[t] = {}
    BY <2>1
  <2>7. PendingIsRest'
    BY <1>10, <2>1, <2>2, <2>3, <2>6 DEF CommitsUnheard, Unheard
  <2>8. EffectsRecorded'
    <3>1. effects[low] = 0
      BY <2>1, <2>2, <2>6 DEF Repeats
    <3>2. effects' = [effects EXCEPT ![low] = 1]
      BY <2>2, <2>3, <3>1 DEF TakesEffect
    <3>3. QED
      BY <1>10, <2>1, <2>2, <2>3, <2>6, <3>2 DEF CommitsUnheard, Unheard, Repeats
  <2>9. \A v \in applied' : 1 .. v \subseteq applied'
    BY <2>1, <2>3, OrderKept
  <2>10. QED
    BY <2>1, <2>2, <2>3, <2>4, <2>5, <2>7, <2>8, <2>9
<1>11. ASSUME NEW s \in Starters, BeginsUnheard(s) PROVE MigrationInv'
  <2> DEFINE low == Lowest(All \ applied)
  <2>1. /\ pending[s] = All \ applied /\ All \ applied # {} /\ dbSession[s] = "Holding"
        /\ unrecorded[s] = {} /\ (engine = "mysql" \/ low \in NoTransaction)
        /\ starter[s] \in {"Closing", "Failed"} /\ dirty = {}
    BY <1>11 DEF BeginsUnheard, Unheard
  <2>2. low \in All \ applied
    BY <2>1, LowestIsLeast
  <2>3. /\ TakesEffect(low)
        /\ dirty' = IF engine = "mysql" THEN dirty \cup {low} ELSE dirty
        /\ pending' = [pending EXCEPT ![s] = {}] /\ interrupted' = interrupted \cup {low}
        /\ UNCHANGED <<engine, starter, dbSession, lock, applied, unrecorded>>
    BY <1>11, <2>1 DEF BeginsUnheard, Unheard, RunsApart
  <2>4. MigrationTypes'
    <3>1. effects' \in [All -> 0 .. 2]
      BY <2>2, <2>3 DEF TakesEffect
    <3>2. dirty' \in SUBSET All
      BY <2>2, <2>3
    <3>3. QED
      BY <2>2, <2>3, <3>1, <3>2
  <2>5. LockHeld'
    BY <2>1, <2>3
  <2>6. \A t \in Starters : t # s => dbSession[t] # "Holding" /\ unrecorded[t] = {}
    BY <2>1
  <2>7. PendingIsRest'
    BY <1>11, <2>1, <2>2, <2>3, <2>6 DEF BeginsUnheard, Unheard
  <2>8. EffectsRecorded'
    <3> DEFINE Again(v) ==
                 engine = "postgres" /\ v \in NoTransaction /\ (v \in interrupted \/ v = low)
    <3>0. \A v \in All : Repeats(v)' <=> Again(v)
      BY <2>3 DEF Repeats
    <3>1. Again(low) \/ effects' = [effects EXCEPT ![low] = 1]
      <4>1. Again(low) \/ effects[low] = 0
        BY <2>1, <2>2, <2>6 DEF Repeats
      <4>2. QED
        BY <2>2, <2>3, <4>1 DEF TakesEffect
    <3>2. \A v \in All : v # low => effects'[v] = effects[v]
      BY <2>2, <2>3 DEF TakesEffect
    <3>3. \A v : Repeats(v) => Again(v)
      BY DEF Repeats
    <3> HIDE DEF Again
    <3>4. \A v \in All : effects'[v] = 2 => Again(v)
      <4>1. Again(low) \/ effects'[low] # 2
        BY <2>2, <3>1
      <4>2. ASSUME NEW v \in All, v # low, effects'[v] = 2 PROVE Again(v)
        <5>1. effects[v] = 2 /\ Repeats(v)
          BY <3>2, <4>2
        <5>2. QED
          BY <3>3, <5>1
      <4>3. QED
        BY <4>1, <4>2
    <3>5. low \in dirty' \/ Again(low)
      BY <2>1, <2>3 DEF Again
    <3>6. \A v \in All :
             \/ v \in applied \cup dirty'
             \/ \E t \in Starters : v \in unrecorded[t] /\ starter[t] = "Recording"
             \/ effects'[v] = 0
             \/ Again(v)
      BY <2>1, <2>3, <3>2, <3>3, <3>5
    <3>7. dirty' = IF engine = "mysql" THEN {low} ELSE {}
      BY <2>1, <2>3
    <3>8. \A t \in Starters : starter[t] # "Applying" /\ unrecorded[t] = {}
      BY <2>1, <2>6
    <3>9. \A t \in Starters : dbSession[t] = "Holding" => pending'[t] = {}
      BY <2>3, <2>6
    <3>10. QED
      BY <2>3, <3>0, <3>4, <3>6, <3>7, <3>8, <3>9
  <2>9. \A t \in Starters : starter'[t] \in {"ClosingDone", "Done"} => applied' = All /\ dirty' = {}
    <3>1. applied # All
      BY <2>1
    <3>2. QED
      BY <2>3, <3>1
  <2>10. QED
    BY <2>3, <2>4, <2>5, <2>7, <2>8, <2>9
<1>12. ASSUME NEW s \in Starters, RecordsUnheard(s) PROVE MigrationInv'
  <2> DEFINE low == Lowest(All \ applied)
  <2>1. /\ pending[s] = All \ applied /\ All \ applied # {} /\ dbSession[s] = "Holding"
        /\ unrecorded[s] = {low}
    BY <1>12 DEF RecordsUnheard, RecordsRun, Unheard
  <2>2. low \in All \ applied
    BY <2>1, LowestIsLeast
  <2>3. /\ pending' = [pending EXCEPT ![s] = {}] /\ starter' = starter
        /\ dirty' = dirty \ {low} /\ applied' = applied \cup {low}
        /\ unrecorded' = [unrecorded EXCEPT ![s] = {}]
        /\ UNCHANGED <<engine, dbSession, lock, effects, interrupted>>
    BY <1>12, <2>1 DEF RecordsUnheard, RecordsRun, Unheard
  <2>4. MigrationTypes' /\ LockHeld'
    BY <2>1, <2>2, <2>3
  <2>5. \A t \in Starters : t # s => dbSession[t] # "Holding" /\ unrecorded[t] = {}
    BY <2>1
  <2>6. PendingIsRest'
    BY <1>12, <2>1, <2>2, <2>3, <2>5 DEF RecordsUnheard, Unheard
  <2>7. dirty' = {}
    BY <2>1, <2>3
  <2>8. EffectsRecorded'
    <3>1. \A v : Repeats(v)' <=> Repeats(v)
      BY <2>3 DEF Repeats
    <3>2. \A t \in Starters : unrecorded'[t] = {}
      BY <2>3, <2>5
    <3>3. \A v \in All : v \in applied' \/ effects[v] = 0 \/ Repeats(v)
      BY <2>1, <2>3, <2>5
    <3>4. \A v \in All : effects'[v] = 2 => Repeats(v)'
      BY <2>3, <3>1
    <3>5. \A v \in All : v \in applied' \/ effects'[v] = 0 \/ Repeats(v)'
      BY <2>3, <3>1, <3>3
    <3>6. QED
      BY <2>7, <3>2, <3>4, <3>5
  <2>9. \A v \in applied' : 1 .. v \subseteq applied'
    BY <2>1, <2>3, OrderKept
  <2>10. QED
    BY <2>1, <2>2, <2>3, <2>4, <2>6, <2>7, <2>8, <2>9
<1>13. ASSUME NEW s \in Starters, Unlocks(s) PROVE MigrationInv'
  <2>1. MigrationTypes' /\ LockHeld'
    BY <1>13 DEF Unlocks, ledger
  <2>2. PendingIsRest'
    BY <1>13 DEF Unlocks, ledger
  <2>3. EffectsRecorded'
    <3>1. \A t \in Starters :
             /\ starter'[t] \in {"Applying", "Recording"} => starter'[t] = starter[t]
             /\ starter[t] = "Recording" => starter'[t] = "Recording"
             /\ dbSession'[t] = "Holding" => dbSession[t] = "Holding"
      BY <1>13 DEF Unlocks
    <3>2. UNCHANGED <<engine, pending, applied, dirty, effects, unrecorded, interrupted>>
      BY <1>13 DEF Unlocks, ledger
    <3>3. \A v : Repeats(v)' <=> Repeats(v)
      BY <3>2 DEF Repeats
    <3>4. \A v \in All :
             \/ v \in applied' \cup dirty'
             \/ \E t \in Starters : v \in unrecorded'[t] /\ starter'[t] = "Recording"
             \/ effects'[v] = 0
             \/ Repeats(v)'
      BY <3>1, <3>2, <3>3
    <3>5. \A v \in All : effects'[v] = 2 => Repeats(v)'
      BY <3>2, <3>3
    <3>6. \A t \in Starters :
             \/ starter'[t] = "Applying"
             \/ dbSession'[t] = "Holding" /\ pending'[t] # {} /\ unrecorded'[t] = {}
             => dirty' = {}
      BY <3>1, <3>2
    <3>7. \A t \in Starters : unrecorded'[t] # {} =>
             \/ engine' = "mysql" /\ dirty' = unrecorded'[t]
             \/ engine' = "postgres" /\ unrecorded'[t] \subseteq NoTransaction
      BY <3>2
    <3>8. engine' = "postgres" => dirty' = {}
      BY <3>2
    <3>9. QED
      BY <3>4, <3>5, <3>6, <3>7, <3>8, Zenon
  <2>4. applied = All /\ dirty = {}
    BY <1>13 DEF Unlocks
  <2>5. UNCHANGED <<applied, dirty>>
    BY <1>13 DEF Unlocks, ledger
  <2>6. QED
    BY <2>1, <2>2, <2>3, <2>4, <2>5
<1>14. ASSUME NEW s \in Starters, Closes(s) PROVE MigrationInv'
  BY <1>14 DEF Closes, Ends, Repeats
<1>15. ASSUME NEW s \in Starters, Dies(s) PROVE MigrationInv'
  BY <1>15 DEF Dies, Interrupted, Repeats
<1>16. ASSUME NEW s \in Starters, SessionEnds(s) PROVE MigrationInv'
  BY <1>16 DEF SessionEnds, Ends, Repeats
<1>17. ASSUME NEW s \in Starters, StartsAgain(s) PROVE MigrationInv'
  BY <1>17 DEF StartsAgain, ledger, Repeats
<1>18. CASE UNCHANGED migrationVars
  BY <1>18 DEF migrationVars, Repeats
<1>19. QED
  BY <1>1, <1>2, <1>3, <1>4, <1>5, <1>6, <1>7, <1>8, <1>9, <1>10, <1>11, <1>12, <1>13,
     <1>14, <1>15, <1>16, <1>17, <1>18 DEF MigrationNext

\* No version's statements take effect twice, those of a PostgreSQL migration
\* without a transaction excepted once a run of it ended before its record;
\* versions are recorded in their order, and a starter that was told it is
\* done finds all of them recorded.
THEOREM StartsMigrateOnce == MigrationSpec => []MigratesOnce
<1>1. MigrationInv => MigratesOnce
  BY DEF MigrationInv, MigrationTypes, EffectsRecorded, Repeats, MigratesOnce
<1>2. QED
  BY InitMigrates, StepMigrates, <1>1, PTL DEF MigrationSpec

HIDE MigrationAssumption

-----------------------------------------------------------------------------
(* A proof about mailed secrets, for any accounts, secrets and requests.   *)
(* A secret is consumed once it was spent or swept, and a request that goes*)
(* on from a secret goes on from one that was spent on its account.        *)

USE AccountsAssumption

SecretRows ==
    [owner : Addresses \cup {NoAddress}, purpose : Purposes \cup {"none"}, expires : Nat,
     consumed : BOOLEAN]

Inquiries ==
    {NotAsking}
    \cup [step : {"password"}, for : Addresses, by : Secrets \cup {"registration"}]
    \cup [step : {"invalidate", "issue"}, for : Addresses, purpose : Purposes, at : Nat,
          earlier : SUBSET Secrets]
    \cup [step : {"deliver"}, secret : Secrets]
    \cup [step : {"consume", "owner"}, secret : Secrets, purpose : Purposes, at : Nat]
    \cup [step : {"mark"}, for : Addresses]

AccountsTyped ==
    /\ mailClock \in Nat /\ account \subseteq Addresses /\ verified \subseteq Addresses
    /\ password \in [Addresses -> Secrets \cup {"none", "registration"}]
    /\ secret \in [Secrets -> SecretRows]
    /\ mailed \subseteq Secrets
    /\ inquiry \in [AccountCalls -> Inquiries]
    /\ spent \in [Secrets -> Nat] /\ swept \in [Secrets -> SUBSET Secrets]

Unconsumed(s) == secret[s].consumed = FALSE

SpentOn(s, a, purpose) ==
    spent[s] = 1 /\ secret[s].owner = a /\ secret[s].purpose = purpose

SecretOK(s) ==
    /\ spent[s] \in {0, 1}
    /\ spent[s] = 1 => ~Unconsumed(s) /\ secret[s].purpose \in Purposes
    /\ secret[s].purpose \in Purposes => secret[s].owner \in Addresses
    /\ \A u \in swept[s] : ~Unconsumed(u)

(* What a request may rely on. *)
InquiryOK(q) ==
    /\ q.step = "owner" => SpentOn(q.secret, secret[q.secret].owner, q.purpose)
    /\ q.step = "password" /\ q.by \in Secrets => SpentOn(q.by, q.for, "password_reset")
    /\ q.step = "mark" => \E s \in Secrets : SpentOn(s, q.for, "verification")
    /\ q.step = "issue" => \A u \in q.earlier : ~Unconsumed(u)

AccountsInv ==
    /\ AccountsTyped
    /\ \A s \in Secrets : SecretOK(s)
    /\ \A r \in AccountCalls : InquiryOK(inquiry[r])
    /\ \A a \in Addresses : password[a] \in Secrets => SpentOn(password[a], a, "password_reset")
    /\ \A a \in verified : \E s \in Secrets : SpentOn(s, a, "verification")

LEMMA InitAccounts == AccountsInit => AccountsInv
  BY DEF AccountsInit, AccountsInv, AccountsTyped, SecretOK, InquiryOK, SpentOn, Unconsumed,
         NotIssued, NotAsking, SecretRows, Inquiries, Purposes

(* Nothing said of a secret that was issued is taken back. *)
SecretsGrow ==
    \A s \in Secrets :
       /\ secret[s].purpose \in Purposes =>
             secret'[s].owner = secret[s].owner /\ secret'[s].purpose = secret[s].purpose
       /\ ~Unconsumed(s) => secret'[s].consumed # FALSE
       /\ spent[s] = 1 => spent'[s] = 1

LEMMA SpentStays ==
  ASSUME SecretsGrow, NEW s \in Secrets, NEW a, NEW purpose \in Purposes, SpentOn(s, a, purpose)
  PROVE  SpentOn(s, a, purpose)'
  BY DEF SecretsGrow, SpentOn

LEMMA InquiryStays ==
  ASSUME AccountsTyped, SecretsGrow, NEW q \in Inquiries, InquiryOK(q) PROVE InquiryOK(q)'
<1>1. CASE q.step = "owner"
  <2>1. q.secret \in Secrets /\ q.purpose \in Purposes
    BY <1>1 DEF Inquiries, NotAsking
  <2>2. SpentOn(q.secret, secret[q.secret].owner, q.purpose)
    BY <1>1 DEF InquiryOK
  <2>3. QED
    BY <1>1, <2>1, <2>2 DEF InquiryOK, SpentOn, SecretsGrow
<1>2. CASE q.step = "password"
  <2>1. "password_reset" \in Purposes
    BY DEF Purposes
  <2>2. QED
    BY <1>2, <2>1, SpentStays DEF InquiryOK
<1>3. CASE q.step = "mark"
  <2>1. "verification" \in Purposes
    BY DEF Purposes
  <2>2. QED
    BY <1>3, <2>1, SpentStays DEF InquiryOK
<1>4. CASE q.step = "issue"
  <2>1. q.earlier \subseteq Secrets
    BY <1>4 DEF Inquiries, NotAsking
  <2>2. QED
    BY <1>4, <2>1 DEF InquiryOK, SecretsGrow, Unconsumed
<1>5. CASE q.step \notin {"owner", "password", "mark", "issue"}
  BY <1>5 DEF InquiryOK
<1>6. QED
  BY <1>1, <1>2, <1>3, <1>4, <1>5

(* One request's step: its next inquiry, and secrets that only grow.       *)
LEMMA OneInquiry ==
  ASSUME AccountsInv, SecretsGrow, NEW r \in AccountCalls, NEW q \in Inquiries,
         inquiry' = [inquiry EXCEPT ![r] = q], InquiryOK(q)',
         mailClock' \in Nat, account' \subseteq Addresses, secret' \in [Secrets -> SecretRows],
         mailed' \subseteq Secrets, spent' \in [Secrets -> Nat],
         swept' \in [Secrets -> SUBSET Secrets],
         \A s \in Secrets : SecretOK(s)',
         password' = password \/
            \E a \in Addresses, b \in Secrets \cup {"registration"} :
               /\ password' = [password EXCEPT ![a] = b]
               /\ b \in Secrets => SpentOn(b, a, "password_reset"),
         verified' \subseteq Addresses,
         \A a \in verified' \ verified : \E s \in Secrets : SpentOn(s, a, "verification")
  PROVE  AccountsInv'
<1>0. "password_reset" \in Purposes /\ "verification" \in Purposes
  BY DEF Purposes
<1>1. AccountsTyped'
  BY DEF AccountsInv, AccountsTyped
<1>2. \A p \in AccountCalls : InquiryOK(inquiry[p])'
  <2>1. ASSUME NEW p \in AccountCalls \ {r} PROVE InquiryOK(inquiry[p])'
    <3>1. PICK i \in Inquiries : i = inquiry[p] /\ inquiry'[p] = i
      BY DEF AccountsInv, AccountsTyped
    <3>2. InquiryOK(i)
      BY <3>1 DEF AccountsInv
    <3>3. InquiryOK(i)'
      BY <3>2, InquiryStays DEF AccountsInv
    <3>4. QED
      BY <3>1, <3>3 DEF InquiryOK
  <2>2. inquiry'[r] = q
    BY DEF AccountsInv, AccountsTyped
  <2>3. InquiryOK(inquiry[r])'
    BY <2>2 DEF InquiryOK
  <2>4. QED
    BY <2>1, <2>3
<1>3. ASSUME NEW a \in Addresses, password'[a] \in Secrets
      PROVE  SpentOn(password[a], a, "password_reset")'
  <2>1. PICK b \in Secrets : b = password'[a]
    BY <1>3
  <2>2. SpentOn(b, a, "password_reset")
    BY <2>1 DEF AccountsInv, AccountsTyped
  <2>3. SpentOn(b, a, "password_reset")'
    BY <1>0, <2>2, SpentStays
  <2>4. QED
    BY <2>1, <2>3 DEF SpentOn
<1>4. ASSUME NEW a \in verified' PROVE \E s \in Secrets : SpentOn(s, a, "verification")'
  BY <1>0, <1>4, SpentStays DEF AccountsInv
<1>5. QED
  BY <1>1, <1>2, <1>3, <1>4 DEF AccountsInv

LEMMA StepAccounts == AccountsInv /\ [AccountsNext]_accountVars => AccountsInv'
<1> SUFFICES ASSUME AccountsInv, [AccountsNext]_accountVars PROVE AccountsInv'
  OBVIOUS
<1> USE DEF mailTables
<1>n. NotAsking \in Inquiries /\ InquiryOK(NotAsking)'
  BY DEF NotAsking, Inquiries, InquiryOK
<1>g. UNCHANGED secret /\ UNCHANGED spent => SecretsGrow
  BY DEF SecretsGrow, Unconsumed
<1>s. UNCHANGED <<secret, spent, swept>> => \A s \in Secrets : SecretOK(s)'
  BY DEF AccountsInv, SecretOK, Unconsumed
<1>t. AccountsTyped
  BY DEF AccountsInv
<1>k. ASSUME NEW r \in AccountCalls
      PROVE  \E q \in Inquiries : inquiry[r] = q /\ InquiryOK(q)
  BY DEF AccountsInv, AccountsTyped
<1>1. ASSUME NEW r \in AccountCalls, NEW a \in Addresses, Registers(r, a) PROVE AccountsInv'
  <2>1. DEFINE q == [step |-> "password", for |-> a, by |-> "registration"]
  <2>2. q \in Inquiries /\ InquiryOK(q)'
    BY DEF Inquiries, InquiryOK
  <2>3. account' \subseteq Addresses
    BY <1>1, <1>t DEF Registers, AccountsTyped
  <2>4. QED
    BY <1>1, <1>g, <1>s, <1>t, <2>2, <2>3, OneInquiry DEF Registers, AccountsTyped
<1>2. ASSUME NEW r \in AccountCalls, SetsPassword(r) PROVE AccountsInv'
  <2>1. PICK q \in Inquiries : inquiry[r] = q /\ InquiryOK(q)
    BY <1>k
  <2>2. /\ q.for \in Addresses /\ q.by \in Secrets \cup {"registration"}
        /\ q.by \in Secrets => SpentOn(q.by, q.for, "password_reset")
    BY <1>2, <2>1 DEF SetsPassword, Inquiries, InquiryOK, NotAsking
  <2>3. password' = [password EXCEPT ![q.for] = q.by]
    BY <1>2, <2>1 DEF SetsPassword
  <2>4. QED
    BY <1>2, <1>n, <1>g, <1>s, <1>t, <2>2, <2>3, OneInquiry
       DEF SetsPassword, InquiryEnds, AccountsTyped
<1>3. ASSUME NEW r \in AccountCalls, NEW a \in Addresses, NEW purpose \in Purposes,
             AsksForMail(r, a, purpose)
      PROVE  AccountsInv'
  <2>1. DEFINE q == [step |-> "invalidate", for |-> a, purpose |-> purpose, at |-> mailClock,
                     earlier |-> {}]
  <2>2. q \in Inquiries /\ InquiryOK(q)'
    BY <1>t DEF Inquiries, InquiryOK, AccountsTyped
  <2>3. QED
    BY <1>3, <1>g, <1>s, <1>t, <2>2, OneInquiry DEF AsksForMail, AccountsTyped
<1>4. ASSUME NEW r \in AccountCalls, InvalidatesAll(r) PROVE AccountsInv'
  <2>1. PICK q \in Inquiries : inquiry[r] = q /\ InquiryOK(q)
    BY <1>k
  <2>2. q.for \in Addresses /\ q.purpose \in Purposes /\ q.at \in Nat /\ q.step = "invalidate"
    BY <1>4, <2>1 DEF InvalidatesAll, Inquiries, NotAsking
  <2>3. PICK old \in SUBSET Secrets : old = Issued(q.for, q.purpose)
    BY DEF Issued
  <2>4. secret' = [s \in Secrets |-> IF s \in old THEN [secret[s] EXCEPT !.consumed = TRUE]
                                     ELSE secret[s]]
    BY <1>4, <2>1, <2>3 DEF InvalidatesAll
  <2>5. PICK n : n = [q EXCEPT !.step = "issue", !.earlier = old]
    OBVIOUS
  <2>6. inquiry' = [inquiry EXCEPT ![r] = n] /\ n \in [step : {"issue"}, for : {q.for},
                                       purpose : {q.purpose}, at : {q.at}, earlier : {old}]
    <3>1. q \in [step : {"invalidate", "issue"}, for : Addresses, purpose : Purposes, at : Nat,
                 earlier : SUBSET Secrets]
      BY <2>2 DEF Inquiries, NotAsking
    <3>2. n \in [step : {"issue"}, for : {q.for}, purpose : {q.purpose}, at : {q.at},
                 earlier : {old}]
      BY <2>5, <3>1
    <3>3. inquiry' = [inquiry EXCEPT ![r] = [@ EXCEPT !.step = "issue", !.earlier = old]]
      BY <1>4, <1>t, <2>1, <2>3 DEF InvalidatesAll, AccountsTyped
    <3>4. QED
      BY <2>1, <2>5, <3>2, <3>3
  <2>7. \A s \in Secrets : /\ secret'[s] \in SecretRows
                           /\ secret'[s].owner = secret[s].owner
                           /\ secret'[s].purpose = secret[s].purpose
                           /\ ~Unconsumed(s) => secret'[s].consumed # FALSE
                           /\ s \in old => secret'[s].consumed = TRUE
    <3>1. ASSUME NEW s \in Secrets
          PROVE  /\ secret'[s] \in SecretRows
                 /\ secret'[s].owner = secret[s].owner /\ secret'[s].purpose = secret[s].purpose
                 /\ ~Unconsumed(s) => secret'[s].consumed # FALSE
                 /\ s \in old => secret'[s].consumed = TRUE
      <4>1. PICK row \in SecretRows : row = secret[s]
        BY <1>t DEF AccountsTyped
      <4>2. CASE s \in old
        <5>1. secret'[s] = [row EXCEPT !.consumed = TRUE]
          BY <2>4, <4>1, <4>2
        <5>2. QED
          BY <4>1, <5>1 DEF SecretRows
      <4>3. CASE s \notin old
        <5>1. secret'[s] = row
          BY <2>4, <4>1, <4>3
        <5>2. QED
          BY <4>1, <4>3, <5>1 DEF Unconsumed
      <4>4. QED
        BY <4>2, <4>3
    <3>2. QED
      BY <3>1
  <2>8. UNCHANGED <<mailClock, account, password, verified, mailed, spent, swept>>
    BY <1>4 DEF InvalidatesAll
  <2>9. SecretsGrow
    BY <2>7, <2>8 DEF SecretsGrow
  <2>10. n \in Inquiries /\ InquiryOK(n)'
    BY <2>2, <2>6, <2>7 DEF Inquiries, InquiryOK, Unconsumed
  <2>11. \A s \in Secrets : SecretOK(s)'
    BY <1>t, <2>7, <2>8 DEF AccountsInv, SecretOK, Unconsumed, AccountsTyped
  <2>12. secret' \in [Secrets -> SecretRows]
    BY <2>4, <2>7
  <2>13. QED
    BY <2>6, <2>8, <2>9, <2>10, <2>11, <2>12, <1>t, OneInquiry DEF AccountsTyped
<1>5. ASSUME NEW r \in AccountCalls, NEW s \in Secrets, Issues(r, s) PROVE AccountsInv'
  <2>1. PICK q \in Inquiries : inquiry[r] = q /\ InquiryOK(q)
    BY <1>k
  <2>2. /\ q.for \in Addresses /\ q.purpose \in Purposes /\ q.at \in Nat
        /\ q.earlier \subseteq Secrets /\ \A u \in q.earlier : ~Unconsumed(u)
    BY <1>5, <2>1 DEF Issues, Inquiries, NotAsking, InquiryOK
  <2>3. PICK row \in SecretRows :
           row = [owner |-> q.for, purpose |-> q.purpose, expires |-> q.at + Lifetime,
                  consumed |-> FALSE]
    <3>1. q.at + Lifetime \in Nat
      BY <2>2
    <3>2. QED
      BY <2>2, <3>1 DEF SecretRows
  <2>4. /\ secret[s] = NotIssued /\ secret' = [secret EXCEPT ![s] = row]
        /\ swept' = [swept EXCEPT ![s] = q.earlier]
        /\ inquiry' = [inquiry EXCEPT ![r] = [step |-> "deliver", secret |-> s]]
        /\ UNCHANGED <<mailClock, account, password, verified, mailed, spent>>
    BY <1>5, <2>1, <2>3 DEF Issues
  <2>5. secret[s].purpose \notin Purposes /\ Unconsumed(s)
    BY <2>4 DEF NotIssued, Purposes, Unconsumed
  <2>6. SecretsGrow
    BY <1>t, <2>4, <2>5 DEF SecretsGrow, AccountsTyped, Unconsumed
  <2>7. [step |-> "deliver", secret |-> s] \in Inquiries
    BY DEF Inquiries
  <2>8. InquiryOK([step |-> "deliver", secret |-> s])'
    BY DEF InquiryOK
  <2>9. \A u \in Secrets : ~Unconsumed(u) => ~Unconsumed(u)'
    BY <2>6 DEF SecretsGrow, Unconsumed
  <2>10. ASSUME NEW u \in Secrets PROVE SecretOK(u)'
    <3>0. SecretOK(u)
      BY DEF AccountsInv
    <3>1. CASE u = s
      <4>1. spent[s] # 1
        BY <2>5, <3>0, <3>1 DEF SecretOK
      <4>2. secret'[s] = row /\ swept'[s] = q.earlier /\ spent'[s] = spent[s]
        BY <1>t, <2>4 DEF AccountsTyped
      <4>3. row.owner \in Addresses
        BY <2>2, <2>3
      <4>4. QED
        BY <2>2, <2>9, <3>0, <3>1, <4>1, <4>2, <4>3 DEF SecretOK
    <3>2. CASE u # s
      <4>1. secret'[u] = secret[u] /\ swept'[u] = swept[u] /\ spent'[u] = spent[u]
        BY <1>t, <2>4, <3>2 DEF AccountsTyped
      <4>2. swept[u] \subseteq Secrets
        BY <1>t DEF AccountsTyped
      <4>3. QED
        BY <2>9, <3>0, <4>1, <4>2 DEF SecretOK, Unconsumed
    <3>3. QED
      BY <3>1, <3>2
  <2>11. secret' \in [Secrets -> SecretRows] /\ swept' \in [Secrets -> SUBSET Secrets]
    BY <1>t, <2>2, <2>4 DEF AccountsTyped
  <2>12. QED
    BY <1>t, <2>4, <2>6, <2>7, <2>8, <2>10, <2>11, OneInquiry DEF AccountsTyped
<1>6. ASSUME NEW r \in AccountCalls, Delivers(r) PROVE AccountsInv'
  <2>1. PICK q \in Inquiries : inquiry[r] = q
    BY <1>k
  <2>2. q.secret \in Secrets
    BY <1>6, <2>1 DEF Delivers, Inquiries, NotAsking
  <2>3. mailed' \subseteq Secrets
    BY <1>6, <1>t, <2>1, <2>2 DEF Delivers, AccountsTyped
  <2>4. QED
    BY <1>6, <1>n, <1>g, <1>s, <1>t, <2>3, OneInquiry DEF Delivers, InquiryEnds, AccountsTyped
<1>7. ASSUME NEW r \in AccountCalls, NEW s \in Secrets, NEW purpose \in Purposes,
             Presents(r, s, purpose)
      PROVE  AccountsInv'
  <2>1. DEFINE q == [step |-> "consume", secret |-> s, purpose |-> purpose, at |-> mailClock]
  <2>2. q \in Inquiries /\ InquiryOK(q)'
    BY <1>t DEF Inquiries, InquiryOK, AccountsTyped
  <2>3. QED
    BY <1>7, <1>g, <1>s, <1>t, <2>2, OneInquiry DEF Presents, AccountsTyped
<1>8. ASSUME NEW r \in AccountCalls, Consumes(r) PROVE AccountsInv'
  <2>1. PICK q \in Inquiries : inquiry[r] = q /\ InquiryOK(q)
    BY <1>k
  <2>2. /\ q \in [step : {"consume", "owner"}, secret : Secrets, purpose : Purposes, at : Nat]
        /\ q.step = "consume"
    BY <1>8, <2>1 DEF Consumes, Inquiries, NotAsking
  <2>3. CASE Spendable(q.secret, q.purpose, q.at)
    <3>1. PICK s \in Secrets : s = q.secret
      BY <2>2
    <3>2. PICK n : n = [q EXCEPT !.step = "owner"]
      OBVIOUS
    <3>3. n \in Inquiries /\ n.step = "owner" /\ n.secret = s /\ n.purpose = q.purpose
      BY <2>2, <3>1, <3>2 DEF Inquiries
    <3>4. inquiry' = [inquiry EXCEPT ![r] = [@ EXCEPT !.step = "owner"]]
      BY <1>8, <2>1, <2>3 DEF Consumes, Step
    <3>5. inquiry' = [inquiry EXCEPT ![r] = n]
      BY <2>1, <3>2, <3>4
    <3>6. /\ secret' = [secret EXCEPT ![s].consumed = TRUE]
          /\ spent' = [spent EXCEPT ![s] = @ + 1]
          /\ UNCHANGED <<mailClock, account, password, verified, mailed, swept>>
      BY <1>8, <2>1, <2>3, <3>1 DEF Consumes
    <3>7. Unconsumed(s) /\ secret[s].purpose = q.purpose /\ q.purpose \in Purposes
      BY <1>t, <2>2, <2>3, <3>1 DEF Spendable, Unconsumed, AccountsTyped, SecretRows
    <3>8. spent[s] = 0 /\ secret[s].owner \in Addresses
      BY <3>7 DEF AccountsInv, SecretOK
    <3>9. \A u \in Secrets : /\ secret'[u] \in SecretRows
                             /\ secret'[u].owner = secret[u].owner
                             /\ secret'[u].purpose = secret[u].purpose
                             /\ ~Unconsumed(u) => ~Unconsumed(u)'
      <4>1. PICK row \in SecretRows : row = secret[s]
        BY <1>t DEF AccountsTyped
      <4>2. PICK new : new = [row EXCEPT !.consumed = TRUE]
        OBVIOUS
      <4>3. /\ new \in SecretRows /\ new.owner = row.owner /\ new.purpose = row.purpose
            /\ new.consumed = TRUE
        BY <4>1, <4>2 DEF SecretRows
      <4>4. secret' = [secret EXCEPT ![s] = new]
        BY <3>6, <4>1, <4>2
      <4>5. QED
        BY <1>t, <4>1, <4>3, <4>4 DEF AccountsTyped, Unconsumed
    <3>10. ~Unconsumed(s)' /\ spent'[s] = 1
      BY <1>t, <3>6, <3>8 DEF Unconsumed, AccountsTyped, SecretRows
    <3>11. \A u \in Secrets \ {s} : spent'[u] = spent[u]
      BY <1>t, <3>6 DEF AccountsTyped
    <3>12. SecretsGrow
      <4>1. \A u \in Secrets : spent[u] = 1 => spent'[u] = 1
        BY <3>8, <3>11
      <4>2. QED
        BY <3>9, <4>1 DEF SecretsGrow, Unconsumed
    <3>13. ASSUME NEW u \in Secrets PROVE SecretOK(u)'
      <4>1. SecretOK(u)
        BY DEF AccountsInv
      <4>2. swept'[u] = swept[u] /\ swept[u] \subseteq Secrets
        BY <1>t, <3>6 DEF AccountsTyped
      <4>3. \A v \in swept'[u] : ~Unconsumed(v)'
        BY <3>9, <4>1, <4>2 DEF SecretOK
      <4>4. CASE u = s
        BY <3>7, <3>8, <3>9, <3>10, <4>3, <4>4 DEF SecretOK
      <4>5. CASE u # s
        BY <3>9, <3>11, <4>1, <4>3, <4>5 DEF SecretOK
      <4>6. QED
        BY <4>4, <4>5
    <3>14. InquiryOK(n)'
      BY <3>3, <3>7, <3>9, <3>10 DEF InquiryOK, SpentOn
    <3>15. secret' \in [Secrets -> SecretRows] /\ spent' \in [Secrets -> Nat]
      <4>1. secret' \in [Secrets -> SecretRows]
        BY <1>t, <3>6, <3>9 DEF AccountsTyped
      <4>2. spent' = [spent EXCEPT ![s] = 1]
        BY <3>6, <3>8
      <4>3. QED
        BY <1>t, <4>1, <4>2 DEF AccountsTyped
    <3>16. QED
      BY <1>t, <3>3, <3>5, <3>6, <3>12, <3>13, <3>14, <3>15, OneInquiry DEF AccountsTyped
  <2>4. CASE ~Spendable(q.secret, q.purpose, q.at)
    <3>1. UNCHANGED <<mailClock, account, password, verified, mailTables>> /\ InquiryEnds(r)
      BY <1>8, <2>1, <2>4 DEF Consumes
    <3>2. QED
      BY <3>1, <1>n, <1>g, <1>s, <1>t, OneInquiry DEF InquiryEnds, AccountsTyped
  <2>5. QED
    BY <2>3, <2>4
<1>9. ASSUME NEW r \in AccountCalls, ReadsOwner(r) PROVE AccountsInv'
  <2>1. PICK q \in Inquiries : inquiry[r] = q /\ InquiryOK(q)
    BY <1>k
  <2>2. q.step = "owner" /\ q.secret \in Secrets /\ q.purpose \in Purposes
    BY <1>9, <2>1 DEF ReadsOwner, Inquiries, NotAsking
  <2>3. PICK a \in Addresses : a = secret[q.secret].owner /\ SpentOn(q.secret, a, q.purpose)
    BY <2>1, <2>2 DEF AccountsInv, SecretOK, InquiryOK, SpentOn
  <2>4. UNCHANGED <<mailClock, account, password, verified, secret, mailed, spent, swept>>
    BY <1>9 DEF ReadsOwner
  <2>5. SpentOn(q.secret, a, q.purpose)'
    BY <2>3, <2>4 DEF SpentOn
  <2>6. ASSUME NEW n \in Inquiries, inquiry' = [inquiry EXCEPT ![r] = n], InquiryOK(n)'
        PROVE  AccountsInv'
    BY <1>g, <1>s, <1>t, <2>4, <2>6, OneInquiry DEF AccountsTyped
  <2>7. CASE /\ q.purpose = "verification"
             /\ inquiry' = [inquiry EXCEPT ![r] = [step |-> "mark", for |-> a]]
    <3>1. [step |-> "mark", for |-> a] \in Inquiries
      BY DEF Inquiries
    <3>2. InquiryOK([step |-> "mark", for |-> a])'
      BY <2>2, <2>5, <2>7 DEF InquiryOK
    <3>3. QED
      BY <2>6, <2>7, <3>1, <3>2
  <2>8. CASE /\ q.purpose = "password_reset"
             /\ inquiry' = [inquiry EXCEPT ![r] =
                              [step |-> "password", for |-> a, by |-> q.secret]]
    <3>1. [step |-> "password", for |-> a, by |-> q.secret] \in Inquiries
      BY <2>2 DEF Inquiries
    <3>2. InquiryOK([step |-> "password", for |-> a, by |-> q.secret])'
      BY <2>2, <2>5, <2>8 DEF InquiryOK
    <3>3. QED
      BY <2>6, <2>8, <3>1, <3>2
  <2>9. CASE InquiryEnds(r)
    BY <1>n, <2>6, <2>9 DEF InquiryEnds
  <2>10. QED
    BY <1>9, <2>1, <2>3, <2>7, <2>8, <2>9 DEF ReadsOwner
<1>10. ASSUME NEW r \in AccountCalls, MarksVerified(r) PROVE AccountsInv'
  <2>1. PICK q \in Inquiries : inquiry[r] = q /\ InquiryOK(q)
    BY <1>k
  <2>2. q.for \in Addresses /\ \E s \in Secrets : SpentOn(s, q.for, "verification")
    BY <1>10, <2>1 DEF MarksVerified, Inquiries, NotAsking, InquiryOK
  <2>3. verified' = verified \cup {q.for}
    BY <1>10, <2>1 DEF MarksVerified
  <2>4. QED
    <3>1. /\ inquiry' = [inquiry EXCEPT ![r] = NotAsking]
          /\ UNCHANGED <<mailClock, account, password, secret, mailed, spent, swept>>
      BY <1>10 DEF MarksVerified, InquiryEnds, mailTables
    <3>2. SecretsGrow /\ \A s \in Secrets : SecretOK(s)'
      BY <1>g, <1>s, <3>1
    <3>3. /\ mailClock' \in Nat /\ account' \subseteq Addresses
          /\ secret' \in [Secrets -> SecretRows] /\ mailed' \subseteq Secrets
          /\ spent' \in [Secrets -> Nat] /\ swept' \in [Secrets -> SUBSET Secrets]
          /\ verified' \subseteq Addresses
      BY <1>t, <2>2, <2>3, <3>1 DEF AccountsTyped
    <3>4. \A a \in verified' \ verified : \E s \in Secrets : SpentOn(s, a, "verification")
      BY <2>2, <2>3
    <3>5. QED
      BY <1>n, <3>1, <3>2, <3>3, <3>4, OneInquiry
<1>11. ASSUME NEW r \in AccountCalls, GivesUp(r) PROVE AccountsInv'
  BY <1>11, <1>n, <1>g, <1>s, <1>t, OneInquiry DEF GivesUp, InquiryEnds, AccountsTyped
<1>12. CASE MailTicks
  BY <1>12, <1>t
     DEF MailTicks, AccountsInv, AccountsTyped, SecretOK, InquiryOK, SpentOn, Unconsumed
<1>13. CASE UNCHANGED accountVars
  BY <1>13, <1>t
     DEF accountVars, AccountsInv, AccountsTyped, SecretOK, InquiryOK, SpentOn, Unconsumed
<1>14. QED
  BY <1>1, <1>2, <1>3, <1>4, <1>5, <1>6, <1>7, <1>8, <1>9, <1>10, <1>11, <1>12, <1>13
     DEF AccountsNext

(* SecretsWorkOnce: a mailed secret is good for one request, its purpose   *)
(* and its owner's account, and of two that both work neither was there    *)
(* when the other's request invalidated the earlier ones.                  *)
THEOREM SecretsAreSingleUse == AccountsSpec => []SecretsWorkOnce
<1>1. AccountsInv => SecretsWorkOnce
  <2> SUFFICES ASSUME AccountsInv PROVE SecretsWorkOnce
    OBVIOUS
  <2>1. \A s \in Secrets : spent[s] <= 1
    BY DEF AccountsInv, SecretOK
  <2>2. \A a \in verified : \E s \in Issued(a, "verification") : spent[s] = 1
    BY DEF AccountsInv, SpentOn, Issued
  <2>3. \A t \in Secrets : \A s \in swept[t] : secret[s].consumed # FALSE
    BY DEF AccountsInv, SecretOK, Unconsumed
  <2>5. \A a \in Addresses : password[a] \in Secrets =>
          LET s == password[a] IN
          secret[s].owner = a /\ secret[s].purpose = "password_reset" /\ spent[s] = 1
    BY DEF AccountsInv, SpentOn
  <2>6. ASSUME NEW a \in Addresses, NEW purpose \in Purposes,
               NEW s \in {u \in Issued(a, purpose) : Spendable(u, purpose, mailClock)},
               NEW t \in {u \in Issued(a, purpose) : Spendable(u, purpose, mailClock)}
        PROVE  s \notin swept[t]
    <3>1. s \in Secrets /\ t \in Secrets /\ secret[s].consumed = FALSE
      BY DEF Issued, Spendable
    <3>2. QED
      BY <2>3, <3>1
  <2>7. QED
    BY <2>1, <2>2, <2>5, <2>6 DEF SecretsWorkOnce
<1>2. QED
  BY <1>1, InitAccounts, StepAccounts, PTL DEF AccountsSpec

HIDE AccountsAssumption

-----------------------------------------------------------------------------
(* What a lock on the cache relies on, for any keys, clients and capacity: *)
(* no call acts on an instant later than the clock, so an entry that it    *)
(* takes for expired has expired.                                          *)

USE CacheAssumption

Entries == [by : Clients, expires : Nat]

CallRecords ==
    {NotCalling} \cup [asks : {"get", "delete"}, key : CacheKeys, at : Nat]
                 \cup [asks : {"set", "set_if_absent"}, key : CacheKeys, ttl : Ttls, at : Nat]

CacheTyped ==
    /\ cacheClock \in Nat
    /\ entry \in [CacheKeys -> Entries \cup {NoEntry}]
    /\ calling \in [Clients -> CallRecords]
    /\ holders \in [CacheKeys -> SUBSET Entries]

HeldIn(map) == {k \in CacheKeys : map[k] # NoEntry}

CacheInv ==
    /\ CacheTyped
    /\ IsFiniteSet(Held) /\ Cardinality(Held) <= Capacity
    /\ \A c \in Clients : calling[c] # NotCalling => calling[c].at <= cacheClock
    /\ \A k \in CacheKeys : \A h \in holders[k] : h.expires > cacheClock => entry[k] = h

LEMMA InitCache == CacheInit => CacheInv
<1>1. CacheInit => Held = {}
  BY DEF CacheInit, Held
<1>2. QED
  BY <1>1, FS_EmptySet DEF CacheInit, CacheInv, CacheTyped, CallRecords

(* A map that keeps some of the entries, and every one that has not expired*)
LEMMA KeepsHolders ==
  ASSUME CacheInv, NEW map \in [CacheKeys -> Entries \cup {NoEntry}],
         \A k \in CacheKeys : map[k] # entry[k] =>
            map[k] = NoEntry /\ (entry[k] # NoEntry => entry[k].expires <= cacheClock)
  PROVE  /\ IsFiniteSet(HeldIn(map)) /\ Cardinality(HeldIn(map)) <= Capacity
         /\ \A k \in CacheKeys : \A h \in holders[k] : h.expires > cacheClock => map[k] = h
<1>1. HeldIn(map) \subseteq Held
  BY DEF HeldIn, Held
<1>2. IsFiniteSet(HeldIn(map)) /\ Cardinality(HeldIn(map)) <= Cardinality(Held)
  BY <1>1, FS_Subset DEF CacheInv
<1>3. Cardinality(Held) \in Nat /\ Cardinality(HeldIn(map)) \in Nat
  BY <1>2, FS_CardinalityType DEF CacheInv
<1>4. Cardinality(HeldIn(map)) <= Capacity
  BY <1>2, <1>3 DEF CacheInv
<1>5. ASSUME NEW k \in CacheKeys, NEW h \in holders[k], h.expires > cacheClock PROVE map[k] = h
  <2>1. entry[k] = h /\ h \in Entries
    BY <1>5 DEF CacheInv, CacheTyped
  <2>2. entry[k] # NoEntry /\ ~(entry[k].expires <= cacheClock)
    BY <1>5, <2>1 DEF Entries, CacheInv, CacheTyped
  <2>3. QED
    BY <2>1, <2>2
<1>6. QED
  BY <1>2, <1>4, <1>5

LEMMA RoomKeeps ==
  ASSUME CacheInv, NEW c \in Clients, Writes(c)
  PROVE  /\ Room(c) \in [CacheKeys -> Entries \cup {NoEntry}]
         /\ \A k \in CacheKeys : Room(c)[k] # entry[k] =>
               Room(c)[k] = NoEntry /\ (entry[k] # NoEntry => entry[k].expires <= cacheClock)
<1>1. calling[c] # NotCalling /\ calling[c].at \in Nat /\ calling[c].at <= cacheClock
  BY DEF Writes, CacheInv, CacheTyped, CallRecords, NotCalling
<1>2. PICK now \in Nat : now = calling[c].at /\ now <= cacheClock
  BY <1>1
<1>3. CASE Room(c) = entry
  BY <1>3 DEF CacheInv, CacheTyped
<1>4. CASE Room(c) = Purged(now)
  <2>1. Purged(now) \in [CacheKeys -> Entries \cup {NoEntry}]
    BY DEF Purged, CacheInv, CacheTyped
  <2>2. ASSUME NEW k \in CacheKeys, Purged(now)[k] # entry[k]
        PROVE  Purged(now)[k] = NoEntry /\ (entry[k] # NoEntry => entry[k].expires <= cacheClock)
    <3>1. Purged(now)[k] = NoEntry /\ ~Current(k, now)
      BY <2>2 DEF Purged
    <3>2. ASSUME entry[k] # NoEntry PROVE entry[k].expires <= cacheClock
      BY <1>2, <3>1, <3>2 DEF Current, CacheInv, CacheTyped, Entries
    <3>3. QED
      BY <3>1, <3>2
  <2>3. QED
    BY <1>4, <2>1, <2>2
<1>5. QED
  BY <1>2, <1>3, <1>4 DEF Room

(* One call is done: the frame of an action that ends a call.              *)
LEMMA CallEnds ==
  ASSUME CacheInv, NEW c \in Clients, Concluded(c), UNCHANGED cacheClock
  PROVE  /\ calling' \in [Clients -> CallRecords]
         /\ \A d \in Clients : calling'[d] # NotCalling => calling'[d].at <= cacheClock'
<1>1. calling \in [Clients -> CallRecords] /\ NotCalling \in CallRecords
  BY DEF CacheInv, CacheTyped, CallRecords
<1>2. calling' = [calling EXCEPT ![c] = NotCalling]
  BY DEF Concluded
<1>3. QED
  BY <1>1, <1>2 DEF CacheInv

LEMMA StepCache == CacheInv /\ [CacheNext]_cacheVars => CacheInv'
<1> SUFFICES ASSUME CacheInv, [CacheNext]_cacheVars PROVE CacheInv'
  OBVIOUS
<1>h. Held' = HeldIn(entry')
  BY DEF Held, HeldIn
<1>t. CacheTyped
  BY DEF CacheInv
<1>1. ASSUME NEW c \in Clients, Calls(c) PROVE CacheInv'
  <2>1. PICK call \in ReadCalls(cacheClock) \cup WriteCalls(cacheClock) :
           calling' = [calling EXCEPT ![c] = call]
    BY <1>1 DEF Calls
  <2>2. call \in CallRecords /\ call.at = cacheClock
    BY <1>t DEF ReadCalls, WriteCalls, CallRecords, CacheTyped
  <2>3. UNCHANGED <<cacheClock, entry, holders>>
    BY <1>1 DEF Calls
  <2>4. \A d \in Clients : calling'[d] # NotCalling => calling'[d].at <= cacheClock
    BY <1>t, <2>1, <2>2 DEF CacheInv, CacheTyped
  <2>5. CacheTyped'
    BY <1>t, <2>1, <2>2, <2>3 DEF CacheTyped
  <2>6. Held' = Held
    BY <2>3 DEF Held
  <2>7. QED
    BY <2>3, <2>4, <2>5, <2>6 DEF CacheInv
<1>2. ASSUME NEW c \in Clients, Gets(c) PROVE CacheInv'
  <2>1. PICK k \in CacheKeys, now \in Nat : k = calling[c].key /\ now = calling[c].at /\ now <= cacheClock
    BY <1>2, <1>t DEF Gets, CacheInv, CacheTyped, CallRecords, NotCalling
  <2>2. entry' = [entry EXCEPT ![k] = IF Current(k, now) THEN @ ELSE NoEntry]
    BY <1>2, <2>1 DEF Gets
  <2>3. /\ entry' \in [CacheKeys -> Entries \cup {NoEntry}]
        /\ \A j \in CacheKeys : entry'[j] # entry[j] => entry'[j] = NoEntry /\ j = k /\ ~Current(k, now)
    BY <1>t, <2>2 DEF CacheTyped
  <2>4. ~Current(k, now) /\ entry[k] # NoEntry => entry[k].expires <= cacheClock
    BY <1>t, <2>1 DEF Current, CacheTyped, Entries
  <2>5. UNCHANGED <<cacheClock, holders>> /\ Concluded(c)
    BY <1>2 DEF Gets
  <2>6. /\ IsFiniteSet(HeldIn(entry')) /\ Cardinality(HeldIn(entry')) <= Capacity
        /\ \A j \in CacheKeys : \A h \in holders[j] : h.expires > cacheClock => entry'[j] = h
    BY <2>3, <2>4, KeepsHolders
  <2>7. QED
    BY <1>h, <1>t, <2>3, <2>5, <2>6, CallEnds DEF CacheInv, CacheTyped
<1>3. ASSUME NEW c \in Clients, Deletes(c) PROVE CacheInv'
  <2>1. PICK k \in CacheKeys : k = calling[c].key
    BY <1>3, <1>t DEF Deletes, CacheTyped, CallRecords, NotCalling
  <2>2. /\ entry' = [entry EXCEPT ![k] = NoEntry] /\ holders' = [holders EXCEPT ![k] = {}]
        /\ Concluded(c) /\ UNCHANGED cacheClock
    BY <1>3, <2>1 DEF Deletes
  <2>3. CacheTyped'
    BY <1>t, <2>2, CallEnds DEF CacheTyped
  <2>4. Held' \subseteq Held
    BY <1>t, <2>2 DEF Held, CacheTyped
  <2>5. IsFiniteSet(Held') /\ Cardinality(Held') <= Cardinality(Held)
    BY <2>4, FS_Subset DEF CacheInv
  <2>6. Cardinality(Held) \in Nat /\ Cardinality(Held') \in Nat
    BY <2>5, FS_CardinalityType DEF CacheInv
  <2>7. Cardinality(Held') <= Capacity
    BY <2>5, <2>6 DEF CacheInv
  <2>8. \A j \in CacheKeys : \A h \in holders'[j] : h.expires > cacheClock' => entry'[j] = h
    BY <1>t, <2>2 DEF CacheInv, CacheTyped
  <2>9. QED
    BY <2>2, <2>3, <2>5, <2>7, <2>8, CallEnds DEF CacheInv
<1>4. ASSUME NEW c \in Clients, AlreadyPresent(c) PROVE CacheInv'
  <2>1. UNCHANGED <<cacheClock, entry, holders>> /\ Concluded(c) /\ UNCHANGED cacheClock
    BY <1>4 DEF AlreadyPresent
  <2>2. Held' = Held
    BY <2>1 DEF Held
  <2>3. QED
    BY <2>1, <2>2, CallEnds DEF CacheInv, CacheTyped
<1>5. ASSUME NEW c \in Clients, RefusedByCapacity(c) PROVE CacheInv'
  <2>1. Writes(c) /\ entry' = Room(c) /\ Concluded(c) /\ UNCHANGED <<cacheClock, holders>>
    BY <1>5 DEF RefusedByCapacity
  <2>2. PICK map \in [CacheKeys -> Entries \cup {NoEntry}] :
           /\ map = Room(c)
           /\ \A k \in CacheKeys : map[k] # entry[k] =>
                 map[k] = NoEntry /\ (entry[k] # NoEntry => entry[k].expires <= cacheClock)
    BY <2>1, RoomKeeps
  <2>3. /\ IsFiniteSet(HeldIn(map)) /\ Cardinality(HeldIn(map)) <= Capacity
        /\ \A k \in CacheKeys : \A h \in holders[k] : h.expires > cacheClock => map[k] = h
    BY <2>2, KeepsHolders
  <2>4. entry' = map
    BY <2>1, <2>2
  <2>5. Held' = HeldIn(map)
    BY <1>h, <2>4
  <2>6. QED
    BY <1>t, <2>1, <2>3, <2>4, <2>5, CallEnds DEF CacheInv, CacheTyped
<1>6. ASSUME NEW c \in Clients, Stores(c) PROVE CacheInv'
  <2>1. Writes(c) /\ ~Full(c) /\ Concluded(c) /\ UNCHANGED cacheClock
    BY <1>6 DEF Stores
  <2>2. PICK call \in [asks : {"set", "set_if_absent"}, key : CacheKeys, ttl : Ttls, at : Nat] :
           call = calling[c] /\ call.at <= cacheClock
    BY <1>t, <2>1 DEF Writes, CacheInv, CacheTyped, CallRecords, NotCalling
  <2>3. PICK map \in [CacheKeys -> Entries \cup {NoEntry}] :
           /\ map = Room(c)
           /\ \A k \in CacheKeys : map[k] # entry[k] =>
                 map[k] = NoEntry /\ (entry[k] # NoEntry => entry[k].expires <= cacheClock)
    BY <2>1, RoomKeeps
  <2>4. /\ IsFiniteSet(HeldIn(map)) /\ Cardinality(HeldIn(map)) <= Capacity
        /\ \A k \in CacheKeys : \A h \in holders[k] : h.expires > cacheClock => map[k] = h
    BY <2>3, KeepsHolders
  <2>5. PICK k \in CacheKeys, new \in Entries :
           k = call.key /\ new = [by |-> c, expires |-> call.at + call.ttl]
    <3>1. call.key \in CacheKeys /\ call.at \in Nat /\ call.ttl \in Ttls
      BY <2>2
    <3>2. call.ttl \in Nat
      BY <3>1
    <3>3. call.at + call.ttl \in Nat
      BY <3>1, <3>2
    <3>4. [by |-> c, expires |-> call.at + call.ttl] \in Entries
      BY <3>3 DEF Entries
    <3>5. QED
      BY <3>1, <3>4
  <2>6. entry' = [map EXCEPT ![k] = new]
    BY <1>6, <2>2, <2>3, <2>5 DEF Stores
  <2>7. entry'[k] = new /\ entry' \in [CacheKeys -> Entries \cup {NoEntry}]
    BY <2>6
  <2>8. holders' = [holders EXCEPT ![k] =
                      IF call.asks = "set" THEN {}
                      ELSE {h \in @ : h.expires > cacheClock} \cup {new}]
    BY <1>6, <2>2, <2>5, <2>7 DEF Stores
  <2>9. holders' \in [CacheKeys -> SUBSET Entries]
    BY <1>t, <2>8 DEF CacheTyped
  <2>10. ASSUME NEW j \in CacheKeys, NEW h \in holders'[j], h.expires > cacheClock
         PROVE  entry'[j] = h
    <3>1. CASE j # k
      <4>1. h \in holders[j] /\ entry'[j] = map[j]
        BY <1>t, <2>6, <2>8, <3>1 DEF CacheTyped
      <4>2. QED
        BY <2>4, <2>10, <4>1
    <3>2. CASE j = k /\ h \in holders[k] /\ call.asks # "set"
      <4>1. call.asks = "set_if_absent" /\ ~Current(k, call.at)
        BY <1>6, <2>2, <2>5, <3>2 DEF Stores
      <4>2. entry[k] = h /\ h \in Entries
        BY <1>t, <2>10, <3>2 DEF CacheInv, CacheTyped
      <4>3. h.expires <= call.at
        BY <2>2, <4>1, <4>2 DEF Current, Entries
      <4>4. QED
        BY <1>t, <2>2, <2>10, <4>2, <4>3 DEF CacheTyped, Entries
    <3>3. CASE j = k /\ h = new
      BY <2>7, <3>3
    <3>4. j = k => call.asks # "set" /\ (h \in holders[k] \/ h = new)
      BY <1>t, <2>8, <2>10 DEF CacheTyped
    <3>5. QED
      BY <3>1, <3>2, <3>3, <3>4
  <2>11. IsFiniteSet(Held') /\ Cardinality(Held') <= Capacity
    <3>1. Held' = HeldIn(map) \cup {k}
      BY <1>h, <2>6, <2>7 DEF HeldIn, Entries
    <3>2. CASE map[k] # NoEntry
      <4>1. HeldIn(map) \cup {k} = HeldIn(map)
        BY <3>2 DEF HeldIn
      <4>2. QED
        BY <2>4, <3>1, <4>1
    <3>3. CASE map[k] = NoEntry
      <4>1. ~(Cardinality(HeldIn(map)) >= Capacity)
        BY <2>1, <2>2, <2>3, <2>5, <3>3 DEF Full, HeldIn
      <4>2. /\ IsFiniteSet(HeldIn(map) \cup {k}) /\ Cardinality(HeldIn(map)) \in Nat
            /\ Cardinality(HeldIn(map) \cup {k}) = Cardinality(HeldIn(map)) + 1
        <5>1. k \notin HeldIn(map)
          BY <3>3 DEF HeldIn
        <5>2. QED
          BY <2>4, <5>1, FS_AddElement, FS_CardinalityType
      <4>3. QED
        BY <3>1, <4>1, <4>2
    <3>4. QED
      BY <3>2, <3>3
  <2>12. QED
    BY <1>t, <2>1, <2>7, <2>9, <2>10, <2>11, CallEnds DEF CacheInv, CacheTyped
<1>7. CASE CacheTicks
  <2>1. /\ cacheClock' = cacheClock + 1 /\ UNCHANGED <<entry, calling, holders>>
    BY <1>7 DEF CacheTicks
  <2>2. Held' = Held /\ CacheTyped'
    BY <1>t, <2>1 DEF Held, CacheTyped
  <2>3. \A c \in Clients : calling[c] # NotCalling => calling[c].at \in Nat
    BY <1>t DEF CacheTyped, CallRecords
  <2>4. \A c \in Clients : calling'[c] # NotCalling => calling'[c].at <= cacheClock'
    BY <1>t, <2>1, <2>3 DEF CacheInv, CacheTyped
  <2>5. \A k \in CacheKeys : \A h \in holders[k] : h.expires \in Nat
    BY <1>t DEF CacheTyped, Entries
  <2>6. \A k \in CacheKeys : \A h \in holders'[k] : h.expires > cacheClock' => entry'[k] = h
    BY <1>t, <2>1, <2>5 DEF CacheInv, CacheTyped
  <2>7. QED
    BY <2>2, <2>4, <2>6 DEF CacheInv
<1>8. CASE UNCHANGED cacheVars
  <2>1. UNCHANGED <<cacheClock, entry, calling, holders>> /\ Held' = Held
    BY <1>8 DEF cacheVars, Held
  <2>2. QED
    BY <2>1 DEF CacheInv, CacheTyped
<1>9. QED
  BY <1>1, <1>2, <1>3, <1>4, <1>5, <1>6, <1>7, <1>8 DEF CacheNext

(* CacheElectsOne: at most one call that was told "stored" is in force for *)
(* a key, the map holds its entry, and the map stays within its capacity.  *)
THEOREM CacheElectsOneHolder == CacheSpec => []CacheElectsOne
<1>1. CacheInv => CacheElectsOne
  BY DEF CacheInv, CacheElectsOne
<1>2. QED
  BY <1>1, InitCache, StepCache, PTL DEF CacheSpec

HIDE CacheAssumption

-----------------------------------------------------------------------------
(* A proof that an object is whole, for any calls on its key: a name is    *)
(* taken by a put that has written all its file, whose file no other call  *)
(* writes, and a call that is still at work after its caller was answered  *)
(* is one whose caller timed out: whoever changes the name after it was    *)
(* answered is such a call.                                                *)

PutSteps == {"Put", "PutHeader", "PutBody", "PutRename"}
GetSteps == {"Get", "GetHeader", "GetBody"}
OperationSteps == PutSteps \cup GetSteps \cup {"New", "Delete", "DeleteRemoves", "Over"}
ObjectAnswers ==
    {"Nothing", "Waits", "Ok", "Failed", "Denied", "Absent", "Deleted", "TimedOut", "Died"}
Unanswered == {"Nothing", "Waits"}
SomeFile == Operations \cup {NoFile}

ObjectsTyped ==
    /\ present \in Operations \cup {NoFile, Link} /\ changer \in SomeFile
    /\ written \in [Operations -> [header : SomeFile, body : SomeFile]]
    /\ operation \in [Operations -> OperationSteps]
    /\ answered \in [Operations -> ObjectAnswers]
    /\ earlier \in [Operations -> SUBSET Operations]
    /\ reading \in [Operations -> [file : SomeFile, header : SomeFile, body : SomeFile]]

WrittenBy(o) == written[o].header = o /\ written[o].body = o

OperationOK(o) ==
    /\ operation[o] = "New" <=> answered[o] = "Nothing"
    /\ operation[o] \notin {"New", "Over"} => answered[o] \in {"Waits", "TimedOut"}
    /\ operation[o] = "Over" => answered[o] # "Waits"
    /\ written[o].header \in {o, NoFile} /\ written[o].body \in {o, NoFile}
    /\ operation[o] \notin {"PutRename", "Over"} => written[o].body = NoFile
    /\ operation[o] = "PutBody" => written[o].header = o
    /\ operation[o] = "PutRename" => WrittenBy(o)
    /\ operation[o] \in {"GetHeader", "GetBody"} => reading[o].file \in Operations
    /\ reading[o].file \in Operations => WrittenBy(reading[o].file)
    /\ operation[o] = "GetBody" => reading[o].header = reading[o].file
    /\ operation[o] # "Over" => reading[o].body = NoFile
    /\ reading[o].body # NoFile => reading[o].header = reading[o].body
    /\ \A p \in earlier[o] : answered[p] \notin Unanswered /\ p # o

Overtaken(o) ==
    written[o].body = o /\ answered[o] = "Ok" =>
     /\ changer # NoFile
     /\ changer \in earlier[o] => answered[changer] = "TimedOut"

ObjectsInv ==
    /\ ObjectsTyped
    /\ \A o \in Operations : OperationOK(o) /\ Overtaken(o)
    /\ present \in Operations => WrittenBy(present) /\ operation[present] = "Over"

LEMMA InitObjects == ObjectsInit => ObjectsInv
  BY ObjectsAssumption
  DEF ObjectsInit, ObjectsInv, ObjectsTyped, OperationOK, Overtaken, Unwritten, OperationSteps,
      ObjectAnswers, SomeFile, PutSteps, GetSteps, Unanswered

(* A step of one call leaves the others as they are.                       *)
OnlyCall(o) ==
    \A p \in Operations \ {o} :
       /\ operation'[p] = operation[p] /\ answered'[p] = answered[p]
       /\ written'[p] = written[p] /\ reading'[p] = reading[p] /\ earlier'[p] = earlier[p]

LEMMA OneCall ==
  ASSUME ObjectsInv, NEW o \in Operations, OnlyCall(o), ObjectsTyped', OperationOK(o)',
         WrittenBy(o) => WrittenBy(o)',
         answered[o] \in Unanswered \/ answered'[o] = answered[o]
  PROVE  \A p \in Operations : OperationOK(p)'
<1>1. \A p \in Operations : WrittenBy(p) => WrittenBy(p)'
  BY DEF OnlyCall, WrittenBy
<1>2. \A p \in Operations : answered[p] \notin Unanswered => answered'[p] = answered[p]
  BY DEF OnlyCall
<1>3. ASSUME NEW p \in Operations \ {o} PROVE OperationOK(p)'
  <2>1. OperationOK(p) /\ earlier[p] \subseteq Operations
    BY DEF ObjectsInv, ObjectsTyped
  <2>2. operation'[p] = operation[p] /\ answered'[p] = answered[p] /\ written'[p] = written[p]
        /\ reading'[p] = reading[p] /\ earlier'[p] = earlier[p]
    BY DEF OnlyCall
  <2>3. \A q \in earlier'[p] : answered'[q] \notin Unanswered /\ q # p
    BY <1>2, <2>1, <2>2 DEF OperationOK
  <2>4. reading'[p].file \in Operations => WrittenBy(reading[p].file)'
    <3>1. reading[p].file \in Operations => WrittenBy(reading[p].file)
      BY <2>1 DEF OperationOK
    <3>2. PICK f : f = reading[p].file
      OBVIOUS
    <3>3. f \in Operations => WrittenBy(f) /\ WrittenBy(f)'
      BY <1>1, <3>1, <3>2
    <3>4. QED
      BY <2>2, <3>2, <3>3 DEF WrittenBy
  <2>5. WrittenBy(p)' <=> WrittenBy(p)
    BY <2>2 DEF WrittenBy
  <2>6. QED
    BY <2>1, <2>2, <2>3, <2>4, <2>5 DEF OperationOK
<1>4. QED
  BY <1>3

(* A step that does not take the name keeps what it names.                 *)
LEMMA NameKept ==
  ASSUME ObjectsInv, NEW o \in Operations, OnlyCall(o), ObjectsTyped', OperationOK(o)',
         WrittenBy(o) => WrittenBy(o)',
         answered[o] \in Unanswered \/ answered'[o] = answered[o],
         present' \in {present, NoFile}, changer' = changer,
         operation[o] # "Over" \/ operation'[o] = "Over",
         answered'[o] = "Ok" /\ written'[o].body = o =>
            answered[o] = "Ok" /\ written[o].body = o /\ earlier'[o] = earlier[o]
  PROVE  ObjectsInv'
<1>1. \A p \in Operations : OperationOK(p)'
  BY OneCall
<1>2. present' \in Operations => present' = present /\ present \in Operations
  BY ObjectsAssumption DEF ObjectsInv, ObjectsTyped
<1>3. present' \in Operations => WrittenBy(present)' /\ operation'[present'] = "Over"
  <2>1. ASSUME NEW p \in Operations, WrittenBy(p), operation[p] = "Over"
        PROVE  WrittenBy(p)' /\ operation'[p] = "Over"
    BY <2>1 DEF OnlyCall, WrittenBy
  <2>2. QED
    BY <1>2, <2>1 DEF ObjectsInv, WrittenBy
<1>4. ASSUME NEW p \in Operations, written'[p].body = p, answered'[p] = "Ok"
      PROVE  changer # NoFile /\ (changer \in earlier'[p] => answered'[changer] = "TimedOut")
  <2>1. earlier'[p] = earlier[p] /\ written[p].body = p /\ answered[p] = "Ok"
    BY <1>4 DEF OnlyCall
  <2>2. changer # NoFile /\ (changer \in earlier[p] => answered[changer] = "TimedOut")
    BY <2>1 DEF ObjectsInv, Overtaken
  <2>3. changer \in Operations
    BY <2>2 DEF ObjectsInv, ObjectsTyped, SomeFile
  <2>4. answered[changer] = "TimedOut" => answered'[changer] = "TimedOut"
    BY <2>3 DEF OnlyCall, Unanswered
  <2>5. QED
    BY <2>1, <2>2, <2>4
<1>5. QED
  BY <1>1, <1>3, <1>4 DEF ObjectsInv, Overtaken

(* A call that changes the name is one whose caller waits or timed out.    *)
LEMMA NameTaken ==
  ASSUME ObjectsInv, NEW o \in Operations, OnlyCall(o), ObjectsTyped', OperationOK(o)',
         WrittenBy(o) => WrittenBy(o)', changer' = o, operation'[o] = "Over",
         answered[o] = "Waits" \/ (answered[o] = "TimedOut" /\ answered'[o] = "TimedOut"),
         (present' = NoFile \/ (present' = o /\ WrittenBy(o)'))
  PROVE  ObjectsInv'
<1>1. \A p \in Operations : OperationOK(p)'
  BY OneCall DEF Unanswered
<1>2. ASSUME NEW p \in Operations, o \in earlier'[p] PROVE answered'[o] = "TimedOut"
  <2>1. CASE p = o
    BY <1>1, <1>2, <2>1 DEF OperationOK
  <2>2. CASE p # o
    <3>1. o \in earlier[p]
      BY <1>2, <2>2 DEF OnlyCall
    <3>2. answered[o] \notin Unanswered
      BY <3>1 DEF ObjectsInv, OperationOK
    <3>3. QED
      BY <3>2 DEF Unanswered
  <2>3. QED
    BY <2>1, <2>2
<1>3. \A p \in Operations : Overtaken(p)'
  BY <1>2, ObjectsAssumption DEF Overtaken
<1>4. present' \in Operations => WrittenBy(present)' /\ operation'[present'] = "Over"
  BY ObjectsAssumption DEF WrittenBy
<1>5. QED
  BY <1>1, <1>3, <1>4 DEF ObjectsInv

LEMMA StepObjects == ObjectsInv /\ [ObjectsNext]_objectVars => ObjectsInv'
<1> SUFFICES ASSUME ObjectsInv, [ObjectsNext]_objectVars PROVE ObjectsInv'
  OBVIOUS
<1>0. ObjectsTyped /\ \A o \in Operations : OperationOK(o) /\ Overtaken(o)
  BY DEF ObjectsInv
<1> USE ObjectsAssumption
<1>1. ASSUME NEW o \in Operations, NEW work \in {"Put", "Get", "Delete"}, Begins(o, work)
      PROVE  ObjectsInv'
  <2>1. /\ operation[o] = "New" /\ operation' = [operation EXCEPT ![o] = work]
        /\ answered' = [answered EXCEPT ![o] = "Waits"]
        /\ earlier' = [earlier EXCEPT ![o] = {p \in Operations : answered[p] \notin Unanswered}]
        /\ UNCHANGED <<present, changer, written, reading>>
    BY <1>1 DEF Begins, Works, Unanswered
  <2>2. ObjectsTyped' /\ OnlyCall(o)
    BY <1>0, <2>1 DEF ObjectsTyped, OnlyCall, OperationSteps, PutSteps, GetSteps, ObjectAnswers
  <2>3. /\ operation'[o] = work /\ answered'[o] = "Waits" /\ answered[o] = "Nothing"
        /\ earlier'[o] = {p \in Operations : answered[p] \notin Unanswered}
    BY <1>0, <2>1 DEF ObjectsTyped, OperationOK
  <2>4. \A p \in earlier'[o] : answered'[p] \notin Unanswered /\ p # o
    BY <1>0, <2>1, <2>3 DEF Unanswered, ObjectsTyped
  <2>5. OperationOK(o)'
    BY <1>0, <2>1, <2>3, <2>4 DEF OperationOK, WrittenBy
  <2>6. QED
    BY <2>1, <2>2, <2>3, <2>5, NameKept DEF Unanswered, WrittenBy
<1>2. ASSUME NEW o \in Operations, NEW from \in OperationSteps \ {"New", "Over"},
             NEW tells \in {"Denied", "Failed", "Absent", "Deleted"},
             OperationEnds(o, from, tells), UNCHANGED <<written, reading>>,
             UNCHANGED <<present, changer>>
      PROVE  ObjectsInv'
  <2>1. /\ operation[o] = from /\ operation' = [operation EXCEPT ![o] = "Over"]
        /\ answered' = [answered EXCEPT ![o] = IF @ = "Waits" THEN tells ELSE @]
        /\ earlier' = earlier
    BY <1>2 DEF OperationEnds, Works
  <2>2. ObjectsTyped' /\ OnlyCall(o)
    BY <1>0, <1>2, <2>1 DEF ObjectsTyped, OnlyCall, OperationSteps, PutSteps, GetSteps, ObjectAnswers
  <2>3. /\ operation'[o] = "Over"
        /\ answered'[o] = IF answered[o] = "Waits" THEN tells ELSE answered[o]
        /\ answered[o] \in {"Waits", "TimedOut"}
    BY <1>0, <2>1 DEF ObjectsTyped, OperationOK
  <2>4. \A p \in earlier'[o] : answered'[p] \notin Unanswered /\ p # o
    BY <1>0, <2>1, <2>2, <2>3 DEF Unanswered, ObjectsTyped, OperationOK, OnlyCall
  <2>5. OperationOK(o)'
    BY <1>0, <1>2, <2>1, <2>3, <2>4 DEF OperationOK, WrittenBy
  <2>6. QED
    BY <1>2, <2>1, <2>2, <2>3, <2>5, NameKept DEF Unanswered, WrittenBy
<1>3. ASSUME NEW o \in Operations,
             \/ PutDenied(o) \/ PutFails(o) \/ FindsNone(o) \/ GetDenied(o) \/ GetFails(o)
             \/ DeleteFails(o)
      PROVE  ObjectsInv'
  <2>1. PICK from \in OperationSteps \ {"New", "Over"},
             tells \in {"Denied", "Failed", "Absent", "Deleted"} : OperationEnds(o, from, tells)
    BY <1>3
    DEF PutDenied, PutFails, FindsNone, GetDenied, GetFails, DeleteFails,
        OperationSteps, PutSteps, GetSteps
  <2>2. UNCHANGED <<written, reading, present, changer>>
    BY <1>3 DEF PutDenied, PutFails, FindsNone, GetDenied, GetFails, DeleteFails
  <2>3. QED
    BY <1>2, <2>1, <2>2
<1>4. ASSUME NEW o \in Operations, DeleteLooks(o) PROVE ObjectsInv'
  <2>1. CASE present \in Operations
    <3>1. /\ operation[o] = "Delete" /\ operation' = [operation EXCEPT ![o] = "DeleteRemoves"]
          /\ UNCHANGED <<present, changer, written, reading, answered, earlier>>
      BY <1>4, <2>1 DEF DeleteLooks, Works
    <3>2. ObjectsTyped' /\ OnlyCall(o) /\ operation'[o] = "DeleteRemoves"
      BY <1>0, <3>1 DEF ObjectsTyped, OnlyCall, OperationSteps
    <3>3. OperationOK(o)'
      BY <1>0, <3>1, <3>2 DEF OperationOK, WrittenBy
    <3>4. QED
      BY <3>1, <3>2, <3>3, NameKept DEF WrittenBy
  <2>2. CASE present \notin Operations
    <3>1. PICK tells \in {"Denied", "Absent"} : OperationEnds(o, "Delete", tells)
      BY <1>4, <2>2 DEF DeleteLooks
    <3>2. "Delete" \in OperationSteps \ {"New", "Over"}
      BY DEF OperationSteps
    <3>3. QED
      BY <1>2, <1>4, <3>1, <3>2 DEF DeleteLooks
  <2>3. QED
    BY <2>1, <2>2
<1>5. ASSUME NEW o \in Operations, PutOpens(o) \/ WritesHeader(o) \/ WritesBody(o)
      PROVE  ObjectsInv'
  <2>1. PICK to \in {"PutHeader", "PutBody", "PutRename"} :
           /\ operation' = [operation EXCEPT ![o] = to]
           /\ to = "PutHeader" => operation[o] = "Put" /\ written' = written
           /\ to = "PutBody" => /\ operation[o] = "PutHeader"
                                /\ written' = [written EXCEPT ![o].header = o]
           /\ to = "PutRename" => /\ operation[o] = "PutBody"
                                  /\ written' = [written EXCEPT ![o].body = o]
    BY <1>5 DEF PutOpens, WritesHeader, WritesBody, Works
  <2>2. UNCHANGED <<present, changer, answered, earlier, reading>>
    BY <1>5 DEF PutOpens, WritesHeader, WritesBody
  <2>3. written' \in [Operations -> [header : SomeFile, body : SomeFile]]
    BY <1>0, <2>1 DEF ObjectsTyped, SomeFile
  <2>4. ObjectsTyped' /\ OnlyCall(o) /\ operation'[o] = to
    BY <1>0, <2>1, <2>2, <2>3 DEF ObjectsTyped, OnlyCall, OperationSteps, PutSteps
  <2>5. /\ written[o].body = NoFile
        /\ to = "PutHeader" => written'[o] = written[o]
        /\ to = "PutBody" => written'[o].header = o /\ written'[o].body = NoFile
        /\ to = "PutRename" => written'[o].header = o /\ written'[o].body = o
    BY <1>0, <2>1 DEF OperationOK, ObjectsTyped
  <2>6. ~WrittenBy(o) /\ answered[o] # "Ok" /\ operation[o] # "Over"
    BY <1>0, <2>1, <2>5 DEF OperationOK, WrittenBy
  <2>7. reading[o].file # o
    BY <1>0, <2>6 DEF OperationOK
  <2>8. OperationOK(o)'
    <3>1. reading[o].file \in Operations => WrittenBy(reading[o].file)'
      <4>1. ASSUME NEW f \in Operations, f = reading[o].file PROVE WrittenBy(f)'
        BY <1>0, <2>4, <2>7, <4>1 DEF OperationOK, OnlyCall, WrittenBy
      <4>2. QED
        BY <2>2, <4>1 DEF WrittenBy
    <3>2. QED
      BY <1>0, <2>1, <2>2, <2>4, <2>5, <3>1 DEF OperationOK, WrittenBy
  <2>9. QED
    BY <2>2, <2>4, <2>6, <2>8, NameKept
<1>6. ASSUME NEW o \in Operations, PutReplaces(o) PROVE ObjectsInv'
  <2>1. /\ operation[o] = "PutRename" /\ operation' = [operation EXCEPT ![o] = "Over"]
        /\ answered' = [answered EXCEPT ![o] = IF @ = "Waits" THEN "Ok" ELSE @]
        /\ present' = o /\ changer' = o /\ UNCHANGED <<written, reading, earlier>>
    BY <1>6 DEF PutReplaces, OperationEnds, Works
  <2>2. ObjectsTyped' /\ OnlyCall(o)
    BY <1>0, <2>1 DEF ObjectsTyped, OnlyCall, OperationSteps, ObjectAnswers, SomeFile
  <2>3. /\ operation'[o] = "Over"
        /\ answered'[o] = IF answered[o] = "Waits" THEN "Ok" ELSE answered[o]
        /\ answered[o] \in {"Waits", "TimedOut"}
    BY <1>0, <2>1 DEF ObjectsTyped, OperationOK
  <2>4. \A p \in earlier'[o] : answered'[p] \notin Unanswered /\ p # o
    BY <1>0, <2>1, <2>2, <2>3 DEF Unanswered, ObjectsTyped, OperationOK, OnlyCall
  <2>5. OperationOK(o)' /\ WrittenBy(o)'
    BY <1>0, <2>1, <2>3, <2>4 DEF OperationOK, WrittenBy
  <2>6. answered[o] = "Waits" \/ (answered[o] = "TimedOut" /\ answered'[o] = "TimedOut")
    BY <2>3
  <2>7. changer' = o /\ (present' = NoFile \/ (present' = o /\ WrittenBy(o)'))
    BY <2>1, <2>5
  <2>8. QED
    BY <2>2, <2>3, <2>5, <2>6, <2>7, NameTaken
<1>7. ASSUME NEW o \in Operations, GetOpens(o) \/ ReadsHeader(o) PROVE ObjectsInv'
  <2>1. UNCHANGED <<present, changer, written, answered, earlier>>
    BY <1>7 DEF GetOpens, ReadsHeader
  <2>2. CASE GetOpens(o)
    <3>1. /\ present \in Operations /\ operation[o] = "Get"
          /\ operation' = [operation EXCEPT ![o] = "GetHeader"]
          /\ reading' = [reading EXCEPT ![o].file = present]
      BY <2>2 DEF GetOpens, Works
    <3>2. ObjectsTyped' /\ OnlyCall(o) /\ operation'[o] = "GetHeader"
      BY <1>0, <2>1, <3>1 DEF ObjectsTyped, OnlyCall, OperationSteps, GetSteps, SomeFile
    <3>3. /\ reading'[o].file = present /\ reading'[o].header = reading[o].header
          /\ reading'[o].body = NoFile
      BY <1>0, <3>1 DEF ObjectsTyped, OperationOK
    <3>4. WrittenBy(present) /\ reading[o].body = NoFile
      BY <1>0, <3>1 DEF ObjectsInv, OperationOK
    <3>5. OperationOK(o)'
      BY <1>0, <2>1, <3>1, <3>2, <3>3, <3>4 DEF OperationOK, WrittenBy
    <3>6. QED
      BY <2>1, <3>1, <3>2, <3>5, NameKept DEF WrittenBy
  <2>3. CASE ReadsHeader(o)
    <3>1. /\ operation[o] = "GetHeader" /\ operation' = [operation EXCEPT ![o] = "GetBody"]
          /\ reading' = [reading EXCEPT ![o].header = written[reading[o].file].header]
      BY <2>3 DEF ReadsHeader, Works
    <3>2. PICK f \in Operations : f = reading[o].file
      BY <1>0, <3>1 DEF OperationOK
    <3>3. WrittenBy(f) /\ written[f].header = f
      BY <1>0, <3>2 DEF OperationOK, WrittenBy
    <3>4. reading' = [reading EXCEPT ![o].header = f]
      BY <3>1, <3>2, <3>3
    <3>5. ObjectsTyped' /\ OnlyCall(o) /\ operation'[o] = "GetBody"
      BY <1>0, <2>1, <3>1, <3>4 DEF ObjectsTyped, OnlyCall, OperationSteps, GetSteps, SomeFile
    <3>6. reading'[o].file = f /\ reading'[o].header = f /\ reading'[o].body = NoFile
      BY <1>0, <3>1, <3>2, <3>4 DEF ObjectsTyped, OperationOK
    <3>7. OperationOK(o)'
      BY <1>0, <2>1, <3>1, <3>2, <3>3, <3>5, <3>6 DEF OperationOK, WrittenBy
    <3>8. QED
      BY <2>1, <3>1, <3>5, <3>7, NameKept DEF WrittenBy
  <2>4. QED
    BY <1>7, <2>2, <2>3
<1>8. ASSUME NEW o \in Operations, ReadsBody(o) PROVE ObjectsInv'
  <2>1. /\ operation[o] = "GetBody" /\ operation' = [operation EXCEPT ![o] = "Over"]
        /\ answered' = [answered EXCEPT ![o] = IF @ = "Waits" THEN "Ok" ELSE @]
        /\ reading' = [reading EXCEPT ![o].body = written[reading[o].file].body]
        /\ UNCHANGED <<written, present, changer, earlier>>
    BY <1>8 DEF ReadsBody, OperationEnds, Works
  <2>2. PICK f \in Operations : f = reading[o].file
    BY <1>0, <2>1 DEF OperationOK
  <2>3. WrittenBy(f) /\ written[f].body = f /\ reading[o].header = f /\ written[o].body = NoFile
    BY <1>0, <2>1, <2>2 DEF OperationOK, WrittenBy
  <2>4. reading' = [reading EXCEPT ![o].body = f]
    BY <2>1, <2>2, <2>3
  <2>5. ObjectsTyped' /\ OnlyCall(o)
    BY SMTT(30), <1>0, <2>1, <2>4 DEF ObjectsTyped, OnlyCall, OperationSteps, ObjectAnswers, SomeFile
  <2>6. /\ operation'[o] = "Over"
        /\ answered'[o] = IF answered[o] = "Waits" THEN "Ok" ELSE answered[o]
        /\ answered[o] \in {"Waits", "TimedOut"}
        /\ reading'[o].file = f /\ reading'[o].header = f /\ reading'[o].body = f
    BY <1>0, <2>1, <2>2, <2>3, <2>4 DEF ObjectsTyped, OperationOK
  <2>7. \A p \in earlier'[o] : answered'[p] \notin Unanswered /\ p # o
    BY <1>0, <2>1, <2>5, <2>6 DEF Unanswered, ObjectsTyped, OperationOK, OnlyCall
  <2>8. OperationOK(o)'
    BY <1>0, <2>1, <2>3, <2>6, <2>7 DEF OperationOK, WrittenBy
  <2>9. QED
    BY <2>1, <2>3, <2>5, <2>6, <2>8, NameKept DEF WrittenBy, Unanswered
<1>9. ASSUME NEW o \in Operations, OperationTimesOut(o) PROVE ObjectsInv'
  <2>1. /\ answered[o] = "Waits" /\ answered' = [answered EXCEPT ![o] = "TimedOut"]
        /\ UNCHANGED <<present, changer, written, operation, earlier, reading>>
    BY <1>9 DEF OperationTimesOut
  <2>2. ObjectsTyped' /\ OnlyCall(o) /\ answered'[o] = "TimedOut"
    BY <1>0, <2>1 DEF ObjectsTyped, OnlyCall, ObjectAnswers
  <2>3. \A p \in earlier'[o] : answered'[p] \notin Unanswered /\ p # o
    BY <1>0, <2>1, <2>2 DEF Unanswered, ObjectsTyped, OperationOK, OnlyCall
  <2>4. OperationOK(o)'
    BY <1>0, <2>1, <2>2, <2>3 DEF OperationOK, WrittenBy
  <2>5. QED
    BY <2>1, <2>2, <2>4, NameKept DEF WrittenBy, Unanswered
<1>10. ASSUME NEW o \in Operations, Removes(o) PROVE ObjectsInv'
  <2>1. CASE present = NoFile
    <3>1. OperationEnds(o, "DeleteRemoves", "Absent") /\ UNCHANGED <<written, reading, present, changer>>
      BY <1>10, <2>1 DEF Removes
    <3>2. "DeleteRemoves" \in OperationSteps \ {"New", "Over"}
      BY DEF OperationSteps
    <3>3. QED
      BY <1>2, <3>1, <3>2
  <2>2. CASE present # NoFile
    <3>1. /\ operation[o] = "DeleteRemoves" /\ operation' = [operation EXCEPT ![o] = "Over"]
          /\ answered' = [answered EXCEPT ![o] = IF @ = "Waits" THEN "Deleted" ELSE @]
          /\ present' = NoFile /\ changer' = o /\ UNCHANGED <<written, reading, earlier>>
      BY <1>10, <2>2 DEF Removes, OperationEnds, Works
    <3>2. ObjectsTyped' /\ OnlyCall(o)
      BY <1>0, <3>1 DEF ObjectsTyped, OnlyCall, OperationSteps, ObjectAnswers, SomeFile
    <3>3. /\ operation'[o] = "Over"
          /\ answered'[o] = IF answered[o] = "Waits" THEN "Deleted" ELSE answered[o]
          /\ answered[o] \in {"Waits", "TimedOut"}
      BY <1>0, <3>1 DEF ObjectsTyped, OperationOK
    <3>4. \A p \in earlier'[o] : answered'[p] \notin Unanswered /\ p # o
      BY <1>0, <3>1, <3>2, <3>3 DEF Unanswered, ObjectsTyped, OperationOK, OnlyCall
    <3>5. OperationOK(o)' /\ (WrittenBy(o) => WrittenBy(o)')
      BY <1>0, <3>1, <3>3, <3>4 DEF OperationOK, WrittenBy
    <3>6. answered[o] = "Waits" \/ (answered[o] = "TimedOut" /\ answered'[o] = "TimedOut")
      BY <3>3
    <3>7. changer' = o /\ (present' = NoFile \/ (present' = o /\ WrittenBy(o)'))
      BY <3>1
    <3>8. QED
      BY <3>2, <3>3, <3>5, <3>6, <3>7, NameTaken
  <2>3. QED
    BY <2>1, <2>2
<1>11. CASE StoreDies
  <2>1. /\ operation' = [o \in Operations |-> IF operation[o] = "New" THEN "New" ELSE "Over"]
        /\ answered' = [o \in Operations |-> IF answered[o] = "Waits" THEN "Died" ELSE answered[o]]
        /\ UNCHANGED <<present, changer, written, earlier, reading>>
    BY <1>11 DEF StoreDies
  <2>2. ObjectsTyped'
    BY <1>0, <2>1 DEF ObjectsTyped, OperationSteps, ObjectAnswers
  <2>3. ASSUME NEW o \in Operations PROVE OperationOK(o)'
    <3>1. \A p \in earlier[o] : answered'[p] \notin Unanswered /\ p # o
      BY <1>0, <2>1 DEF OperationOK, ObjectsTyped, Unanswered
    <3>2. QED
      BY <1>0, <2>1, <3>1 DEF OperationOK, WrittenBy, ObjectsTyped, OperationSteps, PutSteps,
         GetSteps
  <2>4. \A o \in Operations : Overtaken(o)'
    BY <1>0, <2>1 DEF Overtaken, ObjectsTyped
  <2>5. QED
    BY <2>1, <2>2, <2>3, <2>4 DEF ObjectsInv, WrittenBy
<1>12. CASE UNCHANGED objectVars
  BY <1>12
  DEF objectVars, ObjectsInv, ObjectsTyped, OperationOK, Overtaken, WrittenBy
<1>13. QED
  BY <1>1, <1>3, <1>4, <1>5, <1>6, <1>7, <1>8, <1>9, <1>10, <1>11, <1>12 DEF ObjectsNext

(* A key names one put's whole file, and what a get is told is one put's,  *)
(* whatever times out, fails or dies; a put that was told Ok took the name *)
(* and is undone by a call that was over for its caller when the put began *)
(* only if that caller was told it timed out (filesystem.rs, run).         *)
THEOREM ObjectsStayWhole == ObjectsSpec => []ObjectsAreWhole
<1>1. ObjectsInv => ObjectsAreWhole
  <2> SUFFICES ASSUME ObjectsInv PROVE ObjectsAreWhole
    OBVIOUS
  <2>1. present \in Operations => written[present] = [header |-> present, body |-> present]
    <3> SUFFICES ASSUME present \in Operations
                 PROVE  written[present] = [header |-> present, body |-> present]
      OBVIOUS
    <3>1. /\ written[present] \in [header : SomeFile, body : SomeFile]
          /\ written[present].header = present /\ written[present].body = present
      BY DEF ObjectsInv, ObjectsTyped, WrittenBy
    <3>2. QED
      BY <3>1
  <2>2. QED
    BY <2>1 DEF ObjectsInv, OperationOK, Overtaken, ObjectsAreWhole
<1>2. QED
  BY <1>1, InitObjects, StepObjects, PTL DEF ObjectsSpec

-----------------------------------------------------------------------------
(* A proof that `renvor new` places a whole project or nothing, for any    *)
(* runs: how far a run has come says how far its tree has, and what stands *)
(* at the destination is never what a later step replaces.                 *)

Staged == {"Empty", "Rendered", "Verified", "Recorded"}


NewStages == {"Start", "Opened"} \cup Working \cup Ended

Built(r) ==
    /\ stage[r] \in {"Start", "Opened", "Created"} => tree[r] = NoTree
    /\ stage[r] = "Rendering" => tree[r] = "Empty"
    /\ stage[r] = "Verifying" => tree[r] = "Rendered"
    /\ stage[r] = "Recording" => tree[r] = "Verified"
    /\ stage[r] \in {"Described", "Renaming"} => tree[r] = "Recorded"

NewInv ==
    /\ stage \in [Runs -> NewStages] /\ tree \in [Runs -> Staged \cup {NoTree}]
    /\ \A r \in Runs : Built(r)
    /\ PlacedWholeOrNotAtAll

LEMMA InitNew == NewInit => NewInv
<1> SUFFICES ASSUME NewInit PROVE NewInv
  OBVIOUS
<1>1. \A r \in Runs : destination # PlacedTree(r, "Recorded")
  BY DEF NewInit, Nothing, PlacedTree, NoTree
<1>2. destination = Nothing /\ destination # Theirs /\ filled = FALSE
  BY DEF NewInit, Nothing, Theirs, PlacedTree, NoTree
<1>3. \A r \in Runs : stage[r] = "Start" /\ tree[r] = NoTree
  BY DEF NewInit
<1>4. PlacedWholeOrNotAtAll
  BY <1>1, <1>2, <1>3 DEF PlacedWholeOrNotAtAll, Ended
<1>5. QED
  BY <1>3, <1>4 DEF NewInit, NewInv, NewStages, Built

(* A run that places nothing, and is not named out of turn. *)
LEMMA StepBeside ==
  ASSUME NewInv, NEW r \in Runs, NEW s \in NewStages \ {"Created"}, stage[r] # "Created",
         stage' = [stage EXCEPT ![r] = s], tree' \in [Runs -> Staged \cup {NoTree}],
         \A q \in Runs \ {r} : tree'[q] = tree[q],
         named \subseteq named', UNCHANGED <<destination, filled>>, Built(r)',
         s \in Ended \ {"Died"} /\ tree'[r] # NoTree => r \in named'
  PROVE  NewInv'
<1>1. /\ stage' \in [Runs -> NewStages] /\ stage'[r] = s
      /\ \A q \in Runs \ {r} : stage'[q] = stage[q]
  BY DEF NewInv
<1>2. \A q \in Runs : Built(q)'
  BY <1>1 DEF NewInv, Built
<1>3. PlacedWholeOrNotAtAll'
  BY <1>1 DEF NewInv, PlacedWholeOrNotAtAll
<1>4. QED
  BY <1>1, <1>2, <1>3 DEF NewInv

LEMMA StepDiscards ==
  ASSUME NewInv, NEW r \in Runs, NEW how \in {"Failed", "DryRun"}, stage[r] # "Created",
         Discards(r, how)
  PROVE  NewInv'
<1>1. how \in NewStages \ {"Created"} /\ how \in Ended
  BY DEF NewStages, Ended
<1>2. stage' = [stage EXCEPT ![r] = how] /\ UNCHANGED <<destination, filled>>
  BY DEF Discards
<1>3. stage'[r] = how
  BY <1>2 DEF NewInv
<1>4. \/ tree' = [tree EXCEPT ![r] = NoTree] /\ UNCHANGED named
      \/ named' = named \cup {r} /\ UNCHANGED tree
  BY DEF Discards
<1>5. /\ tree' \in [Runs -> Staged \cup {NoTree}] /\ (\A q \in Runs \ {r} : tree'[q] = tree[q])
      /\ named \subseteq named' /\ (tree'[r] # NoTree => r \in named')
  BY <1>4 DEF NewInv
<1>6. Built(r)'
  BY <1>3 DEF Built
<1>7. QED
  BY <1>1, <1>2, <1>5, <1>6, StepBeside

LEMMA StepNew == NewInv /\ [NewNext]_newVars => NewInv'
<1> SUFFICES ASSUME NewInv, [NewNext]_newVars PROVE NewInv'
  OBVIOUS
<1> USE DEF NewStages, Working, Ended, Advances
<1>1. ASSUME NEW r \in Runs,
             \/ Opens(r) \/ RefusesRun(r) \/ FindsAbsent(r) \/ NewDies(r)
      PROVE  NewInv'
  <2>1. PICK s \in {"Opened", "Failed", "Renaming", "Died"} :
           /\ stage' = [stage EXCEPT ![r] = s]
           /\ s = "Opened" => stage[r] = "Start"
           /\ s = "Failed" => stage[r] \in {"Start", "Opened"}
           /\ s = "Renaming" => stage[r] = "Described"
    BY <1>1 DEF Opens, RefusesRun, FindsAbsent, NewDies
  <2>2. stage[r] # "Created" /\ UNCHANGED <<tree, destination, named, filled>>
    BY <1>1 DEF Opens, RefusesRun, FindsAbsent, NewDies
  <2>3. stage'[r] = s /\ tree'[r] = tree[r] /\ tree' \in [Runs -> Staged \cup {NoTree}]
    BY <2>1, <2>2 DEF NewInv
  <2>4. Built(r)' /\ (s = "Failed" => tree'[r] = NoTree)
    BY <2>1, <2>3 DEF NewInv, Built
  <2>5. s \in NewStages \ {"Created"} /\ (s \in Ended \ {"Died"} => s = "Failed")
    OBVIOUS
  <2>6. QED
    BY <2>1, <2>2, <2>3, <2>4, <2>5, StepBeside
<1>2. ASSUME NEW r \in Runs,
             \/ CreatesStaging(r) \/ StagingUnopened(r)
             \/ Renders(r) \/ Verifies(r) \/ Records(r)
      PROVE  NewInv'
  <2>1. PICK s \in {"Rendering", "Failed", "Verifying", "Recording", "Described"} :
           stage' = [stage EXCEPT ![r] = s]
    BY <1>2 DEF CreatesStaging, StagingUnopened, Renders, Verifies, Records, Builds
  <2>2. /\ stage[r] # "Created" /\ UNCHANGED <<destination, filled>> /\ named \subseteq named'
        /\ tree' \in [Runs -> Staged \cup {NoTree}]
        /\ \A q \in Runs \ {r} : tree'[q] = tree[q]
    BY <1>2 DEF CreatesStaging, StagingUnopened, Renders, Verifies, Records, Builds, NewInv, Staged
  <2>3. stage'[r] = s
    BY <2>1 DEF NewInv
  <2>4. Built(r)'
    BY <1>2, <2>1, <2>3
    DEF CreatesStaging, StagingUnopened, Renders, Verifies, Records, Builds, NewInv, Built
  <2>5. s \in Ended \ {"Died"} /\ tree'[r] # NoTree => r \in named'
    BY <1>2, <2>3
    DEF CreatesStaging, StagingUnopened, Renders, Verifies, Records, Builds, NewInv, Built
  <2>6. QED
    BY <2>1, <2>2, <2>4, <2>5, StepBeside
<1>3. ASSUME NEW r \in Runs, StepFails(r) \/ DryRuns(r) \/ FindsTaken(r) \/ RenameFails(r)
      PROVE  NewInv'
  BY <1>3, StepDiscards DEF StepFails, DryRuns, FindsTaken, RenameFails
<1>4. ASSUME NEW r \in Runs, Renames(r) PROVE NewInv'
  <2>1. /\ stage[r] = "Renaming" /\ tree[r] = "Recorded" /\ destination \in {Nothing, EmptyDir}
        /\ destination' = PlacedTree(r, "Recorded")
        /\ tree' = [tree EXCEPT ![r] = NoTree] /\ stage' = [stage EXCEPT ![r] = "Created"]
        /\ UNCHANGED <<named, filled>>
    BY <1>4 DEF Renames, NewInv, Built
  <2>2. \A q \in Runs : destination # PlacedTree(q, "Recorded")
    BY <2>1 DEF Nothing, EmptyDir, PlacedTree, NoTree
  <2>3. \A q \in Runs : PlacedTree(r, "Recorded") = PlacedTree(q, "Recorded") <=> q = r
    BY DEF PlacedTree
  <2>4. /\ stage' \in [Runs -> NewStages] /\ tree' \in [Runs -> Staged \cup {NoTree}]
        /\ stage'[r] = "Created" /\ tree'[r] = NoTree
        /\ \A q \in Runs \ {r} : stage'[q] = stage[q] /\ tree'[q] = tree[q]
    BY <2>1 DEF NewInv
  <2>5. \A q \in Runs : Built(q)'
    BY <2>4 DEF NewInv, Built
  <2>6. ~filled /\ PlacedTree(r, "Recorded") # Theirs
    BY <2>1 DEF NewInv, PlacedWholeOrNotAtAll, Nothing, EmptyDir, Theirs, PlacedTree, NoTree
  <2>7. PlacedWholeOrNotAtAll'
    BY <2>1, <2>2, <2>3, <2>4, <2>6 DEF NewInv, PlacedWholeOrNotAtAll
  <2>8. QED
    BY <2>4, <2>5, <2>7 DEF NewInv
<1>5. CASE OthersMakeDirectory \/ OthersFill \/ UNCHANGED newVars
  <2>1. UNCHANGED <<stage, tree, named>>
    BY <1>5 DEF OthersMakeDirectory, OthersFill, newVars
  <2>2. \A q \in Runs : Built(q)'
    BY <2>1 DEF NewInv, Built
  <2>3. \A q \in Runs : PlacedTree(q, "Recorded") \notin {Nothing, EmptyDir, Theirs}
    BY DEF Nothing, EmptyDir, Theirs, PlacedTree, NoTree
  <2>4. EmptyDir # Theirs /\ Nothing # Theirs
    BY DEF Nothing, EmptyDir, Theirs, PlacedTree, NoTree
  <2>5. PlacedWholeOrNotAtAll'
    BY <1>5, <2>1, <2>3, <2>4
    DEF NewInv, PlacedWholeOrNotAtAll, OthersMakeDirectory, OthersFill, newVars
  <2>6. QED
    BY <2>1, <2>2, <2>5 DEF NewInv
<1>6. QED
  BY <1>1, <1>2, <1>3, <1>4, <1>5 DEF NewNext

(* However many runs and other programs want one destination, and wherever *)
(* a run fails or dies, it holds a whole project of one run, or what others*)
(* put there (new/place.rs and commands/new.rs).                           *)
THEOREM ProjectsArePlacedWhole == NewSpec => []PlacedWholeOrNotAtAll
<1>1. NewInv => PlacedWholeOrNotAtAll
  BY DEF NewInv
<1>2. QED
  BY <1>1, InitNew, StepNew, PTL DEF NewSpec

-----------------------------------------------------------------------------
(* A proof that no burst slips through a boundary, for any requests,       *)
(* limits and window.  A bucket charges a request from the commit that     *)
(* counted it without a refusal, admitted or on its way; the row bounds    *)
(* whom it has charged in its window (Tells), and every window that is     *)
(* over kept to the limit and to the bound (OverOnce).                     *)

USE AbuseAssumption

Starts == {q * Window : q \in Nat}

LEMMA WindowAround ==
  ASSUME NEW t \in Nat
  PROVE  /\ WindowStart(t) \in Starts /\ WindowStart(t) \in Nat
         /\ WindowStart(t) <= t /\ t < WindowStart(t) + Window
<1>1. t \div Window \in Nat
  OBVIOUS
<1>2. PICK q \in Nat : q = t \div Window
  BY <1>1
<1>3. q * Window <= t /\ t < q * Window + Window
  BY <1>2
<1>4. WindowStart(t) = q * Window
  BY <1>2 DEF WindowStart
<1>5. q * Window \in Nat
  OBVIOUS
<1>6. QED
  BY <1>3, <1>4, <1>5 DEF Starts

LEMMA StartsApart ==
  ASSUME NEW v \in Starts, NEW w \in Starts, v < w
  PROVE  v \in Nat /\ w \in Nat /\ v + Window <= w
<1>1. PICK p \in Nat : v = p * Window
  BY DEF Starts
<1>2. PICK q \in Nat : w = q * Window
  BY DEF Starts
<1>3. p * Window \in Nat /\ q * Window \in Nat
  OBVIOUS
<1>4. p < q
  <2>1. q <= p => q * Window <= p * Window
    OBVIOUS
  <2>2. QED
    BY <1>1, <1>2, <1>3, <2>1
<1>5. (p + 1) * Window <= q * Window
  BY <1>4
<1>6. (p + 1) * Window = p * Window + Window
  OBVIOUS
<1>7. QED
  BY <1>1, <1>2, <1>3, <1>5, <1>6

(* What a count may be, e instants into a window. *)
RoomFor(limit, prior, e, n) ==
    prior * (Window - e) + Window * n < Window * limit + Window

LEMMA RoomLater ==
  ASSUME NEW limit \in Nat, NEW p \in Nat, NEW e \in Nat, NEW f \in Nat, e <= f,
         NEW n \in Nat, NEW m \in Nat, m <= n, RoomFor(limit, p, e, n)
  PROVE  RoomFor(limit, p, f, m)
<1>1. p * (Window - f) <= p * (Window - e)
  OBVIOUS
<1>2. Window * m <= Window * n
  OBVIOUS
<1>3. QED
  BY <1>1, <1>2 DEF RoomFor

LEMMA RoomLeft ==
  ASSUME NEW limit \in Nat, NEW p \in Nat, NEW e \in Nat, e <= Window, NEW n \in Nat,
         ~(((p * (Window - e)) \div Window) + n > limit)
  PROVE  RoomFor(limit, p, e, n)
<1>1. PICK x \in Nat : x = p * (Window - e)
  <2>1. p * (Window - e) \in Nat
    OBVIOUS
  <2>2. QED
    BY <2>1
<1>2. PICK q \in Nat : q = x \div Window /\ x < q * Window + Window
  <2>1. x \div Window \in Nat
    OBVIOUS
  <2>2. PICK q \in Nat : q = x \div Window
    BY <2>1
  <2>3. x < q * Window + Window
    BY <2>2
  <2>4. QED
    BY <2>2, <2>3
<1>3. q + n <= limit
  BY <1>1, <1>2
<1>4. Window * (q + n) <= Window * limit
  BY <1>3
<1>5. Window * (q + n) = q * Window + Window * n
  OBVIOUS
<1>6. QED
  BY <1>1, <1>2, <1>4, <1>5 DEF RoomFor

LEMMA RoomBounds ==
  ASSUME NEW limit \in Nat, NEW p \in Nat, NEW e \in Nat, e < Window, NEW n \in Nat,
         RoomFor(limit, p, e, n)
  PROVE  /\ n <= limit
         /\ \A m \in Nat : m <= p /\ m <= limit => Window * (m + n - limit) < limit * e + Window
<1>1. p * (Window - e) >= 0
  OBVIOUS
<1>2. Window * n < Window * limit + Window
  BY <1>1 DEF RoomFor
<1>3. n <= limit
  <2>1. n >= limit + 1 => Window * n >= Window * (limit + 1)
    OBVIOUS
  <2>2. Window * (limit + 1) = Window * limit + Window
    OBVIOUS
  <2>3. QED
    BY <1>2, <2>1, <2>2
<1>4. ASSUME NEW m \in Nat, m <= p, m <= limit
      PROVE  Window * (m + n - limit) < limit * e + Window
  <2>1. Window * (m + n - limit) = m * (Window - e) + m * e + Window * n - Window * limit
    OBVIOUS
  <2>2. m * (Window - e) <= p * (Window - e)
    BY <1>4
  <2>3. m * e <= limit * e
    BY <1>4
  <2>4. QED
    BY <2>1, <2>2, <2>3 DEF RoomFor
<1>5. QED
  BY <1>3, <1>4

(* The states of a request, and which of them a bucket has charged and not *)
(* refused.                                                                *)
CounterRows == [start : Nat, current : Nat, previous : Nat]
RequestStates ==
    [at : {"new", "done"}]
    \cup [at : {"admitted"}, now : Nat]
    \cup [at : {"ensure", "lock", "audit"}, now : Nat, d : Nat, refused : BOOLEAN]
    \cup [at : {"write"}, now : Nat, d : Nat, refused : BOOLEAN, row : CounterRows]

AbuseTyped ==
    /\ counter \in [Dimensions -> CounterRows \cup {NoRow}]
    /\ holder \in [Dimensions -> Attempts \cup {Nobody}]
    /\ attempt \in [Attempts -> RequestStates]
    /\ moment \in 0 .. LastMoment
    /\ \A a \in Attempts :
          /\ attempt[a].at \notin {"new", "done"} => attempt[a].now <= moment
          /\ attempt[a].at \in {"ensure", "lock", "write"} => attempt[a].d \in Dimensions

Charges(r, d) ==
    \/ r.at = "admitted"
    \/ r.at \in {"ensure", "lock", "write"} /\ ~r.refused /\ r.d > d
    \/ r.at = "audit" /\ ~r.refused

Charged(d, from, to) ==
    {a \in Attempts : Charges(attempt[a], d) /\ attempt[a].now \in from .. to}

(* A row is its holder's, to insert or to count in. *)
HolderOK ==
    \A d \in Dimensions, a \in Attempts : holder[d] = a =>
        /\ attempt[a].at \in {"lock", "write"} /\ attempt[a].d = d
        /\ attempt[a].at = "lock" => counter[d] = NoRow

Carried(row, start) == IF row.start = start - Window THEN row.current ELSE 0

CountsIn(row, new, start) ==
    /\ new.start = start
    /\ row.start = start => new.current = row.current + 1 /\ new.previous = row.previous
    /\ row.start # start => new.current = 1 /\ new.previous = Carried(row, start)

WritesOK ==
    \A a \in Attempts : attempt[a].at = "write" =>
        LET row == counter[attempt[a].d]
            start == WindowStart(attempt[a].now)
        IN  /\ holder[attempt[a].d] = a /\ row.start <= start
            /\ CountsIn(row, attempt[a].row, start)

RowsOK ==
    \A d \in Dimensions :
        /\ counter[d].start <= WindowStart(moment)
        /\ counter[d] # NoRow => counter[d].start \in Starts

(* What a bucket says of this window, and of the one before. *)
RoomIn(d, row, w, to) ==
    \A t \in w .. to :
        \/ Charged(d, w, t) = {}
        \/ RoomFor(FlowLimits[d], row.previous, t - w, Cardinality(Charged(d, w, t)))

Tells(d, row, w) ==
    /\ row.start < w =>
          /\ Charged(d, w, moment) = {}
          /\ AdmittedIn(w - Window, w - 1) <= Carried(row, w)
    /\ row.start = w =>
          /\ AdmittedIn(w - Window, w - 1) <= row.previous
          /\ Cardinality(Charged(d, w, moment)) <= row.current
          /\ RoomIn(d, row, w, moment)

CountsOK == \A d \in Dimensions : Tells(d, counter[d], WindowStart(moment))

(* The windows that are over. *)
Bounded(d, t) ==
    Window * (AdmittedIn(WindowStart(t) - Window, t) - FlowLimits[d])
        < FlowLimits[d] * (t - WindowStart(t)) + Window

OverOnce ==
    \A d \in Dimensions, t \in 0 .. LastMoment : t < WindowStart(moment) =>
        /\ Bounded(d, t)
        /\ AdmittedIn(WindowStart(t), WindowStart(t) + Window - 1) <= FlowLimits[d]

AbuseInv == AbuseTyped /\ HolderOK /\ WritesOK /\ RowsOK /\ CountsOK /\ OverOnce

LEMMA DimensionFacts ==
  /\ Len(FlowLimits) \in Nat \ {0} /\ Dimensions = 1 .. Len(FlowLimits)
  /\ \A d \in Dimensions : FlowLimits[d] \in Nat \ {0}
BY DEF Dimensions

LEMMA CountFacts ==
  ASSUME NEW S, S \subseteq Attempts
  PROVE  /\ IsFiniteSet(S) /\ Cardinality(S) \in Nat /\ (Cardinality(S) = 0 <=> S = {})
         /\ \A T : T \subseteq S => IsFiniteSet(T) /\ Cardinality(T) <= Cardinality(S)
<1>1. IsFiniteSet(S) /\ Cardinality(S) \in Nat
  BY FS_Subset, FS_CardinalityType
<1>2. Cardinality(S) = 0 <=> S = {}
  BY <1>1, FS_EmptySet
<1>3. ASSUME NEW T, T \subseteq S PROVE IsFiniteSet(T) /\ Cardinality(T) <= Cardinality(S)
  BY <1>1, <1>3, FS_Subset
<1>4. QED
  BY <1>1, <1>2, <1>3

LEMMA PresentFacts ==
  ASSUME AbuseTyped
  PROVE  /\ moment \in Nat /\ WindowStart(moment) \in Starts /\ WindowStart(moment) \in Nat
         /\ WindowStart(moment) <= moment /\ moment < WindowStart(moment) + Window
         /\ \A a \in Attempts : attempt[a].at \notin {"new", "done"} =>
               attempt[a].now \in Nat /\ attempt[a].now <= moment
<1>1. moment \in Nat
  BY DEF AbuseTyped
<1>2. ASSUME NEW a \in Attempts, attempt[a].at \notin {"new", "done"}
      PROVE  attempt[a].now \in Nat /\ attempt[a].now <= moment
  BY <1>2 DEF AbuseTyped, RequestStates
<1>3. QED
  BY <1>1, <1>2, WindowAround

LEMMA Moved ==
  ASSUME AbuseTyped, NEW a \in Attempts, NEW r \in RequestStates, Proceeds(a, r)
  PROVE  /\ attempt' \in [Attempts -> RequestStates] /\ attempt'[a] = r
         /\ \A b \in Attempts : b # a => attempt'[b] = attempt[b]
BY DEF Proceeds, AbuseTyped

(* What has been admitted stays, and what has not yet been admitted is not *)
(* in a window that is over.                                               *)
LEMMA AdmittedStay ==
  ASSUME AbuseTyped, NEW a \in Attempts, NEW r \in RequestStates, Proceeds(a, r),
         attempt[a].at # "admitted", NEW from \in Int, NEW to \in Int,
         r.at = "admitted" => r.now > to
  PROVE  AdmittedBetween(from, to)' = AdmittedBetween(from, to)
<1>1. ASSUME NEW b \in Attempts
      PROVE  b \in AdmittedBetween(from, to)' <=> b \in AdmittedBetween(from, to)
  <2>1. CASE b = a
    <3>1. b \notin AdmittedBetween(from, to)
      BY <2>1 DEF AdmittedBetween
    <3>2. r.at = "admitted" => r.now \in Nat
      BY DEF RequestStates
    <3>3. b \notin AdmittedBetween(from, to)'
      BY <2>1, <3>2, Moved DEF AdmittedBetween
    <3>4. QED
      BY <3>1, <3>3
  <2>2. CASE b # a
    BY <2>2, Moved DEF AdmittedBetween
  <2>3. QED
    BY <2>1, <2>2
<1>2. AdmittedBetween(from, to) \subseteq Attempts /\ AdmittedBetween(from, to)' \subseteq Attempts
  BY DEF AdmittedBetween
<1>3. QED
  BY <1>1, <1>2

LEMMA OverStays ==
  ASSUME AbuseInv, NEW a \in Attempts, NEW r \in RequestStates, Proceeds(a, r),
         attempt[a].at # "admitted", UNCHANGED moment,
         r.at = "admitted" => r.now >= WindowStart(moment)
  PROVE  OverOnce'
<1>1. PICK w \in Starts : w = WindowStart(moment) /\ w \in Nat
  BY PresentFacts DEF AbuseInv
<1>2. WindowStart(moment)' = w
  BY <1>1 DEF WindowStart
<1>3. ASSUME NEW d \in Dimensions, NEW t \in 0 .. LastMoment, t < w
      PROVE  /\ Bounded(d, t)'
             /\ AdmittedIn(WindowStart(t), WindowStart(t) + Window - 1)' <= FlowLimits[d]
  <2>1. /\ WindowStart(t) \in Starts /\ WindowStart(t) \in Nat /\ WindowStart(t) + Window <= w
    BY <1>1, <1>3, WindowAround, StartsApart
  <2>2. r.at = "admitted" => r.now \in Nat
    BY DEF RequestStates
  <2>3. AdmittedBetween(WindowStart(t) - Window, t)' = AdmittedBetween(WindowStart(t) - Window, t)
    BY <1>1, <1>3, <2>1, <2>2, AdmittedStay DEF AbuseInv
  <2>4. AdmittedBetween(WindowStart(t), WindowStart(t) + Window - 1)'
           = AdmittedBetween(WindowStart(t), WindowStart(t) + Window - 1)
    BY <1>1, <2>1, <2>2, AdmittedStay DEF AbuseInv
  <2>5. /\ Bounded(d, t)
        /\ AdmittedIn(WindowStart(t), WindowStart(t) + Window - 1) <= FlowLimits[d]
    BY <1>1, <1>3 DEF AbuseInv, OverOnce
  <2>6. QED
    BY <2>3, <2>4, <2>5 DEF Bounded, AdmittedIn
<1>4. QED
  BY <1>2, <1>3 DEF OverOnce

(* A step after which a bucket charges the request no more than before. *)
LEMMA TellsStays ==
  ASSUME AbuseTyped, NEW a \in Attempts, NEW r \in RequestStates, Proceeds(a, r),
         attempt[a].at # "admitted", UNCHANGED moment,
         NEW w \in Starts, w = WindowStart(moment),
         r.at = "admitted" => r.now >= w,
         NEW d \in Dimensions,
         Charges(r, d) => Charges(attempt[a], d) /\ r.now = attempt[a].now,
         NEW row \in CounterRows \cup {NoRow}, Tells(d, row, w)
  PROVE  Tells(d, row, w)'
<1>1. w \in Nat /\ w <= moment /\ moment \in Nat
  BY PresentFacts
<1>2. ASSUME NEW t \in Int
      PROVE  Charged(d, w, t)' \subseteq Charged(d, w, t) /\ Charged(d, w, t) \subseteq Attempts
  <2>1. ASSUME NEW b \in Charged(d, w, t)' PROVE b \in Charged(d, w, t)
    <3>1. b \in Attempts /\ Charges(attempt'[b], d) /\ attempt'[b].now \in w .. t
      BY <2>1 DEF Charged
    <3>2. CASE b = a
      BY <3>1, <3>2, Moved DEF Charged
    <3>3. CASE b # a
      BY <3>1, <3>3, Moved DEF Charged
    <3>4. QED
      BY <3>2, <3>3
  <2>2. QED
    BY <2>1 DEF Charged
<1>3. AdmittedIn(w - Window, w - 1)' = AdmittedIn(w - Window, w - 1)
  <2>1. r.at = "admitted" => r.now \in Nat
    BY DEF RequestStates
  <2>2. AdmittedBetween(w - Window, w - 1)' = AdmittedBetween(w - Window, w - 1)
    BY <1>1, <2>1, AdmittedStay
  <2>3. QED
    BY <2>2 DEF AdmittedIn
<1>4. row.start < w => Charged(d, w, moment)' = {}
  BY <1>1, <1>2 DEF Tells
<1>5. ASSUME row.start = w
      PROVE  Cardinality(Charged(d, w, moment))' <= row.current /\ RoomIn(d, row, w, moment)'
  <2>1. row.current \in Nat /\ row.previous \in Nat
    BY DEF CounterRows, NoRow
  <2>2. ASSUME NEW t \in w .. moment
        PROVE  /\ Cardinality(Charged(d, w, t)') \in Nat /\ Cardinality(Charged(d, w, t)) \in Nat
               /\ Cardinality(Charged(d, w, t)') <= Cardinality(Charged(d, w, t))
    BY <1>1, <1>2, CountFacts
  <2>3. Cardinality(Charged(d, w, moment))' <= row.current
    BY <1>1, <1>5, <2>1, <2>2 DEF Tells
  <2>4. ASSUME NEW t \in w .. moment, Charged(d, w, t)' # {}
        PROVE  RoomFor(FlowLimits[d], row.previous, t - w, Cardinality(Charged(d, w, t)'))
    <3>1. RoomFor(FlowLimits[d], row.previous, t - w, Cardinality(Charged(d, w, t)))
      BY <1>1, <1>2, <1>5, <2>4 DEF Tells, RoomIn
    <3>2. PICK limit \in Nat, f \in Nat : limit = FlowLimits[d] /\ f = t - w
      BY <1>1, DimensionFacts
    <3>3. PICK n \in Nat, m \in Nat : /\ n = Cardinality(Charged(d, w, t))
                                      /\ m = Cardinality(Charged(d, w, t)') /\ m <= n
      BY <2>2
    <3>4. RoomFor(limit, row.previous, f, n)
      BY <3>1, <3>2, <3>3
    <3>5. PICK p \in Nat : p = row.previous
      BY <2>1
    <3>6. RoomFor(limit, p, f, m)
      <4>1. f <= f /\ m <= n /\ RoomFor(limit, p, f, n)
        BY <3>2, <3>3, <3>4, <3>5
      <4>2. limit \in Nat /\ p \in Nat /\ f \in Nat /\ n \in Nat /\ m \in Nat
        BY <3>2, <3>3, <3>5
      <4>3. QED
        BY <4>1, <4>2, RoomLater
    <3>7. QED
      BY <3>2, <3>3, <3>5, <3>6
  <2>5. QED
    BY <2>3, <2>4 DEF RoomIn
<1>6. QED
  BY <1>3, <1>4, <1>5 DEF Tells

LEMMA LowCount ==
  ASSUME NEW limit \in Nat, NEW e \in Nat, NEW n \in Nat, n <= limit
  PROVE  Window * (n - limit) < limit * e + Window
<1>1. Window * (n - limit) <= 0 /\ limit * e >= 0
  OBVIOUS
<1>2. QED
  BY <1>1

LEMMA FewerStill ==
  ASSUME NEW limit \in Nat, NEW n \in Nat, NEW m \in Nat, n <= m
  PROVE  Window * (n - limit) <= Window * (m - limit)
OBVIOUS

LEMMA TwoParts ==
  ASSUME NEW from \in Int, NEW w \in Int, NEW to \in Int, from <= w
  PROVE  /\ AdmittedIn(from, to) \in Nat /\ AdmittedIn(from, w - 1) \in Nat
         /\ AdmittedIn(w, to) \in Nat
         /\ AdmittedIn(from, to) <= AdmittedIn(from, w - 1) + AdmittedIn(w, to)
<1>1. /\ IsFiniteSet(AdmittedBetween(from, w - 1)) /\ IsFiniteSet(AdmittedBetween(w, to))
      /\ IsFiniteSet(AdmittedBetween(from, to))
      /\ AdmittedIn(from, to) \in Nat /\ AdmittedIn(from, w - 1) \in Nat /\ AdmittedIn(w, to) \in Nat
  BY CountFacts DEF AdmittedBetween, AdmittedIn
<1>2. AdmittedBetween(from, to) \subseteq AdmittedBetween(from, w - 1) \cup AdmittedBetween(w, to)
  BY DEF AdmittedBetween
<1>3. PICK S, T : /\ S = AdmittedBetween(from, w - 1) /\ T = AdmittedBetween(w, to)
                  /\ IsFiniteSet(S) /\ IsFiniteSet(T)
  BY <1>1
<1>4. /\ IsFiniteSet(S \cup T)
      /\ Cardinality(S \cup T) = Cardinality(S) + Cardinality(T) - Cardinality(S \cap T)
  BY <1>3, FS_Union
<1>5. Cardinality(S \cap T) \in Nat /\ Cardinality(S \cup T) \in Nat
  BY <1>3, <1>4, FS_Intersection, FS_CardinalityType
<1>6. Cardinality(AdmittedBetween(from, to)) <= Cardinality(S \cup T)
  BY <1>2, <1>3, <1>4, FS_Subset
<1>7. QED
  BY <1>1, <1>3, <1>4, <1>5, <1>6 DEF AdmittedIn

(* The window before this one. *)
LEMMA BeforeThis ==
  ASSUME AbuseInv, NEW d \in Dimensions
  PROVE  AdmittedIn(WindowStart(moment) - Window, WindowStart(moment) - 1) <= FlowLimits[d]
<1>1. PICK w \in Starts : w = WindowStart(moment) /\ w \in Nat /\ w <= moment
  BY PresentFacts DEF AbuseInv
<1>2. CASE w = 0
  <2>1. AdmittedBetween(w - Window, w - 1) = {}
    BY <1>2, PresentFacts DEF AdmittedBetween, AbuseInv
  <2>2. AdmittedIn(w - Window, w - 1) = 0
    BY <2>1, FS_EmptySet DEF AdmittedIn
  <2>3. QED
    BY <1>1, <2>2, DimensionFacts
<1>3. CASE w # 0
  <2>1. PICK v \in Starts : v = WindowStart(w - 1) /\ v \in Nat /\ v <= w - 1 /\ w - 1 < v + Window
    <3>1. w - 1 \in Nat
      BY <1>1, <1>3
    <3>2. QED
      BY <3>1, WindowAround
  <2>2. v + Window = w
    BY <1>1, <2>1, StartsApart
  <2>3. w - 1 \in 0 .. LastMoment
    BY <1>1, <1>3 DEF AbuseInv, AbuseTyped
  <2>4. AdmittedIn(WindowStart(w - 1), WindowStart(w - 1) + Window - 1) <= FlowLimits[d]
    BY <1>1, <2>3 DEF AbuseInv, OverOnce
  <2>5. v = w - Window /\ v + Window - 1 = w - 1
    BY <1>1, <2>1, <2>2
  <2>6. QED
    BY <1>1, <2>1, <2>4, <2>5
<1>4. QED
  BY <1>2, <1>3

(* This window. *)
LEMMA ThisWindow ==
  ASSUME AbuseInv, NEW d \in Dimensions
  PROVE  /\ \A t \in Nat : WindowStart(t) = WindowStart(moment) => Bounded(d, t)
         /\ AdmittedIn(WindowStart(moment), WindowStart(moment) + Window - 1) <= FlowLimits[d]
<1>w. PICK w \in Starts : /\ w = WindowStart(moment) /\ w \in Nat /\ w <= moment
                          /\ moment < w + Window /\ moment \in Nat
  BY PresentFacts DEF AbuseInv
<1>r. PICK row \in CounterRows \cup {NoRow} : row = counter[d]
  BY DEF AbuseInv, AbuseTyped
<1>p. PICK limit \in Nat : limit = FlowLimits[d]
  BY DimensionFacts
<1>0. row.current \in Nat /\ row.previous \in Nat
  BY DEF CounterRows, NoRow
<1>1. /\ row.start <= w /\ Tells(d, row, w)
  BY <1>w, <1>r DEF AbuseInv, RowsOK, CountsOK
<1>2. row.start \in Int
  BY DEF CounterRows, NoRow
<1>3. \A x \in Int : AdmittedBetween(w, x) \subseteq Charged(d, w, moment)
  BY <1>w, PresentFacts DEF AdmittedBetween, Charged, Charges, AbuseInv
<1>4. \A x \in Int : x <= moment => AdmittedBetween(w, x) \subseteq Charged(d, w, x)
  BY <1>w DEF AdmittedBetween, Charged, Charges
<1>5. \A x \in Int : /\ Charged(d, w, x) \subseteq Attempts /\ Cardinality(Charged(d, w, x)) \in Nat
                     /\ AdmittedIn(w, x) \in Nat
                     /\ AdmittedIn(w, x) = 0 <=> AdmittedBetween(w, x) = {}
  BY CountFacts DEF AdmittedBetween, AdmittedIn, Charged
<1>6. ASSUME Charged(d, w, moment) # {}
      PROVE  /\ row.start = w /\ AdmittedIn(w - Window, w - 1) <= row.previous
             /\ RoomIn(d, row, w, moment)
  BY <1>1, <1>2, <1>6, <1>w DEF Tells
<1>7. AdmittedIn(w, w + Window - 1) <= limit
  <2>z. PICK z \in Int : z = w + Window - 1
    BY <1>w
  <2>c. PICK c \in Nat : c = AdmittedIn(w, z) /\ (c = 0 <=> AdmittedBetween(w, z) = {})
    BY <1>5
  <2>1. CASE c = 0
    BY <2>1, <2>c, <2>z
  <2>2. CASE c # 0
    <3>1. AdmittedBetween(w, z) \subseteq Charged(d, w, moment) /\ AdmittedBetween(w, z) # {}
      BY <1>3, <2>2, <2>c
    <3>2. Charged(d, w, moment) # {} /\ Charged(d, w, moment) \subseteq Attempts
      <4>1. Charged(d, w, moment) # {}
        BY <3>1
      <4>2. Charged(d, w, moment) \subseteq Attempts
        BY DEF Charged
      <4>3. QED
        BY <4>1, <4>2
    <3>3. PICK k \in Nat : k = Cardinality(Charged(d, w, moment))
      BY <1>5, <1>w
    <3>4. c <= k
      BY <2>c, <3>1, <3>2, <3>3, CountFacts DEF AdmittedIn
    <3>5. PICK e \in Nat : e = moment - w /\ e < Window
      BY <1>w
    <3>6. RoomFor(limit, row.previous, e, k)
      BY <1>6, <1>p, <1>w, <3>2, <3>3, <3>5 DEF RoomIn
    <3>7. k <= limit
      BY <1>0, <3>5, <3>6, RoomBounds
    <3>8. QED
      BY <2>c, <2>z, <3>4, <3>7
  <2>3. QED
    BY <2>1, <2>2
<1>8. ASSUME NEW t \in Nat, WindowStart(t) = w PROVE Bounded(d, t)
  <2>1. w <= t /\ t < w + Window
    BY <1>8, WindowAround
  <2>2. PICK n \in Nat, m \in Nat, c \in Nat :
           /\ n = AdmittedIn(w - Window, t) /\ m = AdmittedIn(w - Window, w - 1)
           /\ c = AdmittedIn(w, t) /\ n <= m + c
    <3>1. w - Window \in Int /\ w \in Int /\ t \in Int /\ w - Window <= w
      BY <1>w
    <3>2. /\ AdmittedIn(w - Window, t) \in Nat /\ AdmittedIn(w - Window, w - 1) \in Nat
          /\ AdmittedIn(w, t) \in Nat
          /\ AdmittedIn(w - Window, t) <= AdmittedIn(w - Window, w - 1) + AdmittedIn(w, t)
      BY <3>1, TwoParts
    <3>3. QED
      BY <3>2
  <2>3. m <= limit
    BY <1>p, <1>w, <2>2, BeforeThis
  <2>4. t - w \in Nat /\ t - w < Window
    BY <1>w, <2>1
  <2>5. CASE c = 0
    <3>1. n <= limit
      BY <2>2, <2>3, <2>5
    <3>2. PICK e \in Nat : e = t - w
      BY <2>4
    <3>3. Window * (n - limit) < limit * e + Window
      BY <3>1, LowCount
    <3>4. Window * (n - limit) < limit * (t - w) + Window
      BY <3>2, <3>3
    <3>5. QED
      BY <1>8, <1>p, <2>2, <3>4 DEF Bounded
  <2>6. CASE c # 0
    <3>1. AdmittedBetween(w, t) # {}
      BY <1>5, <2>2, <2>6
    <3>2. Charged(d, w, moment) # {}
      BY <1>3, <3>1
    <3>3. row.start = w /\ m <= row.previous /\ RoomIn(d, row, w, moment)
      BY <1>6, <2>2, <3>2
    <3>4. PICK u \in w .. moment : u <= t /\ AdmittedBetween(w, t) \subseteq Charged(d, w, u)
      <4>1. CASE t <= moment
        BY <1>4, <1>w, <2>1, <4>1
      <4>2. CASE t > moment
        BY <1>3, <1>w, <2>1, <4>2
      <4>3. QED
        BY <1>w, <4>1, <4>2
    <3>5. PICK k \in Nat : k = Cardinality(Charged(d, w, u)) /\ c <= k
      <4>1. Charged(d, w, u) \subseteq Attempts /\ Cardinality(Charged(d, w, u)) \in Nat
        BY <1>5, <3>4
      <4>2. Cardinality(AdmittedBetween(w, t)) <= Cardinality(Charged(d, w, u))
        BY <3>4, <4>1, CountFacts
      <4>3. QED
        BY <2>2, <4>1, <4>2 DEF AdmittedIn
    <3>6. PICK e \in Nat, f \in Nat : e = u - w /\ f = t - w /\ e <= f /\ f < Window
      BY <1>w, <2>4, <3>4
    <3>7. RoomFor(limit, row.previous, f, c)
      <4>1. RoomFor(limit, row.previous, e, k)
        BY <1>p, <3>1, <3>3, <3>4, <3>5, <3>6 DEF RoomIn
      <4>2. QED
        BY <1>0, <3>5, <3>6, <4>1, RoomLater
    <3>8. Window * (m + c - limit) < limit * f + Window
      BY <1>0, <2>3, <3>3, <3>6, <3>7, RoomBounds
    <3>9. Window * (n - limit) <= Window * (m + c - limit)
      <4>1. PICK both \in Nat : both = m + c
        OBVIOUS
      <4>2. n <= both
        BY <2>2, <4>1
      <4>3. Window * (n - limit) <= Window * (both - limit)
        BY <4>2, FewerStill
      <4>4. QED
        BY <4>1, <4>3
    <3>10. Window * (n - limit) < limit * (t - w) + Window
      <4>1. PICK x \in Int, y \in Int, z \in Int : /\ x = Window * (n - limit)
                                                  /\ y = Window * (m + c - limit)
                                                  /\ z = limit * f + Window
        OBVIOUS
      <4>2. x <= y /\ y < z
        BY <3>8, <3>9, <4>1
      <4>3. x < z
        BY <4>2
      <4>4. z = limit * (t - w) + Window
        BY <3>6, <4>1
      <4>5. QED
        BY <4>1, <4>3, <4>4
    <3>11. QED
      BY <1>8, <1>p, <2>2, <3>10 DEF Bounded
  <2>7. QED
    BY <2>5, <2>6
<1>9. QED
  BY <1>7, <1>8, <1>p, <1>w

LEMMA BurstHolds == ASSUME AbuseInv PROVE BoundaryBurstBounded
<1> SUFFICES ASSUME NEW d \in Dimensions, NEW t \in 0 .. LastMoment PROVE Bounded(d, t)
  BY DEF BoundaryBurstBounded, Bounded
<1>w. PICK w \in Starts : /\ w = WindowStart(moment) /\ w \in Nat /\ moment < w + Window
  BY PresentFacts DEF AbuseInv
<1>t. t \in Nat
  OBVIOUS
<1>v. PICK v \in Starts : /\ v = WindowStart(t) /\ v \in Nat /\ v <= t /\ t < v + Window
  BY <1>t, WindowAround
<1>1. CASE v < w
  <2>1. t < w
    BY <1>1, <1>v, <1>w, StartsApart
  <2>2. QED
    BY <1>w, <2>1 DEF AbuseInv, OverOnce
<1>2. CASE v = w
  <2>1. WindowStart(t) = WindowStart(moment)
    BY <1>2, <1>v, <1>w
  <2>2. QED
    BY <1>t, <2>1, ThisWindow
<1>3. CASE v > w
  <2>1. w + Window <= v
    BY <1>3, <1>v, <1>w, StartsApart
  <2>2. AdmittedBetween(v - Window, t) \subseteq AdmittedBetween(w, w + Window - 1)
    <3>1. ASSUME NEW a \in AdmittedBetween(v - Window, t)
          PROVE  a \in AdmittedBetween(w, w + Window - 1)
      <4>1. a \in Attempts /\ attempt[a].at = "admitted" /\ attempt[a].now \in v - Window .. t
        BY DEF AdmittedBetween
      <4>2. attempt[a].now \in Nat /\ attempt[a].now <= moment /\ moment \in Nat
        BY <4>1, PresentFacts DEF AbuseInv
      <4>3. attempt[a].now \in w .. w + Window - 1
        BY SMTT(30), <1>v, <1>w, <2>1, <4>1, <4>2
      <4>4. QED
        BY <4>1, <4>3 DEF AdmittedBetween
    <3>2. QED
      BY <3>1
  <2>3. AdmittedBetween(w, w + Window - 1) \subseteq Attempts
    BY DEF AdmittedBetween
  <2>4. AdmittedIn(v - Window, t) <= AdmittedIn(w, w + Window - 1)
    BY <2>2, <2>3, CountFacts DEF AdmittedIn
  <2>5. /\ AdmittedIn(v - Window, t) \in Nat /\ AdmittedIn(w, w + Window - 1) \in Nat
    BY CountFacts DEF AdmittedIn, AdmittedBetween
  <2>6. AdmittedIn(w, w + Window - 1) <= FlowLimits[d]
    BY <1>w, ThisWindow
  <2>7. AdmittedIn(v - Window, t) <= FlowLimits[d]
    BY <2>4, <2>5, <2>6, DimensionFacts
  <2>8. PICK n \in Nat, limit \in Nat, e \in Nat :
           n = AdmittedIn(v - Window, t) /\ limit = FlowLimits[d] /\ e = t - v /\ n <= limit
    BY <1>v, <2>5, <2>7, DimensionFacts
  <2>9. Window * (n - limit) < limit * e + Window
    BY <2>8, LowCount
  <2>10. Window * (AdmittedIn(v - Window, t) - FlowLimits[d]) < FlowLimits[d] * (t - v) + Window
    BY <2>8, <2>9
  <2>11. QED
    BY <1>v, <2>10 DEF Bounded
<1>4. QED
  BY <1>1, <1>2, <1>3, <1>v, <1>w

(* A request takes a step, and no row changes. *)
LEMMA RowsStay ==
  ASSUME AbuseInv, NEW a \in Attempts, NEW r \in RequestStates, Proceeds(a, r),
         attempt[a].at # "admitted", UNCHANGED <<counter, moment>>,
         holder' \in [Dimensions -> Attempts \cup {Nobody}],
         r.at = "admitted" => r.now >= WindowStart(moment),
         r.at \notin {"new", "done"} => r.now <= moment,
         r.at \in {"ensure", "lock", "write"} => r.d \in Dimensions,
         \A d \in Dimensions :
            Charges(r, d) => Charges(attempt[a], d) /\ r.now = attempt[a].now
  PROVE  AbuseTyped' /\ RowsOK' /\ CountsOK' /\ OverOnce'
<1>1. AbuseTyped'
  BY Moved DEF AbuseInv, AbuseTyped
<1>2. PICK w \in Starts : w = WindowStart(moment) /\ w \in Nat
  BY PresentFacts DEF AbuseInv
<1>3. WindowStart(moment)' = w
  BY <1>2 DEF WindowStart
<1>4. RowsOK'
  BY <1>2, <1>3 DEF AbuseInv, RowsOK
<1>5. ASSUME NEW d \in Dimensions PROVE Tells(d, counter[d], WindowStart(moment))'
  <2>1. PICK row \in CounterRows \cup {NoRow} : row = counter[d]
    BY DEF AbuseInv, AbuseTyped
  <2>2. Tells(d, row, w)
    BY <1>2, <2>1 DEF AbuseInv, CountsOK
  <2>3. Tells(d, row, w)'
    BY <1>2, <2>2, TellsStays DEF AbuseInv
  <2>4. row = counter[d]' /\ w = WindowStart(moment)'
    BY <1>3, <2>1
  <2>5. QED
    BY <2>3, <2>4 DEF Tells, RoomIn
<1>6. CountsOK'
  BY <1>5 DEF CountsOK
<1>7. OverOnce'
  BY OverStays
<1>8. QED
  BY <1>1, <1>4, <1>6, <1>7

LEMMA HoldsNone ==
  ASSUME AbuseInv, NEW a \in Attempts, attempt[a].at \notin {"lock", "write"}
  PROVE  \A d \in Dimensions : holder[d] # a
BY DEF AbuseInv, HolderOK

LEMMA Freed ==
  ASSUME AbuseInv, NEW a \in Attempts, holder' = Frees(a)
  PROVE  /\ holder' \in [Dimensions -> Attempts \cup {Nobody}]
         /\ \A d \in Dimensions : /\ holder'[d] # a
                                  /\ \A b \in Attempts : b # a => (holder'[d] = b <=> holder[d] = b)
BY DEF Frees, AbuseInv, AbuseTyped

(* A request that holds no row leaves those of the others. *)
LEMMA OthersHold ==
  ASSUME AbuseInv, NEW a \in Attempts, NEW r \in RequestStates, Proceeds(a, r),
         r.at # "write", UNCHANGED counter,
         \A d \in Dimensions : /\ holder'[d] # a
                               /\ \A b \in Attempts : b # a => (holder'[d] = b <=> holder[d] = b)
  PROVE  HolderOK' /\ WritesOK'
<1>1. HolderOK'
  BY Moved DEF AbuseInv, HolderOK
<1>2. ASSUME NEW b \in Attempts, attempt'[b].at = "write"
      PROVE  LET row == counter'[attempt'[b].d]
                 start == WindowStart(attempt'[b].now)
             IN  /\ holder'[attempt'[b].d] = b /\ row.start <= start
                 /\ CountsIn(row, attempt'[b].row, start)
  <2>1. b # a /\ attempt'[b] = attempt[b]
    BY <1>2, Moved DEF AbuseInv
  <2>2. attempt[b].d \in Dimensions
    BY <1>2, <2>1 DEF AbuseInv, AbuseTyped
  <2>3. QED
    BY <1>2, <2>1, <2>2 DEF AbuseInv, WritesOK
<1>3. WritesOK'
  BY <1>2 DEF WritesOK, CountsIn, Carried, WindowStart
<1>4. QED
  BY <1>1, <1>3

LEMMA ArrivesInv ==
  ASSUME AbuseInv, NEW a \in Attempts, AttemptArrives(a)
  PROVE  AbuseInv'
<1>1. PICK r \in RequestStates :
         r = [at |-> "ensure", now |-> moment, d |-> 1, refused |-> FALSE]
  BY PresentFacts DEF AbuseInv, RequestStates
<1>2. Proceeds(a, r) /\ attempt[a].at = "new" /\ UNCHANGED <<counter, holder, moment>>
  BY <1>1 DEF AttemptArrives
<1>3. AbuseTyped' /\ RowsOK' /\ CountsOK' /\ OverOnce'
  <2>1. holder' \in [Dimensions -> Attempts \cup {Nobody}]
    BY <1>2 DEF AbuseInv, AbuseTyped
  <2>2. r.at = "ensure" /\ r.now <= moment /\ r.d = 1 /\ r.d \in Dimensions
    BY <1>1, PresentFacts, DimensionFacts DEF AbuseInv
  <2>3. \A d \in Dimensions : ~Charges(r, d)
    BY <2>2, DimensionFacts DEF Charges
  <2>4. QED
    BY <1>2, <2>1, <2>2, <2>3, RowsStay
<1>4. HolderOK' /\ WritesOK'
  BY <1>1, <1>2, HoldsNone, OthersHold
<1>5. QED
  BY <1>3, <1>4 DEF AbuseInv

LEMMA EnsuresInv ==
  ASSUME AbuseInv, NEW a \in Attempts, EnsuresRow(a)
  PROVE  AbuseInv'
<1>0. attempt[a].at = "ensure"
  BY DEF EnsuresRow
<1>1. PICK now \in Nat, d \in Nat, refused \in BOOLEAN :
         attempt[a] = [at |-> "ensure", now |-> now, d |-> d, refused |-> refused]
  BY <1>0 DEF AbuseInv, AbuseTyped, RequestStates
<1>2. PICK r \in RequestStates : r = [at |-> "lock", now |-> now, d |-> d, refused |-> refused]
  BY DEF RequestStates
<1>3. /\ Proceeds(a, r) /\ UNCHANGED <<counter, moment>>
      /\ IF counter[d] = NoRow THEN holder[d] = Nobody /\ holder' = [holder EXCEPT ![d] = a]
                               ELSE holder' = holder
  BY <1>1, <1>2 DEF EnsuresRow
<1>4. d \in Dimensions /\ now <= moment
  BY <1>1 DEF AbuseInv, AbuseTyped
<1>5. AbuseTyped' /\ RowsOK' /\ CountsOK' /\ OverOnce'
  <2>1. holder' \in [Dimensions -> Attempts \cup {Nobody}]
    BY <1>3 DEF AbuseInv, AbuseTyped
  <2>2. r.at = "lock" /\ r.now <= moment /\ r.d \in Dimensions
    BY <1>2, <1>4
  <2>3. \A e \in Dimensions : Charges(r, e) => Charges(attempt[a], e) /\ r.now = attempt[a].now
    BY <1>1, <1>2 DEF Charges
  <2>4. QED
    BY <1>0, <1>3, <2>1, <2>2, <2>3, RowsStay
<1>6. HolderOK'
  <2>1. \A e \in Dimensions : holder[e] # a
    BY <1>0, HoldsNone
  <2>2. ASSUME NEW e \in Dimensions, NEW b \in Attempts, holder'[e] = b
        PROVE  /\ attempt'[b].at \in {"lock", "write"} /\ attempt'[b].d = e
               /\ attempt'[b].at = "lock" => counter'[e] = NoRow
    <3>1. CASE b = a
      BY <1>2, <1>3, <1>4, <2>1, <2>2, <3>1, Moved DEF AbuseInv, AbuseTyped
    <3>2. CASE b # a
      BY <1>3, <1>4, <2>2, <3>2, Moved DEF AbuseInv, AbuseTyped, HolderOK
    <3>3. QED
      BY <3>1, <3>2
  <2>3. QED
    BY <2>2 DEF HolderOK
<1>7. WritesOK'
  <2>1. ASSUME NEW b \in Attempts, attempt'[b].at = "write"
        PROVE  LET row == counter'[attempt'[b].d]
                   start == WindowStart(attempt'[b].now)
               IN  /\ holder'[attempt'[b].d] = b /\ row.start <= start
                   /\ CountsIn(row, attempt'[b].row, start)
    <3>1. b # a /\ attempt'[b] = attempt[b]
      BY <1>2, <1>3, <2>1, Moved DEF AbuseInv
    <3>2. attempt[b].d \in Dimensions /\ holder[attempt[b].d] = b
      BY <2>1, <3>1 DEF AbuseInv, AbuseTyped, WritesOK
    <3>3. holder'[attempt[b].d] = b
      BY <1>3, <1>4, <3>2 DEF AbuseInv, AbuseTyped
    <3>4. QED
      BY <1>3, <2>1, <3>1, <3>3 DEF AbuseInv, WritesOK
  <2>2. QED
    BY <2>1 DEF WritesOK, CountsIn, Carried, WindowStart
<1>8. QED
  BY <1>5, <1>6, <1>7 DEF AbuseInv

(* A request past a dimension. *)
Onward(now, d, refused) ==
    [at |-> IF d = Len(FlowLimits) THEN "audit" ELSE "ensure", now |-> now,
     d |-> IF d = Len(FlowLimits) THEN 0 ELSE d + 1, refused |-> refused]

LEMMA OnwardFacts ==
  ASSUME NEW now \in Nat, NEW d \in Dimensions, NEW refused \in BOOLEAN
  PROVE  LET r == Onward(now, d, refused)
         IN  /\ r \in RequestStates /\ r.at \in {"audit", "ensure"} /\ r.now = now
             /\ r.at = "ensure" => r.d \in Dimensions
             /\ \A e \in Dimensions : Charges(r, e) <=> ~refused /\ e <= d
<1>1. CASE d = Len(FlowLimits)
  <2>1. Onward(now, d, refused) = [at |-> "audit", now |-> now, d |-> 0, refused |-> refused]
    BY <1>1 DEF Onward
  <2>2. QED
    BY <1>1, <2>1, DimensionFacts DEF RequestStates, Charges
<1>2. CASE d # Len(FlowLimits)
  <2>1. Onward(now, d, refused) = [at |-> "ensure", now |-> now, d |-> d + 1, refused |-> refused]
    BY <1>2 DEF Onward
  <2>2. d + 1 \in Dimensions /\ d \in Nat
    BY <1>2, DimensionFacts
  <2>3. QED
    BY <1>2, <2>1, <2>2, DimensionFacts DEF RequestStates, Charges
<1>3. QED
  BY <1>1, <1>2

LEMMA ClockRegressedInv ==
  ASSUME AbuseInv, NEW a \in Attempts, ClockRegressed(a)
  PROVE  AbuseInv'
<1>0. attempt[a].at = "lock"
  BY DEF ClockRegressed
<1>1. PICK now \in Nat, d \in Nat, refused \in BOOLEAN :
         attempt[a] = [at |-> "lock", now |-> now, d |-> d, refused |-> refused]
  BY <1>0 DEF AbuseInv, AbuseTyped, RequestStates
<1>2. d \in Dimensions /\ now <= moment
  BY <1>1 DEF AbuseInv, AbuseTyped
<1>3. PICK r \in RequestStates : r = Onward(now, d, TRUE)
  BY <1>2, OnwardFacts
<1>4. Proceeds(a, r) /\ UNCHANGED <<counter, holder, moment>> /\ holder[d] = Nobody
  <2>1. attempt[a].now = now /\ attempt[a].d = d /\ attempt[a].at = "lock"
    BY <1>1
  <2>2. (attempt[a].refused \/ TRUE) = TRUE
    OBVIOUS
  <2>3. NextDimension(a, TRUE) /\ UNCHANGED <<counter, holder, moment>> /\ holder[d] = Nobody
    BY <2>1 DEF ClockRegressed
  <2>4. Proceeds(a, Onward(now, d, TRUE))
    BY <2>1, <2>2, <2>3 DEF NextDimension, Onward
  <2>5. QED
    BY <1>3, <2>3, <2>4
<1>5. AbuseTyped' /\ RowsOK' /\ CountsOK' /\ OverOnce'
  <2>1. holder' \in [Dimensions -> Attempts \cup {Nobody}]
    BY <1>4 DEF AbuseInv, AbuseTyped
  <2>2. /\ r.at \in {"audit", "ensure"} /\ r.now <= moment
        /\ r.at = "ensure" => r.d \in Dimensions
        /\ \A e \in Dimensions : ~Charges(r, e)
    <3>1. PICK late \in BOOLEAN : late
      OBVIOUS
    <3>2. r = Onward(now, d, late)
      BY <1>3, <3>1
    <3>3. /\ r.at \in {"audit", "ensure"} /\ r.now = now /\ (r.at = "ensure" => r.d \in Dimensions)
          /\ \A e \in Dimensions : Charges(r, e) <=> ~late /\ e <= d
      BY <1>2, <3>2, OnwardFacts
    <3>4. QED
      BY <1>2, <3>1, <3>3
  <2>3. QED
    BY <1>0, <1>4, <2>1, <2>2, RowsStay
<1>6. \A e \in Dimensions : holder[e] # a
  <2>1. \A e \in Dimensions : holder[e] = a => e = d
    BY <1>1 DEF AbuseInv, HolderOK
  <2>2. QED
    BY <1>4, <2>1
<1>7. HolderOK' /\ WritesOK'
  <2>1. r.at # "write"
    BY <1>2, <1>3, OnwardFacts
  <2>2. QED
    BY <1>4, <1>6, <2>1, OthersHold
<1>8. QED
  BY <1>5, <1>7 DEF AbuseInv

LEMMA FailsInv ==
  ASSUME AbuseInv, NEW a \in Attempts, FailsClosed(a)
  PROVE  AbuseInv'
<1>1. PICK r \in RequestStates : r = [at |-> "done"]
  BY DEF RequestStates
<1>2. /\ Proceeds(a, r) /\ UNCHANGED <<counter, moment>> /\ holder' = Frees(a)
      /\ attempt[a].at # "admitted"
  BY <1>1 DEF FailsClosed
<1>3. AbuseTyped' /\ RowsOK' /\ CountsOK' /\ OverOnce'
  <2>1. r.at = "done" /\ \A d \in Dimensions : ~Charges(r, d)
    BY <1>1 DEF Charges
  <2>2. QED
    BY <1>2, <2>1, Freed, RowsStay
<1>4. HolderOK' /\ WritesOK'
  BY <1>1, <1>2, Freed, OthersHold
<1>5. QED
  BY <1>3, <1>4 DEF AbuseInv

LEMMA DecidesInv ==
  ASSUME AbuseInv, NEW a \in Attempts, Decides(a)
  PROVE  AbuseInv'
<1>0. attempt[a].at = "audit"
  BY DEF Decides
<1>1. PICK now \in Nat, d \in Nat, refused \in BOOLEAN :
         attempt[a] = [at |-> "audit", now |-> now, d |-> d, refused |-> refused]
  BY <1>0 DEF AbuseInv, AbuseTyped, RequestStates
<1>w. PICK w \in Nat : w = WindowStart(moment)
  BY PresentFacts DEF AbuseInv
<1>2. PICK r \in RequestStates : r = IF refused \/ w > now THEN [at |-> "done"]
                                     ELSE [at |-> "admitted", now |-> now]
  <2>1. [at |-> "done"] \in RequestStates /\ [at |-> "admitted", now |-> now] \in RequestStates
    BY DEF RequestStates
  <2>2. QED
    BY <2>1
<1>3. Proceeds(a, r) /\ UNCHANGED <<counter, holder, moment>>
  BY <1>1, <1>w, <1>2 DEF Decides
<1>4. now <= moment
  BY <1>1 DEF AbuseInv, AbuseTyped
<1>5. AbuseTyped' /\ RowsOK' /\ CountsOK' /\ OverOnce'
  <2>1. holder' \in [Dimensions -> Attempts \cup {Nobody}]
    BY <1>3 DEF AbuseInv, AbuseTyped
  <2>2. /\ r.at \in {"done", "admitted"}
        /\ r.at = "admitted" => ~refused /\ r.now = now /\ r.now >= w /\ r.now <= moment
    BY <1>2, <1>4
  <2>3. ASSUME NEW e \in Dimensions, Charges(r, e)
        PROVE  Charges(attempt[a], e) /\ r.now = attempt[a].now
    <3>1. r.at = "admitted"
      BY <2>2, <2>3 DEF Charges
    <3>2. QED
      BY <1>1, <2>2, <3>1 DEF Charges
  <2>4. QED
    BY <1>0, <1>w, <1>3, <2>1, <2>2, <2>3, RowsStay
<1>6. HolderOK' /\ WritesOK'
  BY <1>0, <1>2, <1>3, HoldsNone, OthersHold
<1>7. QED
  BY <1>5, <1>6 DEF AbuseInv

LEMMA CountedFacts ==
  ASSUME NEW start \in Nat
  PROVE  /\ \A row \in CounterRows : /\ Counted(row, start) \in CounterRows
                                     /\ CountsIn(row, Counted(row, start), start)
         /\ LET new == Counted([NoRow EXCEPT !.start = start], start)
            IN  new \in CounterRows /\ CountsIn(NoRow, new, start)
<1>1. ASSUME NEW row \in CounterRows
      PROVE  Counted(row, start) \in CounterRows /\ CountsIn(row, Counted(row, start), start)
  <2>1. CASE row.start = start
    BY <2>1 DEF Counted, CounterRows, CountsIn
  <2>2. CASE row.start # start
    BY <2>2 DEF Counted, CounterRows, CountsIn, Carried
  <2>3. QED
    BY <2>1, <2>2
<1>2. Counted([NoRow EXCEPT !.start = start], start) = [start |-> start, current |-> 1, previous |-> 0]
  <2>1. PICK row : row = [start |-> start, current |-> 0, previous |-> 0]
    OBVIOUS
  <2>2. [NoRow EXCEPT !.start = start] = row
    BY <2>1 DEF NoRow
  <2>3. Counted(row, start) = [row EXCEPT !.current = @ + 1]
    BY <2>1 DEF Counted
  <2>4. [row EXCEPT !.current = @ + 1] = [start |-> start, current |-> 1, previous |-> 0]
    BY <2>1
  <2>5. QED
    BY <2>2, <2>3, <2>4
<1>3. [start |-> start, current |-> 1, previous |-> 0] \in CounterRows
  BY DEF CounterRows
<1>4. CountsIn(NoRow, [start |-> start, current |-> 1, previous |-> 0], start)
  BY DEF CountsIn, NoRow, Carried
<1>5. QED
  BY <1>1, <1>2, <1>3, <1>4

LEMMA LocksInv ==
  ASSUME AbuseInv, NEW a \in Attempts, LocksRow(a)
  PROVE  AbuseInv'
<1>0. attempt[a].at = "lock"
  BY DEF LocksRow
<1>1. PICK now \in Nat, d \in Nat, refused \in BOOLEAN :
         attempt[a] = [at |-> "lock", now |-> now, d |-> d, refused |-> refused]
  BY <1>0 DEF AbuseInv, AbuseTyped, RequestStates
<1>2. d \in Dimensions /\ now <= moment
  BY <1>1 DEF AbuseInv, AbuseTyped
<1>3. PICK start \in Nat : start = WindowStart(now)
  BY WindowAround
<1>4. PICK row : row = IF holder[d] = a THEN [NoRow EXCEPT !.start = start] ELSE counter[d]
  OBVIOUS
<1>5. /\ holder[d] \in {a, Nobody} /\ row # NoRow /\ row.start <= start
      /\ holder' = [holder EXCEPT ![d] = a] /\ UNCHANGED <<counter, moment>>
      /\ Proceeds(a, [at |-> "write", now |-> now, d |-> d, refused |-> refused,
                      row |-> Counted(row, start)])
  BY <1>1, <1>3, <1>4 DEF LocksRow
<1>6. PICK new \in CounterRows : /\ new = Counted(row, start)
                                 /\ CountsIn(counter[d], new, start) /\ counter[d].start <= start
  <2>1. CASE holder[d] = a
    <3>1. counter[d] = NoRow
      BY <1>0, <1>2, <2>1 DEF AbuseInv, HolderOK
    <3>2. NoRow.start <= start
      BY DEF NoRow
    <3>3. QED
      BY <1>4, <2>1, <3>1, <3>2, CountedFacts
  <2>2. CASE holder[d] # a
    <3>1. row = counter[d] /\ row \in CounterRows
      BY <1>2, <1>4, <1>5, <2>2 DEF AbuseInv, AbuseTyped
    <3>2. QED
      BY <1>5, <3>1, CountedFacts
  <2>3. QED
    BY <2>1, <2>2
<1>7. PICK r \in RequestStates :
         r = [at |-> "write", now |-> now, d |-> d, refused |-> refused, row |-> new]
  BY DEF RequestStates
<1>8. Proceeds(a, r)
  BY <1>5, <1>6, <1>7
<1>9. AbuseTyped' /\ RowsOK' /\ CountsOK' /\ OverOnce'
  <2>1. holder' \in [Dimensions -> Attempts \cup {Nobody}]
    BY <1>5 DEF AbuseInv, AbuseTyped
  <2>2. r.at = "write" /\ r.now <= moment /\ r.d \in Dimensions
    BY <1>2, <1>7
  <2>3. \A e \in Dimensions : Charges(r, e) => Charges(attempt[a], e) /\ r.now = attempt[a].now
    BY <1>1, <1>7 DEF Charges
  <2>4. QED
    BY <1>0, <1>5, <1>8, <2>1, <2>2, <2>3, RowsStay
<1>10. HolderOK'
  <2>1. \A e \in Dimensions : holder[e] = a => e = d
    BY <1>1 DEF AbuseInv, HolderOK
  <2>2. ASSUME NEW e \in Dimensions, NEW b \in Attempts, holder'[e] = b
        PROVE  /\ attempt'[b].at \in {"lock", "write"} /\ attempt'[b].d = e
               /\ attempt'[b].at = "lock" => counter'[e] = NoRow
    <3>1. CASE b = a
      <4>1. e = d
        BY <1>2, <1>5, <2>1, <2>2, <3>1 DEF AbuseInv, AbuseTyped
      <4>2. attempt'[b] = r
        BY <1>8, <3>1, Moved DEF AbuseInv
      <4>3. QED
        BY <1>7, <4>1, <4>2
    <3>2. CASE b # a
      <4>1. holder[e] = b /\ attempt'[b] = attempt[b]
        BY <1>2, <1>5, <1>8, <2>2, <3>2, Moved DEF AbuseInv, AbuseTyped
      <4>2. QED
        BY <1>5, <4>1 DEF AbuseInv, HolderOK
    <3>3. QED
      BY <3>1, <3>2
  <2>3. QED
    BY <2>2 DEF HolderOK
<1>11. WritesOK'
  <2>1. ASSUME NEW b \in Attempts, attempt'[b].at = "write"
        PROVE  LET old == counter'[attempt'[b].d]
                   from == WindowStart(attempt'[b].now)
               IN  /\ holder'[attempt'[b].d] = b /\ old.start <= from
                   /\ CountsIn(old, attempt'[b].row, from)
    <3>1. CASE b = a
      <4>1. attempt'[b] = r
        BY <1>8, <3>1, Moved DEF AbuseInv
      <4>2. holder'[d] = a
        BY <1>2, <1>5 DEF AbuseInv, AbuseTyped
      <4>3. QED
        BY <1>3, <1>5, <1>6, <1>7, <3>1, <4>1, <4>2
    <3>2. CASE b # a
      <4>1. attempt'[b] = attempt[b] /\ attempt[b].at = "write"
        BY <1>8, <2>1, <3>2, Moved DEF AbuseInv
      <4>2. attempt[b].d \in Dimensions /\ holder[attempt[b].d] = b
        BY <4>1 DEF AbuseInv, AbuseTyped, WritesOK
      <4>3. attempt[b].d # d
        BY <1>5, <3>2, <4>2
      <4>4. holder'[attempt[b].d] = b
        BY <1>5, <4>2, <4>3 DEF AbuseInv, AbuseTyped
      <4>5. QED
        BY <1>5, <4>1, <4>4 DEF AbuseInv, WritesOK
    <3>3. QED
      BY <3>1, <3>2
  <2>2. QED
    BY <2>1 DEF WritesOK, CountsIn, Carried, WindowStart
<1>12. QED
  BY <1>9, <1>10, <1>11 DEF AbuseInv

LEMMA PrunesInv ==
  ASSUME AbuseInv, NEW d \in Dimensions, Prunes(d)
  PROVE  AbuseInv'
<1>1. /\ counter[d] # NoRow /\ holder[d] = Nobody /\ counter[d].start + 2 * Window <= moment
      /\ counter' = [counter EXCEPT ![d] = NoRow] /\ UNCHANGED <<holder, attempt, moment>>
  BY DEF Prunes
<1>2. PICK w \in Starts : /\ w = WindowStart(moment) /\ w \in Nat /\ moment \in Nat
                          /\ moment < w + Window
  BY PresentFacts DEF AbuseInv
<1>3. WindowStart(moment)' = w
  BY <1>1, <1>2 DEF WindowStart
<1>4. AbuseTyped'
  BY <1>1 DEF AbuseInv, AbuseTyped
<1>5. HolderOK'
  BY <1>1 DEF AbuseInv, HolderOK, AbuseTyped
<1>6. WritesOK'
  <2>1. ASSUME NEW b \in Attempts, attempt[b].at = "write"
        PROVE  attempt[b].d \in Dimensions /\ attempt[b].d # d
    BY <1>1, <2>1 DEF AbuseInv, AbuseTyped, WritesOK
  <2>2. ASSUME NEW b \in Attempts, attempt'[b].at = "write"
        PROVE  counter'[attempt'[b].d] = counter[attempt[b].d]
    BY <1>1, <2>1, <2>2 DEF AbuseInv, AbuseTyped
  <2>3. QED
    BY <1>1, <2>2 DEF AbuseInv, WritesOK, CountsIn, Carried, WindowStart
<1>7. ASSUME NEW e \in Dimensions
      PROVE  /\ counter'[e] = IF e = d THEN NoRow ELSE counter[e]
             /\ NoRow.start < 0 /\ NoRow.current = 0
  BY <1>1 DEF AbuseInv, AbuseTyped, NoRow
<1>8. RowsOK'
  <2>1. ASSUME NEW e \in Dimensions
        PROVE  /\ counter'[e].start <= w
               /\ counter'[e] # NoRow => counter'[e].start \in Starts
    BY <1>2, <1>7 DEF AbuseInv, RowsOK, NoRow
  <2>2. QED
    BY <1>3, <2>1 DEF RowsOK
<1>9. ASSUME NEW row, NEW e \in Dimensions, Tells(e, row, w)
      PROVE  Tells(e, row, w)'
  BY <1>1, <1>9 DEF Tells, RoomIn, Charged, AdmittedIn, AdmittedBetween
<1>10. Tells(d, NoRow, w)
  <2>1. PICK row \in CounterRows : row = counter[d]
    BY <1>1 DEF AbuseInv, AbuseTyped
  <2>2. row.start \in Nat /\ row.start < w - Window
    BY <1>1, <1>2, <2>1 DEF CounterRows
  <2>3. Tells(d, row, w)
    BY <1>2, <2>1 DEF AbuseInv, CountsOK
  <2>4. Charged(d, w, moment) = {} /\ AdmittedIn(w - Window, w - 1) <= 0
    BY <1>2, <2>2, <2>3 DEF Tells, Carried
  <2>5. Carried(NoRow, w) = 0
    BY DEF Carried, NoRow
  <2>6. NoRow.start < w /\ NoRow.start # w
    BY <1>2 DEF NoRow
  <2>7. QED
    BY <2>4, <2>5, <2>6 DEF Tells
<1>11. ASSUME NEW e \in Dimensions PROVE Tells(e, counter[e], WindowStart(moment))'
  <2>1. Tells(e, counter[e], w)
    BY <1>2 DEF AbuseInv, CountsOK
  <2>2. PICK row : row = counter'[e]
    OBVIOUS
  <2>3. Tells(e, row, w)
    BY <1>7, <1>10, <2>1, <2>2
  <2>4. Tells(e, row, w)'
    BY <1>9, <2>3
  <2>5. QED
    BY <1>3, <2>2, <2>4 DEF Tells, RoomIn
<1>12. CountsOK'
  BY <1>11 DEF CountsOK
<1>13. OverOnce'
  BY <1>1, <1>2, <1>3 DEF AbuseInv, OverOnce, Bounded, AdmittedIn, AdmittedBetween
<1>14. QED
  BY <1>4, <1>5, <1>6, <1>8, <1>12, <1>13 DEF AbuseInv

(* A request charged to a bucket, and the row that tells of it. *)
LEMMA ChargedTells ==
  ASSUME AbuseInv, NEW a \in Attempts, NEW d \in Dimensions,
         NEW now \in Nat, now <= moment, ~Charges(attempt[a], d),
         NEW r \in RequestStates, Proceeds(a, r), UNCHANGED moment,
         r.now = now, r.at # "admitted", attempt[a].at # "admitted",
         NEW old \in CounterRows \cup {NoRow}, NEW new \in CounterRows,
         NEW w \in Starts, w = WindowStart(moment),
         NEW v \in Starts, v = WindowStart(now),
         old.start <= v, CountsIn(old, new, v), Tells(d, old, w),
         Charges(r, d) => ~ExceededBy(new, now, FlowLimits[d])
  PROVE  v <= w /\ Tells(d, new, w)'
<1>1. /\ w \in Nat /\ w <= moment /\ moment < w + Window /\ moment \in Nat
      /\ v \in Nat /\ v <= now /\ now < v + Window
  BY PresentFacts, WindowAround DEF AbuseInv
<1>2. v <= w
  BY <1>1, StartsApart
<1>3. PICK limit \in Nat : limit = FlowLimits[d]
  BY DimensionFacts
<1>4. /\ old.start \in Int /\ old.current \in Nat /\ old.previous \in Nat
      /\ new.start = v /\ new.current \in Nat /\ new.previous \in Nat
  BY DEF CounterRows, NoRow, CountsIn
<1>5. AdmittedIn(w - Window, w - 1)' = AdmittedIn(w - Window, w - 1)
  <2>1. AdmittedBetween(w - Window, w - 1)' = AdmittedBetween(w - Window, w - 1)
    BY <1>1, AdmittedStay DEF AbuseInv
  <2>2. QED
    BY <2>1 DEF AdmittedIn
<1>6. PICK before \in Nat : before = AdmittedIn(w - Window, w - 1)
  BY CountFacts DEF AdmittedIn, AdmittedBetween
<1>7. ASSUME NEW t \in Int
      PROVE  /\ Charged(d, w, t) \subseteq Attempts /\ a \notin Charged(d, w, t)
             /\ Charged(d, w, t)' \subseteq Charged(d, w, t) \cup {a}
             /\ a \in Charged(d, w, t)' => Charges(r, d) /\ w <= now /\ now <= t
  <2>1. attempt'[a] = r /\ \A b \in Attempts : b # a => attempt'[b] = attempt[b]
    BY Moved DEF AbuseInv
  <2>2. QED
    BY <2>1 DEF Charged
<1>8. ASSUME NEW t \in Int, t <= moment
      PROVE  /\ Charged(d, w, t) \subseteq Charged(d, w, moment)
             /\ Charged(d, w, t)' \subseteq Charged(d, w, moment)'
  BY SMTT(30), <1>1, <1>8 DEF Charged
<1>9. CASE v < w
  <2>1. v + Window <= w
    BY <1>9, StartsApart
  <2>2. Charged(d, w, moment) = {} /\ before <= Carried(old, w)
    <3>1. old.start < w
      BY <1>1, <1>4, <1>9
    <3>2. QED
      BY <1>6, <3>1 DEF Tells
  <2>3. Charged(d, w, moment)' = {}
    BY <1>1, <1>7, <2>1, <2>2
  <2>4. before <= Carried(new, w)
    <3>1. CASE v = w - Window
      BY SMTT(30), <1>1, <1>4, <2>2, <3>1 DEF Carried, CountsIn
    <3>2. CASE v # w - Window
      BY <1>1, <1>4, <1>6, <2>1, <2>2, <3>2 DEF Carried
    <3>3. QED
      BY <3>1, <3>2
  <2>5. new.start < w /\ new.start # w
    BY <1>1, <1>4, <1>9
  <2>6. QED
    BY <1>2, <1>5, <1>6, <2>3, <2>4, <2>5 DEF Tells
<1>10. CASE v = w
  <2>1. before <= new.previous
    <3>1. CASE old.start = w
      BY <1>4, <1>6, <1>10, <3>1 DEF Tells, CountsIn
    <3>2. CASE old.start < w
      BY <1>1, <1>4, <1>6, <1>10, <3>2 DEF Tells, CountsIn
    <3>3. QED
      BY <1>1, <1>4, <1>10, <3>1, <3>2
  <2>2. PICK k \in Nat : k = Cardinality(Charged(d, w, moment)) /\ k + 1 <= new.current
    <3>1. /\ Cardinality(Charged(d, w, moment)) \in Nat
          /\ Charged(d, w, moment) = {} => Cardinality(Charged(d, w, moment)) = 0
      BY <1>1, <1>7, CountFacts
    <3>2. CASE old.start = w
      BY <1>4, <1>10, <3>1, <3>2 DEF Tells, CountsIn
    <3>3. CASE old.start < w
      BY SMTT(30), <1>1, <1>4, <1>10, <3>1, <3>3 DEF Tells, CountsIn
    <3>4. QED
      BY <1>1, <1>4, <1>10, <3>1, <3>2, <3>3
  <2>3. PICK j \in Nat : j = Cardinality(Charged(d, w, moment)') /\ j <= new.current
    <3>1. PICK S : S = Charged(d, w, moment) /\ S \subseteq Attempts /\ a \notin S
      BY <1>1, <1>7
    <3>2. IsFiniteSet(S) /\ Cardinality(S \cup {a}) = k + 1 /\ S \cup {a} \subseteq Attempts
      BY <2>2, <3>1, CountFacts, FS_AddElement
    <3>3. Charged(d, w, moment)' \subseteq S \cup {a} /\ Charged(d, w, moment)' \subseteq Attempts
      BY <1>1, <1>7, <3>1
    <3>4. /\ Cardinality(Charged(d, w, moment)') \in Nat
          /\ Cardinality(Charged(d, w, moment)') <= k + 1
      BY <3>2, <3>3, CountFacts
    <3>5. QED
      BY <1>4, <2>2, <3>4
  <2>4. ASSUME NEW t \in w .. moment, Charged(d, w, t)' # {}
        PROVE  RoomFor(limit, new.previous, t - w, Cardinality(Charged(d, w, t)'))
    <3>0. PICK n \in Nat : n = Cardinality(Charged(d, w, t)') /\ n <= j
      <4>1. /\ Charged(d, w, moment)' \subseteq Attempts
            /\ Charged(d, w, t)' \subseteq Charged(d, w, moment)'
        BY <1>1, <1>7, <1>8
      <4>2. QED
        BY <2>3, <4>1, CountFacts
    <3>1. PICK f \in Nat : f = t - w
      BY <1>1
    <3>2. CASE a \in Charged(d, w, t)'
      <4>1. Charges(r, d) /\ now <= t
        BY <1>1, <1>7, <3>2
      <4>2. PICK e \in Nat : e = now - w /\ e <= f /\ e <= Window
        BY <1>1, <1>10, <3>1, <4>1
      <4>3. ~(((new.previous * (Window - e)) \div Window) + new.current > limit)
        BY <1>3, <1>4, <1>10, <4>1, <4>2 DEF ExceededBy, Weighted
      <4>4. RoomFor(limit, new.previous, e, new.current)
        BY <1>4, <4>2, <4>3, RoomLeft
      <4>5. n <= new.current
        BY <1>4, <2>3, <3>0
      <4>6. RoomFor(limit, new.previous, f, n)
        <5>1. PICK p \in Nat, c \in Nat : p = new.previous /\ c = new.current
          BY <1>4
        <5>2. RoomFor(limit, p, e, c) /\ n <= c
          BY <4>4, <4>5, <5>1
        <5>3. RoomFor(limit, p, f, n)
          BY <4>2, <5>2, RoomLater
        <5>4. QED
          BY <5>1, <5>3
      <4>7. QED
        BY <3>0, <3>1, <4>6
    <3>3. CASE a \notin Charged(d, w, t)'
      <4>1. Charged(d, w, t)' \subseteq Charged(d, w, t)
        BY <1>1, <1>7, <3>3
      <4>2. Charged(d, w, t) # {} /\ Charged(d, w, moment) # {}
        BY <1>1, <1>8, <2>4, <4>1
      <4>3. old.start = w
        BY <1>1, <1>4, <1>10, <4>2 DEF Tells
      <4>4. PICK m \in Nat : m = Cardinality(Charged(d, w, t)) /\ n <= m
        BY SMTT(30), <1>1, <1>7, <3>0, <4>1, CountFacts
      <4>5. RoomFor(limit, old.previous, f, m)
        BY <1>3, <3>1, <4>2, <4>3, <4>4 DEF Tells, RoomIn
      <4>6. new.previous = old.previous
        BY <1>10, <4>3 DEF CountsIn
      <4>7. RoomFor(limit, new.previous, f, n)
        <5>1. PICK p \in Nat : p = new.previous /\ p = old.previous
          BY <1>4, <4>6
        <5>2. RoomFor(limit, p, f, m) /\ f <= f
          BY <4>5, <5>1
        <5>3. RoomFor(limit, p, f, n)
          BY <4>4, <5>2, RoomLater
        <5>4. QED
          BY <5>1, <5>3
      <4>8. QED
        BY <3>0, <3>1, <4>7
    <3>4. QED
      BY <3>2, <3>3
  <2>5. RoomIn(d, new, w, moment)'
    BY <1>3, <2>4 DEF RoomIn
  <2>6. ~(new.start < w)
    BY <1>1, <1>4, <1>10
  <2>7. QED
    BY <1>2, <1>5, <1>6, <2>1, <2>3, <2>5, <2>6 DEF Tells
<1>11. QED
  BY <1>1, <1>2, <1>9, <1>10

LEMMA CommitsInv ==
  ASSUME AbuseInv, NEW a \in Attempts, CommitsCount(a)
  PROVE  AbuseInv'
<1>0. attempt[a].at = "write"
  BY DEF CommitsCount
<1>1. PICK now \in Nat, d \in Nat, refused \in BOOLEAN, new \in CounterRows :
         attempt[a] = [at |-> "write", now |-> now, d |-> d, refused |-> refused, row |-> new]
  BY <1>0 DEF AbuseInv, AbuseTyped, RequestStates
<1>2. d \in Dimensions /\ now <= moment /\ holder[d] = a
  BY <1>0, <1>1 DEF AbuseInv, AbuseTyped, WritesOK
<1>3. PICK over \in BOOLEAN : over <=> ExceededBy(new, now, FlowLimits[d])
  OBVIOUS
<1>4. PICK late \in BOOLEAN : late <=> (refused \/ over)
  OBVIOUS
<1>5. PICK r \in RequestStates : r = Onward(now, d, late)
  BY <1>2, OnwardFacts
<1>6. /\ Proceeds(a, r) /\ counter' = [counter EXCEPT ![d] = new]
      /\ holder' = Frees(a) /\ UNCHANGED moment
  <2>1. NextDimension(a, ExceededBy(new, now, FlowLimits[d]))
    BY <1>1 DEF CommitsCount
  <2>2. late = (attempt[a].refused \/ ExceededBy(new, now, FlowLimits[d]))
    BY <1>1, <1>3, <1>4 DEF ExceededBy
  <2>3. Proceeds(a, Onward(now, d, late))
    BY <1>1, <2>1, <2>2 DEF NextDimension, Onward
  <2>4. QED
    BY <1>1, <1>5, <2>3 DEF CommitsCount
<1>7. /\ r.at \in {"audit", "ensure"} /\ r.now = now /\ (r.at = "ensure" => r.d \in Dimensions)
      /\ \A e \in Dimensions : Charges(r, e) <=> ~late /\ e <= d
  BY <1>2, <1>5, OnwardFacts
<1>8. PICK w \in Starts : w = WindowStart(moment) /\ w \in Nat
  BY PresentFacts DEF AbuseInv
<1>9. PICK v \in Starts : v = WindowStart(now) /\ v \in Nat
  BY WindowAround
<1>10. WindowStart(moment)' = w
  BY <1>6, <1>8 DEF WindowStart
<1>11. PICK old \in CounterRows \cup {NoRow} : old = counter[d]
  BY <1>2 DEF AbuseInv, AbuseTyped
<1>12. old.start <= v /\ CountsIn(old, new, v)
  BY <1>1, <1>9, <1>11 DEF AbuseInv, WritesOK
<1>13. v <= w /\ Tells(d, new, w)'
  <2>1. Tells(d, old, w)
    BY <1>2, <1>8, <1>11 DEF AbuseInv, CountsOK
  <2>2. ~Charges(attempt[a], d)
    BY <1>1 DEF Charges
  <2>3. Charges(r, d) => ~ExceededBy(new, now, FlowLimits[d])
    BY <1>2, <1>3, <1>4, <1>7 DEF ExceededBy
  <2>4. r.at # "admitted" /\ attempt[a].at # "admitted"
    BY <1>0, <1>7
  <2>5. QED
    BY <1>2, <1>6, <1>7, <1>8, <1>9, <1>12, <2>1, <2>2, <2>3, <2>4, ChargedTells
<1>14. ASSUME NEW e \in Dimensions, e # d
       PROVE  counter'[e] = counter[e] /\ Tells(e, counter[e], WindowStart(moment))'
  <2>1. PICK row \in CounterRows \cup {NoRow} : row = counter[e] /\ row = counter'[e]
    BY <1>6, <1>14 DEF AbuseInv, AbuseTyped
  <2>2. Tells(e, row, w)
    BY <1>8, <2>1 DEF AbuseInv, CountsOK
  <2>3. Charges(r, e) => Charges(attempt[a], e) /\ r.now = attempt[a].now
    BY <1>1, <1>2, <1>4, <1>7, <1>14, DimensionFacts DEF Charges
  <2>4. r.at # "admitted" /\ attempt[a].at # "admitted"
    BY <1>0, <1>7
  <2>5. Tells(e, row, w)'
    BY <1>6, <1>8, <2>2, <2>3, <2>4, TellsStays DEF AbuseInv
  <2>6. QED
    BY <1>10, <2>1, <2>5 DEF Tells, RoomIn
<1>15. counter'[d] = new
  BY <1>2, <1>6 DEF AbuseInv, AbuseTyped
<1>16. CountsOK'
  <2>1. Tells(d, counter[d], WindowStart(moment))'
    BY <1>10, <1>13, <1>15 DEF Tells, RoomIn
  <2>2. QED
    BY <1>14, <2>1 DEF CountsOK
<1>17. RowsOK'
  <2>1. new.start = v
    BY <1>12 DEF CountsIn
  <2>2. ASSUME NEW e \in Dimensions
        PROVE  /\ counter'[e].start <= w
               /\ counter'[e] # NoRow => counter'[e].start \in Starts
    <3>1. CASE e = d
      BY <1>13, <1>15, <2>1, <3>1
    <3>2. CASE e # d
      BY <1>8, <1>14, <3>2 DEF AbuseInv, RowsOK
    <3>3. QED
      BY <3>1, <3>2
  <2>3. QED
    BY <1>10, <2>2 DEF RowsOK
<1>18. AbuseTyped'
  <2>1. counter' \in [Dimensions -> CounterRows \cup {NoRow}]
    BY <1>6 DEF AbuseInv, AbuseTyped
  <2>2. holder' \in [Dimensions -> Attempts \cup {Nobody}]
    BY <1>6, Freed
  <2>3. attempt' \in [Attempts -> RequestStates] /\ attempt'[a] = r
        /\ \A b \in Attempts : b # a => attempt'[b] = attempt[b]
    BY <1>6, Moved DEF AbuseInv
  <2>4. QED
    BY <1>2, <1>6, <1>7, <2>1, <2>2, <2>3 DEF AbuseInv, AbuseTyped
<1>19. OverOnce'
  <2>1. r.at # "admitted" /\ attempt[a].at # "admitted"
    BY <1>0, <1>7
  <2>2. QED
    BY <1>6, <2>1, OverStays
<1>20. HolderOK'
  <2>1. ASSUME NEW e \in Dimensions, NEW b \in Attempts, holder'[e] = b
        PROVE  /\ attempt'[b].at \in {"lock", "write"} /\ attempt'[b].d = e
               /\ attempt'[b].at = "lock" => counter'[e] = NoRow
    <3>1. b # a /\ holder[e] = b
      BY <1>6, <2>1, Freed
    <3>2. attempt'[b] = attempt[b] /\ e # d
      BY <1>2, <1>6, <3>1, Moved DEF AbuseInv
    <3>3. QED
      BY <1>14, <3>1, <3>2 DEF AbuseInv, HolderOK
  <2>2. QED
    BY <2>1 DEF HolderOK
<1>21. WritesOK'
  <2>1. ASSUME NEW b \in Attempts, attempt'[b].at = "write"
        PROVE  LET row == counter'[attempt'[b].d]
                   start == WindowStart(attempt'[b].now)
               IN  /\ holder'[attempt'[b].d] = b /\ row.start <= start
                   /\ CountsIn(row, attempt'[b].row, start)
    <3>1. b # a /\ attempt'[b] = attempt[b]
      BY <1>6, <1>7, <2>1, Moved DEF AbuseInv
    <3>2. attempt[b].d \in Dimensions /\ holder[attempt[b].d] = b
      BY <2>1, <3>1 DEF AbuseInv, AbuseTyped, WritesOK
    <3>3. attempt[b].d # d /\ holder'[attempt[b].d] = b
      <4>1. attempt[b].d # d
        BY <1>2, <3>1, <3>2
      <4>2. PICK e \in Dimensions : e = attempt[b].d /\ holder[e] = b
        BY <3>2
      <4>3. holder'[e] = b
        BY <1>6, <3>1, <4>2, Freed
      <4>4. QED
        BY <4>1, <4>2, <4>3
    <3>4. counter'[attempt[b].d] = counter[attempt[b].d]
      BY <1>14, <3>2, <3>3
    <3>5. QED
      BY <2>1, <3>1, <3>3, <3>4 DEF AbuseInv, WritesOK
  <2>2. QED
    BY <2>1 DEF WritesOK, CountsIn, Carried, WindowStart
<1>22. QED
  BY <1>16, <1>17, <1>18, <1>19, <1>20, <1>21 DEF AbuseInv

LEMMA MomentInv ==
  ASSUME AbuseInv, MomentPasses
  PROVE  AbuseInv'
<1>1. /\ moment < LastMoment /\ moment' = moment + 1
      /\ UNCHANGED <<counter, holder, attempt>>
  BY DEF MomentPasses
<1>2. PICK w \in Starts : /\ w = WindowStart(moment) /\ w \in Nat /\ moment \in Nat
                          /\ w <= moment /\ moment < w + Window
  BY PresentFacts DEF AbuseInv
<1>3. PICK x \in Starts : /\ x = WindowStart(moment)' /\ x \in Nat
                          /\ x <= moment + 1 /\ moment + 1 < x + Window
  <2>1. moment + 1 \in Nat /\ WindowStart(moment)' = WindowStart(moment + 1)
    BY <1>1, <1>2 DEF WindowStart
  <2>2. QED
    BY <2>1, WindowAround
<1>4. w <= x /\ (x # w => x = w + Window /\ x = moment + 1)
  <2>1. x < w => x + Window <= w
    BY StartsApart
  <2>2. x > w => w + Window <= x
    BY StartsApart
  <2>3. QED
    BY <1>2, <1>3, <2>1, <2>2
<1>5. AbuseTyped'
  BY <1>1, <1>2, PresentFacts DEF AbuseInv, AbuseTyped, RequestStates
<1>6. HolderOK'
  BY <1>1 DEF AbuseInv, HolderOK
<1>7. WritesOK'
  BY <1>1 DEF AbuseInv, WritesOK, CountsIn, Carried, WindowStart
<1>8. RowsOK'
  <2>1. ASSUME NEW e \in Dimensions
        PROVE  counter[e].start <= x /\ (counter[e] # NoRow => counter[e].start \in Starts)
    <3>1. counter[e].start \in Int
      BY DEF AbuseInv, AbuseTyped, CounterRows, NoRow
    <3>2. counter[e].start <= w
      BY <1>2 DEF AbuseInv, RowsOK
    <3>3. QED
      BY <1>2, <1>3, <1>4, <3>1, <3>2 DEF AbuseInv, RowsOK
  <2>2. QED
    BY <1>1, <1>3, <2>1 DEF RowsOK
<1>9. \A d \in Dimensions, y \in Nat, t \in Int :
         Charged(d, y, t)' = Charged(d, y, t) /\ Charged(d, y, t) \subseteq Attempts
  BY <1>1 DEF Charged, Charges
<1>10. \A y \in Int, t \in Int : AdmittedIn(y, t)' = AdmittedIn(y, t)
  BY <1>1 DEF AdmittedIn, AdmittedBetween
<1>11. ASSUME NEW d \in Dimensions, NEW row \in CounterRows \cup {NoRow},
              row.start <= w, Tells(d, row, w)
       PROVE  Tells(d, row, x)'
  <2>0. row.start \in Int /\ row.current \in Nat /\ row.previous \in Nat
    BY DEF CounterRows, NoRow
  <2>1. CASE x = w
    <3>1. Charged(d, w, moment + 1) = Charged(d, w, moment)
      <4>1. ASSUME NEW b \in Attempts, Charges(attempt[b], d)
            PROVE  attempt[b].now \in Nat /\ attempt[b].now <= moment
        BY <4>1, PresentFacts DEF AbuseInv, Charges
      <4>2. QED
        BY <1>2, <4>1 DEF Charged
    <3>2. Charged(d, w, moment)' = Charged(d, w, moment)
      BY <1>1, <1>2, <1>9, <3>1 DEF Charged
    <3>3. row.start < w => /\ Charged(d, w, moment)' = {}
                           /\ AdmittedIn(w - Window, w - 1)' <= Carried(row, w)
      BY <1>2, <1>10, <1>11, <3>2 DEF Tells
    <3>4. row.start = w => /\ AdmittedIn(w - Window, w - 1)' <= row.previous
                           /\ Cardinality(Charged(d, w, moment))' <= row.current
      BY <1>2, <1>10, <1>11, <3>2 DEF Tells
    <3>5. ASSUME row.start = w, NEW t \in w .. (moment + 1), Charged(d, w, t) # {}
          PROVE  RoomFor(FlowLimits[d], row.previous, t - w, Cardinality(Charged(d, w, t)))
      <4>1. PICK u \in w .. moment : u <= t /\ Charged(d, w, u) = Charged(d, w, t)
        BY <1>2, <3>1
      <4>2. RoomFor(FlowLimits[d], row.previous, u - w, Cardinality(Charged(d, w, u)))
        BY <1>11, <3>5, <4>1 DEF Tells, RoomIn
      <4>3. PICK n \in Nat : n = Cardinality(Charged(d, w, t))
        BY <1>2, <1>9, CountFacts
      <4>4. PICK e \in Nat, f \in Nat : e = u - w /\ f = t - w /\ e <= f
        BY <1>2, <4>1
      <4>5. RoomFor(FlowLimits[d], row.previous, f, n)
        <5>1. PICK limit \in Nat : limit = FlowLimits[d]
          BY DimensionFacts
        <5>2. RoomFor(limit, row.previous, e, n)
          BY <4>1, <4>2, <4>3, <4>4, <5>1
        <5>3. RoomFor(limit, row.previous, f, n)
          BY SMTT(30), <2>0, <4>4, <5>2, RoomLater
        <5>4. QED
          BY <5>1, <5>3
      <4>6. QED
        BY <4>3, <4>4, <4>5
    <3>6. row.start = w => RoomIn(d, row, w, moment)'
      BY <1>1, <1>2, <1>9, <3>5 DEF RoomIn
    <3>7. QED
      BY <2>1, <3>3, <3>4, <3>6 DEF Tells
  <2>2. CASE x # w
    <3>1. x - Window = w /\ row.start < x /\ row.start # x
      BY SMTT(30), <1>2, <1>3, <1>4, <1>11, <2>0, <2>2
    <3>2. Charged(d, x, moment)' = {}
      <4>1. Charged(d, x, moment + 1) = {}
        BY SMTT(30), <1>2, <1>4, <2>2, PresentFacts DEF AbuseInv, Charged, Charges
      <4>2. QED
        BY <1>1, <1>2, <1>9, <4>1 DEF Charged
    <3>3. AdmittedIn(w, x - 1) <= Carried(row, x)
      <4>1. AdmittedBetween(w, x - 1) \subseteq Charged(d, w, moment)
        BY <1>2, PresentFacts DEF AbuseInv, AdmittedBetween, Charged, Charges
      <4>2. /\ AdmittedIn(w, x - 1) \in Nat /\ Cardinality(Charged(d, w, moment)) \in Nat
            /\ AdmittedIn(w, x - 1) <= Cardinality(Charged(d, w, moment))
            /\ Charged(d, w, moment) = {} => Cardinality(Charged(d, w, moment)) = 0
        BY <1>2, <1>9, <4>1, CountFacts DEF AdmittedIn
      <4>3. CASE row.start = w
        BY <1>11, <2>0, <3>1, <4>2, <4>3 DEF Tells, Carried
      <4>4. CASE row.start < w
        BY SMTT(30), <1>2, <1>11, <2>0, <3>1, <4>2, <4>4 DEF Tells, Carried
      <4>5. QED
        BY <1>2, <1>11, <2>0, <4>3, <4>4
    <3>4. AdmittedIn(x - Window, x - 1)' <= Carried(row, x)
      BY <1>2, <1>3, <1>10, <3>1, <3>3
    <3>5. QED
      BY <3>1, <3>2, <3>4 DEF Tells
  <2>3. QED
    BY <2>1, <2>2
<1>12. CountsOK'
  <2>1. ASSUME NEW d \in Dimensions PROVE Tells(d, counter[d], WindowStart(moment))'
    <3>1. PICK row \in CounterRows \cup {NoRow} : row = counter[d] /\ row = counter'[d]
      BY <1>1 DEF AbuseInv, AbuseTyped
    <3>2. row.start <= w /\ Tells(d, row, w)
      BY <1>2, <3>1 DEF AbuseInv, RowsOK, CountsOK
    <3>3. Tells(d, row, x)'
      BY <1>11, <3>2
    <3>4. QED
      BY <1>3, <3>1, <3>3 DEF Tells, RoomIn
  <2>2. QED
    BY <2>1 DEF CountsOK
<1>13. OverOnce'
  <2>1. ASSUME NEW d \in Dimensions, NEW t \in 0 .. LastMoment, t < x
        PROVE  /\ Bounded(d, t)
               /\ AdmittedIn(WindowStart(t), WindowStart(t) + Window - 1) <= FlowLimits[d]
    <3>1. PICK v \in Starts : v = WindowStart(t) /\ v \in Nat /\ v <= t /\ t < v + Window
      <4>1. t \in Nat
        OBVIOUS
      <4>2. QED
        BY <4>1, WindowAround
    <3>2. CASE t < w
      BY <1>2, <3>2 DEF AbuseInv, OverOnce
    <3>3. CASE t >= w
      <4>1. v < w => v + Window <= w
        BY StartsApart
      <4>2. v > w => w + Window <= v
        BY StartsApart
      <4>3. v = w /\ t \in Nat
        BY SMTT(30), <1>2, <1>3, <1>4, <2>1, <3>1, <3>3, <4>1, <4>2
      <4>4. WindowStart(t) = WindowStart(moment)
        BY <1>2, <3>1, <4>3
      <4>5. QED
        BY <4>3, <4>4, ThisWindow
    <3>4. QED
      BY <1>2, <3>2, <3>3
  <2>2. ASSUME NEW d \in Dimensions, NEW t \in 0 .. LastMoment, t < x
        PROVE  /\ Bounded(d, t)'
               /\ (AdmittedIn(WindowStart(t), WindowStart(t) + Window - 1) <= FlowLimits[d])'
    BY <1>1, <2>1, <2>2 DEF Bounded, AdmittedIn, AdmittedBetween
  <2>3. QED
    BY <1>3, <2>2 DEF OverOnce
<1>14. QED
  BY <1>5, <1>6, <1>7, <1>8, <1>12, <1>13 DEF AbuseInv

LEMMA AbuseStarts == AbuseInit => AbuseInv
<1> SUFFICES ASSUME AbuseInit PROVE AbuseInv
  OBVIOUS
<1>0. moment = 0 /\ \A a \in Attempts : attempt[a] = [at |-> "new"]
  BY DEF AbuseInit
<1>1. WindowStart(0) = 0 /\ 0 \in Starts
  <2>1. 0 \div Window = 0 /\ 0 * Window = 0
    OBVIOUS
  <2>2. 0 \in Starts
    BY <2>1 DEF Starts
  <2>3. QED
    BY <2>1, <2>2 DEF WindowStart
<1>2. AbuseTyped
  <2>1. [at |-> "new"] \in RequestStates
    BY DEF RequestStates
  <2>2. QED
    BY <2>1 DEF AbuseInit, AbuseTyped
<1>3. HolderOK /\ WritesOK
  BY <1>0 DEF AbuseInit, HolderOK, WritesOK
<1>4. \A d \in Dimensions : counter[d] = NoRow /\ NoRow.start < 0 /\ NoRow.current = 0
  BY DEF AbuseInit, NoRow
<1>5. RowsOK
  BY <1>0, <1>1, <1>4 DEF RowsOK, NoRow
<1>6. CountsOK
  <2>1. \A d \in Dimensions : Charged(d, 0, moment) = {}
    BY <1>0 DEF Charged, Charges
  <2>2. AdmittedIn(0 - Window, 0 - 1) = 0
    <3>1. AdmittedBetween(0 - Window, 0 - 1) = {}
      BY <1>0 DEF AdmittedBetween
    <3>2. QED
      BY <3>1, FS_EmptySet DEF AdmittedIn
  <2>3. Carried(NoRow, 0) = 0
    BY DEF Carried, NoRow
  <2>4. \A d \in Dimensions : Tells(d, NoRow, 0)
    BY <1>4, <2>1, <2>2, <2>3 DEF Tells, NoRow
  <2>5. QED
    BY <1>0, <1>1, <1>4, <2>4 DEF CountsOK
<1>7. OverOnce
  BY <1>0, <1>1 DEF OverOnce
<1>8. QED
  BY <1>2, <1>3, <1>5, <1>6, <1>7 DEF AbuseInv

LEMMA AbuseSteps == AbuseInv /\ [AbuseNext]_abuseVars => AbuseInv'
<1> SUFFICES ASSUME AbuseInv, [AbuseNext]_abuseVars PROVE AbuseInv'
  OBVIOUS
<1>1. ASSUME NEW a \in Attempts,
             \/ AttemptArrives(a) \/ EnsuresRow(a) \/ LocksRow(a) \/ ClockRegressed(a)
             \/ CommitsCount(a) \/ Decides(a) \/ FailsClosed(a)
      PROVE  AbuseInv'
  BY <1>1, ArrivesInv, EnsuresInv, LocksInv, ClockRegressedInv, CommitsInv, DecidesInv, FailsInv
<1>2. ASSUME NEW d \in Dimensions, Prunes(d) PROVE AbuseInv'
  BY <1>2, PrunesInv
<1>3. CASE MomentPasses
  BY <1>3, MomentInv
<1>4. CASE UNCHANGED abuseVars
  <2>1. AbuseTyped' /\ HolderOK'
    BY <1>4 DEF abuseVars, AbuseInv, AbuseTyped, HolderOK
  <2>2. WritesOK'
    BY <1>4 DEF abuseVars, AbuseInv, WritesOK, CountsIn, Carried, WindowStart
  <2>3. RowsOK'
    BY <1>4 DEF abuseVars, AbuseInv, RowsOK, WindowStart
  <2>4. CountsOK'
    <3>1. UNCHANGED <<counter, attempt, moment>>
      BY <1>4 DEF abuseVars
    <3>2. \A d \in Dimensions : Tells(d, counter[d], WindowStart(moment))
      BY DEF AbuseInv, CountsOK
    <3>3. \A d \in Dimensions : \A from, to : Charged(d, from, to)' = Charged(d, from, to)
      BY <3>1 DEF Charged
    <3>4. \A from, to : AdmittedIn(from, to)' = AdmittedIn(from, to)
      BY <3>1 DEF AdmittedIn, AdmittedBetween
    <3>5. WindowStart(moment)' = WindowStart(moment)
      BY <3>1 DEF WindowStart
    <3>6. ASSUME NEW d \in Dimensions
          PROVE  Tells(d, counter[d], WindowStart(moment))'
      <4>1. PICK row, w : row = counter[d] /\ w = WindowStart(moment)
        OBVIOUS
      <4>2. Tells(d, row, w)'
        BY <3>1, <3>2, <3>3, <3>4, <4>1 DEF Tells, RoomIn
      <4>3. row = counter[d]' /\ w = WindowStart(moment)'
        BY <3>1, <3>5, <4>1
      <4>4. QED
        BY <4>2, <4>3 DEF Tells, RoomIn
    <3>7. QED
      BY <3>6 DEF CountsOK
  <2>5. OverOnce'
    BY <1>4 DEF abuseVars, AbuseInv, OverOnce, Bounded, AdmittedIn, AdmittedBetween, WindowStart
  <2>6. QED
    BY <2>1, <2>2, <2>3, <2>4, <2>5 DEF AbuseInv
<1>5. QED
  BY <1>1, <1>2, <1>3, <1>4 DEF AbuseNext

(* Whatever the requests, the limits, the window and the order in which    *)
(* the transactions interleave, no burst slips through a boundary.         *)
THEOREM BurstsAreBounded == AbuseSpec => []BoundaryBurstBounded
<1>1. AbuseInit => AbuseInv
  BY AbuseStarts
<1>2. AbuseInv /\ [AbuseNext]_abuseVars => AbuseInv'
  BY AbuseSteps
<1>3. AbuseInv => BoundaryBurstBounded
  BY BurstHolds
<1>4. QED
  BY <1>1, <1>2, <1>3, PTL DEF AbuseSpec

HIDE AbuseAssumption

-----------------------------------------------------------------------------
USE GenerateAssumption

(* What a generation leaves, for any plan and however often it runs.  What *)
(* was placed is a stack: the earliest entry of a path holds what the run  *)
(* found there, and undoing it from the top ends with that.                *)

Kinds == {"old", "new", "user"}
Contents == (Kinds \X BOOLEAN) \cup {Missing}
Digests == Kinds \cup {NoRecord}
Paths == Files \cup {RecordPath}
PlacedEntries == [path : Paths, was : Contents \cup [Files -> Digests]]

Plain(c) == c = Missing \/ \E k \in Kinds : c = Rendered(k)

Going == {"Planned", "Staging", "Placing", "Renaming"}
Running == Going \cup {"Result", "Undoing"}

GenerateTyped ==
    /\ disk \in [Files -> Contents] /\ record \in [Files -> Digests]
    /\ bytes \in [Files -> Contents] /\ planRecord \in [Files -> Digests]
    /\ found \in [disk : [Files -> Contents], record : [Files -> Digests]]
    /\ placed \in Seq(PlacedEntries) /\ at \in Nat \ {0}
    /\ runStep \in Running \cup {"Idle"}
    /\ touched \subseteq Files /\ unrestored \subseteq Paths
    /\ \A f \in Files \ Marked : Plain(disk[f])

Now(p) == IF p = RecordPath THEN record ELSE disk[p]
FoundAt(p) == IF p = RecordPath THEN found.record ELSE found.disk[p]

(* Undoing the stack leaves what was found at p. *)
Reverts(p) ==
    \/ Now(p) = FoundAt(p) /\ \A i \in 1..Len(placed) : placed[i].path # p
    \/ \E i \in 1..Len(placed) :
          /\ placed[i].path = p /\ placed[i].was = FoundAt(p)
          /\ \A j \in 1..Len(placed) : j < i => placed[j].path # p

InFiles == \A i \in 1..Len(placed) : placed[i].path \in Files
RecordLast ==
    /\ Len(placed) >= 1 /\ Last.path = RecordPath /\ Last.was = found.record
    /\ \A i \in 1..Len(placed) - 1 : placed[i].path \in Files

(* A file of the generator's is one the record it found says so of.        *)
OwnedWas(f, c) ==
    /\ c \in Contents
    /\ f \notin Marked => Plain(c) /\ (c = Rendered("old") => found.record[f] = "old")
NoneOld(files) == \A f \in files \ Marked : disk[f] # Rendered("old")

Reversible ==
    runStep \in Running =>
       /\ ended = "None"
       /\ \A p \in Paths \ (touched \cup unrestored) : Reverts(p)
       /\ \A i \in 1..Len(placed) : placed[i].path \in Files =>
             OwnedWas(placed[i].path, placed[i].was)

GoingOK ==
    /\ runStep \in {"Planned", "Staging"} => placed = <<>>
    /\ runStep \in Going => unrestored = {} /\ record = found.record /\ InFiles
    /\ runStep \in Going \cup {"Result"} =>
          /\ \A f \in Files \ touched : action[f] = "Unchanged" => disk[f] = bytes[f]
          /\ NoneOld(touched)
          /\ \A f \in Files \ Marked : bytes[f] = Rendered("new")
          /\ \A f \in Files : bytes[f] # Missing

PlacingOK ==
    /\ runStep \in {"Placing", "Renaming"} =>
          \A k \in 1..Len(Order) :
             k < at /\ Order[k] \notin touched => disk[Order[k]] = bytes[Order[k]]
    /\ runStep = "Renaming" =>
          /\ at <= Len(Order) /\ OwnedWas(Order[at], previous)
          /\ Order[at] \notin touched => previous = disk[Order[at]]

EndingOK ==
    /\ runStep = "Result" =>
          /\ RecordLast /\ unrestored = {} /\ record = Recorded
          /\ \A f \in Files \ touched : disk[f] = bytes[f]
    /\ runStep = "Undoing" =>
          \/ RecordLast /\ NoneOld(Files)
          \/ InFiles /\ (RecordPath \in unrestored \/ record = found.record)

OldIsOwned ==
    RecordPath \notin unrestored =>
       \A f \in Files \ Marked : disk[f] = Rendered("old") => record[f] = "old"

GenerateInv ==
    /\ GenerateTyped /\ Reversible /\ GoingOK /\ PlacingOK /\ EndingOK /\ OldIsOwned
    /\ AllOrNothing

LEMMA Shapes ==
  /\ \A k \in Kinds : Rendered(k) \in Contents /\ Rendered(k) # Missing /\ Plain(Rendered(k))
  /\ Rendered("new") # Rendered("old") /\ Rendered("user") # Rendered("old")
  /\ \A c \in Contents : c # Missing => c[1] \in Kinds /\ c[2] \in BOOLEAN /\ c = <<c[1], c[2]>>
<1>1. \A k \in Kinds : Rendered(k) \in Contents /\ Rendered(k) # Missing /\ Plain(Rendered(k))
  <2> SUFFICES ASSUME NEW k \in Kinds
               PROVE  Rendered(k) \in Contents /\ Rendered(k) # Missing /\ Plain(Rendered(k))
    OBVIOUS
  <2>1. Rendered(k) \in Kinds \X BOOLEAN
    BY DEF Rendered
  <2>2. Rendered(k) # Missing
    BY <2>1 DEF Kinds
  <2>3. QED
    BY <2>1, <2>2 DEF Contents, Plain
<1>2. Rendered("new") # Rendered("old") /\ Rendered("user") # Rendered("old")
  BY DEF Rendered
<1>3. \A c \in Contents : c # Missing => c[1] \in Kinds /\ c[2] \in BOOLEAN /\ c = <<c[1], c[2]>>
  BY DEF Contents
<1>4. QED
  BY <1>1, <1>2, <1>3

LEMMA InitGenerate == GenerateInit => GenerateInv
<1> SUFFICES ASSUME GenerateInit PROVE GenerateInv
  OBVIOUS
<1>1. GenerateTyped
  <2>1. disk \in [Files -> Contents] /\ \A f \in Files : Plain(disk[f])
    BY Shapes DEF GenerateInit, Contents, Kinds, Plain
  <2>2. record \in [Files -> Digests]
    BY DEF GenerateInit, Digests, Kinds
  <2>3. QED
    BY <2>1, <2>2 DEF GenerateInit, GenerateTyped, Running, Going
<1>2. AllOrNothing /\ OldIsOwned
  BY DEF GenerateInit, AllOrNothing, OldIsOwned
<1>3. QED
  BY <1>1, <1>2 DEF GenerateInit, GenerateInv, Reversible, GoingOK, PlacingOK, EndingOK, Running, Going

(* The stack. *)
LEMMA Pushed ==
  ASSUME GenerateTyped, NEW p \in Paths, NEW was \in Contents \cup [Files -> Digests],
         placed' = Append(placed, [path |-> p, was |-> was])
  PROVE  /\ placed' \in Seq(PlacedEntries) /\ Len(placed') = Len(placed) + 1 /\ Len(placed) \in Nat
         /\ \A i \in 1..Len(placed) : placed'[i] = placed[i]
         /\ placed'[Len(placed) + 1].path = p /\ placed'[Len(placed) + 1].was = was
<1>1. [path |-> p, was |-> was] \in PlacedEntries /\ placed \in Seq(PlacedEntries)
  BY DEF PlacedEntries, GenerateTyped
<1>2. QED
  BY <1>1

LEMMA Popped ==
  ASSUME GenerateTyped, placed # <<>>, placed' = Earlier
  PROVE  /\ placed' \in Seq(PlacedEntries)
         /\ Len(placed') = Len(placed) - 1 /\ Len(placed) \in Nat \ {0}
         /\ \A i \in 1..Len(placed) - 1 : placed'[i] = placed[i]
         /\ Last \in PlacedEntries /\ Last = placed[Len(placed)]
<1>1. placed \in Seq(PlacedEntries) /\ Len(placed) \in Nat \ {0}
  BY DEF GenerateTyped
<1>2. PICK n \in Nat \ {0} : n = Len(placed)
  BY <1>1
<1>3. Last = placed[n] /\ Last \in PlacedEntries
  BY <1>1, <1>2 DEF Last
<1>4. placed' = SubSeq(placed, 1, n - 1)
  BY <1>2 DEF Earlier
<1>5. /\ placed' \in Seq(PlacedEntries) /\ Len(placed') = n - 1
      /\ \A i \in 1..n - 1 : placed'[i] = placed[i]
  BY <1>1, <1>2, <1>4
<1>6. QED
  BY <1>2, <1>3, <1>5

(* Placing p keeps what every path reverts to. *)
LEMMA PushedReverts ==
  ASSUME GenerateTyped, NEW p \in Paths, NEW was \in Contents \cup [Files -> Digests],
         placed' = Append(placed, [path |-> p, was |-> was]), UNCHANGED found,
         NEW q \in Paths, Reverts(q), q = p => was = Now(p), q # p => Now(q)' = Now(q)
  PROVE  Reverts(q)'
<1>1. FoundAt(q)' = FoundAt(q)
  BY DEF FoundAt
<1>2. CASE \E i \in 1..Len(placed) :
          /\ placed[i].path = q /\ placed[i].was = FoundAt(q)
          /\ \A j \in 1..Len(placed) : j < i => placed[j].path # q
  <2>1. PICK i \in 1..Len(placed) :
          /\ placed[i].path = q /\ placed[i].was = FoundAt(q)
          /\ \A j \in 1..Len(placed) : j < i => placed[j].path # q
    BY <1>2
  <2>2. i \in 1..Len(placed') /\ placed'[i] = placed[i]
    BY Pushed
  <2>3. \A j \in 1..Len(placed') : j < i => j \in 1..Len(placed) /\ placed'[j] = placed[j]
    BY Pushed
  <2>4. QED
    BY <1>1, <2>1, <2>2, <2>3 DEF Reverts
<1>3. CASE Now(q) = FoundAt(q) /\ \A i \in 1..Len(placed) : placed[i].path # q
  <2>1. CASE q = p
    <3>1. PICK n \in 1..Len(placed') : n = Len(placed) + 1
      BY Pushed
    <3>2. placed'[n].path = q /\ placed'[n].was = FoundAt(q)
      BY <1>3, <2>1, <3>1, Pushed
    <3>3. \A j \in 1..Len(placed') : j < n => placed'[j].path # q
      BY <1>3, <3>1, Pushed
    <3>4. QED
      BY <1>1, <3>2, <3>3 DEF Reverts
  <2>2. CASE q # p
    <3>1. \A i \in 1..Len(placed') : placed'[i].path # q
      BY <1>3, <2>2, Pushed
    <3>2. QED
      BY <1>1, <1>3, <2>2, <3>1 DEF Reverts
  <2>3. QED
    BY <2>1, <2>2
<1>4. QED
  BY <1>2, <1>3 DEF Reverts

(* Undoing the last entry, if it is put back. *)
LEMMA PoppedReverts ==
  ASSUME GenerateTyped, placed # <<>>, placed' = Earlier, UNCHANGED found,
         NEW q \in Paths, Reverts(q),
         q = Last.path => Now(q)' = Last.was, q # Last.path => Now(q)' = Now(q)
  PROVE  Reverts(q)'
<1>0. FoundAt(q)' = FoundAt(q)
  BY DEF FoundAt
<1>n. PICK n \in Nat \ {0} : n = Len(placed) /\ Len(placed') = n - 1 /\ Last = placed[n]
  BY Popped
<1>1. CASE Now(q) = FoundAt(q) /\ \A i \in 1..Len(placed) : placed[i].path # q
  <2>1. q # Last.path /\ \A i \in 1..Len(placed') : placed'[i].path # q
    BY <1>1, <1>n, Popped
  <2>2. QED
    BY <1>0, <1>1, <2>1 DEF Reverts
<1>2. CASE \E i \in 1..Len(placed) :
          /\ placed[i].path = q /\ placed[i].was = FoundAt(q)
          /\ \A j \in 1..Len(placed) : j < i => placed[j].path # q
  <2>1. PICK i \in 1..Len(placed) :
          /\ placed[i].path = q /\ placed[i].was = FoundAt(q)
          /\ \A j \in 1..Len(placed) : j < i => placed[j].path # q
    BY <1>2
  <2>2. CASE i = n
    <3>1. Now(q)' = FoundAt(q)
      BY <1>n, <2>1, <2>2
    <3>2. \A j \in 1..n - 1 : placed'[j] = placed[j] /\ placed[j].path # q
      <4>1. \A j \in 1..n - 1 : placed'[j] = placed[j]
        BY <1>n, Popped
      <4>2. \A j \in 1..n - 1 : j \in 1..Len(placed) /\ j < i
        BY <1>n, <2>2
      <4>3. QED
        BY <2>1, <4>1, <4>2
    <3>3. QED
      BY <1>0, <1>n, <3>1, <3>2 DEF Reverts
  <2>3. CASE i # n
    <3>1. i \in 1..Len(placed') /\ placed'[i] = placed[i]
      BY <1>n, <2>3, Popped
    <3>2. \A j \in 1..Len(placed') : j < i => placed'[j].path # q
      BY <1>n, <2>1, Popped
    <3>3. QED
      BY <1>0, <2>1, <3>1, <3>2 DEF Reverts
  <2>4. QED
    BY <2>2, <2>3
<1>3. QED
  BY <1>1, <1>2 DEF Reverts

(* Nothing left to undo. *)
LEMMA Undone ==
  ASSUME GenerateTyped, Reversible, runStep \in Running, placed = <<>>
  PROVE  /\ \A f \in Files \ (unrestored \cup touched) : disk[f] = found.disk[f]
         /\ RecordPath \notin unrestored => record = found.record
<1>1. \A p \in Paths \ (touched \cup unrestored) : Now(p) = FoundAt(p)
  BY DEF Reversible, Reverts
<1>2. ASSUME NEW f \in Files \ (unrestored \cup touched) PROVE disk[f] = found.disk[f]
  <2>1. f \in Paths \ (touched \cup unrestored) /\ f # RecordPath
    BY <1>2 DEF Paths
  <2>2. QED
    BY <1>1, <2>1 DEF Now, FoundAt
<1>3. RecordPath \notin unrestored => record = found.record
  <2>1. RecordPath \in Paths /\ RecordPath \notin touched
    BY DEF Paths, GenerateTyped
  <2>2. QED
    BY <1>1, <2>1 DEF Now, FoundAt
<1>4. QED
  BY <1>2, <1>3

(* What a step leaves as it was where it touches neither tree nor stack.   *)
LEMMA SameTree ==
  ASSUME UNCHANGED <<disk, record, planVars, placed>>
  PROVE  /\ \A p : Reverts(p)' = Reverts(p)
         /\ InFiles' = InFiles /\ RecordLast' = RecordLast /\ Recorded' = Recorded
         /\ \A f, c : OwnedWas(f, c)' = OwnedWas(f, c)
         /\ \A files : NoneOld(files)' = NoneOld(files)
         /\ UNCHANGED <<action, bytes, planRecord, found>>
<1>1. UNCHANGED <<disk, record, action, bytes, planRecord, found, placed>>
  BY DEF planVars
<1>2. \A p : Reverts(p)' = Reverts(p)
  BY <1>1 DEF Reverts, Now, FoundAt
<1>3. InFiles' = InFiles
  BY <1>1 DEF InFiles
<1>4. RecordLast' = RecordLast
  BY <1>1 DEF RecordLast, Last
<1>5. Recorded' = Recorded
  BY <1>1 DEF Recorded
<1>6. \A f, c : OwnedWas(f, c)' = OwnedWas(f, c)
  BY <1>1 DEF OwnedWas
<1>7. \A files : NoneOld(files)' = NoneOld(files)
  BY <1>1 DEF NoneOld
<1>8. QED
  BY <1>1, <1>2, <1>3, <1>4, <1>5, <1>6, <1>7

LEMMA StepsInPlace ==
  ASSUME GenerateInv,
         StopsBeforeWriting \/ Commits \/ SkipsUnchanged \/ Stages \/ StageFails \/ AllStaged
         \/ ReadsPrevious
  PROVE  GenerateInv'
<1> USE DEF GenerateInv, Running, Going
<1>0. UNCHANGED <<disk, record, planVars, placed, unrestored, touched, edits>>
  BY DEF StopsBeforeWriting, Commits, SkipsUnchanged, Stages, StageFails, AllStaged, ReadsPrevious
<1>1. /\ \A p : Reverts(p)' = Reverts(p)
      /\ InFiles' = InFiles /\ RecordLast' = RecordLast /\ Recorded' = Recorded
      /\ \A f, c : OwnedWas(f, c)' = OwnedWas(f, c)
      /\ \A files : NoneOld(files)' = NoneOld(files)
      /\ UNCHANGED <<action, bytes, planRecord, found>>
  BY <1>0, SameTree
<1>2. OldIsOwned'
  BY <1>0 DEF OldIsOwned
<1>3. ASSUME runStep \in Going, runStep' \in Going \cup {"Idle"}, at' \in Nat \ {0},
             runStep' # "Idle" => UNCHANGED ended
      PROVE  GenerateTyped' /\ Reversible'
  BY <1>0, <1>1, <1>3 DEF GenerateTyped, Reversible
<1>4. CASE StopsBeforeWriting \/ StageFails
  <2>1. /\ runStep \in {"Planned", "Staging"} /\ runStep' = "Idle" /\ ended' = "Failed" /\ at' = at
    BY <1>4 DEF StopsBeforeWriting, StageFails
  <2>2. /\ \A f \in Files \ (unrestored \cup touched) : disk[f] = found.disk[f]
        /\ RecordPath \notin unrestored => record = found.record
    BY <2>1, Undone DEF GoingOK
  <2>3. AllOrNothing'
    BY <1>0, <1>1, <2>1, <2>2 DEF AllOrNothing
  <2>4. QED
    BY <1>2, <1>3, <2>1, <2>3 DEF GenerateTyped, GoingOK, PlacingOK, EndingOK
<1>5. CASE Commits \/ Stages
  <2>1. /\ runStep \in {"Planned", "Staging"} /\ runStep' = "Staging" /\ ended' = ended
        /\ at' \in {at, at + 1}
    BY <1>5 DEF Commits, Stages
  <2>2. GoingOK'
    BY <1>0, <1>1, <2>1 DEF GoingOK
  <2>3. QED
    BY <1>2, <1>3, <2>1, <2>2 DEF GenerateTyped, PlacingOK, EndingOK, AllOrNothing, Reversible
<1>6. CASE SkipsUnchanged
  <2>1. /\ runStep \in {"Staging", "Placing"} /\ UNCHANGED <<runStep, ended>> /\ at' = at + 1
        /\ at <= Len(Order) /\ action[Order[at]] = "Unchanged"
    BY <1>6 DEF SkipsUnchanged, Skips, AtEnd, GenerateTyped
  <2>2. GoingOK'
    BY <1>0, <1>1, <2>1 DEF GoingOK
  <2>3. at \in 1..Len(Order) /\ Order[at] \in Files
    BY <2>1 DEF GenerateTyped
  <2>4. Order[at] \notin touched => disk[Order[at]] = bytes[Order[at]]
    BY <2>1, <2>3 DEF GoingOK
  <2>5. \A k \in 1..Len(Order) : k < at + 1 => k < at \/ k = at
    BY DEF GenerateTyped
  <2>6. PlacingOK'
    BY <1>0, <1>1, <2>1, <2>4, <2>5 DEF PlacingOK
  <2>7. QED
    BY <1>2, <1>3, <2>1, <2>2, <2>6 DEF GenerateTyped, EndingOK, AllOrNothing, Reversible
<1>7. CASE AllStaged
  <2>1. /\ runStep = "Staging" /\ runStep' = "Placing" /\ ended' = ended /\ at' = 1
    BY <1>7 DEF AllStaged
  <2>2. GoingOK'
    BY <1>0, <1>1, <2>1 DEF GoingOK
  <2>3. PlacingOK'
    BY <2>1 DEF PlacingOK
  <2>4. QED
    BY <1>2, <1>3, <2>1, <2>2, <2>3 DEF EndingOK, AllOrNothing, Reversible
<1>8. CASE ReadsPrevious
  <2>1. /\ runStep = "Placing" /\ runStep' = "Renaming" /\ ended' = ended /\ at' = at
        /\ at <= Len(Order) /\ previous' = disk[Order[at]]
    BY <1>8 DEF ReadsPrevious, AtEnd, GenerateTyped
  <2>2. GoingOK'
    BY <1>0, <1>1, <2>1 DEF GoingOK
  <2>3. PICK f \in Files : f = Order[at]
    BY <2>1 DEF GenerateTyped
  <2>4. OwnedWas(f, disk[f])
    BY <2>1, <2>3 DEF OwnedWas, GenerateTyped, OldIsOwned, GoingOK
  <2>5. PlacingOK'
    BY <1>0, <1>1, <2>1, <2>3, <2>4 DEF PlacingOK
  <2>6. QED
    BY <1>2, <1>3, <2>1, <2>2, <2>5 DEF GenerateTyped, EndingOK, AllOrNothing, Reversible
<1>9. QED
  BY <1>4, <1>5, <1>6, <1>7, <1>8

LEMMA StepsTurning ==
  ASSUME GenerateInv,
         PlaceFails \/ RecordFails \/ ResultFails \/ Finishes \/ RolledBack \/ GeneratorDies
  PROVE  GenerateInv'
<1> USE DEF GenerateInv, Running, Going
<1>0. UNCHANGED <<disk, record, planVars, placed, unrestored, touched, edits, at>>
  BY DEF PlaceFails, RecordFails, ResultFails, Finishes, RolledBack, GeneratorDies
<1>1. /\ \A p : Reverts(p)' = Reverts(p)
      /\ InFiles' = InFiles /\ RecordLast' = RecordLast /\ Recorded' = Recorded
      /\ \A f, c : OwnedWas(f, c)' = OwnedWas(f, c)
      /\ \A files : NoneOld(files)' = NoneOld(files)
      /\ UNCHANGED <<action, bytes, planRecord, found>>
  BY <1>0, SameTree
<1>2. OldIsOwned'
  BY <1>0 DEF OldIsOwned
<1>3. ASSUME runStep \in Running, runStep' \in {"Undoing", "Idle"},
             runStep' # "Idle" => UNCHANGED ended
      PROVE  GenerateTyped' /\ Reversible' /\ GoingOK' /\ PlacingOK'
  BY <1>0, <1>1, <1>3 DEF GenerateTyped, Reversible, GoingOK, PlacingOK
<1>4. CASE PlaceFails \/ RecordFails
  <2>1. /\ runStep \in {"Placing", "Renaming"} /\ runStep' = "Undoing" /\ ended' = ended
    BY <1>4 DEF PlaceFails, RecordFails
  <2>2. EndingOK' /\ AllOrNothing'
    BY <1>0, <1>1, <2>1 DEF EndingOK, GoingOK, AllOrNothing, Reversible
  <2>3. QED
    BY <1>2, <1>3, <2>1, <2>2
<1>5. CASE ResultFails
  <2>1. runStep = "Result" /\ runStep' = "Undoing" /\ ended' = ended
    BY <1>5 DEF ResultFails
  <2>2. NoneOld(Files)
    BY <2>1, Shapes DEF NoneOld, EndingOK, GoingOK
  <2>3. EndingOK' /\ AllOrNothing'
    BY <1>0, <1>1, <2>1, <2>2 DEF EndingOK, AllOrNothing, Reversible
  <2>4. QED
    BY <1>2, <1>3, <2>1, <2>3
<1>6. CASE Finishes
  <2>1. runStep = "Result" /\ runStep' = "Idle" /\ ended' = "Done"
    BY <1>6 DEF Finishes
  <2>2. EndingOK' /\ AllOrNothing'
    BY <1>0, <1>1, <2>1 DEF EndingOK, AllOrNothing
  <2>3. QED
    BY <1>2, <1>3, <2>1, <2>2
<1>7. CASE RolledBack
  <2>1. runStep = "Undoing" /\ placed = <<>> /\ runStep' = "Idle" /\ ended' = "Failed"
    BY <1>7 DEF RolledBack
  <2>2. /\ \A f \in Files \ (unrestored \cup touched) : disk[f] = found.disk[f]
        /\ RecordPath \notin unrestored => record = found.record
    BY <2>1, Undone
  <2>3. EndingOK' /\ AllOrNothing'
    BY <1>0, <1>1, <2>1, <2>2 DEF EndingOK, AllOrNothing
  <2>4. QED
    BY <1>2, <1>3, <2>1, <2>3
<1>8. CASE GeneratorDies
  <2>1. runStep \in Running /\ runStep' = "Idle" /\ ended' = "Died"
    BY <1>8 DEF GeneratorDies, GenerateTyped
  <2>2. EndingOK' /\ AllOrNothing'
    BY <2>1 DEF EndingOK, AllOrNothing
  <2>3. QED
    BY <1>2, <1>3, <2>1, <2>2
<1>9. QED
  BY <1>4, <1>5, <1>6, <1>7, <1>8

LEMMA StepPlans == ASSUME GenerateInv, NEW flag \in BOOLEAN, Plans(flag) PROVE GenerateInv'
<1>0. /\ Plannable(flag) /\ runStep' = "Planned" /\ at' = 1 /\ ended' = "None"
      /\ bytes' = [f \in Files |-> Wanted(f)] /\ action' = [f \in Files |-> Decision(f)]
      /\ found' = [disk |-> disk, record |-> record] /\ planRecord' = record
      /\ touched' = {} /\ placed' = <<>> /\ unrestored' = {}
      /\ UNCHANGED <<disk, record, previous>>
  BY DEF Plans
<1>t. GenerateTyped
  BY DEF GenerateInv
<1>1. ASSUME NEW f \in Files 
      PROVE  /\ Wanted(f) \in Contents /\ Wanted(f) # Missing
             /\ f \notin Marked => Wanted(f) = Rendered("new")
  <2>1. f \in Marked => disk[f] # Missing /\ disk[f] \in Contents
    BY <1>0, <1>t DEF Plannable, GenerateTyped
  <2>2. f \in Marked => Outside(disk[f]) \in Kinds
    BY <2>1, Shapes DEF Outside
  <2>3. f \in Marked => Wanted(f) \in Kinds \X BOOLEAN
    BY <2>2 DEF Wanted
  <2>4. f \in Marked => Wanted(f) # Missing
    BY <2>3 DEF Kinds
  <2>5. QED
    BY <2>3, <2>4, Shapes DEF Wanted, Contents, Kinds
<1>2. found'.disk = disk /\ found'.record = record
  BY <1>0
<1>3. GenerateTyped'
  BY <1>0, <1>1, <1>t DEF GenerateTyped, Running, Going
<1>4. \A p \in Paths : Reverts(p)'
  BY <1>0, <1>2 DEF Reverts, Now, FoundAt
<1>5. Reversible'
  BY <1>0, <1>4 DEF Reversible
<1>6. ASSUME NEW f \in Files, action'[f] = "Unchanged" PROVE disk'[f] = bytes'[f]
  <2>1. Decision(f) = "Unchanged"
    BY <1>0, <1>6
  <2>2. disk[f] = Wanted(f)
    BY <2>1 DEF Decision
  <2>3. QED
    BY <1>0, <2>2
<1>7. GoingOK'
  <2>1. InFiles'
    BY <1>0 DEF InFiles
  <2>2. NoneOld(touched)'
    BY <1>0 DEF NoneOld
  <2>3. QED
    BY <1>0, <1>1, <1>2, <1>6, <2>1, <2>2 DEF GoingOK
<1>8. OldIsOwned'
  <2>1. ASSUME NEW f \in Files \ Marked, disk[f] = Rendered("old") PROVE record[f] = "old"
    <3>1. ~Refuses(f, flag)
      BY <1>0 DEF Plannable
    <3>2. disk[f] # Missing /\ disk[f] # Wanted(f)
      BY <2>1, <1>1, Shapes DEF Kinds
    <3>3. Regenerable(f)
      BY <2>1, <3>1, <3>2 DEF Refuses
    <3>4. QED
      BY <2>1, <3>3 DEF Regenerable, Outside, Rendered
  <2>2. QED
    BY <1>0, <2>1 DEF OldIsOwned
<1>9. QED
  BY <1>0, <1>3, <1>5, <1>7, <1>8 DEF GenerateInv, PlacingOK, EndingOK, AllOrNothing

LEMMA StepPlanRefused ==
  ASSUME GenerateInv, NEW flag \in BOOLEAN, PlanRefused(flag)
  PROVE  GenerateInv'
<1>0. /\ runStep = "Idle" /\ ended' = "Refused" /\ touched' = {}
      /\ found' = [disk |-> disk, record |-> record]
      /\ UNCHANGED <<disk, record, runStep, at, action, bytes, planRecord, previous, placed,
                     unrestored>>
  BY DEF PlanRefused
<1>1. found'.disk = disk /\ found'.record = record
  BY <1>0
<1>2. GenerateTyped'
  BY <1>0 DEF GenerateInv, GenerateTyped
<1>3. AllOrNothing' /\ OldIsOwned'
  BY <1>0, <1>1 DEF AllOrNothing, OldIsOwned, GenerateInv
<1>4. QED
  BY <1>0, <1>2, <1>3
     DEF GenerateInv, Reversible, GoingOK, PlacingOK, EndingOK, Running, Going

LEMMA StepPlacesNext == ASSUME GenerateInv, PlacesNext PROVE GenerateInv'
<1> USE DEF Running, Going
<1>t. GenerateTyped
  BY DEF GenerateInv
<1>0. runStep = "Renaming" /\ at <= Len(Order)
  BY DEF PlacesNext, GenerateInv, PlacingOK
<1>f. PICK f \in Files : f = Order[at]
  BY <1>0, <1>t DEF GenerateTyped
<1>1. /\ disk' = [disk EXCEPT ![f] = bytes[f]]
      /\ placed' = Append(placed, [path |-> f, was |-> previous])
      /\ runStep' = "Placing" /\ at' = at + 1
      /\ UNCHANGED <<record, planVars, previous, unrestored, ended, touched>>
      /\ UNCHANGED <<action, bytes, planRecord, found>>
  BY <1>f DEF PlacesNext, planVars
<1>2. /\ OwnedWas(f, previous) /\ (f \notin touched => previous = disk[f])
      /\ unrestored = {} /\ record = found.record /\ InFiles
      /\ ended = "None"
      /\ \A g \in Files \ touched : action[g] = "Unchanged" => disk[g] = bytes[g]
      /\ NoneOld(touched)
      /\ \A g \in Files \ Marked : bytes[g] = Rendered("new")
      /\ \A g \in Files : bytes[g] # Missing
  BY <1>0, <1>f DEF GenerateInv, PlacingOK, GoingOK, Reversible
<1>3. previous \in Contents /\ f \in Paths /\ f # RecordPath
  BY <1>2 DEF OwnedWas, Paths
<1>4. \A g \in Files : disk'[g] = IF g = f THEN bytes[g] ELSE disk[g]
  BY <1>1, <1>t DEF GenerateTyped
<1>5. /\ placed' \in Seq(PlacedEntries) /\ Len(placed') = Len(placed) + 1 /\ Len(placed) \in Nat
      /\ \A i \in 1..Len(placed) : placed'[i] = placed[i]
      /\ placed'[Len(placed) + 1].path = f /\ placed'[Len(placed) + 1].was = previous
  BY <1>1, <1>3, <1>t, Pushed
<1>6. GenerateTyped'
  <2>1. \A g \in Files \ Marked : Plain(disk'[g])
    BY <1>2, <1>4, <1>t, Shapes DEF GenerateTyped, Kinds
  <2>2. disk' \in [Files -> Contents] /\ at' \in Nat \ {0}
    BY <1>1, <1>t DEF GenerateTyped
  <2>3. QED
    BY <1>1, <1>5, <1>t, <2>1, <2>2 DEF GenerateTyped
<1>7. ASSUME NEW p \in Paths \ (touched \cup unrestored) PROVE Reverts(p)'
  <2>1. Reverts(p)
    BY <1>0 DEF GenerateInv, Reversible
  <2>2. p = f => previous = Now(p)
    BY <1>2, <1>3, <1>7 DEF Now
  <2>3. p # f => Now(p)' = Now(p)
    BY <1>1, <1>4 DEF Now, Paths
  <2>4. QED
    BY <1>1, <1>3, <1>t, <2>1, <2>2, <2>3, PushedReverts
<1>8. \A g, c : OwnedWas(g, c)' = OwnedWas(g, c)
  BY <1>1 DEF OwnedWas
<1>9. Reversible'
  <2>1. \A i \in 1..Len(placed') : placed'[i].path \in Files =>
           OwnedWas(placed'[i].path, placed'[i].was)
    <3>1. \A i \in 1..Len(placed) : placed[i].path \in Files =>
             OwnedWas(placed[i].path, placed[i].was)
      BY <1>0 DEF GenerateInv, Reversible
    <3>2. QED
      BY SMTT(30), <1>2, <1>5, <3>1
  <2>2. QED
    BY <1>1, <1>2, <1>7, <1>8, <2>1 DEF Reversible
<1>10. GoingOK'
  <2>1. InFiles'
    BY <1>2, <1>5 DEF InFiles
  <2>2. NoneOld(touched)'
    BY <1>1, <1>2, <1>4, <1>t, Shapes DEF NoneOld, GenerateTyped
  <2>3. QED
    BY <1>1, <1>2, <1>4, <2>1, <2>2 DEF GoingOK
<1>11. PlacingOK'
  <2>1. ASSUME NEW k \in 1..Len(Order), k < at + 1, Order[k] \notin touched
        PROVE  disk'[Order[k]] = bytes[Order[k]]
    <3>1. Order[k] \in Files
      OBVIOUS
    <3>2. CASE Order[k] = f
      BY <1>4, <3>1, <3>2
    <3>3. CASE Order[k] # f
      <4>1. k < at
        BY <1>f, <1>t, <2>1, <3>3 DEF GenerateTyped
      <4>2. QED
        BY <1>0, <1>4, <2>1, <3>1, <3>3, <4>1 DEF GenerateInv, PlacingOK
    <3>4. QED
      BY <3>2, <3>3
  <2>2. QED
    BY <1>1, <2>1 DEF PlacingOK
<1>12. OldIsOwned'
  BY <1>1, <1>2, <1>4, Shapes DEF OldIsOwned, GenerateInv
<1>13. QED
  BY <1>1, <1>2, <1>6, <1>9, <1>10, <1>11, <1>12 DEF GenerateInv, EndingOK, AllOrNothing

LEMMA StepWritesRecord == ASSUME GenerateInv, WritesRecord PROVE GenerateInv'
<1> USE DEF Running, Going
<1>t. GenerateTyped
  BY DEF GenerateInv
<1>0. /\ runStep = "Placing" /\ at > Len(Order)
      /\ placed' = Append(placed, [path |-> RecordPath, was |-> record])
      /\ record' = Recorded /\ runStep' = "Result"
      /\ UNCHANGED <<disk, at, action, bytes, planRecord, found, previous, unrestored, ended,
                     touched>>
  BY DEF WritesRecord, AtEnd, planVars
<1>1. /\ unrestored = {} /\ record = found.record /\ InFiles /\ ended = "None"
      /\ NoneOld(touched)
      /\ \A g \in Files \ Marked : bytes[g] = Rendered("new")
      /\ \A g \in Files : bytes[g] # Missing
  BY <1>0 DEF GenerateInv, GoingOK, Reversible
<1>2. \A f \in Files \ touched : disk[f] = bytes[f]
  <2>1. \A k \in 1..Len(Order) : k < at
    BY <1>0, <1>t DEF GenerateTyped
  <2>2. QED
    BY <1>0, <2>1 DEF GenerateInv, PlacingOK
<1>3. NoneOld(Files)
  BY <1>1, <1>2, Shapes DEF NoneOld
<1>4. /\ placed' \in Seq(PlacedEntries) /\ Len(placed') = Len(placed) + 1 /\ Len(placed) \in Nat
      /\ \A i \in 1..Len(placed) : placed'[i] = placed[i]
      /\ placed'[Len(placed) + 1].path = RecordPath /\ placed'[Len(placed) + 1].was = record
  <2>1. RecordPath \in Paths /\ record \in [Files -> Digests]
    BY <1>t DEF Paths, GenerateTyped
  <2>2. QED
    BY <1>0, <1>t, <2>1, Pushed
<1>5. Recorded \in [Files -> Digests]
  <2>1. ASSUME NEW f \in Files PROVE Outside(bytes[f]) \in Digests
    <3>1. bytes[f] \in Contents /\ bytes[f] # Missing
      BY <1>1, <1>t DEF GenerateTyped
    <3>2. QED
      BY <3>1, Shapes DEF Outside, Digests
  <2>2. QED
    BY <2>1, <1>t DEF Recorded, GenerateTyped
<1>6. GenerateTyped'
  BY <1>0, <1>4, <1>5, <1>t DEF GenerateTyped
<1>7. ASSUME NEW p \in Paths \ (touched \cup unrestored) PROVE Reverts(p)'
  <2>1. Reverts(p)
    BY <1>0 DEF GenerateInv, Reversible
  <2>2. RecordPath \in Paths /\ record \in [Files -> Digests]
    BY <1>t DEF Paths, GenerateTyped
  <2>3. p = RecordPath => record = Now(p)
    BY DEF Now
  <2>4. p # RecordPath => Now(p)' = Now(p)
    BY <1>0 DEF Now
  <2>5. QED
    BY <1>0, <1>t, <2>1, <2>2, <2>3, <2>4, PushedReverts
<1>8. Reversible'
  <2>1. \A i \in 1..Len(placed) : placed[i].path \in Files =>
           OwnedWas(placed[i].path, placed[i].was)
    BY <1>0 DEF GenerateInv, Reversible
  <2>2. \A g, c : OwnedWas(g, c)' = OwnedWas(g, c)
    BY <1>0 DEF OwnedWas
  <2>3. \A i \in 1..Len(placed') : placed'[i].path \in Files =>
           OwnedWas(placed'[i].path, placed'[i].was)
    BY <1>4, <2>1
  <2>4. QED
    BY <1>0, <1>1, <1>7, <2>2, <2>3 DEF Reversible
<1>9. NoneOld(touched)' /\ NoneOld(Files)'
  BY <1>0, <1>1, <1>3 DEF NoneOld
<1>10. GoingOK'
  BY <1>0, <1>1, <1>2, <1>9 DEF GoingOK
<1>11. EndingOK'
  <2>1. Recorded' = Recorded
    BY <1>0 DEF Recorded
  <2>2. RecordLast'
    BY <1>0, <1>1, <1>4 DEF RecordLast, Last, InFiles
  <2>3. QED
    BY <1>0, <1>1, <1>2, <2>1, <2>2 DEF EndingOK
<1>12. OldIsOwned' /\ PlacingOK' /\ AllOrNothing'
  BY <1>0, <1>1, <1>3 DEF OldIsOwned, NoneOld, PlacingOK, AllOrNothing
<1>13. QED
  BY <1>6, <1>8, <1>10, <1>11, <1>12 DEF GenerateInv

(* What undoing one entry keeps, put back or not. *)
LEMMA UndoneOne ==
  ASSUME GenerateInv, runStep = "Undoing", placed # <<>>, placed' = Earlier,
         UNCHANGED <<runStep, at, action, bytes, planRecord, found, ended, touched>>,
         unrestored' \in {unrestored, unrestored \cup {Last.path}},
         \A q \in Paths \ (touched \cup unrestored') :
            /\ q = Last.path => Now(q)' = Last.was
            /\ q # Last.path => Now(q)' = Now(q)
  PROVE  /\ Reversible' /\ GoingOK' /\ PlacingOK' /\ AllOrNothing' /\ ended = "None"
         /\ placed' \in Seq(PlacedEntries) /\ unrestored' \subseteq Paths /\ Last \in PlacedEntries
         /\ InFiles \/ RecordLast => InFiles'
         /\ InFiles => Last.path \in Files /\ OwnedWas(Last.path, Last.was)
<1> USE DEF Running, Going
<1>t. GenerateTyped /\ ended = "None"
  BY DEF GenerateInv, Reversible
<1>1. /\ placed' \in Seq(PlacedEntries)
      /\ Len(placed') = Len(placed) - 1 /\ Len(placed) \in Nat \ {0}
      /\ \A i \in 1..Len(placed) - 1 : placed'[i] = placed[i]
      /\ Last \in PlacedEntries /\ Last = placed[Len(placed)]
  BY <1>t, Popped
<1>2. unrestored' \subseteq Paths
  BY <1>1, <1>t DEF GenerateTyped, PlacedEntries
<1>3. ASSUME NEW q \in Paths \ (touched \cup unrestored') PROVE Reverts(q)'
  <2>1. Reverts(q)
    BY DEF GenerateInv, Reversible
  <2>2. QED
    BY <1>t, <2>1, PoppedReverts
<1>4. \A i \in 1..Len(placed) : placed[i].path \in Files =>
         OwnedWas(placed[i].path, placed[i].was)
  BY DEF GenerateInv, Reversible
<1>5. Reversible'
  <2>1. \A g, c : OwnedWas(g, c)' = OwnedWas(g, c)
    BY DEF OwnedWas
  <2>2. \A i \in 1..Len(placed') : placed'[i].path \in Files =>
           OwnedWas(placed'[i].path, placed'[i].was)
    BY <1>1, <1>4
  <2>3. QED
    BY <1>3, <1>t, <2>1, <2>2 DEF Reversible
<1>6. GoingOK' /\ PlacingOK' /\ AllOrNothing'
  BY <1>t DEF GoingOK, PlacingOK, AllOrNothing
<1>7. InFiles \/ RecordLast => InFiles'
  BY <1>1 DEF InFiles, RecordLast
<1>8. InFiles => Last.path \in Files /\ OwnedWas(Last.path, Last.was)
  BY <1>1, <1>4 DEF InFiles
<1>9. QED
  BY <1>1, <1>2, <1>5, <1>6, <1>7, <1>8, <1>t

LEMMA StepRestores == ASSUME GenerateInv, Restores PROVE GenerateInv'
<1>t. GenerateTyped
  BY DEF GenerateInv
<1>0. /\ runStep = "Undoing" /\ placed # <<>> /\ placed' = Earlier
      /\ UNCHANGED <<runStep, at, action, bytes, planRecord, found, ended, touched, unrestored>>
      /\ IF Last.path = RecordPath
         THEN record' = Last.was /\ UNCHANGED disk
         ELSE disk' = [disk EXCEPT ![Last.path] = Last.was] /\ UNCHANGED record
  BY DEF Restores, planVars
<1>1. \A q \in Paths : /\ q = Last.path => Now(q)' = Last.was
                       /\ q # Last.path => Now(q)' = Now(q)
  BY <1>0, <1>t DEF Now, Paths, GenerateTyped
<1>2. /\ Reversible' /\ GoingOK' /\ PlacingOK' /\ AllOrNothing' /\ ended = "None"
      /\ placed' \in Seq(PlacedEntries) /\ unrestored' \subseteq Paths /\ Last \in PlacedEntries
      /\ InFiles \/ RecordLast => InFiles'
      /\ InFiles => Last.path \in Files /\ OwnedWas(Last.path, Last.was)
  BY <1>0, <1>1, UndoneOne
<1>3. CASE RecordLast /\ NoneOld(Files)
  <2>1. record' = found.record /\ UNCHANGED disk /\ InFiles'
    BY <1>0, <1>2, <1>3 DEF RecordLast
  <2>2. GenerateTyped'
    BY <1>0, <1>2, <1>t, <2>1 DEF GenerateTyped
  <2>3. OldIsOwned' /\ EndingOK'
    BY <1>0, <1>3, <2>1 DEF OldIsOwned, NoneOld, EndingOK
  <2>4. QED
    BY <1>2, <2>2, <2>3 DEF GenerateInv
<1>4. CASE InFiles /\ (RecordPath \in unrestored \/ record = found.record)
  <2>1. PICK f \in Files : f = Last.path
    BY <1>2, <1>4
  <2>2. /\ disk' = [disk EXCEPT ![f] = Last.was] /\ UNCHANGED record
        /\ OwnedWas(f, Last.was) /\ InFiles'
    BY <1>0, <1>2, <1>4, <2>1
  <2>3. \A g \in Files : disk'[g] = IF g = f THEN Last.was ELSE disk[g]
    BY <1>t, <2>2 DEF GenerateTyped
  <2>4. GenerateTyped'
    <3>1. disk' \in [Files -> Contents]
      BY <1>t, <2>2 DEF GenerateTyped, OwnedWas
    <3>2. \A g \in Files \ Marked : Plain(disk'[g])
      BY <1>t, <2>2, <2>3 DEF GenerateTyped, OwnedWas
    <3>3. QED
      BY <1>0, <1>2, <1>t, <2>2, <3>1, <3>2 DEF GenerateTyped
  <2>5. OldIsOwned'
    BY <1>0, <1>4, <2>2, <2>3 DEF OldIsOwned, OwnedWas, GenerateInv
  <2>6. EndingOK'
    BY <1>0, <1>4, <2>2 DEF EndingOK
  <2>7. QED
    BY <1>2, <2>4, <2>5, <2>6 DEF GenerateInv
<1>5. QED
  BY <1>0, <1>3, <1>4 DEF GenerateInv, EndingOK

LEMMA StepCannotRestore == ASSUME GenerateInv, CannotRestore PROVE GenerateInv'
<1>t. GenerateTyped
  BY DEF GenerateInv
<1>0. /\ runStep = "Undoing" /\ placed # <<>> /\ placed' = Earlier
      /\ unrestored' = unrestored \cup {Last.path}
      /\ UNCHANGED <<runStep, at, action, bytes, planRecord, found, ended, touched, disk, record>>
  BY DEF CannotRestore, planVars
<1>1. \A q \in Paths \ (touched \cup unrestored') : q # Last.path /\ Now(q)' = Now(q)
  BY <1>0 DEF Now
<1>2. /\ Reversible' /\ GoingOK' /\ PlacingOK' /\ AllOrNothing'
      /\ placed' \in Seq(PlacedEntries) /\ unrestored' \subseteq Paths
      /\ InFiles \/ RecordLast => InFiles'
  BY <1>0, <1>1, UndoneOne
<1>3. GenerateTyped' /\ OldIsOwned'
  BY <1>0, <1>2, <1>t DEF GenerateTyped, OldIsOwned, GenerateInv
<1>4. EndingOK'
  BY <1>0, <1>2 DEF EndingOK, GenerateInv, RecordLast
<1>5. QED
  BY <1>2, <1>3, <1>4 DEF GenerateInv

LEMMA StepUserChanges == ASSUME GenerateInv, NEW f \in Files, UserChanges(f) PROVE GenerateInv'
<1> USE DEF Running, Going
<1>t. GenerateTyped
  BY DEF GenerateInv
<1>d. DEFINE c == IF disk[f] = Missing THEN Rendered("user") ELSE <<"user", disk[f][2]>>
<1>0. /\ disk' = [disk EXCEPT ![f] = c] /\ touched' = touched \cup {f}
      /\ UNCHANGED <<record, runStep, at, action, bytes, planRecord, found, previous, placed,
                     unrestored, ended>>
  BY DEF UserChanges, planVars
<1>1. c \in Contents /\ c # Rendered("old") /\ (f \notin Marked => Plain(c))
  <2>1. disk[f] \in Contents
    BY <1>t DEF GenerateTyped
  <2>2. CASE disk[f] = Missing
    BY <2>2, Shapes DEF Kinds
  <2>3. CASE disk[f] # Missing
    <3>1. c = <<"user", disk[f][2]>> /\ disk[f][2] \in BOOLEAN
      BY <2>1, <2>3, Shapes
    <3>2. c \in Contents /\ c # Rendered("old")
      BY <3>1 DEF Contents, Kinds, Rendered
    <3>3. ASSUME f \notin Marked PROVE Plain(c)
      <4>1. PICK k \in Kinds : disk[f] = Rendered(k)
        BY <1>t, <2>3, <3>3 DEF GenerateTyped, Plain
      <4>2. disk[f][2] = FALSE
        BY <4>1 DEF Rendered
      <4>3. c = Rendered("user")
        BY <3>1, <4>2 DEF Rendered
      <4>4. QED
        BY <4>3, Shapes DEF Kinds
    <3>4. QED
      BY <3>2, <3>3
  <2>4. QED
    BY <2>2, <2>3
<1> HIDE DEF c
<1>2. \A g \in Files : disk'[g] = IF g = f THEN c ELSE disk[g]
  BY <1>0, <1>t DEF GenerateTyped
<1>3. GenerateTyped'
  <2>1. disk' \in [Files -> Contents] /\ \A g \in Files \ Marked : Plain(disk'[g])
    BY <1>0, <1>1, <1>2, <1>t DEF GenerateTyped
  <2>2. QED
    BY <1>0, <1>t, <2>1 DEF GenerateTyped
<1>4. ASSUME NEW p \in Paths \ (touched' \cup unrestored), runStep \in Running PROVE Reverts(p)'
  <2>1. Reverts(p)
    BY <1>0, <1>4 DEF GenerateInv, Reversible
  <2>2. Now(p)' = Now(p) /\ FoundAt(p)' = FoundAt(p)
    BY <1>0, <1>2 DEF Now, FoundAt, Paths
  <2>3. QED
    BY <1>0, <2>1, <2>2 DEF Reverts
<1>5. /\ \A g, d : OwnedWas(g, d)' = OwnedWas(g, d)
      /\ InFiles' = InFiles /\ RecordLast' = RecordLast /\ Recorded' = Recorded
  BY <1>0 DEF OwnedWas, InFiles, RecordLast, Last, Recorded
<1>6. /\ NoneOld(touched) => NoneOld(touched)'
      /\ NoneOld(Files) => NoneOld(Files)'
  BY <1>0, <1>1, <1>2, <1>t DEF NoneOld, GenerateTyped
<1>7. Reversible'
  BY <1>0, <1>4, <1>5 DEF Reversible, GenerateInv
<1>8. GoingOK'
  BY <1>0, <1>2, <1>5, <1>6 DEF GoingOK, GenerateInv
<1>9. PlacingOK'
  <2>1. \A k \in 1..Len(Order) : Order[k] \in Files
    OBVIOUS
  <2>2. runStep = "Renaming" => at \in 1..Len(Order)
    BY <1>t DEF GenerateInv, PlacingOK, GenerateTyped
  <2>3. QED
    BY <1>0, <1>2, <1>5, <2>1, <2>2 DEF PlacingOK, GenerateInv
<1>10. EndingOK'
  BY <1>0, <1>2, <1>5, <1>6 DEF EndingOK, GenerateInv
<1>11. OldIsOwned' /\ AllOrNothing'
  BY <1>0, <1>1, <1>2, <1>5 DEF OldIsOwned, AllOrNothing, GenerateInv
<1>12. QED
  BY <1>3, <1>7, <1>8, <1>9, <1>10, <1>11 DEF GenerateInv

LEMMA StepGenerate == ASSUME GenerateInv, [GenerateNext]_generateVars PROVE GenerateInv'
<1>1. CASE \E flag \in BOOLEAN : Plans(flag) \/ PlanRefused(flag)
  BY <1>1, StepPlans, StepPlanRefused
<1>2. CASE \E f \in Files : UserChanges(f)
  BY <1>2, StepUserChanges
<1>3. CASE UNCHANGED generateVars
  <2>1. UNCHANGED <<disk, record, planVars, placed>>
    BY <1>3 DEF generateVars, planVars
  <2>2. UNCHANGED <<runStep, at, previous, unrestored, ended, touched>>
    BY <1>3 DEF generateVars
  <2>3. /\ \A p : Reverts(p)' = Reverts(p)
        /\ InFiles' = InFiles /\ RecordLast' = RecordLast /\ Recorded' = Recorded
        /\ \A f, c : OwnedWas(f, c)' = OwnedWas(f, c)
        /\ \A files : NoneOld(files)' = NoneOld(files)
        /\ UNCHANGED <<action, bytes, planRecord, found>>
    BY <2>1, SameTree
  <2>4. GenerateTyped' /\ Reversible' /\ OldIsOwned' /\ AllOrNothing'
    BY <2>1, <2>2, <2>3 DEF GenerateInv, GenerateTyped, Reversible, OldIsOwned, AllOrNothing
  <2>5. GoingOK' /\ PlacingOK' /\ EndingOK'
    BY <2>1, <2>2, <2>3 DEF GenerateInv, GoingOK, PlacingOK, EndingOK
  <2>6. QED
    BY <2>4, <2>5 DEF GenerateInv
<1>4. QED
  BY <1>1, <1>2, <1>3, StepsInPlace, StepsTurning, StepPlacesNext, StepWritesRecord, StepRestores,
     StepCannotRestore DEF GenerateNext

(* The next run finds nothing of the last one's in its way. *)
LEMMA RunsAgain == ASSUME GenerateInv PROVE GenerationCanRunAgain
<1> SUFFICES ASSUME RecordPath \notin unrestored, NEW f \in Files, f \notin Marked,
                    disk[f] # Missing, Outside(disk[f]) # "user"
             PROVE  ~Refuses(f, TRUE)
  BY DEF GenerationCanRunAgain, Refuses
<1>p. PICK k \in Kinds : disk[f] = Rendered(k)
  BY DEF GenerateInv, GenerateTyped, Plain
<1>1. k \in {"old", "new"} /\ disk[f] = Rendered(k)
  <2>1. Outside(Rendered(k)) = k
    BY DEF Outside, Rendered
  <2>2. QED
    BY <1>p, <2>1 DEF Kinds
<1>2. CASE k = "new"
  BY <1>1, <1>2 DEF Refuses, Wanted
<1>3. CASE k = "old"
  <2>1. record[f] = "old"
    BY <1>1, <1>3 DEF GenerateInv, OldIsOwned
  <2>2. Regenerable(f)
    BY <1>1, <1>3, <2>1 DEF Regenerable, Outside, Rendered
  <2>3. QED
    BY <2>2 DEF Refuses
<1>4. QED
  BY <1>1, <1>2, <1>3

(***************************************************************************)
(* commit_with, roll_back and plan: a generation that failed or was        *)
(* refused has cost the project nothing, one that is done wrote every file *)
(* and says so, and neither it nor a process that died stands in the way   *)
(* of the next - for any plan, in any order, over any number of runs and   *)
(* whatever the user changes meanwhile.                                    *)
(***************************************************************************)
THEOREM GenerationsRecover == GenerateSpec => []GenerationRecovers
<1>1. GenerateInv /\ [GenerateNext]_generateVars => GenerateInv'
  BY StepGenerate
<1>2. GenerateInv => GenerationRecovers
  BY RunsAgain DEF GenerateInv, GenerationRecovers
<1>3. QED
  BY InitGenerate, <1>1, <1>2, PTL DEF GenerateSpec

HIDE GenerateAssumption
=============================================================================

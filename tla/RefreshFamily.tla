--------------------------- MODULE RefreshFamily ---------------------------
(***************************************************************************)
(* Rotation and revocation of refresh tokens: renvor-auth/src/refresh.rs   *)
(* and the transactions of renvor-sqlx/src/auth.rs, statement by statement *)
(* (renvor-seaorm sends the same).  A session is a call in progress; what  *)
(* its transaction has written and not committed is in `call`, and is      *)
(* nobody else's to see.                                                   *)
(*                                                                         *)
(* The engine is as in SqlJobStore: a locked row is locked and written by  *)
(* nobody else until the transaction ends, and an UPDATE finds its rows    *)
(* when it begins, waits for those that are locked, and never sees a row   *)
(* inserted meanwhile (PostgreSQL, READ COMMITTED; MySQL sees no less).    *)
(* A presented value that is malformed or unknown changes nothing, here as *)
(* there.                                                                  *)
(***************************************************************************)
EXTENDS Integers, FiniteSets

CONSTANTS
    Families,   \* logins: one family each
    Digests,    \* refresh tokens, as the store holds them
    Sessions,   \* calls that may be in progress at once
    NoFamily,   \* of a token that is not stored
    NoDigest,   \* no token
    NoSession,  \* of a row nobody holds
    Never,      \* of a family that is not revoked
    TokenLife,  \* RefreshLifetime
    FamilyLife, \* FamilyLifetime
    MaxTime     \* bound on the clock

ASSUME RefreshAssumption ==
    /\ NoFamily \notin Families
    /\ NoDigest \notin Digests
    /\ NoSession \notin Sessions
    /\ MaxTime \in Nat /\ TokenLife \in Nat \ {0} /\ FamilyLife \in Nat \ {0}
    /\ Never \notin 0 .. MaxTime

VARIABLES
    family,      \* rv_auth_refresh_family, as committed
    token,       \* rv_auth_refresh, as committed
    handed,      \* the tokens that reached a caller: clients hold copies of these
    now,         \* the issuer's clock
    pc,          \* the statement each session sends next
    call,        \* its arguments, and what its transaction is to commit
    familyLock,  \* who holds each family's row
    tokenLock    \* who holds each token's row

tables == <<family, token>>
locks == <<familyLock, tokenLock>>
vars == <<family, token, handed, now, pc, call, familyLock, tokenLock>>

Instants == 0 .. MaxTime

NotBegun == [expires_at |-> 0, revoked_at |-> Never, begun |-> FALSE]

NotStored ==
    [family |-> NoFamily, expires_at |-> 0, consumed |-> FALSE, replaced_by |-> NoDigest,
     revoked |-> FALSE]

NoCall ==
    [family |-> NoFamily, presented |-> NoDigest, successor |-> NoDigest, at |-> 0,
     expires_at |-> 0, swept |-> {}]

Init ==
    /\ family = [f \in Families |-> NotBegun]
    /\ token = [d \in Digests |-> NotStored]
    /\ handed = {}
    /\ now = 0
    /\ pc = [s \in Sessions |-> "idle"]
    /\ call = [s \in Sessions |-> NoCall]
    /\ familyLock = [f \in Families |-> NoSession]
    /\ tokenLock = [d \in Digests |-> NoSession]

------------------------------------------------------------------------------

Goto(s, label) == pc' = [pc EXCEPT ![s] = label]

Free(lock, s) == lock \in {s, NoSession}

(* The end of a transaction, and of the locks it holds. *)
Unlocks(s) ==
    /\ familyLock' = [f \in Families |-> IF familyLock[f] = s THEN NoSession ELSE familyLock[f]]
    /\ tokenLock' = [d \in Digests |-> IF tokenLock[d] = s THEN NoSession ELSE tokenLock[d]]

Returns(s) ==
    /\ Goto(s, "idle")
    /\ call' = [call EXCEPT ![s] = NoCall]

(* 256 bits of entropy: neither stored nor prepared by another call.       *)
Fresh(d) == token[d].family = NoFamily /\ \A s \in Sessions : call[s].successor # d

(* token_expiry: the token's lifetime or the end of its family. *)
TokenExpiry(at, end) == IF at + TokenLife < end THEN at + TokenLife ELSE end

Stored(f, expires) ==
    [family |-> f, expires_at |-> expires, consumed |-> FALSE, replaced_by |-> NoDigest,
     revoked |-> FALSE]

(* begin: the family and its first token, in a transaction that locks      *)
(* nothing another session can see.                                        *)
Begins(s, f, d) ==
    /\ pc[s] = "idle"
    /\ ~family[f].begun
    /\ Fresh(d)
    /\ LET end == now + FamilyLife
       IN  /\ family' = [family EXCEPT ![f] =
                            [begun |-> TRUE, expires_at |-> end, revoked_at |-> Never]]
           /\ token' = [token EXCEPT ![d] = Stored(f, TokenExpiry(now, end))]
    /\ call' = [call EXCEPT ![s] = [NoCall EXCEPT !.family = f, !.successor = d, !.at = now]]
    /\ Goto(s, "answer")
    /\ UNCHANGED <<handed, now, locks>>

------------------------------------------------------------------------------
(* rotate, up to the decision *)

(* The grant is read and both secrets are prepared.  A client presents what*)
(* it was handed, once or again; so does the holder of a stolen copy.      *)
Presents(s, d, n) ==
    /\ pc[s] = "idle"
    /\ d \in handed
    /\ Fresh(n)
    /\ LET f == token[d].family
       IN  call' = [call EXCEPT ![s] =
               [family |-> f, presented |-> d, successor |-> n, at |-> now,
                expires_at |-> TokenExpiry(now, family[f].expires_at), swept |-> {}]]
    /\ Goto(s, "family")
    /\ UNCHANGED <<tables, handed, now, locks>>

FamilyOver(f, at) == family[f].revoked_at # Never \/ family[f].expires_at <= at

(* FamilyRevoked, or Unusable. *)
FamilyRefuses(s) ==
    /\ pc[s] = "family"
    /\ Free(familyLock[call[s].family], s)
    /\ FamilyOver(call[s].family, call[s].at)
    /\ Returns(s)
    /\ UNCHANGED <<tables, handed, now, locks>>

(* Mutant: the family is read and not locked. *)
ReadsFamily(s) ==
    /\ pc[s] = "family"
    /\ ~FamilyOver(call[s].family, call[s].at)
    /\ Goto(s, "token")
    /\ UNCHANGED <<tables, handed, now, call, locks>>

(* SELECT expires_at, revoked_at ... FOR UPDATE *)
LocksFamily(s) ==
    /\ pc[s] = "family"
    /\ Free(familyLock[call[s].family], s)
    /\ ~FamilyOver(call[s].family, call[s].at)
    /\ familyLock' = [familyLock EXCEPT ![call[s].family] = s]
    /\ Goto(s, "token")
    /\ UNCHANGED <<tables, handed, now, call, tokenLock>>

Used(d) == token[d].consumed \/ token[d].revoked

(* An expired token is no replay: Unusable. *)
TokenRefuses(s) ==
    /\ pc[s] = "token"
    /\ Free(tokenLock[call[s].presented], s)
    /\ ~Used(call[s].presented)
    /\ token[call[s].presented].expires_at <= call[s].at
    /\ Unlocks(s)
    /\ Returns(s)
    /\ UNCHANGED <<tables, handed, now>>

(* A used token is a replay, answered in this transaction; an unused one is*)
(* consumed in it.                                                         *)
LocksToken(s) ==
    /\ pc[s] = "token"
    /\ LET d == call[s].presented
       IN  /\ Free(tokenLock[d], s)
           /\ tokenLock' = [tokenLock EXCEPT ![d] = s]
           /\ \/ Used(d) /\ Goto(s, "tombstone")
              \/ ~Used(d) /\ token[d].expires_at > call[s].at /\ Goto(s, "consume")
    /\ UNCHANGED <<tables, handed, now, call, familyLock>>

------------------------------------------------------------------------------
(* rotate: the successor *)

Consumed(row, successor) == [row EXCEPT !.consumed = TRUE, !.replaced_by = successor]

(* Mutant: whether another call has consumed the token is not asked again, *)
(* and the write is visible at once.                                       *)
ConsumesAlone(s) ==
    /\ pc[s] = "consume"
    /\ token' = [token EXCEPT ![call[s].presented] = Consumed(@, call[s].successor)]
    /\ Goto(s, "insert")
    /\ UNCHANGED <<family, handed, now, call, locks>>

(* UPDATE ... WHERE id = ? AND consumed_at IS NULL; no row is an error. *)
Consumes(s) ==
    /\ pc[s] = "consume"
    /\ Free(tokenLock[call[s].presented], s)
    /\ IF token[call[s].presented].consumed
       THEN Unlocks(s) /\ Returns(s)
       ELSE Goto(s, "insert") /\ UNCHANGED <<call, locks>>
    /\ UNCHANGED <<tables, handed, now>>

Inserts(s) ==
    /\ pc[s] = "insert"
    /\ Goto(s, "commit_rotation")
    /\ UNCHANGED <<tables, handed, now, call, locks>>

(* Mutant: the predecessor goes on working. *)
CommitsSuccessor(s) ==
    LET c == call[s]
    IN  /\ pc[s] = "commit_rotation"
        /\ token' = [token EXCEPT ![c.successor] = Stored(c.family, c.expires_at)]
        /\ Unlocks(s)
        /\ Goto(s, "answer")
        /\ UNCHANGED <<family, handed, now, call>>

CommitsRotation(s) ==
    LET c == call[s]
    IN  /\ pc[s] = "commit_rotation"
        /\ token' = [token EXCEPT ![c.presented] = Consumed(@, c.successor),
                                  ![c.successor] = Stored(c.family, c.expires_at)]
        /\ Unlocks(s)
        /\ Goto(s, "answer")
        /\ UNCHANGED <<family, handed, now, call>>

(* The prepared pair is handed over. *)
Answers(s) ==
    /\ pc[s] = "answer"
    /\ handed' = handed \cup {call[s].successor}
    /\ Returns(s)
    /\ UNCHANGED <<tables, now, locks>>

------------------------------------------------------------------------------
(* The end of a family: a replay's answer, or revoke *)

Revokes(s, f) ==
    /\ pc[s] = "idle"
    /\ family[f].begun
    /\ call' = [call EXCEPT ![s] = [NoCall EXCEPT !.family = f, !.at = now]]
    /\ Goto(s, "tombstone")
    /\ UNCHANGED <<tables, handed, now, locks>>

(* UPDATE ... WHERE id = ? AND revoked_at IS NULL: a revoked family's row  *)
(* is not matched, and not locked.                                         *)
Tombstones(s) ==
    /\ pc[s] = "tombstone"
    /\ LET f == call[s].family
       IN  /\ Free(familyLock[f], s)
           /\ familyLock' = [familyLock EXCEPT ![f] = IF family[f].revoked_at = Never THEN s ELSE @]
    /\ Goto(s, "sweep")
    /\ UNCHANGED <<tables, handed, now, call, tokenLock>>

(* UPDATE ... WHERE family_id = ? AND revoked_at IS NULL finds its rows ... *)
Sweeps(s) ==
    /\ pc[s] = "sweep"
    /\ call' = [call EXCEPT ![s].swept =
                   {d \in Digests : token[d].family = call[s].family /\ ~token[d].revoked}]
    /\ Goto(s, "write")
    /\ UNCHANGED <<tables, handed, now, locks>>

(* ... and writes them, one after the other, as they come free.            *)
Writes(s) ==
    /\ pc[s] = "write"
    /\ \A d \in call[s].swept : Free(tokenLock[d], s)
    /\ tokenLock' = [d \in Digests |-> IF d \in call[s].swept THEN s ELSE tokenLock[d]]
    /\ Goto(s, "commit_end")
    /\ UNCHANGED <<tables, handed, now, call, familyLock>>

(* Mutant: a later revocation moves the tombstone. *)
TombstonedAgain(row, at) == [row EXCEPT !.revoked_at = at]

Tombstoned(row, at) == IF row.revoked_at = Never THEN [row EXCEPT !.revoked_at = at] ELSE row

Revoked(row) == [row EXCEPT !.revoked = TRUE]

CommitsEnd(s) ==
    LET c == call[s]
    IN  /\ pc[s] = "commit_end"
        /\ family' = [family EXCEPT ![c.family] = Tombstoned(@, c.at)]
        /\ token' = [d \in Digests |->
                        IF d \in c.swept THEN Revoked(token[d]) ELSE token[d]]
        /\ Unlocks(s)
        /\ Returns(s)
        /\ UNCHANGED <<handed, now>>

------------------------------------------------------------------------------

(* The call fails, its process dies or its answer is lost: before the      *)
(* commit everything rolls back, after it the pair reaches nobody.         *)
Abandons(s) ==
    /\ pc[s] # "idle"
    /\ Unlocks(s)
    /\ Returns(s)
    /\ UNCHANGED <<tables, handed, now>>

Tick ==
    /\ now < MaxTime
    /\ now' = now + 1
    /\ UNCHANGED <<tables, handed, pc, call, locks>>

Next ==
    \/ \E s \in Sessions :
          \/ \E f \in Families, d \in Digests : Begins(s, f, d)
          \/ \E d, n \in Digests : Presents(s, d, n)
          \/ \E f \in Families : Revokes(s, f)
          \/ FamilyRefuses(s) \/ LocksFamily(s) \/ TokenRefuses(s) \/ LocksToken(s)
          \/ Consumes(s) \/ Inserts(s) \/ CommitsRotation(s) \/ Answers(s)
          \/ Tombstones(s) \/ Sweeps(s) \/ Writes(s) \/ CommitsEnd(s)
          \/ Abandons(s)
    \/ Tick

Spec == Init /\ [][Next]_vars

------------------------------------------------------------------------------
(* Properties *)

Family == [begun : BOOLEAN, expires_at : Nat, revoked_at : Instants \cup {Never}]

Token ==
    [family : Families \cup {NoFamily}, expires_at : Nat, consumed : BOOLEAN,
     replaced_by : Digests \cup {NoDigest}, revoked : BOOLEAN]

Call ==
    [family : Families \cup {NoFamily}, presented : Digests \cup {NoDigest},
     successor : Digests \cup {NoDigest}, at : Instants, expires_at : Nat,
     swept : SUBSET Digests]

(* Tables, calls and locks of the right shape, and no token that outlives  *)
(* its family (refresh.rs, token_expiry).                                  *)
TypeOK ==
    /\ family \in [Families -> Family]
    /\ token \in [Digests -> Token]
    /\ handed \subseteq Digests
    /\ now \in Instants
    /\ pc \in [Sessions -> {"idle", "family", "token", "consume", "insert", "commit_rotation",
                            "answer", "tombstone", "sweep", "write", "commit_end"}]
    /\ call \in [Sessions -> Call]
    /\ familyLock \in [Families -> Sessions \cup {NoSession}]
    /\ tokenLock \in [Digests -> Sessions \cup {NoSession}]
    /\ \A d \in Digests : token[d].family \in Families =>
          token[d].expires_at <= family[token[d].family].expires_at

Live(f) == {d \in Digests : token[d].family = f /\ ~Used(d)}

(* A family has one token that works, however many calls present its       *)
(* predecessor at once (repository.rs:357).                                *)
OneLiveToken == \A f \in Families : \A d, e \in Live(f) : d = e

(* No token of a revoked family works or ever will: a rotation in progress *)
(* cannot slip a successor past the sweep (refresh.rs:35).                 *)
TombstoneIsComplete ==
    \A d \in Digests :
        token[d].family # NoFamily /\ family[token[d].family].revoked_at # Never
        => token[d].revoked

(* A token is consumed together with the arrival of its successor in its   *)
(* own family, and what a caller holds is stored: a rotation that failed   *)
(* has neither spent the client's token nor handed out its successor.      *)
BothOrNeither ==
    /\ \A d \in Digests : token[d].consumed =>
          LET n == token[d].replaced_by
          IN  n # NoDigest /\ token[n].family = token[d].family
    /\ \A d \in handed : token[d].family # NoFamily

Current(f) == IF Live(f) = {} THEN NoDigest ELSE CHOOSE d \in Live(f) : TRUE

Chain == INSTANCE RefreshChain WITH
    current <- [f \in Families |-> Current(f)],
    spent <- {d \in Digests : Used(d)},
    ended <- [f \in Families |-> family[f].revoked_at]

(* Together the calls are a chain per family: one current token, spent     *)
(* once, and an end that is final and keeps its instant.                   *)
IsAChain == Chain!ChainSpec
==============================================================================

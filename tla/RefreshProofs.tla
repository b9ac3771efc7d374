---------------------------- MODULE RefreshProofs ----------------------------
(***************************************************************************)
(* Proofs about refresh families, for any number of families, tokens and   *)
(* calls in progress and any lifetimes.  What makes them go through is what*)
(* the family lock is for: a call that has passed the tombstone check holds*)
(* it and its family is not revoked (UnderLock), so that between the check *)
(* and the commit nobody else adds, spends or revokes a token of it.       *)
(***************************************************************************)
EXTENDS RefreshFamily, TLAPS

USE RefreshAssumption

Rotation == {"family", "token", "consume", "insert", "commit_rotation"}

(* A call that has begun names a family that has. *)
Named ==
    \A s \in Sessions :
        pc[s] # "idle" => call[s].family \in Families /\ family[call[s].family].begun

(* A rotation presents a stored token of its family, and its successor is  *)
(* not stored.                                                             *)
Prepared ==
    \A s \in Sessions : pc[s] \in Rotation =>
        /\ call[s].presented \in Digests
        /\ token[call[s].presented].family = call[s].family
        /\ call[s].successor \in Digests
        /\ token[call[s].successor].family = NoFamily
        /\ call[s].expires_at <= family[call[s].family].expires_at

(* No two calls prepare the same successor. *)
Distinct ==
    \A s, r \in Sessions :
        s # r /\ call[s].successor = call[r].successor => call[s].successor = NoDigest

(* Past the tombstone check a rotation holds the family, which is not      *)
(* revoked; past the token's it is the one that consumes it.               *)
UnderLock ==
    \A s \in Sessions :
        /\ pc[s] \in Rotation \ {"family"} =>
              /\ familyLock[call[s].family] = s
              /\ family[call[s].family].revoked_at = Never
        /\ pc[s] \in {"consume", "insert", "commit_rotation"} => ~Used(call[s].presented)

(* A call that ends a family holds it, or finds it revoked; what it sweeps *)
(* is all that was left.                                                   *)
Ending ==
    \A s \in Sessions :
        /\ pc[s] \in {"sweep", "write", "commit_end"} =>
              \/ familyLock[call[s].family] = s
              \/ family[call[s].family].revoked_at # Never
        /\ pc[s] \in {"write", "commit_end"} =>
              \A d \in Digests :
                  /\ d \in call[s].swept => token[d].family = call[s].family
                  /\ token[d].family = call[s].family => token[d].revoked \/ d \in call[s].swept

Answering ==
    \A s \in Sessions :
        pc[s] = "answer" =>
            call[s].successor \in Digests /\ token[call[s].successor].family # NoFamily

(* Tokens belong to families that have begun, and only stored ones are     *)
(* consumed.                                                               *)
Belongs ==
    \A d \in Digests :
        /\ token[d].family # NoFamily => family[token[d].family].begun
        /\ token[d].consumed => token[d].family # NoFamily

Core ==
    /\ Named
    /\ Prepared
    /\ Distinct
    /\ UnderLock
    /\ Ending
    /\ Answering
    /\ Belongs
    /\ OneLiveToken
    /\ TombstoneIsComplete
    /\ BothOrNeither

Inv == TypeOK /\ Core

(* No family has begun and no call is in progress. *)
LEMMA InvInit == Init => Inv
BY DEF Init, Inv, Core, TypeOK, Named, Prepared, Distinct, UnderLock, Ending, Answering, Belongs,
       OneLiveToken, TombstoneIsComplete, BothOrNeither, Live, Used, NotBegun, NotStored, NoCall,
       Rotation, Family, Token, Call, Instants

(* The writes keep a row a row, and touch nothing but what they are for. *)
LEMMA RowTypes ==
    /\ \A f \in Families \cup {NoFamily}, e \in Nat : Stored(f, e) \in Token
    /\ \A row \in Token, n \in Digests : Consumed(row, n) \in Token
    /\ \A row \in Token : \A n : /\ Consumed(row, n).family = row.family
                                 /\ Consumed(row, n).expires_at = row.expires_at
    /\ \A row \in Token : Revoked(row) \in Token
    /\ \A row \in Family, at \in Instants : Tombstoned(row, at) \in Family
    /\ \A row \in Family, at \in Instants : Tombstoned(row, at).expires_at = row.expires_at
BY DEF Stored, Consumed, Revoked, Tombstoned, Token, Family, Instants

(* Every step leaves tables, calls and locks of the right shape, and no    *)
(* token with a longer life than its family.                               *)
LEMMA TypeStep == Inv /\ [Next]_vars => TypeOK'
<1> SUFFICES ASSUME Inv, [Next]_vars PROVE TypeOK'
  OBVIOUS
<1> USE DEF Inv, TypeOK, Instants, Goto, Free, Unlocks, Returns, NoCall, tables, locks
<1>1. ASSUME NEW s \in Sessions, NEW f \in Families, NEW d \in Digests, Begins(s, f, d)
      PROVE  TypeOK'
  <2>1. now + FamilyLife \in Nat /\ TokenExpiry(now, now + FamilyLife) \in Nat
        /\ TokenExpiry(now, now + FamilyLife) <= now + FamilyLife
    BY DEF TokenExpiry
  <2>2. [begun |-> TRUE, expires_at |-> now + FamilyLife, revoked_at |-> Never] \in Family
    BY <2>1 DEF Family
  <2>3. Stored(f, TokenExpiry(now, now + FamilyLife)) \in Token
    BY <2>1, RowTypes
  <2>4. [NoCall EXCEPT !.family = f, !.successor = d, !.at = now] \in Call
    BY DEF Call
  <2>5. family' \in [Families -> Family] /\ token' \in [Digests -> Token]
        /\ call' \in [Sessions -> Call]
    BY <2>2, <2>3, <2>4, <1>1 DEF Begins
  <2>6. ASSUME NEW e \in Digests, token'[e].family \in Families
        PROVE  token'[e].expires_at <= family'[token'[e].family].expires_at
    <3>1. CASE e = d
      BY <3>1, <2>1, <1>1 DEF Begins, Stored
    <3>2. CASE e # d
      <4>1. token'[e] = token[e] /\ family[token[e].family].begun
        BY <3>2, <2>6, <1>1 DEF Begins, Core, Belongs
      <4>2. token[e].family # f
        BY <4>1, <1>1 DEF Begins
      <4>3. QED
        BY <4>1, <4>2, <2>6, <1>1 DEF Begins
    <3>3. QED
      BY <3>1, <3>2
  <2>7. QED
    BY <2>5, <2>6, <1>1 DEF Begins
<1>2. ASSUME NEW s \in Sessions, NEW d \in Digests, NEW n \in Digests, Presents(s, d, n)
      PROVE  TypeOK'
  BY <1>2 DEF Presents, TokenExpiry, Call, Family, Token, Core, BothOrNeither
<1>3. ASSUME NEW s \in Sessions, NEW f \in Families, Revokes(s, f) PROVE TypeOK'
  <2>1. call' \in [Sessions -> Call]
    BY <1>3 DEF Revokes, Call
  <2>2. QED
    BY <2>1, <1>3 DEF Revokes
<1>4. ASSUME NEW s \in Sessions, FamilyRefuses(s) PROVE TypeOK'
  BY <1>4 DEF FamilyRefuses, Call
<1>5. ASSUME NEW s \in Sessions, LocksFamily(s) PROVE TypeOK'
  BY <1>5 DEF LocksFamily, Call
<1>6. ASSUME NEW s \in Sessions, TokenRefuses(s) PROVE TypeOK'
  BY <1>6 DEF TokenRefuses, Call
<1>7. ASSUME NEW s \in Sessions, LocksToken(s) PROVE TypeOK'
  BY <1>7 DEF LocksToken, Call
<1>8. ASSUME NEW s \in Sessions, Consumes(s) PROVE TypeOK'
  BY <1>8 DEF Consumes, Call
<1>9. ASSUME NEW s \in Sessions, Inserts(s) PROVE TypeOK'
  BY <1>9 DEF Inserts, Call
<1>10. ASSUME NEW s \in Sessions, CommitsRotation(s) PROVE TypeOK'
  <2>1. /\ call[s] \in Call
        /\ call[s].family \in Families
        /\ call[s].presented \in Digests /\ call[s].successor \in Digests
        /\ call[s].expires_at <= family[call[s].family].expires_at
    BY <1>10 DEF CommitsRotation, Core, Prepared, Rotation, Named
  <2>2. Stored(call[s].family, call[s].expires_at) \in Token
    BY <2>1, RowTypes DEF Call
  <2>3. token' \in [Digests -> Token]
    BY <2>1, <2>2, <1>10, RowTypes DEF CommitsRotation
  <2>4. ASSUME NEW d \in Digests, token'[d].family \in Families
        PROVE  token'[d].expires_at <= family'[token'[d].family].expires_at
    <3>1. CASE d = call[s].successor
      BY <3>1, <2>1, <1>10 DEF CommitsRotation, Stored
    <3>2. CASE d # call[s].successor
      <4>1. token'[d].family = token[d].family /\ token'[d].expires_at = token[d].expires_at
        <5>1. token'[d] = token[d] \/ token'[d] = Consumed(token[d], call[s].successor)
          BY <3>2, <2>1, <1>10 DEF CommitsRotation
        <5>2. QED
          BY <5>1, RowTypes
      <4>2. QED
        BY <4>1, <2>4, <1>10 DEF CommitsRotation
    <3>3. QED
      BY <3>1, <3>2
  <2>5. QED
    BY <2>3, <2>4, <1>10 DEF CommitsRotation
<1>11. ASSUME NEW s \in Sessions, Answers(s) PROVE TypeOK'
  BY <1>11 DEF Answers, Call, Core, Answering
<1>12. ASSUME NEW s \in Sessions, Tombstones(s) PROVE TypeOK'
  BY <1>12 DEF Tombstones, Call
<1>13. ASSUME NEW s \in Sessions, Sweeps(s) PROVE TypeOK'
  <2>1. call' \in [Sessions -> Call]
    <3>1. PICK S \in SUBSET Digests : call' = [call EXCEPT ![s].swept = S]
      BY <1>13 DEF Sweeps
    <3>2. [call[s] EXCEPT !.swept = S] \in Call
      BY DEF Call
    <3>3. QED
      BY <3>1, <3>2
  <2>2. QED
    BY <1>13, <2>1 DEF Sweeps
<1>14. ASSUME NEW s \in Sessions, Writes(s) PROVE TypeOK'
  BY <1>14 DEF Writes, Call
<1>15. ASSUME NEW s \in Sessions, CommitsEnd(s) PROVE TypeOK'
  <2>1. /\ family' \in [Families -> Family]
        /\ \A f \in Families : family'[f].expires_at = family[f].expires_at
    <3>1. call[s].family \in Families /\ call[s].at \in Instants
      BY <1>15 DEF CommitsEnd, Core, Named, Call
    <3>2. family' = [family EXCEPT ![call[s].family] =
                        Tombstoned(family[call[s].family], call[s].at)]
      BY <1>15 DEF CommitsEnd
    <3>3. QED
      BY <3>1, <3>2, RowTypes
  <2>2. token' \in [Digests -> Token]
    BY <1>15, RowTypes DEF CommitsEnd
  <2>3. \A d \in Digests : /\ token'[d].family = token[d].family
                           /\ token'[d].expires_at = token[d].expires_at
    BY <1>15 DEF CommitsEnd, Revoked, Token
  <2>4. call' \in [Sessions -> Call] /\ pc' \in [Sessions -> {"idle", "family", "token", "consume",
           "insert", "commit_rotation", "answer", "tombstone", "sweep", "write", "commit_end"}]
    BY <1>15 DEF CommitsEnd, Call
  <2>5. QED
    BY <2>1, <2>2, <2>3, <2>4, <1>15 DEF CommitsEnd
<1>16. ASSUME NEW s \in Sessions, Abandons(s) PROVE TypeOK'
  BY <1>16 DEF Abandons, Call
<1>17. CASE Tick
  BY <1>17 DEF Tick
<1>18. CASE UNCHANGED vars
  BY <1>18 DEF vars
<1>19. QED
  BY <1>1, <1>2, <1>3, <1>4, <1>5, <1>6, <1>7, <1>8, <1>9, <1>10, <1>11, <1>12, <1>13, <1>14,
     <1>15, <1>16, <1>17, <1>18 DEF Next

(* Every step keeps the invariant.  The two commits are where it is earned:*)
(* by UnderLock no other call of the family is past its tombstone check.   *)
LEMMA CoreStep == Inv /\ [Next]_vars /\ TypeOK' => Core'
<1> SUFFICES ASSUME Inv, [Next]_vars, TypeOK' PROVE Core'
  OBVIOUS
<1> USE DEF Inv, Core, Named, Prepared, Distinct, UnderLock, Ending, Answering, Belongs,
            OneLiveToken, TombstoneIsComplete, BothOrNeither, Live, Used, Rotation, Goto, Free,
            Unlocks, Returns, NoCall, tables, locks
<1>1. ASSUME NEW s \in Sessions, NEW f \in Families, NEW d \in Digests, Begins(s, f, d) PROVE Core'
  <2>1. Named'
    BY <1>1 DEF Begins, TypeOK, Call, Family, Token, Stored, Fresh, Consumed, Revoked, Tombstoned
  <2>2. Prepared'
    BY <1>1 DEF Begins, TypeOK, Call, Family, Token, Stored, Fresh, Consumed, Revoked, Tombstoned
  <2>3. Distinct'
    BY <1>1 DEF Begins, TypeOK, Call, Family, Token, Stored, Fresh, Consumed, Revoked, Tombstoned
  <2>4. UnderLock'
    BY <1>1 DEF Begins, TypeOK, Call, Family, Token, Stored, Fresh, Consumed, Revoked, Tombstoned
  <2>5. Ending'
    BY <1>1 DEF Begins, TypeOK, Call, Family, Token, Stored, Fresh, Consumed, Revoked, Tombstoned
  <2>6. Answering'
    BY <1>1 DEF Begins, TypeOK, Call, Family, Token, Stored, Fresh, Consumed, Revoked, Tombstoned
  <2>7. Belongs'
    BY <1>1 DEF Begins, TypeOK, Call, Family, Token, Stored, Fresh, Consumed, Revoked, Tombstoned
  <2>8. OneLiveToken'
    BY <1>1 DEF Begins, TypeOK, Call, Family, Token, Stored, Fresh, Consumed, Revoked, Tombstoned
  <2>9. TombstoneIsComplete'
    BY <1>1 DEF Begins, TypeOK, Call, Family, Token, Stored, Fresh, Consumed, Revoked, Tombstoned
  <2>10. BothOrNeither'
    BY <1>1 DEF Begins, TypeOK, Call, Family, Token, Stored, Fresh, Consumed, Revoked, Tombstoned
  <2>11. QED
    BY <2>1, <2>2, <2>3, <2>4, <2>5, <2>6, <2>7, <2>8, <2>9, <2>10
<1>2. ASSUME NEW s \in Sessions, NEW d \in Digests, NEW n \in Digests, Presents(s, d, n) PROVE Core'
  <2>1. /\ token[d].family \in Families /\ family[token[d].family].begun
        /\ d # n /\ n \in Digests
    BY <1>2 DEF Presents, Fresh, TypeOK, Token
  <2>2. TokenExpiry(now, family[token[d].family].expires_at) <= family[token[d].family].expires_at
    BY <2>1 DEF TokenExpiry, TypeOK, Family, Instants
  <2>3. Prepared'
    BY <1>2, <2>1, <2>2 DEF Presents, Fresh, TypeOK
  <2>4. Named' /\ Distinct' /\ Answering'
    BY <1>2, <2>1 DEF Presents, Fresh, TypeOK
  <2>5. UnderLock' /\ Ending'
    BY <1>2 DEF Presents, TypeOK
  <2>6. Belongs' /\ OneLiveToken' /\ TombstoneIsComplete' /\ BothOrNeither'
    BY <1>2 DEF Presents
  <2>7. QED
    BY <2>3, <2>4, <2>5, <2>6
<1>3. ASSUME NEW s \in Sessions, NEW f \in Families, Revokes(s, f) PROVE Core'
  BY <1>3 DEF Revokes, TypeOK, Call
<1>4. ASSUME NEW s \in Sessions, FamilyRefuses(s) PROVE Core'
  BY <1>4 DEF FamilyRefuses, TypeOK, Call
<1>5. ASSUME NEW s \in Sessions, LocksFamily(s) PROVE Core'
  <2>1. /\ call[s].family \in Families
        /\ familyLock'[call[s].family] = s
        /\ family[call[s].family].revoked_at = Never
        /\ \A g \in Families \ {call[s].family} : familyLock'[g] = familyLock[g]
    BY <1>5 DEF LocksFamily, FamilyOver, TypeOK
  <2>2. \A r \in Sessions \ {s} : call[r].family = call[s].family => familyLock[call[r].family] # r
    BY <1>5 DEF LocksFamily
  <2>3. UnderLock'
    BY <1>5, <2>1, <2>2 DEF LocksFamily, TypeOK
  <2>4. Ending'
    BY <1>5, <2>1, <2>2 DEF LocksFamily, TypeOK
  <2>5. QED
    BY <1>5, <2>3, <2>4 DEF LocksFamily, TypeOK
<1>6. ASSUME NEW s \in Sessions, TokenRefuses(s) PROVE Core'
  BY <1>6 DEF TokenRefuses, TypeOK, Call
<1>7. ASSUME NEW s \in Sessions, LocksToken(s) PROVE Core'
  BY <1>7 DEF LocksToken, TypeOK, Call
<1>8. ASSUME NEW s \in Sessions, Consumes(s) PROVE Core'
  BY <1>8 DEF Consumes, TypeOK, Call
<1>9. ASSUME NEW s \in Sessions, Inserts(s) PROVE Core'
  BY <1>9 DEF Inserts, TypeOK, Call
<1>10. ASSUME NEW s \in Sessions, CommitsRotation(s) PROVE Core'
  <2> DEFINE c == call[s]
  <2>1. /\ c.family \in Families /\ family[c.family].begun
        /\ c.presented \in Digests /\ token[c.presented].family = c.family
        /\ c.successor \in Digests /\ token[c.successor].family = NoFamily
        /\ c.presented # c.successor
        /\ familyLock[c.family] = s /\ family[c.family].revoked_at = Never
        /\ ~Used(c.presented)
    BY <1>10 DEF CommitsRotation
  <2>2. /\ token'[c.successor].family = c.family
        /\ ~token'[c.successor].consumed /\ ~token'[c.successor].revoked
    BY <2>1, <1>10 DEF CommitsRotation, Stored, TypeOK
  <2>3. /\ token'[c.presented].family = c.family
        /\ token'[c.presented].consumed
        /\ token'[c.presented].replaced_by = c.successor
    <3>1. token'[c.presented] = Consumed(token[c.presented], c.successor)
      BY <2>1, <1>10 DEF CommitsRotation, TypeOK
    <3>2. token[c.presented] \in Token
      BY <2>1 DEF TypeOK
    <3>3. QED
      BY <2>1, <3>1, <3>2 DEF Consumed, Token
  <2>4. \A d \in Digests \ {c.presented, c.successor} : token'[d] = token[d]
    BY <1>10 DEF CommitsRotation, TypeOK
  <2>5. /\ UNCHANGED <<family, call, handed>>
        /\ pc'[s] = "answer" /\ \A r \in Sessions \ {s} : pc'[r] = pc[r]
        /\ \A g \in Families : familyLock[g] # s => familyLock'[g] = familyLock[g]
    BY <1>10 DEF CommitsRotation, TypeOK
  <2>6. \A r \in Sessions \ {s} : call[r].family = c.family =>
            pc[r] \notin (Rotation \ {"family"}) \cup {"sweep", "write", "commit_end"}
    BY <2>1
  <2>7. \A d \in Digests : token[d].family # NoFamily => token'[d].family = token[d].family
    BY <2>1, <2>3, <2>4
  <2>8. Named' /\ Distinct'
    BY <2>5, <1>10 DEF CommitsRotation
  <2>9. Prepared'
    <3> SUFFICES ASSUME NEW r \in Sessions, pc'[r] \in Rotation
                 PROVE  /\ token'[call[r].presented].family = call[r].family
                        /\ token'[call[r].successor].family = NoFamily
      BY <2>5
    <3>1. r # s /\ pc[r] \in Rotation /\ call[r].successor # c.successor
      BY <2>1, <2>5
    <3>2. call[r].successor # c.presented
      BY <3>1, <2>1
    <3>3. QED
      BY <3>1, <3>2, <2>4, <2>7
  <2>10. UnderLock'
    <3> SUFFICES ASSUME NEW r \in Sessions, pc'[r] \in Rotation \ {"family"}
                 PROVE  /\ familyLock'[call[r].family] = r
                        /\ family[call[r].family].revoked_at = Never
                        /\ pc'[r] \in {"consume", "insert", "commit_rotation"}
                           => ~Used(call[r].presented)'
      BY <2>5
    <3>1. r # s /\ pc[r] = pc'[r] /\ call[r].family # c.family /\ call[r].family \in Families
      BY <2>5, <2>6
    <3>2. call[r].presented \in Digests \ {c.presented, c.successor}
      BY <3>1, <2>1
    <3>3. QED
      BY <3>1, <3>2, <2>4, <2>5
  <2>11. Ending'
    <3> SUFFICES ASSUME NEW r \in Sessions, pc'[r] \in {"sweep", "write", "commit_end"}
                 PROVE  /\ \/ familyLock'[call[r].family] = r
                           \/ family[call[r].family].revoked_at # Never
                        /\ pc'[r] \in {"write", "commit_end"} =>
                              \A d \in Digests :
                                  /\ d \in call[r].swept => token'[d].family = call[r].family
                                  /\ token'[d].family = call[r].family
                                     => token'[d].revoked \/ d \in call[r].swept
      BY <2>5
    <3>1. r # s /\ pc[r] = pc'[r] /\ call[r].family # c.family /\ call[r].family \in Families
      BY <2>5, <2>6
    <3>2. familyLock'[call[r].family] = r \/ family[call[r].family].revoked_at # Never
      BY <3>1, <2>5
    <3>3. ASSUME pc'[r] \in {"write", "commit_end"}, NEW d \in Digests
          PROVE  /\ d \in call[r].swept => token'[d].family = call[r].family
                 /\ token'[d].family = call[r].family => token'[d].revoked \/ d \in call[r].swept
      <4>1. CASE d \in {c.presented, c.successor}
        BY <4>1, <3>1, <3>3, <2>1, <2>2, <2>3
      <4>2. CASE d \notin {c.presented, c.successor}
        BY <4>2, <3>1, <3>3, <2>4
      <4>3. QED
        BY <4>1, <4>2
    <3>4. QED
      BY <3>2, <3>3
  <2>12. Answering'
    BY <2>1, <2>2, <2>5, <2>7
  <2>13. Belongs'
    <3>1. ASSUME NEW d \in Digests
          PROVE  /\ token'[d].family # NoFamily => family[token'[d].family].begun
                 /\ token'[d].consumed => token'[d].family # NoFamily
      BY <2>1, <2>2, <2>3, <2>4
    <3>2. QED
      BY <3>1, <2>5
  <2>14. OneLiveToken'
    <3> SUFFICES ASSUME NEW f \in Families, NEW d \in Digests, NEW e \in Digests,
                        token'[d].family = f, token'[e].family = f, ~Used(d)', ~Used(e)'
                 PROVE  d = e
      OBVIOUS
    <3>1. d # c.presented /\ e # c.presented
      BY <2>3
    <3>2. CASE f = c.family
      BY <3>1, <3>2, <2>1, <2>2, <2>4
    <3>3. CASE f # c.family
      BY <3>1, <3>3, <2>2, <2>4
    <3>4. QED
      BY <3>2, <3>3
  <2>15. TombstoneIsComplete'
    <3> SUFFICES ASSUME NEW d \in Digests, token'[d].family # NoFamily,
                        family[token'[d].family].revoked_at # Never
                 PROVE  token'[d].revoked
      BY <2>5
    <3>1. QED
      BY <2>1, <2>2, <2>3, <2>4
  <2>16. BothOrNeither'
    <3>1. ASSUME NEW d \in Digests, token'[d].consumed
          PROVE  /\ token'[d].replaced_by # NoDigest
                 /\ token'[token'[d].replaced_by].family = token'[d].family
      <4>1. CASE d = c.presented
        BY <4>1, <2>1, <2>2, <2>3
      <4>2. CASE d # c.presented
        <5>1. d # c.successor /\ token'[d] = token[d] /\ token[d].replaced_by \in Digests
          BY <4>2, <3>1, <2>2, <2>4 DEF TypeOK, Token
        <5>2. QED
          BY <5>1, <3>1, <2>7
      <4>3. QED
        BY <4>1, <4>2
    <3>2. \A d \in handed' : token'[d].family # NoFamily
      BY <2>5, <2>7 DEF TypeOK
    <3>3. QED
      BY <3>1, <3>2
  <2>17. QED
    BY <2>8, <2>9, <2>10, <2>11, <2>12, <2>13, <2>14, <2>15, <2>16
<1>11. ASSUME NEW s \in Sessions, Answers(s) PROVE Core'
  BY <1>11 DEF Answers, TypeOK, Call
<1>12. ASSUME NEW s \in Sessions, Tombstones(s) PROVE Core'
  BY <1>12 DEF Tombstones, TypeOK, Call
<1>13. ASSUME NEW s \in Sessions, Sweeps(s) PROVE Core'
  BY <1>13 DEF Sweeps, TypeOK, Call
<1>14. ASSUME NEW s \in Sessions, Writes(s) PROVE Core'
  BY <1>14 DEF Writes, TypeOK, Call
<1>15. ASSUME NEW s \in Sessions, CommitsEnd(s) PROVE Core'
  <2> DEFINE c == call[s]
  <2>1. /\ c.family \in Families /\ family[c.family].begun /\ c.at \in Instants
        /\ familyLock[c.family] = s \/ family[c.family].revoked_at # Never
        /\ \A d \in Digests :
              /\ d \in c.swept => token[d].family = c.family
              /\ token[d].family = c.family => token[d].revoked \/ d \in c.swept
    BY <1>15 DEF CommitsEnd, TypeOK, Call
  <2>2. \A d \in Digests : token'[d] = IF d \in c.swept THEN Revoked(token[d]) ELSE token[d]
    BY <1>15 DEF CommitsEnd
  <2>3. \A d \in Digests :
           /\ token'[d].family = token[d].family
           /\ token'[d].consumed <=> token[d].consumed
           /\ token'[d].replaced_by = token[d].replaced_by
           /\ token[d].revoked => token'[d].revoked
           /\ d \in c.swept => token'[d].revoked
           /\ d \notin c.swept => token'[d] = token[d]
    <3> SUFFICES ASSUME NEW d \in Digests
                 PROVE  /\ token'[d].family = token[d].family
                        /\ token'[d].consumed <=> token[d].consumed
                        /\ token'[d].replaced_by = token[d].replaced_by
                        /\ token[d].revoked => token'[d].revoked
                        /\ d \in c.swept => token'[d].revoked
                        /\ d \notin c.swept => token'[d] = token[d]
      OBVIOUS
    <3>1. CASE d \in c.swept
      BY <3>1, <2>2 DEF Revoked, TypeOK, Token
    <3>2. CASE d \notin c.swept
      BY <3>2, <2>2
    <3>3. QED
      BY <3>1, <3>2
  <2>4. /\ family'[c.family] = Tombstoned(family[c.family], c.at)
        /\ \A g \in Families \ {c.family} : family'[g] = family[g]
    BY <2>1, <1>15 DEF CommitsEnd, TypeOK
  <2>5. /\ family'[c.family].revoked_at # Never
        /\ \A g \in Families : /\ family'[g].begun = family[g].begun
                               /\ family'[g].expires_at = family[g].expires_at
    <3>1. PICK r \in Family : r = family[c.family]
      BY <2>1 DEF TypeOK
    <3>2. /\ family'[c.family].revoked_at # Never /\ family'[c.family].begun = r.begun
          /\ family'[c.family].expires_at = r.expires_at
      BY <2>1, <2>4, <3>1 DEF Tombstoned, Family, Instants
    <3>3. QED
      BY <2>4, <3>1, <3>2
  <2>6. /\ pc'[s] = "idle" /\ call'[s] = NoCall /\ UNCHANGED handed
        /\ \A r \in Sessions \ {s} : pc'[r] = pc[r] /\ call'[r] = call[r]
        /\ \A g \in Families : familyLock[g] # s => familyLock'[g] = familyLock[g]
    BY <1>15 DEF CommitsEnd, TypeOK
  <2>7. \A r \in Sessions \ {s} : call[r].family = c.family => pc[r] \notin Rotation \ {"family"}
    BY <2>1
  <2>8. Named' /\ Distinct'
    BY <2>5, <2>6
  <2>9. Prepared'
    BY <2>3, <2>5, <2>6
  <2>10. UnderLock'
    <3> SUFFICES ASSUME NEW r \in Sessions, pc'[r] \in Rotation \ {"family"}
                 PROVE  /\ familyLock'[call[r].family] = r
                        /\ family'[call[r].family].revoked_at = Never
                        /\ pc'[r] \in {"consume", "insert", "commit_rotation"}
                           => ~Used(call[r].presented)'
      BY <2>6
    <3>1. r # s /\ pc[r] = pc'[r] /\ call[r].family # c.family /\ call[r].family \in Families
      BY <2>6, <2>7
    <3>2. /\ call[r].presented \in Digests
          /\ token[call[r].presented].family = call[r].family
      BY <3>1
    <3>3. QED
      BY <3>1, <3>2, <2>1, <2>3, <2>4, <2>6
  <2>11. Ending'
    <3> SUFFICES ASSUME NEW r \in Sessions, pc'[r] \in {"sweep", "write", "commit_end"}
                 PROVE  /\ \/ familyLock'[call[r].family] = r
                           \/ family'[call[r].family].revoked_at # Never
                        /\ pc'[r] \in {"write", "commit_end"} =>
                              \A d \in Digests :
                                  /\ d \in call[r].swept => token'[d].family = call[r].family
                                  /\ token'[d].family = call[r].family
                                     => token'[d].revoked \/ d \in call[r].swept
      BY <2>6
    <3>1. r # s /\ pc[r] = pc'[r] /\ call[r].family \in Families
      BY <2>6
    <3>2. familyLock'[call[r].family] = r \/ family'[call[r].family].revoked_at # Never
      BY <3>1, <2>4, <2>5, <2>6
    <3>3. QED
      BY <3>1, <3>2, <2>3
  <2>12. Answering' /\ Belongs'
    <3>1. Answering'
      BY <2>3, <2>6
    <3>2. ASSUME NEW d \in Digests
          PROVE  /\ token'[d].family # NoFamily => family'[token'[d].family].begun
                 /\ token'[d].consumed => token'[d].family # NoFamily
      <4>1. token[d].family # NoFamily => token[d].family \in Families
        BY DEF TypeOK, Token
      <4>2. QED
        BY <4>1, <2>3, <2>5
    <3>3. QED
      BY <3>1, <3>2
  <2>13. OneLiveToken'
    BY <2>3
  <2>14. TombstoneIsComplete'
    <3> SUFFICES ASSUME NEW d \in Digests, token'[d].family # NoFamily,
                        family'[token'[d].family].revoked_at # Never
                 PROVE  token'[d].revoked
      OBVIOUS
    <3>1. token[d].family \in Families /\ token[d].family = token'[d].family
      BY <2>3 DEF TypeOK, Token
    <3>2. CASE token[d].family = c.family
      BY <3>1, <3>2, <2>1, <2>3
    <3>3. CASE token[d].family # c.family
      BY <3>1, <3>3, <2>3, <2>4
    <3>4. QED
      BY <3>2, <3>3
  <2>15. BothOrNeither'
    <3>1. ASSUME NEW d \in Digests, token[d].consumed
          PROVE  token[d].replaced_by \in Digests
      BY <3>1 DEF TypeOK, Token
    <3>2. ASSUME NEW d \in Digests, token'[d].consumed
          PROVE  /\ token'[d].replaced_by # NoDigest
                 /\ token'[token'[d].replaced_by].family = token'[d].family
      BY <3>1, <3>2, <2>3
    <3>3. \A d \in handed' : token'[d].family # NoFamily
      BY <2>3, <2>6 DEF TypeOK
    <3>4. QED
      BY <3>2, <3>3
  <2>16. QED
    BY <2>8, <2>9, <2>10, <2>11, <2>12, <2>13, <2>14, <2>15
<1>16. ASSUME NEW s \in Sessions, Abandons(s) PROVE Core'
  BY <1>16 DEF Abandons, TypeOK, Call
<1>17. CASE Tick
  BY <1>17 DEF Tick
<1>18. CASE UNCHANGED vars
  BY <1>18 DEF vars
<1>19. QED
  BY <1>1, <1>2, <1>3, <1>4, <1>5, <1>6, <1>7, <1>8, <1>9, <1>10, <1>11, <1>12, <1>13, <1>14,
     <1>15, <1>16, <1>17, <1>18 DEF Next

------------------------------------------------------------------------------
(* Theorems *)

(* The inductive invariant holds of every reachable state. *)
LEMMA InvHolds == Spec => []Inv
<1>1. Inv /\ [Next]_vars => Inv'
  BY TypeStep, CoreStep DEF Inv
<1>2. QED
  BY <1>1, InvInit, PTL DEF Spec

(* Tables, calls and locks keep their shape, and no token outlives its     *)
(* family (refresh.rs, token_expiry).                                      *)
THEOREM RefreshTypeCorrect == Spec => []TypeOK
<1>1. Inv => TypeOK
  BY DEF Inv
<1>2. QED
  BY <1>1, InvHolds, PTL

(* However many calls rotate, replay and revoke at once, a family has one  *)
(* token that works (auth.rs, advance).                                    *)
THEOREM OneTokenWorks == Spec => []OneLiveToken
<1>1. Inv => OneLiveToken
  BY DEF Inv, Core
<1>2. QED
  BY <1>1, InvHolds, PTL

(* No token of a revoked family works: the family lock closes the window   *)
(* between the tombstone check and the insert (auth.rs, decide).           *)
THEOREM TombstoneIsFinal == Spec => []TombstoneIsComplete
<1>1. Inv => TombstoneIsComplete
  BY DEF Inv, Core
<1>2. QED
  BY <1>1, InvHolds, PTL

(* A token is consumed exactly when its successor is stored, and what was  *)
(* handed out is stored (auth.rs, decide and finish).                      *)
THEOREM RotationIsAtomic == Spec => []BothOrNeither
<1>1. Inv => BothOrNeither
  BY DEF Inv, Core
<1>2. QED
  BY <1>1, InvHolds, PTL

------------------------------------------------------------------------------
(* What a family needs to be a chain: one that has begun and has not been  *)
(* revoked has a token that works, and a token that is not stored is       *)
(* nobody's to revoke.                                                     *)
Continues ==
    /\ \A f \in Families : ~family[f].begun => family[f].revoked_at = Never
    /\ \A f \in Families :
          family[f].begun /\ family[f].revoked_at = Never => Live(f) # {}
    /\ \A d \in Digests : token[d].family = NoFamily => ~token[d].revoked

LEMMA Sole ==
  ASSUME NEW L, NEW d \in L, \A e \in L : e = d
  PROVE  (CHOOSE x \in L : TRUE) = d
OBVIOUS

LEMMA ContinuesInit == Init => Continues
BY DEF Init, Continues, NotBegun, NotStored

LEMMA CurrentIsLive ==
  ASSUME OneLiveToken, NEW f \in Families
  PROVE  /\ \A d \in Live(f) : Current(f) = d
         /\ Live(f) = {} => Current(f) = NoDigest
         /\ Current(f) # NoDigest => Current(f) \in Live(f)
<1>1. ASSUME NEW d \in Live(f) PROVE Current(f) = d
  <2>1. \A e \in Live(f) : e = d
    BY DEF OneLiveToken
  <2>2. Live(f) # {}
    OBVIOUS
  <2>3. QED
    BY <2>1, <2>2, Sole DEF Current
<1>2. Live(f) = {} => Current(f) = NoDigest
  BY DEF Current
<1>3. QED
  BY <1>1, <1>2

LEMMA CurrentStays == ASSUME NEW f, Live(f)' = Live(f) PROVE Current(f)' = Current(f)
BY DEF Current

(* Only a commit is for others to see. *)
LEMMA OnlyCommits ==
  ASSUME [Next]_vars
  PROVE  \/ UNCHANGED tables
         \/ \E s \in Sessions, f \in Families, d \in Digests : Begins(s, f, d)
         \/ \E s \in Sessions : CommitsRotation(s) \/ CommitsEnd(s)
BY DEF Next, vars, tables, Presents, Revokes, FamilyRefuses, LocksFamily, TokenRefuses,
       LocksToken, Consumes, Inserts, Answers, Tombstones, Sweeps, Writes, Abandons, Tick

LEMMA ChainBegins ==
  ASSUME Inv, Continues, NEW s \in Sessions, NEW f \in Families, NEW d \in Digests,
         Begins(s, f, d)
  PROVE  Continues' /\ Chain!Begin(f, d)
<1>1. /\ ~family[f].begun /\ token[d].family = NoFamily
      /\ family' = [family EXCEPT ![f] = [begun |-> TRUE, expires_at |-> now + FamilyLife,
                                          revoked_at |-> Never]]
      /\ token' = [token EXCEPT ![d] = Stored(f, TokenExpiry(now, now + FamilyLife))]
  BY DEF Begins, Fresh
<1>2. \A e \in Digests : e # d => token'[e] = token[e]
  BY <1>1 DEF Inv, TypeOK
<1>3. token'[d].family = f /\ ~token'[d].consumed /\ ~token'[d].revoked
  BY <1>1 DEF Inv, TypeOK, Stored
<1>4. \A g \in Families : g # f => family'[g] = family[g]
  BY <1>1 DEF Inv, TypeOK
<1>5. family'[f].begun /\ family'[f].revoked_at = Never
  BY <1>1 DEF Inv, TypeOK
<1>6. Live(f) = {} /\ Live(f)' = {d}
  <2>1. \A e \in Digests : token[e].family # f
    BY <1>1 DEF Inv, Core, Belongs
  <2>2. QED
    BY <1>2, <1>3, <2>1 DEF Live, Used
<1>7. ASSUME NEW g \in Families, g # f PROVE Live(g)' = Live(g)
  BY <1>1, <1>2, <1>3, <1>7 DEF Live, Used
<1>8. ~Used(d) /\ \A e \in Digests : Used(e)' <=> Used(e)
  BY <1>1, <1>2, <1>3 DEF Used, Continues, Inv, Core, Belongs
<1>9. Continues'
  <2>1. \A g \in Families : ~family'[g].begun => family'[g].revoked_at = Never
    BY <1>4, <1>5 DEF Continues
  <2>2. \A g \in Families : family'[g].begun /\ family'[g].revoked_at = Never => Live(g)' # {}
    BY <1>4, <1>6, <1>7 DEF Continues
  <2>3. \A e \in Digests : token'[e].family = NoFamily => ~token'[e].revoked
    BY <1>2, <1>3 DEF Continues
  <2>4. QED
    BY <2>1, <2>2, <2>3 DEF Continues
<1>10. /\ Current(f) = NoDigest /\ Current(f)' = d
       /\ \A g \in Families : g # f => Current(g)' = Current(g)
  <2>1. Current(f) = NoDigest
    BY <1>6 DEF Current
  <2>2. Current(f)' = d
    BY <1>6 DEF Current
  <2>3. \A g \in Families : g # f => Current(g)' = Current(g)
    BY <1>7, CurrentStays
  <2>4. QED
    BY <2>1, <2>2, <2>3
<1>11. \A g \in Families : Current(g) # d
  <2>1. ASSUME NEW g \in Families, Current(g) = d PROVE d \in Live(g)
    BY <2>1, CurrentIsLive DEF Inv, Core
  <2>2. QED
    BY <1>1, <2>1 DEF Live
<1>12. \A g \in Families : family'[g].revoked_at = family[g].revoked_at
  BY <1>1, <1>4, <1>5 DEF Continues
<1>13. QED
  BY <1>1, <1>8, <1>9, <1>10, <1>11, <1>12 DEF Chain!Begin, Chain!New, Continues

LEMMA ChainRotates ==
  ASSUME Inv, Continues, NEW s \in Sessions, CommitsRotation(s)
  PROVE  Continues' /\ Chain!Rotate(call[s].family, call[s].successor)
<1>1. /\ call[s].family \in Families /\ call[s].presented \in Digests
      /\ call[s].successor \in Digests
      /\ token[call[s].presented].family = call[s].family
      /\ token[call[s].successor].family = NoFamily
      /\ ~Used(call[s].presented)
  BY DEF CommitsRotation, Inv, Core, Named, Prepared, UnderLock, Rotation
<1>2. PICK f \in Families, p \in Digests, n \in Digests :
         f = call[s].family /\ p = call[s].presented /\ n = call[s].successor
  BY <1>1
<1>3. p # n
  BY <1>1, <1>2
<1>4. UNCHANGED family
  BY DEF CommitsRotation
<1>5. /\ token'[p] = Consumed(token[p], n)
      /\ token'[n] = Stored(f, call[s].expires_at)
      /\ \A e \in Digests : e \notin {p, n} => token'[e] = token[e]
  BY <1>2, <1>3 DEF CommitsRotation, Inv, TypeOK
<1>6. /\ token'[p].consumed /\ token'[p].family = f
      /\ token'[n].family = f /\ ~token'[n].consumed /\ ~token'[n].revoked
  BY <1>1, <1>2, <1>5 DEF Consumed, Stored, Inv, TypeOK, Token
<1>7. p \in Live(f) /\ \A e \in Live(f) : e = p
  BY <1>1, <1>2 DEF Live, Inv, Core, OneLiveToken
<1>8. Live(f)' = {n}
  <2>1. ASSUME NEW e \in Digests, e # n PROVE e \notin Live(f)'
    BY <1>5, <1>6, <1>7, <2>1 DEF Live, Used
  <2>2. n \in Live(f)'
    BY <1>6 DEF Live, Used
  <2>3. Live(f)' \subseteq Digests
    BY DEF Live
  <2>4. QED
    BY <2>1, <2>2, <2>3
<1>9. ASSUME NEW g \in Families, g # f PROVE Live(g)' = Live(g)
  BY <1>1, <1>2, <1>5, <1>6, <1>9 DEF Live, Used
<1>10. /\ ~Used(n) /\ ~Used(n)' /\ Used(p)'
       /\ \A e \in Digests : e # p => (Used(e)' <=> Used(e))
  BY <1>1, <1>2, <1>5, <1>6 DEF Used, Continues, Inv, Core, Belongs
<1>11. Continues'
  <2>1. \A g \in Families :
           family'[g].begun /\ family'[g].revoked_at = Never => Live(g)' # {}
    BY <1>4, <1>8, <1>9 DEF Continues
  <2>2. \A e \in Digests : token'[e].family = NoFamily => ~token'[e].revoked
    BY <1>5, <1>6 DEF Continues
  <2>3. QED
    BY <1>4, <2>1, <2>2 DEF Continues
<1>12. /\ Current(f) = p /\ Current(f)' = n
       /\ \A g \in Families : g # f => Current(g)' = Current(g)
  <2>1. Current(f) = p
    BY <1>7, CurrentIsLive DEF Inv, Core
  <2>2. Current(f)' = n
    BY <1>8 DEF Current
  <2>3. \A g \in Families : g # f => Current(g)' = Current(g)
    BY <1>9, CurrentStays
  <2>4. QED
    BY <2>1, <2>2, <2>3
<1>13. \A g \in Families : Current(g) # n
  <2>1. ASSUME NEW g \in Families, Current(g) = n PROVE n \in Live(g)
    BY <2>1, CurrentIsLive DEF Inv, Core
  <2>2. QED
    BY <1>1, <1>2, <2>1 DEF Live
<1>14. {d \in Digests : Used(d)}' = {d \in Digests : Used(d)} \cup {p}
  BY <1>10
<1>15. Chain!Rotate(f, n)
  BY <1>4, <1>10, <1>12, <1>13, <1>14 DEF Chain!Rotate, Chain!New
<1>16. QED
  BY <1>2, <1>11, <1>15

LEMMA ChainEnds ==
  ASSUME Inv, Continues, NEW s \in Sessions, CommitsEnd(s)
  PROVE  /\ Continues'
         /\ \/ \E f \in Families, t \in Instants : Chain!End(f, t)
            \/ UNCHANGED Chain!chainVars
<1>1. /\ call[s].family \in Families /\ family[call[s].family].begun
      /\ call[s].at \in Instants
      /\ \A d \in Digests :
            /\ d \in call[s].swept => token[d].family = call[s].family
            /\ token[d].family = call[s].family => token[d].revoked \/ d \in call[s].swept
  BY DEF CommitsEnd, Inv, Core, TypeOK, Call, Named, Ending
<1>2. PICK f \in Families, t \in Instants : f = call[s].family /\ t = call[s].at
  BY <1>1
<1>3. /\ family' = [family EXCEPT ![f] = Tombstoned(family[f], t)]
      /\ \A d \in Digests :
            token'[d] = IF d \in call[s].swept THEN Revoked(token[d]) ELSE token[d]
  BY <1>2 DEF CommitsEnd
<1>4. ASSUME NEW d \in Digests
      PROVE  /\ token'[d].family = token[d].family /\ token'[d].consumed = token[d].consumed
             /\ token'[d].revoked <=> token[d].revoked \/ d \in call[s].swept
  <2>1. token[d] \in Token
    BY DEF Inv, TypeOK
  <2>2. CASE d \in call[s].swept
    BY <1>3, <2>1, <2>2 DEF Revoked, Token
  <2>3. CASE d \notin call[s].swept
    BY <1>3, <2>1, <2>3
  <2>4. QED
    BY <2>2, <2>3
<1>5. /\ \A g \in Families : g # f => family'[g] = family[g]
      /\ family'[f] = Tombstoned(family[f], t)
  BY <1>3 DEF Inv, TypeOK
<1>6. /\ Live(f)' = {} /\ \A d \in Digests : token[d].family = f => Used(d)'
      /\ \A g \in Families : g # f => Live(g)' = Live(g)
      /\ \A d \in Digests : token[d].family # f => (Used(d)' <=> Used(d))
      /\ \A d \in Digests : Used(d) => Used(d)'
  BY <1>1, <1>2, <1>4 DEF Live, Used
<1>7. \A g \in Families : g # f => Current(g)' = Current(g)
  BY <1>6, CurrentStays
<1>8. Current(f)' = NoDigest
  BY <1>6 DEF Current
<1>9. CASE family[f].revoked_at = Never
  <2>1. family'[f].revoked_at = t /\ t # Never /\ family'[f].begun
    BY <1>1, <1>2, <1>5, <1>9 DEF Tombstoned, Inv, TypeOK, Family, Instants
  <2>2. Continues'
    <3>1. \A g \in Families : ~family'[g].begun => family'[g].revoked_at = Never
      BY <1>5, <2>1 DEF Continues
    <3>2. \A g \in Families :
             family'[g].begun /\ family'[g].revoked_at = Never => Live(g)' # {}
      BY <1>5, <1>6, <2>1 DEF Continues
    <3>3. \A d \in Digests : token'[d].family = NoFamily => ~token'[d].revoked
      BY <1>1, <1>2, <1>4 DEF Continues
    <3>4. QED
      BY <3>1, <3>2, <3>3 DEF Continues
  <2>3. PICK d \in Live(f) : TRUE
    BY <1>1, <1>2, <1>9 DEF Continues
  <2>4. Current(f) = d /\ d \in Digests /\ \A e \in Live(f) : e = d
    BY <2>3, CurrentIsLive DEF Live, Inv, Core, OneLiveToken
  <2>5. {e \in Digests : Used(e)}' = {e \in Digests : Used(e)} \cup {d}
    <3>1. Used(d)'
      BY <1>6, <2>3, <2>4 DEF Live
    <3>2. \A e \in Digests : e # d => (Used(e)' <=> Used(e))
      BY <1>6, <2>4 DEF Live
    <3>3. QED
      BY <2>4, <3>1, <3>2
  <2>6. \A g \in Families : family'[g].revoked_at = IF g = f THEN t ELSE family[g].revoked_at
    BY <1>5, <2>1
  <2>7. Chain!End(f, t)
    BY <1>7, <1>8, <2>4, <2>5, <2>6 DEF Chain!End
  <2>8. QED
    BY <2>2, <2>7
<1>10. CASE family[f].revoked_at # Never
  <2>1. \A g \in Families : family'[g] = family[g]
    BY <1>5, <1>10 DEF Tombstoned
  <2>2. \A d \in Digests : token[d].family = f => Used(d)
    BY <1>10 DEF Used, Inv, Core, TombstoneIsComplete
  <2>3. Live(f) = {}
    BY <2>2 DEF Live
  <2>4. {d \in Digests : Used(d)}' = {d \in Digests : Used(d)}
    BY <1>6, <2>2
  <2>5. Current(f) = NoDigest
    BY <2>3 DEF Current
  <2>6. Continues'
    <3>1. \A g \in Families :
             family'[g].begun /\ family'[g].revoked_at = Never => Live(g)' # {}
      BY <1>6, <1>10, <2>1 DEF Continues
    <3>2. \A d \in Digests : token'[d].family = NoFamily => ~token'[d].revoked
      BY <1>1, <1>2, <1>4 DEF Continues
    <3>3. QED
      BY <2>1, <3>1, <3>2 DEF Continues
  <2>7. UNCHANGED Chain!chainVars
    BY <1>7, <1>8, <2>1, <2>4, <2>5 DEF Chain!chainVars
  <2>8. QED
    BY <2>6, <2>7
<1>11. QED
  BY <1>9, <1>10

LEMMA ChainStep ==
  ASSUME Inv, Continues, [Next]_vars
  PROVE  Continues' /\ [Chain!ChainNext]_Chain!chainVars
<1>1. CASE UNCHANGED tables
  <2>1. UNCHANGED <<family, token>>
    BY <1>1 DEF tables
  <2>2. \A d \in Digests : Used(d)' = Used(d)
    BY <2>1 DEF Used
  <2>3. \A f \in Families : Live(f)' = Live(f)
    BY <2>1, <2>2 DEF Live
  <2>4. \A f \in Families : Current(f)' = Current(f)
    BY <2>3, CurrentStays
  <2>5. UNCHANGED Chain!chainVars
    BY <2>1, <2>2, <2>4 DEF Chain!chainVars
  <2>6. QED
    BY <2>1, <2>3, <2>5 DEF Continues
<1>2. CASE \E s \in Sessions, f \in Families, d \in Digests : Begins(s, f, d)
  BY <1>2, ChainBegins DEF Chain!ChainNext
<1>3. ASSUME NEW s \in Sessions, CommitsRotation(s)
      PROVE  Continues' /\ [Chain!ChainNext]_Chain!chainVars
  <2>1. call[s].family \in Families /\ call[s].successor \in Digests
    BY <1>3 DEF CommitsRotation, Inv, Core, Named, Prepared, Rotation
  <2>2. QED
    BY <1>3, <2>1, ChainRotates DEF Chain!ChainNext
<1>4. ASSUME NEW s \in Sessions, CommitsEnd(s)
      PROVE  Continues' /\ [Chain!ChainNext]_Chain!chainVars
  <2>1. CASE \E f \in Families, t \in Instants : Chain!End(f, t)
    BY <1>4, <2>1, ChainEnds DEF Chain!ChainNext
  <2>2. CASE UNCHANGED Chain!chainVars
    BY <1>4, <2>2, ChainEnds
  <2>3. QED
    BY <1>4, <2>1, <2>2, ChainEnds
<1>5. QED
  BY <1>1, <1>2, <1>3, <1>4, OnlyCommits

LEMMA ChainStarts == Init => Chain!ChainInit
<1> SUFFICES ASSUME Init PROVE Chain!ChainInit
  OBVIOUS
<1>1. \A d \in Digests : token[d].family = NoFamily /\ ~Used(d)
  BY DEF Init, NotStored, Used
<1>2. \A f \in Families : Live(f) = {}
  BY <1>1 DEF Live
<1>3. \A f \in Families : Current(f) = NoDigest
  BY <1>2 DEF Current
<1>4. QED
  BY <1>1, <1>3 DEF Init, Chain!ChainInit, NotBegun

(***************************************************************************)
(* A family is a chain, whatever calls interleave, fail or are abandoned:  *)
(* the commits of begin, rotate and revoke are its only steps, each spends *)
(* the token that was current, and its end is final (refresh.rs, auth.rs). *)
(***************************************************************************)
THEOREM FamiliesAreChains == Spec => IsAChain
<1>1. Inv /\ Continues /\ [Next]_vars => Continues' /\ [Chain!ChainNext]_Chain!chainVars
  BY ChainStep
<1>2. QED
  BY ContinuesInit, ChainStarts, InvHolds, <1>1, PTL DEF Spec, IsAChain, Chain!ChainSpec
==============================================================================

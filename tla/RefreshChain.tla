---------------------------- MODULE RefreshChain ----------------------------
(***************************************************************************)
(* What renvor-auth promises of a refresh family: a chain of tokens with   *)
(* one current token at a time, each spent once, and an end that is final. *)
(***************************************************************************)
CONSTANTS
    Families,  \* logins
    Digests,   \* refresh tokens
    NoDigest,  \* no token
    Instants,  \* when a chain may end
    Never      \* of a chain that has not ended

VARIABLES
    current,   \* the token of each chain that is neither spent nor revoked
    spent,     \* tokens that were current once
    ended      \* when each chain ended

chainVars == <<current, spent, ended>>

ChainInit ==
    /\ current = [f \in Families |-> NoDigest]
    /\ spent = {}
    /\ ended = [f \in Families |-> Never]

New(d) == d \notin spent /\ \A f \in Families : current[f] # d

Begin(f, d) ==
    /\ current[f] = NoDigest
    /\ ended[f] = Never
    /\ New(d)
    /\ current' = [current EXCEPT ![f] = d]
    /\ UNCHANGED <<spent, ended>>

Rotate(f, d) ==
    /\ current[f] # NoDigest
    /\ New(d)
    /\ spent' = spent \cup {current[f]}
    /\ current' = [current EXCEPT ![f] = d]
    /\ UNCHANGED ended

End(f, t) ==
    /\ current[f] # NoDigest
    /\ spent' = spent \cup {current[f]}
    /\ current' = [current EXCEPT ![f] = NoDigest]
    /\ ended' = [ended EXCEPT ![f] = t]

ChainNext ==
    \E f \in Families :
        \/ \E d \in Digests : Begin(f, d) \/ Rotate(f, d)
        \/ \E t \in Instants : End(f, t)

ChainSpec == ChainInit /\ [][ChainNext]_chainVars
==============================================================================

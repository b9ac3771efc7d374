----------------------------- MODULE BuildCalls -----------------------------
(***************************************************************************)
(* ApplicationBuilder::build: every call of author code is made on a       *)
(* thread of its own and waited for under a deadline.  A call that is given*)
(* up goes on, on a thread nobody joins.                                   *)
(*                                                                         *)
(* Register is one such call over all the providers, asked in several      *)
(* passes; `examined` is all the waiting builder knows of it.  Positions   *)
(* count from 1.                                                           *)
(***************************************************************************)
EXTENDS Integers

CONSTANTS Sources, Providers, NoCulprit

ASSUME BuildAssumption == Sources \in Nat /\ Providers \in Nat

VARIABLES
    building,       \* where build stands, or how it ended
    position,    \* the source that is called next
    loaded,      \* sources whose load answered
    validated,   \* sources whose validate answered
    pass,        \* the resolver's pass over the providers, or how it ended
    asked,       \* the provider it asks: 0, none yet
    examined,    \* the counter it shares with the builder
    culprit,     \* history: the provider whose code panicked or never returns
    blamed       \* the provider the refusal names: 0, none

registerVars == <<pass, asked, examined, culprit, blamed>>
buildVars == <<building, position, loaded, validated, registerVars>>

BuildInit ==
    /\ building = "Entropy" /\ position = 1
    /\ loaded = {} /\ validated = {}
    /\ pass = "None" /\ asked = 0 /\ examined = 1 /\ culprit = NoCulprit /\ blamed = 0

\* bounded_call and what the callback says: only an answer is gone on with.
Outcomes == {"Answered", "Error", "Panicked", "Deadline", "NoThread"}

-----------------------------------------------------------------------------
AsksEntropy ==
    /\ building = "Entropy"
    /\ \E o \in Outcomes : building' = IF o = "Answered" THEN "Names" ELSE "Failed"
    /\ UNCHANGED <<position, loaded, validated, registerVars>>

\* source_names: a name nobody could read is a position, and build goes on.
ReadsNames ==
    /\ building = "Names"
    /\ building' = "Load"
    /\ UNCHANGED <<position, loaded, validated, registerVars>>

Loads ==
    /\ building = "Load" /\ position <= Sources
    /\ \E o \in Outcomes :
          \/ /\ o = "Answered"
             /\ position' = position + 1 /\ loaded' = loaded \cup {position}
             /\ UNCHANGED building
          \/ o # "Answered" /\ building' = "Failed" /\ UNCHANGED <<position, loaded>>
    /\ UNCHANGED <<validated, registerVars>>

Validates ==
    /\ building = "Validate" /\ position <= Sources
    /\ \E o \in Outcomes :
          \/ /\ o = "Answered"
             /\ position' = position + 1 /\ validated' = validated \cup {position}
             /\ UNCHANGED building
          \/ o # "Answered" /\ building' = "Failed" /\ UNCHANGED <<position, validated>>
    /\ UNCHANGED <<loaded, registerVars>>

EndsPhase ==
    /\ building \in {"Load", "Validate"} /\ position > Sources
    /\ building' = IF building = "Load" THEN "Validate" ELSE "Register"
    /\ position' = 1
    /\ UNCHANGED <<loaded, validated, registerVars>>

-----------------------------------------------------------------------------
\* The resolver.
Passes == {"Sizes", "Offers", "Edges", "Order"}
Tracked == {"Offers", "Edges", "Naming"}

ResolverStep == culprit = NoCulprit /\ UNCHANGED <<building, position, loaded, validated, blamed>>

\* A slip: the counter is written once the provider has answered.
AsksNextThenWrites ==
    /\ ResolverStep
    /\ pass \in Passes /\ asked < Providers
    /\ asked' = asked + 1
    /\ examined' = IF pass \in {"Offers", "Edges"} /\ asked > 0 THEN asked ELSE examined
    /\ UNCHANGED <<pass, culprit>>

\* What was asked has answered.  The two loops write the counter before they
\* ask; declared_size, before them, and the names asked after them do not.
AsksNext ==
    /\ ResolverStep
    /\ pass \in Passes /\ asked < Providers
    /\ asked' = asked + 1
    /\ examined' = IF pass \in {"Offers", "Edges"} THEN asked' ELSE examined
    /\ UNCHANGED <<pass, culprit>>

\* A ceiling and a cycle are refused, the latter with its members' names.
EndsPass ==
    /\ ResolverStep
    /\ pass \in Passes /\ asked = Providers
    /\ asked' = 0
    /\ \/ pass = "Sizes" /\ pass' \in {"Offers", "Rejected"}
       \/ pass = "Offers" /\ pass' = "Edges"
       \/ pass = "Edges" /\ pass' = "Order"
       \/ pass = "Order" /\ pass' \in {"Resolved", "Rejected"}
    /\ UNCHANGED <<examined, culprit>>

\* Counted before any is asked.
FindsTooMany ==
    /\ ResolverStep
    /\ pass = "Sizes" /\ asked = 0
    /\ pass' = "Rejected"
    /\ UNCHANGED <<asked, examined, culprit>>

\* Two offer one capability: the first is asked its name, then the second.
FindsDuplicate ==
    /\ ResolverStep
    /\ pass = "Offers" /\ asked > 1
    /\ pass' = "NamingFirst" /\ asked' \in 1..asked - 1
    /\ UNCHANGED <<examined, culprit>>

NamesSecond ==
    /\ ResolverStep
    /\ pass = "NamingFirst"
    /\ pass' = "Naming" /\ asked' = examined
    /\ UNCHANGED <<examined, culprit>>

\* Nobody offers what a provider depends on: it is asked its name.
FindsMissing ==
    /\ ResolverStep
    /\ pass = "Edges" /\ asked > 0
    /\ pass' = "Naming"
    /\ UNCHANGED <<asked, examined, culprit>>

Rejects ==
    /\ ResolverStep
    /\ pass = "Naming"
    /\ pass' = "Rejected"
    /\ UNCHANGED <<asked, examined, culprit>>

\* A provider's method panics, which ends the thread, or never returns.
ProviderFails ==
    /\ ResolverStep
    /\ pass \in Passes \cup {"NamingFirst", "Naming"} /\ asked > 0
    /\ culprit' = [in |-> pass, provider |-> asked, awaited |-> building = "Register"]
    /\ pass' \in {"Panicked", pass}
    /\ UNCHANGED <<asked, examined>>

-----------------------------------------------------------------------------
\* The builder, at Register.
BuilderStep == UNCHANGED <<position, loaded, validated, asked, examined, culprit>>

SpawnsResolver ==
    /\ building = "Register" /\ pass = "None"
    /\ \/ pass' = "Sizes" /\ UNCHANGED <<building, blamed>>
       \/ building' = "Failed" /\ blamed' = examined /\ UNCHANGED pass
    /\ BuilderStep

SeesAnswer ==
    /\ building = "Register" /\ pass \in {"Resolved", "Rejected"}
    /\ building' = IF pass = "Resolved" THEN "Built" ELSE "Failed"
    /\ UNCHANGED <<pass, blamed>>
    /\ BuilderStep

StopsWaiting ==
    /\ building = "Register" /\ pass # "None"
    /\ building' = "GivenUp"
    /\ UNCHANGED <<pass, blamed>>
    /\ BuilderStep

\* The counter is read after the wait: a slow resolver may have gone on.
Blames ==
    /\ \/ building = "Register" /\ pass = "Panicked"
       \/ building = "GivenUp"
    /\ building' = "Failed" /\ blamed' = examined
    /\ UNCHANGED pass
    /\ BuilderStep

BuildNext ==
    \/ AsksEntropy \/ ReadsNames \/ Loads \/ Validates \/ EndsPhase
    \/ SpawnsResolver \/ SeesAnswer \/ StopsWaiting \/ Blames
    \/ FindsTooMany \/ AsksNext \/ EndsPass \/ FindsDuplicate \/ NamesSecond
    \/ FindsMissing \/ Rejects \/ ProviderFails

BuildSpec == BuildInit /\ [][BuildNext]_buildVars

-----------------------------------------------------------------------------
\* FR-017, FR-022 and `resolve_tracking` (provider/mod.rs:73): nothing is
\* validated that was not loaded with all the rest, nothing is built on a
\* source or a resolver that did not answer, and the provider that panicked or
\* hung while the two loops asked it is the one that is named, however late the
\* counter is read.  One that does so in another pass need not be (mod.rs:78).
BuildIsWhole ==
    /\ building \in {"Validate", "Register", "GivenUp", "Built"} => loaded = 1..Sources
    /\ building = "Built" => validated = loaded /\ pass = "Resolved"
    /\ building = "Failed" /\ culprit # NoCulprit =>
          (culprit.awaited /\ culprit.in \in Tracked => blamed = culprit.provider)
=============================================================================

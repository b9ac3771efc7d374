---------------------------- MODULE ProviderStack ----------------------------
(***************************************************************************)
(* What Application::boot and roll_back promise of the providers together: *)
(* they start in the order the resolver put them in, stop in the reverse of*)
(* the order they started in, and do either at most once.                  *)
(***************************************************************************)
EXTENDS Integers

CONSTANT Count   \* the providers are 1 .. Count, in resolved order

VARIABLE life    \* what has become of each provider

StackInit == life = [p \in 1 .. Count |-> "waiting"]

Becomes(p, state) == life' = [life EXCEPT ![p] = state]

(* A provider starts on top of all the earlier ones. *)
Start(p) ==
    /\ life[p] = "waiting"
    /\ \A d \in 1 .. (p - 1) : life[d] = "up"
    /\ Becomes(p, "up")

(* It fails to, and is never up. *)
Refuse(p) ==
    /\ life[p] = "waiting"
    /\ Becomes(p, "over")

(* The top of the stack stops, for good. *)
Stop(p) ==
    /\ life[p] = "up"
    /\ \A d \in (p + 1) .. Count : life[d] # "up"
    /\ Becomes(p, "over")

StackNext == \E p \in 1 .. Count : Start(p) \/ Refuse(p) \/ Stop(p)

StackSpec == StackInit /\ [][StackNext]_life
==============================================================================

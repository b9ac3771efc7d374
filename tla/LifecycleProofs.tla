--------------------------- MODULE LifecycleProofs ---------------------------
(***************************************************************************)
(* Proofs about the kernel's lifecycle, for every number of providers and  *)
(* every set of work.  The inductive invariant says what `initialised`     *)
(* stands for: while the kernel walks up or down the order, the record is  *)
(* exactly the providers that are up, in order, and the provider it is     *)
(* working on is the next one or the last.  What a clean drain promises    *)
(* needs only that the gate stays closed once it is.                       *)
(***************************************************************************)
EXTENDS Lifecycle, SequenceTheorems, FiniteSetTheorems, TLAPS

Still == {"new", "down", "failed"}

(* The record of initialised providers is a prefix of the resolved order.  *)
Prefix ==
    /\ initialised \in Seq(Providers)
    /\ Len(initialised) <= Count
    /\ \A i \in 1 .. Len(initialised) : initialised[i] = i

(* Where the kernel is, and what each provider is doing then. *)
WalkUp ==
    /\ at \in {"built", "booting"} =>
          \A p \in Providers : provider[p] = IF p <= Len(initialised) THEN "up" ELSE "new"
    /\ at = "initialising" =>
          /\ Len(initialised) < Count
          /\ \A p \in Providers :
                provider[p] = IF p <= Len(initialised) THEN "up"
                              ELSE IF p = Upcoming THEN "starting" ELSE "new"

Walking == {"ready", "closing", "draining", "waiting", "timed_out", "unwinding", "stopping"}

WalkDown ==
    /\ at \in Walking =>
          \A p \in Providers :
             IF p <= Len(initialised) THEN provider[p] = "up" ELSE provider[p] \in Still
    /\ at \in {"unwind_stop", "stopping_stop"} =>
          /\ Len(initialised) > 0
          /\ \A p \in Providers :
                IF p < Len(initialised) THEN provider[p] = "up"
                ELSE IF p = Len(initialised) THEN provider[p] = "stopping"
                ELSE provider[p] \in Still

(* One shutdown, whose drain keeps the gate closed. *)
Order ==
    /\ at \in {"built", "booting", "initialising", "ready"} => ~done
    /\ at \in {"closing", "draining", "waiting", "timed_out", "stopping", "stopping_stop",
              "idle", "returned"} => done
    /\ at = "idle" => dropped
    /\ at \in {"draining", "waiting", "timed_out", "stopping", "stopping_stop"} => closed

Core ==
    /\ Prefix
    /\ WalkUp
    /\ WalkDown
    /\ Order
    /\ EarlierOutliveLater
    /\ NothingLeftRunning
    /\ ScopesFollowProviders
    /\ CleanDrainIsIdle

Inv == TypeOK /\ Core

------------------------------------------------------------------------------
(* Lemmas *)

(* Recording the next provider keeps the record a prefix. *)
LEMMA Recorded ==
    ASSUME Prefix, Len(initialised) < Count,
           initialised' = Append(initialised, Upcoming)
    PROVE  Prefix' /\ Len(initialised') = Upcoming
<1>1. Upcoming \in Providers
  BY LifecycleAssumption DEF Prefix, Upcoming, Providers
<1>2. QED
  BY <1>1, LifecycleAssumption DEF Prefix, Upcoming, Providers

(* The last of the record is the last provider that is up. *)
LEMMA TopIsLast ==
    ASSUME Prefix, initialised # << >>
    PROVE  /\ Len(initialised) > 0
           /\ Top = Len(initialised)
           /\ Top \in Providers
  BY LifecycleAssumption DEF Prefix, Top, Providers

(* Taking the last one off keeps the record a prefix. *)
LEMMA Unrecorded ==
    ASSUME Prefix, Len(initialised) > 0,
           initialised' = SubSeq(initialised, 1, Len(initialised) - 1)
    PROVE  Prefix' /\ Len(initialised') = Len(initialised) - 1
<1> DEFINE n == Len(initialised) - 1
<1>1. n \in Nat /\ \A i \in 1 .. n : initialised[i] \in Providers
  BY DEF Prefix
<1> HIDE DEF n
<1>2. /\ initialised' \in Seq(Providers)
      /\ Len(initialised') = n
      /\ \A i \in 1 .. n : initialised'[i] = initialised[i]
  <2>1. SubSeq(initialised, 1, n) \in Seq(Providers)
    BY <1>1, SubSeqProperties
  <2>2. Len(SubSeq(initialised, 1, n)) = IF 1 <= n THEN n - 1 + 1 ELSE 0
    BY <1>1, SubSeqProperties
  <2>3. \A i \in 1 .. n : SubSeq(initialised, 1, n)[i] = initialised[i]
    BY <1>1
  <2>4. initialised' = SubSeq(initialised, 1, n)
    BY DEF n
  <2>5. QED
    BY <1>1, <2>1, <2>2, <2>3, <2>4
<1>3. QED
  BY <1>1, <1>2, LifecycleAssumption DEF Prefix, n

(* An emptied record is one too. *)
LEMMA Emptied == ASSUME initialised' = << >> PROVE Prefix'
  BY LifecycleAssumption DEF Prefix

LEMMA InitInv == Init => Inv
<1> SUFFICES ASSUME Init PROVE TypeOK /\ Core
  BY DEF Inv
<1> USE LifecycleAssumption DEF Init
<1>1. initialised = << >> /\ Len(initialised) = 0
  OBVIOUS
<1>2. NoRollback \in Rollbacks /\ NoReport.stop \in Rollbacks
  BY DEF NoRollback, NoReport, Rollbacks
<1>3. NoReport \in [drain : {"clean", "incomplete"}, outstanding : Nat, stop : Rollbacks]
  BY <1>2 DEF NoReport
<1>3a. TypeOK
  <2>1. initialised \in Seq(Providers)
    BY <1>1
  <2>2. provider \in [Providers -> {"new", "starting", "up", "stopping", "down", "failed"}]
    OBVIOUS
  <2>3. QED
    BY <1>2, <1>3, <2>1, <2>2 DEF TypeOK
<1>4. Prefix /\ Order
  BY <1>1 DEF Prefix, Order
<1>5. WalkUp /\ WalkDown
  BY <1>1 DEF WalkUp, WalkDown, Walking, Providers
<1>6. EarlierOutliveLater /\ NothingLeftRunning /\ ScopesFollowProviders /\ CleanDrainIsIdle
  BY DEF EarlierOutliveLater, NothingLeftRunning, ScopesFollowProviders, CleanDrainIsIdle
<1>7. QED
  BY <1>3a, <1>4, <1>5, <1>6 DEF Core

------------------------------------------------------------------------------
(* Every step keeps the invariant *)

(* A step that leaves providers, scopes and the record alone leaves their   *)
(* part of the invariant alone.                                            *)
LEMMA Untouched ==
    ASSUME Inv, UNCHANGED <<initialised, provider, scope>>
    PROVE  /\ Prefix'
           /\ EarlierOutliveLater'
           /\ ScopesFollowProviders'
  BY DEF Inv, Core, Prefix, EarlierOutliveLater, ScopesFollowProviders

(* The steps of boot that touch none. *)
LEMMA BootElsewhere ==
    ASSUME Inv, StartsBoot \/ SeesCancelled \/ BecomesReady \/ BootFails
    PROVE  Core'
<1>1. UNCHANGED <<initialised, provider, scope, closed, permits, done, dropped>>
  BY DEF StartsBoot, SeesCancelled, BecomesReady, BootFails, gateVars, shutdownVars
<1>2. WalkUp' /\ WalkDown'
  BY <1>1 DEF Inv, Core, WalkUp, WalkDown, Walking, Still, StartsBoot, SeesCancelled, BecomesReady,
              BootFails
<1>3. Order' /\ NothingLeftRunning' /\ CleanDrainIsIdle'
  BY <1>1 DEF Inv, Core, Order, WalkDown, Walking, NothingLeftRunning, CleanDrainIsIdle, Still,
              StartsBoot, SeesCancelled, BecomesReady, BootFails, Prefix, Providers
<1>4. QED
  BY <1>1, <1>2, <1>3, Untouched DEF Core

(* The steps of shutdown that touch none. *)
LEMMA ShutdownElsewhere ==
    ASSUME Inv,
           \/ BeginsShutdown \/ ReturnsReport \/ ClosesGate \/ DrainWaits \/ DrainsClean
           \/ DrainTimesOut \/ DrainIsIncomplete \/ ShutdownReturns
    PROVE  Core'
<1> USE DEF gateVars, shutdownVars, phaseVars, Callable
<1>1. UNCHANGED <<initialised, provider, scope, permits, dropped>>
  BY DEF BeginsShutdown, ReturnsReport, ClosesGate, DrainWaits, DrainsClean, DrainTimesOut,
         DrainIsIncomplete, ShutdownReturns
<1>2. WalkUp' /\ WalkDown'
  BY <1>1 DEF Inv, Core, WalkUp, WalkDown, Walking, Still, Order, BeginsShutdown, ReturnsReport,
              ClosesGate, DrainWaits, DrainsClean, DrainTimesOut, DrainIsIncomplete,
              ShutdownReturns, Prefix, Providers
<1>3. Order'
  BY <1>1 DEF Inv, Core, Order, BeginsShutdown, ReturnsReport, ClosesGate, DrainWaits,
              DrainsClean, DrainTimesOut, DrainIsIncomplete, ShutdownReturns
<1>4. DrainIsIncomplete => report'.drain = "incomplete"
  BY DEF Inv, TypeOK, DrainIsIncomplete
<1>5. CleanDrainIsIdle'
  BY <1>1, <1>4 DEF Inv, Core, CleanDrainIsIdle, BeginsShutdown, ReturnsReport, ClosesGate,
                    DrainWaits, DrainsClean, DrainTimesOut, DrainIsIncomplete, ShutdownReturns
<1>6. NothingLeftRunning'
  BY <1>1 DEF Inv, Core, Order, WalkDown, Walking, NothingLeftRunning, Still, BeginsShutdown,
              ReturnsReport, ClosesGate, DrainWaits, DrainsClean, DrainTimesOut,
              DrainIsIncomplete, ShutdownReturns, Prefix, Providers
<1>7. QED
  BY <1>1, <1>2, <1>3, <1>5, <1>6, Untouched DEF Core

(* Work beginning and ending, and a cancellation. *)
LEMMA WorldElsewhere ==
    ASSUME Inv, CancelsRoot \/ \E u \in Works : BeginsWork(u) \/ EndsWork(u)
    PROVE  Core'
<1> USE DEF gateVars, shutdownVars, phaseVars
<1>1. UNCHANGED <<at, initialised, provider, scope, closed, done, report, dropped>>
  BY DEF CancelsRoot, BeginsWork, EndsWork
<1>2. WalkUp' /\ WalkDown' /\ Order' /\ NothingLeftRunning'
  BY <1>1 DEF Inv, Core, WalkUp, WalkDown, Walking, Order, NothingLeftRunning, Upcoming
<1>3. CleanDrainIsIdle'
  BY <1>1 DEF Inv, Core, Order, CleanDrainIsIdle, CancelsRoot, BeginsWork, EndsWork
<1>4. QED
  BY <1>1, <1>2, <1>3, Untouched DEF Core

(* The next provider is handed its scope and asked to initialise. *)
LEMMA StartingNext ==
    ASSUME Inv, StartsProvider
    PROVE  Core'
<1> USE LifecycleAssumption
<1>1. Upcoming \in Providers /\ Upcoming = Len(initialised) + 1
  BY DEF Inv, Core, StartsProvider, Upcoming, Providers, Prefix
<1>2. /\ Prefix'
      /\ UNCHANGED <<initialised, closed, permits, done, report, dropped>>
  BY <1>1 DEF Inv, Core, StartsProvider, Prefix, Still, gateVars, shutdownVars
<1>3. WalkUp' /\ WalkDown' /\ Order'
  BY <1>1, <1>2 DEF Inv, Core, TypeOK, StartsProvider, WalkUp, WalkDown, Walking, Order, Upcoming
<1>4. EarlierOutliveLater'
  BY <1>1, <1>2, <1>3 DEF WalkUp, EarlierOutliveLater, Providers, StartsProvider, Upcoming, Prefix
<1>5. ScopesFollowProviders'
  BY <1>1 DEF Inv, Core, TypeOK, StartsProvider, ScopesFollowProviders
<1>6. NothingLeftRunning' /\ CleanDrainIsIdle'
  BY DEF StartsProvider, NothingLeftRunning, CleanDrainIsIdle
<1>7. QED
  BY <1>2, <1>3, <1>4, <1>5, <1>6 DEF Core

(* It answers, and joins the record. *)
LEMMA RecordsNext ==
    ASSUME Inv, Initialises
    PROVE  Core'
<1> USE LifecycleAssumption
<1>1. /\ Len(initialised) < Count /\ initialised' = Append(initialised, Upcoming)
      /\ UNCHANGED <<scope, closed, permits, done, report, dropped>>
      /\ Prefix
  BY DEF Inv, Core, WalkUp, Initialises, gateVars, shutdownVars
<1>2. Prefix' /\ Len(initialised') = Upcoming
  BY <1>1, Recorded
<1>3. /\ Upcoming \in Providers /\ Upcoming = Len(initialised) + 1
      /\ provider[Upcoming] = "starting"
      /\ \A d \in 1 .. Len(initialised) : provider[d] = "up"
  BY <1>1 DEF Inv, Core, WalkUp, Initialises, Upcoming, Providers, Prefix
<1>4. WalkUp' /\ WalkDown' /\ Order'
  BY <1>1, <1>2, <1>3 DEF Inv, Core, TypeOK, Initialises, WalkUp, WalkDown, Walking, Order
<1>5. EarlierOutliveLater'
  BY <1>1, <1>2, <1>3 DEF Inv, Core, TypeOK, WalkUp, Initialises, EarlierOutliveLater, Providers
<1>6. ScopesFollowProviders'
  BY <1>1, <1>3 DEF Inv, Core, TypeOK, Initialises, ScopesFollowProviders
<1>7. NothingLeftRunning' /\ CleanDrainIsIdle'
  BY DEF Initialises, NothingLeftRunning, CleanDrainIsIdle
<1>8. QED
  BY <1>2, <1>4, <1>5, <1>6, <1>7 DEF Core

(* It refuses, or is late, and its scope is cancelled. *)
LEMMA RefusesNext ==
    ASSUME Inv, InitFails
    PROVE  Core'
<1> USE LifecycleAssumption
<1>1. /\ Len(initialised) < Count
      /\ UNCHANGED <<initialised, closed, permits, done, report, dropped>>
      /\ Prefix'
  BY DEF Inv, Core, WalkUp, InitFails, gateVars, shutdownVars, Prefix
<1>2. Upcoming \in Providers /\ Upcoming = Len(initialised) + 1
  BY <1>1 DEF Inv, Core, Upcoming, Providers, Prefix
<1>3. WalkUp' /\ WalkDown' /\ Order'
  BY <1>1, <1>2 DEF Inv, Core, TypeOK, InitFails, WalkUp, WalkDown, Walking, Order, Still
<1>4. EarlierOutliveLater'
  BY <1>1, <1>2 DEF Inv, Core, TypeOK, InitFails, WalkUp, EarlierOutliveLater, Providers
<1>5. ScopesFollowProviders'
  BY <1>1, <1>2 DEF Inv, Core, TypeOK, InitFails, ScopesFollowProviders
<1>6. NothingLeftRunning' /\ CleanDrainIsIdle'
  BY DEF InitFails, NothingLeftRunning, CleanDrainIsIdle
<1>7. QED
  BY <1>1, <1>3, <1>4, <1>5, <1>6 DEF Core

(* The last provider that is up is asked to stop. *)
LEMMA StoppingTop ==
    ASSUME Inv, StopsNext
    PROVE  Core'
<1> USE LifecycleAssumption
<1>1. /\ UNCHANGED <<initialised, scope, closed, permits, done, report, dropped>>
      /\ Prefix /\ initialised # << >>
      /\ Prefix'
  BY DEF Inv, Core, StopsNext, gateVars, shutdownVars, Prefix
<1>2. Len(initialised) > 0 /\ Top = Len(initialised) /\ Top \in Providers
  BY <1>1, TopIsLast
<1>3. /\ at' \in {"unwind_stop", "stopping_stop"}
      /\ at' = "stopping_stop" => at = "stopping"
      /\ provider' = [provider EXCEPT ![Top] = "stopping"]
      /\ \A p \in Providers : IF p <= Top THEN provider[p] = "up" ELSE provider[p] \in Still
  BY <1>2 DEF Inv, Core, StopsNext, WalkDown, Walking
<1>4. WalkUp' /\ WalkDown' /\ Order'
  BY <1>1, <1>2, <1>3 DEF Inv, Core, TypeOK, WalkUp, WalkDown, Walking, Order, Providers, Prefix
<1>5. EarlierOutliveLater'
  <2> SUFFICES ASSUME NEW p \in Providers, provider'[p] \in {"starting", "up", "stopping"},
                      NEW d \in 1 .. (p - 1)
               PROVE  provider'[d] = "up"
    BY DEF EarlierOutliveLater
  <2>1. p <= Top
    BY <1>2, <1>3 DEF Inv, TypeOK, Still
  <2>2. d \in Providers /\ d # Top /\ d < Top
    BY <1>2, <2>1 DEF Providers
  <2>3. QED
    BY <1>2, <1>3, <2>2 DEF Inv, TypeOK
<1>6. ScopesFollowProviders'
  BY <1>1, <1>2, <1>3 DEF Inv, Core, TypeOK, ScopesFollowProviders
<1>7. NothingLeftRunning' /\ CleanDrainIsIdle'
  BY <1>1, <1>3 DEF Inv, Core, NothingLeftRunning, CleanDrainIsIdle
<1>8. QED
  BY <1>1, <1>4, <1>5, <1>6, <1>7 DEF Core

(* Its answer, whatever it is, takes it off the record. *)
LEMMA TopStopped ==
    ASSUME Inv, NEW F, Stopped(F)
    PROVE  Core'
<1> USE LifecycleAssumption
<1>1. /\ UNCHANGED <<closed, permits, done, report, dropped>>
      /\ at \in {"unwind_stop", "stopping_stop"}
      /\ Prefix /\ Len(initialised) > 0
      /\ initialised' = SubSeq(initialised, 1, Len(initialised) - 1)
  BY DEF Inv, Core, WalkDown, Stopped, gateVars, shutdownVars
<1>2. Prefix' /\ Len(initialised') = Len(initialised) - 1
  BY <1>1, Unrecorded
<1>3. Len(initialised) > 0 /\ Top = Len(initialised) /\ Top \in Providers
  BY <1>1, TopIsLast
<1>4. /\ at' \in {"unwinding", "stopping"}
      /\ at' = "stopping" => at = "stopping_stop"
      /\ provider' = [provider EXCEPT ![Top] = "down"]
      /\ scope' = [scope EXCEPT ![Top] = "cancelled"]
      /\ \A p \in Providers :
            IF p < Top THEN provider[p] = "up"
            ELSE IF p = Top THEN provider[p] = "stopping" ELSE provider[p] \in Still
  BY <1>1, <1>3 DEF Inv, Core, Stopped, WalkDown
<1>5. WalkUp' /\ WalkDown' /\ Order'
  BY <1>1, <1>2, <1>3, <1>4
     DEF Inv, Core, TypeOK, WalkUp, WalkDown, Walking, Order, Providers, Prefix, Still
<1>6. EarlierOutliveLater'
  <2> SUFFICES ASSUME NEW p \in Providers, provider'[p] \in {"starting", "up", "stopping"},
                      NEW d \in 1 .. (p - 1)
               PROVE  provider'[d] = "up"
    BY DEF EarlierOutliveLater
  <2>1. p <= Top
    <3>1. PICK n \in Nat : n = Top /\ n \in Providers
      BY <1>3 DEF Providers
    <3>2. provider' = [provider EXCEPT ![n] = "down"]
      BY <1>4, <3>1
    <3>3. p # n => provider[p] \notin Still
      BY <3>1, <3>2 DEF Inv, TypeOK, Still
    <3>4. IF p < n THEN provider[p] = "up"
          ELSE IF p = n THEN provider[p] = "stopping" ELSE provider[p] \in Still
      BY <1>4, <3>1
    <3>5. p \in Nat
      BY DEF Providers
    <3>6. p <= n
      BY <3>1, <3>3, <3>4, <3>5
    <3>7. QED
      BY <3>1, <3>6
  <2>2. d \in Providers /\ d # Top /\ d < Top
    BY <1>3, <2>1 DEF Providers
  <2>3. QED
    BY <1>3, <1>4, <2>2 DEF Inv, TypeOK
<1>7. ScopesFollowProviders'
  BY <1>3, <1>4 DEF Inv, Core, TypeOK, ScopesFollowProviders
<1>8. NothingLeftRunning' /\ CleanDrainIsIdle'
  BY <1>1, <1>4 DEF Inv, Core, NothingLeftRunning, CleanDrainIsIdle
<1>9. QED
  BY <1>2, <1>5, <1>6, <1>7, <1>8 DEF Core

(* The caller drops a future: nothing more is walked. *)
LEMMA Dropped ==
    ASSUME Inv, DropsBoot \/ DropsShutdown
    PROVE  Core'
<1> USE LifecycleAssumption
<1>1. /\ at' \in {"gone", "idle"} /\ dropped'
      /\ UNCHANGED <<closed, permits, done, report>>
      /\ at' = "idle" => done
  BY DEF Inv, Core, Order, DropsBoot, DropsShutdown, gateVars, shutdownVars
<1>2. Prefix'
  BY Emptied DEF Inv, Core, DropsBoot, DropsShutdown, Prefix
<1>3. WalkUp' /\ WalkDown' /\ Order' /\ NothingLeftRunning' /\ CleanDrainIsIdle'
  BY <1>1 DEF WalkUp, WalkDown, Walking, Order, NothingLeftRunning, CleanDrainIsIdle
<1>4. CASE at = "initialising" /\ DropsBoot
  <2>1. Upcoming \in Providers /\ Upcoming = Len(initialised) + 1
    BY <1>4 DEF Inv, Core, WalkUp, Upcoming, Providers, Prefix
  <2>2. EarlierOutliveLater'
    <3>1. /\ provider' = [provider EXCEPT ![Upcoming] = "failed"]
          /\ \A p \in Providers :
                p # Upcoming => provider[p] = IF p < Upcoming THEN "up" ELSE "new"
      BY <1>4, <2>1 DEF Inv, Core, DropsBoot, WalkUp, Providers, Prefix
    <3>2. QED
      BY <2>1, <3>1 DEF Inv, TypeOK, EarlierOutliveLater, Providers
  <2>3. ScopesFollowProviders'
    BY <1>4, <2>1 DEF Inv, Core, TypeOK, DropsBoot, ScopesFollowProviders
  <2>4. QED
    BY <1>2, <1>3, <2>2, <2>3 DEF Core
<1>5. CASE ~(at = "initialising" /\ DropsBoot)
  <2>1. UNCHANGED <<provider, scope>>
    BY <1>5 DEF DropsBoot, DropsShutdown
  <2>2. EarlierOutliveLater' /\ ScopesFollowProviders'
    BY <2>1 DEF Inv, Core, EarlierOutliveLater, ScopesFollowProviders
  <2>3. QED
    BY <1>2, <1>3, <2>2 DEF Core
<1>6. QED
  BY <1>4, <1>5

(* No step takes a variable out of its type. *)
LEMMA StepTypeOK == Inv /\ [Next]_vars => TypeOK'
<1> SUFFICES ASSUME Inv, [Next]_vars PROVE TypeOK'
  OBVIOUS
<1> USE LifecycleAssumption DEF gateVars, shutdownVars, phaseVars
<1>0. TypeOK /\ Prefix
  BY DEF Inv, Core
<1>1. CASE SeesCancelled \/ ReturnsReport \/ ClosesGate \/ DrainWaits \/ DrainTimesOut
           \/ CancelsRoot
  <2>1. UNCHANGED <<phase, initialised, provider, scope, permits, draining, done, dropped,
                    rolling, report>>
    BY <1>1 DEF SeesCancelled, ReturnsReport, ClosesGate, DrainWaits, DrainTimesOut, CancelsRoot
  <2>2. /\ at' \in {at, "unwinding", "returned", "draining", "waiting", "timed_out"}
        /\ root' = root \/ root' = TRUE
        /\ closed' = closed \/ closed' = TRUE
    BY <1>1 DEF SeesCancelled, ReturnsReport, ClosesGate, DrainWaits, DrainTimesOut, CancelsRoot
  <2>3. root' \in BOOLEAN /\ closed' \in BOOLEAN
    BY <1>0, <2>2, Zenon DEF TypeOK
  <2>4. QED
    BY <1>0, <2>1, <2>2, <2>3 DEF TypeOK
<1>1a. CASE StartsBoot \/ BecomesReady
  BY <1>0, <1>1a DEF TypeOK, StartsBoot, BecomesReady, Enter
<1>2. CASE StartsProvider
  BY <1>0, <1>2 DEF TypeOK, StartsProvider
<1>3. CASE Initialises
  <2>1. initialised' \in Seq(Providers)
    BY <1>3, Recorded DEF Inv, Core, WalkUp, Initialises, Prefix
  <2>2. QED
    BY <1>0, <1>3, <2>1 DEF TypeOK, Initialises
<1>4. CASE InitFails
  BY <1>0, <1>4 DEF TypeOK, InitFails
<1>5. CASE StopsNext
  <2>1. rolling' \in Rollbacks
    <3>1. Top \in Providers /\ rolling \in Rollbacks
      BY <1>0, <1>5, TopIsLast DEF TypeOK, StopsNext
    <3>2. Append(rolling.stopped, Top) \in Seq(Providers)
      BY <3>1 DEF Rollbacks
    <3>3. QED
      BY <1>5, <3>1, <3>2 DEF StopsNext, Rollbacks
  <2>2. QED
    BY <1>0, <1>5, <2>1 DEF TypeOK, StopsNext
<1>6. ASSUME NEW F \in {{}, {Top}}, Stopped(F) PROVE TypeOK'
  <2>1. Len(initialised) > 0 /\ initialised # << >>
    BY <1>6 DEF Inv, Core, Stopped, WalkDown
  <2>2. Top \in Providers
    BY <1>0, <2>1, TopIsLast
  <2>3. initialised' \in Seq(Providers)
    BY <1>0, <1>6, <2>1, Unrecorded DEF Stopped, Prefix
  <2>4. rolling' \in Rollbacks
    BY <1>0, <1>6, <2>2 DEF TypeOK, Stopped, Rollbacks
  <2>5. QED
    BY <1>0, <1>6, <2>3, <2>4 DEF TypeOK, Stopped
<1>7. CASE BootFails \/ ShutdownReturns
  BY <1>0, <1>7 DEF TypeOK, BootFails, ShutdownReturns
<1>8. CASE BeginsShutdown
  <2>1. NoRollback \in Rollbacks
    BY DEF NoRollback, Rollbacks
  <2>2. QED
    BY <1>0, <1>8, <2>1 DEF TypeOK, BeginsShutdown, SkipTo, Enter
<1>9. CASE DrainsClean
  BY <1>0, <1>9 DEF TypeOK, DrainsClean, SkipTo, Enter
<1>10. CASE DrainIsIncomplete
  <2>1. Cardinality(permits) \in Nat
    BY <1>0, FS_Subset, FS_CardinalityType DEF TypeOK
  <2>2. QED
    BY <1>0, <1>10, <2>1 DEF TypeOK, DrainIsIncomplete, SkipTo, Enter
<1>11. CASE \E u \in Works : BeginsWork(u) \/ EndsWork(u)
  BY <1>0, <1>11 DEF TypeOK, BeginsWork, EndsWork
<1>12. CASE DropsBoot \/ DropsShutdown
  <2>1. initialised' \in Seq(Providers)
    <3>1. << >> \in Seq(Providers)
      OBVIOUS
    <3>2. initialised' = << >> \/ initialised' = initialised
      BY <1>12 DEF DropsBoot, DropsShutdown
    <3>3. QED
      BY <1>0, <3>1, <3>2 DEF TypeOK
  <2>2. QED
    BY <1>0, <1>12, <2>1 DEF TypeOK, DropsBoot, DropsShutdown
<1>13. CASE UNCHANGED vars
  BY <1>0, <1>13 DEF TypeOK, vars
<1>14. QED
  BY <1>1, <1>1a, <1>2, <1>3, <1>4, <1>5, <1>6, <1>7, <1>8, <1>9, <1>10, <1>11, <1>12, <1>13
     DEF Next, KernelStep, InitLate, InitRefused, Stops, StopFails, StopRefused, StopLate

(* No step breaks the rest of the invariant. *)
LEMMA StepCore == Inv /\ [Next]_vars => Core'
<1> SUFFICES ASSUME Inv, [Next]_vars PROVE Core'
  OBVIOUS
<1>1. CASE UNCHANGED vars
  BY <1>1 DEF vars, Inv, Core, Prefix, WalkUp, WalkDown, Walking, Upcoming, Order,
              EarlierOutliveLater, NothingLeftRunning, ScopesFollowProviders, CleanDrainIsIdle
<1>2. QED
  BY <1>1, BootElsewhere, ShutdownElsewhere, WorldElsewhere, StartingNext, RecordsNext,
     RefusesNext, StoppingTop, TopStopped, Dropped
     DEF Next, KernelStep, InitLate, InitRefused, Stops, StopFails, StopRefused, StopLate

LEMMA Invariant == Spec => []Inv
<1>1. Inv /\ [Next]_vars => Inv'
  BY StepTypeOK, StepCore DEF Inv
<1>2. QED
  BY <1>1, InitInv, PTL DEF Spec

------------------------------------------------------------------------------
(* What a run of the kernel may be trusted with *)

(* Every variable keeps its type, so that no report and no record names    *)
(* anything but a provider of the resolved order.                          *)
THEOREM LifecycleTypeCorrect == Spec => []TypeOK
<1>1. Inv => TypeOK
  BY DEF Inv
<1>2. QED
  BY <1>1, Invariant, PTL

(* No provider ever runs without every provider it may depend on, through  *)
(* failures, deadlines, cancellations and dropped futures.                 *)
THEOREM LaterNeedEarlier == Spec => []EarlierOutliveLater
<1>1. Inv => EarlierOutliveLater
  BY DEF Inv, Core
<1>2. QED
  BY <1>1, Invariant, PTL

(* A boot that failed and a shutdown that returned left nothing running.   *)
THEOREM RollbackIsComplete == Spec => []NothingLeftRunning
<1>1. Inv => NothingLeftRunning
  BY DEF Inv, Core
<1>2. QED
  BY <1>1, Invariant, PTL

(* A provider's scope is live exactly while the provider is.               *)
THEOREM ScopesExact == Spec => []ScopesFollowProviders
<1>1. Inv => ScopesFollowProviders
  BY DEF Inv, Core
<1>2. QED
  BY <1>1, Invariant, PTL

(* A drain reported clean leaves no work under the providers it stops.     *)
THEOREM CleanIsIdle == Spec => []CleanDrainIsIdle
<1>1. Inv => CleanDrainIsIdle
  BY DEF Inv, Core
<1>2. QED
  BY <1>1, Invariant, PTL

------------------------------------------------------------------------------
(* The kernel implements the stack of providers *)

(* A provider that changes its state changes its life alone. *)
LEMMA OneLife ==
    ASSUME TypeOK, NEW q \in Providers, NEW state,
           provider' = [provider EXCEPT ![q] = state]
    PROVE  Lives' = [Lives EXCEPT ![q] = LifeOf(state)]
  BY DEF TypeOK, Lives

LEMMA StackBegins == Init => Stack!StackInit
  BY DEF Init, Stack!StackInit, Lives, LifeOf, Providers

(* Every step of the kernel is a start, a refusal, a stop or none. *)
LEMMA StackStep == Inv /\ [Next]_vars => [Stack!StackNext]_Lives
<1> SUFFICES ASSUME Inv, [Next]_vars PROVE Stack!StackNext \/ Lives' = Lives
  OBVIOUS
<1> USE LifecycleAssumption
<1>0. TypeOK /\ Prefix
  BY DEF Inv, Core
<1>1. CASE UNCHANGED provider
  BY <1>1 DEF Lives
<1>2. CASE StartsProvider
  <2>1. Upcoming \in Providers /\ Upcoming = Len(initialised) + 1
    BY <1>0, <1>2 DEF StartsProvider, Upcoming, Providers, Prefix
  <2>2. provider[Upcoming] = "new"
    BY <1>2, <2>1 DEF Inv, Core, WalkUp, StartsProvider, Prefix
  <2>3. Lives' = [Lives EXCEPT ![Upcoming] = "waiting"]
    BY <1>0, <1>2, <2>1, OneLife DEF StartsProvider, LifeOf
  <2>4. QED
    BY <2>1, <2>2, <2>3 DEF Lives, LifeOf
<1>3. CASE at = "initialising" /\ (Initialises \/ InitFails \/ DropsBoot)
  <2>1. Upcoming \in Providers /\ Upcoming = Len(initialised) + 1
    BY <1>0, <1>3 DEF Inv, Core, WalkUp, Upcoming, Providers, Prefix
  <2>2. /\ Lives[Upcoming] = "waiting"
        /\ \A d \in 1 .. (Upcoming - 1) : Lives[d] = "up"
    BY <1>0, <1>3, <2>1 DEF Inv, Core, WalkUp, Lives, LifeOf, Providers, Prefix
  <2>3. CASE Initialises
    <3>1. Lives' = [Lives EXCEPT ![Upcoming] = "up"]
      BY <1>0, <2>1, <2>3, OneLife DEF Initialises, LifeOf
    <3>2. Stack!Start(Upcoming)
      BY <2>2, <3>1 DEF Stack!Start, Stack!Becomes
    <3>3. QED
      BY <2>1, <3>2 DEF Stack!StackNext, Providers
  <2>4. CASE InitFails \/ DropsBoot
    <3>1. Lives' = [Lives EXCEPT ![Upcoming] = "over"]
      BY <1>0, <1>3, <2>1, <2>4, OneLife DEF InitFails, DropsBoot, LifeOf
    <3>2. Stack!Refuse(Upcoming)
      BY <2>2, <3>1 DEF Stack!Refuse, Stack!Becomes
    <3>3. QED
      BY <2>1, <3>2 DEF Stack!StackNext, Providers
  <2>5. QED
    BY <1>3, <2>3, <2>4
<1>4. CASE StopsNext
  <2>1. Top \in Providers /\ Top = Len(initialised)
    BY <1>0, <1>4, TopIsLast DEF StopsNext
  <2>2. provider[Top] = "up"
    BY <1>4, <2>1 DEF Inv, Core, StopsNext, WalkDown, Walking
  <2>3. Lives' = [Lives EXCEPT ![Top] = "up"]
    BY <1>0, <1>4, <2>1, OneLife DEF StopsNext, LifeOf
  <2>4. QED
    BY <2>1, <2>2, <2>3 DEF Lives, LifeOf
<1>5. ASSUME NEW F, Stopped(F) PROVE Stack!StackNext
  <2>1. Len(initialised) > 0 /\ initialised # << >>
    BY <1>5 DEF Inv, Core, Stopped, WalkDown
  <2>2. Top \in Providers /\ Top = Len(initialised)
    BY <1>0, <2>1, TopIsLast
  <2>3. \A p \in Providers :
           IF p < Top THEN provider[p] = "up"
           ELSE IF p = Top THEN provider[p] = "stopping" ELSE provider[p] \in Still
    BY <1>5, <2>2 DEF Inv, Core, Stopped, WalkDown
  <2>4. /\ Lives[Top] = "up"
        /\ \A d \in (Top + 1) .. Count : Lives[d] # "up"
    BY <2>2, <2>3 DEF Lives, LifeOf, Still, Providers
  <2>5. Lives' = [Lives EXCEPT ![Top] = "over"]
    BY <1>0, <1>5, <2>2, OneLife DEF Stopped, LifeOf
  <2>6. Stack!Stop(Top)
    BY <2>4, <2>5 DEF Stack!Stop, Stack!Becomes
  <2>7. QED
    BY <2>2, <2>6 DEF Stack!StackNext, Providers
<1>6. \/ UNCHANGED provider \/ StartsProvider \/ StopsNext \/ (\E F : Stopped(F))
      \/ at = "initialising" /\ (Initialises \/ InitFails \/ DropsBoot)
  <2> USE DEF gateVars, shutdownVars, phaseVars
  <2>1. CASE \/ StartsBoot \/ BeginsShutdown \/ ReturnsReport \/ CancelsRoot \/ DropsShutdown
             \/ SeesCancelled \/ BecomesReady \/ BootFails \/ ShutdownReturns \/ ClosesGate
             \/ DrainWaits \/ DrainsClean \/ DrainTimesOut \/ DrainIsIncomplete
             \/ UNCHANGED vars \/ \E u \in Works : BeginsWork(u) \/ EndsWork(u)
    BY <2>1 DEF StartsBoot, BeginsShutdown, ReturnsReport, CancelsRoot, DropsShutdown,
                SeesCancelled, BecomesReady, BootFails, ShutdownReturns, ClosesGate, DrainWaits,
                DrainsClean, DrainTimesOut, DrainIsIncomplete, vars, BeginsWork, EndsWork
  <2>2. CASE Initialises \/ InitFails \/ DropsBoot
    BY <2>2 DEF Initialises, InitFails, DropsBoot
  <2>3. CASE StopFails \/ Stops
    BY <2>3 DEF StopFails, Stops
  <2>4. QED
    BY <2>1, <2>2, <2>3 DEF Next, KernelStep, InitLate, InitRefused, StopRefused, StopLate
<1>7. QED
  BY <1>1, <1>2, <1>3, <1>4, <1>5, <1>6

(* Providers start in the resolved order, stop in the reverse of the order *)
(* they started in, and each does either at most once.                     *)
THEOREM KernelIsAStack == Spec => IsAStack
<1>1. QED
  BY StackBegins, StackStep, Invariant, PTL DEF Spec, IsAStack, Stack!StackSpec

(* A shutdown that has returned is over: no step changes where the kernel  *)
(* is or what it reported.                                                 *)
LEMMA ReturnedStays ==
    Inv /\ at = "returned" /\ [Next]_vars => at' = "returned" /\ report' = report
<1> SUFFICES ASSUME Inv, at = "returned", [Next]_vars PROVE at' = "returned" /\ report' = report
  OBVIOUS
<1> USE DEF gateVars, shutdownVars, phaseVars
<1>1. done
  BY DEF Inv, Core, Order
<1>2. ~KernelStep /\ ~(\E F : Stopped(F)) /\ ~BeginsShutdown /\ ~StartsBoot
      /\ ~Initialises /\ ~InitFails /\ ~DropsBoot /\ ~DropsShutdown
  BY <1>1 DEF KernelStep, SeesCancelled, StartsProvider, InitLate, InitFails, BecomesReady,
              StopsNext, StopLate, StopFails, Stopped, BootFails, ShutdownReturns, ClosesGate,
              DrainWaits, DrainsClean, DrainTimesOut, DrainIsIncomplete, BeginsShutdown,
              StartsBoot, Initialises, DropsBoot, DropsShutdown
<1>3. \/ ReturnsReport \/ CancelsRoot \/ UNCHANGED vars
      \/ \E u \in Works : BeginsWork(u) \/ EndsWork(u)
  BY <1>2 DEF Next, InitRefused, Stops, StopRefused, StopFails
<1>4. QED
  BY <1>3 DEF ReturnsReport, CancelsRoot, vars, BeginsWork, EndsWork

(* Calling shutdown again stops nothing more and returns what the first    *)
(* call did: a returned report is the last word on a provider and a drain. *)
THEOREM ReturnedReportStands == Spec => ShutdownIsIdempotent
<1>1. ASSUME NEW p \in Providers
      PROVE  Spec => [](Reported(p) => [](at = "returned" => Reported(p)))
  <2>1. Inv /\ Reported(p) /\ [Next]_vars => Reported(p)'
    BY ReturnedStays DEF Reported
  <2>2. QED
    BY <2>1, Invariant, PTL DEF Spec
<1>2. Spec => [](ReportedIncomplete => [](at = "returned" => ReportedIncomplete))
  <2>1. Inv /\ ReportedIncomplete /\ [Next]_vars => ReportedIncomplete'
    BY ReturnedStays DEF ReportedIncomplete
  <2>2. QED
    BY <2>1, Invariant, PTL DEF Spec
<1>3. Spec => \A p \in Providers : [](Reported(p) => [](at = "returned" => Reported(p)))
  BY <1>1
<1>4. QED
  BY <1>2, <1>3 DEF ShutdownIsIdempotent
==============================================================================

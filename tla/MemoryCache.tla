----------------------------- MODULE MemoryCache -----------------------------
(***************************************************************************)
(* The in-process cache: a map under one lock.  Every call reads the clock *)
(* before it waits for the lock, so it may act on an instant that has gone *)
(* by while others acted on later ones.                                    *)
(***************************************************************************)
EXTENDS Integers, FiniteSets

CONSTANTS
    CacheKeys,   \* qualified keys
    Clients,     \* callers in progress at once
    Ttls,        \* times to live
    Capacity,    \* entries the map may hold
    NoEntry,     \* of a key with no entry
    LastTick     \* bound on the clock

ASSUME CacheAssumption ==
    /\ NoEntry \notin [by : Clients, expires : Nat]
    /\ Ttls \subseteq Nat \ {0} /\ LastTick \in Nat
    /\ Capacity \in Nat \ {0}      \* with_capacity: capacity.max(1)

VARIABLES
    cacheClock,  \* Instant::now()
    entry,       \* what the map holds: who wrote it and when it expires
    calling,     \* what each client asked, and the instant its call read
    holders      \* per key, the set_if_absent calls told "stored" and not
                 \* expired since the key was last set or deleted

cacheVars == <<cacheClock, entry, calling, holders>>

NotCalling == [asks |-> "nothing"]
ReadCalls(at) == [asks : {"get", "delete"}, key : CacheKeys, at : {at}]
WriteCalls(at) == [asks : {"set", "set_if_absent"}, key : CacheKeys, ttl : Ttls, at : {at}]

CacheInit ==
    /\ cacheClock = 0
    /\ entry = [k \in CacheKeys |-> NoEntry]
    /\ calling = [c \in Clients |-> NotCalling]
    /\ holders = [k \in CacheKeys |-> {}]

Current(k, at) == entry[k] # NoEntry /\ entry[k].expires > at

Held == {k \in CacheKeys : entry[k] # NoEntry}

\* The call reads the clock, and has still to take the lock.
Calls(c) ==
    /\ calling[c] = NotCalling
    /\ \E call \in ReadCalls(cacheClock) \cup WriteCalls(cacheClock) :
          calling' = [calling EXCEPT ![c] = call]
    /\ UNCHANGED <<cacheClock, entry, holders>>

Concluded(c) == calling' = [calling EXCEPT ![c] = NotCalling]

\* An expired entry is removed on touch.
Gets(c) ==
    LET k == calling[c].key IN
    /\ calling[c].asks = "get"
    /\ entry' = [entry EXCEPT ![k] = IF Current(k, calling[c].at) THEN @ ELSE NoEntry]
    /\ Concluded(c)
    /\ UNCHANGED <<cacheClock, holders>>

Deletes(c) ==
    LET k == calling[c].key IN
    /\ calling[c].asks = "delete"
    /\ entry' = [entry EXCEPT ![k] = NoEntry]
    /\ holders' = [holders EXCEPT ![k] = {}]
    /\ Concluded(c)
    /\ UNCHANGED cacheClock

Writes(c) == calling[c].asks \in {"set", "set_if_absent"}

AlreadyPresent(c) ==
    /\ calling[c].asks = "set_if_absent"
    /\ Current(calling[c].key, calling[c].at)
    /\ Concluded(c)
    /\ UNCHANGED <<cacheClock, entry, holders>>

\* A slip: room is made at the expense of entries that have not expired.
EvictedAll(at) == [k \in CacheKeys |-> NoEntry]

Purged(at) == [k \in CacheKeys |-> IF Current(k, at) THEN entry[k] ELSE NoEntry]

\* A write that needs room purges first, and only then.
Room(c) ==
    IF ~Current(calling[c].key, calling[c].at) /\ Cardinality(Held) >= Capacity
    THEN Purged(calling[c].at)
    ELSE entry

Full(c) ==
    LET left == Room(c) IN
    /\ left[calling[c].key] = NoEntry
    /\ Cardinality({k \in CacheKeys : left[k] # NoEntry}) >= Capacity

\* Capacity: refused, with what was expired gone.
RefusedByCapacity(c) ==
    /\ Writes(c)
    /\ Full(c)
    /\ entry' = Room(c)
    /\ Concluded(c)
    /\ UNCHANGED <<cacheClock, holders>>

Stores(c) ==
    LET call == calling[c] IN
    /\ Writes(c)
    /\ call.asks = "set_if_absent" => ~Current(call.key, call.at)
    /\ ~Full(c)
    /\ entry' = [Room(c) EXCEPT ![call.key] = [by |-> c, expires |-> call.at + call.ttl]]
    /\ holders' = [holders EXCEPT ![call.key] =
                      IF call.asks = "set" THEN {}
                      ELSE {h \in @ : h.expires > cacheClock} \cup {entry'[call.key]}]
    /\ Concluded(c)
    /\ UNCHANGED cacheClock

CacheTicks ==
    /\ cacheClock < LastTick
    /\ cacheClock' = cacheClock + 1
    /\ UNCHANGED <<entry, calling, holders>>

CacheNext ==
    \/ \E c \in Clients :
          \/ Calls(c) \/ Gets(c) \/ Deletes(c) \/ AlreadyPresent(c) \/ RefusedByCapacity(c) \/ Stores(c)
    \/ CacheTicks

CacheSpec == CacheInit /\ [][CacheNext]_cacheVars

-----------------------------------------------------------------------------
\* What a lock built on set_if_absent relies on, however late the calls act on
\* the instant they read: of the calls told "stored" at most one is in force,
\* its entry stays until it expires, is set or is deleted, and the map never
\* outgrows its capacity.
CacheElectsOne ==
    /\ Cardinality(Held) <= Capacity
    /\ \A k \in CacheKeys : \A h \in holders[k] :
          h.expires > cacheClock =>
             /\ entry[k] = h
             /\ \A g \in holders[k] : g.expires > cacheClock => g = h
=============================================================================

---------------------------- MODULE MemoryCache ----------------------------
(***************************************************************************)
(* The shared cache of pkg/cache/memory_cache.go: entries with an expiry    *)
(* under an RWMutex, hit, miss and eviction counters, a cleanup goroutine,  *)
(* and callers that look up, compute and store (GetOrSet, and the Get ...   *)
(* SetWithTTL of every resource's Read).                                    *)
(*                                                                         *)
(* Get holds only the read lock, yet increments a counter: a load and a     *)
(* store, between which other readers run.  Every other critical section    *)
(* is one action.  A value is represented by the time at which its compute  *)
(* function read the cluster, so a value's age is now minus the value.      *)
(***************************************************************************)
EXTENDS Integers, FiniteSets

CONSTANTS Keys,        \* cache keys
          Callers,     \* goroutines that use the cache
          KeyTTL,      \* KeyTTL[k]: the ttl with which k is stored
          FetchLimit,  \* the longest a compute function runs: its client's timeout
          MaxTime,     \* bound of the clock
          MaxGets,     \* bound of the number of lookups between two resets
          NoEntry,     \* the entry of a key that is not in the map
          NoKey        \* the key of an idle caller

ASSUME CacheAssumption ==
  /\ KeyTTL \in [Keys -> Nat \ {0}]
  /\ FetchLimit \in Nat /\ MaxTime \in Nat /\ MaxGets \in Nat
  /\ NoKey \notin Keys
  /\ NoEntry \notin [value : Nat, expiration : Nat]

VARIABLES
  now,        \* time.Now()
  data,       \* c.data
  hits, misses, evictions,   \* c.stats
  pc,         \* where each caller is: "hitting" and "missing" hold the read lock
  key,        \* the key of each caller's call
  loaded,     \* the counter value Get's increment has loaded
  started,    \* when the caller's compute function began
  value,      \* what it returned
  cleaner,    \* the cleanup goroutine
  served, missed,  \* history: lookups that hit, that missed, since ResetStatistics
  inserted    \* history: entries added since then, or present at it

counters == <<hits, misses, evictions>>
callers  == <<pc, key, loaded, started, value>>
history  == <<served, missed, inserted>>
vars == <<now, data, counters, callers, cleaner, history>>

Entry == [value : 0 .. MaxTime, expiration : Nat]

PCs == {"idle", "hitting", "missing", "computing", "computed"}

Present == {k \in Keys : data[k] # NoEntry}

(* IsExpired: strict, an entry is valid at its Expiration.                   *)
IsExpired(k) == now > data[k].expiration

ExpiredKeys == {k \in Present : IsExpired(k)}

Init ==
  /\ now = 0
  /\ data = [k \in Keys |-> NoEntry]
  /\ hits = 0 /\ misses = 0 /\ evictions = 0
  /\ pc = [c \in Callers |-> "idle"]
  /\ key = [c \in Callers |-> NoKey]
  /\ loaded = [c \in Callers |-> 0]
  /\ started = [c \in Callers |-> 0]
  /\ value = [c \in Callers |-> 0]
  /\ cleaner = "running"
  /\ served = 0 /\ missed = 0 /\ inserted = 0

-----------------------------------------------------------------------------
Readers == {c \in Callers : pc[c] \in {"hitting", "missing"}}

(* The write lock is free when nobody holds the read lock.                   *)
CanLock == Readers = {}

Become(c, label) == pc' = [pc EXCEPT ![c] = label]

Return(c) ==
  /\ Become(c, "idle")
  /\ key' = [key EXCEPT ![c] = NoKey]
  /\ loaded' = [loaded EXCEPT ![c] = 0]
  /\ started' = [started EXCEPT ![c] = 0]
  /\ value' = [value EXCEPT ![c] = 0]

(* Get takes the read lock, decides, and loads the counter it will write.    *)
Get(c, k) ==
  /\ pc[c] = "idle"
  /\ served + missed + Cardinality(Readers) < MaxGets
  /\ \/ /\ k \in Present \ ExpiredKeys
        /\ Become(c, "hitting")
        /\ loaded' = [loaded EXCEPT ![c] = hits]
     \/ /\ k \notin Present \ ExpiredKeys
        /\ Become(c, "missing")
        /\ loaded' = [loaded EXCEPT ![c] = misses]
  /\ key' = [key EXCEPT ![c] = k]
  /\ UNCHANGED <<now, data, counters, started, value, cleaner, history>>

(* The store of stats.hits++, and the deferred RUnlock: the value is served. *)
GetHit(c) ==
  /\ pc[c] = "hitting"
  /\ hits' = loaded[c] + 1
  /\ served' = served + 1
  /\ Return(c)
  /\ UNCHANGED <<now, data, misses, evictions, cleaner, missed, inserted>>

(* The store of stats.misses++.  The caller goes on to compute the value.    *)
GetMiss(c) ==
  /\ pc[c] = "missing"
  /\ misses' = loaded[c] + 1
  /\ missed' = missed + 1
  /\ Become(c, "computing")
  /\ started' = [started EXCEPT ![c] = now]
  /\ loaded' = [loaded EXCEPT ![c] = 0]
  /\ UNCHANGED <<now, data, hits, evictions, key, value, cleaner, served, inserted>>

(* compute() reads the cluster; no lock is held.                             *)
Compute(c) ==
  /\ pc[c] = "computing"
  /\ value' = [value EXCEPT ![c] = now]
  /\ Become(c, "computed")
  /\ UNCHANGED <<now, data, counters, key, loaded, started, cleaner, history>>

(* compute() fails: the error goes to the caller, nothing is stored.         *)
ComputeFails(c) ==
  /\ pc[c] \in {"computing", "computed"}
  /\ Return(c)
  /\ UNCHANGED <<now, data, counters, cleaner, history>>

(* Each Fault... is the operator after it with one plausible bug; no          *)
(* specification uses them.  They show that the properties can fail.         *)
FaultOnlyExpiryRefreshed(c) ==
  /\ pc[c] = "computed" /\ CanLock
  /\ data' = [data EXCEPT ![key[c]] =
                [value |-> IF key[c] \in Present THEN data[key[c]].value ELSE value[c],
                 expiration |-> now + KeyTTL[key[c]]]]
  /\ inserted' = IF key[c] \in Present THEN inserted ELSE inserted + 1
  /\ Return(c)
  /\ UNCHANGED <<now, counters, cleaner, served, missed>>

FaultKeepsExpiry(c) ==
  /\ pc[c] = "computed" /\ CanLock
  /\ data' = [data EXCEPT ![key[c]] =
                [value |-> value[c],
                 expiration |-> IF key[c] \in Present THEN data[key[c]].expiration
                                ELSE now + KeyTTL[key[c]]]]
  /\ inserted' = IF key[c] \in Present THEN inserted ELSE inserted + 1
  /\ Return(c)
  /\ UNCHANGED <<now, counters, cleaner, served, missed>>

SetWithTTL(c) ==
  /\ pc[c] = "computed" /\ CanLock
  /\ data' = [data EXCEPT ![key[c]] = [value |-> value[c],
                                       expiration |-> now + KeyTTL[key[c]]]]
  /\ inserted' = IF key[c] \in Present THEN inserted ELSE inserted + 1
  /\ Return(c)
  /\ UNCHANGED <<now, counters, cleaner, served, missed>>

(* What removing the keys of S does to the map and to the counter.           *)
Remove(S) ==
  /\ data' = [k \in Keys |-> IF k \in S THEN NoEntry ELSE data[k]]
  /\ evictions' = evictions + Cardinality(S)

FaultCountsAbsentKey(c, k) ==
  /\ pc[c] = "idle" /\ CanLock
  /\ data' = [data EXCEPT ![k] = NoEntry]
  /\ evictions' = evictions + 1
  /\ UNCHANGED <<now, hits, misses, callers, cleaner, history>>

Delete(c, k) ==
  /\ pc[c] = "idle" /\ CanLock
  /\ Remove({k} \cap Present)
  /\ UNCHANGED <<now, hits, misses, callers, cleaner, history>>

Clear(c) ==
  /\ pc[c] = "idle" /\ CanLock
  /\ Remove(Present)
  /\ UNCHANGED <<now, hits, misses, callers, cleaner, history>>

FaultResetWithoutLock(c) ==
  /\ pc[c] = "idle"
  /\ hits' = 0 /\ misses' = 0 /\ evictions' = 0
  /\ served' = 0 /\ missed' = 0 /\ inserted' = Cardinality(Present)
  /\ UNCHANGED <<now, data, callers, cleaner>>

ResetStatistics(c) ==
  /\ pc[c] = "idle" /\ CanLock
  /\ hits' = 0 /\ misses' = 0 /\ evictions' = 0
  /\ served' = 0 /\ missed' = 0 /\ inserted' = Cardinality(Present)
  /\ UNCHANGED <<now, data, callers, cleaner>>

-----------------------------------------------------------------------------
FaultNothingEvicted ==
  /\ cleaner # "done" /\ CanLock
  /\ Remove(ExpiredKeys \ Present)
  /\ UNCHANGED <<now, hits, misses, callers, cleaner, history>>

(* The ticker case of cleanupExpired's loop.  It runs every minute; here it  *)
(* may run at any time, also once after Close, as select takes either case.  *)
CleanupExpired ==
  /\ cleaner # "done" /\ CanLock
  /\ Remove(ExpiredKeys)
  /\ UNCHANGED <<now, hits, misses, callers, cleaner, history>>

(* Close closes stopCleanup; a second close would panic.                     *)
Close ==
  /\ cleaner = "running"
  /\ cleaner' = "stopping"
  /\ UNCHANGED <<now, data, counters, callers, history>>

CleanupReturns ==
  /\ cleaner = "stopping"
  /\ cleaner' = "done"
  /\ UNCHANGED <<now, data, counters, callers, history>>

(* A compute function ends within FetchLimit: the clients it calls have a    *)
(* request timeout (pkg/clients/kubernetes.go, coordination_engine.go).      *)
Tick ==
  /\ now < MaxTime
  /\ \A c \in Callers :
       pc[c] \in {"computing", "computed"} => now < started[c] + FetchLimit
  /\ now' = now + 1
  /\ UNCHANGED <<data, counters, callers, cleaner, history>>

Caller(c) ==
  \/ \E k \in Keys : Get(c, k) \/ Delete(c, k)
  \/ GetHit(c) \/ GetMiss(c) \/ Compute(c) \/ ComputeFails(c) \/ SetWithTTL(c)
  \/ Clear(c) \/ ResetStatistics(c)

Next == Tick \/ CleanupExpired \/ Close \/ CleanupReturns \/ \E c \in Callers : Caller(c)

Spec == Init /\ [][Next]_vars

(* The ticker fires until Close (the server never calls it).  A lookup goes   *)
(* on and releases its read lock; an RWMutex lets no new reader in while a   *)
(* writer waits, so the cleanup gets the lock: strong fairness.              *)
FairSpec ==
  /\ Spec
  /\ SF_vars(CleanupExpired)
  /\ \A c \in Callers : WF_vars(GetHit(c)) /\ WF_vars(GetMiss(c))

-----------------------------------------------------------------------------
TypeOK ==
  /\ now \in 0 .. MaxTime
  /\ \A k \in Keys : data[k] = NoEntry \/ data[k] \in Entry
  /\ hits \in Nat /\ misses \in Nat /\ evictions \in Nat
  /\ pc \in [Callers -> PCs]
  /\ key \in [Callers -> Keys \cup {NoKey}]
  /\ loaded \in [Callers -> Nat]
  /\ started \in [Callers -> 0 .. MaxTime]
  /\ value \in [Callers -> 0 .. MaxTime]
  /\ cleaner \in {"running", "stopping", "done"}
  /\ served \in Nat /\ missed \in Nat /\ inserted \in Nat

(* A caller is never served a value that was read from the cluster longer    *)
(* ago than its key's ttl plus the time a compute function may take: the ttl  *)
(* starts at the store, after the compute.                                   *)
ServedValueFresh ==
  [][\A c \in Callers, k \in Keys :
       Get(c, k) /\ pc'[c] = "hitting"
         => now - data[k].value <= KeyTTL[k] + FetchLimit]_vars

(* The counters never say more lookups than there were: a Get whose          *)
(* increment is under way cannot undo a ResetStatistics, since one holds the  *)
(* read lock and the other needs the write lock.                             *)
CountersNeverInflate == hits <= served /\ misses <= missed

(* Every entry that came is still there or was counted as an eviction, once. *)
EvictionsAccount == inserted = Cardinality(Present) + evictions

(* An expired entry does not occupy the map for ever, even if nobody looks it *)
(* up again, as long as the cache is not closed.                             *)
ExpiredEntriesRemoved ==
  \A k \in Keys : (k \in ExpiredKeys) ~> (k \notin ExpiredKeys \/ cleaner # "running")

-----------------------------------------------------------------------------
(* What a lookup finds: an entry counts as long as it is valid, whether or not *)
(* the cleanup has come to the others.                                       *)
Live == [k \in Keys |-> IF k \in Present \ ExpiredKeys THEN data[k] ELSE NoEntry]

Store == INSTANCE CacheStore
           WITH TTL <- KeyTTL, Lag <- FetchLimit, Nothing <- NoEntry, live <- Live

(* For its callers the cache is the abstract store: what they are served      *)
(* disappears at its expiration, however late the cleanup, and a store        *)
(* replaces value and expiration together, whatever it finds and whichever    *)
(* other caller has stored in between.                                       *)
StoreSpec == Store!Spec
=============================================================================

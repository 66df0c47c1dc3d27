------------------------- MODULE MemoryCacheProofs -------------------------
(***************************************************************************)
(* Proofs about MemoryCache: the counters, the accounting of evictions and  *)
(* the age of what is served, for every number of keys and callers, every   *)
(* ttl and every limit of the compute functions.                            *)
(***************************************************************************)
EXTENDS MemoryCache, FiniteSetTheorems, TLAPS

(* The map, as a function; TypeOK says what its entries are.                 *)
MapOK == data \in [Keys -> Entry \cup {NoEntry}] /\ IsFiniteSet(Present)

(* A caller inside a call knows its key.                                     *)
KeyKnown == \A c \in Callers : pc[c] # "idle" => key[c] \in Keys

(* The value Get has loaded is not ahead of the lookups done when it stores. *)
LoadedInBounds ==
  \A c \in Callers : /\ pc[c] = "hitting" => loaded[c] <= served
                     /\ pc[c] = "missing" => loaded[c] <= missed

(* A compute function that runs began at most FetchLimit ago, and its value   *)
(* is not older than its beginning.                                          *)
ComputeInTime ==
  \A c \in Callers :
    /\ pc[c] \in {"computing", "computed"} =>
         started[c] <= now /\ now <= started[c] + FetchLimit
    /\ pc[c] = "computed" => started[c] <= value[c] /\ value[c] <= now

(* An entry ends at most its ttl and the time of its computation after its    *)
(* value was read.                                                           *)
EntriesInTime ==
  \A k \in Present : data[k].expiration <= data[k].value + KeyTTL[k] + FetchLimit

(* The inductive invariant: CountersNeverInflate needs LoadedInBounds,       *)
(* ServedValueFresh needs EntriesInTime and that needs ComputeInTime.        *)
IInv ==
  /\ TypeOK /\ MapOK /\ KeyKnown
  /\ CountersNeverInflate /\ LoadedInBounds
  /\ EvictionsAccount
  /\ ComputeInTime /\ EntriesInTime

(* The steps that write the map.                                             *)
Removal(S) ==
  /\ S \subseteq Present /\ Remove(S)
  /\ UNCHANGED <<now, hits, misses, callers, cleaner, history>>

-----------------------------------------------------------------------------
(* Cleanup, Delete and Clear remove entries that are there.                  *)
LEMMA RemovalSteps ==
  /\ CleanupExpired => \E S : Removal(S)
  /\ \A c \in Callers : Clear(c) => \E S : Removal(S)
  /\ \A c \in Callers, k \in Keys : Delete(c, k) => \E S : Removal(S)
<1>1. CleanupExpired => Removal(ExpiredKeys)
  BY DEF CleanupExpired, Removal, ExpiredKeys
<1>2. ASSUME NEW c \in Callers PROVE Clear(c) => Removal(Present)
  BY DEF Clear, Removal
<1>3. ASSUME NEW c \in Callers, NEW k \in Keys PROVE Delete(c, k) => Removal({k} \cap Present)
  <2> {k} \cap Present \subseteq Present
    OBVIOUS
  <2> QED BY DEF Delete, Removal
<1> QED
  BY <1>1, <1>2, <1>3

(* What is left after a removal, and how many.                               *)
LEMMA RemovalLeaves ==
  ASSUME IInv, NEW S, Removal(S)
  PROVE  /\ Present' = Present \ S
         /\ \A k \in Present' : data'[k] = data[k]
         /\ MapOK'
         /\ evictions' \in Nat
         /\ EvictionsAccount'
<1>1. /\ S \subseteq Present /\ Present \subseteq Keys
      /\ data' = [k \in Keys |-> IF k \in S THEN NoEntry ELSE data[k]]
      /\ evictions' = evictions + Cardinality(S)
  BY DEF Removal, Remove, Present
<1>2. Present' = Present \ S
  BY <1>1 DEF Present
<1>3. \A k \in Present' : data'[k] = data[k]
  BY <1>1, <1>2
<1>4. IsFiniteSet(Present) /\ IsFiniteSet(S) /\ IsFiniteSet(Present \ S)
  BY <1>1, FS_Subset DEF IInv, MapOK
<1>5. Cardinality(Present) = Cardinality(Present \ S) + Cardinality(S)
  <2>1. Present \cap S = S
    BY <1>1
  <2>2. Cardinality(Present \ S) = Cardinality(Present) - Cardinality(S)
    BY <2>1, <1>4, FS_Difference, Zenon
  <2>3. Cardinality(Present) \in Nat /\ Cardinality(S) \in Nat
    BY <1>4, FS_CardinalityType
  <2> QED
    BY <2>2, <2>3
<1>6. MapOK'
  BY <1>1, <1>2, <1>4 DEF IInv, MapOK
<1>7. evictions' \in Nat
  BY <1>1, <1>4, FS_CardinalityType DEF IInv, TypeOK
<1>8. inserted' = inserted
  BY DEF Removal, history
<1>9. EvictionsAccount'
  BY <1>1, <1>2, <1>4, <1>5, <1>8, FS_CardinalityType DEF IInv, TypeOK, EvictionsAccount
<1> QED
  BY <1>2, <1>3, <1>6, <1>7, <1>9

(* A removal keeps the invariant.                                            *)
LEMMA RemovalKeepsIInv ==
  ASSUME IInv, NEW S, Removal(S)
  PROVE  IInv'
<1>1. /\ Present' = Present \ S
      /\ \A k \in Present' : data'[k] = data[k]
      /\ MapOK' /\ evictions' \in Nat /\ EvictionsAccount'
  BY RemovalLeaves
<1>2. UNCHANGED <<now, hits, misses, callers, cleaner, history>>
  BY DEF Removal
<1>3. \A k \in Keys : data'[k] = NoEntry \/ data'[k] \in Entry
  BY <1>1 DEF IInv, TypeOK, Present
<1>4. TypeOK'
  BY <1>1, <1>2, <1>3 DEF IInv, TypeOK, callers, history
<1>5. EntriesInTime'
  BY <1>1 DEF IInv, EntriesInTime
<1>6. KeyKnown' /\ CountersNeverInflate' /\ LoadedInBounds' /\ ComputeInTime'
  BY <1>2 DEF IInv, KeyKnown, CountersNeverInflate, LoadedInBounds, ComputeInTime, callers, history
<1> QED
  BY <1>1, <1>4, <1>5, <1>6 DEF IInv

(* The map holds nothing before the first call.                              *)
LEMMA InitIInv == Init => IInv
<1> SUFFICES ASSUME Init PROVE IInv
  OBVIOUS
<1>1. Present = {}
  BY DEF Init, Present
<1>2. IsFiniteSet(Present) /\ Cardinality(Present) = 0
  BY <1>1, FS_EmptySet
<1>3. TypeOK
  BY CacheAssumption DEF Init, TypeOK, PCs
<1>4. MapOK
  BY <1>2 DEF Init, MapOK
<1>5. KeyKnown /\ CountersNeverInflate /\ LoadedInBounds /\ ComputeInTime
  BY DEF Init, KeyKnown, CountersNeverInflate, LoadedInBounds, ComputeInTime
<1>6. EvictionsAccount
  BY <1>2 DEF Init, EvictionsAccount
<1>7. EntriesInTime
  BY <1>1 DEF EntriesInTime
<1> QED
  BY <1>3, <1>4, <1>5, <1>6, <1>7 DEF IInv

(* Steps of one caller that leave the map, the clock and the evictions alone. *)
MapUntouched == UNCHANGED <<now, data, evictions, cleaner, inserted>>

(* They keep what the invariant says of the map.                             *)
LEMMA MapUntouchedKeeps ==
  ASSUME IInv, MapUntouched
  PROVE  MapOK' /\ EvictionsAccount' /\ EntriesInTime'
<1>1. Present' = Present
  BY DEF MapUntouched, Present
<1> QED
  BY <1>1 DEF IInv, MapUntouched, MapOK, EvictionsAccount, EntriesInTime

(* The first half of Get: it holds the read lock and has loaded a counter.   *)
LEMMA GetKeepsIInv ==
  ASSUME IInv, NEW c \in Callers, NEW k \in Keys, Get(c, k)
  PROVE  IInv'
<1>1. MapUntouched /\ UNCHANGED <<hits, misses, started, value, served, missed>>
  BY DEF Get, MapUntouched, counters, history
<1>2. key' = [key EXCEPT ![c] = k]
  BY DEF Get
<1>3. \/ pc' = [pc EXCEPT ![c] = "hitting"] /\ loaded' = [loaded EXCEPT ![c] = hits]
      \/ pc' = [pc EXCEPT ![c] = "missing"] /\ loaded' = [loaded EXCEPT ![c] = misses]
  BY DEF Get, Become
<1>4. TypeOK'
  BY <1>1, <1>2, <1>3 DEF IInv, TypeOK, PCs, MapUntouched
<1>5. KeyKnown'
  BY <1>2, <1>3 DEF IInv, TypeOK, KeyKnown
<1>6. CountersNeverInflate' /\ LoadedInBounds'
  BY <1>1, <1>3 DEF IInv, TypeOK, CountersNeverInflate, LoadedInBounds
<1>7. ComputeInTime'
  BY <1>1, <1>3 DEF IInv, TypeOK, ComputeInTime, MapUntouched
<1> QED
  BY <1>1, <1>4, <1>5, <1>6, <1>7, MapUntouchedKeeps DEF IInv

(* The end of a call forgets its locals and no other caller's.                *)
LEMMA ReturnKeeps ==
  ASSUME IInv, NEW c \in Callers, Return(c)
  PROVE  /\ pc' \in [Callers -> PCs]
         /\ key' \in [Callers -> Keys \cup {NoKey}]
         /\ loaded' \in [Callers -> Nat]
         /\ started' \in [Callers -> 0 .. MaxTime]
         /\ value' \in [Callers -> 0 .. MaxTime]
         /\ pc'[c] = "idle"
         /\ \A d \in Callers \ {c} :
              /\ pc'[d] = pc[d] /\ key'[d] = key[d] /\ loaded'[d] = loaded[d]
              /\ started'[d] = started[d] /\ value'[d] = value[d]
<1>1. 0 \in 0 .. MaxTime
  BY CacheAssumption
<1> QED
  BY <1>1 DEF IInv, TypeOK, PCs, Return, Become

(* The store of hits, which ends the call.                                   *)
LEMMA GetHitKeepsIInv ==
  ASSUME IInv, NEW c \in Callers, GetHit(c)
  PROVE  IInv'
<1>1. MapUntouched /\ UNCHANGED <<misses, missed>>
  BY DEF GetHit, MapUntouched
<1>2. /\ hits' = loaded[c] + 1 /\ served' = served + 1
      /\ pc[c] = "hitting" /\ loaded[c] \in Nat /\ loaded[c] <= served
      /\ served \in Nat
  BY DEF GetHit, IInv, TypeOK, LoadedInBounds
<1> Return(c)
  BY DEF GetHit
<1>4. TypeOK'
  BY <1>1, <1>2, ReturnKeeps DEF IInv, TypeOK, MapUntouched
<1>5. KeyKnown'
  BY ReturnKeeps DEF IInv, KeyKnown
<1>6. CountersNeverInflate'
  BY <1>1, <1>2 DEF IInv, CountersNeverInflate
<1>7. LoadedInBounds'
  <2>1. \A d \in Callers : loaded[d] \in Nat
    BY DEF IInv, TypeOK
  <2> QED
    BY <1>1, <1>2, <2>1, ReturnKeeps DEF IInv, LoadedInBounds
<1>8. ComputeInTime'
  BY <1>1, ReturnKeeps DEF IInv, ComputeInTime, MapUntouched
<1> QED
  BY <1>1, <1>4, <1>5, <1>6, <1>7, <1>8, MapUntouchedKeeps DEF IInv

(* The store of misses, after which the caller computes.                     *)
LEMMA GetMissKeepsIInv ==
  ASSUME IInv, NEW c \in Callers, GetMiss(c)
  PROVE  IInv'
<1>1. MapUntouched /\ UNCHANGED <<hits, served, key, value>>
  BY DEF GetMiss, MapUntouched
<1>2. /\ misses' = loaded[c] + 1 /\ missed' = missed + 1
      /\ pc[c] = "missing" /\ loaded[c] \in Nat /\ loaded[c] <= missed
      /\ missed \in Nat /\ now \in 0 .. MaxTime
  BY DEF GetMiss, IInv, TypeOK, LoadedInBounds
<1>3. /\ pc' = [pc EXCEPT ![c] = "computing"]
      /\ started' = [started EXCEPT ![c] = now]
      /\ loaded' = [loaded EXCEPT ![c] = 0]
  BY DEF GetMiss, Become
<1>4. TypeOK'
  BY <1>1, <1>2, <1>3 DEF IInv, TypeOK, PCs, MapUntouched
<1>5. KeyKnown'
  BY <1>1, <1>2, <1>3 DEF IInv, TypeOK, KeyKnown
<1>6. CountersNeverInflate'
  BY <1>1, <1>2 DEF IInv, CountersNeverInflate
<1>7. LoadedInBounds'
  BY <1>1, <1>2, <1>3 DEF IInv, TypeOK, LoadedInBounds
<1>8. ComputeInTime'
  BY <1>1, <1>2, <1>3, CacheAssumption DEF IInv, TypeOK, ComputeInTime, MapUntouched
<1> QED
  BY <1>1, <1>4, <1>5, <1>6, <1>7, <1>8, MapUntouchedKeeps DEF IInv

(* The compute function reads the cluster.                                   *)
LEMMA ComputeKeepsIInv ==
  ASSUME IInv, NEW c \in Callers, Compute(c)
  PROVE  IInv'
<1>1. MapUntouched /\ UNCHANGED <<hits, misses, served, missed, key, loaded, started>>
  BY DEF Compute, MapUntouched, counters, history
<1>2. /\ pc[c] = "computing"
      /\ pc' = [pc EXCEPT ![c] = "computed"]
      /\ value' = [value EXCEPT ![c] = now]
  BY DEF Compute, Become
<1>3. TypeOK'
  BY <1>1, <1>2 DEF IInv, TypeOK, PCs, MapUntouched
<1>4. KeyKnown' /\ CountersNeverInflate' /\ LoadedInBounds'
  BY <1>1, <1>2 DEF IInv, TypeOK, KeyKnown, CountersNeverInflate, LoadedInBounds
<1>5. ComputeInTime'
  BY <1>1, <1>2 DEF IInv, TypeOK, ComputeInTime, MapUntouched
<1> QED
  BY <1>1, <1>3, <1>4, <1>5, MapUntouchedKeeps DEF IInv

(* It fails and the call ends.                                               *)
LEMMA ComputeFailsKeepsIInv ==
  ASSUME IInv, NEW c \in Callers, ComputeFails(c)
  PROVE  IInv'
<1>1. MapUntouched /\ UNCHANGED <<hits, misses, served, missed>>
  BY DEF ComputeFails, MapUntouched, counters, history
<1> Return(c)
  BY DEF ComputeFails
<1>2. TypeOK'
  BY <1>1, ReturnKeeps DEF IInv, TypeOK, MapUntouched
<1>3. KeyKnown' /\ CountersNeverInflate' /\ LoadedInBounds'
  BY <1>1, ReturnKeeps DEF IInv, KeyKnown, CountersNeverInflate, LoadedInBounds
<1>4. ComputeInTime'
  BY <1>1, ReturnKeeps DEF IInv, ComputeInTime, MapUntouched
<1> QED
  BY <1>1, <1>2, <1>3, <1>4, MapUntouchedKeeps DEF IInv

(* The one step that adds an entry: the ttl counts from now, the value is    *)
(* from a computation that was in time.                                      *)
LEMMA SetKeepsIInv ==
  ASSUME IInv, NEW c \in Callers, SetWithTTL(c)
  PROVE  IInv'
<1> DEFINE k == key[c]
           e == [value |-> value[c], expiration |-> now + KeyTTL[k]]
<1>1. /\ pc[c] = "computed" /\ k \in Keys /\ KeyTTL[k] \in Nat
      /\ value[c] \in 0 .. MaxTime /\ now \in 0 .. MaxTime
      /\ now <= value[c] + FetchLimit
      /\ FetchLimit \in Nat /\ MaxTime \in Nat
  <2>1. pc[c] = "computed"
    BY DEF SetWithTTL
  <2>2. k \in Keys
    BY <2>1 DEF IInv, KeyKnown
  <2>3. value[c] \in 0 .. MaxTime /\ now \in 0 .. MaxTime /\ started[c] \in 0 .. MaxTime
    BY DEF IInv, TypeOK
  <2>4. now <= started[c] + FetchLimit /\ started[c] <= value[c]
    BY <2>1 DEF IInv, ComputeInTime
  <2> QED
    BY <2>1, <2>2, <2>3, <2>4, CacheAssumption
<1>2. /\ data' = [data EXCEPT ![k] = e]
      /\ inserted' = IF k \in Present THEN inserted ELSE inserted + 1
      /\ UNCHANGED <<now, hits, misses, evictions, cleaner, served, missed>>
  BY DEF SetWithTTL, counters
<1> Return(c)
  BY DEF SetWithTTL
<1>3. e \in Entry /\ e # NoEntry
  <2>1. e.expiration \in Nat
    BY <1>1
  <2> QED
    BY <1>1, <2>1, CacheAssumption DEF Entry
<1>4. /\ Present' = Present \cup {k}
      /\ data'[k] = e /\ \A j \in Keys \ {k} : data'[j] = data[j]
      /\ data' \in [Keys -> Entry \cup {NoEntry}]
  BY <1>1, <1>2, <1>3 DEF IInv, MapOK, Present
<1>5. TypeOK'
  <2>1. inserted' \in Nat
    BY <1>2 DEF IInv, TypeOK
  <2>2. \A j \in Keys : data'[j] = NoEntry \/ data'[j] \in Entry
    BY <1>4
  <2> QED
    BY <1>2, <2>1, <2>2, ReturnKeeps DEF IInv, TypeOK
<1>6. MapOK' /\ EvictionsAccount'
  <2>1. IsFiniteSet(Present) /\ Cardinality(Present) \in Nat
    BY FS_CardinalityType DEF IInv, MapOK
  <2>2. /\ IsFiniteSet(Present')
        /\ Cardinality(Present') = IF k \in Present THEN Cardinality(Present)
                                   ELSE Cardinality(Present) + 1
    BY <2>1, <1>4, FS_AddElement, Zenon
  <2>3. inserted = Cardinality(Present) + evictions /\ evictions \in Nat
    BY DEF IInv, EvictionsAccount, TypeOK
  <2> QED
    BY <1>2, <1>4, <2>1, <2>2, <2>3 DEF MapOK, EvictionsAccount
<1>7. KeyKnown' /\ CountersNeverInflate' /\ LoadedInBounds'
  BY <1>2, ReturnKeeps DEF IInv, KeyKnown, CountersNeverInflate, LoadedInBounds
<1>8. ComputeInTime'
  BY <1>2, ReturnKeeps DEF IInv, ComputeInTime
<1>9. EntriesInTime'
  <2>1. e.expiration <= e.value + KeyTTL[k] + FetchLimit
    BY <1>1
  <2>2. ASSUME NEW j \in Present'
        PROVE  data'[j].expiration <= data'[j].value + KeyTTL[j] + FetchLimit
    <3>1. CASE j = k
      BY <3>1, <2>1, <1>4
    <3>2. CASE j # k
      BY <3>2, <1>4 DEF IInv, EntriesInTime, Present
    <3> QED
      BY <3>1, <3>2
  <2> QED
    BY <2>2 DEF EntriesInTime
<1> QED
  BY <1>5, <1>6, <1>7, <1>8, <1>9 DEF IInv

(* Reset takes the write lock: no reader is between its load and its store.  *)
LEMMA ResetKeepsIInv ==
  ASSUME IInv, NEW c \in Callers, ResetStatistics(c)
  PROVE  IInv'
<1>1. /\ UNCHANGED <<now, data, callers, cleaner>>
      /\ hits' = 0 /\ misses' = 0 /\ evictions' = 0
      /\ served' = 0 /\ missed' = 0 /\ inserted' = Cardinality(Present)
      /\ Readers = {}
  BY DEF ResetStatistics, CanLock
<1>2. Present' = Present /\ Cardinality(Present) \in Nat
  BY <1>1, FS_CardinalityType DEF Present, IInv, MapOK
<1>3. TypeOK'
  BY <1>1, <1>2 DEF IInv, TypeOK, callers
<1>4. MapOK' /\ EvictionsAccount' /\ EntriesInTime'
  BY <1>1, <1>2 DEF IInv, MapOK, EvictionsAccount, EntriesInTime
<1>5. KeyKnown' /\ CountersNeverInflate' /\ ComputeInTime'
  BY <1>1 DEF IInv, KeyKnown, CountersNeverInflate, ComputeInTime, callers
<1>6. LoadedInBounds'
  BY <1>1 DEF IInv, LoadedInBounds, Readers, callers
<1> QED
  BY <1>3, <1>4, <1>5, <1>6 DEF IInv

(* The clock waits for the compute functions.                                *)
LEMMA TickKeepsIInv ==
  ASSUME IInv, Tick
  PROVE  IInv'
<1>1. /\ UNCHANGED <<data, counters, callers, cleaner, history>>
      /\ now' = now + 1 /\ now < MaxTime
      /\ now \in 0 .. MaxTime /\ MaxTime \in Nat /\ FetchLimit \in Nat
  BY CacheAssumption DEF Tick, IInv, TypeOK
<1>2. TypeOK'
  BY <1>1 DEF IInv, TypeOK, counters, callers, history
<1>3. Present' = Present
  BY <1>1 DEF Present
<1>4. MapOK' /\ EvictionsAccount' /\ EntriesInTime'
  BY <1>1, <1>3 DEF IInv, MapOK, EvictionsAccount, EntriesInTime, counters, history
<1>5. KeyKnown' /\ CountersNeverInflate' /\ LoadedInBounds'
  BY <1>1 DEF IInv, KeyKnown, CountersNeverInflate, LoadedInBounds, counters, callers, history
<1>6. ComputeInTime'
  <2> SUFFICES ASSUME NEW c \in Callers
               PROVE  /\ pc[c] \in {"computing", "computed"} =>
                           started[c] <= now + 1 /\ now + 1 <= started[c] + FetchLimit
                      /\ pc[c] = "computed" => started[c] <= value[c] /\ value[c] <= now + 1
    BY <1>1 DEF ComputeInTime, callers
  <2>1. started[c] \in 0 .. MaxTime /\ value[c] \in 0 .. MaxTime
    BY DEF IInv, TypeOK
  <2>2. pc[c] \in {"computing", "computed"} => now < started[c] + FetchLimit
    BY DEF Tick
  <2> QED
    BY <1>1, <2>1, <2>2 DEF IInv, ComputeInTime
<1> QED
  BY <1>2, <1>4, <1>5, <1>6 DEF IInv

(* Close and the end of the cleanup goroutine, and stuttering.               *)
LEMMA CleanerKeepsIInv ==
  ASSUME IInv, Close \/ CleanupReturns \/ UNCHANGED vars
  PROVE  IInv'
<1>1. UNCHANGED <<now, data, counters, callers, history>>
  BY DEF Close, CleanupReturns, vars
<1>2. cleaner' \in {"running", "stopping", "done"}
  BY DEF Close, CleanupReturns, vars, IInv, TypeOK
<1>3. Present' = Present
  BY <1>1 DEF Present
<1>4. TypeOK'
  BY <1>1, <1>2 DEF IInv, TypeOK, counters, callers, history
<1>5. MapOK' /\ EvictionsAccount' /\ EntriesInTime'
  BY <1>1, <1>3 DEF IInv, MapOK, EvictionsAccount, EntriesInTime, counters, history
<1>6. KeyKnown' /\ CountersNeverInflate' /\ LoadedInBounds' /\ ComputeInTime'
  BY <1>1 DEF IInv, KeyKnown, CountersNeverInflate, LoadedInBounds, ComputeInTime,
              counters, callers, history
<1> QED
  BY <1>4, <1>5, <1>6 DEF IInv

-----------------------------------------------------------------------------
(* Every step keeps the invariant.                                           *)
LEMMA NextKeepsIInv == IInv /\ [Next]_vars => IInv'
<1> SUFFICES ASSUME IInv, [Next]_vars PROVE IInv'
  OBVIOUS
<1>1. CASE Tick
  BY <1>1, TickKeepsIInv
<1>2. CASE CleanupExpired
  BY <1>2, RemovalSteps, RemovalKeepsIInv
<1>3. CASE Close \/ CleanupReturns \/ UNCHANGED vars
  BY <1>3, CleanerKeepsIInv
<1>4. CASE \E c \in Callers : Caller(c)
  <2> PICK c \in Callers : Caller(c)
    BY <1>4
  <2>1. CASE \E k \in Keys : Get(c, k)
    BY <2>1, GetKeepsIInv
  <2>2. CASE \E k \in Keys : Delete(c, k)
    BY <2>2, RemovalSteps, RemovalKeepsIInv
  <2>3. CASE Clear(c)
    BY <2>3, RemovalSteps, RemovalKeepsIInv
  <2>4. CASE GetHit(c) \/ GetMiss(c)
    BY <2>4, GetHitKeepsIInv, GetMissKeepsIInv
  <2>5. CASE Compute(c) \/ ComputeFails(c) \/ SetWithTTL(c)
    BY <2>5, ComputeKeepsIInv, ComputeFailsKeepsIInv, SetKeepsIInv
  <2>6. CASE ResetStatistics(c)
    BY <2>6, ResetKeepsIInv
  <2> QED
    BY <2>1, <2>2, <2>3, <2>4, <2>5, <2>6 DEF Caller
<1> QED
  BY <1>1, <1>2, <1>3, <1>4 DEF Next

(* The inductive invariant holds throughout.                                 *)
THEOREM Invariance == Spec => []IInv
BY InitIInv, NextKeepsIInv, PTL DEF Spec

(* Type correctness.                                                         *)
THEOREM TypeCorrect == Spec => []TypeOK
<1>1. IInv => TypeOK
  BY DEF IInv
<1> QED
  BY Invariance, <1>1, PTL

(* Hits and misses never exceed the lookups since the last reset, though Get  *)
(* increments them under the read lock only.                                 *)
THEOREM CountersStayHonest == Spec => []CountersNeverInflate
<1>1. IInv => CountersNeverInflate
  BY DEF IInv
<1> QED
  BY Invariance, <1>1, PTL

(* How far off they may be: concurrent readers may lose any number of         *)
(* increments, but not all of them: a cache that has served, or has not, says *)
(* so.                                                                       *)
LookupsShow == (served > 0 => hits > 0) /\ (missed > 0 => misses > 0)

(* Each Get writes a number above zero.                                      *)
THEOREM LookupsAreSeen == Spec => []LookupsShow
<1>1. Init => LookupsShow
  BY DEF Init, LookupsShow
<1>2. ASSUME TypeOK, LookupsShow, [Next]_vars
      PROVE  LookupsShow'
  <2>1. CASE UNCHANGED <<hits, misses, served, missed>>
    BY <2>1, <1>2 DEF LookupsShow
  <2>2. ASSUME NEW c \in Callers, GetHit(c) \/ GetMiss(c)
        PROVE  LookupsShow'
    <3>1. loaded[c] \in Nat
      BY <1>2 DEF TypeOK
    <3> QED
      BY <1>2, <2>2, <3>1 DEF GetHit, GetMiss, LookupsShow
  <2>3. ASSUME NEW c \in Callers, ResetStatistics(c)
        PROVE  LookupsShow'
    BY <2>3 DEF ResetStatistics, LookupsShow
  <2> QED
    BY <1>2, <2>1, <2>2, <2>3
    DEF Next, Caller, Tick, CleanupExpired, Close, CleanupReturns, Get, Delete, Clear,
        Compute, ComputeFails, SetWithTTL, vars, counters, history
<1> QED
  BY TypeCorrect, <1>1, <1>2, PTL DEF Spec

(* And they are off for no other cause than concurrent readers: where a       *)
(* single goroutine uses the cache they are exact.                           *)
CountersExact == hits = served /\ misses = missed

(* What the only caller has loaded is what there still is.                   *)
LoadedIsCurrent ==
  \A c \in Callers : /\ pc[c] = "hitting" => loaded[c] = hits
                     /\ pc[c] = "missing" => loaded[c] = misses

(* With one caller no increment is lost.                                     *)
THEOREM SoleCallerCountsExactly ==
  ASSUME \A a, b \in Callers : a = b
  PROVE  Spec => []CountersExact
<1>1. Init => CountersExact /\ LoadedIsCurrent
  BY DEF Init, CountersExact, LoadedIsCurrent
<1>2. ASSUME TypeOK, CountersExact, LoadedIsCurrent, [Next]_vars
      PROVE  CountersExact' /\ LoadedIsCurrent'
  <2>1. CASE UNCHANGED <<hits, misses, served, missed, pc, loaded>>
    BY <2>1, <1>2 DEF CountersExact, LoadedIsCurrent
  <2>2. CASE Tick \/ CleanupExpired \/ Close \/ CleanupReturns \/ UNCHANGED vars
    BY <2>1, <2>2
    DEF Tick, CleanupExpired, Close, CleanupReturns, vars, counters, callers, history
  <2>3. ASSUME NEW c \in Callers, Caller(c)
        PROVE  CountersExact' /\ LoadedIsCurrent'
    <3>1. \A d \in Callers : d = c
      OBVIOUS
    <3>2. pc \in [Callers -> PCs] /\ loaded \in [Callers -> Nat]
      BY <1>2 DEF TypeOK
    <3>3. ASSUME NEW k \in Keys, Get(c, k)
          PROVE  CountersExact' /\ LoadedIsCurrent'
      BY <1>2, <3>1, <3>2, <3>3 DEF Get, Become, counters, history, CountersExact, LoadedIsCurrent
    <3>4. CASE GetHit(c)
      BY <1>2, <3>1, <3>2, <3>4 DEF GetHit, Return, Become, CountersExact, LoadedIsCurrent
    <3>5. CASE GetMiss(c)
      BY <1>2, <3>1, <3>2, <3>5 DEF GetMiss, Become, CountersExact, LoadedIsCurrent
    <3>6. CASE Compute(c) \/ ComputeFails(c) \/ SetWithTTL(c)
      BY <1>2, <3>1, <3>2, <3>6
      DEF Compute, ComputeFails, SetWithTTL, Return, Become, counters, history, CountersExact,
          LoadedIsCurrent
    <3>7. CASE ResetStatistics(c)
      BY <3>1, <3>7 DEF ResetStatistics, callers, CountersExact, LoadedIsCurrent
    <3>8. CASE Clear(c) \/ \E k \in Keys : Delete(c, k)
      BY <2>1, <3>8 DEF Clear, Delete, callers, history
    <3> QED
      BY <2>3, <3>3, <3>4, <3>5, <3>6, <3>7, <3>8 DEF Caller
  <2> QED
    BY <1>2, <2>2, <2>3 DEF Next
<1> QED
  BY TypeCorrect, <1>1, <1>2, PTL DEF Spec

(* Every entry that came is in the map or was counted as an eviction once.   *)
THEOREM EvictionsAddUp == Spec => []EvictionsAccount
<1>1. IInv => EvictionsAccount
  BY DEF IInv
<1> QED
  BY Invariance, <1>1, PTL

(* What Get hands out was read from the cluster at most the key's ttl and one *)
(* computation ago.                                                          *)
THEOREM ServedIsFresh == Spec => ServedValueFresh
<1> DEFINE Fresh == \A c \in Callers, k \in Keys :
                      Get(c, k) /\ pc'[c] = "hitting"
                        => now - data[k].value <= KeyTTL[k] + FetchLimit
<1>1. IInv /\ [Next]_vars => [Fresh]_vars
  <2> SUFFICES ASSUME IInv, NEW c \in Callers, NEW k \in Keys,
                      Get(c, k), pc'[c] = "hitting"
               PROVE  now - data[k].value <= KeyTTL[k] + FetchLimit
    OBVIOUS
  <2>1. k \in Present /\ now <= data[k].expiration
    <3>1. k \in Present \ ExpiredKeys
      BY DEF Get, Become, IInv, TypeOK
    <3>2. now \in Nat /\ data[k].expiration \in Nat
      BY <3>1 DEF IInv, TypeOK, Present, Entry
    <3> QED
      BY <3>1, <3>2 DEF ExpiredKeys, IsExpired
  <2>2. /\ data[k].value \in Nat /\ data[k].expiration \in Nat /\ now \in Nat
        /\ KeyTTL[k] \in Nat /\ FetchLimit \in Nat
    BY <2>1, CacheAssumption DEF IInv, TypeOK, Present, Entry
  <2> QED
    BY <2>1, <2>2 DEF IInv, EntriesInTime
<1> QED
  BY Invariance, <1>1, PTL DEF Spec, ServedValueFresh

-----------------------------------------------------------------------------
(* What is served is in the map and not over; so a step that leaves the map    *)
(* and the clock alone leaves it alone.                                      *)
LEMMA LiveStutters ==
  ASSUME UNCHANGED <<now, data>>
  PROVE  Live' = Live
BY DEF Live, Present, ExpiredKeys, IsExpired

(* The sweep takes nothing that is served.                                   *)
LEMMA SweepIsInvisible ==
  ASSUME IInv, CleanupExpired
  PROVE  Live' = Live
<1>1. /\ data' = [k \in Keys |-> IF k \in ExpiredKeys THEN NoEntry ELSE data[k]]
      /\ now' = now
  BY DEF CleanupExpired, Remove
<1>2. ASSUME NEW k \in Keys
      PROVE  (IF k \in Present \ ExpiredKeys THEN data[k] ELSE NoEntry)'
               = IF k \in Present \ ExpiredKeys THEN data[k] ELSE NoEntry
  BY <1>1 DEF Present, ExpiredKeys, IsExpired
<1> QED
  BY <1>2 DEF Live

(* Delete and Clear drop what they remove.                                   *)
LEMMA DeleteIsDrop ==
  ASSUME IInv, NEW c \in Callers, NEW k \in Keys, Delete(c, k)
  PROVE  Store!Drop(k)
<1>1. /\ data' = [j \in Keys |-> IF j \in {k} \cap Present THEN NoEntry ELSE data[j]]
      /\ now' = now
  BY DEF Delete, Remove
<1>2. ASSUME NEW j \in Keys
      PROVE  (IF j \in Present \ ExpiredKeys THEN data[j] ELSE NoEntry)'
               = IF j = k THEN NoEntry ELSE Live[j]
  BY <1>1 DEF Present, ExpiredKeys, IsExpired, Live
<1>3. Live' = [Live EXCEPT ![k] = NoEntry]
  BY <1>2 DEF Live
<1> QED
  BY <1>1, <1>3 DEF Store!Drop

(* Clear empties the abstract store.                                         *)
LEMMA ClearIsClear ==
  ASSUME IInv, NEW c \in Callers, Clear(c)
  PROVE  Store!Clear
<1>1. data' = [j \in Keys |-> IF j \in Present THEN NoEntry ELSE data[j]] /\ now' = now
  BY DEF Clear, Remove
<1>2. ASSUME NEW j \in Keys
      PROVE  (IF j \in Present \ ExpiredKeys THEN data[j] ELSE NoEntry)' = NoEntry
  BY <1>1 DEF Present
<1>3. Live' = [j \in Keys |-> NoEntry]
  BY <1>2 DEF Live
<1> QED
  BY <1>1, <1>3 DEF Store!Clear

(* SetWithTTL puts a value that was computed within FetchLimit.              *)
LEMMA SetIsPut ==
  ASSUME IInv, NEW c \in Callers, SetWithTTL(c)
  PROVE  \E k \in Keys : Store!Put(k)
<1> DEFINE k == key[c]
           e == [value |-> value[c], expiration |-> now + KeyTTL[k]]
<1>1. pc[c] = "computed" /\ k \in Keys
  BY DEF SetWithTTL, IInv, KeyKnown
<1>2. /\ KeyTTL[k] \in Nat \ {0} /\ value[c] \in 0 .. now /\ now \in Nat
      /\ now <= value[c] + FetchLimit
  <2>1. /\ started[c] <= value[c] /\ value[c] <= now /\ now <= started[c] + FetchLimit
        /\ started[c] \in 0 .. MaxTime /\ value[c] \in 0 .. MaxTime /\ now \in 0 .. MaxTime
    BY <1>1 DEF IInv, TypeOK, ComputeInTime
  <2> QED
    BY <1>1, <2>1, CacheAssumption
<1>3. /\ data' = [data EXCEPT ![k] = e] /\ now' = now
  BY DEF SetWithTTL
<1>4. e # NoEntry
  <2>1. e \in [value : Nat, expiration : Nat]
    BY <1>2
  <2> QED
    BY <2>1, CacheAssumption
<1>5. data'[k] = e /\ \A j \in Keys \ {k} : data'[j] = data[j]
  BY <1>1, <1>3 DEF IInv, MapOK
<1>6. ASSUME NEW j \in Keys
      PROVE  (IF j \in Present \ ExpiredKeys THEN data[j] ELSE NoEntry)'
               = IF j = k THEN e ELSE Live[j]
  <2>1. CASE j = k
    <3>1. ~(now > now + KeyTTL[k])
      BY <1>2
    <3> QED
      BY <2>1, <3>1, <1>3, <1>4, <1>5 DEF Present, ExpiredKeys, IsExpired
  <2>2. CASE j # k
    BY <2>2, <1>3, <1>5 DEF Present, ExpiredKeys, IsExpired, Live
  <2> QED
    BY <2>1, <2>2
<1>7. Live' = [Live EXCEPT ![k] = e]
  BY <1>6 DEF Live
<1> QED
  BY <1>1, <1>2, <1>3, <1>7 DEF Store!Put

(* The clock takes with it exactly what is over.                             *)
LEMMA TickIsTick ==
  ASSUME IInv, Tick
  PROVE  Store!Tick
<1>1. data' = data /\ now' = now + 1 /\ now \in Nat
  BY DEF Tick, IInv, TypeOK
<1>2. ASSUME NEW j \in Keys
      PROVE  (IF j \in Present \ ExpiredKeys THEN data[j] ELSE NoEntry)'
               = IF Live[j] # NoEntry /\ Live[j].expiration < now + 1 THEN NoEntry ELSE Live[j]
  <2>1. CASE j \in Present
    <3>1. data[j].expiration \in Nat
      BY <2>1 DEF IInv, TypeOK, Present, Entry
    <3> QED
      BY <1>1, <2>1, <3>1 DEF Present, ExpiredKeys, IsExpired, Live
  <2>2. CASE j \notin Present
    BY <1>1, <2>2 DEF Present, Live
  <2> QED
    BY <2>1, <2>2
<1>3. Live' = [j \in Keys |-> IF Live[j] # NoEntry /\ Live[j].expiration < now + 1
                             THEN NoEntry ELSE Live[j]]
  BY <1>2 DEF Live
<1> QED
  BY <1>1, <1>3 DEF Store!Tick

(* To its callers the cache is the abstract store of CacheStore.             *)
THEOREM ImplementsStore == Spec => StoreSpec
<1>1. Init => Store!Init
  BY DEF Init, Store!Init, Live, Present
<1>2. ASSUME IInv, [Next]_vars
      PROVE  [Store!Next]_(Store!vars)
  <2>1. CASE UNCHANGED <<now, data>>
    BY <2>1, LiveStutters DEF Store!vars
  <2>2. CASE CleanupExpired
    BY <1>2, <2>2, SweepIsInvisible DEF Store!vars, CleanupExpired
  <2>3. CASE Tick
    BY <1>2, <2>3, TickIsTick DEF Store!Next
  <2>4. ASSUME NEW c \in Callers, NEW k \in Keys, Delete(c, k)
        PROVE  Store!Next
    BY <1>2, <2>4, DeleteIsDrop DEF Store!Next
  <2>5. ASSUME NEW c \in Callers, Clear(c) \/ SetWithTTL(c)
        PROVE  Store!Next
    BY <1>2, <2>5, ClearIsClear, SetIsPut DEF Store!Next
  <2>6. \/ UNCHANGED <<now, data>> \/ CleanupExpired \/ Tick
        \/ \E c \in Callers, k \in Keys : Delete(c, k)
        \/ \E c \in Callers : Clear(c) \/ SetWithTTL(c)
    BY <1>2 DEF Next, vars, Caller, Get, GetHit, GetMiss, Compute, ComputeFails,
                ResetStatistics, Close, CleanupReturns
  <2> QED
    BY <2>1, <2>2, <2>3, <2>4, <2>5, <2>6
<1> QED
  BY <1>1, <1>2, Invariance, PTL DEF Spec, StoreSpec, Store!Spec
=============================================================================

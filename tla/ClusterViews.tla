---------------------------- MODULE ClusterViews ----------------------------
(***************************************************************************)
(* The read-only views of the cluster: the resources of internal/resources  *)
(* and the tools get-cluster-health and list-adrs.  Each looks in the cache *)
(* under a key of its own and on a miss makes one or two requests, one      *)
(* after the other, while the cluster goes on changing; it sums them up and *)
(* stores the summary with a ttl that starts at the store.                  *)
(*                                                                         *)
(* The cache is MemoryCache without its counters and cleanup, which no view *)
(* can tell.  Incidents are asked for one page of each status, and which of   *)
(* them the engine puts on a page that cannot hold them all is open.         *)
(***************************************************************************)
EXTENDS Integers, FiniteSets

CONSTANTS Nodes, Pods, Incidents,
          ADRs,        \* rows that the table of decision records may have
          Worlds,      \* what the cluster and the engine may hold at first
          Keys,        \* the cache keys in use
          Asked,       \* the sets of keys that are asked for in one behaviour
          Readers,     \* goroutines that read a view
          TTL,         \* TTL[k]: the ttl with which k is stored
          PageLimit,   \* how many incidents are asked for: 100
          FetchLimit,  \* the longest a read takes: its clients' timeouts
          MaxTime,     \* bound of the clock
          MaxChanges,  \* bound of the changes of the cluster
          NoEntry, NoKey

(* resource:cluster:health, ...:nodes, ...:incidents, ...:remediation-history *)
(* and the tools' cluster-health (or cluster-health-summary) and              *)
(* adrs:coordination-engine.                                                 *)
AllKeys == {"health", "nodes", "incidents", "history", "tool", "adrs"}

(* "unreported": a node without a Ready condition.                           *)
NodeStates == {"absent", "ready", "notReady", "unreported"}

Phases == {"Running", "Pending", "Failed", "Succeeded", "Unknown"}

IncidentStates == {"absent", "active", "completed", "failed"}

(* A row of the table of decision records; a reserved one is a placeholder.   *)
Rows == {"absent", "entry", "reserved"}

ASSUME ViewsAssumption ==
  /\ IsFiniteSet(Nodes) /\ IsFiniteSet(Pods) /\ IsFiniteSet(Incidents)
  /\ Worlds \subseteq [node : [Nodes -> NodeStates], pod : [Pods -> Phases \cup {"absent"}],
                      incident : [Incidents -> IncidentStates], adr : [ADRs -> Rows]]
  /\ Keys \subseteq AllKeys /\ NoKey \notin Keys /\ Asked \subseteq SUBSET Keys
  /\ TTL \in [Keys -> Nat \ {0}]
  /\ PageLimit \in Nat \ {0}
  /\ FetchLimit \in Nat /\ MaxTime \in Nat /\ MaxChanges \in Nat
  /\ NoEntry \notin [value : Nat, expiration : Nat]

VARIABLES
  now,
  node, pod, incident,  \* the cluster and the engine
  adr,        \* the table in the README of the engine's decision records
  changedAt,  \* history: when the answer to each list request last changed
  changes,    \* history: how often anything changed
  asked,      \* the keys that are asked for
  cache,      \* the entries, under their keys
  key,        \* the key each reader works on
  seen,       \* what its list requests have brought, under their lists
  started,    \* when it missed in the cache
  finished,   \* history: the incidents that were finished then
  moved       \* history: the incidents whose status has changed since then

world == <<node, pod, incident, adr, changedAt, changes>>
readers == <<key, seen, started, finished, moved>>
vars == <<now, world, asked, cache, readers>>

Lists == {"nodes", "pods", "active", "completed", "failed", "readme"}

(* The page as GitHub's API delivers it.                                     *)
fetchReadme == adr

(* What a page may hold of the incidents in S: all, or as many as it can.     *)
Pages(S) ==
  IF Cardinality(S) <= PageLimit THEN {S} ELSE {P \in SUBSET S : Cardinality(P) = PageLimit}

WithStatus(s) == {i \in Incidents : incident[i] = s}

(* The answers that a list request may have, now.                            *)
Answers(l) ==
  CASE l = "nodes"  -> {[n \in {m \in Nodes : node[m] # "absent"} |-> node[n]]}
    [] l = "pods"   -> {[p \in {q \in Pods : pod[q] # "absent"} |-> pod[p]]}
    [] l = "readme" -> {fetchReadme}
    [] OTHER        -> Pages(WithStatus(l))

(* The list requests of each Read.                                           *)
Needs(k) ==
  CASE k \in {"health", "tool"} -> {"nodes", "pods"}
    [] k = "nodes"              -> {"nodes"}
    [] k = "incidents"          -> {"active"}
    [] k = "history"            -> {"completed", "failed"}
    [] k = "adrs"               -> {"readme"}

(* The request that a Read makes before l.                                   *)
Before(l) ==
  CASE l = "pods" -> {"nodes"} [] l = "failed" -> {"completed"} [] OTHER -> {}

-----------------------------------------------------------------------------
Count(f, s) == Cardinality({x \in DOMAIN f : f[x] = s})

Status(ns, ps) ==
  CASE Count(ns, "ready") = 0                               -> "unhealthy"
    [] Count(ns, "notReady") > 0 \/ Count(ps, "Failed") > 0 -> "degraded"
    [] OTHER                                                -> "healthy"

FaultUnreportedIsReady(ns, ps) ==
  [status   |-> Status(ns, ps),
   total    |-> Cardinality(DOMAIN ns),
   ready    |-> Cardinality(DOMAIN ns) - Count(ns, "notReady"),
   notReady |-> Count(ns, "notReady"),
   pods     |-> [ph \in Phases |-> Count(ps, ph)],
   issues   |-> Count(ns, "notReady") + Count(ps, "Failed") + Count(ps, "Pending")]

(* A node without a Ready condition is counted in the total only.            *)
GetClusterHealth(ns, ps) ==
  [status   |-> Status(ns, ps),
   total    |-> Cardinality(DOMAIN ns),
   ready    |-> Count(ns, "ready"),
   notReady |-> Count(ns, "notReady"),
   pods     |-> [ph \in Phases |-> Count(ps, ph)],
   issues   |-> Count(ns, "notReady") + Count(ps, "Failed") + Count(ps, "Pending")]

(* The nodes resource: getNodeStatus of each node.                           *)
NodesData(ns) ==
  [total |-> Cardinality(DOMAIN ns),
   ready |-> Cardinality({n \in DOMAIN ns : ns[n] = "ready"}),
   nodes |-> ns]

FaultFailedAmongAll(done, failed) ==
  [total |-> Cardinality(done) + Cardinality(done \cup failed),
   completed |-> done, failed |-> done \cup failed]

(* analyzeRemediationHistory over the two pages, one after the other.        *)
History(done, failed) ==
  [total |-> Cardinality(done) + Cardinality(failed),
   completed |-> done, failed |-> failed]

(* Placeholders and rows of another form are skipped.                        *)
parseADRTable(readme) == {a \in ADRs : readme[a] = "entry"}

View(k, s) ==
  CASE k \in {"health", "tool"} -> GetClusterHealth(s["nodes"], s["pods"])
    [] k = "nodes"              -> NodesData(s["nodes"])
    [] k = "incidents"          -> [active |-> Cardinality(s["active"]), incidents |-> s["active"]]
    [] k = "history"            -> History(s["completed"], s["failed"])
    [] k = "adrs"               -> parseADRTable(s["readme"])

(* What a Read that took no time might answer now.                           *)
Current(k) ==
  {View(k, s) : s \in {t \in [Needs(k) -> UNION {Answers(l) : l \in Needs(k)}] :
                       \A l \in Needs(k) : t[l] \in Answers(l)}}

-----------------------------------------------------------------------------
(* The functions without an argument: an empty cache, no answer yet.         *)
NoCache == [k \in {} |-> NoEntry]
Unread == [l \in {} |-> {}]

Init ==
  /\ now = 0
  /\ \E w \in Worlds : 
       /\ node = w.node /\ pod = w.pod /\ incident = w.incident /\ adr = w.adr
  /\ changedAt = [l \in Lists |-> 0] /\ changes = 0
  /\ asked \in Asked
  /\ cache = NoCache
  /\ key = [r \in Readers |-> NoKey]
  /\ seen = [r \in Readers |-> Unread]
  /\ started = [r \in Readers |-> 0]
  /\ finished = [r \in Readers |-> {}] /\ moved = [r \in Readers |-> {}]

(* The cluster changes: nodes and pods come, go and change, and incidents     *)
(* too; one that has failed may be repaired, or a repaired one fail again.    *)
Changed(ls) ==
  /\ changes < MaxChanges
  /\ changes' = changes + 1
  /\ changedAt' = [l \in Lists |-> IF l \in ls THEN now ELSE changedAt[l]]

NodeChanges ==
  /\ \E n \in Nodes, s \in NodeStates : node' = [node EXCEPT ![n] = s]
  /\ Changed({"nodes"})
  /\ UNCHANGED <<now, pod, incident, adr, asked, cache, readers>>

PodChanges ==
  /\ \E p \in Pods, s \in Phases \cup {"absent"} : pod' = [pod EXCEPT ![p] = s]
  /\ Changed({"pods"})
  /\ UNCHANGED <<now, node, incident, adr, asked, cache, readers>>

IncidentChanges ==
  /\ \E i \in Incidents : \E s \in IncidentStates \ {incident[i]} :
       /\ incident' = [incident EXCEPT ![i] = s]
       /\ Changed({incident[i], s})
       /\ moved' = [r \in Readers |-> IF key[r] = NoKey THEN {} ELSE moved[r] \cup {i}]
  /\ UNCHANGED <<now, node, pod, adr, asked, cache, key, seen, started, finished>>

(* The page is edited; it may come to have no entry.                         *)
AdrsChange ==
  /\ \E a \in ADRs, row \in Rows : adr' = [adr EXCEPT ![a] = row]
  /\ Changed({"readme"})
  /\ UNCHANGED <<now, node, pod, incident, asked, cache, readers>>

-----------------------------------------------------------------------------
Finished == WithStatus("completed") \cup WithStatus("failed")

FaultServedForGood(k) == k \in DOMAIN cache

(* MemoryCache's Get finds k.                                                *)
Valid(k) == k \in DOMAIN cache /\ now <= cache[k].expiration

Return(r) ==
  /\ key' = [key EXCEPT ![r] = NoKey]
  /\ seen' = [seen EXCEPT ![r] = Unread]
  /\ started' = [started EXCEPT ![r] = 0]
  /\ finished' = [finished EXCEPT ![r] = {}]
  /\ moved' = [moved EXCEPT ![r] = {}]

(* Read finds the summary in the cache and returns it.                       *)
Hit(r, k) ==
  /\ key[r] = NoKey /\ Valid(k)
  /\ UNCHANGED vars

(* Read finds nothing, or something that has expired, and begins to fetch.   *)
Miss(r, k) ==
  /\ key[r] = NoKey /\ ~Valid(k)
  /\ key' = [key EXCEPT ![r] = k]
  /\ started' = [started EXCEPT ![r] = now]
  /\ finished' = [finished EXCEPT ![r] = Finished]
  /\ UNCHANGED <<now, world, asked, cache, seen, moved>>

(* f with v for x.                                                           *)
With(f, x, v) == [y \in DOMAIN f \cup {x} |-> IF y = x THEN v ELSE f[y]]

(* One list request of the Read is answered.                                 *)
List(r, l) ==
  /\ key[r] # NoKey
  /\ l \in Needs(key[r]) \ DOMAIN seen[r]
  /\ Before(l) \subseteq DOMAIN seen[r]
  /\ \E a \in Answers(l) : seen' = [seen EXCEPT ![r] = With(@, l, a)]
  /\ UNCHANGED <<now, world, asked, cache, key, started, finished, moved>>

(* A request fails or times out, the summary cannot be encoded, or the table  *)
(* has no rows: the error is returned and nothing is stored.                 *)
ListFails(r) ==
  /\ key[r] # NoKey
  /\ Return(r)
  /\ UNCHANGED <<now, world, asked, cache>>

(* An index without an entry is an error.                                    *)
getADRIndex(s) == parseADRTable(s["readme"]) # {}

FaultNewerExpiryStays(r) ==
  /\ key[r] # NoKey
  /\ Needs(key[r]) \subseteq DOMAIN seen[r]
  /\ cache' = With(cache, key[r], [view       |-> View(key[r], seen[r]),
                                   since      |-> started[r],
                                   expiration |-> IF Valid(key[r]) THEN cache[key[r]].expiration
                                                  ELSE now + TTL[key[r]],
                                   finished   |-> finished[r],
                                   moved      |-> moved[r]])
  /\ Return(r)
  /\ UNCHANGED <<now, world, asked>>

(* cacheAndReturn: SetWithTTL.                                               *)
Store(r) ==
  /\ key[r] # NoKey
  /\ Needs(key[r]) \subseteq DOMAIN seen[r]
  /\ key[r] = "adrs" => getADRIndex(seen[r])
  /\ cache' = With(cache, key[r], [view       |-> View(key[r], seen[r]),
                                   since      |-> started[r],
                                   expiration |-> now + TTL[key[r]],
                                   finished   |-> finished[r],
                                   moved      |-> moved[r]])
  /\ Return(r)
  /\ UNCHANGED <<now, world, asked>>

Tick ==
  /\ now < MaxTime
  /\ \A r \in Readers : key[r] # NoKey => now < started[r] + FetchLimit
  /\ now' = now + 1
  /\ UNCHANGED <<world, asked, cache, readers>>

Reader(r) ==
  \/ \E k \in asked : Hit(r, k) \/ Miss(r, k)
  \/ \E l \in Lists : List(r, l)
  \/ ListFails(r) \/ Store(r)

Next ==
  \/ NodeChanges \/ PodChanges \/ IncidentChanges \/ AdrsChange \/ Tick
  \/ \E r \in Readers : Reader(r)

Spec == Init /\ [][Next]_vars
-----------------------------------------------------------------------------
(* What a reader holds belongs to its Read, which is no older than a fetch may *)
(* be, and an entry holds no more than its ttl.                              *)
TypeOK ==
  /\ now \in 0..MaxTime /\ changes \in 0..MaxChanges /\ asked \in Asked
  /\ node \in [Nodes -> NodeStates] /\ pod \in [Pods -> Phases \cup {"absent"}]
  /\ incident \in [Incidents -> IncidentStates] /\ adr \in [ADRs -> Rows]
  /\ changedAt \in [Lists -> 0..now]
  /\ key \in [Readers -> Keys \cup {NoKey}]
  /\ started \in [Readers -> 0..now]
  /\ finished \in [Readers -> SUBSET Incidents] /\ moved \in [Readers -> SUBSET Incidents]
  /\ DOMAIN seen = Readers
  /\ \A r \in Readers :
       /\ key[r] # NoKey => now <= started[r] + FetchLimit
       /\ DOMAIN seen[r] \subseteq IF key[r] = NoKey THEN {} ELSE Needs(key[r])
  /\ DOMAIN cache \subseteq Keys
  /\ \A k \in DOMAIN cache : cache[k].expiration <= now + TTL[k]

(* Nothing that a Read of k asks for has changed for longer than k's ttl and  *)
(* a fetch.                                                                  *)
Quiet(k) == \A l \in Needs(k) : now - changedAt[l] > TTL[k] + FetchLimit

(* A view that is served from the cache lags behind the cluster by no more    *)
(* than its ttl and the duration of a fetch: once the cluster has been quiet  *)
(* for longer, what is served is what the cluster is.  So neither the two     *)
(* requests of a Read, nor a slow Read that stores after a faster and newer   *)
(* one, leave a summary of a state that never was for longer than that.      *)
QuietClusterSeen == \A k \in Keys : Valid(k) /\ Quiet(k) => cache[k].view \in Current(k)

(* GetClusterHealth and the nodes resource count nodes each in its own way and *)
(* are cached for different times.  Once the nodes have been quiet they tell  *)
(* the same number of nodes and of ready nodes.                              *)
ViewsAgree ==
  \A h \in Keys \cap {"health", "tool"}, k \in Keys \cap {"nodes"} :
    Valid(h) /\ Valid(k) /\ Quiet(h) /\ Quiet(k)
      => /\ cache[h].view.total = cache[k].view.total
         /\ cache[h].view.ready = cache[k].view.ready

(* The history is put together from two requests between which incidents go   *)
(* on.  The only incidents that it counts twice are ones whose status changed  *)
(* while it was read: completed when the first page was made, failed when the *)
(* second was.  And unless a page is full, the only finished incidents that   *)
(* it misses are such ones: failed at first, and repaired before the second   *)
(* page was made.                                                            *)
HistoryCountsOnce ==
  \A k \in Keys \cap {"history"} :
    k \in DOMAIN cache =>
      LET v     == cache[k].view
          twice == v.completed \cap v.failed \cap cache[k].moved
      IN  /\ v.total = Cardinality(v.completed \cup v.failed) + Cardinality(twice)
          /\ Cardinality(v.completed) < PageLimit /\ Cardinality(v.failed) < PageLimit
               => cache[k].finished \subseteq v.completed \cup v.failed \cup cache[k].moved

-----------------------------------------------------------------------------
(* What a Read would find now: an entry is as old as the Read that stored it,  *)
(* from its miss on.                                                         *)
Live == [k \in Keys |-> IF Valid(k) THEN [value |-> cache[k].since,
                                         expiration |-> cache[k].expiration]
                        ELSE NoEntry]

Cached == INSTANCE CacheStore
            WITH Lag <- FetchLimit, Nothing <- NoEntry, live <- Live

(* The views use the cache as the abstract store promises: they are served    *)
(* for their ttl from the store on, what they show was asked for within a     *)
(* fetch before it, and a Read that fails leaves what there is.  MemoryCache   *)
(* implements the same store.                                                *)
CachedSpec == Cached!Spec
=============================================================================

------------------------- MODULE ClusterViewsProofs -------------------------
(***************************************************************************)
(* Proofs about ClusterViews: how far a cached view lags behind, whether two *)
(* views agree and what the history counts, for every cluster, every number *)
(* of readers and every ttl; and that the views use the cache as CacheStore  *)
(* promises.                                                                *)
(***************************************************************************)
EXTENDS ClusterViews, FiniteSetTheorems, TLAPS

(* The answers a reader has are a function of their lists.                   *)
SeenOK == \A r \in Readers : seen[r] = [l \in DOMAIN seen[r] |-> seen[r][l]]

(* What has not changed since the Read began is what the reader has seen.     *)
SeenCurrent ==
  \A r \in Readers : \A l \in DOMAIN seen[r] :
    changedAt[l] < started[r] => seen[r][l] \in Answers(l)

(* Of the incidents whose status has not changed since its Read began, a       *)
(* reader knows what they are: they are on the page of their status, unless   *)
(* it is full, and on no other.                                              *)
UnmovedSeen(r) ==
  /\ finished[r] \ moved[r] \subseteq Finished
  /\ \A s \in DOMAIN seen[r] \cap {"completed", "failed"} :
       /\ seen[r][s] \subseteq Incidents
       /\ seen[r][s] \ moved[r] \subseteq WithStatus(s)
       /\ Cardinality(seen[r][s]) < PageLimit
            => \A i \in finished[r] \ moved[r] : i \in WithStatus(s) => i \in seen[r][s]

MovedSeen == \A r \in Readers : key[r] # NoKey => UnmovedSeen(r)

(* An entry was read within a fetch before it was stored.                    *)
EntryInTime ==
  \A k \in DOMAIN cache :
    /\ cache[k].since \in 0 .. now
    /\ cache[k].expiration \in Nat
    /\ cache[k].expiration <= cache[k].since + FetchLimit + TTL[k]

(* An entry is the current view if nothing has changed since it was read.     *)
EntryCurrent ==
  \A k \in DOMAIN cache :
    (\A l \in Needs(k) : changedAt[l] < cache[k].since) => cache[k].view \in Current(k)

(* The inductive invariant: QuietClusterSeen needs the ages of the entries   *)
(* (EntryInTime) and that nothing changed behind their backs (EntryCurrent,  *)
(* from SeenCurrent); HistoryCountsOnce needs MovedSeen.                     *)
IInv ==
  /\ TypeOK /\ SeenOK /\ SeenCurrent /\ MovedSeen
  /\ EntryInTime /\ EntryCurrent /\ HistoryCountsOnce

-----------------------------------------------------------------------------
(* A Read asks for list requests only.                                       *)
LEMMA NeedsLists == \A k \in Keys : Needs(k) \subseteq Lists
  BY ViewsAssumption DEF AllKeys, Needs, Lists

(* A view depends on nothing but the answers it is made from.                *)
LEMMA CurrentStays ==
  ASSUME NEW k \in Keys, \A l \in Needs(k) : Answers(l)' = Answers(l)
  PROVE  Current(k)' = Current(k)
<1>1. {Answers(l) : l \in Needs(k)}' = {Answers(l) : l \in Needs(k)}
  OBVIOUS
<1>2. ASSUME NEW t
      PROVE  (\A l \in Needs(k) : t[l] \in Answers(l)')
               <=> (\A l \in Needs(k) : t[l] \in Answers(l))
  OBVIOUS
<1> QED
  BY <1>1, <1>2 DEF Current

(* A page holds incidents of its status, and all of them unless it is full.   *)
LEMMA PagesRight ==
  ASSUME NEW S, NEW P \in Pages(S)
  PROVE  P \subseteq S /\ (Cardinality(P) < PageLimit => P = S)
<1>1. CASE Cardinality(S) <= PageLimit
  BY <1>1 DEF Pages
<1>2. CASE ~(Cardinality(S) <= PageLimit)
  <2>1. P \subseteq S /\ Cardinality(P) = PageLimit
    BY <1>2 DEF Pages
  <2>2. ~(PageLimit < PageLimit)
    BY ViewsAssumption
  <2> QED BY <2>1, <2>2
<1> QED BY <1>1, <1>2

-----------------------------------------------------------------------------
(* What the changes of the cluster have in common: the lists ls have changed, *)
(* and each Read knows the incidents that have.                              *)
WorldStep(ls) ==
  /\ changes' \in 0 .. MaxChanges
  /\ node' \in [Nodes -> NodeStates] /\ pod' \in [Pods -> Phases \cup {"absent"}]
  /\ incident' \in [Incidents -> IncidentStates] /\ adr' \in [ADRs -> Rows]
  /\ changedAt' = [l \in Lists |-> IF l \in ls THEN now ELSE changedAt[l]]
  /\ \A l \in Lists \ ls : Answers(l)' = Answers(l)
  /\ moved' \in [Readers -> SUBSET Incidents]
  /\ \A r \in Readers : key[r] # NoKey =>
       /\ moved[r] \subseteq moved'[r]
       /\ \A i \in Incidents \ moved'[r] : incident'[i] = incident[i]
  /\ UNCHANGED <<now, asked, cache, key, seen, started, finished>>

(* A change of the cluster changes the answers of some lists, whose time is  *)
(* noted.                                                                    *)
LEMMA WorldSteps ==
  ASSUME IInv, NodeChanges \/ PodChanges \/ IncidentChanges \/ AdrsChange
  PROVE  \E ls \in SUBSET Lists : WorldStep(ls)
<1> USE DEF IInv, TypeOK
<1>1. ASSUME NEW ls, Changed(ls)
      PROVE  /\ changes' \in 0 .. MaxChanges
             /\ changedAt' = [l \in Lists |-> IF l \in ls THEN now ELSE changedAt[l]]
  BY <1>1, ViewsAssumption DEF Changed
<1>2. CASE NodeChanges
  <2>1. WorldStep({"nodes"})
    BY <1>1, <1>2 DEF NodeChanges, WorldStep, Answers, WithStatus, fetchReadme, Lists, readers
  <2> QED BY <2>1 DEF Lists
<1>3. CASE PodChanges
  <2>1. WorldStep({"pods"})
    BY <1>1, <1>3 DEF PodChanges, WorldStep, Answers, WithStatus, fetchReadme, Lists, readers
  <2> QED BY <2>1 DEF Lists
<1>4. CASE AdrsChange
  <2>1. WorldStep({"readme"})
    BY <1>1, <1>4 DEF AdrsChange, WorldStep, Answers, WithStatus, fetchReadme, Lists, readers
  <2> QED BY <2>1 DEF Lists
<1>5. CASE IncidentChanges
  <2>1. PICK i \in Incidents, s \in IncidentStates :
          /\ s # incident[i] /\ incident' = [incident EXCEPT ![i] = s]
          /\ Changed({incident[i], s})
          /\ moved' = [r \in Readers |-> IF key[r] = NoKey THEN {} ELSE moved[r] \cup {i}]
    BY <1>5 DEF IncidentChanges
  <2> DEFINE ls == {incident[i], s} \cap Lists
  <2>2. changedAt' = [l \in Lists |-> IF l \in ls THEN now ELSE changedAt[l]]
    BY <1>1, <2>1
  <2>3. UNCHANGED <<now, node, pod, adr, asked, cache, key, seen, started, finished>>
    BY <1>5 DEF IncidentChanges
  <2>4. incident' \in [Incidents -> IncidentStates]
    BY <2>1
  <2>5. \A j \in Incidents \ {i} : incident'[j] = incident[j]
    BY <2>1
  <2>6. ASSUME NEW l \in Lists \ ls
        PROVE  Answers(l)' = Answers(l)
    <3>1. WithStatus(l)' = WithStatus(l)
      <4>1. incident[i] # l /\ incident'[i] # l
        BY <2>1, <2>6
      <4> QED BY <2>5, <4>1 DEF WithStatus
    <3>2. Pages(WithStatus(l))' = Pages(WithStatus(l))
      BY <3>1 DEF Pages
    <3> QED BY <2>3, <3>2 DEF Answers, fetchReadme
  <2>7. /\ moved' \in [Readers -> SUBSET Incidents]
        /\ \A r \in Readers : key[r] # NoKey =>
             /\ moved[r] \subseteq moved'[r]
             /\ \A j \in Incidents \ moved'[r] : incident'[j] = incident[j]
    BY <2>1, <2>5
  <2>8. changes' \in 0 .. MaxChanges
    BY <1>1, <2>1
  <2> HIDE DEF ls
  <2>9. WorldStep(ls)
    BY <2>2, <2>3, <2>4, <2>6, <2>7, <2>8 DEF WorldStep
  <2> QED BY <2>9 DEF ls
<1> QED
  BY <1>2, <1>3, <1>4, <1>5

(* The readers and the cache do not notice a change; what has changed since  *)
(* a Read began is known by its time.                                        *)
LEMMA WorldKeepsIInv ==
  ASSUME IInv, NEW ls \in SUBSET Lists, WorldStep(ls)
  PROVE  IInv'
<1>1. /\ now' = now /\ asked' = asked /\ cache' = cache /\ key' = key /\ seen' = seen
      /\ started' = started /\ finished' = finished
  BY DEF WorldStep
<1>2. TypeOK'
  <2>1. changedAt' \in [Lists -> 0 .. now']
    BY <1>1 DEF WorldStep, IInv, TypeOK
  <2> QED
    BY <1>1, <2>1 DEF WorldStep, IInv, TypeOK
<1>3. ASSUME NEW l \in Lists, NEW t \in 0 .. now, changedAt'[l] < t
      PROVE  changedAt[l] < t /\ Answers(l)' = Answers(l)
  BY <1>3 DEF WorldStep, IInv, TypeOK
<1>4. SeenOK'
  BY <1>1 DEF IInv, SeenOK
<1>5. SeenCurrent'
  <2> SUFFICES ASSUME NEW r \in Readers, NEW l \in DOMAIN seen[r], changedAt'[l] < started[r]
               PROVE  seen[r][l] \in Answers(l)'
    BY <1>1 DEF SeenCurrent
  <2>1. l \in Lists /\ started[r] \in 0 .. now
    BY NeedsLists, ViewsAssumption DEF IInv, TypeOK
  <2> QED
    BY <2>1, <1>3 DEF IInv, SeenCurrent
<1>6. MovedSeen'
  <2> SUFFICES ASSUME NEW r \in Readers, key[r] # NoKey PROVE UnmovedSeen(r)'
    BY <1>1 DEF MovedSeen
  <2>1. UnmovedSeen(r)
    BY DEF IInv, MovedSeen
  <2>2. moved[r] \subseteq moved'[r] /\ finished[r] \subseteq Incidents
    BY DEF WorldStep, IInv, TypeOK
  <2>3. ASSUME NEW i \in Incidents \ moved'[r], NEW s
        PROVE  i \in WithStatus(s)' <=> i \in WithStatus(s)
    BY <2>3 DEF WorldStep, WithStatus
  <2>4. (finished[r] \ moved[r] \subseteq Finished)'
    BY <1>1, <2>1, <2>2, <2>3 DEF UnmovedSeen, Finished
  <2>5. ASSUME NEW s \in DOMAIN seen[r] \cap {"completed", "failed"}
        PROVE  /\ seen[r][s] \subseteq Incidents
               /\ seen[r][s] \ moved'[r] \subseteq WithStatus(s)'
               /\ Cardinality(seen[r][s]) < PageLimit
                    => \A i \in finished[r] \ moved'[r] : i \in WithStatus(s)' => i \in seen[r][s]
    BY <2>1, <2>2, <2>3 DEF UnmovedSeen
  <2> QED
    BY <1>1, <2>4, <2>5 DEF UnmovedSeen
<1>7. EntryInTime'
  BY <1>1 DEF IInv, EntryInTime
<1>8. EntryCurrent'
  <2> SUFFICES ASSUME NEW k \in DOMAIN cache, \A l \in Needs(k) : changedAt'[l] < cache[k].since
               PROVE  cache[k].view \in Current(k)'
    BY <1>1 DEF EntryCurrent
  <2>1. k \in Keys /\ cache[k].since \in 0 .. now /\ Needs(k) \subseteq Lists
    BY NeedsLists DEF IInv, TypeOK, EntryInTime
  <2>2. \A l \in Needs(k) : changedAt[l] < cache[k].since /\ Answers(l)' = Answers(l)
    BY <1>3, <2>1
  <2>3. Current(k)' = Current(k)
    BY <2>1, <2>2, CurrentStays
  <2> QED
    BY <2>2, <2>3 DEF IInv, EntryCurrent
<1>9. HistoryCountsOnce'
  BY <1>1 DEF IInv, HistoryCountsOnce
<1> QED
  BY <1>2, <1>4, <1>5, <1>6, <1>7, <1>8, <1>9 DEF IInv
-----------------------------------------------------------------------------
(* A step that leaves the cluster, the clock and the cache alone.            *)
Aside == UNCHANGED <<now, world, asked, cache>>

(* A step that leaves the clock, the cluster and the cache alone keeps what  *)
(* is said of them.                                                          *)
LEMMA AsideKeeps ==
  ASSUME IInv, Aside
  PROVE  /\ \A l : Answers(l)' = Answers(l)
         /\ Finished' = Finished /\ \A s : WithStatus(s)' = WithStatus(s)
         /\ EntryInTime' /\ EntryCurrent' /\ HistoryCountsOnce'
<1>1. /\ now' = now /\ node' = node /\ pod' = pod /\ incident' = incident /\ adr' = adr
      /\ changedAt' = changedAt /\ cache' = cache
  BY DEF Aside, world
<1>2. \A l : Answers(l)' = Answers(l)
  BY <1>1 DEF Answers, WithStatus, fetchReadme
<1>3. EntryCurrent'
  <2> SUFFICES ASSUME NEW k \in DOMAIN cache, \A l \in Needs(k) : changedAt[l] < cache[k].since
               PROVE  cache[k].view \in Current(k)'
    BY <1>1 DEF EntryCurrent
  <2>1. Current(k)' = Current(k)
    BY <1>2, CurrentStays DEF IInv, TypeOK
  <2> QED
    BY <2>1 DEF IInv, EntryCurrent
<1> QED
  BY <1>1, <1>2, <1>3 DEF IInv, Finished, WithStatus, EntryInTime, HistoryCountsOnce

(* A Read begins with nothing seen.                                          *)
LEMMA MissKeepsIInv ==
  ASSUME IInv, NEW r \in Readers, NEW k \in asked, Miss(r, k)
  PROVE  IInv'
<1>1. Aside
  BY DEF Miss, Aside
<1>2. k \in Keys /\ key[r] = NoKey /\ DOMAIN seen[r] = {}
  BY ViewsAssumption DEF Miss, IInv, TypeOK
<1>3. /\ key' = [key EXCEPT ![r] = k] /\ started' = [started EXCEPT ![r] = now]
      /\ finished' = [finished EXCEPT ![r] = Finished] /\ seen' = seen
      /\ now' = now /\ changedAt' = changedAt /\ moved' = moved
  BY DEF Miss, world
<1>4. TypeOK'
  <2>1. finished' \in [Readers -> SUBSET Incidents]
    BY <1>3 DEF Finished, WithStatus, IInv, TypeOK
  <2> QED
    BY <1>1, <1>2, <1>3, <2>1, ViewsAssumption DEF Aside, world, IInv, TypeOK
<1>5. SeenOK'
  BY <1>3 DEF IInv, SeenOK
<1>6. SeenCurrent'
  BY <1>1, <1>2, <1>3, AsideKeeps DEF IInv, TypeOK, SeenCurrent
<1>7. MovedSeen'
  <2>1. UnmovedSeen(r)'
    BY <1>1, <1>2, <1>3, AsideKeeps DEF IInv, TypeOK, UnmovedSeen
  <2>2. ASSUME NEW q \in Readers, q # r, key'[q] # NoKey
        PROVE  UnmovedSeen(q)'
    BY <1>1, <1>3, <2>2, AsideKeeps DEF IInv, TypeOK, MovedSeen, UnmovedSeen
  <2> QED
    BY <2>1, <2>2 DEF MovedSeen
<1> QED
  BY <1>1, <1>4, <1>5, <1>6, <1>7, AsideKeeps DEF IInv

(* An answer that arrives is the cluster's now, and the Read knows it for    *)
(* current.                                                                  *)
LEMMA ListKeepsIInv ==
  ASSUME IInv, NEW r \in Readers, NEW l \in Lists, List(r, l)
  PROVE  IInv'
<1>1. Aside
  BY DEF List, Aside
<1>2. PICK a \in Answers(l) : seen' = [seen EXCEPT ![r] = With(seen[r], l, a)]
  BY DEF List
<1>3. /\ key' = key /\ started' = started /\ finished' = finished /\ moved' = moved
      /\ now' = now /\ changedAt' = changedAt
      /\ key[r] # NoKey /\ l \in Needs(key[r])
  BY DEF List, world
<1>4. DOMAIN seen' = Readers /\ \A q \in Readers \ {r} : seen'[q] = seen[q]
  BY <1>2 DEF IInv, TypeOK
<1>5. /\ DOMAIN seen'[r] = DOMAIN seen[r] \cup {l}
      /\ seen'[r][l] = a
      /\ \A m \in DOMAIN seen[r] : m # l => seen'[r][m] = seen[r][m]
      /\ seen'[r] = [m \in DOMAIN seen'[r] |-> seen'[r][m]]
  <2> DEFINE f == seen[r]
  <2>1. seen'[r] = [m \in DOMAIN f \cup {l} |-> IF m = l THEN a ELSE f[m]]
    BY <1>2 DEF With, IInv, TypeOK
  <2> HIDE DEF f
  <2>2. /\ DOMAIN seen'[r] = DOMAIN f \cup {l}
        /\ seen'[r][l] = a
        /\ \A m \in DOMAIN f : m # l => seen'[r][m] = f[m]
        /\ seen'[r] = [m \in DOMAIN seen'[r] |-> seen'[r][m]]
    BY <2>1
  <2> QED
    BY <2>2 DEF f
<1>6. TypeOK'
  <2>1. DOMAIN seen'[r] \subseteq Needs(key[r])
    BY <1>3, <1>5 DEF IInv, TypeOK
  <2> QED
    BY <1>1, <1>3, <1>4, <2>1, AsideKeeps DEF Aside, world, IInv, TypeOK
<1>7. SeenOK'
  <2>1. seen'[r] = [m \in DOMAIN seen'[r] |-> seen'[r][m]]
    BY <1>5
  <2>2. ASSUME NEW q \in Readers, q # r
        PROVE  seen'[q] = [m \in DOMAIN seen'[q] |-> seen'[q][m]]
    BY <1>4, <2>2 DEF IInv, SeenOK
  <2> QED
    BY <2>1, <2>2 DEF SeenOK
<1>8. SeenCurrent'
  <2> SUFFICES ASSUME NEW q \in Readers, NEW m \in DOMAIN seen'[q], changedAt[m] < started[q]
               PROVE  seen'[q][m] \in Answers(m)
    BY <1>1, <1>3, AsideKeeps DEF SeenCurrent
  <2>1. CASE q = r /\ m = l
    BY <2>1, <1>5
  <2>2. CASE q = r /\ m # l
    BY <2>2, <1>5 DEF IInv, SeenCurrent
  <2>3. CASE q # r
    BY <2>3, <1>4 DEF IInv, SeenCurrent
  <2> QED
    BY <2>1, <2>2, <2>3
<1>9. MovedSeen'
  <2>1. ASSUME NEW q \in Readers, q # r, key[q] # NoKey
        PROVE  UnmovedSeen(q)'
    BY <1>1, <1>3, <1>4, <2>1, AsideKeeps DEF IInv, MovedSeen, UnmovedSeen
  <2>2. UnmovedSeen(r)'
    <3>1. UnmovedSeen(r)
      BY <1>3 DEF IInv, MovedSeen
    <3>2. ASSUME NEW s \in DOMAIN seen'[r] \cap {"completed", "failed"}
          PROVE  /\ seen'[r][s] \subseteq Incidents
                 /\ seen'[r][s] \ moved[r] \subseteq WithStatus(s)
                 /\ Cardinality(seen'[r][s]) < PageLimit
                      => \A i \in finished[r] \ moved[r] : i \in WithStatus(s) => i \in seen'[r][s]
      <4>1. CASE s = l
        <5>1. Answers(l) = Pages(WithStatus(l))
          BY <4>1 DEF Answers
        <5>2. a \subseteq WithStatus(l) /\ (Cardinality(a) < PageLimit => a = WithStatus(l))
          BY <5>1, PagesRight
        <5>3. WithStatus(l) \subseteq Incidents
          BY DEF WithStatus
        <5> QED
          BY <1>5, <4>1, <5>2, <5>3
      <4>2. CASE s # l
        BY <1>5, <3>1, <4>2 DEF UnmovedSeen
      <4> QED BY <4>1, <4>2
    <3> QED
      BY <1>1, <1>3, <3>1, <3>2, AsideKeeps DEF UnmovedSeen
  <2> QED
    BY <1>3, <2>1, <2>2 DEF MovedSeen
<1> QED
  BY <1>1, <1>6, <1>7, <1>8, <1>9, AsideKeeps DEF IInv

(* A Read that ends leaves its reader as it was before.                      *)
LEMMA ReturnKeeps ==
  ASSUME IInv, NEW r \in Readers, Return(r), UNCHANGED <<now, world, asked>>
  PROVE  /\ \A l : Answers(l)' = Answers(l)
         /\ SeenOK' /\ SeenCurrent' /\ MovedSeen'
         /\ /\ DOMAIN cache' \subseteq Keys
            /\ \A k \in DOMAIN cache' : cache'[k].expiration <= now + TTL[k]
            => TypeOK'
<1>1. /\ now' = now /\ asked' = asked /\ node' = node /\ pod' = pod /\ incident' = incident
      /\ adr' = adr /\ changedAt' = changedAt /\ changes' = changes
  BY DEF world
<1>2. (\A l : Answers(l)' = Answers(l)) /\ (\A s : WithStatus(s)' = WithStatus(s))
  BY <1>1 DEF Answers, WithStatus, fetchReadme
<1>3. /\ DOMAIN seen' = Readers /\ seen'[r] = Unread /\ DOMAIN Unread = {}
      /\ \A q \in Readers \ {r} : seen'[q] = seen[q]
  BY DEF Return, IInv, TypeOK, Unread
<1>4. \A q \in Readers \ {r} : key'[q] = key[q] /\ started'[q] = started[q]
                              /\ finished'[q] = finished[q] /\ moved'[q] = moved[q]
  BY DEF Return, IInv, TypeOK
<1>5. /\ key' \in [Readers -> Keys \cup {NoKey}] /\ key'[r] = NoKey
      /\ started' \in [Readers -> 0 .. now] /\ finished' \in [Readers -> SUBSET Incidents]
      /\ moved' \in [Readers -> SUBSET Incidents]
  BY ViewsAssumption DEF Return, IInv, TypeOK
<1>6. SeenOK'
  <2>1. Unread = [l \in DOMAIN Unread |-> Unread[l]]
    BY DEF Unread
  <2> QED
    BY <1>3, <2>1 DEF IInv, SeenOK
<1>7. SeenCurrent'
  BY <1>1, <1>2, <1>3, <1>4 DEF IInv, SeenCurrent
<1>8. MovedSeen'
  <2> SUFFICES ASSUME NEW q \in Readers, key'[q] # NoKey PROVE UnmovedSeen(q)'
    BY DEF MovedSeen
  <2>1. q # r
    BY <1>5
  <2>2. UnmovedSeen(q)
    BY <1>4, <2>1 DEF IInv, MovedSeen
  <2> QED
    BY <1>2, <1>3, <1>4, <2>1, <2>2 DEF UnmovedSeen, Finished
<1>10. ASSUME NEW q \in Readers
       PROVE  /\ key'[q] # NoKey => now <= started'[q] + FetchLimit
              /\ DOMAIN seen'[q] \subseteq IF key'[q] = NoKey THEN {} ELSE Needs(key'[q])
  BY <1>3, <1>4, <1>5 DEF IInv, TypeOK
<1>11. /\ DOMAIN cache' \subseteq Keys
       /\ \A k \in DOMAIN cache' : cache'[k].expiration <= now + TTL[k]
       => TypeOK'
  BY <1>1, <1>3, <1>5, <1>10 DEF IInv, TypeOK
<1> QED
  BY <1>2, <1>6, <1>7, <1>8, <1>11

(* A Read that fails forgets what it saw.                                    *)
LEMMA ListFailsKeepsIInv ==
  ASSUME IInv, NEW r \in Readers, ListFails(r)
  PROVE  IInv'
<1>1. Aside /\ Return(r) /\ cache' = cache
  BY DEF ListFails, Aside
<1>2. TypeOK' /\ SeenOK' /\ SeenCurrent' /\ MovedSeen'
  BY <1>1, ReturnKeeps DEF Aside, IInv, TypeOK
<1> QED
  BY <1>1, <1>2, AsideKeeps DEF IInv

(* What a Read stores, and that the other entries stay.                      *)
Entry(r) == [view |-> View(key[r], seen[r]), since |-> started[r],
             expiration |-> now + TTL[key[r]], finished |-> finished[r],
             moved |-> moved[r]]

(* What a Read stores, and under which key.                                  *)
LEMMA StoreFacts ==
  ASSUME IInv, NEW r \in Readers, Store(r)
  PROVE  /\ key[r] \in Keys /\ DOMAIN seen[r] = Needs(key[r])
         /\ Return(r) /\ UNCHANGED <<now, world, asked>>
         /\ DOMAIN cache' = DOMAIN cache \cup {key[r]}
         /\ cache'[key[r]] = Entry(r)
         /\ \A k \in DOMAIN cache \ {key[r]} : cache'[k] = cache[k]
<1>1. key[r] \in Keys /\ DOMAIN seen[r] = Needs(key[r])
  BY DEF Store, IInv, TypeOK
<1>2. cache' = [k \in DOMAIN cache \cup {key[r]} |-> IF k = key[r] THEN Entry(r) ELSE cache[k]]
  BY DEF Store, With, Entry
<1> QED
  BY <1>1, <1>2 DEF Store

(* A history that was put together while incidents went on.                  *)
LEMMA HistoryCounts ==
  ASSUME IInv, NEW r \in Readers, key[r] # NoKey,
         DOMAIN seen[r] = {"completed", "failed"}
  PROVE  LET v == History(seen[r]["completed"], seen[r]["failed"])
             twice == v.completed \cap v.failed \cap moved[r]
         IN  /\ v.total = Cardinality(v.completed \cup v.failed) + Cardinality(twice)
             /\ Cardinality(v.completed) < PageLimit /\ Cardinality(v.failed) < PageLimit
                  => finished[r] \subseteq v.completed \cup v.failed \cup moved[r]
<1> DEFINE done == seen[r]["completed"]
           failed == seen[r]["failed"]
<1>1. UnmovedSeen(r)
  BY DEF IInv, MovedSeen
<1>2. /\ done \subseteq Incidents /\ done \ moved[r] \subseteq WithStatus("completed")
      /\ failed \subseteq Incidents /\ failed \ moved[r] \subseteq WithStatus("failed")
  BY <1>1 DEF UnmovedSeen
<1>3. ASSUME Cardinality(done) < PageLimit, Cardinality(failed) < PageLimit
      PROVE  finished[r] \subseteq done \cup failed \cup moved[r]
  BY <1>1, <1>3 DEF UnmovedSeen, Finished
<1>4. IsFiniteSet(done) /\ IsFiniteSet(failed)
  <2>1. done \in SUBSET Incidents /\ failed \in SUBSET Incidents
    BY <1>2
  <2> QED
    BY <2>1, FS_Subset, ViewsAssumption
<1>5. done \cap failed \cap moved[r] = done \cap failed
  BY <1>2 DEF WithStatus
<1>6. Cardinality(done) + Cardinality(failed)
        = Cardinality(done \cup failed) + Cardinality(done \cap failed)
  <2>1. Cardinality(done \cup failed)
          = Cardinality(done) + Cardinality(failed) - Cardinality(done \cap failed)
    BY <1>4, FS_Union
  <2>2. IsFiniteSet(done \cap failed)
    BY <1>4, FS_Intersection
  <2>3. /\ Cardinality(done) \in Nat /\ Cardinality(failed) \in Nat
        /\ Cardinality(done \cap failed) \in Nat
    BY <1>4, <2>2, FS_CardinalityType
  <2> HIDE DEF done, failed
  <2> QED
    BY <2>1, <2>3
<1> HIDE DEF done, failed
<1>7. LET v == History(done, failed)
          twice == v.completed \cap v.failed \cap moved[r]
      IN  /\ v.total = Cardinality(v.completed \cup v.failed) + Cardinality(twice)
          /\ Cardinality(v.completed) < PageLimit /\ Cardinality(v.failed) < PageLimit
               => finished[r] \subseteq v.completed \cup v.failed \cup moved[r]
  BY <1>3, <1>5, <1>6 DEF History
<1> QED
  BY <1>7 DEF done, failed

(* The stored summary is what the Read has seen.                             *)
LEMMA StoreKeepsIInv ==
  ASSUME IInv, NEW r \in Readers, Store(r)
  PROVE  IInv'
<1> DEFINE k == key[r]
<1>1. /\ k \in Keys /\ DOMAIN seen[r] = Needs(k)
      /\ Return(r) /\ UNCHANGED <<now, world, asked>>
      /\ DOMAIN cache' = DOMAIN cache \cup {k}
      /\ cache'[k] = Entry(r)
      /\ \A j \in DOMAIN cache \ {k} : cache'[j] = cache[j]
  BY StoreFacts
<1>2. /\ Entry(r).view = View(k, seen[r]) /\ Entry(r).since = started[r]
      /\ Entry(r).expiration = now + TTL[k]
      /\ Entry(r).finished = finished[r] /\ Entry(r).moved = moved[r]
  BY DEF Entry
<1>3. /\ now \in Nat /\ TTL[k] \in Nat /\ FetchLimit \in Nat
      /\ started[r] \in 0 .. now /\ now <= started[r] + FetchLimit
  BY <1>1, ViewsAssumption DEF Store, IInv, TypeOK
<1>4. TypeOK' /\ SeenOK' /\ SeenCurrent' /\ MovedSeen'
  <2>1. ASSUME NEW j \in DOMAIN cache'
        PROVE  j \in Keys /\ cache'[j].expiration <= now + TTL[j]
    <3>1. CASE j = k
      BY <3>1, <1>1, <1>2, <1>3
    <3>2. CASE j # k
      BY <3>2, <1>1 DEF IInv, TypeOK
    <3> QED BY <3>1, <3>2
  <2> QED
    BY <1>1, <2>1, ReturnKeeps
<1>5. \A l : Answers(l)' = Answers(l)
  BY <1>1, ReturnKeeps
<1>6. now' = now /\ changedAt' = changedAt
  BY <1>1 DEF world
<1>7. EntryInTime'
  <2> SUFFICES ASSUME NEW j \in DOMAIN cache'
               PROVE  /\ cache'[j].since \in 0 .. now
                      /\ cache'[j].expiration \in Nat
                      /\ cache'[j].expiration <= cache'[j].since + FetchLimit + TTL[j]
    BY <1>6 DEF EntryInTime
  <2>1. CASE j = k
    BY <2>1, <1>1, <1>2, <1>3
  <2>2. CASE j # k
    BY <2>2, <1>1 DEF IInv, EntryInTime
  <2> QED BY <2>1, <2>2
<1>8. EntryCurrent'
  <2> SUFFICES ASSUME NEW j \in DOMAIN cache',
                      \A l \in Needs(j) : changedAt[l] < cache'[j].since
               PROVE  cache'[j].view \in Current(j)'
    BY <1>6 DEF EntryCurrent
  <2>1. j \in Keys
    BY <1>1 DEF IInv, TypeOK
  <2>2. Current(j)' = Current(j)
    BY <1>5, <2>1, CurrentStays
  <2>3. CASE j = k
    <3>1. \A l \in Needs(k) : seen[r][l] \in Answers(l)
      BY <2>3, <1>1, <1>2 DEF IInv, SeenCurrent
    <3>2. seen[r] = [l \in Needs(k) |-> seen[r][l]]
      BY <1>1 DEF IInv, SeenOK
    <3>3. View(k, seen[r]) \in Current(k)
      <4> DEFINE t == seen[r]
                 A == UNION {Answers(l) : l \in Needs(k)}
      <4>1. \A l \in Needs(k) : t[l] \in A
        BY <3>1
      <4>2. t \in [Needs(k) -> A]
        <5> HIDE DEF t, A
        <5> QED BY <3>2, <4>1 DEF t
      <4> HIDE DEF t
      <4> QED BY <3>1, <4>2 DEF Current, t
    <3> QED
      BY <2>2, <2>3, <3>3, <1>1, <1>2
  <2>4. CASE j # k
    BY <2>2, <2>4, <1>1 DEF IInv, EntryCurrent
  <2> QED BY <2>3, <2>4
<1>9. HistoryCountsOnce'
  <2> SUFFICES ASSUME "history" \in Keys, "history" \in DOMAIN cache'
               PROVE  LET e == cache'["history"]
                          v == e.view
                          twice == v.completed \cap v.failed \cap e.moved
                      IN  /\ v.total = Cardinality(v.completed \cup v.failed) + Cardinality(twice)
                          /\ /\ Cardinality(v.completed) < PageLimit
                             /\ Cardinality(v.failed) < PageLimit
                             => e.finished \subseteq v.completed \cup v.failed \cup e.moved
    BY DEF HistoryCountsOnce
  <2>1. CASE k = "history"
    <3>1. Needs("history") = {"completed", "failed"}
      BY Zenon DEF Needs
    <3>2. View("history", seen[r]) = History(seen[r]["completed"], seen[r]["failed"])
      BY Zenon DEF View
    <3>3. key[r] # NoKey
      BY DEF Store
    <3> QED
      BY <2>1, <3>1, <3>2, <3>3, <1>1, <1>2, HistoryCounts
  <2>2. CASE k # "history"
    BY <2>2, <1>1 DEF IInv, HistoryCountsOnce
  <2> QED BY <2>1, <2>2
<1> QED
  BY <1>4, <1>7, <1>8, <1>9 DEF IInv

(* Time passes within every Read's limit.                                    *)
LEMMA TickKeepsIInv ==
  ASSUME IInv, Tick
  PROVE  IInv'
<1>1. /\ now' = now + 1 /\ now' \in 0 .. MaxTime /\ now \in Nat
      /\ node' = node /\ pod' = pod /\ incident' = incident /\ adr' = adr
      /\ changedAt' = changedAt /\ changes' = changes
      /\ asked' = asked /\ cache' = cache /\ key' = key /\ seen' = seen
      /\ started' = started /\ finished' = finished /\ moved' = moved
  BY ViewsAssumption DEF Tick, world, readers, IInv, TypeOK
<1>2. \A l : Answers(l)' = Answers(l)
  BY <1>1 DEF Answers, WithStatus, fetchReadme
<1>3. TypeOK'
  <2>1. 0 .. now \subseteq 0 .. now'
    BY <1>1
  <2>2. changedAt' \in [Lists -> 0 .. now'] /\ started' \in [Readers -> 0 .. now']
    BY <1>1, <2>1 DEF IInv, TypeOK
  <2>4. ASSUME NEW r \in Readers
        PROVE  key[r] # NoKey => now' <= started[r] + FetchLimit
    BY <1>1, ViewsAssumption DEF Tick, IInv, TypeOK
  <2>5. ASSUME NEW k \in DOMAIN cache
        PROVE  cache[k].expiration <= now' + TTL[k]
    BY <1>1, ViewsAssumption DEF IInv, TypeOK, EntryInTime
  <2> QED
    BY <1>1, <2>2, <2>4, <2>5 DEF IInv, TypeOK
<1>4. SeenOK' /\ MovedSeen' /\ HistoryCountsOnce'
  BY <1>1 DEF IInv, SeenOK, MovedSeen, UnmovedSeen, Finished, WithStatus, HistoryCountsOnce
<1>5. SeenCurrent'
  BY <1>1, <1>2 DEF IInv, SeenCurrent
<1>6. EntryInTime'
  BY <1>1 DEF IInv, EntryInTime
<1>7. EntryCurrent'
  <2> SUFFICES ASSUME NEW k \in DOMAIN cache, \A l \in Needs(k) : changedAt[l] < cache[k].since
               PROVE  cache[k].view \in Current(k)'
    BY <1>1 DEF EntryCurrent
  <2>1. Current(k)' = Current(k)
    BY <1>2, CurrentStays DEF IInv, TypeOK
  <2> QED
    BY <2>1 DEF IInv, EntryCurrent
<1> QED
  BY <1>3, <1>4, <1>5, <1>6, <1>7 DEF IInv

(* Nothing is read or cached yet.                                            *)
LEMMA InitIInv == Init => IInv
<1> SUFFICES ASSUME Init PROVE IInv
  OBVIOUS
<1>1. /\ node \in [Nodes -> NodeStates] /\ pod \in [Pods -> Phases \cup {"absent"}]
      /\ incident \in [Incidents -> IncidentStates] /\ adr \in [ADRs -> Rows]
  BY ViewsAssumption DEF Init
<1>2. /\ now = 0 /\ changes = 0 /\ asked \in Asked
      /\ changedAt = [l \in Lists |-> 0] /\ DOMAIN cache = {}
      /\ key = [r \in Readers |-> NoKey] /\ seen = [r \in Readers |-> Unread]
      /\ started = [r \in Readers |-> 0] /\ finished = [r \in Readers |-> {}]
      /\ moved = [r \in Readers |-> {}]
  BY DEF Init, NoCache
<1>3. DOMAIN Unread = {} /\ Unread = [l \in DOMAIN Unread |-> Unread[l]]
  BY DEF Unread
<1>4. TypeOK
  BY <1>1, <1>2, <1>3, ViewsAssumption DEF TypeOK
<1>5. SeenOK /\ SeenCurrent /\ MovedSeen
  BY <1>2, <1>3 DEF SeenOK, SeenCurrent, MovedSeen
<1>6. EntryInTime /\ EntryCurrent /\ HistoryCountsOnce
  BY <1>2 DEF EntryInTime, EntryCurrent, HistoryCountsOnce
<1> QED
  BY <1>4, <1>5, <1>6 DEF IInv

(* Every step keeps the invariant.                                           *)
LEMMA NextKeepsIInv == IInv /\ [Next]_vars => IInv'
<1> SUFFICES ASSUME IInv, [Next]_vars PROVE IInv'
  OBVIOUS
<1>1. CASE NodeChanges \/ PodChanges \/ IncidentChanges \/ AdrsChange
  BY <1>1, WorldSteps, WorldKeepsIInv
<1>2. CASE Tick
  BY <1>2, TickKeepsIInv
<1>3. ASSUME NEW r \in Readers, NEW k \in asked, Miss(r, k)
      PROVE  IInv'
  BY <1>3, MissKeepsIInv
<1>4. ASSUME NEW r \in Readers, NEW l \in Lists, List(r, l)
      PROVE  IInv'
  BY <1>4, ListKeepsIInv
<1>5. ASSUME NEW r \in Readers, ListFails(r) \/ Store(r)
      PROVE  IInv'
  BY <1>5, ListFailsKeepsIInv, StoreKeepsIInv
<1>6. CASE UNCHANGED vars
  <2>1. Aside /\ seen' = seen /\ key' = key /\ started' = started /\ finished' = finished
        /\ moved' = moved
    BY <1>6 DEF vars, readers, Aside
  <2>2. TypeOK' /\ SeenOK' /\ SeenCurrent' /\ MovedSeen'
    BY <2>1, AsideKeeps
    DEF Aside, world, IInv, TypeOK, SeenOK, SeenCurrent, MovedSeen, UnmovedSeen
  <2> QED
    BY <2>1, <2>2, AsideKeeps DEF IInv
<1> QED
  BY <1>1, <1>2, <1>3, <1>4, <1>5, <1>6 DEF Next, Reader, Hit

(* The inductive invariant holds in every behaviour.                         *)
THEOREM Invariance == Spec => []IInv
<1> QED
  BY InitIInv, NextKeepsIInv, PTL DEF Spec

(* The type invariant: a Read is no older than a fetch may be, an entry holds *)
(* no more than its ttl (Read, SetWithTTL).                                  *)
THEOREM TypeCorrect == Spec => []TypeOK
<1>1. IInv => TypeOK
  BY DEF IInv
<1> QED
  BY <1>1, Invariance, PTL

(* A served view of a cluster that has been quiet for its ttl and a fetch is  *)
(* what the cluster is.                                                      *)
LEMMA QuietIsCurrent ==
  ASSUME IInv, NEW k \in Keys, Valid(k), Quiet(k)
  PROVE  cache[k].view \in Current(k)
<1>1. /\ cache[k].since \in 0 .. now /\ cache[k].expiration \in Nat /\ now <= cache[k].expiration
      /\ cache[k].expiration <= cache[k].since + FetchLimit + TTL[k]
      /\ FetchLimit \in Nat /\ TTL[k] \in Nat /\ now \in Nat
  BY ViewsAssumption DEF IInv, TypeOK, Valid, EntryInTime
<1>2. ASSUME NEW l \in Needs(k) PROVE changedAt[l] < cache[k].since
  <2>1. l \in Lists
    BY NeedsLists
  <2>2. changedAt[l] \in Nat
    BY <2>1 DEF IInv, TypeOK
  <2>3. now - changedAt[l] > TTL[k] + FetchLimit
    BY DEF Quiet
  <2> QED
    BY <1>1, <2>2, <2>3
<1> QED
  BY <1>2 DEF IInv, EntryCurrent, Valid

(* Staleness of the cached views is bounded by the ttl and a fetch, whatever  *)
(* the order in which slow and fast readers store (cacheAndReturn).          *)
THEOREM StalenessBounded == Spec => []QuietClusterSeen
<1>1. IInv => QuietClusterSeen
  BY QuietIsCurrent DEF QuietClusterSeen
<1> QED
  BY <1>1, Invariance, PTL

(* What GetClusterHealth and the nodes resource say of the same nodes.        *)
LEMMA SameCounts ==
  ASSUME NEW h \in {"health", "tool"}, NEW v \in Current(h), NEW w \in Current("nodes")
  PROVE  v.total = w.total /\ v.ready = w.ready
<1>1. Needs(h) = {"nodes", "pods"} /\ Needs("nodes") = {"nodes"}
  BY Zenon DEF Needs
<1>2. PICK s : v = View(h, s) /\ s["nodes"] \in Answers("nodes")
  BY <1>1 DEF Current
<1>3. PICK t : w = View("nodes", t) /\ t["nodes"] \in Answers("nodes")
  BY <1>1 DEF Current
<1>4. s["nodes"] = t["nodes"]
  BY <1>2, <1>3 DEF Answers
<1>5. /\ View(h, s) = GetClusterHealth(s["nodes"], s["pods"])
      /\ View("nodes", t) = NodesData(t["nodes"])
  BY Zenon DEF View
<1>6. \A ns, ps : /\ GetClusterHealth(ns, ps).total = NodesData(ns).total
                 /\ GetClusterHealth(ns, ps).ready = NodesData(ns).ready
  BY DEF GetClusterHealth, NodesData, Count
<1> QED
  BY <1>2, <1>3, <1>4, <1>5, <1>6

(* The two views of the nodes agree once the nodes are quiet.                *)
THEOREM TwoViewsAgree == Spec => []ViewsAgree
<1>1. IInv => ViewsAgree
  BY QuietIsCurrent, SameCounts DEF ViewsAgree
<1> QED
  BY <1>1, Invariance, PTL

(* The remediation history counts twice only incidents whose status changed   *)
(* while it was read, and misses only those, unless a page is full.          *)
THEOREM HistoryIsRight == Spec => []HistoryCountsOnce
<1>1. IInv => HistoryCountsOnce
  BY DEF IInv
<1> QED
  BY <1>1, Invariance, PTL

-----------------------------------------------------------------------------
(* What would be served changes with the clock and the cache only.           *)
LEMMA LiveStutters ==
  ASSUME now' = now, cache' = cache
  PROVE  Live' = Live
  BY DEF Live, Valid

(* A Read stores what it began to read within a fetch.                       *)
LEMMA StoreIsPut ==
  ASSUME IInv, NEW r \in Readers, Store(r)
  PROVE  \E k \in Keys : Cached!Put(k)
<1> PICK k \in Keys : k = key[r]
  BY StoreFacts
<1> DEFINE e == [value |-> started[r], expiration |-> now + TTL[k]]
<1>1. /\ now' = now
      /\ DOMAIN cache' = DOMAIN cache \cup {k}
      /\ cache'[k] = Entry(r)
      /\ \A j \in DOMAIN cache \ {k} : cache'[j] = cache[j]
  BY StoreFacts
<1>2. Entry(r).since = started[r] /\ Entry(r).expiration = now + TTL[k]
  BY DEF Entry
<1>3. /\ now \in Nat /\ TTL[k] \in Nat
      /\ started[r] \in 0 .. now /\ now <= started[r] + FetchLimit
  BY <1>1, ViewsAssumption DEF Store, IInv, TypeOK
<1>4. Valid(k)'
  <2>1. now <= now + TTL[k]
    BY <1>3
  <2> QED
    BY <1>1, <1>2, <2>1 DEF Valid
<1>5. ASSUME NEW j \in Keys
      PROVE  Live'[j] = IF j = k THEN e ELSE Live[j]
  <2>1. CASE j = k
    BY <2>1, <1>1, <1>2, <1>4 DEF Live
  <2>2. CASE j # k
    <3>1. Valid(j)' <=> Valid(j)
      BY <2>2, <1>1 DEF Valid
    <3> QED
      BY <2>2, <3>1, <1>1 DEF Live, Valid
  <2> QED BY <2>1, <2>2
<1>6. Live' = [Live EXCEPT ![k] = e]
  BY <1>5 DEF Live
<1> QED
  BY <1>1, <1>3, <1>6 DEF Cached!Put

(* The clock takes with it exactly the entries that have expired.            *)
LEMMA TickIsTick ==
  ASSUME IInv, Tick
  PROVE  Cached!Tick
<1>1. now' = now + 1 /\ now \in Nat /\ cache' = cache
  BY ViewsAssumption DEF Tick, IInv, TypeOK
<1>2. ASSUME NEW k \in Keys
      PROVE  Live'[k] = IF Live[k] # NoEntry /\ Live[k].expiration < now + 1
                        THEN NoEntry ELSE Live[k]
  <2>1. CASE Valid(k)
    <3> DEFINE e == [value |-> cache[k].since, expiration |-> cache[k].expiration]
    <3>1. e \in [value : Nat, expiration : Nat]
      BY <2>1 DEF Valid, IInv, EntryInTime
    <3>2. Live[k] = e /\ e # NoEntry /\ e.expiration = cache[k].expiration
      BY <2>1, <3>1, ViewsAssumption DEF Live
    <3>3. Valid(k)' <=> now + 1 <= e.expiration
      BY <1>1, <2>1 DEF Valid
    <3>4. Live'[k] = IF Valid(k)' THEN e ELSE NoEntry
      BY <1>1 DEF Live
    <3> HIDE DEF e
    <3> QED
      BY <1>1, <3>1, <3>2, <3>3, <3>4
  <2>2. CASE ~Valid(k)
    <3>1. ~Valid(k)'
      BY <1>1, <2>2 DEF Valid, IInv, EntryInTime
    <3> QED
      BY <2>2, <3>1 DEF Live
  <2> QED BY <2>1, <2>2
<1>3. Live' = [k \in Keys |-> IF Live[k] # NoEntry /\ Live[k].expiration < now + 1
                             THEN NoEntry ELSE Live[k]]
  BY <1>2 DEF Live
<1> QED
  BY <1>1, <1>3 DEF Cached!Tick

(* To the readers the cache is the abstract store of CacheStore.             *)
THEOREM ImplementsStore == Spec => CachedSpec
<1>1. Init => Cached!Init
  BY DEF Init, Cached!Init, Live, Valid, NoCache
<1>2. ASSUME IInv, [Next]_vars
      PROVE  [Cached!Next]_(Cached!vars)
  <2>1. CASE UNCHANGED <<now, cache>>
    BY <2>1, LiveStutters DEF Cached!vars
  <2>2. CASE Tick
    BY <1>2, <2>2, TickIsTick DEF Cached!Next
  <2>3. ASSUME NEW r \in Readers, Store(r)
        PROVE  Cached!Next
    BY <1>2, <2>3, StoreIsPut DEF Cached!Next
  <2>4. UNCHANGED <<now, cache>> \/ Tick \/ \E r \in Readers : Store(r)
    BY <1>2 DEF Next, vars, NodeChanges, PodChanges, IncidentChanges, AdrsChange,
                Reader, Hit, Miss, List, ListFails
  <2> QED
    BY <2>1, <2>2, <2>3, <2>4
<1> QED
  BY <1>1, <1>2, Invariance, PTL DEF Spec, CachedSpec, Cached!Spec
=============================================================================

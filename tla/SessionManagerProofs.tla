------------------------ MODULE SessionManagerProofs ------------------------
(***************************************************************************)
(* Proofs about SessionManager: its safety invariants for every number of   *)
(* sessions, handlers and clock values, the two action properties, and that *)
(* it implements SessionLife.                                               *)
(***************************************************************************)
EXTENDS SessionManager, FiniteSetTheorems, TLAPS

(* A handler inside a call holds a pointer to a session that was created.   *)
PointersUsed == \A c \in Clients : pc[c] # "idle" => ptr[c] \in used

(* The inductive invariant.  SessionsBounded alone is not inductive: a       *)
(* Cardinality says nothing of an infinite set; FullTTLFromLastUse needs to  *)
(* know that the session a handler extends is a created one.                *)
IInv ==
  /\ TypeOK
  /\ IsFiniteSet(sessions)
  /\ SessionsBounded
  /\ TouchedSessionPresent
  /\ PointersUsed
  /\ FullTTLFromLastUse

-----------------------------------------------------------------------------
(* A part of a finite map is finite and no larger.                           *)
LEMMA PartOfMap ==
  ASSUME NEW S, NEW T, IsFiniteSet(T), S \subseteq T
  PROVE  /\ IsFiniteSet(S)
         /\ Cardinality(S) \in Nat
         /\ Cardinality(S) <= Cardinality(T)
BY FS_Subset, FS_CardinalityType

(* The sweep a creation makes removes nothing but ids of the map.            *)
LEMMA KeptIsPart == KeptByCreate \subseteq sessions
BY DEF KeptByCreate, LiveSessions

(* One more id in a map below its limit leaves it within its limit.          *)
LEMMA OneMore ==
  ASSUME NEW S, NEW id, IsFiniteSet(S), Cardinality(S) < MaxSessions
  PROVE  /\ IsFiniteSet(S \cup {id})
         /\ Cardinality(S \cup {id}) <= MaxSessions
<1>1. Cardinality(S) \in Nat
  BY FS_CardinalityType
<1>2. IsFiniteSet(S \cup {id}) /\ \/ Cardinality(S \cup {id}) = Cardinality(S)
                                  \/ Cardinality(S \cup {id}) = Cardinality(S) + 1
  BY FS_AddElement
<1> QED
  BY <1>1, <1>2, ManagerAssumption

(* A step by which only ids leave the map keeps the invariant: removing ids  *)
(* happens with the lock free, so no handler is extending one of them.       *)
LEMMA RemovalKeepsIInv ==
  ASSUME IInv, sessions' \subseteq sessions, mutex = Unlocked,
         UNCHANGED <<now, used, session, mutex, pc, ptr, cleaner>>
  PROVE  IInv'
<1>1. TypeOK'
  BY DEF IInv, TypeOK
<1>2. IsFiniteSet(sessions') /\ SessionsBounded'
  BY PartOfMap, ManagerAssumption DEF IInv, SessionsBounded
<1>3. TouchedSessionPresent'
  BY ManagerAssumption DEF IInv, TouchedSessionPresent
<1>4. PointersUsed'
  BY DEF IInv, PointersUsed
<1>5. FullTTLFromLastUse'
  BY DEF IInv, FullTTLFromLastUse, BeingExtended
<1> QED
  BY <1>1, <1>2, <1>3, <1>4, <1>5 DEF IInv

(* The same for a handler that moves between the labels at which it holds no *)
(* lock; it removes an id only while nobody holds the lock.                  *)
LEMMA UnlockedMoveKeepsIInv ==
  ASSUME IInv, NEW c \in Clients, pc[c] \notin {"touching", "extending"},
         sessions' \subseteq sessions, sessions' = sessions \/ mutex = Unlocked,
         \/ Return(c)
         \/ \E id \in used : Goto(c, "looked", id) \/ Goto(c, "expired", id),
         UNCHANGED <<now, used, session, mutex, cleaner>>
  PROVE  IInv'
<1>1. /\ pc' \in [Clients -> PCs]
      /\ ptr' \in [Clients -> SessionIds \cup {NoId}]
      /\ pc'[c] \in {"idle", "looked", "expired"}
      /\ pc'[c] # "idle" => ptr'[c] \in used
      /\ \A d \in Clients \ {c} : pc'[d] = pc[d] /\ ptr'[d] = ptr[d]
  BY DEF IInv, TypeOK, Return, Goto, PCs
<1>2. TypeOK'
  BY <1>1 DEF IInv, TypeOK
<1>3. IsFiniteSet(sessions') /\ SessionsBounded'
  BY PartOfMap, ManagerAssumption DEF IInv, SessionsBounded
<1>4. TouchedSessionPresent'
  BY <1>1, ManagerAssumption DEF IInv, TouchedSessionPresent
<1>5. PointersUsed'
  BY <1>1 DEF IInv, PointersUsed
<1>6. \A id : BeingExtended(id) => BeingExtended(id)'
  BY <1>1 DEF BeingExtended
<1>7. FullTTLFromLastUse'
  BY <1>6 DEF IInv, FullTTLFromLastUse
<1> QED
  BY <1>2, <1>3, <1>4, <1>5, <1>7 DEF IInv

(* A handler that creates a session.                                         *)
LEMMA CreateKeepsIInv ==
  ASSUME IInv, NEW c \in Clients, NEW id \in SessionIds, CreateSession(c, id)
  PROVE  IInv'
<1> USE DEF CreateSession
<1>1. now + TTL \in Times /\ now \in Times
  BY ManagerAssumption DEF IInv, TypeOK, Times
<1>2. TypeOK'
  BY <1>1, KeptIsPart DEF IInv, TypeOK, Session
<1>3. IsFiniteSet(sessions') /\ SessionsBounded'
  BY KeptIsPart, PartOfMap, OneMore DEF IInv, SessionsBounded
<1>4. TouchedSessionPresent'
  BY ManagerAssumption DEF IInv, TouchedSessionPresent
<1>5. PointersUsed'
  BY DEF IInv, PointersUsed
<1>6. \A i : BeingExtended(i) => BeingExtended(i)'
  BY DEF BeingExtended
<1>7. session'[id] = [lastUsed |-> now, expiresAt |-> now + TTL]
  BY DEF IInv, TypeOK
<1>8. \A i \in used : session'[i] = session[i]
  BY DEF IInv, TypeOK
<1>9. FullTTLFromLastUse'
  <2> SUFFICES ASSUME NEW i \in used'
               PROVE  LET s == session'[i] IN
                        /\ s.lastUsed <= now /\ s.expiresAt <= now + TTL
                        /\ BeingExtended(i)' \/ s.lastUsed + TTL <= s.expiresAt
    BY DEF FullTTLFromLastUse
  <2>1. CASE i = id
    BY <2>1, <1>7, ManagerAssumption DEF IInv, TypeOK
  <2>2. CASE i \in used
    BY <2>2, <1>6, <1>8 DEF IInv, FullTTLFromLastUse
  <2> QED
    BY <2>1, <2>2
<1> QED
  BY <1>2, <1>3, <1>4, <1>5, <1>9 DEF IInv

(* The three steps of TouchSession on a session that has not expired.        *)
LEMMA TouchBeginKeepsIInv ==
  ASSUME IInv, NEW c \in Clients, NEW id \in sessions, pc[c] = "idle",
         mutex = Unlocked, mutex' = c, Goto(c, "touching", id),
         UNCHANGED <<now, used, sessions, session, cleaner>>
  PROVE  IInv'
<1>1. TypeOK'
  BY DEF IInv, TypeOK, Goto, PCs
<1>2. IsFiniteSet(sessions') /\ SessionsBounded'
  BY DEF IInv, SessionsBounded
<1>3. \A d \in Clients : pc[d] \notin {"touching", "extending"}
  BY ManagerAssumption DEF IInv, TouchedSessionPresent
<1>4. TouchedSessionPresent'
  BY <1>3 DEF IInv, TypeOK, TouchedSessionPresent, Goto
<1>5. PointersUsed'
  BY DEF IInv, TypeOK, PointersUsed, Goto
<1>6. FullTTLFromLastUse'
  BY <1>3 DEF IInv, FullTTLFromLastUse, BeingExtended
<1> QED
  BY <1>1, <1>2, <1>4, <1>5, <1>6 DEF IInv

(* The first write of a touch: the session is in the map, so it is a used    *)
(* one.                                                                      *)
LEMMA TouchLastUsedKeepsIInv ==
  ASSUME IInv, NEW c \in Clients, TouchLastUsed(c)
  PROVE  IInv'
<1> USE DEF TouchLastUsed, Goto
<1>1. ptr[c] \in used /\ ptr[c] \in SessionIds /\ mutex = c /\ now \in Times
  BY ManagerAssumption
     DEF IInv, TypeOK, PointersUsed, TouchedSessionPresent, Times
<1>2. TypeOK'
  BY <1>1 DEF IInv, TypeOK, PCs, Session
<1>3. IsFiniteSet(sessions') /\ SessionsBounded'
  BY DEF IInv, SessionsBounded
<1>4. TouchedSessionPresent'
  BY <1>1 DEF IInv, TypeOK, TouchedSessionPresent
<1>5. PointersUsed'
  BY <1>1 DEF IInv, TypeOK, PointersUsed
<1>6. BeingExtended(ptr[c])' /\ \A i : BeingExtended(i) => BeingExtended(i)'
  BY DEF IInv, TypeOK, BeingExtended
<1>7. /\ session'[ptr[c]] = [session[ptr[c]] EXCEPT !.lastUsed = now]
      /\ \A i \in used \ {ptr[c]} : session'[i] = session[i]
  BY <1>1 DEF IInv, TypeOK
<1>8. session'[ptr[c]].expiresAt = session[ptr[c]].expiresAt /\ session'[ptr[c]].lastUsed = now
  BY <1>1, <1>7 DEF IInv, TypeOK, Session
<1>9. FullTTLFromLastUse'
  BY <1>6, <1>7, <1>8 DEF IInv, TypeOK, FullTTLFromLastUse
<1> QED
  BY <1>2, <1>3, <1>4, <1>5, <1>9 DEF IInv

(* The second write renews the expiry and gives the lock back.               *)
LEMMA TouchExpiresKeepsIInv ==
  ASSUME IInv, NEW c \in Clients, TouchExpires(c)
  PROVE  IInv'
<1> USE DEF TouchExpires, Return
<1>1. ptr[c] \in used /\ ptr[c] \in SessionIds /\ mutex = c /\ now + TTL \in Times
  BY ManagerAssumption
     DEF IInv, TypeOK, PointersUsed, TouchedSessionPresent, Times
<1>2. TypeOK'
  BY <1>1 DEF IInv, TypeOK, PCs, Session
<1>3. IsFiniteSet(sessions') /\ SessionsBounded'
  BY DEF IInv, SessionsBounded
<1>4. TouchedSessionPresent'
  BY <1>1 DEF IInv, TypeOK, TouchedSessionPresent
<1>5. PointersUsed'
  BY <1>1 DEF IInv, TypeOK, PointersUsed
<1>6. \A i \in used \ {ptr[c]} : BeingExtended(i) => BeingExtended(i)'
  BY DEF IInv, TypeOK, BeingExtended
<1>7. /\ session'[ptr[c]] = [session[ptr[c]] EXCEPT !.expiresAt = now + TTL]
      /\ \A i \in used \ {ptr[c]} : session'[i] = session[i]
  BY <1>1 DEF IInv, TypeOK
<1>8. /\ session'[ptr[c]].expiresAt = now + TTL
      /\ session'[ptr[c]].lastUsed = session[ptr[c]].lastUsed
      /\ session[ptr[c]].lastUsed \in Int /\ session[ptr[c]].lastUsed <= now
  BY <1>1, <1>7 DEF IInv, TypeOK, Session, Times, FullTTLFromLastUse
<1>9. FullTTLFromLastUse'
  BY <1>6, <1>7, <1>8, ManagerAssumption DEF IInv, TypeOK, FullTTLFromLastUse
<1> QED
  BY <1>2, <1>3, <1>4, <1>5, <1>9 DEF IInv

(* The clock moves on: what was written before stays within its bounds.      *)
LEMMA TickKeepsIInv ==
  ASSUME IInv, Tick
  PROVE  IInv'
<1> USE DEF Tick
<1>1. TypeOK'
  BY ManagerAssumption DEF IInv, TypeOK
<1>2. IsFiniteSet(sessions') /\ SessionsBounded' /\ TouchedSessionPresent' /\ PointersUsed'
  BY DEF IInv, SessionsBounded, TouchedSessionPresent, PointersUsed
<1>3. \A i : BeingExtended(i) => BeingExtended(i)'
  BY DEF BeingExtended
<1>4. \A i \in used : session[i].lastUsed \in Int /\ session[i].expiresAt \in Int
  BY DEF IInv, TypeOK, Session, Times
<1>5. FullTTLFromLastUse'
  BY <1>3, <1>4, ManagerAssumption DEF IInv, TypeOK, FullTTLFromLastUse
<1> QED
  BY <1>1, <1>2, <1>5 DEF IInv

-----------------------------------------------------------------------------
(* An empty map.                                                             *)
LEMMA InitIInv == Init => IInv
<1> SUFFICES ASSUME Init PROVE IInv
  OBVIOUS
<1>1. IsFiniteSet({}) /\ Cardinality({}) = 0
  BY FS_EmptySet
<1>2. 0 \in Times /\ 0 \in 0 .. MaxTime
  BY ManagerAssumption DEF Times
<1> QED
  BY <1>1, <1>2, ManagerAssumption
     DEF Init, IInv, TypeOK, PCs, Session, SessionsBounded, TouchedSessionPresent,
         PointersUsed, FullTTLFromLastUse

(* One step per action of Next.                                              *)
LEMMA NextIInv == IInv /\ [Next]_vars => IInv'
<1> SUFFICES ASSUME IInv, [Next]_vars PROVE IInv'
  OBVIOUS
<1>1. CASE Tick
  BY <1>1, TickKeepsIInv
<1>2. CASE CleanupExpired
  BY <1>2, RemovalKeepsIInv DEF CleanupExpired, LiveSessions
<1>3. CASE Stop \/ CleanupReturns
  <2>1. TypeOK'
    BY <1>3 DEF IInv, TypeOK, Stop, CleanupReturns
  <2>2. /\ IsFiniteSet(sessions') /\ SessionsBounded' /\ TouchedSessionPresent'
        /\ PointersUsed' /\ FullTTLFromLastUse'
    BY <1>3 DEF IInv, Stop, CleanupReturns, SessionsBounded, TouchedSessionPresent,
                PointersUsed, FullTTLFromLastUse, BeingExtended
  <2> QED
    BY <2>1, <2>2 DEF IInv
<1>4. ASSUME NEW c \in Clients, Handler(c) PROVE IInv'
  <2>1. CASE CreateRefused(c) \/ CreateFails(c)
    BY <2>1, KeptIsPart, RemovalKeepsIInv DEF CreateRefused, CreateFails
  <2>2. ASSUME NEW id \in SessionIds, CreateSession(c, id) PROVE IInv'
    BY <2>2, CreateKeepsIInv
  <2>3. ASSUME NEW id \in SessionIds, GetLookup(c, id) PROVE IInv'
    <3>1. id \in used /\ pc[c] = "idle" /\ sessions' = sessions
      BY <2>3 DEF GetLookup, IInv, TypeOK
    <3> QED
      BY <3>1, <2>3, UnlockedMoveKeepsIInv DEF GetLookup
  <2>4. ASSUME NEW id \in SessionIds, TouchCheck(c, id) PROVE IInv'
    <3>1. CASE id \notin LiveSessions
      BY <3>1, <2>4, UnlockedMoveKeepsIInv DEF TouchCheck
    <3>2. CASE id \in LiveSessions
      BY <3>2, <2>4, TouchBeginKeepsIInv DEF TouchCheck, LiveSessions
    <3> QED
      BY <3>1, <3>2
  <2>5. ASSUME NEW id \in SessionIds, DeleteSession(c, id) PROVE IInv'
    BY <2>5, UnlockedMoveKeepsIInv DEF DeleteSession
  <2>6. CASE GetCheck(c)
    <3>1. ptr[c] \in used /\ pc[c] = "looked" /\ sessions' = sessions
      BY <2>6 DEF GetCheck, IInv, PointersUsed
    <3> QED
      BY <3>1, <2>6, UnlockedMoveKeepsIInv DEF GetCheck
  <2>7. CASE GetDelete(c)
    BY <2>7, UnlockedMoveKeepsIInv DEF GetDelete
  <2>8. CASE TouchLastUsed(c)
    BY <2>8, TouchLastUsedKeepsIInv
  <2>9. CASE TouchExpires(c)
    BY <2>9, TouchExpiresKeepsIInv
  <2> QED
    BY <1>4, <2>1, <2>2, <2>3, <2>4, <2>5, <2>6, <2>7, <2>8, <2>9 DEF Handler
<1>5. CASE UNCHANGED vars
  BY <1>5 DEF vars, IInv, TypeOK, SessionsBounded, TouchedSessionPresent, PointersUsed,
              FullTTLFromLastUse, BeingExtended
<1> QED
  BY <1>1, <1>2, <1>3, <1>4, <1>5 DEF Next

(* The inductive invariant holds in every state of the manager.              *)
THEOREM Invariance == Spec => []IInv
BY InitIInv, NextIInv, PTL DEF Spec

(* Type correctness: no handler ever holds a pointer, and no session a time, *)
(* outside what the code can produce.                                        *)
THEOREM TypeCorrect == Spec => []TypeOK
<1>1. IInv => TypeOK
  BY DEF IInv
<1> QED
  BY <1>1, Invariance, PTL

(* CreateSession's double check of len(sm.sessions) keeps the map within     *)
(* maxSessons for any number of handlers.                                    *)
THEOREM SessionsStayBounded == Spec => []SessionsBounded
<1>1. IInv => SessionsBounded
  BY DEF IInv
<1> QED
  BY <1>1, Invariance, PTL

(* TouchSession writes only to a session that is in the map, under the lock. *)
THEOREM TouchIsExclusive == Spec => []TouchedSessionPresent
<1>1. IInv => TouchedSessionPresent
  BY DEF IInv
<1> QED
  BY <1>1, Invariance, PTL

(* A session is good for a full ttl after its last use, and for no more.     *)
THEOREM LeaseIsFullTTL == Spec => []FullTTLFromLastUse
<1>1. IInv => FullTTLFromLastUse
  BY DEF IInv
<1> QED
  BY <1>1, Invariance, PTL

-----------------------------------------------------------------------------
(* A creation is refused only when the map is full of live sessions.         *)
LEMMA RefusalStep ==
  ASSUME IInv, NEW c \in Clients, CreateRefused(c)
  PROVE  GetStats'.active = MaxSessions /\ GetStats'.expired = 0
<1> USE DEF CreateRefused
<1>1. Cardinality(sessions) \in Nat /\ Cardinality(sessions) <= MaxSessions
  BY PartOfMap, ManagerAssumption DEF IInv, SessionsBounded
<1>2. KeptByCreate = LiveSessions
  <2>1. Cardinality(sessions) >= MaxSessions
    BY <1>1, ManagerAssumption DEF KeptByCreate
  <2> QED
    BY <2>1 DEF KeptByCreate
<1>3. LiveSessions \subseteq sessions
  BY DEF LiveSessions
<1>4. Cardinality(LiveSessions) \in Nat /\ Cardinality(LiveSessions) <= Cardinality(sessions)
  BY <1>3, PartOfMap DEF IInv
<1>5. Cardinality(LiveSessions) = MaxSessions
  BY <1>1, <1>2, <1>4, ManagerAssumption
<1>6. LiveSessions' = LiveSessions /\ sessions' \ LiveSessions' = {}
  BY <1>2 DEF LiveSessions, Expired
<1>7. Cardinality(sessions' \ LiveSessions') = 0 /\ Cardinality(LiveSessions') = MaxSessions
  BY <1>5, <1>6, FS_EmptySet
<1> QED
  BY <1>7 DEF GetStats

(* A creation is refused only when the map is full of live sessions.         *)
THEOREM RefusalIsHonest == Spec => RefusedOnlyWhenFull
<1>1. IInv /\ [Next]_vars
        => [\A c \in Clients : CreateRefused(c)
              => GetStats'.active = MaxSessions /\ GetStats'.expired = 0]_vars
  BY RefusalStep
<1> QED
  BY <1>1, Invariance, PTL DEF Spec, RefusedOnlyWhenFull

(* A live session leaves the map only by a client's DELETE, or by the late   *)
(* deletion of a GetSession that found it expired.                           *)
THEOREM LiveStay == Spec => LiveSessionsStay
<1>1. ASSUME IInv, Next, NEW id \in LiveSessions \ sessions'
      PROVE  \E c \in Clients : DeleteSession(c, id) \/ (GetDelete(c) /\ ptr[c] = id)
  <2>1. id \in sessions /\ id \notin sessions' /\ id \in LiveSessions /\ id \in SessionIds
    BY <1>1 DEF LiveSessions, IInv, TypeOK
  <2>2. LiveSessions \subseteq KeptByCreate
    BY DEF KeptByCreate, LiveSessions
  <2>3. ~Tick /\ ~CleanupExpired /\ ~Stop /\ ~CleanupReturns
    BY <2>1 DEF Tick, CleanupExpired, Stop, CleanupReturns
  <2>4. PICK c \in Clients : Handler(c)
    BY <1>1, <2>3 DEF Next
  <2>5. /\ ~CreateRefused(c) /\ ~CreateFails(c) /\ ~GetCheck(c)
        /\ ~TouchLastUsed(c) /\ ~TouchExpires(c)
        /\ \A i \in SessionIds : ~CreateSession(c, i) /\ ~GetLookup(c, i) /\ ~TouchCheck(c, i)
    BY <2>1, <2>2 DEF CreateRefused, CreateFails, GetCheck, TouchLastUsed, TouchExpires,
                      CreateSession, GetLookup, TouchCheck
  <2>6. CASE GetDelete(c)
    BY <2>1, <2>6 DEF GetDelete
  <2>7. ASSUME NEW i \in SessionIds, DeleteSession(c, i)
        PROVE  DeleteSession(c, id)
    BY <2>1, <2>7 DEF DeleteSession
  <2> QED
    BY <2>4, <2>5, <2>6, <2>7 DEF Handler
<1>2. IInv /\ [Next]_vars
        => [\A id \in LiveSessions \ sessions' :
              \E c \in Clients : DeleteSession(c, id) \/ (GetDelete(c) /\ ptr[c] = id)]_vars
  BY <1>1
<1> QED
  BY <1>2, Invariance, PTL DEF Spec, LiveSessionsStay

-----------------------------------------------------------------------------
(* The write lock is held only by a TouchSession between its check and its    *)
(* deferred Unlock: no early return of any method leaves it locked.          *)
LockHolderTouches == mutex # Unlocked => pc[mutex] \in {"touching", "extending"}

(* GetCheck alone moves a handler while another may hold the lock.           *)
LEMMA NextKeepsLockHolder ==
  ASSUME IInv, LockHolderTouches, [Next]_vars
  PROVE  LockHolderTouches'
<1>1. pc \in [Clients -> PCs] /\ mutex \in Clients \cup {Unlocked}
  BY DEF IInv, TypeOK
<1>2. CASE UNCHANGED <<mutex, pc>>
  BY <1>2 DEF LockHolderTouches
<1>3. ASSUME NEW c \in Clients, Handler(c)
      PROVE  LockHolderTouches'
  <2>1. CASE mutex' = Unlocked
    BY <2>1 DEF LockHolderTouches
  <2>2. ASSUME NEW id \in SessionIds, TouchCheck(c, id), mutex' # Unlocked
        PROVE  mutex' = c /\ pc'[c] = "touching"
    BY <1>1, <2>2 DEF TouchCheck, Goto
  <2>3. CASE GetCheck(c)
    <3>1. mutex' = mutex /\ pc[c] = "looked" /\ \A d \in Clients \ {c} : pc'[d] = pc[d]
      BY <1>1, <2>3 DEF GetCheck, Goto, Return
    <3> QED
      BY <1>1, <3>1 DEF LockHolderTouches
  <2>4. CASE TouchLastUsed(c)
    <3>1. mutex' = mutex /\ pc' = [pc EXCEPT ![c] = "extending"]
      BY <2>4 DEF TouchLastUsed, Goto
    <3> QED
      BY <1>1, <3>1 DEF LockHolderTouches
  <2> QED
    BY <1>2, <1>3, <2>1, <2>2, <2>3, <2>4
    DEF Handler, CreateRefused, CreateFails, CreateSession, GetLookup, GetDelete,
        TouchExpires, DeleteSession, LockHolderTouches
<1> QED
  BY <1>2, <1>3 DEF Next, Tick, CleanupExpired, Stop, CleanupReturns, vars

(* The lock is never left behind.                                            *)
THEOREM LockNeverLeaks == Spec => []LockHolderTouches
<1>1. Init => LockHolderTouches
  BY DEF Init, LockHolderTouches
<1> QED
  BY Invariance, <1>1, NextKeepsLockHolder, PTL DEF Spec

-----------------------------------------------------------------------------
(* The manager implements SessionLife: first how the mapping reads a state.  *)
LEMMA ActiveAreInMap == TypeOK => Life!Active = sessions
BY DEF TypeOK, Life!Active, life

(* A step that only removes ids ends them.                                   *)
LEMMA RemovalIsEnd ==
  ASSUME TypeOK, sessions' \subseteq sessions, used' = used
  PROVE  Life!End(sessions \ sessions') /\ (sessions \ sessions') \in SUBSET SessionIds
<1>1. life' = [id \in SessionIds |-> IF id \in sessions \ sessions' THEN "gone" ELSE life[id]]
  BY DEF TypeOK, life
<1> QED
  BY <1>1, ActiveAreInMap DEF TypeOK, Life!End, Life!Retire

(* The instance counts with the same Cardinality.                            *)
LEMMA SameCardinality == \A S : Life!Cardinality(S) = Cardinality(S)
BY Zenon DEF Life!Cardinality, Cardinality

(* A creation admits its id and ends what the sweep removes.                 *)
LEMMA CreateIsAdmit ==
  ASSUME IInv, NEW c \in Clients, NEW id \in SessionIds, CreateSession(c, id)
  PROVE  Life!Admit(id, sessions \ KeptByCreate)
<1> DEFINE S == sessions \ KeptByCreate
<1> USE DEF CreateSession
<1>1. KeptByCreate \subseteq sessions /\ sessions \subseteq used /\ id \notin used
  BY KeptIsPart DEF IInv, TypeOK
<1>2. Life!Active = sessions
  BY ActiveAreInMap DEF IInv
<1>3. Life!Cardinality(Life!Active \ S) < MaxSessions
  <2>1. Life!Active \ S = KeptByCreate
    BY <1>1, <1>2
  <2> QED
    BY <2>1, SameCardinality
<1>4. life[id] = "unborn" /\ S \subseteq Life!Active
  BY <1>1, <1>2 DEF life
<1>5. life' = [Life!Retire(S) EXCEPT ![id] = "active"]
  BY <1>1 DEF Life!Retire, life
<1> QED
  BY <1>3, <1>4, <1>5 DEF Life!Admit

(* The manager implements SessionLife.                                       *)
THEOREM ImplementsLife == Spec => LifeSpec
<1>1. Init => Life!Init
  BY DEF Init, Life!Init, life
<1>2. ASSUME IInv, [Next]_vars
      PROVE  [Life!Next]_life
  <2> DEFINE S == sessions \ sessions'
  <2>1. CASE sessions' \subseteq sessions /\ used' = used
    <3>1. Life!End(S) /\ S \in SUBSET SessionIds
      BY <1>2, <2>1, RemovalIsEnd DEF IInv
    <3> QED
      BY <3>1 DEF Life!Next
  <2>2. ASSUME NEW c \in Clients, NEW id \in SessionIds, CreateSession(c, id)
        PROVE  Life!Next
    <3>1. Life!Admit(id, sessions \ KeptByCreate)
      BY <1>2, <2>2, CreateIsAdmit
    <3>2. sessions \ KeptByCreate \in SUBSET SessionIds
      BY <1>2 DEF IInv, TypeOK
    <3> QED
      BY <3>1, <3>2 DEF Life!Next
  <2>3. \/ sessions' \subseteq sessions /\ used' = used
        \/ \E c \in Clients : \E id \in SessionIds : CreateSession(c, id)
    BY <1>2, KeptIsPart
       DEF Next, Handler, vars, Tick, CleanupExpired, Stop, CleanupReturns, LiveSessions,
           CreateRefused, CreateFails, GetLookup, GetCheck, GetDelete, TouchCheck,
           TouchLastUsed, TouchExpires, DeleteSession
  <2> QED
    BY <2>1, <2>2, <2>3
<1> QED
  BY <1>1, <1>2, Invariance, PTL DEF Spec, LifeSpec, Life!Spec
=============================================================================

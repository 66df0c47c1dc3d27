--------------------------- MODULE SessionManager ---------------------------
(***************************************************************************)
(* The session manager of internal/server/session.go: a map of sessions    *)
(* under an RWMutex, called by the HTTP handlers (one goroutine for each   *)
(* request, here a member of Clients) and swept by a cleanup goroutine.    *)
(*                                                                         *)
(* A session is a heap object that handlers reach through a pointer, so    *)
(* `session` keeps its fields for good and `sessions` is the set of the    *)
(* ids that are in the map.  Every critical section is one action, except  *)
(* that of TouchSession: it reads the clock three times and writes two     *)
(* fields that GetSession reads without the lock, so it has three steps.   *)
(***************************************************************************)
EXTENDS Integers, FiniteSets

CONSTANTS SessionIds,   \* the ids generateSessionID can return
          Clients,      \* the handler goroutines
          MaxSessions,  \* maxSessons of the manager
          TTL,          \* ttl of the manager, in clock units
          MaxTime,      \* bound of the clock, for model checking
          Unlocked,     \* the value of mutex when no goroutine has written-locked it
          NoId          \* a handler that holds no session pointer

ASSUME ManagerAssumption ==
  /\ MaxSessions \in Nat \ {0}
  /\ TTL \in Nat \ {0}
  /\ MaxTime \in Nat
  /\ Unlocked \notin Clients
  /\ NoId \notin SessionIds

VARIABLES
  now,        \* time.Now()
  used,       \* the ids generated so far (16 random bytes: never the same twice)
  sessions,   \* the ids in sm.sessions
  session,    \* the Session objects; CreatedAt and Metadata are only reported
  mutex,      \* the handler inside TouchSession's critical section, or Unlocked
  pc,         \* where each handler is
  ptr,        \* the session each handler works on
  cleaner     \* the cleanup goroutine: "running", "stopping" (stopClean closed), "done"

vars == <<now, used, sessions, session, mutex, pc, ptr, cleaner>>

Times == 0 .. (MaxTime + TTL)

Session == [lastUsed : Times, expiresAt : Times]

PCs == {"idle", "looked", "expired", "touching", "extending"}

(* now.After(session.ExpiresAt): strict, a session is valid at ExpiresAt.  *)
Expired(id) == now > session[id].expiresAt

LiveSessions == {id \in sessions : ~Expired(id)}

Init ==
  /\ now = 0
  /\ used = {}
  /\ sessions = {}
  /\ session = [id \in SessionIds |-> [lastUsed |-> 0, expiresAt |-> 0]]
  /\ mutex = Unlocked
  /\ pc = [c \in Clients |-> "idle"]
  /\ ptr = [c \in Clients |-> NoId]
  /\ cleaner = "running"

-----------------------------------------------------------------------------
Return(c) ==
  /\ pc' = [pc EXCEPT ![c] = "idle"]
  /\ ptr' = [ptr EXCEPT ![c] = NoId]

Goto(c, label, id) ==
  /\ pc' = [pc EXCEPT ![c] = label]
  /\ ptr' = [ptr EXCEPT ![c] = id]

(* Each Fault... below is the operator after it with one plausible bug; no   *)
(* specification uses them. They show that the properties can fail.          *)
FaultNoSweepAtLimit == sessions

(* What is left of the map when CreateSession decides: cleanupExpiredLocked *)
(* runs only when the map is at its limit.                                  *)
KeptByCreate ==
  IF Cardinality(sessions) >= MaxSessions THEN LiveSessions ELSE sessions

(* CreateSession answers "maximum sessions limit reached".                  *)
CreateRefused(c) ==
  /\ pc[c] = "idle" /\ mutex = Unlocked
  /\ Cardinality(KeptByCreate) >= MaxSessions
  /\ sessions' = KeptByCreate
  /\ UNCHANGED <<now, used, session, mutex, pc, ptr, cleaner>>

(* CreateSession fails because generateSessionID does (rand.Read).          *)
CreateFails(c) ==
  /\ pc[c] = "idle" /\ mutex = Unlocked
  /\ Cardinality(KeptByCreate) < MaxSessions
  /\ sessions' = KeptByCreate
  /\ UNCHANGED <<now, used, session, mutex, pc, ptr, cleaner>>

FaultLimitOffByOne(c, id) ==
  /\ pc[c] = "idle" /\ mutex = Unlocked
  /\ Cardinality(KeptByCreate) <= MaxSessions
  /\ id \notin used
  /\ used' = used \cup {id}
  /\ sessions' = KeptByCreate \cup {id}
  /\ session' = [session EXCEPT ![id] = [lastUsed |-> now, expiresAt |-> now + TTL]]
  /\ UNCHANGED <<now, mutex, pc, ptr, cleaner>>

FaultIdsRepeat(c, id) ==
  /\ pc[c] = "idle" /\ mutex = Unlocked
  /\ Cardinality(KeptByCreate) < MaxSessions
  /\ id \notin KeptByCreate
  /\ used' = used \cup {id}
  /\ sessions' = KeptByCreate \cup {id}
  /\ session' = [session EXCEPT ![id] = [lastUsed |-> now, expiresAt |-> now + TTL]]
  /\ UNCHANGED <<now, mutex, pc, ptr, cleaner>>

CreateSession(c, id) ==
  /\ pc[c] = "idle" /\ mutex = Unlocked
  /\ Cardinality(KeptByCreate) < MaxSessions
  /\ id \notin used
  /\ used' = used \cup {id}
  /\ sessions' = KeptByCreate \cup {id}
  /\ session' = [session EXCEPT ![id] = [lastUsed |-> now, expiresAt |-> now + TTL]]
  /\ UNCHANGED <<now, mutex, pc, ptr, cleaner>>

(* GetSession, first part: the map lookup under the read lock.             *)
GetLookup(c, id) ==
  /\ pc[c] = "idle" /\ mutex = Unlocked
  /\ id \in sessions
  /\ Goto(c, "looked", id)
  /\ UNCHANGED <<now, used, sessions, session, mutex, cleaner>>

(* Second part: ExpiresAt is read and compared without any lock.           *)
GetCheck(c) ==
  /\ pc[c] = "looked"
  /\ IF Expired(ptr[c]) THEN Goto(c, "expired", ptr[c]) ELSE Return(c)
  /\ UNCHANGED <<now, used, sessions, session, mutex, cleaner>>

(* Third part: DeleteSession takes the write lock and looks at ExpiresAt no *)
(* more; the id may already be gone.                                        *)
GetDelete(c) ==
  /\ pc[c] = "expired" /\ mutex = Unlocked
  /\ sessions' = sessions \ {ptr[c]}
  /\ Return(c)
  /\ UNCHANGED <<now, used, session, mutex, cleaner>>

(* TouchSession takes the lock; an expired session is deleted on the spot.  *)
TouchCheck(c, id) ==
  /\ pc[c] = "idle" /\ mutex = Unlocked
  /\ \/ /\ id \notin LiveSessions
        /\ sessions' = sessions \ {id}
        /\ Return(c)
        /\ UNCHANGED mutex
     \/ /\ id \in LiveSessions
        /\ mutex' = c
        /\ Goto(c, "touching", id)
        /\ UNCHANGED sessions
  /\ UNCHANGED <<now, used, session, cleaner>>

TouchLastUsed(c) ==
  /\ pc[c] = "touching"
  /\ session' = [session EXCEPT ![ptr[c]].lastUsed = now]
  /\ Goto(c, "extending", ptr[c])
  /\ UNCHANGED <<now, used, sessions, mutex, cleaner>>

FaultExtendsOldExpiry(c) ==
  /\ pc[c] = "extending"
  /\ session' = [session EXCEPT ![ptr[c]].expiresAt = @ + TTL]
  /\ mutex' = Unlocked
  /\ Return(c)
  /\ UNCHANGED <<now, used, sessions, cleaner>>

FaultExpiryNotRenewed(c) ==
  /\ pc[c] = "extending"
  /\ mutex' = Unlocked
  /\ Return(c)
  /\ UNCHANGED <<now, used, sessions, session, cleaner>>

(* ... and the deferred Unlock.                                            *)
TouchExpires(c) ==
  /\ pc[c] = "extending"
  /\ session' = [session EXCEPT ![ptr[c]].expiresAt = now + TTL]
  /\ mutex' = Unlocked
  /\ Return(c)
  /\ UNCHANGED <<now, used, sessions, cleaner>>

FaultDeleteWithoutLock(c, id) ==
  /\ pc[c] = "idle"
  /\ sessions' = sessions \ {id}
  /\ Return(c)
  /\ UNCHANGED <<now, used, session, mutex, cleaner>>

DeleteSession(c, id) ==
  /\ pc[c] = "idle" /\ mutex = Unlocked
  /\ sessions' = sessions \ {id}
  /\ Return(c)
  /\ UNCHANGED <<now, used, session, mutex, cleaner>>

-----------------------------------------------------------------------------
FaultSweepsAtExpiry ==
  /\ cleaner \in {"running", "stopping"} /\ mutex = Unlocked
  /\ sessions' = {id \in sessions : now < session[id].expiresAt}
  /\ UNCHANGED <<now, used, session, mutex, pc, ptr, cleaner>>

FaultSweepsOnce ==
  /\ cleaner \in {"running", "stopping"} /\ mutex = Unlocked
  /\ sessions' = LiveSessions
  /\ cleaner' = "done"
  /\ UNCHANGED <<now, used, session, mutex, pc, ptr>>

(* cleanupLoop: the ticker fires while the loop runs; once stopClean is     *)
(* closed too, select takes either branch.                                  *)
CleanupExpired ==
  /\ cleaner \in {"running", "stopping"} /\ mutex = Unlocked
  /\ sessions' = LiveSessions
  /\ UNCHANGED <<now, used, session, mutex, pc, ptr, cleaner>>

(* Stop closes stopClean.  A second close would panic: Server.Stop is meant *)
(* to be called once, and so it is here.                                    *)
Stop ==
  /\ cleaner = "running"
  /\ cleaner' = "stopping"
  /\ UNCHANGED <<now, used, sessions, session, mutex, pc, ptr>>

CleanupReturns ==
  /\ cleaner = "stopping"
  /\ cleaner' = "done"
  /\ UNCHANGED <<now, used, sessions, session, mutex, pc, ptr>>

Tick ==
  /\ now < MaxTime
  /\ now' = now + 1
  /\ UNCHANGED <<used, sessions, session, mutex, pc, ptr, cleaner>>

(* GetStats counts under the read lock, which excludes every writer.        *)
GetStats == [active  |-> Cardinality(LiveSessions),
             expired |-> Cardinality(sessions \ LiveSessions),
             total   |-> Cardinality(sessions)]

(* A handler asks for any id it was ever given, or for one it made up.      *)
Handler(c) ==
  \/ CreateRefused(c) \/ CreateFails(c)
  \/ \E id \in SessionIds : \/ CreateSession(c, id) \/ GetLookup(c, id)
                           \/ TouchCheck(c, id) \/ DeleteSession(c, id)
  \/ GetCheck(c) \/ GetDelete(c) \/ TouchLastUsed(c) \/ TouchExpires(c)

Next == Tick \/ CleanupExpired \/ Stop \/ CleanupReturns \/ \E c \in Clients : Handler(c)

Spec == Init /\ [][Next]_vars

-----------------------------------------------------------------------------
TypeOK ==
  /\ now \in 0 .. MaxTime
  /\ used \subseteq SessionIds
  /\ sessions \subseteq used
  /\ session \in [SessionIds -> Session]
  /\ mutex \in Clients \cup {Unlocked}
  /\ pc \in [Clients -> PCs]
  /\ ptr \in [Clients -> SessionIds \cup {NoId}]
  /\ cleaner \in {"running", "stopping", "done"}

(* The map never holds more than maxSessons sessions, whatever creations,   *)
(* touches and sweeps interleave (the double check of CreateSession).       *)
SessionsBounded == Cardinality(sessions) <= MaxSessions

(* A TouchSession between its check and its last write holds the lock, alone,*)
(* and its session is still in the map: it never extends a session somebody *)
(* removed, and never answers true for one.                                 *)
TouchedSessionPresent ==
  \A c \in Clients :
    pc[c] \in {"touching", "extending"} => mutex = c /\ ptr[c] \in sessions

BeingExtended(id) == \E c \in Clients : pc[c] = "extending" /\ ptr[c] = id

(* Unless a touch is between its two writes, a session's expiry lies a full *)
(* ttl after its last use and never further than a ttl ahead of the clock,   *)
(* though the two fields are written from two readings of the clock.        *)
FullTTLFromLastUse ==
  \A id \in used :
    LET s == session[id] IN
      /\ s.lastUsed <= now /\ s.expiresAt <= now + TTL
      /\ BeingExtended(id) \/ s.lastUsed + TTL <= s.expiresAt

(* CreateSession answers "maximum sessions limit reached" only when the map *)
(* really is full of sessions that have not expired: the statistics read    *)
(* next show it.                                                            *)
RefusedOnlyWhenFull ==
  [][\A c \in Clients :
       CreateRefused(c) => GetStats'.active = MaxSessions /\ GetStats'.expired = 0]_vars

(* A session leaves the map before its expiry only by a client's DELETE or   *)
(* by a GetSession that had found it expired before somebody extended it.    *)
LiveSessionsStay ==
  [][\A id \in LiveSessions \ sessions' :
       \E c \in Clients : DeleteSession(c, id) \/ (GetDelete(c) /\ ptr[c] = id)]_vars

(* The contract of GetSession's comment, "returns nil if not found or        *)
(* expired", at the moment it removes the session: the code checks ExpiresAt *)
(* before it takes the lock, so a touch can extend the session in between.   *)
NilOnlyIfGoneOrExpired ==
  [][\A c \in Clients :
       GetDelete(c) => ptr[c] \notin sessions \/ Expired(ptr[c])]_vars

-----------------------------------------------------------------------------
(* The life of each session as the manager's clients see it (SessionLife).   *)
life == [id \in SessionIds |->
           IF id \notin used THEN "unborn" ELSE IF id \in sessions THEN "active" ELSE "gone"]

Life == INSTANCE SessionLife WITH Capacity <- MaxSessions

LifeSpec == Life!Spec
=============================================================================

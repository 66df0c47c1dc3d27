--------------------------- MODULE RestApiProofs ---------------------------
(***************************************************************************)
(* Proofs about RestApi, the handlers composed with the session manager:    *)
(* nothing runs without a touched session, and how long the session of an   *)
(* answer can be used, for any number of handlers and sessions and any ttl.  *)
(***************************************************************************)
EXTENDS RestApi, TLAPS

(* The requests' variables.                                                  *)
RequestsOK ==
  /\ step \in [Clients -> Steps]
  /\ sid \in [Clients -> SessionIds \cup {NoId}]
  /\ target \in [Clients -> Targets]
  /\ since \in [Clients -> 0 .. now]
  /\ began \in [Clients -> 0 .. now]

(* No session was used later than now, none lasts longer than a ttl from now. *)
Leases ==
  \A id \in used : session[id].lastUsed <= now /\ session[id].expiresAt <= now + TTL

(* What a handler knows: where its call of the manager is, that its session   *)
(* was created, that it has been touched, and how long it lasts: from the     *)
(* touch, after which time passes only where the handler waits for a body,    *)
(* that is counted for a tool from the request's arrival.                    *)
HandlerOK(c) ==
  LET s == session[sid[c]] IN
  /\ step[c] = "inspecting" <=> pc[c] \in {"looked", "expired"}
  /\ step[c] = "touching" <=> pc[c] \in {"touching", "extending"}
  /\ step[c] # "idle" => sid[c] \in used
  /\ pc[c] # "idle" => ptr[c] = sid[c]
  /\ pc[c] = "extending" => s.lastUsed >= since[c]
  /\ step[c] = "authorized" => s.lastUsed >= since[c] /\ s.expiresAt >= now + TTL
  /\ step[c] = "decoding" =>
       target[c] = "tool" /\ s.lastUsed >= since[c] /\ s.expiresAt >= since[c] + TTL
  /\ step[c] = "running" =>
       /\ s.expiresAt >= (IF target[c] = "tool" THEN since[c] ELSE began[c]) + TTL
       /\ now <= began[c] + RunLimit

(* The inductive invariant.                                                  *)
IInv == SM!TypeOK /\ RequestsOK /\ Leases /\ \A c \in Clients : HandlerOK(c)

-----------------------------------------------------------------------------
(* Created sessions stay created, and are used and extended only forward.    *)
Forward ==
  \A id \in used : /\ id \in used'
                   /\ session'[id].lastUsed >= session[id].lastUsed
                   /\ session'[id].expiresAt >= session[id].expiresAt

(* A step of handler c leaves the others alone.                              *)
OtherRequestsStay(c) ==
  \A d \in Clients \ {c} :
    /\ step'[d] = step[d] /\ sid'[d] = sid[d] /\ since'[d] = since[d]
    /\ began'[d] = began[d] /\ target'[d] = target[d]

OthersStay(c) ==
  /\ OtherRequestsStay(c)
  /\ \A d \in Clients \ {c} : pc'[d] = pc[d] /\ ptr'[d] = ptr[d]

(* With the sessions moving forward, no handler disturbs another.            *)
LEMMA HandlerStep ==
  ASSUME IInv, NEW c \in Clients, now' = now, SM!TypeOK', RequestsOK', Leases',
         Forward, OthersStay(c), HandlerOK(c)'
  PROVE  IInv'
<1> SUFFICES ASSUME NEW d \in Clients, d # c
             PROVE  HandlerOK(d)'
  BY DEF IInv
<1>1. /\ step'[d] = step[d] /\ sid'[d] = sid[d] /\ since'[d] = since[d]
      /\ began'[d] = began[d] /\ target'[d] = target[d]
      /\ pc'[d] = pc[d] /\ ptr'[d] = ptr[d]
  BY DEF OthersStay, OtherRequestsStay
<1>2. HandlerOK(d) /\ since[d] \in Nat /\ began[d] \in Nat /\ now \in Nat /\ TTL \in Nat
  BY ApiAssumption DEF IInv, RequestsOK, SM!TypeOK
<1>3. CASE step[d] = "idle"
  BY <1>1, <1>2, <1>3 DEF HandlerOK, IInv, SM!TypeOK, SM!PCs
<1>4. CASE step[d] # "idle"
  <2>1. sid[d] \in used
    BY <1>2, <1>4 DEF HandlerOK
  <2>2. /\ sid[d] \in used'
        /\ session'[sid[d]].lastUsed >= session[sid[d]].lastUsed
        /\ session'[sid[d]].expiresAt >= session[sid[d]].expiresAt
    BY <2>1 DEF Forward
  <2>3. /\ session[sid[d]].lastUsed \in Nat /\ session[sid[d]].expiresAt \in Nat
        /\ session'[sid[d]].lastUsed \in Nat /\ session'[sid[d]].expiresAt \in Nat
    BY <2>1, <2>2, ApiAssumption DEF IInv, SM!TypeOK, SM!Session, SM!Times
  <2> QED
    BY <1>1, <1>2, <1>4, <2>2, <2>3 DEF HandlerOK
<1> QED
  BY <1>3, <1>4

-----------------------------------------------------------------------------
(* What the helpers of the handlers do to the requests' variables.           *)
LEMMA ReplyFacts ==
  ASSUME IInv, NEW c \in Clients, NEW status, Reply(c, status), now' = now
  PROVE  /\ RequestsOK' /\ step'[c] = "idle"
         /\ OtherRequestsStay(c)
  BY ApiAssumption DEF Reply, IInv, RequestsOK, Steps, Targets, OtherRequestsStay, SM!TypeOK

(* Go moves one handler.                                                     *)
LEMMA GoFacts ==
  ASSUME IInv, NEW c \in Clients, NEW s \in Steps, Go(c, s), now' = now
  PROVE  /\ step' \in [Clients -> Steps] /\ step'[c] = s
         /\ \A d \in Clients \ {c} : step'[d] = step[d]
  BY DEF Go, IInv, RequestsOK

(* Take moves one handler and notes its request.                             *)
LEMMA TakeFacts ==
  ASSUME IInv, NEW c \in Clients, NEW id \in SessionIds, NEW t \in Targets, NEW s \in Steps,
         Take(c, id, t, s), now' = now
  PROVE  /\ RequestsOK' /\ step'[c] = s /\ sid'[c] = id /\ since'[c] = now
         /\ OtherRequestsStay(c)
<1>1. step' \in [Clients -> Steps] /\ step'[c] = s
      /\ \A d \in Clients \ {c} : step'[d] = step[d]
  BY GoFacts DEF Take
<1>2. sid' = [sid EXCEPT ![c] = id] /\ target' = [target EXCEPT ![c] = t]
      /\ since' = [since EXCEPT ![c] = now] /\ began' = began
  BY DEF Take
<1>3. now \in 0 .. now'
  BY ApiAssumption DEF IInv, SM!TypeOK
<1> QED
  BY <1>1, <1>2, <1>3 DEF IInv, RequestsOK, OtherRequestsStay

-----------------------------------------------------------------------------
(* The steps of the manager that use and extend no session.                  *)
QuietMove(c, label, id) ==
  /\ sessions' \subseteq sessions
  /\ mutex' \in Clients \cup {Unlocked}
  /\ pc' = [pc EXCEPT ![c] = label] /\ ptr' = [ptr EXCEPT ![c] = id]
  /\ UNCHANGED <<now, used, session, cleaner>>

(* A step of the manager that moves one handler only.                        *)
LEMMA QuietKeeps ==
  ASSUME IInv, NEW c \in Clients, NEW label \in SM!PCs, NEW id \in SessionIds \cup {NoId},
         QuietMove(c, label, id)
  PROVE  /\ SM!TypeOK' /\ Leases' /\ Forward /\ now' = now /\ used' = used /\ session' = session
         /\ pc'[c] = label /\ ptr'[c] = id
         /\ \A d \in Clients \ {c} : pc'[d] = pc[d] /\ ptr'[d] = ptr[d]
<1>1. SM!TypeOK'
  BY DEF QuietMove, IInv, SM!TypeOK
<1>2. Forward
  <2>1. \A i \in used : session[i].lastUsed \in Nat /\ session[i].expiresAt \in Nat
    BY ApiAssumption DEF IInv, SM!TypeOK, SM!Session, SM!Times
  <2> QED
    BY <2>1 DEF Forward, QuietMove
<1>3. Leases'
  BY DEF QuietMove, IInv, Leases
<1>4. /\ pc'[c] = label /\ ptr'[c] = id
      /\ \A d \in Clients \ {c} : pc'[d] = pc[d] /\ ptr'[d] = ptr[d]
  BY DEF QuietMove, IInv, SM!TypeOK
<1> QED
  BY <1>1, <1>2, <1>3, <1>4 DEF QuietMove

(* A handler that answers while its call of the manager is over.             *)
LEMMA ReplyKeepsIInv ==
  ASSUME IInv, NEW c \in Clients, NEW status, Reply(c, status),
         NEW id \in SessionIds \cup {NoId}, QuietMove(c, "idle", id)
  PROVE  IInv'
<1>1. "idle" \in SM!PCs
  BY DEF SM!PCs
<1>2. /\ SM!TypeOK' /\ Leases' /\ Forward /\ now' = now /\ pc'[c] = "idle"
      /\ \A d \in Clients \ {c} : pc'[d] = pc[d] /\ ptr'[d] = ptr[d]
  BY <1>1, QuietKeeps
<1>3. /\ RequestsOK' /\ step'[c] = "idle"
      /\ OtherRequestsStay(c)
  BY <1>2, ReplyFacts
<1>4. HandlerOK(c)'
  BY <1>2, <1>3 DEF HandlerOK
<1>5. OthersStay(c)
  BY <1>2, <1>3 DEF OthersStay, OtherRequestsStay
<1> QED
  BY <1>2, <1>3, <1>4, <1>5, HandlerStep

(* Where the manager is not asked.                                           *)
LEMMA IdleIsQuiet ==
  ASSUME IInv, NEW c \in Clients, pc[c] = "idle"
  PROVE  /\ ptr[c] \in SessionIds \cup {NoId}
         /\ (/\ UNCHANGED <<now, used, session, mutex, pc, ptr, cleaner>>
             /\ sessions' \subseteq sessions)
              => QuietMove(c, "idle", ptr[c])
  BY DEF IInv, SM!TypeOK, QuietMove

(* A handler that is not in a call of the manager holds nothing of it.       *)
LEMMA StepIsIdle ==
  ASSUME IInv, NEW c \in Clients, step[c] \in {"idle", "authorized", "decoding", "running"}
  PROVE  pc[c] = "idle"
  BY DEF IInv, HandlerOK, SM!TypeOK, SM!PCs

(* An answer ends a request without the manager.                             *)
LEMMA AnswersKeepIInv ==
  ASSUME IInv, NEW c \in Clients, Reject(c) \/ RefuseTarget(c) \/ RunReturns(c)
  PROVE  IInv'
<1>1. pc[c] = "idle" /\ UNCHANGED smVars
  BY StepIsIdle DEF Reject, RefuseTarget, RunReturns
<1>2. QuietMove(c, "idle", ptr[c]) /\ ptr[c] \in SessionIds \cup {NoId}
  BY <1>1, IdleIsQuiet DEF smVars
<1>3. \E status : Reply(c, status)
  BY DEF Reject, RefuseTarget, RunReturns
<1> QED
  BY <1>2, <1>3, ReplyKeepsIInv

(* A DELETE takes a session from whoever uses it.                            *)
LEMMA DeleteKeepsIInv ==
  ASSUME IInv, NEW c \in Clients, NEW id \in SessionIds, handleDelete(c, id)
  PROVE  IInv'
<1>1. QuietMove(c, "idle", NoId)
  BY DEF handleDelete, SM!DeleteSession, SM!Return, QuietMove, IInv, SM!TypeOK
<1> QED
  BY <1>1, ReplyKeepsIInv DEF handleDelete

-----------------------------------------------------------------------------
(* Creation: the id is new, so nobody works on its session.                  *)
LEMMA CreateKeepsIInv ==
  ASSUME IInv, NEW c \in Clients, handleCreateSession(c)
  PROVE  IInv'
<1>1. pc[c] = "idle" /\ step[c] = "idle"
  BY StepIsIdle DEF handleCreateSession
<1>2. CASE (SM!CreateRefused(c) \/ SM!CreateFails(c)) /\ Reply(c, 503)
  <2>1. /\ UNCHANGED <<now, used, session, mutex, pc, ptr, cleaner>> /\ sessions' \subseteq sessions
    BY <1>2 DEF SM!CreateRefused, SM!CreateFails, SM!KeptByCreate, SM!LiveSessions
  <2> QED
    BY <1>1, <1>2, <2>1, IdleIsQuiet, ReplyKeepsIInv
<1>3. ASSUME NEW id \in SessionIds, SM!CreateSession(c, id), Reply(c, 201)
      PROVE  IInv'
  <2>1. /\ id \notin used /\ used' = used \cup {id} /\ sessions' \subseteq sessions \cup {id}
        /\ session' = [session EXCEPT ![id] = [lastUsed |-> now, expiresAt |-> now + TTL]]
        /\ UNCHANGED <<now, mutex, pc, ptr, cleaner>>
    BY <1>3 DEF SM!CreateSession, SM!KeptByCreate, SM!LiveSessions
  <2>2. /\ now \in Nat /\ now <= MaxTime /\ TTL \in Nat /\ MaxTime \in Nat
        /\ now \in SM!Times /\ now + TTL \in SM!Times
    BY ApiAssumption DEF IInv, SM!TypeOK, SM!Times
  <2>3. [lastUsed |-> now, expiresAt |-> now + TTL] \in SM!Session
    BY <2>2 DEF SM!Session
  <2>4. SM!TypeOK'
    BY <2>1, <2>3 DEF IInv, SM!TypeOK
  <2>5. /\ session'[id].lastUsed = now /\ session'[id].expiresAt = now + TTL
        /\ \A j \in used : session'[j] = session[j]
    BY <2>1 DEF IInv, SM!TypeOK
  <2>6. Leases'
    BY <2>1, <2>2, <2>5 DEF IInv, Leases
  <2>7. Forward
    <3>1. \A j \in used : session[j].lastUsed \in Nat /\ session[j].expiresAt \in Nat
      BY ApiAssumption DEF IInv, SM!TypeOK, SM!Session, SM!Times
    <3> QED
      BY <2>1, <2>5, <3>1 DEF Forward
  <2>8. /\ RequestsOK' /\ step'[c] = "idle"
        /\ OtherRequestsStay(c)
    BY <1>3, <2>1, ReplyFacts
  <2>9. HandlerOK(c)' /\ OthersStay(c)
    BY <1>1, <2>1, <2>8 DEF HandlerOK, OthersStay
  <2> QED
    BY <2>1, <2>4, <2>6, <2>7, <2>8, <2>9, HandlerStep
<1> QED
  BY <1>2, <1>3 DEF handleCreateSession

(* GetSession's lookup, or its answer that there is none.                    *)
LEMMA InfoKeepsIInv ==
  ASSUME IInv, NEW c \in Clients, NEW id \in SessionIds, handleInfo(c, id)
  PROVE  IInv'
<1>1. step[c] = "idle" /\ pc[c] = "idle"
  BY StepIsIdle DEF handleInfo
<1>2. CASE Reply(c, 404) /\ UNCHANGED smVars
  BY <1>1, <1>2, IdleIsQuiet, ReplyKeepsIInv DEF smVars
<1>3. CASE SM!GetLookup(c, id) /\ Take(c, id, "none", "inspecting")
  <2>1. QuietMove(c, "looked", id) /\ id \in used
    BY <1>3 DEF SM!GetLookup, SM!Goto, QuietMove, IInv, SM!TypeOK
  <2>2. "looked" \in SM!PCs /\ "inspecting" \in Steps /\ "none" \in Targets
    BY DEF SM!PCs, Steps, Targets
  <2>3. /\ SM!TypeOK' /\ Leases' /\ Forward /\ now' = now /\ used' = used
        /\ pc'[c] = "looked" /\ ptr'[c] = id
        /\ \A d \in Clients \ {c} : pc'[d] = pc[d] /\ ptr'[d] = ptr[d]
    BY <2>1, <2>2, QuietKeeps
  <2>4. /\ RequestsOK' /\ step'[c] = "inspecting" /\ sid'[c] = id
        /\ OtherRequestsStay(c)
    BY <1>3, <2>2, <2>3, TakeFacts
  <2>5. HandlerOK(c)' /\ OthersStay(c)
    BY <2>1, <2>3, <2>4 DEF HandlerOK, OthersStay
  <2> QED
    BY <2>3, <2>4, <2>5, HandlerStep
<1> QED
  BY <1>2, <1>3 DEF handleInfo

(* The rest of GetSession.                                                   *)
LEMMA InfoAnswersKeepsIInv ==
  ASSUME IInv, NEW c \in Clients, InfoAnswers(c)
  PROVE  IInv'
<1>1. CASE SM!GetCheck(c) /\ ~SM!Expired(ptr[c]) /\ Reply(c, 200)
  <2>1. QuietMove(c, "idle", NoId)
    BY <1>1 DEF SM!GetCheck, SM!Return, QuietMove, IInv, SM!TypeOK
  <2> QED
    BY <1>1, <2>1, ReplyKeepsIInv
<1>2. CASE SM!GetDelete(c) /\ Reply(c, 404)
  <2>1. QuietMove(c, "idle", NoId)
    BY <1>2 DEF SM!GetDelete, SM!Return, QuietMove, IInv, SM!TypeOK
  <2> QED
    BY <1>2, <2>1, ReplyKeepsIInv
<1>3. CASE SM!GetCheck(c) /\ SM!Expired(ptr[c]) /\ UNCHANGED reqVars
  <2>1. /\ QuietMove(c, "expired", ptr[c]) /\ ptr[c] \in SessionIds \cup {NoId}
        /\ pc[c] = "looked"
    BY <1>3 DEF SM!GetCheck, SM!Goto, QuietMove, IInv, SM!TypeOK
  <2>2. "expired" \in SM!PCs
    BY DEF SM!PCs
  <2>3. /\ SM!TypeOK' /\ Leases' /\ Forward /\ now' = now /\ used' = used
        /\ session' = session /\ pc'[c] = "expired" /\ ptr'[c] = ptr[c]
        /\ \A d \in Clients \ {c} : pc'[d] = pc[d] /\ ptr'[d] = ptr[d]
    BY <2>1, <2>2, QuietKeeps
  <2>4. step' = step /\ sid' = sid /\ target' = target /\ since' = since /\ began' = began
    BY <1>3 DEF reqVars
  <2>5. RequestsOK' /\ OthersStay(c)
    BY <2>3, <2>4 DEF IInv, RequestsOK, OthersStay, OtherRequestsStay
  <2>6. HandlerOK(c)'
    BY <2>1, <2>3, <2>4 DEF IInv, HandlerOK
  <2> QED
    BY <2>3, <2>5, <2>6, HandlerStep
<1> QED
  BY <1>1, <1>2, <1>3 DEF InfoAnswers

-----------------------------------------------------------------------------
(* TouchSession's check.                                                     *)
LEMMA CallKeepsIInv ==
  ASSUME IInv, NEW c \in Clients, NEW id \in SessionIds, NEW t \in Targets, handleCall(c, id, t)
  PROVE  IInv'
<1>1. CASE id \notin SM!LiveSessions
  <2>1. QuietMove(c, "idle", NoId) /\ Reply(c, 401)
    BY <1>1 DEF handleCall, SM!TouchCheck, SM!Return, QuietMove, IInv, SM!TypeOK
  <2> QED
    BY <2>1, ReplyKeepsIInv
<1>2. CASE id \in SM!LiveSessions
  <2>1. QuietMove(c, "touching", id) /\ id \in used /\ Take(c, id, t, "touching")
    BY <1>2 DEF handleCall, SM!TouchCheck, SM!Goto, SM!LiveSessions, QuietMove, IInv, SM!TypeOK
  <2>2. "touching" \in SM!PCs /\ "touching" \in Steps
    BY DEF SM!PCs, Steps
  <2>3. /\ SM!TypeOK' /\ Leases' /\ Forward /\ now' = now /\ used' = used
        /\ pc'[c] = "touching" /\ ptr'[c] = id
        /\ \A d \in Clients \ {c} : pc'[d] = pc[d] /\ ptr'[d] = ptr[d]
    BY <2>1, <2>2, QuietKeeps
  <2>4. /\ RequestsOK' /\ step'[c] = "touching" /\ sid'[c] = id
        /\ OtherRequestsStay(c)
    BY <2>1, <2>2, <2>3, TakeFacts
  <2>5. HandlerOK(c)' /\ OthersStay(c)
    BY <2>1, <2>3, <2>4 DEF HandlerOK, OthersStay
  <2> QED
    BY <2>3, <2>4, <2>5, HandlerStep
<1> QED
  BY <1>1, <1>2

(* TouchSession writes LastUsed, then ExpiresAt, of a created session.        *)
LEMMA TouchKeepsIInv ==
  ASSUME IInv, NEW c \in Clients, Touch(c)
  PROVE  IInv'
<1>1. /\ step[c] = "touching" /\ pc[c] \in {"touching", "extending"}
      /\ ptr[c] = sid[c] /\ sid[c] \in used /\ sid[c] \in SessionIds /\ since[c] \in 0 .. now
  BY DEF Touch, IInv, HandlerOK, RequestsOK, SM!TypeOK
<1>2. /\ now \in Nat /\ TTL \in Nat /\ now \in SM!Times /\ now + TTL \in SM!Times
  BY ApiAssumption DEF IInv, SM!TypeOK, SM!Times
<1>3. \A j \in SessionIds : session[j].lastUsed \in Nat /\ session[j].expiresAt \in Nat
  BY ApiAssumption DEF IInv, SM!TypeOK, SM!Session, SM!Times
<1>4. /\ now' = now /\ used' = used /\ sessions' = sessions /\ cleaner' = cleaner
      /\ sid' = sid /\ target' = target /\ since' = since /\ began' = began
  BY DEF Touch, SM!TouchLastUsed, SM!TouchExpires
<1>5. CASE SM!TouchLastUsed(c) /\ UNCHANGED <<step, reply>>
  <2>1. /\ session' = [session EXCEPT ![sid[c]].lastUsed = now]
        /\ pc' = [pc EXCEPT ![c] = "extending"] /\ ptr' = [ptr EXCEPT ![c] = sid[c]]
        /\ mutex' = mutex /\ step' = step
    BY <1>1, <1>5 DEF SM!TouchLastUsed, SM!Goto
  <2>2. /\ session' \in [SessionIds -> SM!Session]
        /\ session'[sid[c]].lastUsed = now
        /\ session'[sid[c]].expiresAt = session[sid[c]].expiresAt
        /\ \A j \in SessionIds : j # sid[c] => session'[j] = session[j]
    BY <1>1, <1>2, <2>1 DEF IInv, SM!TypeOK, SM!Session
  <2>3. /\ pc' \in [Clients -> SM!PCs] /\ ptr' \in [Clients -> SessionIds \cup {NoId}]
        /\ pc'[c] = "extending" /\ ptr'[c] = sid[c]
        /\ \A d \in Clients \ {c} : pc'[d] = pc[d] /\ ptr'[d] = ptr[d]
    BY <1>1, <2>1 DEF IInv, SM!TypeOK, SM!PCs
  <2>4. SM!TypeOK'
    BY <1>4, <2>1, <2>2, <2>3 DEF IInv, SM!TypeOK
  <2>5. Leases' /\ Forward
    BY <1>1, <1>2, <1>3, <1>4, <2>2 DEF IInv, SM!TypeOK, Leases, Forward
  <2>6. RequestsOK' /\ OthersStay(c)
    BY <1>4, <2>1, <2>3 DEF IInv, RequestsOK, OthersStay, OtherRequestsStay
  <2>7. HandlerOK(c)'
    BY <1>1, <1>4, <2>1, <2>2, <2>3 DEF HandlerOK
  <2> QED
    BY <1>4, <2>4, <2>5, <2>6, <2>7, HandlerStep
<1>6. CASE SM!TouchExpires(c) /\ Go(c, "authorized")
  <2>1. /\ session' = [session EXCEPT ![sid[c]].expiresAt = now + TTL]
        /\ pc' = [pc EXCEPT ![c] = "idle"] /\ ptr' = [ptr EXCEPT ![c] = NoId]
        /\ mutex' = Unlocked /\ pc[c] = "extending"
    BY <1>1, <1>6 DEF SM!TouchExpires, SM!Return
  <2>2. /\ session' \in [SessionIds -> SM!Session]
        /\ session'[sid[c]].expiresAt = now + TTL
        /\ session'[sid[c]].lastUsed = session[sid[c]].lastUsed
        /\ \A j \in SessionIds : j # sid[c] => session'[j] = session[j]
    BY <1>1, <1>2, <2>1 DEF IInv, SM!TypeOK, SM!Session
  <2>3. /\ pc' \in [Clients -> SM!PCs] /\ ptr' \in [Clients -> SessionIds \cup {NoId}]
        /\ pc'[c] = "idle"
        /\ \A d \in Clients \ {c} : pc'[d] = pc[d] /\ ptr'[d] = ptr[d]
    BY <1>1, <2>1 DEF IInv, SM!TypeOK, SM!PCs
  <2>4. SM!TypeOK'
    BY <1>4, <2>1, <2>2, <2>3 DEF IInv, SM!TypeOK
  <2>5. Leases' /\ Forward
    BY <1>1, <1>2, <1>3, <1>4, <2>2 DEF IInv, SM!TypeOK, Leases, Forward
  <2>6. /\ step' \in [Clients -> Steps] /\ step'[c] = "authorized"
        /\ \A d \in Clients \ {c} : step'[d] = step[d]
    BY <1>4, <1>6, GoFacts DEF Steps
  <2>7. RequestsOK' /\ OthersStay(c)
    BY <1>4, <2>3, <2>6 DEF IInv, RequestsOK, OthersStay, OtherRequestsStay
  <2>8. session[sid[c]].lastUsed >= since[c]
    BY <2>1 DEF IInv, HandlerOK
  <2>9. HandlerOK(c)'
    BY <1>1, <1>2, <1>4, <2>2, <2>3, <2>6, <2>8 DEF HandlerOK
  <2> QED
    BY <1>4, <2>4, <2>5, <2>7, <2>9, HandlerStep
<1> QED
  BY <1>5, <1>6 DEF Touch

(* From the touch on to the wait for the body: no time has passed.            *)
LEMMA AwaitBodyKeepsIInv ==
  ASSUME IInv, NEW c \in Clients, AwaitBody(c)
  PROVE  IInv'
<1>1. step[c] = "authorized" /\ target[c] = "tool" /\ pc[c] = "idle" /\ HandlerOK(c)
  BY StepIsIdle DEF AwaitBody, IInv
<1>2. UNCHANGED <<smVars, sid, target, since, began>> /\ Go(c, "decoding")
  BY DEF AwaitBody
<1>3. QuietMove(c, "idle", ptr[c]) /\ ptr[c] \in SessionIds \cup {NoId} /\ "idle" \in SM!PCs
  BY <1>1, <1>2, IdleIsQuiet DEF smVars, SM!PCs
<1>4. /\ SM!TypeOK' /\ Leases' /\ Forward /\ now' = now /\ used' = used /\ session' = session
      /\ pc'[c] = "idle"
      /\ \A d \in Clients \ {c} : pc'[d] = pc[d] /\ ptr'[d] = ptr[d]
  BY <1>3, QuietKeeps
<1>5. /\ step' \in [Clients -> Steps] /\ step'[c] = "decoding"
      /\ \A d \in Clients \ {c} : step'[d] = step[d]
  BY <1>2, <1>4, GoFacts DEF Steps
<1>6. RequestsOK' /\ OthersStay(c)
  BY <1>2, <1>4, <1>5 DEF IInv, RequestsOK, OthersStay, OtherRequestsStay
<1>7. /\ since[c] \in 0 .. now /\ now \in Nat /\ TTL \in Nat /\ sid[c] \in used
      /\ session[sid[c]].expiresAt \in Nat
  BY <1>1, ApiAssumption
  DEF IInv, HandlerOK, RequestsOK, SM!TypeOK, SM!Session, SM!Times
<1>8. HandlerOK(c)'
  BY <1>1, <1>2, <1>4, <1>5, <1>7 DEF HandlerOK
<1> QED
  BY <1>4, <1>6, <1>8, HandlerStep

(* A run begins: a resource's at the time of the touch, a tool's later.       *)
LEMMA BeginKeepsIInv ==
  ASSUME IInv, NEW c \in Clients, Execute(c) \/ Read(c)
  PROVE  IInv'
<1>1. /\ \/ step[c] = "decoding" /\ target[c] = "tool"
         \/ step[c] = "authorized" /\ target[c] = "resource"
      /\ pc[c] = "idle" /\ HandlerOK(c)
  BY StepIsIdle DEF Execute, Read, IInv, HandlerOK
<1>2. /\ UNCHANGED smVars /\ sid' = sid /\ target' = target /\ since' = since
      /\ began' = [began EXCEPT ![c] = now] /\ Go(c, "running")
  BY DEF Execute, Read, Begin
<1>3. QuietMove(c, "idle", ptr[c]) /\ ptr[c] \in SessionIds \cup {NoId} /\ "idle" \in SM!PCs
  BY <1>1, <1>2, IdleIsQuiet DEF smVars, SM!PCs
<1>4. /\ SM!TypeOK' /\ Leases' /\ Forward /\ now' = now /\ used' = used /\ session' = session
      /\ pc'[c] = "idle"
      /\ \A d \in Clients \ {c} : pc'[d] = pc[d] /\ ptr'[d] = ptr[d]
  BY <1>3, QuietKeeps
<1>5. /\ step' \in [Clients -> Steps] /\ step'[c] = "running"
      /\ \A d \in Clients \ {c} : step'[d] = step[d]
  BY <1>2, <1>4, GoFacts DEF Steps
<1>6. now \in Nat /\ RunLimit \in Nat
  BY ApiAssumption DEF IInv, SM!TypeOK
<1>7. /\ began' \in [Clients -> 0 .. now'] /\ began'[c] = now
      /\ \A d \in Clients \ {c} : began'[d] = began[d]
  BY <1>2, <1>4, <1>6 DEF IInv, RequestsOK
<1>8. RequestsOK' /\ OthersStay(c)
  BY <1>2, <1>4, <1>5, <1>7 DEF IInv, RequestsOK, OthersStay, OtherRequestsStay
<1>9. HandlerOK(c)'
  BY <1>1, <1>2, <1>4, <1>5, <1>6, <1>7 DEF HandlerOK
<1> QED
  BY <1>4, <1>8, <1>9, HandlerStep

(* Time does not pass a handler that is about to run, nor a run's limit.      *)
LEMMA TickKeepsIInv ==
  ASSUME IInv, Tick
  PROVE  IInv'
<1>1. /\ now' = now + 1 /\ now \in Nat /\ now' \in 0 .. MaxTime
      /\ UNCHANGED <<used, sessions, session, mutex, pc, ptr, cleaner>>
      /\ UNCHANGED <<step, sid, target, since, began>>
  BY ApiAssumption DEF Tick, SM!Tick, reqVars, IInv, SM!TypeOK
<1>2. SM!TypeOK'
  BY <1>1 DEF IInv, SM!TypeOK
<1>3. RequestsOK'
  <2>1. 0 .. now \subseteq 0 .. now'
    BY <1>1
  <2> QED
    BY <1>1, <2>1 DEF IInv, RequestsOK
<1>4. \A j \in used : session[j].lastUsed \in Nat /\ session[j].expiresAt \in Nat
  BY ApiAssumption DEF IInv, SM!TypeOK, SM!Session, SM!Times
<1>5. Leases'
  BY <1>1, <1>4, ApiAssumption DEF IInv, Leases
<1>6. ASSUME NEW c \in Clients PROVE HandlerOK(c)'
  <2>1. step[c] # "authorized" /\ (step[c] = "running" => now < began[c] + RunLimit)
    BY DEF Tick
  <2>2. HandlerOK(c) /\ since[c] \in Nat /\ began[c] \in Nat
    BY DEF IInv, RequestsOK
  <2> QED
    BY <1>1, <2>1, <2>2, ApiAssumption DEF HandlerOK
<1> QED
  BY <1>2, <1>3, <1>5, <1>6 DEF IInv

(* The sweep only takes ids out of the map.                                  *)
LEMMA SweepKeepsIInv ==
  ASSUME IInv, Sweep
  PROVE  IInv'
<1>1. /\ sessions' \subseteq sessions
      /\ UNCHANGED <<now, used, session, mutex, pc, ptr, cleaner>>
      /\ UNCHANGED <<step, sid, target, since, began>>
  BY DEF Sweep, SM!CleanupExpired, SM!LiveSessions, reqVars
<1> QED
  BY <1>1 DEF IInv, SM!TypeOK, RequestsOK, Leases, HandlerOK

(* No request, no session.                                                   *)
LEMMA InitIInv == Init => IInv
<1> SUFFICES ASSUME Init PROVE IInv
  OBVIOUS
<1>1. SM!TypeOK
  <2>1. 0 \in SM!Times
    BY ApiAssumption DEF SM!Times
  <2> QED
    BY <2>1, ApiAssumption DEF Init, SM!Init, SM!TypeOK, SM!Session, SM!PCs
<1>2. RequestsOK /\ Leases
  BY DEF Init, SM!Init, RequestsOK, Leases, Steps, Targets
<1>3. \A c \in Clients : HandlerOK(c)
  BY DEF Init, SM!Init, HandlerOK
<1> QED
  BY <1>1, <1>2, <1>3 DEF IInv

(* Every step keeps the invariant.                                           *)
LEMMA NextKeepsIInv == IInv /\ [Next]_vars => IInv'
<1> SUFFICES ASSUME IInv, [Next]_vars PROVE IInv'
  OBVIOUS
<1>1. CASE Tick \/ Sweep
  BY <1>1, TickKeepsIInv, SweepKeepsIInv
<1>2. ASSUME NEW c \in Clients, Handler(c)
      PROVE  IInv'
  <2>1. CASE Reject(c) \/ RefuseTarget(c) \/ RunReturns(c)
    BY <2>1, AnswersKeepIInv
  <2>2. CASE handleCreateSession(c)
    BY <2>2, CreateKeepsIInv
  <2>3. CASE InfoAnswers(c) \/ Touch(c) \/ AwaitBody(c) \/ Execute(c) \/ Read(c)
    BY <2>3, InfoAnswersKeepsIInv, TouchKeepsIInv, AwaitBodyKeepsIInv, BeginKeepsIInv
  <2>4. ASSUME NEW id \in SessionIds, handleDelete(c, id) \/ handleInfo(c, id)
        PROVE  IInv'
    BY <2>4, DeleteKeepsIInv, InfoKeepsIInv
  <2>5. ASSUME NEW id \in SessionIds, NEW t \in Targets, handleCall(c, id, t)
        PROVE  IInv'
    BY <2>5, CallKeepsIInv
  <2> QED
    BY <1>2, <2>1, <2>2, <2>3, <2>4, <2>5 DEF Handler
<1>3. CASE UNCHANGED vars
  BY <1>3 DEF vars, smVars, reqVars, IInv, SM!TypeOK, RequestsOK, Leases, HandlerOK
<1> QED
  BY <1>1, <1>2, <1>3 DEF Next

(* The inductive invariant holds in every behaviour.                         *)
THEOREM Invariance == Spec => []IInv
<1> QED
  BY InitIInv, NextKeepsIInv, PTL DEF Spec

(* The type invariant, with each handler's place in its call of the manager.  *)
THEOREM TypeCorrect == Spec => []TypeOK
<1>1. IInv => TypeOK
  <2> SUFFICES ASSUME IInv PROVE TypeOK
    OBVIOUS
  <2>1. 0 .. now \subseteq 0 .. MaxTime
    BY ApiAssumption DEF IInv, SM!TypeOK
  <2> QED
    BY <2>1 DEF IInv, RequestsOK, HandlerOK, TypeOK
<1> QED
  BY <1>1, Invariance, PTL

(* The session that an answer names was extended when its request was         *)
(* authorized (handleToolCall, handleResourceRead), and unless it was removed *)
(* nothing but time has been taken from that lease: at most RunLimit, and, for *)
(* a tool, the time its body was waited for.                                 *)
THEOREM AnswersAreUsable == Spec => []AnsweredSessionUsable
<1>1. IInv => AnsweredSessionUsable
  <2> SUFFICES ASSUME IInv, NEW c \in Clients, step[c] = "running", sid[c] \in sessions
               PROVE  session[sid[c]].expiresAt - now >=
                        TTL - RunLimit - (IF target[c] = "tool" THEN began[c] - since[c] ELSE 0)
    BY DEF AnsweredSessionUsable
  <2>1. /\ session[sid[c]].expiresAt >=
             (IF target[c] = "tool" THEN since[c] ELSE began[c]) + TTL
        /\ now <= began[c] + RunLimit
    BY DEF IInv, HandlerOK
  <2>2. /\ session[sid[c]].expiresAt \in Nat /\ since[c] \in Nat /\ began[c] \in Nat
        /\ now \in Nat /\ TTL \in Nat /\ RunLimit \in Nat
    BY ApiAssumption DEF IInv, RequestsOK, SM!TypeOK, SM!Session, SM!Times
  <2>3. CASE target[c] = "tool"
    BY <2>1, <2>2, <2>3
  <2>4. CASE target[c] # "tool"
    BY <2>1, <2>2, <2>4
  <2> QED
    BY <2>3, <2>4
<1> QED
  BY <1>1, Invariance, PTL

(* Nothing runs for a request whose session was not touched after it arrived. *)
THEOREM RunsAreAuthorized == Spec => RunsOnlyForTouchedSession
<1>1. IInv => [\A c \in Clients :
                 Execute(c) \/ Read(c) =>
                   sid[c] \in used /\ session[sid[c]].lastUsed >= since[c]]_vars
  BY DEF IInv, HandlerOK, Execute, Read
<1> QED
  BY <1>1, Invariance, PTL DEF RunsOnlyForTouchedSession

-----------------------------------------------------------------------------
(* The handlers keep the protocol of the session manager: a handler calls one *)
(* method at a time, to its end, and nothing else writes the manager's state. *)
LEMMA StepIsManagerStep == [Next]_vars => [SM!Next]_SM!vars
<1> SUFFICES ASSUME [Next]_vars PROVE [SM!Next]_SM!vars
  OBVIOUS
<1>1. smVars' = smVars => SM!vars' = SM!vars
  BY DEF smVars, SM!vars
<1>2. CASE Tick
  BY <1>2 DEF Tick, SM!Next
<1>3. CASE Sweep
  BY <1>3 DEF Sweep, SM!Next
<1>4. ASSUME NEW c \in Clients, Handler(c)
      PROVE  SM!Handler(c) \/ SM!vars' = SM!vars
  <2>1. CASE Reject(c) \/ RefuseTarget(c) \/ AwaitBody(c) \/ Execute(c) \/ Read(c)
               \/ RunReturns(c)
    BY <1>1, <2>1
    DEF Reject, RefuseTarget, AwaitBody, Execute, Read, Begin, RunReturns, smVars
  <2>2. CASE handleCreateSession(c)
    BY <2>2 DEF handleCreateSession, SM!Handler
  <2>3. CASE InfoAnswers(c) \/ Touch(c)
    BY <2>3 DEF InfoAnswers, Touch, SM!Handler
  <2>4. ASSUME NEW id \in SessionIds, handleDelete(c, id)
        PROVE  SM!Handler(c)
    BY <2>4 DEF handleDelete, SM!Handler
  <2>5. ASSUME NEW id \in SessionIds, handleInfo(c, id)
        PROVE  SM!Handler(c) \/ SM!vars' = SM!vars
    BY <1>1, <2>5 DEF handleInfo, SM!Handler
  <2>6. ASSUME NEW id \in SessionIds, NEW t \in Targets, handleCall(c, id, t)
        PROVE  SM!Handler(c)
    BY <2>6 DEF handleCall, SM!Handler
  <2> QED
    BY <1>4, <2>1, <2>2, <2>3, <2>4, <2>5, <2>6 DEF Handler
<1>5. CASE UNCHANGED vars
  BY <1>1, <1>5 DEF vars
<1> QED
  BY <1>2, <1>3, <1>4, <1>5 DEF Next, SM!Next

(* The REST API is a session manager: it implements SessionManager's          *)
(* specification, step by step.                                              *)
THEOREM ImplementsManager == Spec => SM!Spec
<1>1. Init => SM!Init
  BY DEF Init
<1> QED
  BY <1>1, StepIsManagerStep, PTL DEF Spec, SM!Spec

(* So what is proved of the manager holds of it.                             *)
Manager == INSTANCE SessionManagerProofs

(* Both instances are the same specification.                                *)
LEMMA SameManager ==
  (SM!Init <=> Manager!Init) /\ (SM!Next <=> Manager!Next) /\ SM!vars = Manager!vars
<1>1. (SM!Init <=> Manager!Init) /\ SM!vars = Manager!vars
  BY DEF SM!Init, Manager!Init, SM!vars, Manager!vars
<1>2. \A S : SM!Cardinality(S) = Manager!Cardinality(S)
  BY Zenon DEF SM!Cardinality, Manager!Cardinality
<1>3. /\ \A id : SM!Expired(id) <=> Manager!Expired(id)
      /\ SM!LiveSessions = Manager!LiveSessions
      /\ SM!KeptByCreate = Manager!KeptByCreate
  BY <1>2 DEF SM!Expired, Manager!Expired, SM!LiveSessions, Manager!LiveSessions,
              SM!KeptByCreate, Manager!KeptByCreate
<1>4. /\ SM!Tick <=> Manager!Tick
      /\ SM!CleanupExpired <=> Manager!CleanupExpired
      /\ SM!Stop <=> Manager!Stop
      /\ SM!CleanupReturns <=> Manager!CleanupReturns
  BY <1>3 DEF SM!Tick, Manager!Tick, SM!CleanupExpired, Manager!CleanupExpired,
              SM!Stop, Manager!Stop, SM!CleanupReturns, Manager!CleanupReturns
<1>5. ASSUME NEW c \in Clients
      PROVE  SM!Handler(c) <=> Manager!Handler(c)
  <2>1. /\ SM!Return(c) <=> Manager!Return(c)
        /\ \A label, id : SM!Goto(c, label, id) <=> Manager!Goto(c, label, id)
    BY DEF SM!Return, Manager!Return, SM!Goto, Manager!Goto
  <2>2. /\ SM!CreateRefused(c) <=> Manager!CreateRefused(c)
        /\ SM!CreateFails(c) <=> Manager!CreateFails(c)
        /\ \A id : SM!CreateSession(c, id) <=> Manager!CreateSession(c, id)
    BY <1>2, <1>3
    DEF SM!CreateRefused, Manager!CreateRefused, SM!CreateFails, Manager!CreateFails,
        SM!CreateSession, Manager!CreateSession
  <2>3. /\ \A id : SM!GetLookup(c, id) <=> Manager!GetLookup(c, id)
        /\ SM!GetCheck(c) <=> Manager!GetCheck(c)
        /\ SM!GetDelete(c) <=> Manager!GetDelete(c)
    BY <1>3, <2>1
    DEF SM!GetLookup, Manager!GetLookup, SM!GetCheck, Manager!GetCheck, SM!GetDelete,
        Manager!GetDelete
  <2>4. /\ \A id : SM!TouchCheck(c, id) <=> Manager!TouchCheck(c, id)
        /\ SM!TouchLastUsed(c) <=> Manager!TouchLastUsed(c)
        /\ SM!TouchExpires(c) <=> Manager!TouchExpires(c)
        /\ \A id : SM!DeleteSession(c, id) <=> Manager!DeleteSession(c, id)
    BY <1>3, <2>1
    DEF SM!TouchCheck, Manager!TouchCheck, SM!TouchLastUsed, Manager!TouchLastUsed,
        SM!TouchExpires, Manager!TouchExpires, SM!DeleteSession, Manager!DeleteSession
  <2> QED
    BY <2>2, <2>3, <2>4 DEF SM!Handler, Manager!Handler
<1> QED
  BY <1>1, <1>4, <1>5 DEF SM!Next, Manager!Next

(* What the theorems about the manager assume of the constants.              *)
LEMMA ManagerAssumed == Manager!ManagerAssumption
BY ApiAssumption DEF Manager!ManagerAssumption

(* The composed system is a manager, in the instance that is proved about.   *)
LEMMA ImplementsProvedManager == Spec => Manager!Spec
<1>1. Init => Manager!Init
  BY SameManager DEF Init
<1>2. [Next]_vars => [Manager!Next]_Manager!vars
  BY StepIsManagerStep, SameManager DEF SM!vars, Manager!vars
<1> QED
  BY <1>1, <1>2, PTL DEF Spec, Manager!Spec

(* Whatever the requests do, the map is bounded, a touched session is there,  *)
(* every session's expiry is a full ttl from its last use, and the lock is    *)
(* held only by a handler that is touching: requests do not leave it behind.  *)
THEOREM ApiInheritsSafety ==
  Spec => [](/\ Manager!SessionsBounded
             /\ Manager!TouchedSessionPresent
             /\ Manager!FullTTLFromLastUse
             /\ Manager!LockHolderTouches)
<1>1. Manager!Spec => []Manager!SessionsBounded
  BY ManagerAssumed, Manager!SessionsStayBounded
<1>2. Manager!Spec => []Manager!TouchedSessionPresent
  BY ManagerAssumed, Manager!TouchIsExclusive
<1>3. Manager!Spec => []Manager!FullTTLFromLastUse
  BY ManagerAssumed, Manager!LeaseIsFullTTL
<1>4. Manager!Spec => []Manager!LockHolderTouches
  BY ManagerAssumed, Manager!LockNeverLeaks
<1> QED
  BY ImplementsProvedManager, <1>1, <1>2, <1>3, <1>4, PTL

(* ... no live session is lost but to a DELETE or to a GET that had found it  *)
(* expired, a session is refused only when all of them are live, and to the   *)
(* REST clients an id lives once (SessionLife).                              *)
THEOREM ApiInheritsLife ==
  Spec => Manager!LiveSessionsStay /\ Manager!RefusedOnlyWhenFull /\ Manager!LifeSpec
<1>1. Manager!Spec => Manager!LiveSessionsStay
  BY ManagerAssumed, Manager!LiveStay
<1>2. Manager!Spec => Manager!RefusedOnlyWhenFull
  BY ManagerAssumed, Manager!RefusalIsHonest
<1>3. Manager!Spec => Manager!LifeSpec
  BY ManagerAssumed, Manager!ImplementsLife
<1> QED
  BY ImplementsProvedManager, <1>1, <1>2, <1>3
=============================================================================

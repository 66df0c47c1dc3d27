------------------------------ MODULE RestApi ------------------------------
(***************************************************************************)
(* The REST handlers of internal/server/server.go that work with sessions,  *)
(* composed with the session manager they call: handleCreateSession,        *)
(* handleSession, handleSessionByID, handleToolCall, handleResourceRead.    *)
(*                                                                         *)
(* Every goroutine of SessionManager's Clients serves one request at a time. *)
(* Its calls of the manager are the actions of SessionManager, so requests  *)
(* interleave inside GetSession and TouchSession as well as between calls.  *)
(* A tool runs once the client's body has been read, for which the server    *)
(* sets no time limit; a tool's or resource's own work takes up to RunLimit. *)
(***************************************************************************)
EXTENDS Integers, FiniteSets

CONSTANTS SessionIds, Clients, MaxSessions, TTL, MaxTime, Unlocked, NoId,
          RunLimit     \* the longest a tool or a resource read takes

ASSUME ApiAssumption ==
  /\ MaxSessions \in Nat \ {0} /\ TTL \in Nat /\ MaxTime \in Nat
  /\ NoId \notin SessionIds /\ Unlocked \notin Clients
  /\ RunLimit \in Nat /\ RunLimit < TTL

VARIABLES now, used, sessions, session, mutex, pc, ptr, cleaner,  \* SessionManager's
          step,     \* where each handler is
          sid,      \* the session id of its request, or NoId
          target,   \* the tool or resource it names
          since,    \* when it arrived
          began,    \* when the run of its target began
          reply     \* its last response, "ok" for a 2xx, "none" while it works

smVars  == <<now, used, sessions, session, mutex, pc, ptr, cleaner>>
reqVars == <<step, sid, target, since, began, reply>>
vars == <<smVars, reqVars>>

SM == INSTANCE SessionManager

Steps == {"idle", "inspecting", "touching", "authorized", "decoding", "running"}

(* What the path names: a registered tool, a registered resource, or neither. *)
Targets == {"tool", "resource", "none"}

Init ==
  /\ SM!Init
  /\ step = [c \in Clients |-> "idle"]
  /\ sid = [c \in Clients |-> NoId]
  /\ target = [c \in Clients |-> "none"]
  /\ since = [c \in Clients |-> 0]
  /\ began = [c \in Clients |-> 0]
  /\ reply = [c \in Clients |-> "none"]

-----------------------------------------------------------------------------
(* The handler writes its status and returns; its request is forgotten.      *)
Reply(c, status) ==
  /\ step' = [step EXCEPT ![c] = "idle"]
  /\ reply' = [reply EXCEPT ![c] = IF status < 300 THEN "ok" ELSE "refused"]
  /\ sid' = [sid EXCEPT ![c] = NoId]
  /\ target' = [target EXCEPT ![c] = "none"]
  /\ since' = [since EXCEPT ![c] = 0]
  /\ began' = [began EXCEPT ![c] = 0]

Go(c, s) ==
  /\ step' = [step EXCEPT ![c] = s]
  /\ reply' = [reply EXCEPT ![c] = "none"]

(* A request for session id arrives and goes on to its first step s.         *)
Take(c, id, t, s) ==
  /\ Go(c, s)
  /\ sid' = [sid EXCEPT ![c] = id]
  /\ target' = [target EXCEPT ![c] = t]
  /\ since' = [since EXCEPT ![c] = now]
  /\ UNCHANGED began

(* A wrong method (405), a request without any session id (400): refused     *)
(* before the session manager is asked.                                      *)
Reject(c) ==
  /\ step[c] = "idle"
  /\ \E status \in {400, 405} : Reply(c, status)
  /\ UNCHANGED smVars

(* POST /mcp/session.                                                        *)
handleCreateSession(c) ==
  /\ step[c] = "idle"
  /\ \/ (\E id \in SessionIds : SM!CreateSession(c, id)) /\ Reply(c, 201)
     \/ (SM!CreateRefused(c) \/ SM!CreateFails(c)) /\ Reply(c, 503)

(* DELETE /mcp/session/{id}.                                                 *)
handleDelete(c, id) ==
  /\ step[c] = "idle"
  /\ SM!DeleteSession(c, id)
  /\ Reply(c, IF id \in sessions THEN 200 ELSE 404)

(* GET /mcp/session[/{id}]: GetSessionInfo calls GetSession, ...             *)
handleInfo(c, id) ==
  /\ step[c] = "idle"
  /\ \/ SM!GetLookup(c, id) /\ Take(c, id, "none", "inspecting")
     \/ id \notin sessions /\ mutex = Unlocked /\ Reply(c, 404) /\ UNCHANGED smVars

(* Each Fault... is the operator after it with one plausible bug; no          *)
(* specification uses them.  They show that the properties can fail.         *)
FaultNoAnswerAfterDelete(c) ==
  /\ step[c] = "inspecting"
  /\ \/ SM!GetCheck(c) /\ ~SM!Expired(ptr[c]) /\ Reply(c, 200)
     \/ /\ \/ SM!GetCheck(c) /\ SM!Expired(ptr[c])
           \/ SM!GetDelete(c)
        /\ UNCHANGED reqVars

FaultAnswersBeforeDelete(c) ==
  /\ step[c] = "inspecting"
  /\ SM!GetCheck(c)
  /\ Reply(c, IF SM!Expired(ptr[c]) THEN 404 ELSE 200)

(* ... whose answer, after a deletion perhaps, is the handler's.             *)
InfoAnswers(c) ==
  /\ step[c] = "inspecting"
  /\ \/ SM!GetCheck(c) /\ ~SM!Expired(ptr[c]) /\ Reply(c, 200)
     \/ SM!GetCheck(c) /\ SM!Expired(ptr[c]) /\ UNCHANGED reqVars
     \/ SM!GetDelete(c) /\ Reply(c, 404)

FaultSessionOnlyLookedUp(c, id, t) ==
  /\ step[c] = "idle" /\ mutex = Unlocked
  /\ IF id \in SM!LiveSessions THEN Take(c, id, t, "authorized") ELSE Reply(c, 401)
  /\ UNCHANGED smVars

(* POST /mcp/tools/{name}/call, GET or POST /mcp/resources/{uri}/read:       *)
(* TouchSession before anything else.                                        *)
handleCall(c, id, t) ==
  /\ step[c] = "idle"
  /\ SM!TouchCheck(c, id)
  /\ IF id \in SM!LiveSessions THEN Take(c, id, t, "touching") ELSE Reply(c, 401)

Touch(c) ==
  /\ step[c] = "touching"
  /\ \/ SM!TouchLastUsed(c) /\ UNCHANGED <<step, reply>>
     \/ SM!TouchExpires(c) /\ Go(c, "authorized")
  /\ UNCHANGED <<sid, target, since, began>>

(* An empty name is 400, an unregistered one 404.                            *)
RefuseTarget(c) ==
  /\ step[c] = "authorized" /\ target[c] = "none"
  /\ \E status \in {400, 404} : Reply(c, status)
  /\ UNCHANGED smVars

(* A tool's arguments are decoded from the body, as the client sends it.      *)
AwaitBody(c) ==
  /\ step[c] = "authorized" /\ target[c] = "tool"
  /\ Go(c, "decoding")
  /\ UNCHANGED <<smVars, sid, target, since, began>>

Begin(c) ==
  /\ Go(c, "running")
  /\ began' = [began EXCEPT ![c] = now]
  /\ UNCHANGED <<smVars, sid, target, since>>

(* The body has come, or ended or broken off before it is a JSON object, which *)
(* means no arguments: either way tool.Execute begins, the session unasked.   *)
Execute(c) == step[c] = "decoding" /\ Begin(c)

(* The resource's Read begins at once: its handler does not look at the body.  *)
Read(c) == step[c] = "authorized" /\ target[c] = "resource" /\ Begin(c)

(* It returns, and the handler: 200 with the session's id, or 500 with its    *)
(* error.  (The response fits the connection's buffer, or is read.)          *)
RunReturns(c) ==
  /\ step[c] = "running"
  /\ \E status \in {200, 500} : Reply(c, status)
  /\ UNCHANGED smVars

(* Time passes, but a run is over within RunLimit: its clients time out.  A   *)
(* handler that waits for nothing does not sleep for a clock unit; one that   *)
(* waits for its body may wait for ever (http.Server has no ReadTimeout).     *)
Tick ==
  /\ SM!Tick
  /\ \A c \in Clients : /\ step[c] = "running" => now < began[c] + RunLimit
                        /\ step[c] # "authorized"
  /\ UNCHANGED reqVars

Handler(c) ==
  \/ Reject(c) \/ handleCreateSession(c) \/ InfoAnswers(c) \/ Touch(c)
  \/ RefuseTarget(c) \/ AwaitBody(c) \/ Execute(c) \/ Read(c) \/ RunReturns(c)
  \/ \E id \in SessionIds :
       \/ handleDelete(c, id) \/ handleInfo(c, id)
       \/ \E t \in Targets : handleCall(c, id, t)

(* The server's own goroutine; Stop is never called while it serves.         *)
Sweep == SM!CleanupExpired /\ UNCHANGED reqVars

Next == Tick \/ Sweep \/ \E c \in Clients : Handler(c)

Spec == Init /\ [][Next]_vars

(* A handler goes on once it has begun; the lock makes it wait, and Execute    *)
(* for the client's body, which nothing obliges the client to send.  The      *)
(* ticker fires for ever and its sweep gets the lock.                        *)
FairSpec ==
  /\ Spec
  /\ SF_vars(Sweep)
  /\ \A c \in Clients : /\ SF_vars(InfoAnswers(c)) /\ WF_vars(Touch(c))
                        /\ WF_vars(RefuseTarget(c) \/ AwaitBody(c) \/ Read(c))
                        /\ WF_vars(RunReturns(c))
-----------------------------------------------------------------------------
(* The handlers' state, and where each handler is against where its call of   *)
(* the session manager is.                                                   *)
TypeOK ==
  /\ SM!TypeOK
  /\ step \in [Clients -> Steps]
  /\ sid \in [Clients -> SessionIds \cup {NoId}]
  /\ target \in [Clients -> Targets]
  /\ since \in [Clients -> 0 .. MaxTime] /\ began \in [Clients -> 0 .. MaxTime]
  /\ \A c \in Clients :
       /\ step[c] = "inspecting" <=> pc[c] \in {"looked", "expired"}
       /\ step[c] = "touching" <=> pc[c] \in {"touching", "extending"}
       /\ step[c] = "decoding" => target[c] = "tool"

(* No effect without a session: a target runs only for a request whose        *)
(* session has been used at or after the request's arrival, that is, after    *)
(* TouchSession said true to this request and wrote LastUsed.                *)
RunsOnlyForTouchedSession ==
  [][\A c \in Clients :
       Execute(c) \/ Read(c) =>
         sid[c] \in used /\ session[sid[c]].lastUsed >= since[c]]_vars

(* How long the session of an answer can still be used, unless it was removed *)
(* meanwhile: a resource is read right after the touch, so TTL - RunLimit is  *)
(* left.  A tool waits for its body in between, and what its client took to   *)
(* send it is gone from that: nothing else is, and nothing renews the lease,  *)
(* so a client slower than the lease is answered with a session that expired. *)
AnsweredSessionUsable ==
  \A c \in Clients :
    LET waited == IF target[c] = "tool" THEN began[c] - since[c] ELSE 0
    IN  step[c] = "running" /\ sid[c] \in sessions =>
          session[sid[c]].expiresAt - now >= TTL - RunLimit - waited

(* An expired session that nobody asks for again does not stay in the map     *)
(* for ever: it is swept, unless a request that is under way extends it.     *)
ExpiredAreSwept ==
  \A id \in SessionIds :
    (id \in sessions /\ SM!Expired(id)) ~> (id \notin sessions \/ ~SM!Expired(id))

(* Every request is answered, or comes to wait for the body of its own client; *)
(* nothing else holds it up, other requests' locks and bodies included.       *)
RequestsAnswered ==
  \A c \in Clients :
    (step[c] \notin {"idle", "decoding"}) ~> (step[c] \in {"idle", "decoding"})
=============================================================================

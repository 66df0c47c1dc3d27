---------------------------- MODULE EngineCalls ----------------------------
(***************************************************************************)
(* Calls of the tools that ask another service: the MCP handler of          *)
(* registerTool, which puts RequestTimeout on the context, or the REST      *)
(* handler, which puts none; the tools' Execute with their validation; the  *)
(* client methods of pkg/clients, each request with the timeout of its HTTP *)
(* client; and at the other end of a network that may lose or delay either  *)
(* message the peer: the Coordination Engine, a KServe predictor or the     *)
(* Kubernetes API.  No layer retries a request.                             *)
(***************************************************************************)
EXTENDS Integers, FiniteSets

CONSTANTS ToolCalls,           \* the calls of tools
          RequestTimeout,      \* config.RequestTimeout
          ClientTimeout,       \* the 30 s of the engine's and of the Kubernetes client
          KServeDefault,       \* the 15 s of the KServe client if no timeout is given
          MaxTime              \* bound of the clock

ASSUME EngineAssumption ==
  /\ RequestTimeout \in Nat /\ ClientTimeout \in Nat /\ KServeDefault \in Nat
  /\ MaxTime \in Nat

VARIABLES
  now,
  path, tool, args, dry,   \* each call: how it came, what it asks for
  pc,        \* "new"; waiting for "nodes", "pods", "peer" or "trends"; "answered"
  started,   \* when its context was made
  sent,      \* when the request it waits for was sent
  answer,    \* "none", "ok", "rejected", "error", "abandoned" by its client
  received,  \* history: whether what it asks its peer for has arrived
  wire,      \* its message to or from the peer: "none", "request", "response"
  status,    \* the status in the response
  applied    \* how often the peer has done what the call asks for

call == <<path, tool, args, dry>>
peer == <<wire, status, applied>>
vars == <<now, call, pc, started, sent, answer, received, peer>>

(* "query": the tools that make one request that only reads and whose          *)
(* arguments are not checked further, such as list-incidents and list-pods.   *)
Tools == {"trigger-remediation", "create-incident", "predict-resource-usage",
          "analyze-anomalies", "get-model-status", "list-models", "query"}

(* "incomplete": a required argument is missing or not one of its values;     *)
(* "mistyped": an optional one (dry_run if given) has another JSON type;      *)
(* "conflicting": two of the filters deployment, pod and label_selector.     *)
Args == {"valid", "incomplete", "mistyped", "conflicting"}

ArgsOf(t) ==
  CASE t = "list-models"       -> {"valid"}
    [] t = "analyze-anomalies" -> Args
    [] OTHER                   -> Args \ {"conflicting"}

Paths == {"mcp", "rest"}

Statuses == {200, 201, 202, 400, 500}

Requesting == {"nodes", "pods", "peer", "trends"}

Init ==
  /\ now = 0
  /\ path \in [ToolCalls -> Paths] /\ tool \in [ToolCalls -> Tools]
  /\ args \in [ToolCalls -> Args]
  /\ \A c \in ToolCalls : args[c] \in ArgsOf(tool[c])
  /\ dry \in [ToolCalls -> BOOLEAN]
  /\ pc = [c \in ToolCalls |-> "new"]
  /\ started = [c \in ToolCalls |-> 0] /\ sent = [c \in ToolCalls |-> 0]
  /\ answer = [c \in ToolCalls |-> "none"]
  /\ received = [c \in ToolCalls |-> FALSE]
  /\ wire = [c \in ToolCalls |-> "none"]
  /\ status = [c \in ToolCalls |-> 0]
  /\ applied = [c \in ToolCalls |-> 0]

(* The statuses each client method takes for success; the peers give them     *)
(* for nothing else.                                                         *)
Success(t) ==
  CASE t = "trigger-remediation" -> {200, 202}
    [] t = "create-incident"     -> {201}
    [] OTHER                     -> {200}

(* Only create-incident reports the error of json.Unmarshal; the others go on *)
(* with what it could decode.                                                *)
Rejects(c) ==
  \/ args[c] \in {"incomplete", "conflicting"}
  \/ args[c] = "mistyped" /\ tool[c] = "create-incident"

(* The DryRun of the request: its default if the argument was not decoded.   *)
DryRun(c) == dry[c] /\ args[c] # "mistyped"

(* Whether the peer changes anything for the request.                        *)
HasEffect(c) ==
  \/ tool[c] = "create-incident"
  \/ tool[c] = "trigger-remediation" /\ ~DryRun(c)

-----------------------------------------------------------------------------
Answer(c, a) ==
  /\ pc' = [pc EXCEPT ![c] = "answered"]
  /\ answer' = [answer EXCEPT ![c] = a]

Await(c, what) ==
  /\ pc' = [pc EXCEPT ![c] = what]
  /\ sent' = [sent EXCEPT ![c] = now]

(* Execute, or for an MCP call the SDK by the input schema, turns it down.   *)
Reject(c) ==
  /\ pc[c] = "new"
  /\ Rejects(c) \/ (path[c] = "mcp" /\ args[c] # "valid")
  /\ Answer(c, "rejected")
  /\ UNCHANGED <<now, call, started, sent, received, peer>>

(* A prediction first looks at the cluster: at nodes and pods for the scope   *)
(* cluster, at pods for the others.                                          *)
Start(c) ==
  /\ pc[c] = "new" /\ ~Rejects(c)
  /\ started' = [started EXCEPT ![c] = now]
  /\ IF tool[c] = "predict-resource-usage"
     THEN (Await(c, "nodes") \/ Await(c, "pods")) /\ UNCHANGED wire
     ELSE Await(c, "peer") /\ wire' = [wire EXCEPT ![c] = "request"]
  /\ UNCHANGED <<now, call, answer, received, status, applied>>

NodesArrive(c) ==
  /\ pc[c] = "nodes"
  /\ Await(c, "pods")
  /\ UNCHANGED <<now, call, started, answer, received, peer>>

(* The metrics are estimated from the pods; the deployment or pod asked for   *)
(* may not be among them.                                                    *)
PodsArrive(c) ==
  /\ pc[c] = "pods"
  /\ \/ Await(c, "peer") /\ wire' = [wire EXCEPT ![c] = "request"] /\ UNCHANGED answer
     \/ Answer(c, "error") /\ UNCHANGED <<sent, wire>>
  /\ UNCHANGED <<now, call, started, received, status, applied>>

(* The answer to a request that failed: trends are optional, and list-models   *)
(* reports the failure in a message, as a success.                           *)
Fail(c) ==
  Answer(c, IF pc[c] = "trends" \/ tool[c] = "list-models" THEN "ok" ELSE "error")

(* Each Fault... is the operator after it with one plausible bug; no          *)
(* specification uses them.  They show that the properties can fail.         *)
FaultStatusNotChecked(c) ==
  /\ pc[c] = "peer" /\ wire[c] = "response" /\ tool[c] # "predict-resource-usage"
  /\ received' = [received EXCEPT ![c] = TRUE]
  /\ Answer(c, "ok")
  /\ wire' = [wire EXCEPT ![c] = "none"]
  /\ UNCHANGED <<now, call, started, sent, status, applied>>

(* After a prediction the tool asks for the capacity trends too.              *)
ReceivePrediction(c) ==
  /\ pc[c] = "peer" /\ wire[c] = "response" /\ tool[c] = "predict-resource-usage"
  /\ status[c] \in Success(tool[c])
  /\ received' = [received EXCEPT ![c] = TRUE]
  /\ Await(c, "trends")
  /\ wire' = [wire EXCEPT ![c] = "request"]
  /\ UNCHANGED <<now, call, started, answer, status, applied>>

ReceiveResult(c) ==
  /\ pc[c] = "peer" /\ wire[c] = "response" /\ tool[c] # "predict-resource-usage"
  /\ status[c] \in Success(tool[c])
  /\ received' = [received EXCEPT ![c] = TRUE]
  /\ Answer(c, "ok")
  /\ wire' = [wire EXCEPT ![c] = "none"]
  /\ UNCHANGED <<now, call, started, sent, status, applied>>

(* Another status, or a body that cannot be decoded.                         *)
ReceiveUnusable(c) ==
  /\ pc[c] = "peer" /\ wire[c] = "response"
  /\ Fail(c)
  /\ wire' = [wire EXCEPT ![c] = "none"]
  /\ UNCHANGED <<now, call, started, sent, received, status, applied>>

(* With or without the trends the prediction is the answer.                  *)
ReceiveTrends(c) ==
  /\ pc[c] = "trends" /\ wire[c] = "response"
  /\ Answer(c, "ok")
  /\ wire' = [wire EXCEPT ![c] = "none"]
  /\ UNCHANGED <<now, call, started, sent, received, status, applied>>

(* The timeout of the HTTP client that sends the request.                    *)
Timeout(t) ==
  IF t # "get-model-status" THEN ClientTimeout
  ELSE IF RequestTimeout = 0 THEN KServeDefault ELSE RequestTimeout

FaultOnlyClientTimeout(c) == now >= sent[c] + Timeout(tool[c])

(* The HTTP client's timeout and the context's, whichever is first.          *)
Due(c) ==
  \/ now >= sent[c] + Timeout(tool[c])
  \/ path[c] = "mcp" /\ now >= started[c] + RequestTimeout

FaultResendsOnTimeout(c) ==
  /\ pc[c] \in Requesting /\ Due(c)
  /\ wire' = [wire EXCEPT ![c] = "request"]
  /\ Await(c, "peer")
  /\ UNCHANGED <<now, call, started, answer, received, status, applied>>

FaultNoTimeoutOnRest(c) ==
  /\ pc[c] \in Requesting /\ path[c] = "mcp" /\ Due(c)
  /\ Fail(c)
  /\ UNCHANGED <<now, call, started, sent, received, peer>>

(* The request fails with the deadline; what is on the wire stays there.     *)
Deadline(c) ==
  /\ pc[c] \in Requesting /\ Due(c)
  /\ Fail(c)
  /\ UNCHANGED <<now, call, started, sent, received, peer>>

(* The connection is refused or breaks: the request may have arrived or not. *)
ConnectionFails(c) ==
  /\ pc[c] \in Requesting
  /\ Fail(c)
  /\ UNCHANGED <<now, call, started, sent, received, peer>>

(* The caller's client disconnects, which cancels the request's context.     *)
Disconnect(c) ==
  /\ pc[c] \in Requesting
  /\ Answer(c, "abandoned")
  /\ UNCHANGED <<now, call, started, sent, received, peer>>

-----------------------------------------------------------------------------
(* The peer does what it is asked for and says so, or refuses.               *)
PeerApplies(c) ==
  /\ wire[c] = "request"
  /\ applied' = [applied EXCEPT ![c] = IF HasEffect(c) THEN @ + 1 ELSE @]
  /\ \E st \in Success(tool[c]) : status' = [status EXCEPT ![c] = st]
  /\ wire' = [wire EXCEPT ![c] = "response"]
  /\ UNCHANGED <<now, call, pc, started, sent, answer, received>>

PeerRefuses(c) ==
  /\ wire[c] = "request"
  /\ \E st \in {400, 500} : status' = [status EXCEPT ![c] = st]
  /\ wire' = [wire EXCEPT ![c] = "response"]
  /\ UNCHANGED <<now, call, pc, started, sent, answer, received, applied>>

(* A request or a response is lost: a connection breaks, the peer restarts.   *)
Lose(c) ==
  /\ wire[c] # "none"
  /\ wire' = [wire EXCEPT ![c] = "none"]
  /\ UNCHANGED <<now, call, pc, started, sent, answer, received, status, applied>>

(* The runtime's timers do not lag: no call waits beyond its deadline.       *)
Tick ==
  /\ now < MaxTime
  /\ \A c \in ToolCalls : pc[c] \in Requesting => ~Due(c)
  /\ now' = now + 1
  /\ UNCHANGED <<call, pc, started, sent, answer, received, peer>>

Call(c) ==
  \/ Reject(c) \/ Start(c) \/ NodesArrive(c) \/ PodsArrive(c)
  \/ ReceivePrediction(c) \/ ReceiveResult(c) \/ ReceiveUnusable(c) \/ ReceiveTrends(c)
  \/ Deadline(c) \/ ConnectionFails(c) \/ Disconnect(c)

Peer(c) == PeerApplies(c) \/ PeerRefuses(c) \/ Lose(c)

Next == Tick \/ \E c \in ToolCalls : Call(c) \/ Peer(c)

(* Nothing obliges a peer to answer; time passes and timers fire.            *)
Spec ==
  /\ Init /\ [][Next]_vars
  /\ WF_vars(Tick)
  /\ \A c \in ToolCalls : WF_vars(Deadline(c))
-----------------------------------------------------------------------------
TypeOK ==
  /\ now \in 0 .. MaxTime
  /\ path \in [ToolCalls -> Paths] /\ tool \in [ToolCalls -> Tools]
  /\ args \in [ToolCalls -> Args] /\ dry \in [ToolCalls -> BOOLEAN]
  /\ pc \in [ToolCalls -> Requesting \cup {"new", "answered"}]
  /\ started \in [ToolCalls -> 0 .. MaxTime] /\ sent \in [ToolCalls -> 0 .. MaxTime]
  /\ answer \in [ToolCalls -> {"none", "ok", "rejected", "error", "abandoned"}]
  /\ received \in [ToolCalls -> BOOLEAN]
  /\ wire \in [ToolCalls -> {"none", "request", "response"}]
  /\ status \in [ToolCalls -> Statuses \cup {0}]
  /\ applied \in [ToolCalls -> Nat]

(* A tool that reports success has had its effect or has got what it asked     *)
(* for: the remediation runs, the incident exists, the prediction is there;   *)
(* list-models alone calls a failure a success.  And what is there is not     *)
(* lost to a failure of what comes after it.                                 *)
OkMeansApplied ==
  \A c \in ToolCalls :
    /\ answer[c] = "ok" /\ HasEffect(c) => applied[c] = 1
    /\ answer[c] = "ok" => received[c] \/ tool[c] = "list-models"
    /\ answer[c] = "error" => ~received[c]

(* The peer acts at most once for a call, also when the response is lost, the *)
(* deadline passes or the peer acts after the caller was told of a failure;   *)
(* and never for a call that was rejected, or a dry run that was understood   *)
(* as one.                                                                   *)
AppliedAtMostOnce ==
  \A c \in ToolCalls :
    applied[c] <= IF HasEffect(c) /\ answer[c] # "rejected" THEN 1 ELSE 0

(* The longest that a call may take: RequestTimeout over MCP, however many     *)
(* requests it makes and however they use up their own timeouts; over REST    *)
(* the timeouts of all its requests.                                         *)
Longest(c) ==
  IF path[c] = "mcp" THEN RequestTimeout
  ELSE IF tool[c] = "predict-resource-usage" THEN 4 * ClientTimeout ELSE Timeout(tool[c])

(* No call is under way for longer than that.                                *)
CallsInTime ==
  \A c \in ToolCalls : pc[c] \in Requesting => now <= started[c] + Longest(c)

(* And a call ends, though neither Kubernetes nor the engine answers any more. *)
CallsEnd ==
  \A c \in ToolCalls :
    (pc[c] \in Requesting /\ started[c] + Longest(c) <= MaxTime) ~> (pc[c] = "answered")
=============================================================================

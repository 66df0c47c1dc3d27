------------------------- MODULE EngineCallsProofs -------------------------
(***************************************************************************)
(* Proofs about EngineCalls: for every number of calls and all timeouts the *)
(* peer acts at most once for a call, a success was one, and no call lasts   *)
(* longer than its deadlines allow.                                         *)
(***************************************************************************)
EXTENDS EngineCalls, TLAPS

(* Nothing has been asked of the peer yet, or ever will be.                  *)
Unsent(c) == pc[c] \in {"new", "nodes", "pods"} \/ answer[c] = "rejected"

(* What the wire knows of what the peer did: nothing before it has the        *)
(* request, and a response with a success status only after it acted.        *)
WireTellsEffect ==
  \A c \in ToolCalls :
    /\ Unsent(c) => wire[c] = "none"
    /\ Unsent(c) \/ wire[c] = "request" \/ ~HasEffect(c) => applied[c] = 0
    /\ wire[c] = "response" /\ status[c] \in Success(tool[c]) /\ HasEffect(c)
         => applied[c] = 1
    /\ applied[c] <= 1

(* How far a call is: it has an answer at its end only, and asks for trends   *)
(* only after a prediction.                                                  *)
CallInStep ==
  \A c \in ToolCalls :
    /\ pc[c] # "answered" => answer[c] = "none"
    /\ pc[c] = "trends" => received[c] /\ tool[c] = "predict-resource-usage"
    /\ pc[c] \in Requesting \cup {"new"} => (received[c] <=> pc[c] = "trends")

(* The inductive invariant.                                                  *)
IInv == TypeOK /\ WireTellsEffect /\ CallInStep /\ OkMeansApplied

-----------------------------------------------------------------------------
(* Each client method takes for success only what a peer may send.           *)
LEMMA SuccessStatuses ==
  ASSUME NEW t \in Tools
  PROVE  Success(t) \subseteq Statuses \ {400, 500}
BY DEF Tools, Success, Statuses

(* A prediction changes nothing, and neither does a list.                    *)
LEMMA ReadingHasNoEffect ==
  ASSUME NEW c \in ToolCalls, tool[c] \in {"predict-resource-usage", "list-models"}
  PROVE  ~HasEffect(c)
BY DEF HasEffect

(* No call has been sent.                                                    *)
LEMMA InitIInv == Init => IInv
<1> SUFFICES ASSUME Init PROVE IInv
  OBVIOUS
<1>1. TypeOK
  BY EngineAssumption DEF Init, TypeOK
<1>2. WireTellsEffect
  BY DEF Init, WireTellsEffect, Unsent
<1>3. CallInStep /\ OkMeansApplied
  BY DEF Init, CallInStep, OkMeansApplied, Requesting
<1> QED
  BY <1>1, <1>2, <1>3 DEF IInv

(* What a step of one call leaves alone: the other calls, and what is asked.  *)
OnlyCall(c) ==
  /\ UNCHANGED <<now, call, status, applied>>
  /\ \A d \in ToolCalls \ {c} :
       /\ pc'[d] = pc[d] /\ answer'[d] = answer[d]
       /\ received'[d] = received[d] /\ wire'[d] = wire[d]

(* To keep the invariant it is enough to look at the call that moves.         *)
LEMMA OnlyCallKeepsIInv ==
  ASSUME IInv, NEW c \in ToolCalls, OnlyCall(c), TypeOK',
         /\ Unsent(c)' => wire'[c] = "none"
         /\ Unsent(c)' \/ wire'[c] = "request" => applied[c] = 0
         /\ wire'[c] = "response" => wire[c] = "response",
         /\ pc'[c] # "answered" => answer'[c] = "none"
         /\ pc'[c] = "trends" => received'[c] /\ tool[c] = "predict-resource-usage"
         /\ pc'[c] \in Requesting \cup {"new"} => (received'[c] <=> pc'[c] = "trends"),
         /\ answer'[c] = "ok" /\ HasEffect(c) => applied[c] = 1
         /\ answer'[c] = "ok" => received'[c] \/ tool[c] = "list-models"
         /\ answer'[c] = "error" => ~received'[c]
  PROVE  IInv'
<1>1. /\ \A d \in ToolCalls : HasEffect(d)' = HasEffect(d)
      /\ \A d \in ToolCalls \ {c} : Unsent(d)' = Unsent(d)
  BY DEF OnlyCall, HasEffect, DryRun, Unsent, call
<1>2. WireTellsEffect'
  BY <1>1 DEF IInv, WireTellsEffect, OnlyCall, call
<1>3. CallInStep'
  BY DEF IInv, CallInStep, OnlyCall, call
<1>4. OkMeansApplied'
  BY <1>1 DEF IInv, OkMeansApplied, OnlyCall, call
<1> QED
  BY <1>2, <1>3, <1>4 DEF IInv

(* The end of a call whose request had failed, or was turned down.           *)
LEMMA EndKeepsIInv ==
  ASSUME IInv, NEW c \in ToolCalls,
         Reject(c) \/ Deadline(c) \/ ConnectionFails(c) \/ Disconnect(c)
  PROVE  IInv'
<1>1. /\ pc[c] \in Requesting \cup {"new"}
      /\ UNCHANGED <<now, call, started, sent, received, peer>>
      /\ pc' = [pc EXCEPT ![c] = "answered"]
  BY DEF Reject, Deadline, ConnectionFails, Disconnect, Fail, Answer
<1>2. PICK a \in {"ok", "rejected", "error", "abandoned"} :
        /\ answer' = [answer EXCEPT ![c] = a]
        /\ a = "rejected" => pc[c] = "new"
        /\ a = "ok" => pc[c] = "trends" \/ tool[c] = "list-models"
        /\ a = "error" => pc[c] \in {"nodes", "pods", "peer"}
  BY DEF Reject, Deadline, ConnectionFails, Disconnect, Fail, Answer, Requesting
<1>3. /\ pc'[c] = "answered" /\ answer'[c] = a
      /\ \A d \in ToolCalls \ {c} : pc'[d] = pc[d] /\ answer'[d] = answer[d]
  BY <1>1, <1>2 DEF IInv, TypeOK
<1>4. TypeOK'
  BY <1>1, <1>2 DEF IInv, TypeOK, call, peer
<1>5. OnlyCall(c)
  BY <1>1, <1>3 DEF OnlyCall, call, peer
<1>6. wire'[c] = wire[c] /\ received'[c] = received[c]
  BY <1>1 DEF peer
<1>7. /\ Unsent(c)' => wire'[c] = "none"
      /\ Unsent(c)' \/ wire'[c] = "request" => applied[c] = 0
  BY <1>2, <1>3, <1>6 DEF IInv, WireTellsEffect, Unsent
<1>8. /\ answer'[c] = "ok" => (received[c] \/ tool[c] = "list-models") /\ ~HasEffect(c)
      /\ answer'[c] = "error" => ~received[c]
  BY <1>2, <1>3, ReadingHasNoEffect DEF IInv, CallInStep, Requesting
<1> QED
  BY <1>3, <1>4, <1>5, <1>6, <1>7, <1>8, OnlyCallKeepsIInv DEF Requesting

(* The steps that send a request, or learn from Kubernetes.                  *)
LEMMA AskKeepsIInv ==
  ASSUME IInv, NEW c \in ToolCalls, Start(c) \/ NodesArrive(c) \/ PodsArrive(c)
  PROVE  IInv'
<1>1. /\ pc[c] \in {"new", "nodes", "pods"}
      /\ UNCHANGED <<now, call, received, status, applied>>
  BY DEF Start, NodesArrive, PodsArrive, peer
<1>2. PICK p \in {"nodes", "pods", "peer", "answered"} :
        /\ pc' = [pc EXCEPT ![c] = p]
        /\ IF p = "peer" THEN wire' = [wire EXCEPT ![c] = "request"] ELSE wire' = wire
        /\ IF p = "answered" THEN answer' = [answer EXCEPT ![c] = "error"]
           ELSE answer' = answer
  BY DEF Start, NodesArrive, PodsArrive, Await, Answer, peer
<1>3. started' \in [ToolCalls -> 0 .. MaxTime] /\ sent' \in [ToolCalls -> 0 .. MaxTime]
  BY DEF Start, NodesArrive, PodsArrive, Await, Answer, IInv, TypeOK
<1>4. TypeOK'
  BY <1>1, <1>2, <1>3 DEF IInv, TypeOK, Requesting, call
<1>5. OnlyCall(c)
  BY <1>1, <1>2 DEF OnlyCall, IInv, TypeOK
<1>6. /\ pc'[c] = p /\ received'[c] = received[c] /\ ~received[c]
      /\ wire'[c] = (IF p = "peer" THEN "request" ELSE "none")
      /\ answer'[c] = (IF p = "answered" THEN "error" ELSE "none")
      /\ applied[c] = 0
  BY <1>1, <1>2 DEF IInv, TypeOK, CallInStep, WireTellsEffect, Unsent, Requesting
<1> QED
  BY <1>4, <1>5, <1>6, OnlyCallKeepsIInv DEF Unsent, Requesting

(* The peer's responses.                                                     *)
LEMMA ReceiveKeepsIInv ==
  ASSUME IInv, NEW c \in ToolCalls,
         ReceivePrediction(c) \/ ReceiveResult(c) \/ ReceiveUnusable(c) \/ ReceiveTrends(c)
  PROVE  IInv'
<1>1. /\ pc[c] \in {"peer", "trends"} /\ wire[c] = "response"
      /\ UNCHANGED <<now, call, started, status, applied>>
  BY DEF ReceivePrediction, ReceiveResult, ReceiveUnusable, ReceiveTrends
<1>2. \/ /\ pc[c] = "peer" /\ tool[c] = "predict-resource-usage"
         /\ pc' = [pc EXCEPT ![c] = "trends"] /\ sent' = [sent EXCEPT ![c] = now]
         /\ received' = [received EXCEPT ![c] = TRUE]
         /\ wire' = [wire EXCEPT ![c] = "request"] /\ answer' = answer
      \/ /\ \/ /\ pc[c] = "peer" /\ status[c] \in Success(tool[c])
               /\ received' = [received EXCEPT ![c] = TRUE]
            \/ pc[c] = "trends" /\ received' = received
         /\ pc' = [pc EXCEPT ![c] = "answered"] /\ answer' = [answer EXCEPT ![c] = "ok"]
         /\ wire' = [wire EXCEPT ![c] = "none"] /\ sent' = sent
      \/ /\ pc[c] = "peer" /\ UNCHANGED <<received, sent>>
         /\ pc' = [pc EXCEPT ![c] = "answered"]
         /\ \/ answer' = [answer EXCEPT ![c] = "error"]
            \/ answer' = [answer EXCEPT ![c] = "ok"] /\ tool[c] = "list-models"
         /\ wire' = [wire EXCEPT ![c] = "none"]
  BY DEF ReceivePrediction, ReceiveResult, ReceiveUnusable, ReceiveTrends, Await, Answer, Fail
<1>3. TypeOK'
  <2>1. received' \in [ToolCalls -> BOOLEAN]
    BY <1>2 DEF IInv, TypeOK
  <2>2. /\ pc' \in [ToolCalls -> Requesting \cup {"new", "answered"}]
        /\ sent' \in [ToolCalls -> 0 .. MaxTime]
        /\ answer' \in [ToolCalls -> {"none", "ok", "rejected", "error", "abandoned"}]
        /\ wire' \in [ToolCalls -> {"none", "request", "response"}]
    BY <1>2 DEF IInv, TypeOK, Requesting
  <2> QED
    BY <1>1, <2>1, <2>2 DEF IInv, TypeOK, call
<1>4. OnlyCall(c)
  BY <1>1, <1>2 DEF OnlyCall, IInv, TypeOK
<1>5. /\ answer[c] = "none"
      /\ received[c] <=> pc[c] = "trends"
      /\ pc[c] = "trends" => tool[c] = "predict-resource-usage"
      /\ ~HasEffect(c) => applied[c] = 0
      /\ status[c] \in Success(tool[c]) /\ HasEffect(c) => applied[c] = 1
      /\ tool[c] \in {"predict-resource-usage", "list-models"} => ~HasEffect(c)
  BY <1>1, ReadingHasNoEffect DEF IInv, CallInStep, WireTellsEffect, Requesting
<1>6. \/ /\ pc'[c] = "trends" /\ received'[c] /\ wire'[c] = "request"
         /\ answer'[c] = "none" /\ tool[c] = "predict-resource-usage"
      \/ /\ pc'[c] = "answered" /\ wire'[c] = "none"
         /\ \/ answer'[c] = "error" /\ ~received'[c]
            \/ /\ answer'[c] = "ok"
               /\ HasEffect(c) => applied[c] = 1
               /\ received'[c] \/ tool[c] = "list-models"
  BY <1>2, <1>5 DEF IInv, TypeOK
<1> QED
  BY <1>3, <1>4, <1>5, <1>6, OnlyCallKeepsIInv DEF Unsent, Requesting

(* The steps of the peer and of the network: the request is consumed when     *)
(* the peer acts, so it acts once.                                           *)
LEMMA PeerKeepsIInv ==
  ASSUME IInv, NEW c \in ToolCalls, Peer(c)
  PROVE  IInv'
<1>1. /\ UNCHANGED <<now, call, pc, started, sent, answer, received>>
      /\ wire[c] # "none" /\ ~Unsent(c)
  BY DEF Peer, PeerApplies, PeerRefuses, Lose, IInv, WireTellsEffect
<1>2. \A d \in ToolCalls : HasEffect(d)' = HasEffect(d) /\ Unsent(d)' = Unsent(d)
  BY <1>1 DEF HasEffect, DryRun, Unsent, call
<1>3. CallInStep'
  BY <1>1 DEF IInv, CallInStep, call
<1>4. tool[c] \in Tools /\ applied[c] \in Nat
  BY DEF IInv, TypeOK
<1>5. CASE PeerApplies(c)
  <2> PICK st \in Success(tool[c]) : status' = [status EXCEPT ![c] = st]
    BY <1>5 DEF PeerApplies
  <2>1. st \in Statuses
    BY <1>4, SuccessStatuses
  <2>2. wire[c] = "request" /\ applied[c] = 0
    BY <1>5 DEF PeerApplies, IInv, WireTellsEffect
  <2>3. /\ wire' = [wire EXCEPT ![c] = "response"]
        /\ applied' = [applied EXCEPT ![c] = IF HasEffect(c) THEN 1 ELSE 0]
    BY <2>2, <1>5 DEF PeerApplies
  <2>4. TypeOK'
    BY <1>1, <2>1, <2>3 DEF IInv, TypeOK, call
  <2>5. /\ wire'[c] = "response"
        /\ applied'[c] = (IF HasEffect(c) THEN 1 ELSE 0)
        /\ \A d \in ToolCalls \ {c} :
             wire'[d] = wire[d] /\ applied'[d] = applied[d] /\ status'[d] = status[d]
    BY <2>3 DEF IInv, TypeOK
  <2>6. WireTellsEffect'
    BY <1>1, <1>2, <2>5 DEF IInv, WireTellsEffect, call
  <2>7. OkMeansApplied'
    BY <1>1, <1>2, <2>2, <2>5 DEF IInv, OkMeansApplied, call
  <2> QED
    BY <1>3, <2>4, <2>6, <2>7 DEF IInv
<1>6. CASE PeerRefuses(c)
  <2> PICK st \in {400, 500} : status' = [status EXCEPT ![c] = st]
    BY <1>6 DEF PeerRefuses
  <2>1. st \in Statuses /\ st \notin Success(tool[c])
    BY <1>4, SuccessStatuses DEF Statuses
  <2>2. applied' = applied /\ wire' = [wire EXCEPT ![c] = "response"]
    BY <1>6 DEF PeerRefuses
  <2>3. TypeOK'
    BY <1>1, <2>1, <2>2 DEF IInv, TypeOK, call
  <2>4. WireTellsEffect'
    BY <1>1, <1>2, <2>1, <2>2 DEF IInv, TypeOK, WireTellsEffect, call
  <2>5. OkMeansApplied'
    BY <1>1, <1>2, <2>2 DEF IInv, OkMeansApplied, call
  <2> QED
    BY <1>3, <2>3, <2>4, <2>5 DEF IInv
<1>7. CASE Lose(c)
  <2>1. UNCHANGED <<status, applied>> /\ wire' = [wire EXCEPT ![c] = "none"]
    BY <1>7 DEF Lose
  <2>2. TypeOK'
    BY <1>1, <2>1 DEF IInv, TypeOK, call
  <2>3. WireTellsEffect' /\ OkMeansApplied'
    BY <1>1, <1>2, <2>1 DEF IInv, TypeOK, WireTellsEffect, OkMeansApplied, call
  <2> QED
    BY <1>3, <2>2, <2>3 DEF IInv
<1> QED
  BY <1>5, <1>6, <1>7 DEF Peer

(* The clock, and stuttering.                                                *)
LEMMA TickKeepsIInv ==
  ASSUME IInv, Tick \/ UNCHANGED vars
  PROVE  IInv'
<1>1. UNCHANGED <<call, pc, started, sent, answer, received, peer>>
  BY DEF Tick, vars
<1>2. now' \in 0 .. MaxTime
  BY EngineAssumption DEF Tick, vars, IInv, TypeOK
<1>3. \A d \in ToolCalls : HasEffect(d)' = HasEffect(d) /\ Unsent(d)' = Unsent(d)
  BY <1>1 DEF HasEffect, DryRun, Unsent, call
<1>4. TypeOK'
  BY <1>1, <1>2 DEF IInv, TypeOK, call, peer
<1>5. WireTellsEffect' /\ CallInStep' /\ OkMeansApplied'
  BY <1>1, <1>3 DEF IInv, WireTellsEffect, CallInStep, OkMeansApplied, call, peer
<1> QED
  BY <1>4, <1>5 DEF IInv

-----------------------------------------------------------------------------
(* Every step keeps the invariant.                                           *)
LEMMA NextKeepsIInv == IInv /\ [Next]_vars => IInv'
BY EndKeepsIInv, AskKeepsIInv, ReceiveKeepsIInv, PeerKeepsIInv, TickKeepsIInv
DEF Next, Call

(* The inductive invariant holds throughout.                                 *)
THEOREM Invariance == Spec => []IInv
BY InitIInv, NextKeepsIInv, PTL DEF Spec

(* Type correctness.                                                         *)
THEOREM TypeCorrect == Spec => []TypeOK
<1>1. IInv => TypeOK
  BY DEF IInv
<1> QED
  BY Invariance, <1>1, PTL

(* A tool that answers with success has had its effect, and a prediction that *)
(* arrived is answered or abandoned, never turned into an error.             *)
THEOREM SuccessIsReal == Spec => []OkMeansApplied
<1>1. IInv => OkMeansApplied
  BY DEF IInv
<1> QED
  BY Invariance, <1>1, PTL

(* Whatever is lost or late, the peer acts at most once for a call, and not   *)
(* at all for a rejected call or for a dry run.                              *)
THEOREM NeverTwice == Spec => []AppliedAtMostOnce
<1>1. IInv => AppliedAtMostOnce
  BY DEF IInv, TypeOK, WireTellsEffect, Unsent, AppliedAtMostOnce
<1> QED
  BY Invariance, <1>1, PTL

-----------------------------------------------------------------------------
(* The time its earlier requests have left a call that waits for this one.    *)
Before(c) ==
  CASE pc[c] = "pods"   -> ClientTimeout
    [] pc[c] = "trends" -> 3 * ClientTimeout
    [] pc[c] = "peer" /\ tool[c] = "predict-resource-usage" -> 2 * ClientTimeout
    [] OTHER -> 0

(* Only a prediction makes several requests; each is sent before the timeouts  *)
(* of those before it have run out, and the clock stops at every deadline.    *)
TimeInv ==
  \A c \in ToolCalls : pc[c] \in Requesting =>
    /\ pc[c] # "peer" => tool[c] = "predict-resource-usage"
    /\ sent[c] <= started[c] + Before(c)
    /\ now <= sent[c] + Timeout(tool[c])
    /\ path[c] = "mcp" => now <= started[c] + RequestTimeout

(* A timeout is a time, and one of the 30 s for all but get-model-status.      *)
LEMMA TimeoutIsTime ==
  ASSUME NEW t \in Tools
  PROVE  /\ Timeout(t) \in Nat
         /\ t = "predict-resource-usage" => Timeout(t) = ClientTimeout
BY EngineAssumption DEF Timeout

(* A step that sends a request keeps it, if the call is in time at that.       *)
LEMMA AwaitKeepsTimeInv ==
  ASSUME TypeOK, TypeOK', TimeInv, NEW c \in ToolCalls, NEW p \in Requesting,
         UNCHANGED <<now, call>>, Await(c, p),
         \A d \in ToolCalls \ {c} : started'[d] = started[d],
         p # "peer" => tool[c] = "predict-resource-usage",
         now <= started'[c] + Before(c)',
         path[c] = "mcp" => now <= started'[c] + RequestTimeout
  PROVE  TimeInv'
<1>1. pc'[c] = p /\ sent'[c] = now /\ now \in Nat /\ tool[c] \in Tools
  BY DEF Await, TypeOK
<1>2. \A d \in ToolCalls \ {c} : pc'[d] = pc[d] /\ sent'[d] = sent[d] /\ Before(d)' = Before(d)
  BY DEF Await, TypeOK, Before, call
<1>3. \A d \in ToolCalls : Timeout(tool[d])' = Timeout(tool[d])
  BY DEF Timeout, call
<1>4. now <= now + Timeout(tool[c])
  BY <1>1, TimeoutIsTime
<1> QED
  BY <1>1, <1>2, <1>3, <1>4 DEF TimeInv, call

(* Steps of a call keep it.                                                   *)
LEMMA CallKeepsTimeInv ==
  ASSUME TypeOK, TypeOK', TimeInv, NEW c \in ToolCalls, Call(c)
  PROVE  TimeInv'
<1>1. /\ ClientTimeout \in Nat /\ RequestTimeout \in Nat
      /\ now \in Nat /\ started[c] \in Nat /\ sent[c] \in Nat /\ tool[c] \in Tools
  BY EngineAssumption DEF TypeOK
<1>2. UNCHANGED <<now, call>>
  BY DEF Call, Reject, Start, NodesArrive, PodsArrive, ReceivePrediction, ReceiveResult,
         ReceiveUnusable, ReceiveTrends, Deadline, ConnectionFails, Disconnect
<1>3. ASSUME pc' = [pc EXCEPT ![c] = "answered"], UNCHANGED <<started, sent>>
      PROVE  TimeInv'
  <2>1. \A d \in ToolCalls : pc'[d] \in Requesting => pc'[d] = pc[d] /\ Before(d)' = Before(d)
    BY <1>2, <1>3 DEF TypeOK, Requesting, Before, call
  <2>2. \A d \in ToolCalls : Timeout(tool[d])' = Timeout(tool[d])
    BY <1>2 DEF Timeout, call
  <2> QED
    BY <1>2, <1>3, <2>1, <2>2 DEF TimeInv, call
<1>4. CASE Start(c)
  <2>1. started'[c] = now /\ \A d \in ToolCalls \ {c} : started'[d] = started[d]
    BY <1>4 DEF Start, TypeOK
  <2>2. PICK p \in Requesting :
          Await(c, p) /\ (p # "peer" => tool[c] = "predict-resource-usage")
    BY <1>4 DEF Start, Requesting
  <2>3. Before(c)' \in Nat
    BY <1>1 DEF Before
  <2>4. now <= started'[c] + Before(c)' /\ now <= started'[c] + RequestTimeout
    BY <1>1, <2>1, <2>3
  <2> QED
    BY <1>2, <2>1, <2>2, <2>4, AwaitKeepsTimeInv
<1>5. CASE NodesArrive(c)
  <2>1. pc[c] = "nodes" /\ Await(c, "pods") /\ started' = started
    BY <1>5 DEF NodesArrive
  <2>2. /\ tool[c] = "predict-resource-usage" /\ Before(c) = 0
        /\ now <= sent[c] + ClientTimeout /\ sent[c] <= started[c] + Before(c)
        /\ path[c] = "mcp" => now <= started[c] + RequestTimeout
    BY <2>1, <1>1, TimeoutIsTime DEF TimeInv, Requesting, Before
  <2>3. pc'[c] = "pods"
    BY <2>1 DEF Await, TypeOK
  <2>4. Before(c)' = ClientTimeout
    BY <2>3 DEF Before
  <2>5. now <= started'[c] + Before(c)'
    BY <1>1, <2>1, <2>2, <2>4
  <2> QED
    BY <1>2, <2>1, <2>2, <2>5, AwaitKeepsTimeInv DEF Requesting
<1>6. CASE PodsArrive(c)
  <2>1. pc[c] = "pods" /\ started' = started
    BY <1>6 DEF PodsArrive
  <2>2. CASE Await(c, "peer")
    <3>1. /\ tool[c] = "predict-resource-usage" /\ Before(c) = ClientTimeout
          /\ now <= sent[c] + ClientTimeout /\ sent[c] <= started[c] + Before(c)
          /\ path[c] = "mcp" => now <= started[c] + RequestTimeout
      BY <2>1, <1>1, TimeoutIsTime DEF TimeInv, Requesting, Before
    <3>2. pc'[c] = "peer" /\ tool'[c] = tool[c]
      BY <1>2, <2>2 DEF Await, TypeOK, call
    <3>3. Before(c)' = 2 * ClientTimeout
      BY <3>1, <3>2 DEF Before
    <3>4. now <= started'[c] + Before(c)'
      BY <1>1, <2>1, <3>1, <3>3
    <3> QED
      BY <1>2, <2>1, <2>2, <3>1, <3>4, AwaitKeepsTimeInv DEF Requesting
  <2>3. CASE Answer(c, "error") /\ sent' = sent
    BY <1>3, <2>1, <2>3 DEF Answer
  <2> QED
    BY <1>6, <2>2, <2>3 DEF PodsArrive
<1>7. CASE ReceivePrediction(c)
  <2>1. /\ pc[c] = "peer" /\ started' = started
        /\ tool[c] = "predict-resource-usage" /\ Await(c, "trends")
    BY <1>7 DEF ReceivePrediction
  <2>2. /\ Before(c) = 2 * ClientTimeout
        /\ now <= sent[c] + ClientTimeout /\ sent[c] <= started[c] + Before(c)
        /\ path[c] = "mcp" => now <= started[c] + RequestTimeout
    BY <2>1, <1>1, TimeoutIsTime DEF TimeInv, Requesting, Before
  <2>3. pc'[c] = "trends"
    BY <2>1 DEF Await, TypeOK
  <2>4. Before(c)' = 3 * ClientTimeout
    BY <2>3 DEF Before
  <2>5. now <= started'[c] + Before(c)'
    BY <1>1, <2>1, <2>2, <2>4
  <2> QED
    BY <1>2, <2>1, <2>2, <2>5, AwaitKeepsTimeInv DEF Requesting
<1>8. CASE \/ Reject(c) \/ ReceiveResult(c) \/ ReceiveUnusable(c) \/ ReceiveTrends(c)
           \/ Deadline(c) \/ ConnectionFails(c) \/ Disconnect(c)
  BY <1>3, <1>8 DEF Reject, ReceiveResult, ReceiveUnusable, ReceiveTrends, Deadline,
                     ConnectionFails, Disconnect, Fail, Answer
<1> QED
  BY <1>4, <1>5, <1>6, <1>7, <1>8 DEF Call

(* So do the steps of the peer, and the clock, which waits for no deadline.   *)
LEMMA OthersKeepTimeInv ==
  ASSUME TypeOK, TypeOK', TimeInv, Tick \/ UNCHANGED vars \/ \E c \in ToolCalls : Peer(c)
  PROVE  TimeInv'
<1>1. UNCHANGED <<call, pc, started, sent>>
  BY DEF Tick, vars, Peer, PeerApplies, PeerRefuses, Lose
<1>2. \A d \in ToolCalls : Before(d)' = Before(d) /\ Timeout(tool[d])' = Timeout(tool[d])
  BY <1>1 DEF Before, Timeout, call
<1>3. CASE now' = now
  BY <1>1, <1>2, <1>3 DEF TimeInv, call
<1>4. CASE Tick
  <2> SUFFICES ASSUME NEW d \in ToolCalls, pc[d] \in Requesting
               PROVE  /\ now' <= sent[d] + Timeout(tool[d])
                      /\ path[d] = "mcp" => now' <= started[d] + RequestTimeout
    BY <1>1, <1>2 DEF TimeInv, call
  <2>1. ~(now >= sent[d] + Timeout(tool[d]))
        /\ ~(path[d] = "mcp" /\ now >= started[d] + RequestTimeout)
    BY <1>4 DEF Tick, Due
  <2>2. /\ now \in Nat /\ sent[d] \in Nat /\ started[d] \in Nat /\ now' = now + 1
        /\ Timeout(tool[d]) \in Nat /\ RequestTimeout \in Nat
    BY <1>4, TimeoutIsTime, EngineAssumption DEF TypeOK, Tick
  <2> QED
    BY <2>1, <2>2
<1> QED
  BY <1>3, <1>4 DEF Tick, vars, Peer, PeerApplies, PeerRefuses, Lose

(* No call is under way for longer than its deadlines allow.                 *)
THEOREM CallsStayInTime == Spec => []CallsInTime
<1>1. Init => TimeInv
  BY DEF Init, TimeInv, Requesting
<1>2. TypeOK /\ TypeOK' /\ TimeInv /\ [Next]_vars => TimeInv'
  BY CallKeepsTimeInv, OthersKeepTimeInv DEF Next
<1>3. TypeOK /\ TimeInv => CallsInTime
  <2> SUFFICES ASSUME TypeOK, TimeInv, NEW c \in ToolCalls, pc[c] \in Requesting
               PROVE  now <= started[c] + Longest(c)
    BY DEF CallsInTime
  <2>1. /\ now \in Nat /\ sent[c] \in Nat /\ started[c] \in Nat /\ tool[c] \in Tools
        /\ ClientTimeout \in Nat /\ Timeout(tool[c]) \in Nat
        /\ tool[c] = "predict-resource-usage" => Timeout(tool[c]) = ClientTimeout
    BY TimeoutIsTime, EngineAssumption DEF TypeOK
  <2>2. sent[c] <= started[c] + Before(c) /\ now <= sent[c] + Timeout(tool[c])
    BY DEF TimeInv
  <2>3. Before(c) <= 3 * ClientTimeout /\ Before(c) \in Nat
    BY <2>1 DEF Before
  <2>4. tool[c] # "predict-resource-usage" => Before(c) = 0
    BY DEF TimeInv, Before, Requesting
  <2> QED
    BY <2>1, <2>2, <2>3, <2>4 DEF TimeInv, Longest
<1> QED
  BY TypeCorrect, <1>1, <1>2, <1>3, PTL DEF Spec

-----------------------------------------------------------------------------
(* How far a call is.                                                        *)
Stage == [new |-> 0, nodes |-> 1, pods |-> 2, peer |-> 3, trends |-> 4, answered |-> 5]

(* No layer retries: a call only goes forward, so it makes each of its        *)
(* requests once; its deadline and a request's timeout are set once and not   *)
(* renewed by what the peer or the network does; and its answer stands.      *)
CallsOnlyAdvance ==
  [][\A c \in ToolCalls :
       /\ pc'[c] = pc[c] \/ Stage[pc[c]] < Stage[pc'[c]]
       /\ pc[c] # "new" => started'[c] = started[c]
       /\ pc'[c] = pc[c] => sent'[c] = sent[c] /\ answer'[c] = answer[c]]_vars

(* What one step does to the call that takes it.                             *)
LEMMA CallAdvances ==
  ASSUME TypeOK, NEW c \in ToolCalls, Call(c)
  PROVE  /\ Stage[pc[c]] < Stage[pc'[c]]
         /\ pc[c] # "new" => started' = started
         /\ \A d \in ToolCalls \ {c} :
              /\ pc'[d] = pc[d] /\ started'[d] = started[d]
              /\ sent'[d] = sent[d] /\ answer'[d] = answer[d]
<1>1. /\ Stage["new"] = 0 /\ Stage["nodes"] = 1 /\ Stage["pods"] = 2
      /\ Stage["peer"] = 3 /\ Stage["trends"] = 4 /\ Stage["answered"] = 5
  BY DEF Stage
<1>2. /\ pc[c] = "new" => pc'[c] \in {"nodes", "pods", "peer", "answered"}
      /\ pc[c] = "nodes" => pc'[c] \in {"pods", "answered"}
      /\ pc[c] = "pods" => pc'[c] \in {"peer", "answered"}
      /\ pc[c] = "peer" => pc'[c] \in {"trends", "answered"}
      /\ pc[c] = "trends" => pc'[c] = "answered"
      /\ pc[c] \in Requesting \cup {"new"}
  BY DEF TypeOK, Requesting, Call, Reject, Start, NodesArrive, PodsArrive,
         ReceivePrediction, ReceiveResult, ReceiveUnusable, ReceiveTrends, Deadline,
         ConnectionFails, Disconnect, Fail, Answer, Await
<1>3. Stage[pc[c]] < Stage[pc'[c]]
  <2> HIDE DEF Stage
  <2>1. CASE pc[c] = "new"
    BY <1>1, <1>2, <2>1
  <2>2. CASE pc[c] = "nodes"
    BY <1>1, <1>2, <2>2
  <2>3. CASE pc[c] = "pods"
    BY <1>1, <1>2, <2>3
  <2>4. CASE pc[c] = "peer"
    BY <1>1, <1>2, <2>4
  <2>5. CASE pc[c] = "trends"
    BY <1>1, <1>2, <2>5
  <2> QED
    BY <1>2, <2>1, <2>2, <2>3, <2>4, <2>5 DEF Requesting
<1>4. pc[c] # "new" => started' = started
  BY DEF Call, Reject, Start, NodesArrive, PodsArrive, ReceivePrediction, ReceiveResult,
         ReceiveUnusable, ReceiveTrends, Deadline, ConnectionFails, Disconnect
<1>5. \A d \in ToolCalls \ {c} : pc'[d] = pc[d] /\ answer'[d] = answer[d]
  BY DEF TypeOK, Call, Reject, Start, NodesArrive, PodsArrive, ReceivePrediction,
         ReceiveResult, ReceiveUnusable, ReceiveTrends, Deadline, ConnectionFails,
         Disconnect, Fail, Answer, Await
<1>6. \A d \in ToolCalls \ {c} : started'[d] = started[d] /\ sent'[d] = sent[d]
  BY DEF TypeOK, Call, Reject, Start, NodesArrive, PodsArrive, ReceivePrediction,
         ReceiveResult, ReceiveUnusable, ReceiveTrends, Deadline, ConnectionFails,
         Disconnect, Fail, Answer, Await
<1> QED
  BY <1>3, <1>4, <1>5, <1>6

(* A call makes each request once, under one deadline, and is answered once.  *)
THEOREM CallsAdvance == Spec => CallsOnlyAdvance
<1>1. ASSUME TypeOK, [Next]_vars
      PROVE  [\A c \in ToolCalls :
                /\ pc'[c] = pc[c] \/ Stage[pc[c]] < Stage[pc'[c]]
                /\ pc[c] # "new" => started'[c] = started[c]
                /\ pc'[c] = pc[c] => sent'[c] = sent[c] /\ answer'[c] = answer[c]]_vars
  <2>1. CASE UNCHANGED <<pc, started, sent, answer>>
    BY <2>1
  <2>2. ASSUME NEW c \in ToolCalls, Call(c), NEW d \in ToolCalls
        PROVE  /\ pc'[d] = pc[d] \/ Stage[pc[d]] < Stage[pc'[d]]
               /\ pc[d] # "new" => started'[d] = started[d]
               /\ pc'[d] = pc[d] => sent'[d] = sent[d] /\ answer'[d] = answer[d]
    <3>1. CASE d # c
      BY <1>1, <2>2, <3>1, CallAdvances
    <3>2. CASE d = c
      <4>1. Stage[pc[c]] < Stage[pc'[c]] /\ (pc[c] # "new" => started' = started)
        BY <1>1, <2>2, CallAdvances
      <4>2. pc[c] \in DOMAIN Stage
        BY <1>1 DEF TypeOK, Requesting, Stage
      <4>3. Stage[pc[c]] \in Nat
        BY <4>2 DEF Stage
      <4> QED
        BY <3>2, <4>1, <4>3
    <3> QED
      BY <3>1, <3>2
  <2>3. CASE Tick \/ \E c \in ToolCalls : Peer(c)
    BY <2>1, <2>3 DEF Tick, Peer, PeerApplies, PeerRefuses, Lose
  <2> QED
    BY <1>1, <2>1, <2>2, <2>3 DEF Next, vars
<1> QED
  BY TypeCorrect, <1>1, PTL DEF Spec, CallsOnlyAdvance
=============================================================================

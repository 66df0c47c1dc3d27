----------------------------- MODULE PodPlanning -----------------------------
(***************************************************************************)
(* The two tools that plan with resources: calculate-pod-capacity and       *)
(* analyze-scaling-impact.  Each makes a few requests of Kubernetes, one     *)
(* after the other, while pods come and go; a request that fails is replaced *)
(* by a default.  Then it computes, with the functions of Capacity or of     *)
(* ScalingImpact.                                                           *)
(***************************************************************************)
EXTENDS ScalingImpact

CONSTANTS Asks,        \* what the tools are asked
          Quotas,      \* the resource quotas a namespace may have, or NoQuota
          Usages,      \* what its pods may amount to
          NodeSets,    \* the nodes the cluster may have
          MaxChanges,  \* bound of the changes of the pods
          NoQuota, NoPods

Quantities(units) == [n : Nat, unit : units]

(* margin: percent.  Nothing checks the range 0..50 that the schema gives.   *)
CapacityAsks ==
  [tool : {"calculate-pod-capacity"}, scope : {"cluster", "namespace"},
   profile : {"small", "medium", "large", "custom"},
   custom : {NotGiven} \cup [cpu : Quantities({"m", "cores"}),
                             mem : Quantities({"Gi", "Mi", "Ki", "bytes"})],
   margin : Int]

ScalingAsks ==
  [tool : {"analyze-scaling-impact"}, target : Nat \ {0}, current : {NotGiven} \cup Nat,
   system : BOOLEAN, infra : BOOLEAN]

(* cpu, mem or pods = 0: the quota limits neither the use nor the requests of *)
(* it.  perPod: what the deployment's running pods ask for on average.        *)
ASSUME PlanningAssumption ==
  /\ \A a \in Asks : a \in ScalingAsks \/ a \in CapacityAsks
  /\ \A q \in Quotas \ {NoQuota} :
       q \in [cpu : Nat, mem : Nat, pods : Nat, cpuUsed : Nat, memUsed : Nat]
  /\ Usages \subseteq [count : Nat, cpu : Nat, mem : Nat, replicas : Nat,
                       perPod : {NoPods} \cup [cpu : Nat, mem : Nat]]
  /\ NodeSets \subseteq [total : Nat, cpu : Nat, mem : Nat]
  /\ MaxChanges \in Nat

VARIABLES
  ask, quota, nodes, pods,  \* the call; what there is
  changes,   \* how often the pods have changed
  pc,        \* the next request, "estimating", "analyzing", "done" or "failed"
  plan,      \* the NamespaceQuota, or for scaling the replicas, metrics and quota
  answer     \* what the tool computes

vars == <<ask, quota, nodes, pods, changes, pc, plan, answer>>

NoPlan == [hasQuota |-> FALSE]
NoAnswer == [tool |-> "none"]

Init ==
  /\ ask \in Asks /\ quota \in Quotas /\ nodes \in NodeSets /\ pods \in Usages
  /\ changes = 0
  /\ pc = IF ask.tool = "analyze-scaling-impact" THEN "deployment"
          ELSE IF ask.scope = "cluster" THEN "nodes" ELSE "quota"
  /\ plan = NoPlan /\ answer = NoAnswer

PodsChange ==
  /\ changes < MaxChanges
  /\ changes' = changes + 1
  /\ pods' \in Usages
  /\ UNCHANGED <<ask, quota, nodes, pc, plan, answer>>

-----------------------------------------------------------------------------
(* A request is answered, or fails, and the tool goes on to the next one.    *)
To(label, p) ==
  /\ pc' = label /\ plan' = p
  /\ UNCHANGED <<ask, quota, nodes, pods, changes, answer>>

(* getNamespaceCapacity; without a quota, or if the request fails,            *)
(* estimateNamespaceCapacity, whose zeros have the usage added up from the    *)
(* pods.  Either way there are 100 slots.                                    *)
GetResourceQuota ==
  /\ pc = "quota"
  /\ \/ /\ quota # NoQuota
        /\ To("count", [hasQuota |-> TRUE, cpuLimit |-> quota.cpu, memLimit |-> quota.mem,
                        slots |-> 100, count |-> 0,
                        cpuUsed |-> quota.cpuUsed, memUsed |-> quota.memUsed])
     \/ To("count", [hasQuota |-> FALSE, cpuLimit |-> 4000, memLimit |-> 8192,
                     slots |-> 100, count |-> 0, cpuUsed |-> 0, memUsed |-> 0])

(* A list of the pods that fails counts none.                                *)
CountPods ==
  /\ pc = "count"
  /\ \E n \in {pods.count, 0} :
       To(IF plan.cpuUsed = 0 \/ plan.memUsed = 0 THEN "usage" ELSE "estimating",
          [plan EXCEPT !.count = n])

(* calculatePodResourceUsage: a second list of the pods, for both numbers if  *)
(* either was zero.                                                          *)
SumRequests ==
  /\ pc = "usage"
  /\ \/ To("estimating", [plan EXCEPT !.cpuUsed = pods.cpu, !.memUsed = pods.mem])
     \/ To("estimating", [plan EXCEPT !.cpuUsed = 0, !.memUsed = 0])

(* calculateClusterCapacity: the allocatable resources of the ready nodes,    *)
(* and slots on every node.                                                  *)
ListNodes ==
  /\ pc = "nodes"
  /\ \/ To("pods", [hasQuota |-> TRUE, cpuLimit |-> nodes.cpu, memLimit |-> nodes.mem,
                     slots |-> nodes.total * 110, count |-> 0, cpuUsed |-> 0, memUsed |-> 0])
     \/ To("failed", plan)

ListPods ==
  /\ pc = "pods"
  /\ \/ To("estimating", [plan EXCEPT !.count = pods.count, !.cpuUsed = pods.cpu,
                                      !.memUsed = pods.mem])
     \/ To("failed", plan)

(* What the tool may come to.                                                *)
Estimates(a, p) ==
  LET e == calculateEstimate(Profile(a), Available(p), a.margin)
  IN  [tool : {"calculate-pod-capacity"}, max : {e.max}, safe : e.safe, limiting : {e.limiting},
       other : {generateExplanation(e.limiting, Profile(a), Available(p))},
       days : {CalculateTrending(p)}]

CalculatePodCapacity ==
  /\ pc = "estimating"
  /\ answer' \in Estimates(ask, plan)
  /\ pc' = "done"
  /\ UNCHANGED <<ask, quota, nodes, pods, changes, plan>>

-----------------------------------------------------------------------------
(* getDeploymentInfo: two replicas if it fails.  The caller's number of       *)
(* replicas goes before.                                                     *)
GetDeployment ==
  /\ pc = "deployment"
  /\ \E n \in {pods.replicas, 2} :
       To("metrics", [current |-> IF ask.current = NotGiven THEN n ELSE ask.current])

(* getCurrentMetrics: the average of the running pods, or 100m and 128 Mi if  *)
(* there are none; 50m and 100 Mi if the list fails.                         *)
GetMetrics ==
  /\ pc = "metrics"
  /\ \E m \in {IF pods.perPod = NoPods THEN [cpu |-> 100, mem |-> 128] ELSE pods.perPod,
              [cpu |-> 50, mem |-> 100]} :
       To("limits", [current |-> plan.current, perPod |-> m])

GetNamespaceQuota ==
  /\ pc = "limits"
  /\ \/ /\ quota # NoQuota
        /\ To("analyzing", [current |-> plan.current, perPod |-> plan.perPod,
                            cpuLimit |-> quota.cpu, memLimit |-> quota.mem,
                            cpuUsed |-> quota.cpuUsed, memUsed |-> quota.memUsed])
     \/ To("analyzing", [current |-> plan.current, perPod |-> plan.perPod,
                         cpuLimit |-> 4000, memLimit |-> 8192,
                         cpuUsed |-> 1000, memUsed |-> 2048])

AnalyzeScalingImpact ==
  /\ pc = "analyzing"
  /\ answer' \in Analyses(plan, ask.target, ask.system, ask.infra)
  /\ pc' = "done"
  /\ UNCHANGED <<ask, quota, nodes, pods, changes, plan>>

-----------------------------------------------------------------------------
Next ==
  \/ GetResourceQuota \/ CountPods \/ SumRequests \/ ListNodes \/ ListPods
  \/ CalculatePodCapacity
  \/ GetDeployment \/ GetMetrics \/ GetNamespaceQuota \/ AnalyzeScalingImpact
  \/ PodsChange

Spec == Init /\ [][Next]_vars

Estimated == pc = "done" /\ ask.tool = "calculate-pod-capacity"
Analyzed == pc = "done" /\ ask.tool = "analyze-scaling-impact"

(* So many pods more fit into what is available of a resource.               *)
Fits(n, resource) ==
  LET req == Profile(ask)
      av  == Available(plan)
  IN  CASE resource = "cpu"       -> n * req.cpu <= av.cpu
        [] resource = "memory"    -> n * req.mem <= av.mem
        [] resource = "pod_count" -> n <= av.slots

(* The estimate of calculate-pod-capacity is exact with respect to the numbers *)
(* it was computed from: max pods fit, and of the resource it names there is  *)
(* not enough for one more; with a margin that the schema allows, the safe    *)
(* pods are some of them and leave the margin of each resource free; and the  *)
(* explanation does not say of the other resource that it allows fewer.      *)
EstimateExact ==
  Estimated =>
    /\ \A resource \in {"cpu", "memory", "pod_count"} : Fits(answer.max, resource)
    /\ ~Fits(answer.max + 1, answer.limiting)
    /\ ask.margin \in 0..50 =>
         /\ answer.safe \in 0..answer.max
         /\ 100 * answer.safe <= (100 - ask.margin) * answer.max
    /\ answer.limiting # "pod_count" /\ Profile(ask).cpu > 0 /\ Profile(ask).mem > 0
         => answer.other >= answer.max

(* used of limit, growing by so many tenths of a percent a day, is below 85%, *)
(* give or take the rounding to a tenth, or at least as much, after d days.  *)
Below85(used, limit, growth, d) == 2 * (1000 * used + growth * d * limit) <= 1701 * limit
Past85(used, limit, growth, d)  == 2 * (1000 * used + growth * d * limit) >= 1699 * limit

(* The days until 85% are neither too many nor too few for the usage itself,  *)
(* not only for the rounded percentages: until then no resource that is below *)
(* 85% now gets past it, and one day later one does.  A year is answered only *)
(* when both are there already.                                              *)
TrendExact ==
  Estimated /\ plan.cpuLimit > 0 /\ plan.memLimit > 0 =>
    LET cpuPast(d) == Past85(plan.cpuUsed, plan.cpuLimit, 10, d)
        memPast(d) == Past85(plan.memUsed, plan.memLimit, 15, d)
    IN  IF answer.days = 365 THEN cpuPast(0) /\ memPast(0)
        ELSE /\ cpuPast(answer.days + 1) \/ memPast(answer.days + 1)
             /\ cpuPast(0) \/ Below85(plan.cpuUsed, plan.cpuLimit, 10, answer.days)
             /\ memPast(0) \/ Below85(plan.memUsed, plan.memLimit, 15, answer.days)

(* The projection that the tool grades.                                      *)
Target == Projected(plan, OverheadFactor(plan.current, ask.target), ask.target)

(* An alternative between the present number and the target that              *)
(* analyze-scaling-impact calls safe is within 85% of the quota also when it  *)
(* is itself made the target, whose overhead is computed from its own number  *)
(* of replicas.  The present number is called safe without looking; but when  *)
(* the target is not close to the limit, every alternative is called safe and *)
(* is within 85%, the present number too.  (Unless memory is neither limited  *)
(* nor in use: then any target that is not exceeded is called safe.)          *)
AlternativesHold ==
  Analyzed =>
    \A alt \in answer.alternatives :
      LET own == Projected(plan, OverheadFactor(plan.current, alt.replicas), alt.replicas)
      IN  /\ alt.safe /\ alt.replicas > plan.current => Under(plan, 85, own)
          /\ answer.advice \in {"safe", "gradually"} /\ (plan.memLimit > 0 \/ Target.mem # 0)
               => alt.safe /\ Under(plan, 85, own)

(* The recommendation agrees with the warnings that are computed beside it    *)
(* from other thresholds: what is called safe without reserve comes with no   *)
(* warning, and the resource whose quota it says to increase is the one that  *)
(* is exceeded.  (Unless CPU is neither limited nor in use: then CPU is named, *)
(* although memory is exceeded.)                                             *)
AdviceMatchesWarnings ==
  Analyzed =>
    /\ answer.advice = "safe" => answer.warnings = {}
    /\ answer.advice = "exceeded" /\ (plan.cpuLimit > 0 \/ Target.cpu # 0) =>
         IF answer.limiting = "memory" THEN Target.mem > 100 * plan.memLimit
                                       ELSE Target.cpu > 100 * plan.cpuLimit

(* The number of replicas that is suggested instead of a critical target is   *)
(* less than the target; and where the deployment is all that the namespace   *)
(* uses, it keeps the promise of 85%, with the overhead that it then has.     *)
(* (The suggestion scales the usage of the whole namespace; it misses the     *)
(* 85% when there is other usage.)                                           *)
SuggestionHelps ==
  Analyzed /\ answer.advice = "critical" =>
    LET s     == answer.suggested
        alone == /\ plan.cpuUsed = plan.current * plan.perPod.cpu
                 /\ plan.memUsed = plan.current * plan.perPod.mem
    IN  /\ s \in 0..(ask.target - 1)
        /\ alone /\ s >= 1 =>
             \/ Under(plan, 85, Projected(plan, OverheadFactor(plan.current, s), s))
             \/ s = 1

(* The safe pods can be scheduled: with the pods that are counted they keep   *)
(* within the quota's number of pods.  (What safe_pod_count is said to mean.) *)
WithinPodQuota ==
  Estimated /\ ask.scope = "namespace" /\ ask.margin \in 0..50 /\ plan.hasQuota =>
    (quota.pods > 0 /\ plan.count <= quota.pods => plan.count + answer.safe <= quota.pods)
=============================================================================

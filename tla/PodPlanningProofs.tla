------------------------- MODULE PodPlanningProofs -------------------------
(***************************************************************************)
(* Proofs about PodPlanning: the estimate, the days until 85%, the           *)
(* alternatives and the advice are right for every quota, usage, cluster    *)
(* and question, with respect to the numbers the tools have read.           *)
(***************************************************************************)
EXTENDS PodPlanning, TLAPS

CapacityPlans == [hasQuota : BOOLEAN, cpuLimit : Nat, memLimit : Nat, slots : Nat,
                  count : Nat, cpuUsed : Nat, memUsed : Nat]

Loads == [cpu : Nat, mem : Nat]

Spaces == [cpu : Nat, mem : Nat, slots : Nat]

ScalingPlans == [current : Nat, perPod : Loads, cpuLimit : Nat, memLimit : Nat,
                 cpuUsed : Nat, memUsed : Nat]

(* What the tool has read so far.                                            *)
PlanOK ==
  /\ pc \in {"quota", "nodes", "count", "pods", "usage", "estimating"} => ask \in CapacityAsks
  /\ pc \in {"deployment", "metrics", "limits", "analyzing"} => ask \in ScalingAsks
  /\ pc \in {"count", "pods", "usage", "estimating"} => plan \in CapacityPlans
  /\ pc = "metrics" => plan \in [current : Nat]
  /\ pc = "limits" => plan \in [current : Nat, perPod : Loads]
  /\ pc = "analyzing" => plan \in ScalingPlans

(* The answer is one that the tool may come to for what it has read.          *)
AnswerOK ==
  pc = "done" =>
    \/ /\ ask \in CapacityAsks /\ plan \in CapacityPlans
       /\ answer \in Estimates(ask, plan)
    \/ /\ ask \in ScalingAsks /\ plan \in ScalingPlans
       /\ answer \in Analyses(plan, ask.target, ask.system, ask.infra)

(* The inductive invariant.                                                  *)
IInv ==
  /\ ask \in Asks /\ quota \in Quotas /\ nodes \in NodeSets /\ pods \in Usages
  /\ pc \in {"quota", "nodes", "count", "pods", "usage", "estimating", "deployment",
             "metrics", "limits", "analyzing", "done", "failed"}
  /\ PlanOK /\ AnswerOK

-----------------------------------------------------------------------------
(* No tool has asked for anything yet.                                       *)
LEMMA InitIInv == Init => IInv
<1> SUFFICES ASSUME Init PROVE IInv
  OBVIOUS
<1>1. ask \in ScalingAsks \/ ask \in CapacityAsks
  BY PlanningAssumption DEF Init
<1>2. CASE ask \in ScalingAsks
  BY <1>2 DEF Init, IInv, PlanOK, AnswerOK, ScalingAsks
<1>3. CASE ask \in CapacityAsks
  BY <1>3 DEF Init, IInv, PlanOK, AnswerOK, CapacityAsks
<1> QED
  BY <1>1, <1>2, <1>3

(* What the requests can bring.                                              *)
LEMMA WorldTyped ==
  ASSUME IInv
  PROVE  /\ quota # NoQuota =>
              quota \in [cpu : Nat, mem : Nat, pods : Nat, cpuUsed : Nat, memUsed : Nat]
         /\ nodes \in [total : Nat, cpu : Nat, mem : Nat]
         /\ pods \in [count : Nat, cpu : Nat, mem : Nat, replicas : Nat,
                      perPod : {NoPods} \cup Loads]
  BY PlanningAssumption DEF IInv, Loads

(* A request of calculate-pod-capacity that goes on to label with plan p.     *)
LEMMA CapacityGoesOn ==
  ASSUME IInv, NEW label \in {"count", "pods", "usage", "estimating", "failed"}, NEW p,
         ask \in CapacityAsks, label # "failed" => p \in CapacityPlans, To(label, p)
  PROVE  IInv'
  BY DEF IInv, PlanOK, AnswerOK, To

(* The requests of calculate-pod-capacity.                                   *)
LEMMA CapacityRequestsKeepIInv ==
  ASSUME IInv, GetResourceQuota \/ CountPods \/ SumRequests \/ ListNodes \/ ListPods
  PROVE  IInv'
<1>1. CASE GetResourceQuota
  <2>1. ask \in CapacityAsks
    BY <1>1 DEF GetResourceQuota, IInv, PlanOK
  <2> DEFINE p == [hasQuota |-> TRUE, cpuLimit |-> quota.cpu, memLimit |-> quota.mem,
                   slots |-> 100, count |-> 0,
                   cpuUsed |-> quota.cpuUsed, memUsed |-> quota.memUsed]
             e == [hasQuota |-> FALSE, cpuLimit |-> 4000, memLimit |-> 8192,
                   slots |-> 100, count |-> 0, cpuUsed |-> 0, memUsed |-> 0]
  <2>2. (quota # NoQuota /\ To("count", p)) \/ To("count", e)
    BY <1>1 DEF GetResourceQuota
  <2>3. (quota # NoQuota => p \in CapacityPlans) /\ e \in CapacityPlans
    BY WorldTyped DEF CapacityPlans
  <2> HIDE DEF p, e
  <2> QED
    BY <2>1, <2>2, <2>3, CapacityGoesOn
<1>2. CASE CountPods
  <2>1. ask \in CapacityAsks /\ plan \in CapacityPlans
    BY <1>2 DEF CountPods, IInv, PlanOK
  <2>2. PICK n \in {pods.count, 0}, label \in {"usage", "estimating"} :
          To(label, [plan EXCEPT !.count = n])
    BY <1>2 DEF CountPods
  <2>3. [plan EXCEPT !.count = n] \in CapacityPlans
    BY <2>1, WorldTyped DEF CapacityPlans
  <2> QED
    BY <2>1, <2>2, <2>3, CapacityGoesOn
<1>3. CASE SumRequests
  <2>1. ask \in CapacityAsks /\ plan \in CapacityPlans
    BY <1>3 DEF SumRequests, IInv, PlanOK
  <2>2. PICK c \in Nat, m \in Nat : To("estimating", [plan EXCEPT !.cpuUsed = c, !.memUsed = m])
    BY <1>3, WorldTyped DEF SumRequests
  <2>3. [plan EXCEPT !.cpuUsed = c, !.memUsed = m] \in CapacityPlans
    BY <2>1 DEF CapacityPlans
  <2> QED
    BY <2>1, <2>2, <2>3, CapacityGoesOn
<1>4. CASE ListNodes
  <2>1. ask \in CapacityAsks
    BY <1>4 DEF ListNodes, IInv, PlanOK
  <2>2. CASE To("failed", plan)
    BY <2>1, <2>2, CapacityGoesOn
  <2>3. CASE ~To("failed", plan)
    <3> DEFINE p == [hasQuota |-> TRUE, cpuLimit |-> nodes.cpu, memLimit |-> nodes.mem,
                     slots |-> nodes.total * 110, count |-> 0, cpuUsed |-> 0, memUsed |-> 0]
    <3>1. To("pods", p)
      BY <1>4, <2>3 DEF ListNodes
    <3>2. p \in CapacityPlans
      BY WorldTyped DEF CapacityPlans
    <3> HIDE DEF p
    <3> QED
      BY <2>1, <3>1, <3>2, CapacityGoesOn
  <2> QED BY <2>2, <2>3
<1>5. CASE ListPods
  <2>1. ask \in CapacityAsks /\ plan \in CapacityPlans
    BY <1>5 DEF ListPods, IInv, PlanOK
  <2>2. CASE To("failed", plan)
    BY <2>1, <2>2, CapacityGoesOn
  <2>3. CASE ~To("failed", plan)
    <3> DEFINE p == [plan EXCEPT !.count = pods.count, !.cpuUsed = pods.cpu, !.memUsed = pods.mem]
    <3>1. To("estimating", p)
      BY <1>5, <2>3 DEF ListPods
    <3>2. p \in CapacityPlans
      BY <2>1, WorldTyped DEF CapacityPlans
    <3> QED
      BY <2>1, <3>1, <3>2, CapacityGoesOn
  <2> QED BY <2>2, <2>3
<1> QED
  BY <1>1, <1>2, <1>3, <1>4, <1>5

(* The requests of analyze-scaling-impact.                                   *)
LEMMA ScalingRequestsKeepIInv ==
  ASSUME IInv, GetDeployment \/ GetMetrics \/ GetNamespaceQuota
  PROVE  IInv'
<1>1. CASE GetDeployment
  <2>1. ask \in ScalingAsks
    BY <1>1 DEF GetDeployment, IInv, PlanOK
  <2>2. PICK n \in Nat : To("metrics", [current |-> n])
    BY <1>1, <2>1, WorldTyped DEF GetDeployment, ScalingAsks
  <2> QED
    BY <2>1, <2>2 DEF IInv, PlanOK, AnswerOK, To
<1>2. CASE GetMetrics
  <2>1. ask \in ScalingAsks /\ plan.current \in Nat
    BY <1>2 DEF GetMetrics, IInv, PlanOK
  <2>2. PICK m \in {IF pods.perPod = NoPods THEN [cpu |-> 100, mem |-> 128] ELSE pods.perPod,
                    [cpu |-> 50, mem |-> 100]} :
          To("limits", [current |-> plan.current, perPod |-> m])
    BY <1>2 DEF GetMetrics
  <2>3. [cpu |-> 100, mem |-> 128] \in Loads /\ [cpu |-> 50, mem |-> 100] \in Loads
    BY DEF Loads
  <2>4. m \in Loads
    BY <2>2, <2>3, WorldTyped
  <2>5. [current |-> plan.current, perPod |-> m] \in [current : Nat, perPod : Loads]
    BY <2>1, <2>4
  <2> QED
    BY <2>1, <2>2, <2>5 DEF IInv, PlanOK, AnswerOK, To
<1>3. CASE GetNamespaceQuota
  <2>1. ask \in ScalingAsks /\ plan.current \in Nat /\ plan.perPod \in Loads
    BY <1>3 DEF GetNamespaceQuota, IInv, PlanOK
  <2> DEFINE p == [current |-> plan.current, perPod |-> plan.perPod,
                   cpuLimit |-> quota.cpu, memLimit |-> quota.mem,
                   cpuUsed |-> quota.cpuUsed, memUsed |-> quota.memUsed]
             e == [current |-> plan.current, perPod |-> plan.perPod,
                   cpuLimit |-> 4000, memLimit |-> 8192,
                   cpuUsed |-> 1000, memUsed |-> 2048]
  <2>2. (quota # NoQuota /\ To("analyzing", p)) \/ To("analyzing", e)
    BY <1>3 DEF GetNamespaceQuota
  <2>3. (quota # NoQuota => p \in ScalingPlans) /\ e \in ScalingPlans
    BY <2>1, WorldTyped DEF ScalingPlans
  <2> HIDE DEF p, e
  <2>4. PICK q \in ScalingPlans : To("analyzing", q)
    BY <2>2, <2>3
  <2> QED
    BY <2>1, <2>4 DEF IInv, PlanOK, AnswerOK, To
<1> QED
  BY <1>1, <1>2, <1>3

(* Every step keeps the invariant.                                           *)
LEMMA NextKeepsIInv == IInv /\ [Next]_vars => IInv'
<1> SUFFICES ASSUME IInv, [Next]_vars PROVE IInv'
  OBVIOUS
<1>1. CASE CalculatePodCapacity
  BY <1>1 DEF CalculatePodCapacity, IInv, PlanOK, AnswerOK
<1>2. CASE AnalyzeScalingImpact
  BY <1>2 DEF AnalyzeScalingImpact, IInv, PlanOK, AnswerOK
<1>3. CASE PodsChange
  BY <1>3 DEF PodsChange, IInv, PlanOK, AnswerOK
<1>4. CASE UNCHANGED vars
  BY <1>4 DEF vars, IInv, PlanOK, AnswerOK
<1> QED
  BY <1>1, <1>2, <1>3, <1>4, CapacityRequestsKeepIInv, ScalingRequestsKeepIInv DEF Next

(* The inductive invariant holds in every behaviour.                         *)
THEOREM Invariance == Spec => []IInv
<1> QED
  BY InitIInv, NextKeepsIInv, PTL DEF Spec

-----------------------------------------------------------------------------
(* Products and quotients.                                                   *)
LEMMA Mul == \A a, b, k \in Int : k >= 0 /\ a <= b => k * a <= k * b /\ a * k <= b * k
  OBVIOUS

(* Division with a remainder.                                                *)
LEMMA Div == \A a \in Int, b \in Nat \ {0} :
  /\ a \div b \in Int /\ a % b \in Int
  /\ a = (a \div b) * b + (a % b) /\ 0 <= a % b /\ a % b < b
  OBVIOUS

(* The arithmetic of Capacity.                                               *)
LEMMA ShareRight ==
  ASSUME NEW available \in Nat, NEW each \in Nat, NEW slots \in Nat
  PROVE  LET s == Share(available, each, slots)
         IN  /\ s \in Nat
             /\ each > 0 => s * each <= available /\ (s + 1) * each > available
             /\ each = 0 => s = slots
<1>1. CASE each = 0
  BY <1>1 DEF Share
<1>2. CASE each > 0
  <2>1. Share(available, each, slots) = available \div each
    BY <1>2 DEF Share
  <2>2. available \div each \in Nat
    BY <1>2
  <2>3. (available \div each) * each <= available /\ available < ((available \div each) + 1) * each
    BY <1>2
  <2> QED
    BY <1>2, <2>1, <2>2, <2>3
<1> QED BY <1>1, <1>2

(* The safe number keeps the margin free, whichever way the product is cut   *)
(* off.                                                                      *)
LEMMA SafeRight ==
  ASSUME NEW max \in Nat, NEW margin \in 0..50, NEW s \in SafePods(max, margin)
  PROVE  s \in 0..max /\ 100 * s <= (100 - margin) * max
<1> DEFINE exact == max * (100 - margin)
<1>1. exact \in Nat /\ exact <= 100 * max /\ exact = (100 - margin) * max
  OBVIOUS
<1>2. PICK lost \in {0, 1} : s = AtLeast0((exact \div 100) - lost)
  BY DEF SafePods
<1> HIDE DEF exact
<1>3. s \in Nat /\ 100 * s <= exact
  BY <1>1, <1>2 DEF AtLeast0
<1> QED
  BY <1>1, <1>3

(* What calculateEstimate finds for a pod and the available capacity.         *)
LEMMA EstimateRight ==
  ASSUME NEW req \in Loads, NEW av \in Spaces, NEW margin \in Int
  PROVE  LET e == calculateEstimate(req, av, margin)
         IN  /\ e.max \in Nat /\ e.safe = SafePods(e.max, margin)
             /\ e.limiting \in {"cpu", "memory", "pod_count"}
             /\ e.max * req.cpu <= av.cpu /\ e.max * req.mem <= av.mem /\ e.max <= av.slots
             /\ e.limiting = "cpu" => (e.max + 1) * req.cpu > av.cpu
             /\ e.limiting = "memory" => (e.max + 1) * req.mem > av.mem
             /\ e.limiting = "pod_count" => e.max + 1 > av.slots
             /\ e.limiting = "cpu" => e.max <= Share(av.mem, req.mem, av.slots)
             /\ e.limiting = "memory" => e.max <= Share(av.cpu, req.cpu, av.slots)
<1> DEFINE byCPU == Share(av.cpu, req.cpu, av.slots)
           byMem == Share(av.mem, req.mem, av.slots)
           e     == calculateEstimate(req, av, margin)
           max   == LeastOf(LeastOf(byCPU, byMem), av.slots)
<1>1. req.cpu \in Nat /\ req.mem \in Nat /\ av.cpu \in Nat /\ av.mem \in Nat /\ av.slots \in Nat
  BY DEF Loads, Spaces
<1>2. /\ byCPU \in Nat
      /\ req.cpu > 0 => byCPU * req.cpu <= av.cpu /\ (byCPU + 1) * req.cpu > av.cpu
      /\ req.cpu = 0 => byCPU = av.slots
  BY <1>1, ShareRight
<1>3. /\ byMem \in Nat
      /\ req.mem > 0 => byMem * req.mem <= av.mem /\ (byMem + 1) * req.mem > av.mem
      /\ req.mem = 0 => byMem = av.slots
  BY <1>1, ShareRight
<1>4. /\ e.max = max
      /\ e.safe = SafePods(max, margin)
      /\ e.limiting = LimitingFactor(byCPU, byMem, av.slots)
  BY DEF calculateEstimate
<1> HIDE DEF e, byCPU, byMem
<1>5. /\ max \in Nat /\ max <= byCPU /\ max <= byMem /\ max <= av.slots
  BY <1>1, <1>2, <1>3 DEF LeastOf
<1>6. max * req.cpu <= byCPU * req.cpu /\ max * req.mem <= byMem * req.mem
  BY <1>1, <1>2, <1>3, <1>5, Mul
<1>7. LET l == LimitingFactor(byCPU, byMem, av.slots)
      IN  /\ l \in {"cpu", "memory", "pod_count"}
          /\ l = "cpu" => max = byCPU /\ byCPU < av.slots
          /\ l = "memory" => max = byMem /\ byMem < av.slots
          /\ l = "pod_count" => max = av.slots
  BY <1>1, <1>2, <1>3 DEF LeastOf, LimitingFactor
<1> HIDE DEF max
<1>8. max * req.cpu <= av.cpu
  <2>1. CASE req.cpu = 0
    BY <1>1, <1>5, <2>1
  <2> QED BY <1>1, <1>2, <1>5, <1>6, <2>1
<1>9. max * req.mem <= av.mem
  <2>1. CASE req.mem = 0
    BY <1>1, <1>5, <2>1
  <2> QED BY <1>1, <1>3, <1>5, <1>6, <2>1
<1> QED
  BY <1>1, <1>2, <1>3, <1>4, <1>5, <1>7, <1>8, <1>9 DEF e, byCPU, byMem

(* What a pod asks for is two natural numbers.                               *)
LEMMA ProfileTyped ==
  ASSUME NEW a \in CapacityAsks
  PROVE  Profile(a) \in Loads
<1>1. CASE a.custom # NotGiven
  <2>1. /\ a.custom.cpu.n \in Nat /\ a.custom.mem.n \in Nat
        /\ a.custom.mem.unit \in {"Gi", "Mi", "Ki", "bytes"}
    BY <1>1 DEF CapacityAsks, Quantities
  <2>2. parseCPU(a.custom.cpu) \in Nat
    BY <2>1 DEF parseCPU
  <2>3. parseMemoryMB(a.custom.mem) \in Nat
    BY <2>1 DEF parseMemoryMB
  <2> QED
    BY <2>2, <2>3 DEF Profile, Loads
<1> QED
  BY <1>1 DEF Profile, Loads

(* What is available is never negative.                                      *)
LEMMA AvailableTyped ==
  ASSUME NEW p \in CapacityPlans
  PROVE  Available(p) \in Spaces
  BY DEF Available, AtLeast0, CapacityPlans, Spaces

(* The rounding to a tenth of a percent moves the 85% by less than that.      *)
LEMMA PercentRight ==
  ASSUME NEW used \in Nat, NEW total \in Nat \ {0}
  PROVE  LET t == calculatePercent(used, total)
         IN  /\ t \in Nat
             /\ 2000 * used - total < 2 * (t * total)
             /\ 2 * (t * total) <= 2000 * used + total
<1> DEFINE a == 2000 * used + total
           b == 2 * total
           t == a \div b
<1>1. a \in Nat /\ b \in Nat \ {0}
  OBVIOUS
<1>2. t \in Nat /\ t * b <= a /\ a < (t + 1) * b
  <2> HIDE DEF a, b
  <2> QED BY <1>1
<1>3. calculatePercent(used, total) = t
  BY DEF calculatePercent
<1> HIDE DEF t
<1>4. t * b = 2 * (t * total) /\ (t + 1) * b = 2 * (t * total) + 2 * total
  BY <1>2
<1> QED
  BY <1>2, <1>3, <1>4

(* DaysUntil85 of a resource for a usage, in terms of the usage itself.       *)
DaysOK(used, limit, growth) ==
  LET t == calculatePercent(used, limit)
      n == DaysUntil85(t, growth)
  IN  /\ n \in Nat /\ t \in Nat
      /\ t >= 850 => n = 999 /\ Past85(used, limit, growth, 0)
      /\ t < 850 => /\ n <= 85
                    /\ \A d \in Nat : /\ d <= n => Below85(used, limit, growth, d)
                                      /\ d > n => Past85(used, limit, growth, d)

(* The day found for one resource is its last below 85%.                     *)
LEMMA DaysRight ==
  ASSUME NEW used \in Nat, NEW limit \in Nat \ {0}, NEW growth \in {10, 15}
  PROVE  DaysOK(used, limit, growth)
<1> DEFINE t == calculatePercent(used, limit)
<1>1. /\ t \in Nat
      /\ 2000 * used - limit < 2 * (t * limit)
      /\ 2 * (t * limit) <= 2000 * used + limit
  BY PercentRight
<1> HIDE DEF t
<1>2. ASSUME t >= 850
      PROVE  DaysUntil85(t, growth) = 999 /\ Past85(used, limit, growth, 0)
  <2>1. 850 * limit <= t * limit
    BY <1>1, <1>2, Mul
  <2>2. growth * 0 * limit = 0
    OBVIOUS
  <2> QED
    BY <1>1, <1>2, <2>1, <2>2 DEF DaysUntil85, Past85
<1>3. ASSUME t < 850, NEW d \in Nat
      PROVE  /\ DaysUntil85(t, growth) \in 0..85
             /\ d <= DaysUntil85(t, growth) => Below85(used, limit, growth, d)
             /\ d > DaysUntil85(t, growth) => Past85(used, limit, growth, d)
  <2>1. /\ DaysUntil85(t, growth) \in 0..85
        /\ d <= DaysUntil85(t, growth) => growth * d <= 850 - t
        /\ d > DaysUntil85(t, growth) => growth * d >= 851 - t
    BY <1>1, <1>3 DEF DaysUntil85
  <2> DEFINE g == growth * d
  <2>2. g \in Nat
    OBVIOUS
  <2>3. /\ Below85(used, limit, growth, d) <=> 2000 * used + 2 * (g * limit) <= 1701 * limit
        /\ Past85(used, limit, growth, d) <=> 2000 * used + 2 * (g * limit) >= 1699 * limit
    BY <2>2 DEF Below85, Past85
  <2> HIDE DEF g
  <2>4. (850 - t) * limit = 850 * limit - t * limit /\ (851 - t) * limit = 851 * limit - t * limit
    BY <1>1
  <2>5. g <= 850 - t => g * limit <= (850 - t) * limit
    BY <1>1, <2>2, Mul
  <2>6. g >= 851 - t => g * limit >= (851 - t) * limit
    BY <1>1, <2>2, Mul
  <2> QED
    BY <1>1, <2>1, <2>2, <2>3, <2>4, <2>5, <2>6 DEF g
<1>4. DaysUntil85(t, growth) \in Nat /\ (t < 850 => DaysUntil85(t, growth) <= 85)
  BY <1>1, <1>2, <1>3
<1> QED
  BY <1>1, <1>2, <1>3, <1>4 DEF t, DaysOK

(* The arithmetic of ScalingImpact.                                          *)
LEMMA OverheadRises ==
  ASSUME NEW current \in Nat, NEW r \in Nat, NEW target \in Nat, r <= target
  PROVE  /\ OverheadFactor(current, r) \in 100..115
         /\ OverheadFactor(current, r) <= OverheadFactor(current, target)
  BY DEF OverheadFactor, LeastOf, GreatestOf

(* A projection is two numbers.                                              *)
LEMMA ProjectedTyped ==
  ASSUME NEW p \in ScalingPlans, NEW factor \in 100..115, NEW r \in Nat
  PROVE  Projected(p, factor, r) \in [cpu : Int, mem : Int]
<1>1. /\ p.perPod.cpu \in Nat /\ p.perPod.mem \in Nat /\ p.current \in Nat
      /\ p.cpuUsed \in Nat /\ p.memUsed \in Nat
  BY DEF ScalingPlans, Loads
<1>2. factor * r - 100 * p.current \in Int
  BY <1>1
<1> DEFINE more == factor * r - 100 * p.current
<1> HIDE DEF more
<1>3. p.perPod.cpu * more \in Int /\ p.perPod.mem * more \in Int
  BY <1>1, <1>2 DEF more
<1> QED
  BY <1>1, <1>3 DEF Projected, more

AtMost(u, v) == u.cpu <= v.cpu /\ u.mem <= v.mem

(* More replicas or more overhead never use less.                            *)
LEMMA ProjectedRises ==
  ASSUME NEW p \in ScalingPlans, NEW f \in 100..115, NEW g \in 100..115, f <= g,
         NEW r \in Nat, NEW s \in Nat, r <= s
  PROVE  AtMost(Projected(p, f, r), Projected(p, g, s))
<1>1. /\ p.perPod.cpu \in Nat /\ p.perPod.mem \in Nat /\ p.current \in Nat
      /\ p.cpuUsed \in Nat /\ p.memUsed \in Nat
  BY DEF ScalingPlans, Loads
<1>2. f * r <= f * s /\ f * s <= g * s
  BY Mul
<1> DEFINE a == f * r - 100 * p.current
           b == g * s - 100 * p.current
<1>3. a \in Int /\ b \in Int /\ a <= b
  BY <1>1, <1>2
<1>4. /\ Projected(p, f, r) = [cpu |-> 100 * p.cpuUsed + p.perPod.cpu * a,
                               mem |-> 100 * p.memUsed + p.perPod.mem * a]
      /\ Projected(p, g, s) = [cpu |-> 100 * p.cpuUsed + p.perPod.cpu * b,
                               mem |-> 100 * p.memUsed + p.perPod.mem * b]
  BY DEF Projected
<1> HIDE DEF a, b
<1>5. p.perPod.cpu * a <= p.perPod.cpu * b /\ p.perPod.mem * a <= p.perPod.mem * b
  BY <1>1, <1>3, Mul
<1>6. /\ p.perPod.cpu * a \in Int /\ p.perPod.cpu * b \in Int
      /\ p.perPod.mem * a \in Int /\ p.perPod.mem * b \in Int
  BY <1>1, <1>3
<1> QED
  BY <1>1, <1>4, <1>5, <1>6 DEF AtMost

(* A positive factor cancels.                                                *)
LEMMA Cancel == \A k \in Nat \ {0}, a, b \in Int : k * a <= k * b => a <= b
<1> SUFFICES ASSUME NEW k \in Nat \ {0}, NEW a \in Int, NEW b \in Int, k * a <= k * b, a > b
             PROVE  FALSE
  OBVIOUS
<1>1. k * (b + 1) <= k * a
  BY Mul
<1>2. k * (b + 1) = k * b + k
  OBVIOUS
<1> QED
  BY <1>1, <1>2

(* Comparing the whole parts and the rests compares the products.            *)
LEMMA WholePartsCompared ==
  ASSUME NEW a \in Int, NEW b \in Nat \ {0}, NEW c \in Int, NEW d \in Nat \ {0}
  PROVE  IF GreaterShare(a, b, c, d) THEN c * b <= a * d ELSE a * d <= c * b
<1> DEFINE q == a \div b
           r == a % b
           k == c \div d
           l == c % d
<1>1. /\ q \in Int /\ r \in Int /\ a = q * b + r /\ 0 <= r /\ r < b
      /\ k \in Int /\ l \in Int /\ c = k * d + l /\ 0 <= l /\ l < d
  BY Div
<1>2. GreaterShare(a, b, c, d) <=> q > k \/ (q = k /\ r * d > l * b)
  BY DEF GreaterShare
<1> HIDE DEF q, r, k, l
<1>3. b * d \in Nat
  OBVIOUS
<1>4. a * d = q * (b * d) + r * d /\ c * b = k * (b * d) + l * b
  BY <1>1
<1>5. r * d <= b * d /\ l * b <= b * d /\ 0 <= r * d /\ 0 <= l * b
  BY <1>1
<1>6. /\ q > k => (k + 1) * (b * d) <= q * (b * d)
      /\ k > q => (q + 1) * (b * d) <= k * (b * d)
  BY <1>1, <1>3, Mul
<1>7. (k + 1) * (b * d) = k * (b * d) + b * d /\ (q + 1) * (b * d) = q * (b * d) + b * d
  BY <1>1, <1>3
<1>8. /\ q * (b * d) \in Int /\ k * (b * d) \in Int /\ r * d \in Int /\ l * b \in Int
  BY <1>1, <1>3
<1>9. q > k \/ q = k \/ k > q
  BY <1>1
<1> QED
  BY <1>1, <1>2, <1>3, <1>4, <1>5, <1>6, <1>7, <1>8, <1>9

(* Also where a limit is 0.                                                  *)
LEMMA ShareCompared ==
  ASSUME NEW a \in Int, NEW b \in Nat, NEW c \in Int, NEW d \in Nat
  PROVE  IF GreaterShare(a, b, c, d) THEN c * b <= a * d ELSE a * d <= c * b
<1>1. CASE b # 0 /\ d # 0
  BY <1>1, WholePartsCompared
<1>2. /\ a >= 0 => 0 <= a * d
      /\ a <= 0 => a * d <= 0
      /\ c >= 0 => 0 <= c * b
      /\ c <= 0 => c * b <= 0
  BY Mul
<1>3. a * d \in Int /\ c * b \in Int /\ (d = 0 => a * d = 0) /\ (b = 0 => c * b = 0)
  OBVIOUS
<1>4. CASE b = 0
  <2>1. GreaterShare(a, b, c, d) <=> a > 0 /\ (d # 0 \/ c < 0)
    BY <1>4 DEF GreaterShare
  <2>2. GreaterShare(a, b, c, d) => 0 <= a * d
    BY <1>2, <2>1
  <2>3. ~GreaterShare(a, b, c, d) => a * d <= 0
    BY <1>2, <1>3, <2>1
  <2> QED BY <1>3, <1>4, <2>2, <2>3
<1>5. CASE b # 0 /\ d = 0
  <2>1. GreaterShare(a, b, c, d) <=> c < 0
    BY <1>5 DEF GreaterShare
  <2> QED BY <1>2, <1>3, <1>5, <2>1
<1> QED BY <1>1, <1>4, <1>5

(* What bounds the greater share bounds the other; and what bounds a share    *)
(* that is a number, and that is not exceeded by the other, bounds the other. *)
LEMMA ShareBounds ==
  ASSUME NEW a \in Int, NEW b \in Nat, NEW c \in Int, NEW d \in Nat, NEW k \in Nat
  PROVE  /\ GreaterShare(a, b, c, d) /\ a <= k * b => c <= k * d
         /\ ~GreaterShare(a, b, c, d) /\ c <= k * d /\ (d # 0 \/ c # 0) => a <= k * b
<1>1. CASE b # 0 /\ d # 0
  <2>1. k * b \in Int /\ k * d \in Int /\ (k * b) * d = (k * d) * b
    OBVIOUS
  <2>2. a <= k * b => a * d <= (k * b) * d
    BY <2>1, Mul
  <2>3. c <= k * d => c * b <= (k * d) * b
    BY <2>1, Mul
  <2>4. c * b <= (k * d) * b => c <= k * d
    <3>1. c * b = b * c /\ (k * d) * b = b * (k * d)
      BY <2>1
    <3> QED BY <1>1, <2>1, <3>1, Cancel
  <2>5. a * d <= (k * b) * d => a <= k * b
    <3>1. a * d = d * a /\ (k * b) * d = d * (k * b)
      BY <2>1
    <3> QED BY <1>1, <2>1, <3>1, Cancel
  <2>6. a * d \in Int /\ c * b \in Int /\ (k * b) * d \in Int
    OBVIOUS
  <2>7. IF GreaterShare(a, b, c, d) THEN c * b <= a * d ELSE a * d <= c * b
    BY ShareCompared
  <2>8. GreaterShare(a, b, c, d) /\ a <= k * b => c * b <= (k * d) * b
    BY <2>1, <2>2, <2>6, <2>7
  <2>9. ~GreaterShare(a, b, c, d) /\ c <= k * d => a * d <= (k * b) * d
    BY <2>1, <2>3, <2>6, <2>7
  <2> QED BY <2>4, <2>5, <2>8, <2>9
<1>2. CASE b = 0
  <2>1. /\ k * b = 0 /\ (d = 0 => k * d = 0)
        /\ GreaterShare(a, b, c, d) <=> a > 0 /\ (d # 0 \/ c < 0)
    BY <1>2 DEF GreaterShare
  <2> QED BY <2>1
<1>3. CASE b # 0 /\ d = 0
  <2>1. k * d = 0 /\ (GreaterShare(a, b, c, d) <=> c < 0)
    BY <1>3 DEF GreaterShare
  <2> QED BY <1>3, <2>1
<1> QED BY <1>1, <1>2, <1>3

(* The share that counts is one of the two, and what bounds it, if it is a     *)
(* number, bounds both.                                                      *)
LEMMA MaxFloatRight ==
  ASSUME NEW p \in ScalingPlans, NEW use \in [cpu : Int, mem : Int]
  PROVE  LET share == maxFloat(p, use)
         IN  /\ share.use \in Int /\ share.limit \in Nat
             /\ \/ share.use = use.cpu /\ share.limit = p.cpuLimit
                \/ share.use = use.mem /\ share.limit = p.memLimit
             /\ \A k \in Nat : IsNumber(share) /\ share.use <= k * share.limit => Under(p, k, use)
             /\ p.memLimit > 0 \/ use.mem # 0 => IsNumber(share)
<1>1. p.cpuLimit \in Nat /\ p.memLimit \in Nat /\ use.cpu \in Int /\ use.mem \in Int
  BY DEF ScalingPlans
<1>2. CASE GreaterShare(use.cpu, p.cpuLimit, use.mem, p.memLimit)
  <2>1. maxFloat(p, use) = [use |-> use.cpu, limit |-> p.cpuLimit]
    BY <1>2 DEF maxFloat
  <2>2. \A k \in Nat : use.cpu <= k * p.cpuLimit => use.mem <= k * p.memLimit
    BY <1>1, <1>2, ShareBounds
  <2>3. p.cpuLimit # 0 \/ use.cpu # 0
    BY <1>1, <1>2 DEF GreaterShare
  <2> QED BY <1>1, <2>1, <2>2, <2>3 DEF Under, IsNumber
<1>3. CASE ~GreaterShare(use.cpu, p.cpuLimit, use.mem, p.memLimit)
  <2>1. maxFloat(p, use) = [use |-> use.mem, limit |-> p.memLimit]
    BY <1>3 DEF maxFloat
  <2>2. \A k \in Nat : /\ use.mem <= k * p.memLimit
                       /\ p.memLimit # 0 \/ use.mem # 0
                       => use.cpu <= k * p.cpuLimit
    BY <1>1, <1>3, ShareBounds
  <2> QED BY <1>1, <2>1, <2>2 DEF Under, IsNumber
<1> QED BY <1>2, <1>3

-----------------------------------------------------------------------------
(* What each answer is, from the invariant.                                  *)
LEMMA AnswerOf ==
  ASSUME IInv, pc = "done"
  PROVE  /\ ask.tool = "calculate-pod-capacity" =>
              ask \in CapacityAsks /\ plan \in CapacityPlans /\ answer \in Estimates(ask, plan)
         /\ ask.tool = "analyze-scaling-impact" =>
              /\ ask \in ScalingAsks /\ plan \in ScalingPlans
              /\ answer \in Analyses(plan, ask.target, ask.system, ask.infra)
  BY DEF IInv, AnswerOK, CapacityAsks, ScalingAsks

(* The state's estimate is calculateEstimate's of what was read.             *)
LEMMA EstimateIsExact == IInv => EstimateExact
<1> SUFFICES ASSUME IInv, Estimated PROVE EstimateExact
  BY DEF EstimateExact
<1>1. ask \in CapacityAsks /\ plan \in CapacityPlans /\ answer \in Estimates(ask, plan)
  BY AnswerOf DEF Estimated
<1> DEFINE req == Profile(ask)
           av  == Available(plan)
           e   == calculateEstimate(req, av, ask.margin)
<1>2. req \in Loads /\ av \in Spaces /\ ask.margin \in Int
  BY <1>1, ProfileTyped, AvailableTyped DEF CapacityAsks
<1>3. /\ answer.max = e.max /\ answer.safe \in e.safe /\ answer.limiting = e.limiting
      /\ answer.other = generateExplanation(e.limiting, req, av)
  BY <1>1 DEF Estimates
<1> HIDE DEF e, req, av
<1>4. /\ e.max \in Nat /\ e.safe = SafePods(e.max, ask.margin)
      /\ e.limiting \in {"cpu", "memory", "pod_count"}
      /\ e.max * req.cpu <= av.cpu /\ e.max * req.mem <= av.mem /\ e.max <= av.slots
      /\ e.limiting = "cpu" => (e.max + 1) * req.cpu > av.cpu
      /\ e.limiting = "memory" => (e.max + 1) * req.mem > av.mem
      /\ e.limiting = "pod_count" => e.max + 1 > av.slots
      /\ e.limiting = "cpu" => e.max <= Share(av.mem, req.mem, av.slots)
      /\ e.limiting = "memory" => e.max <= Share(av.cpu, req.cpu, av.slots)
  BY <1>2, EstimateRight DEF e
<1>5. req.cpu \in Nat /\ req.mem \in Nat /\ av.cpu \in Nat /\ av.mem \in Nat /\ av.slots \in Nat
  BY <1>2 DEF Loads, Spaces
<1>6. /\ \A n \in Nat : Fits(n, "cpu") <=> n * req.cpu <= av.cpu
      /\ \A n \in Nat : Fits(n, "memory") <=> n * req.mem <= av.mem
      /\ \A n \in Nat : Fits(n, "pod_count") <=> n <= av.slots
  BY DEF Fits, req, av
<1>7. \A resource \in {"cpu", "memory", "pod_count"} : Fits(answer.max, resource)
  BY <1>3, <1>4, <1>6
<1>8. ~Fits(answer.max + 1, answer.limiting)
  <2>1. /\ (e.max + 1) * req.cpu \in Int /\ (e.max + 1) * req.mem \in Int /\ e.max + 1 \in Nat
    BY <1>4, <1>5
  <2>2. CASE e.limiting = "cpu"
    BY <1>3, <1>4, <1>5, <1>6, <2>1, <2>2
  <2>3. CASE e.limiting = "memory"
    BY <1>3, <1>4, <1>5, <1>6, <2>1, <2>3
  <2>4. CASE e.limiting = "pod_count"
    BY <1>3, <1>4, <1>5, <1>6, <2>1, <2>4
  <2> QED BY <1>4, <2>2, <2>3, <2>4
<1>9. ask.margin \in 0..50 =>
        answer.safe \in 0..answer.max /\ 100 * answer.safe <= (100 - ask.margin) * answer.max
  BY <1>3, <1>4, SafeRight
<1>10. answer.limiting # "pod_count" /\ req.cpu > 0 /\ req.mem > 0 => answer.other >= answer.max
  <2>1. CASE e.limiting = "cpu" /\ req.mem > 0
    BY <1>3, <1>4, <1>5, <2>1 DEF generateExplanation, Share
  <2>2. CASE e.limiting = "memory" /\ req.cpu > 0
    BY <1>3, <1>4, <1>5, <2>2 DEF generateExplanation, Share
  <2> QED BY <1>3, <1>4, <2>1, <2>2
<1> QED
  BY <1>7, <1>8, <1>9, <1>10 DEF EstimateExact, req

(* The earlier of two resources decides, up to a year.                       *)
LEMMA DaysAreRight ==
  ASSUME NEW cpuUsed \in Nat, NEW cpuLimit \in Nat \ {0},
         NEW memUsed \in Nat, NEW memLimit \in Nat \ {0},
         NEW days, days = estimateDaysUntilThreshold(calculatePercent(cpuUsed, cpuLimit),
                                                     calculatePercent(memUsed, memLimit))
  PROVE  IF days = 365
         THEN Past85(cpuUsed, cpuLimit, 10, 0) /\ Past85(memUsed, memLimit, 15, 0)
         ELSE /\ \/ Past85(cpuUsed, cpuLimit, 10, days + 1)
                 \/ Past85(memUsed, memLimit, 15, days + 1)
              /\ Past85(cpuUsed, cpuLimit, 10, 0) \/ Below85(cpuUsed, cpuLimit, 10, days)
              /\ Past85(memUsed, memLimit, 15, 0) \/ Below85(memUsed, memLimit, 15, days)
<1> DEFINE t == calculatePercent(cpuUsed, cpuLimit)
           u == calculatePercent(memUsed, memLimit)
           c == DaysUntil85(t, 10)
           m == DaysUntil85(u, 15)
<1>1. days = LeastOf(LeastOf(c, m), 365)
  BY DEF estimateDaysUntilThreshold
<1>2. 10 \in {10, 15} /\ 15 \in {10, 15}
  OBVIOUS
<1>3. DaysOK(cpuUsed, cpuLimit, 10) /\ DaysOK(memUsed, memLimit, 15)
  BY <1>2, DaysRight
<1>4. /\ c \in Nat /\ t \in Nat
      /\ t >= 850 => c = 999 /\ Past85(cpuUsed, cpuLimit, 10, 0)
      /\ t < 850 => /\ c <= 85
                    /\ \A d \in Nat : /\ d <= c => Below85(cpuUsed, cpuLimit, 10, d)
                                      /\ d > c => Past85(cpuUsed, cpuLimit, 10, d)
  BY <1>3 DEF DaysOK
<1>5. /\ m \in Nat /\ u \in Nat
      /\ u >= 850 => m = 999 /\ Past85(memUsed, memLimit, 15, 0)
      /\ u < 850 => /\ m <= 85
                    /\ \A d \in Nat : /\ d <= m => Below85(memUsed, memLimit, 15, d)
                                      /\ d > m => Past85(memUsed, memLimit, 15, d)
  BY <1>3 DEF DaysOK
<1> HIDE DEF t, u, c, m
<1>6. /\ days \in Nat /\ days + 1 \in Nat /\ days + 1 > days
      /\ days = 365 => t >= 850 /\ u >= 850
      /\ days # 365 => /\ days <= c /\ days <= m
                       /\ (days = c /\ t < 850) \/ (days = m /\ u < 850)
  <2>1. /\ c \in Nat /\ t \in Nat /\ (t >= 850 => c = 999) /\ (t < 850 => c <= 85)
        /\ m \in Nat /\ u \in Nat /\ (u >= 850 => m = 999) /\ (u < 850 => m <= 85)
    BY <1>4, <1>5
  <2> QED BY <1>1, <2>1 DEF LeastOf
<1>7. CASE days = 365
  <2>1. t >= 850 /\ u >= 850
    BY <1>6, <1>7
  <2>2. Past85(cpuUsed, cpuLimit, 10, 0) /\ Past85(memUsed, memLimit, 15, 0)
    BY <1>4, <1>5, <2>1
  <2> QED BY <1>7, <2>2
<1>8. CASE days # 365
  <2>1. Past85(cpuUsed, cpuLimit, 10, 0) \/ Below85(cpuUsed, cpuLimit, 10, days)
    BY <1>4, <1>6, <1>8
  <2>2. Past85(memUsed, memLimit, 15, 0) \/ Below85(memUsed, memLimit, 15, days)
    BY <1>5, <1>6, <1>8
  <2>3. \/ Past85(cpuUsed, cpuLimit, 10, days + 1)
        \/ Past85(memUsed, memLimit, 15, days + 1)
    <3>1. CASE days = c /\ t < 850
      BY <1>4, <1>6, <3>1
    <3>2. CASE days = m /\ u < 850
      BY <1>5, <1>6, <3>2
    <3> QED BY <1>6, <1>8, <3>1, <3>2
  <2> QED BY <1>8, <2>1, <2>2, <2>3
<1> QED BY <1>7, <1>8

(* The state's days are those of what was read.                              *)
LEMMA TrendIsExact == IInv => TrendExact
<1> SUFFICES ASSUME IInv, Estimated, plan.cpuLimit > 0, plan.memLimit > 0 PROVE TrendExact
  BY DEF TrendExact
<1>1. plan \in CapacityPlans /\ answer \in Estimates(ask, plan)
  BY AnswerOf DEF Estimated
<1>2. /\ plan.cpuUsed \in Nat /\ plan.memUsed \in Nat
      /\ plan.cpuLimit \in Nat \ {0} /\ plan.memLimit \in Nat \ {0}
  BY <1>1 DEF CapacityPlans
<1>3. answer.days = estimateDaysUntilThreshold(calculatePercent(plan.cpuUsed, plan.cpuLimit),
                                               calculatePercent(plan.memUsed, plan.memLimit))
  BY <1>1 DEF Estimates, CalculateTrending
<1> QED
  BY <1>2, <1>3, DaysAreRight DEF TrendExact

(* Safe means that the share that counts, if it is a number, is below 85%.    *)
LEMMA GradeSafe ==
  ASSUME NEW p \in ScalingPlans, NEW use \in [cpu : Int, mem : Int], Grade(p, use) = "safe"
  PROVE  LET share == maxFloat(p, use) IN IsNumber(share) => share.use < 85 * share.limit
<1> DEFINE share == maxFloat(p, use)
<1>1. share.use \in Int /\ share.limit \in Nat
  BY MaxFloatRight
<1>2. IsNumber(share) => ~(share.use >= 85 * share.limit) \/ share.use >= 95 * share.limit
  BY DEF Grade
<1>3. IsNumber(share) => ~(share.use >= 95 * share.limit)
  BY DEF Grade
<1> HIDE DEF share
<1>4. IsNumber(share) => share.use < 85 * share.limit
  BY <1>1, <1>2, <1>3
<1> QED
  BY <1>4 DEF share

(* Exceeded means above one of the limits.                                   *)
LEMMA GradeExceeded ==
  ASSUME NEW p \in ScalingPlans, NEW use \in [cpu : Int, mem : Int], Grade(p, use) = "exceeded"
  PROVE  use.cpu > 100 * p.cpuLimit \/ use.mem > 100 * p.memLimit
  BY DEF Grade, Under, ScalingPlans

(* What an analysis has come from, and what its parts are.                   *)
LEMMA AnalysisOf ==
  ASSUME IInv, Analyzed
  PROVE  /\ plan \in ScalingPlans /\ ask.target \in Nat \ {0}
         /\ plan.current \in Nat /\ plan.cpuLimit \in Nat /\ plan.memLimit \in Nat
         /\ OverheadFactor(plan.current, ask.target) \in 100..115
         /\ LET factor == OverheadFactor(plan.current, ask.target)
                use    == Projected(plan, factor, ask.target)
            IN  /\ use \in [cpu : Int, mem : Int]
                /\ answer.limiting = Limiting(plan, use)
                /\ answer.alternatives = generateAlternativeScenarios(plan, ask.target, factor)
                /\ \E infra \in {analyzeInfrastructureImpact(plan.current, ask.target, ask.system),
                                 NoImpact} :
                     /\ answer.warnings = generateWarnings(plan, use, infra)
                     /\ answer.advice = generateRecommendation(plan, use, infra)
                /\ Grade(plan, use) = "critical" =>
                     answer.suggested \in calculateSafeReplicas(plan, use, ask.target)
<1>1. ask \in ScalingAsks /\ plan \in ScalingPlans
      /\ answer \in Analyses(plan, ask.target, ask.system, ask.infra)
  BY AnswerOf DEF Analyzed
<1>2. /\ ask.target \in Nat \ {0} /\ plan.current \in Nat
      /\ plan.cpuLimit \in Nat /\ plan.memLimit \in Nat
  BY <1>1 DEF ScalingAsks, ScalingPlans
<1>3. OverheadFactor(plan.current, ask.target) \in 100..115
  BY <1>2, OverheadRises
<1>4. Projected(plan, OverheadFactor(plan.current, ask.target), ask.target)
        \in [cpu : Int, mem : Int]
  BY <1>1, <1>2, <1>3, ProjectedTyped
<1> QED
  BY <1>1, <1>2, <1>3, <1>4 DEF Analyses

(* An alternative is one of the two with fewer replicas than the target, or   *)
(* the present number.                                                       *)
LEMMA AlternativeOf ==
  ASSUME NEW p \in ScalingPlans, NEW target \in Nat, NEW factor,
         NEW alt \in generateAlternativeScenarios(p, target, factor)
  PROVE  /\ alt.replicas \in Nat /\ p.current <= alt.replicas /\ alt.replicas <= target
         /\ \/ alt = Scenario(p, factor, alt.replicas)
            \/ alt.replicas = p.current /\ alt.safe = TRUE
<1>1. p.current \in Nat
  BY DEF ScalingPlans
<1>2. CASE \E r \in {n \in {target - 1, target - 2} : n >= 1 /\ n > p.current} :
             alt = Scenario(p, factor, r)
  <2>1. PICK r \in {target - 1, target - 2} :
          r >= 1 /\ r > p.current /\ alt = Scenario(p, factor, r)
    BY <1>2
  <2>2. alt.replicas = r
    BY <2>1 DEF Scenario
  <2> QED BY <1>1, <2>1, <2>2
<1>3. CASE \E r \in {n \in {p.current} : 1 < n /\ n < target} :
             alt = [replicas |-> r, safe |-> TRUE]
  BY <1>1, <1>3
<1> QED
  BY <1>2, <1>3 DEF generateAlternativeScenarios

(* An alternative that is graded safe is safe as a target, with its own       *)
(* overhead; and where the target is safe, every alternative is.             *)
LEMMA AlternativesDoHold == IInv => AlternativesHold
<1> SUFFICES ASSUME IInv, Analyzed, NEW alt \in answer.alternatives
             PROVE  LET own == Projected(plan, OverheadFactor(plan.current, alt.replicas),
                                         alt.replicas)
                    IN  /\ alt.safe /\ alt.replicas > plan.current => Under(plan, 85, own)
                        /\ /\ answer.advice \in {"safe", "gradually"}
                           /\ plan.memLimit > 0 \/ Target.mem # 0
                           => alt.safe /\ Under(plan, 85, own)
  BY DEF AlternativesHold
<1> DEFINE factor == OverheadFactor(plan.current, ask.target)
           r      == alt.replicas
           own    == OverheadFactor(plan.current, r)
<1>1. /\ plan \in ScalingPlans /\ ask.target \in Nat \ {0}
      /\ plan.current \in Nat /\ plan.cpuLimit \in Nat /\ plan.memLimit \in Nat
      /\ factor \in 100..115
  BY AnalysisOf
<1>2. /\ Target \in [cpu : Int, mem : Int]
      /\ alt \in generateAlternativeScenarios(plan, ask.target, factor)
  BY AnalysisOf DEF Target
<1>3. PICK infra : answer.advice = generateRecommendation(plan, Target, infra)
  BY AnalysisOf DEF Target
<1>4. /\ r \in Nat /\ plan.current <= r /\ r <= ask.target
      /\ alt = Scenario(plan, factor, r) \/ (r = plan.current /\ alt.safe = TRUE)
  BY <1>1, <1>2, AlternativeOf
<1>5. own \in 100..115 /\ own <= factor
  BY <1>1, <1>4, OverheadRises
<1> DEFINE use == Projected(plan, factor, r)
           share == maxFloat(plan, use)
<1>6. Projected(plan, own, r) \in [cpu : Int, mem : Int] /\ use \in [cpu : Int, mem : Int]
  BY <1>1, <1>4, <1>5, ProjectedTyped
<1>7. AtMost(use, Target)
  <2>1. factor <= factor /\ ask.target \in Nat
    BY <1>1
  <2> QED BY <1>1, <1>4, <2>1, ProjectedRises DEF Target
<1> HIDE DEF factor, r, own
<1>8. AtMost(Projected(plan, own, r), use)
  <2>1. r <= r
    BY <1>4
  <2> QED BY <1>1, <1>4, <1>5, <2>1, ProjectedRises
<1> HIDE DEF use
<1>9. Under(plan, 85, use) => Under(plan, 85, Projected(plan, own, r))
  BY <1>1, <1>6, <1>8 DEF Under, AtMost
<1> DEFINE within == IsNumber(share) /\ share.use <= 85 * share.limit
<1>10. alt = Scenario(plan, factor, r) => alt.safe = within
  <2>1. Scenario(plan, factor, r) = [replicas |-> r, safe |-> within]
    BY DEF Scenario, use
  <2> HIDE DEF within
  <2> QED BY <2>1
<1> HIDE DEF share, within
<1>11. ASSUME alt.safe, r > plan.current
       PROVE  Under(plan, 85, Projected(plan, own, r))
  <2>1. within
    <3>1. alt = Scenario(plan, factor, r)
      BY <1>1, <1>4, <1>11
    <3> QED BY <1>10, <1>11, <3>1
  <2>2. Under(plan, 85, use)
    BY <1>1, <1>6, <2>1, MaxFloatRight DEF share, within
  <2> QED BY <1>9, <2>2
<1>12. ASSUME answer.advice \in {"safe", "gradually"}, plan.memLimit > 0 \/ Target.mem # 0
       PROVE  alt.safe /\ Under(plan, 85, Projected(plan, own, r))
  <2>1. Grade(plan, Target) = "safe"
    BY <1>3, <1>12 DEF generateRecommendation, Grade
  <2>2. Under(plan, 85, Target) /\ Under(plan, 100, Target)
    <3> DEFINE greater == maxFloat(plan, Target)
    <3>1. IsNumber(greater) /\ greater.use \in Int /\ greater.limit \in Nat
      BY <1>1, <1>2, <1>12, MaxFloatRight
    <3>2. greater.use < 85 * greater.limit
      BY <1>1, <1>2, <2>1, <3>1, GradeSafe
    <3> HIDE DEF greater
    <3>3. greater.use <= 85 * greater.limit
      BY <3>1, <3>2
    <3>4. Under(plan, 85, Target)
      BY <1>1, <1>2, <3>1, <3>3, MaxFloatRight DEF greater
    <3> QED BY <1>1, <1>2, <3>4 DEF Under
  <2>3. Under(plan, 85, use)
    BY <1>1, <1>2, <1>6, <1>7, <2>2 DEF Under, AtMost
  <2>4. plan.memLimit > 0 \/ use.mem # 0
    BY <1>1, <1>2, <1>6, <1>7, <1>12, <2>2 DEF Under, AtMost
  <2>5. /\ IsNumber(share) /\ share.use \in Int /\ share.limit \in Nat
        /\ \/ share.use = use.cpu /\ share.limit = plan.cpuLimit
           \/ share.use = use.mem /\ share.limit = plan.memLimit
    BY <1>1, <1>6, <2>4, MaxFloatRight DEF share
  <2>6. within
    BY <2>3, <2>5 DEF Under, within
  <2>7. alt.safe
    BY <1>4, <1>10, <2>6
  <2> QED BY <1>9, <2>3, <2>7
<1> QED
  BY <1>11, <1>12 DEF own, r

(* The advice and the warnings follow from one projection, so they agree.    *)
LEMMA AdviceDoesMatch == IInv => AdviceMatchesWarnings
<1> SUFFICES ASSUME IInv, Analyzed PROVE AdviceMatchesWarnings
  BY DEF AdviceMatchesWarnings
<1>1. /\ plan \in ScalingPlans /\ ask.target \in Nat \ {0}
      /\ plan.current \in Nat /\ plan.cpuLimit \in Nat /\ plan.memLimit \in Nat
  BY AnalysisOf
<1>2. Target \in [cpu : Int, mem : Int] /\ answer.limiting = Limiting(plan, Target)
  BY AnalysisOf DEF Target
<1>3. PICK infra \in {analyzeInfrastructureImpact(plan.current, ask.target, ask.system),
                      NoImpact} :
        /\ answer.warnings = generateWarnings(plan, Target, infra)
        /\ answer.advice = generateRecommendation(plan, Target, infra)
  BY AnalysisOf DEF Target
<1>4. ASSUME answer.advice = "safe"
      PROVE  answer.warnings = {}
  <2>1. Grade(plan, Target) = "safe" /\ infra.apiServer # "high" /\ infra.etcd # "high"
    BY <1>3, <1>4 DEF generateRecommendation
  <2>2. infra.scheduler # "high"
    BY <1>1, <1>3, <2>1 DEF analyzeInfrastructureImpact, NoImpact, GreatestOf
  <2> DEFINE share == maxFloat(plan, Target)
  <2>3. share.use \in Int /\ share.limit \in Nat
    BY <1>1, <1>2, MaxFloatRight
  <2>4. IsNumber(share) => share.use < 85 * share.limit
    BY <1>1, <1>2, <2>1, GradeSafe
  <2>5. ~(share.use > 90 * share.limit)
    <3> HIDE DEF share
    <3> QED BY <2>3, <2>4 DEF IsNumber
  <2> QED
    BY <1>3, <2>1, <2>2, <2>5 DEF generateWarnings
<1>5. ASSUME answer.advice = "exceeded", plan.cpuLimit > 0 \/ Target.cpu # 0
      PROVE  IF answer.limiting = "memory" THEN Target.mem > 100 * plan.memLimit
                                           ELSE Target.cpu > 100 * plan.cpuLimit
  <2>1. Grade(plan, Target) = "exceeded"
    BY <1>3, <1>5 DEF generateRecommendation
  <2>2. Target.cpu > 100 * plan.cpuLimit \/ Target.mem > 100 * plan.memLimit
    BY <1>1, <1>2, <2>1, GradeExceeded
  <2>3. Target.cpu \in Int /\ Target.mem \in Int /\ 100 \in Nat
    BY <1>2
  <2> DEFINE byMem == GreaterShare(Target.mem, plan.memLimit, Target.cpu, plan.cpuLimit)
  <2>4. /\ byMem /\ Target.mem <= 100 * plan.memLimit => Target.cpu <= 100 * plan.cpuLimit
        /\ ~byMem /\ Target.cpu <= 100 * plan.cpuLimit /\ (plan.cpuLimit # 0 \/ Target.cpu # 0)
             => Target.mem <= 100 * plan.memLimit
    BY <1>1, <2>3, ShareBounds
  <2>5. answer.limiting = IF byMem THEN "memory" ELSE "cpu"
    BY <1>2 DEF Limiting
  <2> HIDE DEF byMem
  <2> QED
    BY <1>1, <1>5, <2>2, <2>3, <2>4, <2>5
<1> QED
  BY <1>4, <1>5 DEF AdviceMatchesWarnings

-----------------------------------------------------------------------------
(* s replicas of which each uses x of a resource with the limit cl, and y of  *)
(* another with the limit ml, whose share is not the greater one.            *)
LEMMA BothUnder ==
  ASSUME NEW x \in Nat, NEW y \in Nat, NEW s \in Nat, NEW target \in Nat \ {0},
         NEW cl \in Nat \ {0}, NEW ml \in Nat,
         s * (x * target) <= 85 * target * cl, (y * target) * cl <= (x * target) * ml
  PROVE  x * s <= 85 * cl /\ y * s <= 85 * ml
<1>1. x * s <= 85 * cl
  <2>1. s * (x * target) = target * (x * s) /\ 85 * target * cl = target * (85 * cl)
    OBVIOUS
  <2>2. x * s \in Int /\ 85 * cl \in Int
    OBVIOUS
  <2> QED BY <2>1, <2>2, Cancel
<1>2. y * cl <= x * ml
  <2>1. (y * target) * cl = target * (y * cl) /\ (x * target) * ml = target * (x * ml)
    OBVIOUS
  <2>2. y * cl \in Int /\ x * ml \in Int
    OBVIOUS
  <2> QED BY <2>1, <2>2, Cancel
<1>3. cl * (y * s) <= cl * (85 * ml)
  <2>1. s * (y * cl) <= s * (x * ml)
    <3>1. y * cl \in Int /\ x * ml \in Int
      OBVIOUS
    <3> QED BY <1>2, <3>1, Mul
  <2>2. ml * (x * s) <= ml * (85 * cl)
    <3>1. x * s \in Int /\ 85 * cl \in Int
      OBVIOUS
    <3> QED BY <1>1, <3>1, Mul
  <2>3. /\ s * (y * cl) = cl * (y * s) /\ s * (x * ml) = ml * (x * s)
        /\ ml * (85 * cl) = cl * (85 * ml)
    OBVIOUS
  <2> QED BY <2>1, <2>2, <2>3
<1>4. y * s <= 85 * ml
  <2>1. y * s \in Int /\ 85 * ml \in Int
    OBVIOUS
  <2> QED BY <1>3, <2>1, Cancel
<1> QED
  BY <1>1, <1>4

(* The suggestion fits in what it was divided from.                          *)
LEMMA SuggestionBounded ==
  ASSUME NEW exact \in Nat, NEW used \in Nat \ {0}, NEW target \in Nat \ {0},
         NEW lost \in {0, 1}, NEW s,
         s = LET m == GreatestOf((exact \div used) - lost, 1)
             IN  IF m >= target THEN target - 1 ELSE m
  PROVE  s \in 0..(target - 1) /\ (s > 1 => s * used <= exact)
<1> DEFINE n == exact \div used
<1>1. n \in Nat /\ n * used <= exact
  OBVIOUS
<1> HIDE DEF n
<1>2. s \in 0..(target - 1) /\ (s > 1 => s <= n)
  BY <1>1 DEF GreatestOf, n
<1>3. s <= n => s * used <= n * used
  BY <1>1, <1>2, Mul
<1> QED
  BY <1>1, <1>2, <1>3

(* What is critical is limited and in use.                                   *)
LEMMA GradeCritical ==
  ASSUME NEW p \in ScalingPlans, NEW use \in [cpu : Int, mem : Int], Grade(p, use) = "critical"
  PROVE  LET share == maxFloat(p, use) IN share.use \in Nat \ {0} /\ share.limit \in Nat \ {0}
<1> DEFINE share == maxFloat(p, use)
<1>1. /\ share.use \in Int /\ share.limit \in Nat
      /\ \/ share.use = use.cpu /\ share.limit = p.cpuLimit
         \/ share.use = use.mem /\ share.limit = p.memLimit
  BY MaxFloatRight
<1>2. Under(p, 100, use) /\ IsNumber(share) /\ share.use >= 95 * share.limit
  BY DEF Grade
<1> HIDE DEF share
<1>3. share.use <= 100 * share.limit
  BY <1>1, <1>2 DEF Under
<1>4. share.use \in Nat \ {0} /\ share.limit \in Nat \ {0}
  BY <1>1, <1>2, <1>3 DEF IsNumber
<1> QED
  BY <1>4 DEF share

(* Where the deployment is all that the namespace uses.                      *)
LEMMA ProjectedAlone ==
  ASSUME NEW p \in ScalingPlans, NEW factor \in 100..115, NEW r \in Nat,
         p.cpuUsed = p.current * p.perPod.cpu, p.memUsed = p.current * p.perPod.mem
  PROVE  /\ Projected(p, factor, r).cpu = (p.perPod.cpu * factor) * r
         /\ Projected(p, factor, r).mem = (p.perPod.mem * factor) * r
<1>1. p.perPod.cpu \in Nat /\ p.perPod.mem \in Nat /\ p.current \in Nat
  BY DEF ScalingPlans, Loads
<1>2. ASSUME NEW x \in Nat, NEW n \in Nat
      PROVE  100 * (n * x) + x * (factor * r - 100 * n) = (x * factor) * r
  <2>1. x * (factor * r - 100 * n) = x * (factor * r) - x * (100 * n)
    OBVIOUS
  <2>2. x * (100 * n) = 100 * (n * x) /\ x * (factor * r) = (x * factor) * r
    OBVIOUS
  <2> QED BY <2>1, <2>2
<1> DEFINE more == factor * r - 100 * p.current
<1>3. /\ Projected(p, factor, r).cpu = 100 * (p.current * p.perPod.cpu) + p.perPod.cpu * more
      /\ Projected(p, factor, r).mem = 100 * (p.current * p.perPod.mem) + p.perPod.mem * more
  BY DEF Projected
<1>4. /\ 100 * (p.current * p.perPod.cpu) + p.perPod.cpu * more = (p.perPod.cpu * factor) * r
      /\ 100 * (p.current * p.perPod.mem) + p.perPod.mem * more = (p.perPod.mem * factor) * r
  BY <1>1, <1>2
<1> QED
  BY <1>3, <1>4

(* A suggestion is fewer than the target and fits.                           *)
LEMMA SuggestionDoesHelp == IInv => SuggestionHelps
<1> SUFFICES ASSUME IInv, Analyzed, answer.advice = "critical" PROVE SuggestionHelps
  BY DEF SuggestionHelps
<1> DEFINE target == ask.target
           factor == OverheadFactor(plan.current, target)
           use    == Projected(plan, factor, target)
           s      == answer.suggested
           byCPU  == GreaterShare(use.cpu, plan.cpuLimit, use.mem, plan.memLimit)
           limit  == IF byCPU THEN plan.cpuLimit ELSE plan.memLimit
           used   == IF byCPU THEN use.cpu ELSE use.mem
           own    == OverheadFactor(plan.current, s)
           alone  == /\ plan.cpuUsed = plan.current * plan.perPod.cpu
                     /\ plan.memUsed = plan.current * plan.perPod.mem
<1>1. /\ plan \in ScalingPlans /\ target \in Nat \ {0}
      /\ plan.current \in Nat /\ plan.cpuLimit \in Nat /\ plan.memLimit \in Nat
      /\ factor \in 100..115
  BY AnalysisOf
<1>2. use \in [cpu : Int, mem : Int] /\ use.cpu \in Int /\ use.mem \in Int
  BY AnalysisOf
<1>3. PICK infra : answer.advice = generateRecommendation(plan, use, infra)
  BY AnalysisOf
<1>4. Grade(plan, use) = "critical"
  BY <1>3 DEF generateRecommendation
<1>5. s \in calculateSafeReplicas(plan, use, target)
  BY <1>4, AnalysisOf
<1> HIDE DEF factor, use, target
<1>6. used \in Nat \ {0} /\ limit \in Nat \ {0}
  <2>1. maxFloat(plan, use).use = used /\ maxFloat(plan, use).limit = limit
    BY DEF maxFloat
  <2> HIDE DEF used, limit
  <2> QED BY <1>1, <1>2, <1>4, <2>1, GradeCritical
<1>7. PICK lost \in {0, 1} :
        s = LET m == GreatestOf(((85 * target * limit) \div used) - lost, 1)
            IN  IF m >= target THEN target - 1 ELSE m
  BY <1>5 DEF calculateSafeReplicas, maxFloat
<1> HIDE DEF s, byCPU, limit, used
<1>8. 85 * target * limit \in Nat
  BY <1>1, <1>6
<1>9. s \in 0..(target - 1) /\ (s > 1 => s * used <= 85 * target * limit)
  BY <1>1, <1>6, <1>7, <1>8, SuggestionBounded
<1>10. ASSUME alone, s > 1
       PROVE  Under(plan, 85, Projected(plan, own, s))
  <2> DEFINE x == plan.perPod.cpu * factor
             y == plan.perPod.mem * factor
  <2>1. plan.perPod.cpu \in Nat /\ plan.perPod.mem \in Nat
    BY <1>1 DEF ScalingPlans, Loads
  <2>2. x \in Nat /\ y \in Nat /\ s \in Nat /\ s <= target /\ target \in Nat
    BY <1>1, <1>9, <2>1
  <2>3. use.cpu = x * target /\ use.mem = y * target
    BY <1>1, <1>10, ProjectedAlone DEF use
  <2>4. Projected(plan, factor, s).cpu = x * s /\ Projected(plan, factor, s).mem = y * s
    BY <1>1, <1>10, <2>2, ProjectedAlone
  <2>5. own \in 100..115 /\ own <= factor
    BY <1>1, <2>2, OverheadRises DEF factor
  <2>6. AtMost(Projected(plan, own, s), Projected(plan, factor, s))
    <3>1. s <= s
      BY <2>2
    <3> QED BY <1>1, <2>2, <2>5, <3>1, ProjectedRises
  <2>7. Projected(plan, own, s).cpu \in Int /\ Projected(plan, own, s).mem \in Int
    BY <1>1, <2>2, <2>5, ProjectedTyped
  <2> HIDE DEF x, y, own
  <2>8. IF byCPU THEN use.mem * plan.cpuLimit <= use.cpu * plan.memLimit
                 ELSE use.cpu * plan.memLimit <= use.mem * plan.cpuLimit
    BY <1>1, <1>2, ShareCompared DEF byCPU
  <2>9. x * s <= 85 * plan.cpuLimit /\ y * s <= 85 * plan.memLimit
    <3>1. CASE ~byCPU
      <4>1. s * (y * target) <= 85 * target * plan.memLimit
        BY <1>9, <1>10, <2>3, <3>1 DEF used, limit
      <4>2. (x * target) * plan.memLimit <= (y * target) * plan.cpuLimit
        BY <2>3, <2>8, <3>1
      <4>3. plan.memLimit \in Nat \ {0}
        BY <1>6, <3>1 DEF limit
      <4> QED BY <1>1, <2>2, <4>1, <4>2, <4>3, BothUnder
    <3>2. CASE byCPU
      <4>1. s * (x * target) <= 85 * target * plan.cpuLimit
        BY <1>9, <1>10, <2>3, <3>2 DEF used, limit
      <4>2. (y * target) * plan.cpuLimit <= (x * target) * plan.memLimit
        BY <2>3, <2>8, <3>2
      <4>3. plan.cpuLimit \in Nat \ {0}
        BY <1>6, <3>2 DEF limit
      <4> QED BY <1>1, <2>2, <4>1, <4>2, <4>3, BothUnder
    <3> QED BY <3>1, <3>2
  <2>10. x * s \in Int /\ y * s \in Int
    BY <2>2
  <2> QED
    BY <1>1, <2>4, <2>6, <2>7, <2>9, <2>10 DEF Under, AtMost
<1>11. s >= 1 => s > 1 \/ s = 1
  BY <1>9
<1> QED
  BY <1>9, <1>10, <1>11 DEF SuggestionHelps, s, own, target

-----------------------------------------------------------------------------
(* The estimate of calculate-pod-capacity is exact for the numbers it has     *)
(* read: the pods fit, one more does not, and the margin stays free.         *)
THEOREM EstimatesAreExact == Spec => []EstimateExact
<1> QED
  BY Invariance, EstimateIsExact, PTL

(* The days until 85% are right for the usage itself, although they are       *)
(* computed from percentages that are rounded to a tenth.                    *)
THEOREM TrendsAreExact == Spec => []TrendExact
<1> QED
  BY Invariance, TrendIsExact, PTL

(* An alternative above the present number that analyze-scaling-impact calls  *)
(* safe is within 85%, with the overhead that it has when it is itself the     *)
(* target; and when the target is safe all alternatives are, also the present *)
(* number, which is called safe without looking.                             *)
THEOREM SafeAlternativesHold == Spec => []AlternativesHold
<1> QED
  BY Invariance, AlternativesDoHold, PTL

(* What is recommended as safe comes with no warning, and the resource whose   *)
(* quota is to be increased is exceeded, whatever limits the quota has (unless *)
(* CPU is neither limited nor in use).                                       *)
THEOREM AdviceAgrees == Spec => []AdviceMatchesWarnings
<1> QED
  BY Invariance, AdviceDoesMatch, PTL

(* The suggested replicas are fewer than the target, and enough fewer where   *)
(* the deployment is alone in its namespace.                                 *)
THEOREM SuggestionsHelp == Spec => []SuggestionHelps
<1> QED
  BY Invariance, SuggestionDoesHelp, PTL
=============================================================================

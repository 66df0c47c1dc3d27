---------------------------- MODULE ScalingImpact ----------------------------
(***************************************************************************)
(* The arithmetic of analyze-scaling-impact: pure functions of p, which has *)
(* the present replicas, what a pod of the deployment uses, and the quota of *)
(* the namespace with what it has in use.  Usage is kept as 100 times what  *)
(* it is, so that it can be compared with percent * limit exactly; at        *)
(* exactly 85, 90, 95 or 100 percent the code's float64 may fall on the      *)
(* other side.  A limit is 0 when the quota does not name the resource: a     *)
(* share of it is infinite, or if nothing is in use not a number, and then   *)
(* no comparison with it holds.                                             *)
(***************************************************************************)
EXTENDS Capacity

(* The overhead factor in percent.                                           *)
OverheadFactor(current, target) ==
  LeastOf(GreatestOf(100 + 2 * (target - current), 100), 115)

(* 100 times what is in use when replicas have replaced the current ones.    *)
Projected(p, factor, replicas) ==
  [cpu |-> 100 * p.cpuUsed + p.perPod.cpu * (factor * replicas - 100 * p.current),
   mem |-> 100 * p.memUsed + p.perPod.mem * (factor * replicas - 100 * p.current)]

(* The projected usage is at most so many percent.                           *)
Under(p, percent, use) ==
  use.cpu <= percent * p.cpuLimit /\ use.mem <= percent * p.memLimit

(* a out of b is a greater share than c out of d; the whole parts first, then *)
(* the rests, so that the products stay small.                               *)
GreaterShare(a, b, c, d) ==
  \/ /\ b # 0 /\ d # 0
     /\ a \div b > c \div d \/ (a \div b = c \div d /\ (a % b) * d > (c % d) * b)
  \/ b = 0 /\ a > 0 /\ (d # 0 \/ c < 0)
  \/ b # 0 /\ d = 0 /\ c < 0

(* The resource that is named: memory if its share is the greater one.        *)
Limiting(p, use) ==
  IF GreaterShare(use.mem, p.memLimit, use.cpu, p.cpuLimit) THEN "memory" ELSE "cpu"

(* The share that counts: of the CPU if it is the greater one, else of memory. *)
maxFloat(p, use) ==
  IF GreaterShare(use.cpu, p.cpuLimit, use.mem, p.memLimit)
  THEN [use |-> use.cpu, limit |-> p.cpuLimit] ELSE [use |-> use.mem, limit |-> p.memLimit]

IsNumber(share) == share.limit # 0 \/ share.use # 0

(* The grades of the warnings and of the recommendation.                     *)
Grade(p, use) ==
  LET share == maxFloat(p, use)
      Reaches(percent) == IsNumber(share) /\ share.use >= percent * share.limit
  IN  CASE ~Under(p, 100, use) -> "exceeded"
        [] Under(p, 100, use) /\ Reaches(95) -> "critical"
        [] Under(p, 100, use) /\ Reaches(85) /\ ~Reaches(95) -> "close"
        [] OTHER -> "safe"

(* An alternative with so many replicas.                                     *)
Scenario(p, factor, replicas) ==
  LET share == maxFloat(p, Projected(p, factor, replicas))
  IN  [replicas |-> replicas, safe |-> IsNumber(share) /\ share.use <= 85 * share.limit]

(* Each Fault... is the operator after it with one plausible bug; no          *)
(* specification uses them.  They show that the properties can fail.         *)
FaultAlternativeWithoutOverhead(p, target, factor) ==
  {Scenario(p, 100, r) : r \in {n \in {target - 1, target - 2} : n >= 1 /\ n > p.current}}
    \cup {[replicas |-> r, safe |-> TRUE] : r \in {n \in {p.current} : 1 < n /\ n < target}}

(* One or two replicas fewer than the target; and the present number, which   *)
(* is called safe without looking.                                           *)
generateAlternativeScenarios(p, target, factor) ==
  {Scenario(p, factor, r) : r \in {n \in {target - 1, target - 2} : n >= 1 /\ n > p.current}}
    \cup {[replicas |-> r, safe |-> TRUE] : r \in {n \in {p.current} : 1 < n /\ n < target}}

FaultSchedulerAtFive(current, target, system) ==
  LET change == GreatestOf(target - current, current - target)
      least  == IF system THEN "medium" ELSE "low"
  IN  [etcd      |-> IF change > 10 \/ target > 20 THEN "high"
                     ELSE IF change > 5 \/ target > 10 THEN "medium" ELSE least,
       apiServer |-> IF change > 8 \/ target > 15 THEN "high"
                     ELSE IF change > 4 \/ target > 8 THEN "medium" ELSE least,
       scheduler |-> IF change > 5 THEN "high" ELSE "low"]

(* system: the namespace is one of openshift-... or kube-...                 *)
analyzeInfrastructureImpact(current, target, system) ==
  LET change == GreatestOf(target - current, current - target)
      least  == IF system THEN "medium" ELSE "low"
  IN  [etcd      |-> IF change > 10 \/ target > 20 THEN "high"
                     ELSE IF change > 5 \/ target > 10 THEN "medium" ELSE least,
       apiServer |-> IF change > 8 \/ target > 15 THEN "high"
                     ELSE IF change > 4 \/ target > 8 THEN "medium" ELSE least,
       scheduler |-> IF change > 10 THEN "high" ELSE IF change > 5 THEN "medium" ELSE "low"]

(* What takes the place of an impact that is not asked for: nothing high.    *)
NoImpact == [etcd |-> "low", apiServer |-> "low", scheduler |-> "low"]

(* What is warned of.                                                        *)
generateWarnings(p, use, infra) ==
  (IF Grade(p, use) = "safe" THEN {} ELSE {Grade(p, use)})
    \cup (IF maxFloat(p, use).use > 90 * maxFloat(p, use).limit THEN {"headroom"} ELSE {})
    \cup {c \in {"etcd", "apiServer", "scheduler"} : infra[c] = "high"}

generateRecommendation(p, use, infra) ==
  IF Grade(p, use) = "safe" /\ (infra.apiServer = "high" \/ infra.etcd = "high")
  THEN "gradually" ELSE Grade(p, use)

FaultSuggestsRoundedUp(p, use, target) ==
  LET share == maxFloat(p, use)
      n     == GreatestOf((85 * target * share.limit + share.use - 1) \div share.use, 1)
  IN  {IF n >= target THEN target - 1 ELSE n}

(* As many replicas as the target times 85% over the projected share; a whole *)
(* product may be cut off one too low.  Only for a share that is critical.    *)
calculateSafeReplicas(p, use, target) ==
  LET share == maxFloat(p, use)
      exact == 85 * target * share.limit
      Bounded(n) == LET m == GreatestOf(n, 1) IN IF m >= target THEN target - 1 ELSE m
  IN  {Bounded((exact \div share.use) - lost) :
         lost \in IF exact % share.use = 0 THEN {0, 1} ELSE {0}}

(* The analyses that the tool may come to for a target.                      *)
Analyses(p, target, system, withInfra) ==
  LET factor == OverheadFactor(p.current, target)
      use    == Projected(p, factor, target)
      infra  == IF withInfra THEN analyzeInfrastructureImpact(p.current, target, system)
                ELSE NoImpact
  IN  [tool         : {"analyze-scaling-impact"},
       limiting     : {Limiting(p, use)},
       warnings     : {generateWarnings(p, use, infra)},
       advice       : {generateRecommendation(p, use, infra)},
       suggested    : IF Grade(p, use) = "critical" THEN calculateSafeReplicas(p, use, target)
                      ELSE {NotGiven},
       alternatives : {generateAlternativeScenarios(p, target, factor)}]
=============================================================================

------------------------------ MODULE Capacity ------------------------------
(***************************************************************************)
(* The calculator of pkg/capacity, and how calculate-pod-capacity reads the *)
(* quantities it is given: pure functions of what is asked for and of the   *)
(* capacity p that the requests have brought.                               *)
(*                                                                         *)
(* CPU is in millicores and memory in MiB.  The code computes shares in     *)
(* float64; here they are exact, except that a safe count that ought to be   *)
(* whole may come out one less.                                             *)
(***************************************************************************)
EXTENDS Integers

CONSTANT NotGiven

AtLeast0(a) == IF a < 0 THEN 0 ELSE a
LeastOf(a, b) == IF a <= b THEN a ELSE b
GreatestOf(a, b) == IF a <= b THEN b ELSE a

(* "200m", or cores.                                                         *)
parseCPU(q) == IF q.unit = "m" THEN q.n ELSE 1000 * q.n

(* "bytes" is any number without one of the three units, and the decimal      *)
(* units are not among them: "512M" is 512 bytes, which is 0 MiB.            *)
parseMemoryMB(q) ==
  CASE q.unit = "Gi"    -> 1024 * q.n
    [] q.unit = "Mi"    -> q.n
    [] q.unit = "Ki"    -> q.n \div 1024
    [] q.unit = "bytes" -> q.n \div (1024 * 1024)

(* What a pod asks for; "custom" without resources counts as medium.         *)
Profile(a) ==
  CASE a.profile = "small"                         -> [cpu |-> 100, mem |-> 64]
    [] a.profile = "large"                         -> [cpu |-> 400, mem |-> 256]
    [] a.profile = "custom" /\ a.custom # NotGiven -> [cpu |-> parseCPU(a.custom.cpu),
                                                       mem |-> parseMemoryMB(a.custom.mem)]
    [] OTHER                                       -> [cpu |-> 200, mem |-> 128]

Available(p) == [cpu   |-> AtLeast0(p.cpuLimit - p.cpuUsed),
                 mem   |-> AtLeast0(p.memLimit - p.memUsed),
                 slots |-> AtLeast0(p.slots - p.count)]

(* How many pods one resource allows; what a pod does not ask for is limited  *)
(* by the slots.                                                             *)
Share(available, each, slots) == IF each > 0 THEN available \div each ELSE slots

(* A whole product may be rounded down to just below itself and cut off.     *)
SafePods(max, margin) ==
  LET exact == max * (100 - margin)
  IN  {AtLeast0((exact \div 100) - lost) : lost \in IF exact % 100 = 0 THEN {0, 1} ELSE {0}}

(* Each Fault... is the operator after it with one plausible bug; no          *)
(* specification uses them.  They show that the properties can fail.         *)
FaultTieToMemory(byCPU, byMem, slots) ==
  IF byMem <= byCPU THEN "memory" ELSE IF slots <= byCPU THEN "pod_count" ELSE "cpu"

(* On a tie slots come before memory and memory before CPU.                  *)
LimitingFactor(byCPU, byMem, slots) ==
  IF slots <= byCPU /\ slots <= byMem THEN "pod_count"
  ELSE IF byMem <= byCPU THEN "memory" ELSE "cpu"

(* The maximum, and the safe numbers that calculateEstimate may come to.     *)
calculateEstimate(req, av, margin) ==
  LET byCPU == Share(av.cpu, req.cpu, av.slots)
      byMem == Share(av.mem, req.mem, av.slots)
      max   == LeastOf(LeastOf(byCPU, byMem), av.slots)
  IN  [max      |-> max,
       safe     |-> SafePods(max, margin),
       limiting |-> LimitingFactor(byCPU, byMem, av.slots)]

(* The explanation tells how many pods the resource that does not limit them  *)
(* would allow: none, if a pod does not ask for it.                          *)
generateExplanation(limiting, req, av) ==
  CASE limiting = "memory" -> Share(av.cpu, req.cpu, 0)
    [] limiting = "cpu"    -> Share(av.mem, req.mem, 0)
    [] OTHER               -> NotGiven

(* A share in tenths of a percent, rounded.                                  *)
calculatePercent(used, total) ==
  IF total = 0 THEN 0 ELSE (2000 * used + total) \div (2 * total)

(* Days until a resource that grows by so many tenths of a percent a day has  *)
(* reached 85%; no day is known for one that is there already.               *)
DaysUntil85(tenths, growth) == IF tenths < 850 THEN (850 - tenths) \div growth ELSE 999

FaultLaterOfBoth(cpu, mem) ==
  LeastOf(GreatestOf(DaysUntil85(cpu, 10), DaysUntil85(mem, 15)), 365)

estimateDaysUntilThreshold(cpu, mem) ==
  LeastOf(LeastOf(DaysUntil85(cpu, 10), DaysUntil85(mem, 15)), 365)

(* Without a history, which the tool never has: CPU is taken to grow by 1 and *)
(* memory by 1.5 points a day.                                               *)
CalculateTrending(p) ==
  estimateDaysUntilThreshold(calculatePercent(p.cpuUsed, p.cpuLimit),
                             calculatePercent(p.memUsed, p.memLimit))
=============================================================================

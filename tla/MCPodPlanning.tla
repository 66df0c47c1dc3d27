---------------------------- MODULE MCPodPlanning ----------------------------
EXTENDS PodPlanning

Capacity(scope, profile, custom, margin) ==
  [tool |-> "calculate-pod-capacity", scope |-> scope, profile |-> profile,
   custom |-> custom, margin |-> margin]

Scaling(target, current, system, infra) ==
  [tool |-> "analyze-scaling-impact", target |-> target, current |-> current,
   system |-> system, infra |-> infra]

Custom(n, cpuUnit, m, memUnit) ==
  [cpu |-> [n |-> n, unit |-> cpuUnit], mem |-> [n |-> m, unit |-> memUnit]]

\* A pod that asks for nothing, for one resource, for both; "1Gi", "512Ki", "512M".
MCCustom ==
  {NotGiven, Custom(0, "m", 0, "Mi"), Custom(300, "m", 0, "Mi"), Custom(10, "m", 100, "Mi"),
   Custom(1, "cores", 1, "Gi"), Custom(10, "m", 2560, "Ki"), Custom(10, "m", 512, "bytes")}

\* Margins at and beyond both ends of the range of the schema.  Targets on both sides of
\* the thresholds of the control plane, which the overhead's cap is among.
MCAsks ==
  {Capacity(s, p, NotGiven, m) : s \in {"cluster", "namespace"},
                                 p \in {"small", "medium", "large"}, m \in {-10, 0, 15, 50}}
    \cup {Capacity("namespace", "custom", c, m) : c \in MCCustom, m \in {0, 15, 110}}
    \cup {Scaling(t, c, FALSE, TRUE) : t \in {1, 2, 3, 4, 6, 12}, c \in {NotGiven, 0, 1, 3}}
    \cup {Scaling(t, c, TRUE, TRUE) : t \in {3, 9, 11, 16, 21}, c \in {0, 3, 10, 11, 30}}
    \cup {Scaling(t, 9, FALSE, FALSE) : t \in {10, 21}}

\* Tight in CPU, tight in memory, used up in one, without any recorded use; and quotas that
\* limit only memory, only CPU, or only the number of pods.
MCQuotas ==
  {NoQuota,
   [cpu |-> 1000, mem |-> 2048, pods |-> 3, cpuUsed |-> 500, memUsed |-> 512],
   [cpu |-> 2000, mem |-> 600, pods |-> 0, cpuUsed |-> 400, memUsed |-> 200],
   [cpu |-> 400, mem |-> 1024, pods |-> 0, cpuUsed |-> 600, memUsed |-> 128],
   [cpu |-> 1000, mem |-> 640, pods |-> 20, cpuUsed |-> 0, memUsed |-> 128],
   [cpu |-> 1400, mem |-> 900, pods |-> 0, cpuUsed |-> 300, memUsed |-> 150],
   [cpu |-> 2000, mem |-> 2000, pods |-> 0, cpuUsed |-> 1780, memUsed |-> 1699],
   [cpu |-> 0, mem |-> 1000, pods |-> 0, cpuUsed |-> 0, memUsed |-> 700],
   [cpu |-> 1000, mem |-> 0, pods |-> 0, cpuUsed |-> 700, memUsed |-> 0],
   [cpu |-> 0, mem |-> 0, pods |-> 10, cpuUsed |-> 0, memUsed |-> 0]}

MCUsages ==
  {[count |-> 0, cpu |-> 0, mem |-> 0, replicas |-> 0, perPod |-> NoPods],
   [count |-> 2, cpu |-> 400, mem |-> 200, replicas |-> 1, perPod |-> [cpu |-> 200, mem |-> 100]],
   [count |-> 3, cpu |-> 300, mem |-> 150, replicas |-> 3, perPod |-> [cpu |-> 100, mem |-> 50]],
   [count |-> 3, cpu |-> 0, mem |-> 300, replicas |-> 3, perPod |-> [cpu |-> 0, mem |-> 100]],
   [count |-> 3, cpu |-> 300, mem |-> 0, replicas |-> 3, perPod |-> [cpu |-> 100, mem |-> 0]],
   [count |-> 98, cpu |-> 980, mem |-> 490, replicas |-> 2, perPod |-> [cpu |-> 100, mem |-> 40]]}

\* No node, one node, and two of which one is not ready.
MCNodeSets ==
  {[total |-> 0, cpu |-> 0, mem |-> 0],
   [total |-> 1, cpu |-> 3000, mem |-> 1000],
   [total |-> 2, cpu |-> 90000, mem |-> 64000]}

=============================================================================

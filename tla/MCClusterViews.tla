--------------------------- MODULE MCClusterViews ---------------------------
EXTENDS ClusterViews, TLC

CONSTANT i1

\* cluster://health lives shorter than cluster://nodes.
MCTTL == [k \in Keys |-> IF k = "nodes" THEN 2 ELSE 1]

\* All is well; a remediation is completed, and as many have failed as a page can hold.
MCWorlds == {[node     |-> [n \in Nodes |-> "ready"],
              pod      |-> [p \in Pods |-> "Running"],
              incident |-> [i \in Incidents |-> IF i = i1 THEN "completed" ELSE "failed"],
              adr      |-> [a \in ADRs |-> "entry"]]}

\* Views of the same nodes together; the others do not meet.
MCAsked == {{"health", "nodes"}, {"tool", "nodes"}, {"incidents"}, {"history"}, {"adrs"}}

Symmetry == Permutations(Readers) \cup Permutations(Incidents \ {i1})

=============================================================================

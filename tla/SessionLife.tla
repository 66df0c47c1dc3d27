---------------------------- MODULE SessionLife ----------------------------
(***************************************************************************)
(* What a session store promises, without locks, pointers or clocks: an id  *)
(* is handed out once, is active until it is retired, and never returns;    *)
(* at no time are more than Capacity ids active.  An admission may retire   *)
(* sessions in the same step (the sweep of a full map).                     *)
(***************************************************************************)
EXTENDS Integers, FiniteSets

CONSTANTS SessionIds, Capacity

VARIABLE life

Active == {id \in SessionIds : life[id] = "active"}

Init == life = [id \in SessionIds |-> "unborn"]

Retire(S) == [id \in SessionIds |-> IF id \in S THEN "gone" ELSE life[id]]

(* The sessions of S end, by expiry or on request. *)
End(S) ==
  /\ S \subseteq Active
  /\ life' = Retire(S)

(* The sessions of S end and a new one begins. *)
Admit(id, S) ==
  /\ life[id] = "unborn"
  /\ S \subseteq Active
  /\ Cardinality(Active \ S) < Capacity
  /\ life' = [Retire(S) EXCEPT ![id] = "active"]

Next ==
  \E S \in SUBSET SessionIds :
    End(S) \/ \E id \in SessionIds : Admit(id, S)

Spec == Init /\ [][Next]_life
=============================================================================

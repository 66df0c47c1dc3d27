----------------------------- MODULE CacheStore -----------------------------
(***************************************************************************)
(* What a cache with a time to live promises, without locks, counters or a  *)
(* cleanup: what is stored is served until its time is over and not for an  *)
(* instant longer, and was read from its source within Lag before it was    *)
(* stored.  When a dead entry is swept away cannot be told.                  *)
(***************************************************************************)
EXTENDS Integers

CONSTANTS Keys,
          TTL,       \* TTL[k]: how long an entry of k is served
          Lag,       \* how long a value may be on its way into the store
          Nothing    \* what is served for a key without an entry

VARIABLES
  now,
  live       \* what is served for each key: when it was read, its expiration

vars == <<now, live>>

Init == now = 0 /\ live = [k \in Keys |-> Nothing]

(* A value that was read a while ago takes the place of what there is.       *)
Put(k) ==
  /\ \E t \in 0..now :
       /\ now <= t + Lag
       /\ live' = [live EXCEPT ![k] = [value |-> t, expiration |-> now + TTL[k]]]
  /\ UNCHANGED now

Drop(k) ==
  /\ live' = [live EXCEPT ![k] = Nothing]
  /\ UNCHANGED now

Clear ==
  /\ live' = [k \in Keys |-> Nothing]
  /\ UNCHANGED now

(* Time takes with it what is over.                                          *)
Tick ==
  /\ now' = now + 1
  /\ live' = [k \in Keys |-> IF live[k] # Nothing /\ live[k].expiration < now + 1
                             THEN Nothing ELSE live[k]]

Next == Tick \/ Clear \/ \E k \in Keys : Put(k) \/ Drop(k)

Spec == Init /\ [][Next]_vars
=============================================================================

-------------------------- MODULE RetryLoopProofs --------------------------
(***************************************************************************)
(* Proofs about the two loops that try again.  RetryBackoff: for every       *)
(* number of retries and all durations the result tells what the calls of   *)
(* fn returned and how many there were, and the sleeps follow the schedule.  *)
(* Healthcheck: for every limit the exit status tells what the probes were.  *)
(***************************************************************************)
EXTENDS RetryBackoff, Healthcheck, WellFoundedInduction, TLAPS

(* fn has been called once for each attempt begun, and goes on only after a   *)
(* retryable error; what the loop remembers is what the last call returned.  *)
Last == calls[Len(calls)]

LoopInStep ==
  /\ Len(calls) = IF pc = "calling" THEN attempt ELSE attempt + 1
  /\ \A k \in 1 .. Len(calls) - 1 : calls[k] \in Retryable
  /\ pc \in {"calling", "deciding"} => Len(sleeps) = attempt
  /\ pc = "selecting" => Len(sleeps) = attempt + 1
  /\ pc = "calling" /\ attempt > 0 => Last \in Retryable
  /\ pc = "deciding" => Last = lastErr /\ lastErr \in Errors
  /\ pc = "selecting" => Last \in Retryable /\ attempt < MaxRetries
  /\ pc # "returned" => result = "none"

(* The inductive invariant.                                                  *)
IInv == TypeOK /\ LoopInStep /\ ResultIsHonest

-----------------------------------------------------------------------------
(* Nothing has been called.                                                  *)
LEMMA InitIInv == Init => IInv
<1> SUFFICES ASSUME Init PROVE IInv
  OBVIOUS
<1>1. TypeOK
  BY RetryAssumption DEF Init, TypeOK, Results
<1>2. LoopInStep /\ ResultIsHonest
  BY RetryAssumption DEF Init, LoopInStep, ResultIsHonest
<1> QED
  BY <1>1, <1>2 DEF IInv

(* What the history of calls looks like after one more.                      *)
LEMMA OneMoreCall ==
  ASSUME IInv, pc = "calling", NEW e \in Errors \cup {"none"}, calls' = Append(calls, e)
  PROVE  /\ calls' \in Seq(Errors \cup {"none"})
         /\ Len(calls') = attempt + 1 /\ Last' = e
         /\ \A k \in 1 .. Len(calls') - 1 : calls'[k] \in Retryable
<1>1. calls \in Seq(Errors \cup {"none"}) /\ Len(calls) = attempt /\ attempt \in Nat
  BY RetryAssumption DEF IInv, TypeOK, LoopInStep
<1>2. \A k \in 1 .. Len(calls) : calls[k] \in Retryable
  BY <1>1 DEF IInv, LoopInStep, Last
<1> QED
  BY <1>1, <1>2 DEF Last

(* The calls of fn.                                                          *)
LEMMA FnKeepsIInv ==
  ASSUME IInv, FnSucceeds \/ \E err \in Errors : FnFails(err)
  PROVE  IInv'
<1>1. CASE FnSucceeds
  <2>1. /\ calls' \in Seq(Errors \cup {"none"})
        /\ Len(calls') = attempt + 1 /\ Last' = "none"
        /\ \A k \in 1 .. Len(calls') - 1 : calls'[k] \in Retryable
    BY <1>1, OneMoreCall DEF FnSucceeds
  <2>2. /\ pc' = "returned" /\ result' = "ok"
        /\ UNCHANGED <<attempt, backoff, lastErr, timer, ctx, sleeps>>
    BY <1>1 DEF FnSucceeds, Return
  <2>3. TypeOK'
    BY <2>1, <2>2 DEF IInv, TypeOK, Results
  <2>4. LoopInStep'
    BY <2>1, <2>2 DEF LoopInStep
  <2>5. attempt + 1 <= MaxRetries + 1
    BY RetryAssumption DEF IInv, TypeOK
  <2>6. ResultIsHonest'
    BY <2>1, <2>2, <2>5 DEF ResultIsHonest, Last
  <2> QED
    BY <2>3, <2>4, <2>6 DEF IInv
<1>2. ASSUME NEW err \in Errors, FnFails(err)
      PROVE  IInv'
  <2>1. /\ calls' \in Seq(Errors \cup {"none"})
        /\ Len(calls') = attempt + 1 /\ Last' = err
        /\ \A k \in 1 .. Len(calls') - 1 : calls'[k] \in Retryable
    BY <1>2, OneMoreCall DEF FnFails
  <2>2. /\ pc = "calling" /\ pc' = "deciding" /\ lastErr' = err
        /\ UNCHANGED <<attempt, backoff, timer, ctx, result, sleeps>>
    BY <1>2 DEF FnFails
  <2>3. TypeOK'
    BY <2>1, <2>2 DEF IInv, TypeOK
  <2>4. LoopInStep'
    BY <2>1, <2>2 DEF IInv, LoopInStep
  <2>5. ResultIsHonest'
    BY <2>1, <2>2, RetryAssumption DEF IInv, TypeOK, LoopInStep, ResultIsHonest, Last
  <2> QED
    BY <2>3, <2>4, <2>5 DEF IInv
<1> QED
  BY <1>1, <1>2

(* Giving up: the call just made decides the result.                         *)
LEMMA ReturnKeepsIInv ==
  ASSUME IInv, GiveUp \/ Exhaust \/ WakeCancelled
  PROVE  IInv'
<1>1. /\ pc \in {"deciding", "selecting"} /\ pc' = "returned"
      /\ UNCHANGED <<attempt, backoff, lastErr, timer, ctx, calls, sleeps>>
  BY DEF GiveUp, Exhaust, WakeCancelled, Return
<1>2. result' \in Results \ {"none", "ok"}
  BY DEF GiveUp, Exhaust, WakeCancelled, Return, Results
<1>3. TypeOK'
  BY <1>1, <1>2 DEF IInv, TypeOK
<1>4. LoopInStep'
  BY <1>1 DEF IInv, LoopInStep, Last
<1>5. Len(calls) = attempt + 1 /\ \A k \in 1 .. Len(calls) - 1 : calls[k] \in Retryable
  BY <1>1 DEF IInv, LoopInStep
<1>6. attempt + 1 <= MaxRetries + 1
  BY RetryAssumption DEF IInv, TypeOK
<1>7. ResultIsHonest'
  <2>1. CASE GiveUp
    <3>1. Last = "Other" /\ result' = "non-retryable error"
      BY <2>1 DEF GiveUp, Return, isRetryable, IInv, LoopInStep, Errors
    <3> QED
      BY <1>1, <1>5, <1>6, <3>1 DEF ResultIsHonest, Last
  <2>2. CASE Exhaust
    <3>1. /\ Last \in Retryable /\ attempt = MaxRetries /\ Len(sleeps) = attempt
          /\ result' = "max retries exceeded"
      BY <2>2 DEF Exhaust, Return, isRetryable, IInv, LoopInStep
    <3> QED
      BY <1>1, <1>5, <1>6, <3>1 DEF ResultIsHonest, Last
  <2>3. CASE WakeCancelled
    <3>1. Last \in Retryable /\ ctx = "cancelled" /\ result' = "context cancelled"
      BY <2>3 DEF WakeCancelled, Return, IInv, LoopInStep
    <3> QED
      BY <1>1, <1>5, <1>6, <3>1 DEF ResultIsHonest, Last
  <2> QED
    BY <2>1, <2>2, <2>3
<1> QED
  BY <1>3, <1>4, <1>7 DEF IInv

(* Going to sleep after an attempt that is not the last.                     *)
LEMMA SleepKeepsIInv ==
  ASSUME IInv, Sleep
  PROVE  IInv'
<1>1. /\ pc = "deciding" /\ pc' = "selecting" /\ lastErr \in Retryable
      /\ attempt # MaxRetries
      /\ timer' = backoff /\ sleeps' = Append(sleeps, backoff)
      /\ UNCHANGED <<attempt, backoff, lastErr, ctx, result, calls>>
  BY DEF Sleep, isRetryable
<1>2. TypeOK'
  BY <1>1 DEF IInv, TypeOK
<1>3. LoopInStep'
  BY <1>1, RetryAssumption DEF IInv, TypeOK, LoopInStep, Last
<1>4. ResultIsHonest'
  BY <1>1 DEF IInv, LoopInStep, ResultIsHonest
<1> QED
  BY <1>2, <1>3, <1>4 DEF IInv

(* Waking for the next attempt: there is one.                                *)
LEMMA WakeKeepsIInv ==
  ASSUME IInv, WakeRetry
  PROVE  IInv'
<1>1. /\ pc = "selecting" /\ pc' = "calling" /\ attempt' = attempt + 1
      /\ UNCHANGED <<lastErr, timer, ctx, result, calls, sleeps>>
  BY DEF WakeRetry
<1>2. attempt \in Nat /\ attempt < MaxRetries /\ MaxRetries \in Nat
  BY <1>1, RetryAssumption DEF IInv, TypeOK, LoopInStep
<1>3. backoff' \in Nat
  BY RetryAssumption DEF WakeRetry, IInv, TypeOK
<1>4. TypeOK'
  BY <1>1, <1>2, <1>3 DEF IInv, TypeOK
<1>5. LoopInStep'
  BY <1>1, <1>2 DEF IInv, LoopInStep, Last
<1>6. ResultIsHonest'
  BY <1>1 DEF IInv, LoopInStep, ResultIsHonest
<1> QED
  BY <1>4, <1>5, <1>6 DEF IInv

(* The clock, the caller's cancellation and stuttering.                      *)
LEMMA OutsideKeepsIInv ==
  ASSUME IInv, Tick \/ Cancel \/ UNCHANGED vars
  PROVE  IInv'
<1>1. UNCHANGED <<pc, attempt, backoff, lastErr, result, calls, sleeps>>
  BY DEF Tick, Cancel, vars
<1>2. timer' \in Nat /\ ctx' \in {"live", "cancelled"}
  BY DEF IInv, TypeOK, Tick, Cancel, vars
<1>3. ctx = "cancelled" => ctx' = "cancelled"
  BY DEF Tick, Cancel, vars
<1>4. TypeOK'
  BY <1>1, <1>2 DEF IInv, TypeOK
<1>5. LoopInStep'
  BY <1>1 DEF IInv, LoopInStep, Last
<1>6. ResultIsHonest'
  BY <1>1, <1>3 DEF IInv, ResultIsHonest
<1> QED
  BY <1>4, <1>5, <1>6 DEF IInv

(* Every step keeps the invariant.                                           *)
LEMMA NextKeepsIInv == IInv /\ [Next]_vars => IInv'
BY FnKeepsIInv, ReturnKeepsIInv, SleepKeepsIInv, WakeKeepsIInv, OutsideKeepsIInv
DEF Next, Loop

(* The inductive invariant holds throughout.                                 *)
THEOREM Invariance == Spec => []IInv
BY InitIInv, NextKeepsIInv, PTL DEF Spec

(* Type correctness; in particular the loop never counts past MaxRetries.    *)
THEOREM TypeCorrect == Spec => []TypeOK
<1>1. IInv => TypeOK
  BY DEF IInv
<1> QED
  BY Invariance, <1>1, PTL

(* fn is called at most MaxRetries + 1 times, only after retryable errors,    *)
(* and the result says which way the loop ended.                             *)
THEOREM ResultsAreHonest == Spec => []ResultIsHonest
<1>1. IInv => ResultIsHonest
  BY DEF IInv
<1> QED
  BY Invariance, <1>1, PTL

-----------------------------------------------------------------------------
(* Every nonempty set of naturals has a least element.                       *)
LEMMA Least ==
  ASSUME NEW T, T \subseteq Nat, T # {}
  PROVE \E x \in T : \A y \in T : x <= y
<1> DEFINE R == OpToRel(<, Nat)
<1>1. IsWellFoundedOn(R, Nat)
  BY NatLessThanWellFounded
<1>2. \A y, x \in Nat : y < x => <<y, x>> \in R
  BY DEF OpToRel
<1> HIDE DEF R
<1>3. PICK x \in T : \A y \in T : ~(<<y, x>> \in R)
  BY <1>1, WFMin
<1>4. x \in Nat /\ \A y \in T : y \in Nat
  OBVIOUS
<1>5. \A y \in T : ~(y < x)
  BY <1>2, <1>3, <1>4
<1>6. \A y \in T : x <= y
  BY <1>4, <1>5
<1> QED
  BY <1>6

(* Induction over the naturals for a set: a least n outside it has no n - 1.   *)
LEMMA InductionBySet ==
  ASSUME NEW S, 0 \in S, \A n \in Nat : n \in S => n + 1 \in S
  PROVE  \A n \in Nat : n \in S
<1> SUFFICES ASSUME Nat \ S # {} PROVE FALSE
  OBVIOUS
<1>1. PICK x \in Nat \ S : \A y \in Nat \ S : x <= y
  BY Least
<1>2. x # 0 /\ x - 1 \in Nat
  BY <1>1
<1>3. x - 1 \in S
  BY <1>1, <1>2
<1> QED
  BY <1>1, <1>2, <1>3

(* The functions that grow by Multiplier from InitialBackoff in n steps.     *)
GrowsFor(n) ==
  {g \in [Nat -> Nat] : /\ g[0] = InitialBackoff
                        /\ \A i \in 0 .. n - 1 : g[i + 1] = g[i] * Multiplier}

(* There are some for every n.                                               *)
LEMMA GrowthExists == \A n \in Nat : GrowsFor(n) # {}
<1> DEFINE S == {n \in Nat : GrowsFor(n) # {}}
<1>1. 0 \in S
  <2> DEFINE g == [k \in Nat |-> InitialBackoff]
  <2>1. g \in GrowsFor(0)
    BY RetryAssumption DEF GrowsFor
  <2> QED
    BY <2>1
<1>2. ASSUME NEW n \in Nat, n \in S
      PROVE  n + 1 \in S
  <2>1. PICK g \in GrowsFor(n) : TRUE
    BY <1>2
  <2> DEFINE h == [g EXCEPT ![n + 1] = g[n] * Multiplier]
  <2>2. h \in [Nat -> Nat]
    BY RetryAssumption DEF GrowsFor
  <2>3. \A i \in Nat : h[i] = IF i = n + 1 THEN g[n] * Multiplier ELSE g[i]
    BY DEF GrowsFor
  <2> HIDE DEF h
  <2>4. h[0] = InitialBackoff
    BY <2>3 DEF GrowsFor
  <2>5. ASSUME NEW i \in 0 .. (n + 1) - 1
        PROVE  h[i + 1] = h[i] * Multiplier
    <3>1. CASE i = n
      BY <2>3, <3>1
    <3>2. CASE i # n
      <4>1. i \in 0 .. n - 1 /\ i \in Nat /\ i + 1 \in Nat /\ i # n + 1 /\ i + 1 # n + 1
        BY <3>2
      <4> QED
        BY <2>3, <4>1 DEF GrowsFor
    <3> QED
      BY <3>1, <3>2
  <2>6. h \in GrowsFor(n + 1)
    BY <2>2, <2>4, <2>5 DEF GrowsFor
  <2> QED
    BY <2>6
<1> HIDE DEF S
<1>3. \A n \in Nat : n \in S
  BY <1>1, <1>2, InductionBySet
<1> QED
  BY <1>3 DEF S

(* They agree on what they have in common.                                   *)
LEMMA GrowthUnique ==
  ASSUME NEW n \in Nat, NEW g \in GrowsFor(n), NEW h \in GrowsFor(n)
  PROVE  g[n] = h[n]
<1> DEFINE S == {k \in Nat : k <= n => g[k] = h[k]}
<1>1. 0 \in S
  BY DEF GrowsFor
<1>2. ASSUME NEW k \in Nat, k \in S
      PROVE  k + 1 \in S
  <2> SUFFICES ASSUME k + 1 <= n
               PROVE  g[k + 1] = h[k + 1]
    OBVIOUS
  <2>1. k \in 0 .. n - 1 /\ g[k] = h[k]
    BY <1>2
  <2> QED
    BY <2>1 DEF GrowsFor
<1> HIDE DEF S
<1>3. n \in S
  BY <1>1, <1>2, InductionBySet
<1> QED
  BY <1>3 DEF S

(* The recursive definition of Exponential defines a function.               *)
LEMMA ExponentialEquation ==
  /\ Exponential \in [Nat -> Nat]
  /\ Exponential[0] = InitialBackoff
  /\ \A k \in Nat : Exponential[k + 1] = Exponential[k] * Multiplier
<1> DEFINE G(n) == CHOOSE g : g \in GrowsFor(n)
           F == [n \in Nat |-> G(n)[n]]
           Rec(f) == f = [k \in Nat |-> IF k = 0 THEN InitialBackoff
                                        ELSE f[k - 1] * Multiplier]
<1>1. \A n \in Nat : G(n) \in GrowsFor(n)
  BY GrowthExists
<1> HIDE DEF G
<1>2. F \in [Nat -> Nat] /\ F[0] = InitialBackoff
  BY <1>1 DEF GrowsFor
<1>3. ASSUME NEW n \in Nat
      PROVE  F[n + 1] = F[n] * Multiplier
  <2> DEFINE g == G(n)
             h == G(n + 1)
  <2>1. g \in GrowsFor(n) /\ h \in GrowsFor(n + 1) /\ F[n] = g[n] /\ F[n + 1] = h[n + 1]
    BY <1>1
  <2> HIDE DEF F, g, h
  <2>2. h \in GrowsFor(n) /\ h[n + 1] = h[n] * Multiplier
    BY <2>1 DEF GrowsFor
  <2>3. h[n] = g[n]
    BY <2>1, <2>2, GrowthUnique
  <2> QED
    BY <2>1, <2>2, <2>3
<1>4. Rec(F)
  <2>1. \A k \in Nat : F[k] = IF k = 0 THEN InitialBackoff ELSE F[k - 1] * Multiplier
    <3> SUFFICES ASSUME NEW k \in Nat, k # 0
                 PROVE  F[k] = F[k - 1] * Multiplier
      BY <1>2
    <3> HIDE DEF F
    <3>1. k - 1 \in Nat /\ (k - 1) + 1 = k
      OBVIOUS
    <3> QED
      BY <1>3, <3>1
  <2>2. F = [k \in Nat |-> F[k]]
    BY <1>2
  <2> HIDE DEF F
  <2> QED
    BY <2>1, <2>2
<1>5. Rec(Exponential)
  <2>1. Exponential = CHOOSE f : Rec(f)
    BY Zenon DEF Exponential
  <2> HIDE DEF F, Rec
  <2> QED
    BY <1>4, <2>1, Zenon
<1>6. \A k \in Nat : Exponential[k] = IF k = 0 THEN InitialBackoff
                                      ELSE Exponential[k - 1] * Multiplier
  BY <1>5
<1>7. \A k \in Nat : Exponential[k + 1] = Exponential[k] * Multiplier
  BY <1>6
<1>8. Exponential \in [Nat -> Nat]
  <2> DEFINE S == {k \in Nat : Exponential[k] \in Nat}
  <2>1. 0 \in S
    BY <1>6, RetryAssumption
  <2>2. \A k \in Nat : k \in S => k + 1 \in S
    BY <1>7, RetryAssumption
  <2> HIDE DEF S
  <2>3. \A k \in Nat : k \in S
    BY <2>1, <2>2, InductionBySet
  <2>4. Exponential = [k \in Nat |-> Exponential[k]]
    BY <1>5
  <2> QED
    BY <2>3, <2>4 DEF S
<1> QED
  BY <1>6, <1>7, <1>8

-----------------------------------------------------------------------------
(* Capping after every step or once at the end is the same.                  *)
LEMMA CapOnce ==
  ASSUME NEW e \in Nat
  PROVE  Min2(MaxBackoff, Min2(MaxBackoff, e) * Multiplier) = Min2(MaxBackoff, e * Multiplier)
<1>1. \A x \in Nat : x * Multiplier \in Nat /\ x <= x * Multiplier
  BY RetryAssumption
<1>2. CASE e <= MaxBackoff
  <2>1. Min2(MaxBackoff, e) = e
    BY <1>2, RetryAssumption DEF Min2
  <2> QED
    BY <2>1
<1>3. CASE ~(e <= MaxBackoff)
  <2>1. MaxBackoff <= MaxBackoff * Multiplier /\ MaxBackoff <= e * Multiplier
    BY <1>1, <1>3, RetryAssumption
  <2>2. MaxBackoff * Multiplier \in Nat /\ e * Multiplier \in Nat
    BY <1>1, RetryAssumption
  <2> QED
    BY <1>3, <2>1, <2>2, RetryAssumption DEF Min2
<1> QED
  BY <1>2, <1>3

(* The k-th sleep of the schedule, and the loop's backoff as the next one.    *)
Scheduled(k) == IF k = 0 THEN InitialBackoff ELSE Min2(MaxBackoff, Exponential[k])

ScheduleInv == backoff = Scheduled(attempt) /\ SleepsFollowSchedule

(* No sleep yet, and the first is InitialBackoff.                            *)
LEMMA InitScheduleInv == Init => ScheduleInv
BY DEF Init, ScheduleInv, Scheduled, SleepsFollowSchedule

(* The next backoff, capped, is the next of the schedule.                    *)
LEMMA WakeKeepsSchedule ==
  ASSUME IInv, ScheduleInv, WakeRetry
  PROVE  ScheduleInv'
<1>1. attempt \in Nat /\ attempt' = attempt + 1 /\ UNCHANGED sleeps
  BY RetryAssumption DEF IInv, TypeOK, WakeRetry
<1>2. backoff' = Min2(MaxBackoff, backoff * Multiplier)
  BY RetryAssumption DEF WakeRetry, Min2, IInv, TypeOK
<1>3. Exponential[attempt] \in Nat /\ Exponential[attempt + 1] = Exponential[attempt] * Multiplier
  BY <1>1, ExponentialEquation
<1>4. backoff' = Min2(MaxBackoff, Exponential[attempt + 1])
  <2>1. CASE attempt = 0
    BY <1>2, <1>3, <2>1, ExponentialEquation DEF ScheduleInv, Scheduled
  <2>2. CASE attempt # 0
    <3>1. backoff = Min2(MaxBackoff, Exponential[attempt])
      BY <2>2 DEF ScheduleInv, Scheduled
    <3> QED
      BY <1>2, <1>3, <3>1, CapOnce
  <2> QED
    BY <2>1, <2>2
<1>5. attempt + 1 # 0
  BY <1>1
<1> QED
  BY <1>1, <1>4, <1>5 DEF ScheduleInv, Scheduled, SleepsFollowSchedule

(* The sleep that begins is the one after those there were.                  *)
LEMMA SleepKeepsSchedule ==
  ASSUME IInv, ScheduleInv, Sleep
  PROVE  ScheduleInv'
<1>1. /\ attempt \in Nat /\ sleeps \in Seq(Nat) /\ Len(sleeps) = attempt /\ backoff \in Nat
      /\ sleeps' = Append(sleeps, backoff) /\ UNCHANGED <<attempt, backoff>>
  BY RetryAssumption DEF IInv, TypeOK, LoopInStep, Sleep
<1>2. SleepsFollowSchedule'
  <2> SUFFICES ASSUME NEW k \in 0 .. Len(sleeps') - 1
               PROVE  sleeps'[k + 1] = Scheduled(k)
    BY DEF SleepsFollowSchedule, Scheduled
  <2>1. CASE k = attempt
    BY <1>1, <2>1 DEF ScheduleInv
  <2>2. CASE k # attempt
    <3>1. k \in 0 .. Len(sleeps) - 1 /\ sleeps'[k + 1] = sleeps[k + 1]
      BY <1>1, <2>2
    <3> QED
      BY <3>1 DEF ScheduleInv, SleepsFollowSchedule, Scheduled
  <2> QED
    BY <2>1, <2>2
<1> QED
  BY <1>1, <1>2 DEF ScheduleInv, Scheduled

(* Only Sleep and WakeRetry touch what the schedule is about.                *)
LEMMA NextKeepsSchedule == IInv /\ ScheduleInv /\ [Next]_vars => ScheduleInv'
<1> SUFFICES ASSUME IInv, ScheduleInv, [Next]_vars
             PROVE  ScheduleInv'
  OBVIOUS
<1>1. CASE Sleep
  BY <1>1, SleepKeepsSchedule
<1>2. CASE WakeRetry
  BY <1>2, WakeKeepsSchedule
<1>3. CASE UNCHANGED <<attempt, backoff, sleeps>>
  BY <1>3 DEF ScheduleInv, Scheduled, SleepsFollowSchedule
<1> QED
  BY <1>1, <1>2, <1>3
  DEF Next, Loop, FnSucceeds, FnFails, GiveUp, Exhaust, WakeCancelled, Tick, Cancel, vars

(* Every sleep lasts as long as the schedule says, for any factor and cap.    *)
THEOREM SleepsAreScheduled == Spec => []SleepsFollowSchedule
<1>1. ScheduleInv => SleepsFollowSchedule
  BY DEF ScheduleInv
<1> QED
  BY Invariance, InitScheduleInv, NextKeepsSchedule, <1>1, PTL DEF Spec

(* The loop backs off: no sleep is shorter than the one before it, and none   *)
(* is longer than MaxBackoff (as long as the first, which is not capped, is    *)
(* not, as in DefaultRetryConfig).                                           *)
SleepsBackOff ==
  /\ \A k \in 1 .. Len(sleeps) : sleeps[k] <= MaxBackoff
  /\ \A k \in 1 .. Len(sleeps) - 1 : sleeps[k] <= sleeps[k + 1]

(* The schedule does, since the factor is at least one.                      *)
LEMMA ScheduleBacksOff ==
  ASSUME InitialBackoff <= MaxBackoff, NEW k \in Nat
  PROVE  Scheduled(k) \in Nat /\ Scheduled(k) <= MaxBackoff /\ Scheduled(k) <= Scheduled(k + 1)
<1>1. /\ Exponential[0] = InitialBackoff /\ Exponential[k] \in Nat
      /\ Exponential[k + 1] = Exponential[k] * Multiplier
  BY ExponentialEquation
<1>2. Exponential[k] * Multiplier \in Nat /\ Exponential[k] <= Exponential[k] * Multiplier
  BY <1>1, RetryAssumption
<1>3. Scheduled(k) = Min2(MaxBackoff, Exponential[k])
  BY <1>1, RetryAssumption DEF Scheduled, Min2
<1>4. Scheduled(k + 1) = Min2(MaxBackoff, Exponential[k + 1])
  BY DEF Scheduled
<1> QED
  BY <1>1, <1>2, <1>3, <1>4, RetryAssumption DEF Min2

(* The sleeps grow, up to MaxBackoff.                                        *)
THEOREM SleepsGrowToTheCap ==
  ASSUME InitialBackoff <= MaxBackoff
  PROVE  Spec => []SleepsBackOff
<1>1. ASSUME TypeOK, SleepsFollowSchedule
      PROVE  SleepsBackOff
  <2>1. Len(sleeps) \in Nat
    BY <1>1 DEF TypeOK
  <2>2. ASSUME NEW k \in 1 .. Len(sleeps)
        PROVE  k - 1 \in Nat /\ sleeps[k] = Scheduled(k - 1)
    <3>1. k - 1 \in 0 .. Len(sleeps) - 1 /\ (k - 1) + 1 = k
      BY <2>1
    <3> QED
      BY <1>1, <3>1 DEF SleepsFollowSchedule, Scheduled
  <2>3. \A k \in 1 .. Len(sleeps) : sleeps[k] <= MaxBackoff
    BY <2>2, ScheduleBacksOff
  <2>4. ASSUME NEW k \in 1 .. Len(sleeps) - 1
        PROVE  sleeps[k] <= sleeps[k + 1]
    <3>1. /\ k \in 1 .. Len(sleeps) /\ k + 1 \in 1 .. Len(sleeps)
          /\ k - 1 \in Nat /\ (k - 1) + 1 = k /\ (k + 1) - 1 = k
      BY <2>1
    <3>2. sleeps[k] = Scheduled(k - 1) /\ sleeps[k + 1] = Scheduled((k - 1) + 1)
      BY <2>2, <3>1
    <3> QED
      BY <3>1, <3>2, ScheduleBacksOff
  <2> QED
    BY <2>3, <2>4 DEF SleepsBackOff
<1> QED
  BY TypeCorrect, SleepsAreScheduled, <1>1, PTL

(* How far the loop is within an attempt.                                    *)
Left == [calling |-> 3, deciding |-> 2, selecting |-> 1, returned |-> 0]

(* No step of the loop goes back: the next attempt begins, and there are      *)
(* MaxRetries of them; or less of this attempt is left; or less of its sleep. *)
(* Only the caller's cancellation, once, leaves all three alone.  So the loop *)
(* ends if only it goes on.                                                  *)
LoopAdvances ==
  [][\/ attempt' = attempt + 1 /\ attempt' <= MaxRetries
     \/ attempt' = attempt /\ Left[pc'] < Left[pc]
     \/ attempt' = attempt /\ pc' = pc /\ timer' \in 0 .. timer - 1
     \/ UNCHANGED <<attempt, pc, timer>> /\ ctx = "live" /\ ctx' = "cancelled"]_vars

(* Every step of the retry loop takes it nearer to its end.                  *)
THEOREM LoopNeverGoesBack == Spec => LoopAdvances
<1>1. ASSUME IInv, [Next]_vars
      PROVE  [\/ attempt' = attempt + 1 /\ attempt' <= MaxRetries
              \/ attempt' = attempt /\ Left[pc'] < Left[pc]
              \/ attempt' = attempt /\ pc' = pc /\ timer' \in 0 .. timer - 1
              \/ UNCHANGED <<attempt, pc, timer>> /\ ctx = "live" /\ ctx' = "cancelled"]_vars
  <2>1. CASE WakeRetry
    BY <1>1, <2>1, RetryAssumption DEF WakeRetry, IInv, TypeOK, LoopInStep
  <2>2. CASE FnSucceeds
    BY <2>2 DEF FnSucceeds, Return, Left
  <2>7. CASE \E err \in Errors : FnFails(err)
    <3>1. pc = "calling" /\ pc' = "deciding" /\ attempt' = attempt
      BY <2>7 DEF FnFails
    <3>2. Left["deciding"] < Left["calling"]
      BY DEF Left
    <3> QED
      BY <3>1, <3>2
  <2>3. CASE GiveUp \/ Exhaust \/ Sleep \/ WakeCancelled
    <3>1. /\ attempt' = attempt
          /\ \/ pc = "deciding" /\ pc' = "returned"
             \/ pc = "deciding" /\ pc' = "selecting"
             \/ pc = "selecting" /\ pc' = "returned"
      BY <2>3 DEF GiveUp, Exhaust, Sleep, WakeCancelled, Return
    <3>2. /\ Left["returned"] < Left["deciding"]
          /\ Left["selecting"] < Left["deciding"]
          /\ Left["returned"] < Left["selecting"]
      BY DEF Left
    <3> QED
      BY <3>1, <3>2
  <2>4. CASE Tick
    BY <1>1, <2>4 DEF Tick, IInv, TypeOK
  <2>5. CASE Cancel
    BY <2>5 DEF Cancel
  <2>6. CASE UNCHANGED vars
    BY <2>6
  <2> QED
    BY <1>1, <2>1, <2>2, <2>7, <2>3, <2>4, <2>5, <2>6 DEF Next, Loop
<1> QED
  BY Invariance, <1>1, PTL DEF Spec, LoopAdvances

-----------------------------------------------------------------------------
(* The health-check command.                                                 *)
ProbeTypeOK ==
  /\ before \subseteq Options /\ opts \subseteq Options /\ url \in Urls
  /\ stage \in {"start", "loading", "probing", "sleeping", "exited"}
  /\ retries \in 0 .. MaxProbes /\ code \in {-1, 0, 1}
  /\ probes \in Seq(Answers)

Failed == \A k \in DOMAIN probes : probes[k] # "2xx"

Bad == {"unreadable-token-file", "malformed-header"}

(* What is parsed is what comes before the url, which is good once a request  *)
(* is made; the loop's counter counts the requests, which have all failed;    *)
(* and with a limit it goes on only below it.                                *)
ProbesInStep ==
  /\ stage # "start" => opts = before
  /\ stage \in {"start", "loading"} => probes = <<>> /\ retries = 0
  /\ stage = "loading" => url # "none"
  /\ stage # "exited" => code = -1 /\ Failed /\ Len(probes) = retries
  /\ stage \in {"probing", "sleeping"} =>
       url = "valid" /\ ("max-retries" \in before => retries < MaxRetriesOption)

ProbeInv == ProbeTypeOK /\ ProbesInStep /\ StatusTellsWhy

(* No probe yet.                                                             *)
LEMMA InitProbeInv == ProbeInit => ProbeInv
<1> SUFFICES ASSUME ProbeInit PROVE ProbeInv
  OBVIOUS
<1>1. ProbeTypeOK
  BY HealthcheckAssumption DEF ProbeInit, ProbeTypeOK
<1>2. ProbesInStep
  BY DEF ProbeInit, ProbesInStep, Failed
<1>3. StatusTellsWhy
  BY HealthcheckAssumption DEF ProbeInit, StatusTellsWhy
<1> QED
  BY <1>1, <1>2, <1>3 DEF ProbeInv

(* A command line that is wrong ends it before the first request.            *)
LEMMA BeforeProbesKeepInv ==
  ASSUME ProbeInv, Parse \/ Load
  PROVE  ProbeInv'
<1>1. UNCHANGED <<before, url, after, retries, probes>> /\ probes = <<>> /\ retries = 0
  BY DEF ProbeInv, ProbesInStep, Parse, Load
<1>2. opts' = before /\ stage \in {"start", "loading"} /\ code = -1
  BY DEF ProbeInv, ProbesInStep, Parse, Load
<1>3. \/ stage' = "exited" /\ code' = 1 /\ (url # "valid" \/ before \cap Bad # {})
      \/ stage' = "loading" /\ code' = -1 /\ url # "none"
      \/ stage' = "probing" /\ code' = -1 /\ url = "valid"
  <2>1. CASE Parse
    BY <1>2, <2>1 DEF Parse, Exit
  <2>2. CASE Load
    <3>1. opts = before /\ url \in {"valid", "malformed"}
      BY <2>2 DEF Load, ProbeInv, ProbesInStep, ProbeTypeOK, Urls
    <3> QED
      BY <1>2, <2>2, <3>1 DEF Load, Exit, Bad
  <2> QED
    BY <2>1, <2>2
<1>4. ProbeTypeOK'
  BY <1>1, <1>2, <1>3 DEF ProbeInv, ProbeTypeOK
<1>5. ProbesInStep'
  BY <1>1, <1>2, <1>3, HealthcheckAssumption DEF ProbesInStep, Failed
<1>6. StatusTellsWhy'
  BY <1>1, <1>2, <1>3, HealthcheckAssumption DEF StatusTellsWhy, Bad
<1> QED
  BY <1>4, <1>5, <1>6 DEF ProbeInv

(* What the history of probes looks like after one more.                     *)
LEMMA OneMoreProbe ==
  ASSUME ProbeInv, stage = "probing", NEW a \in Answers, probes' = Append(probes, a)
  PROVE  /\ probes' \in Seq(Answers) /\ Len(probes') = retries + 1 /\ probes' # <<>>
         /\ \A k \in 1 .. retries : probes'[k] # "2xx"
         /\ DOMAIN probes' = 1 .. retries + 1 /\ probes'[retries + 1] = a
<1>1. probes \in Seq(Answers) /\ Len(probes) = retries /\ retries \in Nat /\ Failed
  BY HealthcheckAssumption DEF ProbeInv, ProbeTypeOK, ProbesInStep
<1>2. \A k \in 1 .. retries : probes[k] # "2xx"
  BY <1>1 DEF Failed
<1> QED
  BY <1>1, <1>2

(* A 2xx answer: status 0, within the limit.                                 *)
LEMMA SuccessKeepsInv ==
  ASSUME ProbeInv, NEW a \in Answers, ProbeSucceeds(a)
  PROVE  ProbeInv'
<1>1. /\ stage = "probing" /\ a = "2xx" /\ probes' = Append(probes, a)
      /\ stage' = "exited" /\ code' = 0 /\ UNCHANGED <<before, url, after, opts, retries>>
  BY DEF ProbeSucceeds, Exit
<1>2. /\ probes' \in Seq(Answers) /\ Len(probes') = retries + 1
      /\ DOMAIN probes' = 1 .. retries + 1 /\ probes'[retries + 1] = "2xx"
  BY <1>1, OneMoreProbe
<1>3. /\ retries \in Nat /\ opts = before
      /\ "max-retries" \in before => retries < MaxRetriesOption
  BY <1>1, HealthcheckAssumption DEF ProbeInv, ProbeTypeOK, ProbesInStep
<1>4. ProbeTypeOK'
  BY <1>1, <1>2 DEF ProbeInv, ProbeTypeOK
<1>5. ProbesInStep'
  BY <1>1, <1>3 DEF ProbesInStep
<1>6. \E k \in DOMAIN probes' : probes'[k] = "2xx"
  BY <1>2, <1>3
<1>7. StatusTellsWhy'
  BY <1>1, <1>2, <1>3, <1>6, HealthcheckAssumption DEF StatusTellsWhy
<1> QED
  BY <1>4, <1>5, <1>7 DEF ProbeInv

(* Another answer: status 1 when it was the last probe allowed.              *)
LEMMA FailureKeepsInv ==
  ASSUME ProbeInv, NEW a \in Answers, ProbeFails(a)
  PROVE  ProbeInv'
<1>1. /\ stage = "probing" /\ a # "2xx" /\ opts = before /\ url = "valid" /\ code = -1
      /\ retries \in Nat /\ UNCHANGED <<before, url, after, opts>>
      /\ "max-retries" \in before => retries < MaxRetriesOption
  BY HealthcheckAssumption DEF ProbeFails, ProbeInv, ProbeTypeOK, ProbesInStep
<1>2. CASE retries < MaxProbes
  <2>1. retries' = retries + 1 /\ probes' = Append(probes, a)
    BY <1>2 DEF ProbeFails
  <2>2. /\ probes' \in Seq(Answers) /\ Len(probes') = retries + 1 /\ probes' # <<>>
        /\ \A k \in DOMAIN probes' : probes'[k] # "2xx"
    BY <1>1, <2>1, OneMoreProbe
  <2>3. \/ /\ stage' = "exited" /\ code' = 1
           /\ "max-retries" \in before /\ retries + 1 = MaxRetriesOption
        \/ /\ stage' = "sleeping" /\ code' = -1
           /\ "max-retries" \in before => retries + 1 < MaxRetriesOption
    BY <1>1, HealthcheckAssumption DEF ProbeFails, LimitReached, Limit, Exit
  <2>4. ProbeTypeOK'
    BY <1>1, <1>2, <2>1, <2>2, <2>3, HealthcheckAssumption DEF ProbeInv, ProbeTypeOK
  <2>5. ProbesInStep'
    BY <1>1, <2>1, <2>2, <2>3 DEF ProbesInStep, Failed
  <2>6. StatusTellsWhy'
    BY <1>1, <2>2, <2>3, HealthcheckAssumption DEF StatusTellsWhy
  <2> QED
    BY <2>4, <2>5, <2>6 DEF ProbeInv
<1>3. CASE ~(retries < MaxProbes)
  <2>1. "max-retries" \notin before
    BY <1>1, <1>3, HealthcheckAssumption DEF ProbeInv, ProbeTypeOK
  <2>2. UNCHANGED <<retries, probes, code>> /\ stage' = "sleeping"
    BY <1>1, <1>3, <2>1, HealthcheckAssumption DEF ProbeFails, LimitReached, Limit
  <2>3. ProbeTypeOK' /\ ProbesInStep'
    BY <1>1, <2>1, <2>2 DEF ProbeInv, ProbeTypeOK, ProbesInStep, Failed
  <2>4. StatusTellsWhy'
    BY <1>1, <2>2 DEF ProbeInv, StatusTellsWhy
  <2> QED
    BY <2>3, <2>4 DEF ProbeInv
<1> QED
  BY <1>2, <1>3

(* Every step of the health check keeps the invariant.                       *)
LEMMA NextKeepsProbeInv == ProbeInv /\ [ProbeNext]_probeVars => ProbeInv'
<1> SUFFICES ASSUME ProbeInv, [ProbeNext]_probeVars
             PROVE  ProbeInv'
  OBVIOUS
<1>1. CASE Wait
  <2>1. /\ stage = "sleeping" /\ stage' = "probing"
        /\ UNCHANGED <<before, url, after, opts, retries, code, probes>>
    BY <1>1 DEF Wait
  <2> QED
    BY <2>1 DEF ProbeInv, ProbeTypeOK, ProbesInStep, StatusTellsWhy, Failed
<1>2. CASE UNCHANGED probeVars
  BY <1>2 DEF probeVars, ProbeInv, ProbeTypeOK, ProbesInStep, StatusTellsWhy, Failed
<1> QED
  BY <1>1, <1>2, BeforeProbesKeepInv, SuccessKeepsInv, FailureKeepsInv DEF ProbeNext

(* The inductive invariant of the health check holds throughout.             *)
THEOREM ProbeInvariance == ProbeSpec => []ProbeInv
BY InitProbeInv, NextKeepsProbeInv, PTL DEF ProbeSpec

(* The exit status tells why, for every limit and every service.             *)
THEOREM StatusIsHonest == ProbeSpec => []StatusTellsWhy
<1>1. ProbeInv => StatusTellsWhy
  BY DEF ProbeInv
<1> QED
  BY ProbeInvariance, <1>1, PTL
=============================================================================

---------------------------- MODULE RetryBackoff ----------------------------
(***************************************************************************)
(* RetryWithBackoff of pkg/clients/retry.go (and WithRetry, which calls it  *)
(* with the default configuration): call fn, and while it fails with a      *)
(* retryable error sleep and call it again, until it succeeds, the attempts *)
(* are used up or the caller's context is cancelled.                        *)
(*                                                                         *)
(* Durations are naturals in some unit; Multiplier, a float64 in the code,  *)
(* is a natural.  The error of a Kubernetes call is one of a few kinds.     *)
(***************************************************************************)
EXTENDS Integers, Sequences

CONSTANTS MaxRetries, InitialBackoff, MaxBackoff, Multiplier  \* RetryConfig

ASSUME RetryAssumption ==
  /\ MaxRetries \in Nat
  /\ InitialBackoff \in Nat /\ MaxBackoff \in Nat
  /\ Multiplier \in Nat \ {0}

VARIABLES
  pc,         \* "calling" fn, "deciding", "selecting" (asleep), "returned"
  attempt,    \* the loop's attempt
  backoff,    \* the loop's backoff
  lastErr,    \* the kind of error the last call of fn returned
  timer,      \* what is left of time.After(backoff) while selecting
  ctx,        \* "live" or "cancelled"
  result,     \* what RetryWithBackoff returned
  calls,      \* history: the errors of the calls of fn so far, "none" for success
  sleeps      \* history: the backoffs it slept, or began to sleep

vars == <<pc, attempt, backoff, lastErr, timer, ctx, result, calls, sleeps>>

Retryable == {"Timeout", "ServerTimeout", "TooManyRequests", "InternalError",
              "ServiceUnavailable"}

(* "Other": connection refused, not found, forbidden, the context's error... *)
Errors == Retryable \cup {"Other"}

Results == {"none", "ok", "non-retryable error", "max retries exceeded", "context cancelled"}

Init ==
  /\ pc = "calling" /\ attempt = 0 /\ backoff = InitialBackoff
  /\ lastErr = "none" /\ timer = 0 /\ ctx = "live" /\ result = "none"
  /\ calls = <<>> /\ sleeps = <<>>

Return(r) == pc' = "returned" /\ result' = r

FnSucceeds ==
  /\ pc = "calling"
  /\ calls' = Append(calls, "none")
  /\ Return("ok")
  /\ UNCHANGED <<attempt, backoff, lastErr, timer, ctx, sleeps>>

FnFails(err) ==
  /\ pc = "calling"
  /\ calls' = Append(calls, err)
  /\ lastErr' = err
  /\ pc' = "deciding"
  /\ UNCHANGED <<attempt, backoff, timer, ctx, result, sleeps>>

isRetryable(err) == err \in Retryable

GiveUp ==
  /\ pc = "deciding" /\ ~isRetryable(lastErr)
  /\ Return("non-retryable error")
  /\ UNCHANGED <<attempt, backoff, lastErr, timer, ctx, calls, sleeps>>

(* Each Fault... is the operator after it with one plausible bug; no          *)
(* specification uses them.  They show that the properties can fail.         *)
FaultExhaustsLater ==
  /\ pc = "deciding" /\ isRetryable(lastErr) /\ attempt > MaxRetries
  /\ Return("max retries exceeded")
  /\ UNCHANGED <<attempt, backoff, lastErr, timer, ctx, calls, sleeps>>

(* No sleep after the last attempt.                                          *)
Exhaust ==
  /\ pc = "deciding" /\ isRetryable(lastErr) /\ attempt = MaxRetries
  /\ Return("max retries exceeded")
  /\ UNCHANGED <<attempt, backoff, lastErr, timer, ctx, calls, sleeps>>

(* time.After(backoff) starts.                                               *)
Sleep ==
  /\ pc = "deciding" /\ isRetryable(lastErr) /\ attempt # MaxRetries
  /\ pc' = "selecting"
  /\ timer' = backoff
  /\ sleeps' = Append(sleeps, backoff)
  /\ UNCHANGED <<attempt, backoff, lastErr, ctx, result, calls>>

(* The ctx.Done() case; when the timer has fired too, select picks either.   *)
WakeCancelled ==
  /\ pc = "selecting" /\ ctx = "cancelled"
  /\ Return("context cancelled")
  /\ UNCHANGED <<attempt, backoff, lastErr, timer, ctx, calls, sleeps>>

FaultBackoffNotCapped ==
  /\ pc = "selecting" /\ timer = 0
  /\ backoff' = backoff * Multiplier
  /\ attempt' = attempt + 1
  /\ pc' = "calling"
  /\ UNCHANGED <<lastErr, timer, ctx, result, calls, sleeps>>

FaultAttemptNotCounted ==
  /\ pc = "selecting" /\ timer = 0
  /\ LET next == backoff * Multiplier
     IN  backoff' = IF next > MaxBackoff THEN MaxBackoff ELSE next
  /\ attempt' = IF ctx = "live" THEN attempt + 1 ELSE attempt
  /\ pc' = "calling"
  /\ UNCHANGED <<lastErr, timer, ctx, result, calls, sleeps>>

(* The timer case, which sets the next backoff, and the loop's attempt++.    *)
WakeRetry ==
  /\ pc = "selecting" /\ timer = 0
  /\ LET next == backoff * Multiplier
     IN  backoff' = IF next > MaxBackoff THEN MaxBackoff ELSE next
  /\ attempt' = attempt + 1
  /\ pc' = "calling"
  /\ UNCHANGED <<lastErr, timer, ctx, result, calls, sleeps>>

Tick ==
  /\ pc = "selecting" /\ timer > 0
  /\ timer' = timer - 1
  /\ UNCHANGED <<pc, attempt, backoff, lastErr, ctx, result, calls, sleeps>>

(* The caller's context ends: its timeout, or a client that disconnects.     *)
Cancel ==
  /\ ctx = "live"
  /\ ctx' = "cancelled"
  /\ UNCHANGED <<pc, attempt, backoff, lastErr, timer, result, calls, sleeps>>

Loop ==
  \/ FnSucceeds \/ \E err \in Errors : FnFails(err)
  \/ GiveUp \/ Exhaust \/ Sleep \/ WakeCancelled \/ WakeRetry

Next == Loop \/ Tick \/ Cancel

(* fn returns, since its client has a request timeout, and time passes.      *)
Spec == Init /\ [][Next]_vars /\ WF_vars(Loop) /\ WF_vars(Tick)
-----------------------------------------------------------------------------
TypeOK ==
  /\ pc \in {"calling", "deciding", "selecting", "returned"}
  /\ attempt \in 0 .. MaxRetries
  /\ backoff \in Nat /\ timer \in Nat
  /\ lastErr \in Errors \cup {"none"}
  /\ ctx \in {"live", "cancelled"}
  /\ result \in Results
  /\ calls \in Seq(Errors \cup {"none"})
  /\ sleeps \in Seq(Nat)

Min2(a, b) == IF a <= b THEN a ELSE b

(* InitialBackoff * Multiplier^k: what the k-th sleep would be without a cap. *)
Exponential[k \in Nat] ==
  IF k = 0 THEN InitialBackoff ELSE Exponential[k - 1] * Multiplier

(* The k-th sleep lasts Exponential[k], at most MaxBackoff (but for the       *)
(* first, which is not capped), however the loop's variable got there by      *)
(* capping after each step.                                                  *)
SleepsFollowSchedule ==
  \A k \in 0 .. Len(sleeps) - 1 :
    sleeps[k + 1] = IF k = 0 THEN InitialBackoff ELSE Min2(MaxBackoff, Exponential[k])

(* What is returned tells what happened: "max retries exceeded" that all      *)
(* MaxRetries + 1 calls failed with a retryable error, "context cancelled     *)
(* after n attempts" that the context is and that n calls were made, the      *)
(* others what the last call returned; and at no time has fn been called more *)
(* often, or again after a success or an error that is not retryable.        *)
ResultIsHonest ==
  LET last == calls[Len(calls)]
  IN  /\ Len(calls) <= MaxRetries + 1
      /\ \A k \in 1 .. Len(calls) - 1 : calls[k] \in Retryable
      /\ result = "ok" => last = "none"
      /\ result = "non-retryable error" => last = "Other"
      /\ result = "max retries exceeded" =>
           last \in Retryable /\ Len(calls) = MaxRetries + 1 /\ Len(sleeps) = MaxRetries
      /\ result = "context cancelled" =>
           ctx = "cancelled" /\ last \in Retryable /\ Len(calls) = attempt + 1

(* The loop ends, whatever fn answers and whether or not it is cancelled.     *)
Returns == <>(pc = "returned")
=============================================================================

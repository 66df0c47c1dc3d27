---------------------------- MODULE Healthcheck ----------------------------
(***************************************************************************)
(* The init-container helper cmd/healthcheck/main.go: parse the command     *)
(* line, then GET the url again and again until it answers 2xx or, if       *)
(* --max-retries was given, that many probes have failed.                   *)
(*                                                                         *)
(* A command line is the options before the url, the url, and the options   *)
(* after it.  Package flag stops at the first argument that is not an       *)
(* option, so the options after the url, where the usage text puts them,    *)
(* are not parsed.                                                          *)
(*                                                                         *)
(* The definitions share no name with RetryBackoff, the other loop that     *)
(* tries again, so that RetryLoopProofs can extend both.                     *)
(***************************************************************************)
EXTENDS Integers, Sequences

CONSTANTS MaxRetriesOption,  \* the n of --max-retries=n, when it is given
          MaxProbes    \* from here on failed probes are no longer told apart, so that
               \* probing without a limit goes round for ever in finitely many states

ASSUME HealthcheckAssumption ==
  MaxRetriesOption \in Nat \ {0} /\ MaxProbes \in Nat /\ MaxProbes >= MaxRetriesOption

VARIABLES
  before, url, after,  \* the command line
  opts,       \* the options that flag.Parse has parsed
  stage,      \* "start", "loading" the token and headers, "probing", "sleeping", "exited"
  retries,    \* the loop's counter
  code,       \* the exit status, -1 while it runs
  probes      \* history: what each request came back with

probeVars == <<before, url, after, opts, stage, retries, code, probes>>

(* --bearer-token-file of a file that is not there, --header without a colon. *)
Options == {"max-retries", "unreadable-token-file", "malformed-header"}

Urls == {"none", "valid", "malformed"}

(* client.Do's error covers the request timeout; any status but 2xx is alike. *)
Answers == {"2xx", "other status", "error"}

ProbeInit ==
  /\ before \in SUBSET Options
  /\ url \in Urls
  /\ after \in IF url = "none" THEN {{}} ELSE SUBSET (Options \ before)
  /\ opts = {} /\ stage = "start" /\ retries = 0 /\ code = -1 /\ probes = <<>>

Exit(status) == stage' = "exited" /\ code' = status

(* flag.Parse; without an argument left the usage is printed.                *)
Parse ==
  /\ stage = "start"
  /\ opts' = before
  /\ IF url = "none" THEN Exit(1) ELSE stage' = "loading" /\ UNCHANGED code
  /\ UNCHANGED <<before, url, after, retries, probes>>

(* loadBearerToken, parseHeaders and, in the loop, NewRequest.               *)
Load ==
  /\ stage = "loading"
  /\ IF opts \cap {"unreadable-token-file", "malformed-header"} # {} \/ url = "malformed"
     THEN Exit(1) ELSE stage' = "probing" /\ UNCHANGED code
  /\ UNCHANGED <<before, url, after, opts, retries, probes>>

(* --max-retries is 0, no limit, unless given.                               *)
Limit == IF "max-retries" \in opts THEN MaxRetriesOption ELSE 0

(* Each Fault... is the operator after it with one plausible bug; no          *)
(* specification uses them.  They show that the properties can fail.         *)
FaultLimitOffByOne(n) == Limit > 0 /\ n > Limit

FaultLimitTestInverted(n) == Limit = 0 /\ n >= Limit

LimitReached(n) == Limit > 0 /\ n >= Limit

ProbeSucceeds(answer) ==
  /\ stage = "probing" /\ answer = "2xx"
  /\ probes' = Append(probes, answer)
  /\ Exit(0)
  /\ UNCHANGED <<before, url, after, opts, retries>>

ProbeFails(answer) ==
  /\ stage = "probing" /\ answer # "2xx"
  /\ IF retries < MaxProbes
     THEN probes' = Append(probes, answer) /\ retries' = retries + 1
     ELSE UNCHANGED <<probes, retries>>
  /\ IF LimitReached(retries + 1) THEN Exit(1) ELSE stage' = "sleeping" /\ UNCHANGED code
  /\ UNCHANGED <<before, url, after, opts>>

Wait ==
  /\ stage = "sleeping"
  /\ stage' = "probing"
  /\ UNCHANGED <<before, url, after, opts, retries, code, probes>>

ProbeNext ==
  \/ Parse \/ Load \/ Wait
  \/ \E answer \in Answers : ProbeSucceeds(answer) \/ ProbeFails(answer)

(* A request ends with an answer or with its timeout, a sleep ends.          *)
ProbeSpec == ProbeInit /\ [][ProbeNext]_probeVars /\ WF_probeVars(ProbeNext)
-----------------------------------------------------------------------------
(* The exit status tells why, by the options that were parsed: 0, on which the *)
(* pod goes on, is given by a 2xx answer and by nothing else, and no 2xx      *)
(* answer goes unnoticed; 1 after a probe only when exactly the number of     *)
(* probes the limit allows have failed, so never without a limit; 1 without a *)
(* probe only for a url or an option that is wrong.  A limit before the url   *)
(* is never exceeded (one after it is another question: LimitBoundsProbes).  *)
StatusTellsWhy ==
  /\ (code = 0) <=> (\E k \in DOMAIN probes : probes[k] = "2xx")
  /\ code = 1 =>
       IF probes = <<>>
       THEN url # "valid" \/ opts \cap {"unreadable-token-file", "malformed-header"} # {}
       ELSE "max-retries" \in opts /\ Len(probes) = MaxRetriesOption
  /\ "max-retries" \in before => Len(probes) <= MaxRetriesOption

(* What the usage text says and its example writes, healthcheck <url>         *)
(* [options]: a limit given anywhere on the command line bounds the probes.  *)
(* It fails: behind the url the option is not parsed, and the command probes  *)
(* for ever.                                                                 *)
LimitBoundsProbes == "max-retries" \in before \cup after => Len(probes) <= MaxRetriesOption

(* With a limit in effect it ends, whatever the service does.                *)
EndsWithinLimit == ("max-retries" \in opts) ~> (stage = "exited")
=============================================================================

# Verification of the OpenShift Cluster Health MCP Server

TLA+ specifications of the server in `src/` (a Go program), the TLC runs that
check them on small instances, and TLAPS proofs of the main results for every
value of the parameters. `PROJECT.json` maps every definition to the lines of
code it models.

## The system

The server speaks MCP over HTTP/SSE (through the MCP SDK) and a REST API of its
own. Both give access to *tools* (operations with arguments), *resources*
(cached documents `cluster://...`) and *prompts*. Behind them are a Kubernetes
client, a Coordination Engine client and a KServe client, one shared cache and
one session manager.

| Component | State it keeps | Operations | Hard behaviour |
|---|---|---|---|
| Session manager (`internal/server/session.go`) | map of sessions, each with CreatedAt, LastUsed, ExpiresAt; a mutex; a cleanup goroutine | CreateSession, GetSession, TouchSession, DeleteSession, GetStats, cleanup, Stop | check-then-act across two critical sections, reads without the lock, a limit with a sweep in front of it |
| REST API (`server.go`) | none of its own; the request under way | create, look up and delete a session; call a tool; read a resource | a session may vanish, or expire while a slow client sends its body, between the touch and the answer |
| Memory cache (`pkg/cache`) | entries with expiry, counters, RWMutex, cleanup goroutine | Get, Set, SetWithTTL, GetOrSet, Delete, Clear, ResetStatistics, Close | a counter written under the read lock; no single flight; late stores |
| Cached views (`internal/resources`, `tools/cluster_health.go`, `tools/list_adrs.go`) | entries of the cache | Read of four resources and two tools | several requests for one summary, incidents that move between them, pages that are cut off, staleness, two summaries of one thing |
| Planning tools (`calculate_pod_capacity.go`, `analyze_scaling_impact.go`, `pkg/capacity`) | none | a chain of requests with a default for each, then arithmetic: estimate, trend, projection, warnings, suggestion | partial failure, integer and float edges, thresholds repeated in several functions |
| Engine calls (`pkg/clients/coordination_engine.go`, `kserve.go`, `registerTool`, the tools that ask the engine, KServe or Kubernetes) | none here; the engine's effects | validation, requests to Kubernetes for a prediction, eleven request methods of the engine, model status and list, two deadlines | lost and late responses, effects that outlive the caller, arguments half decoded |
| Retry (`pkg/clients/retry.go`) | the loop | RetryWithBackoff, WithRetry | cancellation racing a timer, off-by-one. It has no caller in the repository |
| Process lifecycle (`cmd/mcp-server/main.go`, `startHTTPTransport`, `Stop`) | listener, context, error channel, signals | start, serve, shut down | signals at any moment, requests under way at shutdown, a Shutdown that polls |
| Start-up (`config.go`, `NewMCPServer`, `register*`) | configuration, clients, four tables of tools, resources and prompts | read and validate the environment, register, list | optional integrations, an unreachable cluster, prompts that name tools |
| Health-check command (`cmd/healthcheck`) | the probe loop | probe until 2xx or the limit | argument order, off-by-one of the limit |

Components meet as follows. A REST request goes through the session manager
twice (touch, look up) and then runs a tool or a resource; tools and resources
look in the shared cache and, on a miss, call the clients without any lock; the
cleanup goroutines of the cache and of the session manager run beside all of
them; main's signal goroutine cancels the context on which the transport waits.

What makes each correct, and the line where it could go wrong, is the list of
hazards in `PROJECT.json`; each names the properties that would notice.

## The modules

`Fault...` operators next to an action are plausible bugs in it. No
specification uses them; replacing the action by its fault must make TLC report
the property that is about it.

**SessionManager** — one action per critical section. `sessions` is the key set
of the map, `session[id]` the object a handler may still hold by pointer after
its id left the map, `mutex` the lock, `pc`/`ptr` where each handler is.
`CreateSession`, `DeleteSession`, `CleanupExpired` are single critical sections.
`GetSession` is `GetLookup` (under the lock), `GetCheck` (the comparison, outside
it) and `GetDelete` (a second critical section). `TouchSession` is three actions
under the lock, because `GetSession` reads ExpiresAt without it and the clock may
advance between its writes. A torn read of a `time.Time` cannot change the
comparison: `After` compares the monotonic word alone.
`SessionLife` is what a session store promises: an id is admitted once, at most
`Capacity` are active, ended ids stay ended; `LifeSpec` is the refinement
(`life[id]` is "active" in the map, "gone" when used before, else "unborn").

**RestApi** — composes request handlers with `SM == INSTANCE SessionManager`.
`handleCall` touches the session; then an unknown target is refused
(`RefuseTarget`), a resource is read (`Read`), and a tool waits for the body with
its arguments (`AwaitBody`) before it runs (`Execute`). http.Server sets no
ReadTimeout, so time passes freely while a handler waits for its client, the
session may expire meanwhile, and nothing asks for it again. A body that breaks
off means no arguments, and the tool runs. `handleInfo` looks the session up;
each request ends in `Reply` with the status the code sends.

**MemoryCache** — `Get` takes the read lock and loads a counter, `GetHit` and
`GetMiss` store it and release; all other methods are one critical section. A
value is the time at which its compute function read the cluster.

**CacheStore** — what a cache with a time to live promises, without locks,
counters, cleanup or single flight: what is stored is served for its ttl and no
instant longer, and was read from its source within `Lag` before it was stored.
`MemoryCache` implements it (`StoreSpec`; `Live` is what a lookup would serve),
and `ClusterViews` uses its cache as if it were one (`CachedSpec`), so the two
fit together: the views assume of the cache no more than `MemoryCache` gives.

**ClusterViews** — the reads of the resources, of `get-cluster-health` and of
`list-adrs` over the cache: `Hit`, or `Miss`, one `List` per request in the code's
order, `Store` or `ListFails`. Nodes, pods, incidents and the table of decision
records change meanwhile; nothing in `src/` says which statuses an incident may
take after which, so it may take any, and a failed one may be repaired. A request
for incidents brings one page, of which the engine chooses the contents when it
cannot hold them all (`Pages`; 100 in the code). `View` is the summary each `Read` computes; an index
of decision records without an entry is an error and is not stored.

**Capacity** — the calculator of `pkg/capacity` as functions: what is available,
the share of each resource, the limiting factor, the safe number, the percentages
rounded to a tenth and the days until 85%. **ScalingImpact** — the arithmetic of
`analyze-scaling-impact`: overhead, projection, infrastructure levels, warnings,
recommendation, suggestion and alternatives. **PodPlanning** — one action per
request of the two tools, each with its fallback, then `CalculatePodCapacity` or
`AnalyzeScalingImpact`, whose answer is one of those the functions allow.
Percentages are compared by cross multiplication; the only effect of float64
that is modelled is a whole product that is cut off one too low (`SafePods`,
`calculateSafeReplicas`). At exactly 85, 90, 95 or 100 percent the code's float
could fall on the other side. `GetResourceQuota` leaves a limit at 0 when the quota
does not name the resource; a share of it is then infinite or not a number, and
`GreaterShare`, `maxFloat` and `IsNumber` give what comparisons with that do. The
alternatives contain the present number of replicas, which the code calls safe
without looking.

**EngineCalls** — one call goes through validation (`Reject` or `Start`), for
`predict-resource-usage` the requests to Kubernetes for nodes and pods, the
request to its peer, and the optional one for trends. The peer is the engine, a
KServe predictor (`get-model-status`) or Kubernetes (`list-models`, `list-pods`).
`args` says how far the arguments decode: the MCP SDK checks them against the
schema, the REST handler does not. Each request has its HTTP client's timeout
(30 s; RequestTimeout for KServe, or 15 s if that is 0); an MCP call also has
`RequestTimeout` for all of it. `wire` is the one message under way; it may be
lost, or arrive after the caller was answered.

**RetryBackoff**, **ServerLifecycle**, **Startup**, **Healthcheck** — one action
per step of the program text they cite, with the engine, the network, net/http
and the clock as external actions. `Startup` ends where `ServerLifecycle` begins,
and `RetryBackoff` and `Healthcheck` are the two loops that try again; each pair
shares no name, so that one proof module extends both. `Shutdown` is modelled as
net/http does it: it polls (`Poll`, at most `PollInterval` apart, until a poll
finds nothing active), and when its context ends it fails without another poll.
`MCCommands` is an image with the two commands, of which a container runs one.

**SessionManagerProofs**, **RestApiProofs**, **MemoryCacheProofs**,
**ClusterViewsProofs**, **PodPlanningProofs**, **EngineCallsProofs** — theorems
about the module each is named after. **ProcessProofs** — `Startup` and
`ServerLifecycle`. **RetryLoopProofs** — `RetryBackoff` and `Healthcheck`.

## The runs

| Run | Question | Bounds and why they are enough |
|---|---|---|
| `sessions` | limit, locking, leases, life cycle | 2 handlers: every race in the code is between two calls, or a call and the cleanup; 3 ids for 2 places: one creation too many; ttl 2 and clock 4: a session expires, is extended, expires again. Symmetric in ids and handlers, no liveness |
| `session_race` | "nil if not found or expired" | same; **violated** |
| `rest` | answers, runs, what is left of a lease, liveness | 2 clients, 2 ids, 1 place, ttl 2, runs of at most 1, clock 3: a body may come after its session has expired; no symmetry since it checks liveness |
| `cache` | counters, evictions, freshness, cleanup, the abstract store | 2 callers, 2 keys with ttl 1 and 2, 2 lookups between resets: two lookups can overlap on one counter |
| `views` | staleness, agreement, history, the abstract store | 2 readers (the older may store after the newer), all six keys with two ttls, of which each behaviour asks for those that share requests (`Asked`): health or the tool with nodes, the others alone, since views of different lists do not meet; pages of 2 and 3 incidents, one completed and two failed: a page is full at first, and one change makes it overflow, counts an incident twice or has it missed; 1 change at any moment, clock 4: long enough for the longest ttl and fetch to pass after a change. Symmetric in readers and in the failed incidents, no liveness |
| `planning` | exact estimates and trends, honest alternatives, suggestions and advice | quotas that are loose, tight in CPU, tight in memory, overdrawn, without recorded use, at 85% and 89%, and ones that limit only memory, only CPU or only pods; deployments that use both resources or one; custom pods that ask for nothing or in each unit; margins 0, 15, 50 and outside the schema; targets on both sides of every threshold of the control plane and around the cap of the overhead; one change of the pods |
| `planning_quota` | safe pods within the quota's pod count | same; **violated** |
| `engine_calls` | effects, answers and time | 1 call: calls share no state; RequestTimeout 1, client timeouts 2, clock 9: all four requests of a prediction over REST can time out or just not, one after the other |
| `retry` | schedule, result, termination | 3 retries with doubling 1, 2, 4 capped at 3: the cap is reached and used again |
| `lifecycle` | shutdown | 2 calls, 1 stream, 2 signals, grace 3 with polls at most 1 apart: the last request may end before the last poll, after it, or not at all |
| `commands` | registration, validity, where prompts lead; exit status and its reason, limit | all combinations of switches; ports, ttls and timeouts at, below and above each check. All sets of options before and after the url, limit 3; failed probes beyond 4 are no longer told apart, so an unlimited probing goes round for ever. The two commands are checked in one run since neither has more to do with the other than the image |
| `healthcheck_options` | "healthcheck <url> [options]" | limit 3, probes to 4; **violated** |

Clocks, numbers of changes, signals, lookups and probes are bounded by the
constants `Max...`; a bound is a guard of the action that counts. Where
deadlock is not checked (`CHECK_DEADLOCK FALSE`) the component really ends: a
process exits, a call returns, a tool answers.

### Fairness

* `RestApi.FairSpec`: a handler that holds no lock goes on (weak fairness), except
  for one that waits for its body (`Execute` has no fairness: no client need send
  it, and no timeout ends the wait); one that needs the lock gets it in the end, and so does the sweep (strong
  fairness), since a Go mutex in starvation mode is handed to the longest
  waiter and the ticker fires for ever.
* `MemoryCache.FairSpec`: a lookup releases its read lock (weak); the cleanup
  gets the write lock (strong), since an RWMutex admits no new reader while a
  writer waits.
* `EngineCalls`: time passes and deadlines fire; nothing else is obliged to
  happen, neither Kubernetes nor the engine nor KServe need ever answer.
* `RetryBackoff`, `ServerLifecycle`, `Healthcheck`, `Startup`:
  the program goes on and timers fire, those of Shutdown's polls too. No fairness is assumed of clients, users,
  the cluster, the network or the engine. `fn` and request handlers end because
  their HTTP clients have timeouts.

### What disagrees with the documentation or the comments

Three disagreements are runs. `GetSession` removes a session that a concurrent
`TouchSession` has extended between its check and its delete. The pod limit of a
quota is read by `GetResourceQuota` and dropped by `getNamespaceCapacity`. Options
behind the url of `healthcheck`, where its usage text, its examples and the CI put
them, are not parsed, so a limit there does not bound the probes.

Others were met while modelling; they are recorded here and not checked.

* `Get` increments a counter under the read lock (`memory_cache.go:59`), so
  concurrent lookups lose counts; the type is documented as thread-safe.
* The first sleep of `RetryWithBackoff` is not capped by MaxBackoff.
* An open SSE stream always outlasts the grace period, so a signalled process
  with one exits with status 1. So may one whose last request ended in the grace
  period, but after the last poll of Shutdown.
* A tool call of a client that is slower with its body than the lease is answered
  with 200 and the id of a session that has expired; a client that never sends its
  body keeps the handler for ever.
* After `Stop`, `Start` waits for a context nobody cancels.
* Nothing reads `MaxConcurrentTools`.
* `REQUEST_TIMEOUT=0` passes Validate and lets every MCP tool call fail at once.
* Prompts and resources are never registered with the MCP SDK, only with the
  REST tables.
* `calculate-pod-capacity` describes other profiles than the calculator uses
  (small 50m/128Mi against 100m/64Mi); a usage that is, or rounds to, 85% is
  reported as 365 days from it; a margin below 0 makes more pods safe than
  possible; a decimal unit is not known, so "512M" is 512 bytes and 0 MiB, and
  "1.5Gi" is 1 GiB; the explanation says that a resource the pod does not ask for
  supports 0 pods.
* `analyze-scaling-impact` suggests a number of replicas "projected: ~85%" by
  scaling the whole namespace's usage, so that with other usage the suggestion
  misses it, and 0 for a target of 1; the alternative of the present replicas is
  always called safe.
* A quota without a limit for CPU or memory: `analyze-scaling-impact` divides by 0.
  If pods ask for the other resource only, it names CPU as the resource to increase
  although memory is exceeded, or with a CPU limit alone calls every target safe
  that is not exceeded; if they ask for the resource without a limit, every target
  is exceeded. Where the result holds an infinity or a NaN it cannot be encoded:
  over MCP the call fails, over REST it is a 200 with an empty body.
  `calculate-pod-capacity` takes the limit of 0 for none left and allows no pods that
  ask for the resource.
* The remediation history is put together from two requests: an incident that fails
  between them is counted twice, one that is repaired is missed, and of each status
  only the first 100 are seen.
* `get-cluster-health` divides by the numbers of nodes and pods: NaN for none.
* `trigger-remediation` ignores the error of `json.Unmarshal`: over REST, where
  no schema is checked, a `dry_run` of another JSON type is a real run.
* After 23:00 the default target time of `predict-resource-usage` is an hour of
  the same date, which is in the past, and it is parsed as UTC.
* `get-model-status` overwrites what KServe says of readiness with "the status was
  200" (`kserve.go:541`), which it always is there, so a model is never "not
  ready"; `list-models` answers a failed request with a success and a message, and
  suggests the first model even if it is not ready.
* `analyze-anomalies` has "predictive-analytics" as default model in its schema
  and "anomaly-detector" in its code.
* The core prompts tell the reader to use the engine's resources and
  `analyze-anomalies` also where these are not served; the numeric arguments of
  prompts are ignored, since MCP passes strings.
* `list-pods` counts the first page of 100 pods; a `namespace` of another JSON
  type lists those of all namespaces.
* `remediation-history` is said to have a 15 second ttl and has the default one.

## What is proved

Every safety property that a passing run checks is a theorem, for every value of
the constants that the assumption of its module admits. Some theorems state more
than a run does; their formulas are defined next to them, with the invariants
they need.

`SessionManagerProofs` proves, for every number of sessions, handlers and every
ttl, from `ManagerAssumption` alone (the limit and the ttl are naturals, the
sentinels are no ids or handlers):

* `TypeCorrect`, `SessionsStayBounded`, `TouchIsExclusive`, `LeaseIsFullTTL`:
  the invariants of the run `sessions`. The inductive invariant `IInv` adds that
  the map is finite (a cardinality says nothing of an infinite set) and that the
  pointer of a handler in a call is to a session that was created
  (`PointersUsed`; without it the touch of a stray id could break the lease of a
  session not yet created). Each group of actions has a lemma: actions that only
  remove ids, actions without the lock, creation, the three steps of a touch, the
  clock.
* `LiveStay`, `RefusalIsHonest`: action properties, from the same invariant.
* `LockNeverLeaks`: the mutex is held only by a handler in the middle of a touch.
  No early return of `TouchSession`, and no other method, leaves it locked; with
  weak fairness of the touch this is why everyone else gets it.
* `ImplementsLife`: every step is a step of `SessionLife` or leaves `life` alone.

`RestApiProofs` proves, for every number of clients and sessions, from
`ApiAssumption` (a run is shorter than the ttl: 30 s of the clients' timeouts
against 30 minutes), that the composition keeps `TypeOK`, that the session a
handler is about to answer with has the ttl less the run's limit left, less what
the client of a tool took to send its body (`AnswersAreUsable`), and that nothing
runs for a session that was not touched (`RunsAreAuthorized`). The body is not
bounded, and neither is what it takes from the lease: for a client slower than
that the theorem says no more than that, and the answer is for an expired session.
`HandlerOK` is the heart of
the invariant: it says of each handler what it may rely on at each step, in terms
of a lease that only moves forward (`Forward`), so that one lemma (`HandlerStep`)
shows that no handler disturbs another, and each action need only be looked at
for its own handler. The manager's actions are those of `SessionManager` itself.
The composition is also a refinement: each step of the API is a step of the
manager or leaves its variables alone (`ImplementsManager`). So the theorems
about the manager hold behind the handlers without being proved again
(`ApiInheritsSafety`, `ApiInheritsLife`), down to the abstract `SessionLife`:
RestApi implements SessionManager, which implements SessionLife.

`MemoryCacheProofs` proves, for every number of callers, every set of keys and
every ttl, from `CacheAssumption` (ttls and bounds are naturals, `NoEntry` is no
entry): `TypeCorrect`, `CountersStayHonest`, `EvictionsAddUp`, `ServedIsFresh` and
`ImplementsStore`, that every step is a step of `CacheStore` or serves the same.
The inductive invariant adds that the map is a finite function (the evictions are
a cardinality), that a counter loaded by a lookup is no more than the lookups
counted so far (`LoadedInBounds`; the lost update makes it stale, never too high),
and that computations and entries lie no later than the clock. What the race on
the counters can and cannot do is settled by two more: increments get lost, but
never all of them (`LookupsAreSeen`), and with a single caller none is
(`SoleCallerCountsExactly`).

`ClusterViewsProofs` proves, for every cluster, number of readers, ttls and set of
keys, from `ViewsAssumption`: `StalenessBounded`, `TwoViewsAgree`,
`HistoryIsRight`, `ImplementsStore` and the type invariant. The staleness needs
the invariant in between: what a reader has seen of a list is the list now if it
has not changed since the Read began (`SeenCurrent`), and what an entry shows is
the cluster now if none of its lists has changed since the Read that stored it
began (`EntryCurrent`), which `EntryInTime` places at most a ttl and a fetch ago.
`HistoryIsRight` is stated for incidents that take any status at any moment and for
every page limit: it tells which incidents may be counted twice or missed, those
that moved during the Read and, if a page is full, those that it left out. Its
invariant is `MovedSeen`: what a reader's pages hold of an incident that has not
moved since its Read began is what the incident was then.

`PodPlanningProofs` proves all five properties of the run `planning` for every
quota, usage, pod, margin and target, from `PlanningAssumption` (quantities are
naturals; a limit may be 0). The invariant only says what has been
read at each step and that the answer is one the functions allow; the work is in
the lemmas about the functions: division with rest, the rounding of a percentage
(`PercentRight`, `DaysRight`), the overhead and the projection rise with the
target (`OverheadRises`, `ProjectedRises`), comparing whole parts and rests is
comparing products (`ShareCompared`), the share that `maxFloat` returns bounds both
when it is a number (`MaxFloatRight`), and if the greater of two shares is brought
under 85% the other one is too (`BothUnder`). Two of the formulas except a quota that neither limits nor uses a
resource, because the code fails there (see above): `AdviceMatchesWarnings` the CPU,
and the second half of `AlternativesHold` the memory.

`EngineCallsProofs` proves, for every number of calls and all timeouts, from
`EngineAssumption`: `TypeCorrect`, `CallsStayInTime` (`CallsInTime`),
`SuccessIsReal` (`OkMeansApplied`) and `NeverTwice` (`AppliedAtMostOnce`). What is on the wire tells what the engine did
(`WireTellsEffect`): a response with a success status comes only after the
effect, and before the request there is none; `CallInStep` says how far a call is.
`CallsAdvance` is that no layer retries: a call makes each of its requests once,
its deadline is not renewed by anything the peer or the network does, and its
answer is final.

`ProcessProofs` proves of `ServerLifecycle`, for every number of calls, streams
and signals, from `LifecycleAssumption`: `TypeCorrect`, `CleanExitIsClean`,
`FailureHasCause` (status 1 is for a listener that failed, or for work that lasted
through the grace period, at least into the last interval between two polls;
`SeenAtPoll` is its invariant: the request that the last poll found is active, or
ended after it), and `ShutdownOnlyDrains`: once Shutdown has begun, by whichever
of its callers, requests only become fewer (`ClosedListener` is its invariant).
`CutOffAtExit` adds that a call is cut off only when the process ends, and that an
error waits for main only after the listener failed. Of `Startup` it proves, for
every environment, every state of the cluster and all ports, ttls and timeouts,
from `StartupAssumption`: `ServedCanBeUsed` and `PromptsNameWhatIsServed`, the
invariants of `Startup` in the run `commands`, and `SwitchesDecideTheTools`. The invariant
(`StartupInv`) says what NewConfig has read, which clients there are at each step,
and that a registry is either empty or complete, also when the start has failed.

`RetryLoopProofs` proves of `RetryBackoff`, for every configuration, from
`RetryAssumption`: `TypeCorrect`, `ResultsAreHonest`, `SleepsAreScheduled`,
`SleepsGrowToTheCap` and `LoopNeverGoesBack`. `LoopInStep` ties the number of
attempts, of sleeps and the last error to the place in the loop. The schedule is
the one proof about a recursive definition. `Exponential`, the initial backoff
times a power of the factor, is a recursive function; that its equation has a
solution at all (`ExponentialEquation`) needs that functions satisfying it up to
n exist for every n (`GrowthExists`) and agree (`GrowthUnique`). Both are
inductions, and since the library's induction theorem takes an operator, they
use one over a set (`InductionBySet`), from the least element of the set's
complement (`Least`, from the library's well-foundedness of the naturals). The
invariant `ScheduleInv` is that the loop's variable is the power capped once;
`CapOnce` is why capping after each step is the same. `SleepsGrowToTheCap`
assumes InitialBackoff <= MaxBackoff, as in DefaultRetryConfig, because the first
sleep is not capped. `LoopNeverGoesBack` is what the termination rests on, short
of the fairness.
Of `Healthcheck` it proves, for every limit, from `HealthcheckAssumption`:
`StatusIsHonest`. `ProbesInStep` adds that what has been parsed is what came
before the url, that all probes have failed as long as the loop goes on, and that
the counter is their number.

In all of them each action has a step, or a lemma when it needs several.

Only model-checked: what is stated under fairness (`RequestsAnswered`,
`ExpiredAreSwept`, `ExpiredEntriesRemoved`, `Returns`, `SignalEndsProcess`,
`CallsEnd`, `EndsWithinLimit`, `ValidEnvironmentServes`), which needs ENABLED. Of
some of them the safety half is proved: `LoopNeverGoesBack`, `CallsAdvance`,
`ShutdownOnlyDrains` and `LockNeverLeaks` say that no step undoes progress or
keeps what others wait for, and leave out only that steps are taken. No module
uses RECURSIVE.

## What is not modelled

* Of the KServe client, `DetectAnomalies`, `PredictFailures`, `Predict` and
  `HealthCheck`: nothing in the repository calls them.
* The metrics that the forecast and anomaly tools estimate, their times and their
  wording (their requests are in `EngineCalls`), and the payloads of the engine's
  and of KServe's endpoints: pure functions of one response.
* The filters of the listing tools, statistics per action and durations in the
  remediation history, pages of more than 100 pods.
* A history of usage for the calculator's trending, which no tool passes.
* The texts of prompts, beyond the tools and resources they name.
* `MaxConcurrentTools`, which nothing reads; a second `Stop` of the session
  manager, which nothing makes.
* The retries that Go's transport makes of idempotent GETs on a dead connection, and
  client-go's own retries and throttling (QPS and Burst), which only add time below
  the client's timeout.
* Connections that are accepted but not read from when `Shutdown` begins: net/http
  waits a few seconds for their first request; `Serve` takes a request when its
  handler starts. Responses are assumed to fit the connection's buffer or be read.
* The demo command, charts and pipelines.

## Plan

1. Done: sessions, REST, cache and its abstract store, views, planning with its
   two calculators, engine calls, retry, lifecycle, start-up with the prompts,
   health check; proofs of all safety properties that the runs check, the
   refinements, and the REST API as an implementation of the session manager.
2. Next modules: the numbers of the forecasts (`predict-resource-usage`,
   `predict-disk-exhaustion`: which of cluster, engine and defaults an answer
   comes from), the severities of `analyze-anomalies`.
3. Next proofs: the cache below the views as one system, as is done for the REST
   API over the session manager; variants for the bounded waits that TLC checks.
